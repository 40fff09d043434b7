------------------------- MODULE IcomRuntime_proofs -------------------------
(***************************************************************************)
(* Proofs of the safety properties of IcomRuntime, for any number of       *)
(* registers, length of the queue and number of restarts.                  *)
(***************************************************************************)
EXTENDS IcomRuntime, TLAPS

-----------------------------------------------------------------------------
(* The inductive invariant.                                                *)

\* The steps between the call of icom_create_timer and the started timer.
Building == {"malloc", "create", "flag", "start"}

\* app_main is done with its timer before it creates the task that makes others.
StartOrder ==
  /\ main >= 2 => maker["main"] = "done"
  /\ main <= 3 => maker["modbus"] = "off"
  /\ making["main"] \in {Ping, NoTimer}
  /\ making["modbus"] \in Polls \cup {Retry, NoTimer}
  /\ maker["main"] \in Building => making["main"] = Ping
  /\ maker["modbus"] \in Building => making["modbus"] # NoTimer
  /\ maker["modbus"] \in {"off", "connect"} => making["modbus"] = NoTimer

\* Timer t does not exist yet.
Clean(t) == argOf[t] = NoTimer /\ t \notin armed /\ t \notin repeat /\ called # t

\* The timers that do not exist yet.
NotYetMade ==
  /\ maker["main"] \in {"off", "malloc", "create"} => Clean(Ping)
  /\ maker["modbus"] \in {"off", "connect"} => \A t \in Polls \cup {Retry} : Clean(t)
  /\ \A t \in Polls : making["modbus"] \notin Polls \/ making["modbus"] < t => Clean(t)
  /\ maker["modbus"] \in {"malloc", "create"} => Clean(making["modbus"])
  /\ ctx => Clean(Retry) /\ making["modbus"] # Retry

\* The argument on its way to the timer it belongs to.
Arguments ==
  /\ \A m \in Makers : maker[m] = "create" => timerArg = making[m]
  /\ \A m \in Makers : maker[m] \in {"flag", "start"} =>
       argOf[making[m]] = making[m] /\ making[m] \notin armed /\ called # making[m]
  /\ \A t \in armed : argOf[t] = t
  /\ timerTask # "idle" =>
       called \in Timers /\ argOf[called] = called /\ called \notin armed

\* A ping that comes before there is a queue is counted.
EarlyPings ==
  timerTask = "call" /\ called = Ping /\ queue = NoQueue => restarts < MaxRestarts

Inv ==
  /\ TypeOK
  /\ OwnHandle
  /\ StartOrder
  /\ NotYetMade
  /\ Arguments
  /\ RepeatNeverLost
  /\ EarlyPings

-----------------------------------------------------------------------------
(* Facts about the parts.                                                  *)

LEMMA Places ==
  ASSUME main \in 1 .. 4
  PROVE  /\ At("ping") <=> main = 1
         /\ At("cloud") <=> main = 2
         /\ At("modbus") <=> main = 3
  <1>1. MainOrder[1] = "ping" /\ MainOrder[2] = "cloud"
        /\ MainOrder[3] = "modbus" /\ MainOrder[4] = "loop"
    BY DEF MainOrder
  <1>2. main = 1 \/ main = 2 \/ main = 3 \/ main = 4
    OBVIOUS
  <1>3. QED
    BY <1>1, <1>2 DEF At

LEMMA InitInv == Init => Inv
  <1>1. SUFFICES ASSUME Init PROVE Inv
    OBVIOUS
  <1>2. main = 1 /\ cloud = "off" /\ ctx = FALSE /\ timerArg = NoTimer /\ armed = {}
        /\ repeat = {} /\ timerTask = "idle" /\ called = NoTimer /\ queue = NoQueue
        /\ restarts = 0
    BY <1>1 DEF Init, Fresh
  <1>3. /\ maker = [m \in Makers |-> "off"]
        /\ making = [m \in Makers |-> NoTimer]
        /\ argOf = [t \in Timers |-> NoTimer]
    BY <1>1 DEF Init, Fresh
  <1>4. TypeOK
    <2>1. maker \in [Makers -> MakerSteps] /\ making \in [Makers -> Timers \cup {NoTimer}]
      BY <1>3 DEF MakerSteps
    <2>2. argOf \in [Timers -> Timers \cup {NoTimer}] /\ timerArg \in Timers \cup {NoTimer}
      BY <1>2, <1>3
    <2>3. ctx \in BOOLEAN
      BY <1>2, Zenon
    <2>4. /\ main \in 1 .. 4
          /\ restarts \in 0 .. MaxRestarts
          /\ queue \in {NoQueue} \cup 0 .. QueueLen
      BY <1>2, SizesAssumption
    <2>5. QED
      BY <1>2, <2>1, <2>2, <2>3, <2>4 DEF TypeOK
  <1>5. OwnHandle /\ RepeatNeverLost /\ EarlyPings
    BY <1>2, <1>3 DEF OwnHandle, RepeatNeverLost, EarlyPings
  <1>6. StartOrder /\ NotYetMade /\ Arguments
    BY <1>2, <1>3, SizesAssumption
       DEF StartOrder, NotYetMade, Arguments, Clean, Building, Makers, Timers, Polls,
           Ping, Retry, NoTimer
  <1>7. QED
    BY <1>4, <1>5, <1>6 DEF Inv

\* The state after a restart is the initial one but for the count.
LEMMA RestartInv ==
  ASSUME Inv, Restart, restarts < MaxRestarts
  PROVE  Inv'
  <1>2. main' = 1 /\ cloud' = "off" /\ ctx' = FALSE /\ timerArg' = NoTimer /\ armed' = {}
        /\ repeat' = {} /\ timerTask' = "idle" /\ called' = NoTimer /\ queue' = NoQueue
        /\ restarts' = restarts + 1
    BY DEF Restart, Fresh
  <1>3. /\ maker' = [m \in Makers |-> "off"]
        /\ making' = [m \in Makers |-> NoTimer]
        /\ argOf' = [t \in Timers |-> NoTimer]
    BY DEF Restart, Fresh
  <1>4. TypeOK'
    <2>1. maker' \in [Makers -> MakerSteps] /\ making' \in [Makers -> Timers \cup {NoTimer}]
      BY <1>3 DEF MakerSteps
    <2>2. argOf' \in [Timers -> Timers \cup {NoTimer}] /\ timerArg' \in Timers \cup {NoTimer}
      BY <1>2, <1>3
    <2>3. ctx' \in BOOLEAN
      BY <1>2, Zenon
    <2>4. /\ main' \in 1 .. 4
          /\ restarts' \in 0 .. MaxRestarts
          /\ queue' \in {NoQueue} \cup 0 .. QueueLen
      BY <1>2, SizesAssumption DEF Inv, TypeOK
    <2>5. QED
      BY <1>2, <2>1, <2>2, <2>3, <2>4 DEF TypeOK
  <1>5. OwnHandle' /\ RepeatNeverLost' /\ EarlyPings'
    BY <1>2, <1>3 DEF OwnHandle, RepeatNeverLost, EarlyPings
  <1>6. StartOrder' /\ NotYetMade' /\ Arguments'
    BY <1>2, <1>3, SizesAssumption
       DEF StartOrder, NotYetMade, Arguments, Clean, Building, Makers, Timers, Polls,
           Ping, Retry, NoTimer
  <1>7. QED
    BY <1>4, <1>5, <1>6 DEF Inv

\* Two tasks never make timers at the same time.
LEMMA OneMaker ==
  ASSUME Inv, NEW m \in Makers, maker[m] \in Building
  PROVE  /\ making[m] \in Timers
         /\ m = "main" => main = 1 /\ maker["modbus"] = "off" /\ making[m] = Ping
         /\ m = "modbus" => maker["main"] = "done" /\ making[m] \in Polls \cup {Retry}
         /\ \A k \in Makers : k # m => maker[k] \notin Building
  <1>1. m = "main" \/ m = "modbus"
    BY DEF Makers
  <1>2. CASE m = "main"
    BY <1>2, SizesAssumption
       DEF Inv, TypeOK, StartOrder, Building, Makers, Timers, Ping
  <1>3. CASE m = "modbus"
    BY <1>3, SizesAssumption
       DEF Inv, TypeOK, StartOrder, Building, Makers, Timers, Ping, Polls, Retry
  <1>4. QED
    BY <1>1, <1>2, <1>3

-----------------------------------------------------------------------------
(* The steps that make a timer.                                            *)

LEMMA MallocInv ==
  ASSUME Inv, NEW m \in Makers, Malloc(m)
  PROVE  Inv'
  <1> USE DEF Inv
  <1>1. /\ maker[m] = "malloc" /\ maker[m] \in Building
        /\ UNCHANGED <<main, making, cloud, ctx, argOf, armed, repeat, timerTask, called, queue, restarts>>
    BY DEF Malloc, Building
  <1>2. PICK s \in {"made", "create"} :
          /\ maker' = [maker EXCEPT ![m] = s]
          /\ s = "create" => timerArg' = making[m]
          /\ s = "made" => timerArg' = timerArg
    BY DEF Malloc
  <1>3. /\ making[m] \in Timers
        /\ m = "main" => main = 1 /\ maker["modbus"] = "off" /\ making[m] = Ping
        /\ m = "modbus" => maker["main"] = "done" /\ making[m] \in Polls \cup {Retry}
        /\ \A k \in Makers : k # m => maker[k] \notin Building
    BY <1>1, OneMaker
  <1>4. TypeOK'
    BY <1>1, <1>2, <1>3 DEF TypeOK, MakerSteps
  <1>5. \A k \in Makers : maker'[k] = IF k = m THEN s ELSE maker[k]
    BY <1>2 DEF TypeOK
  <1>6. m = "main" \/ m = "modbus"
    BY DEF Makers
  <1>7. StartOrder'
    BY <1>1, <1>2, <1>3, <1>5, <1>6 DEF StartOrder, Building, Makers, TypeOK
  <1>8. NotYetMade'
    BY <1>1, <1>2, <1>3, <1>5, <1>6 DEF NotYetMade, Clean, Makers
  <1>9. Arguments'
    BY <1>1, <1>2, <1>3, <1>5 DEF Arguments, Building
  <1>10. RepeatNeverLost'
    BY <1>1, <1>2, <1>3, <1>5 DEF RepeatNeverLost, InHand, Building
  <1>11. OwnHandle' /\ EarlyPings'
    BY <1>1 DEF OwnHandle, EarlyPings
  <1>12. QED
    BY <1>4, <1>7, <1>8, <1>9, <1>10, <1>11

LEMMA CreateInv ==
  ASSUME Inv, NEW m \in Makers, CreateTimer(m)
  PROVE  Inv'
  <1> USE DEF Inv
  <1>1. /\ maker[m] = "create" /\ maker[m] \in Building
        /\ maker' = [maker EXCEPT ![m] = "flag"]
        /\ argOf' = [argOf EXCEPT ![making[m]] = timerArg]
        /\ UNCHANGED <<main, making, cloud, ctx, timerArg, armed, repeat, timerTask, called, queue, restarts>>
    BY DEF CreateTimer, Building, Step, NextStep
  <1>3. /\ making[m] \in Timers
        /\ m = "main" => main = 1 /\ maker["modbus"] = "off" /\ making[m] = Ping
        /\ m = "modbus" => maker["main"] = "done" /\ making[m] \in Polls \cup {Retry}
        /\ \A k \in Makers : k # m => maker[k] \notin Building
    BY <1>1, OneMaker
  <1>4. TypeOK'
    BY <1>1, <1>3 DEF TypeOK, MakerSteps
  <1>5. /\ \A k \in Makers : maker'[k] = IF k = m THEN "flag" ELSE maker[k]
        /\ \A t \in Timers : argOf'[t] = IF t = making[m] THEN timerArg ELSE argOf[t]
    BY <1>1 DEF TypeOK
  <1>6. m = "main" \/ m = "modbus"
    BY DEF Makers
  <1>7. timerArg = making[m] /\ Clean(making[m])
    BY <1>1, <1>3, <1>6 DEF Arguments, NotYetMade
  <1>8. StartOrder'
    BY <1>1, <1>3, <1>5, <1>6 DEF StartOrder, Building, Makers, TypeOK
  <1>9. NotYetMade'
    <2>1. CASE m = "main"
      <3>1. \A t \in Timers : t # Ping => (Clean(t) => Clean(t)')
        BY <1>1, <1>3, <1>5, <2>1 DEF Clean
      <3>2. Polls \cup {Retry} \subseteq Timers /\ Ping \notin Polls \cup {Retry}
        BY SizesAssumption DEF Polls, Retry, Ping, Timers
      <3>3. maker'["main"] = "flag" /\ maker'["modbus"] = "off"
        BY <1>3, <1>5, <2>1 DEF Makers
      <3>4. QED
        BY <1>1, <1>3, <3>1, <3>2, <3>3 DEF NotYetMade
    <2>2. CASE m = "modbus"
      <3>1. \A t \in Timers : t # making[m] => (Clean(t) => Clean(t)')
        BY <1>1, <1>3, <1>5 DEF Clean
      <3>2. /\ Polls \cup {Retry} \subseteq Timers /\ Ping \in Timers
            /\ Ping \notin Polls \cup {Retry} /\ Polls \subseteq Int
        BY SizesAssumption DEF Polls, Retry, Ping, Timers
      <3>3. maker'["main"] = "done" /\ maker'["modbus"] = "flag"
        BY <1>3, <1>5, <2>2 DEF Makers
      <3>4. \A t \in Polls : making'["modbus"] \notin Polls \/ making'["modbus"] < t => Clean(t)'
        BY <1>1, <3>1, <3>2, <2>2 DEF NotYetMade
      <3>5. ctx' => Clean(Retry)' /\ making'["modbus"] # Retry
        BY <1>1, <3>1, <3>2, <2>2 DEF NotYetMade
      <3>6. QED
        BY <3>3, <3>4, <3>5 DEF NotYetMade
    <2>3. QED
      BY <1>6, <2>1, <2>2
  <1>10. Arguments'
    BY <1>1, <1>3, <1>5, <1>7 DEF Arguments, Building, Clean, TypeOK
  <1>11. RepeatNeverLost'
    BY <1>1, <1>3, <1>5 DEF RepeatNeverLost, InHand
  <1>12. OwnHandle' /\ EarlyPings'
    BY <1>1, <1>5, <1>7 DEF OwnHandle, EarlyPings
  <1>13. QED
    BY <1>4, <1>8, <1>9, <1>10, <1>11, <1>12

LEMMA SetFlagInv ==
  ASSUME Inv, NEW m \in Makers, SetFlag(m)
  PROVE  Inv'
  <1> USE DEF Inv
  <1>1. /\ maker[m] = "flag" /\ maker[m] \in Building
        /\ maker' = [maker EXCEPT ![m] = "start"]
        /\ repeat' = repeat \cup {making[m]}
        /\ UNCHANGED <<main, making, cloud, ctx, timerArg, argOf, armed, timerTask, called, queue, restarts>>
    BY DEF SetFlag, Building, Step, NextStep
  <1>3. /\ making[m] \in Timers
        /\ m = "main" => main = 1 /\ maker["modbus"] = "off" /\ making[m] = Ping
        /\ m = "modbus" => maker["main"] = "done" /\ making[m] \in Polls \cup {Retry}
        /\ \A k \in Makers : k # m => maker[k] \notin Building
    BY <1>1, OneMaker
  <1>4. TypeOK'
    BY <1>1, <1>3 DEF TypeOK, MakerSteps
  <1>5. \A k \in Makers : maker'[k] = IF k = m THEN "start" ELSE maker[k]
    BY <1>1 DEF TypeOK
  <1>6. m = "main" \/ m = "modbus"
    BY DEF Makers
  <1>7. argOf[making[m]] = making[m] /\ making[m] # NoTimer
    BY <1>1, <1>3 DEF Arguments, Timers, NoTimer
  <1>8. StartOrder'
    BY <1>1, <1>3, <1>5, <1>6 DEF StartOrder, Building, Makers, TypeOK
  <1>9. NotYetMade'
    <2>1. \A t : t # making[m] => (Clean(t) => Clean(t)')
      BY <1>1 DEF Clean
    <2>2. ~ Clean(making[m])
      BY <1>7 DEF Clean
    <2>3. \A k \in Makers : maker'[k] \in {"off", "connect", "malloc", "create"} => maker[k] = maker'[k]
      BY <1>5
    <2>4. "main" \in Makers /\ "modbus" \in Makers
      BY DEF Makers
    <2>5. QED
      BY <1>1, <2>1, <2>2, <2>3, <2>4 DEF NotYetMade
  <1>10. Arguments'
    BY <1>1, <1>3, <1>5 DEF Arguments, Building
  <1>11. RepeatNeverLost'
    BY <1>1, <1>3, <1>5 DEF RepeatNeverLost, InHand
  <1>12. OwnHandle' /\ EarlyPings'
    BY <1>1 DEF OwnHandle, EarlyPings
  <1>13. QED
    BY <1>4, <1>8, <1>9, <1>10, <1>11, <1>12

LEMMA StartTimerInv ==
  ASSUME Inv, NEW m \in Makers, StartTimer(m)
  PROVE  Inv'
  <1> USE DEF Inv
  <1>1. maker[m] = "start" /\ maker[m] \in Building
    BY DEF StartTimer, Building
  <1>2. argOf[making[m]] = making[m] /\ making[m] \notin armed /\ called # making[m]
    BY <1>1 DEF Arguments
  <1>3. /\ maker' = [maker EXCEPT ![m] = "made"]
        /\ armed' = armed \cup {making[m]}
        /\ UNCHANGED <<main, making, cloud, ctx, timerArg, argOf, repeat, timerTask, called, queue, restarts>>
    BY <1>1, <1>2 DEF StartTimer, Step, NextStep
  <1>4. /\ making[m] \in Timers
        /\ m = "main" => main = 1 /\ maker["modbus"] = "off" /\ making[m] = Ping
        /\ m = "modbus" => maker["main"] = "done" /\ making[m] \in Polls \cup {Retry}
        /\ \A k \in Makers : k # m => maker[k] \notin Building
    BY <1>1, OneMaker
  <1>5. TypeOK'
    BY <1>3, <1>4 DEF TypeOK, MakerSteps
  <1>6. \A k \in Makers : maker'[k] = IF k = m THEN "made" ELSE maker[k]
    BY <1>3 DEF TypeOK
  <1>0. making[m] # NoTimer
    BY <1>4 DEF Timers, NoTimer
  <1>7. m = "main" \/ m = "modbus"
    BY DEF Makers
  <1>8. StartOrder'
    BY <1>1, <1>3, <1>4, <1>6, <1>7 DEF StartOrder, Building, Makers, TypeOK
  <1>9. NotYetMade'
    <2>1. \A t : t # making[m] => (Clean(t) => Clean(t)')
      BY <1>3 DEF Clean
    <2>2. ~ Clean(making[m])
      BY <1>0, <1>2 DEF Clean
    <2>3. \A k \in Makers : maker'[k] \in {"off", "connect", "malloc", "create"} => maker[k] = maker'[k]
      BY <1>6
    <2>4. "main" \in Makers /\ "modbus" \in Makers
      BY DEF Makers
    <2>5. QED
      BY <1>3, <2>1, <2>2, <2>3, <2>4 DEF NotYetMade
  <1>10. Arguments'
    BY <1>2, <1>3, <1>4, <1>6 DEF Arguments, Building
  <1>11. RepeatNeverLost'
    BY <1>1, <1>3, <1>4, <1>6 DEF RepeatNeverLost, InHand, Building
  <1>12. OwnHandle' /\ EarlyPings'
    BY <1>3 DEF OwnHandle, EarlyPings
  <1>13. QED
    BY <1>5, <1>8, <1>9, <1>10, <1>11, <1>12

-----------------------------------------------------------------------------
(* The steps of the tasks.                                                 *)

LEMMA MainInv ==
  ASSUME Inv, MainPing \/ MainCreatesCloud \/ MainCreatesModbus
  PROVE  Inv'
  <1> USE DEF Inv
  <1>1. "main" \in Makers /\ "modbus" \in Makers /\ Makers = {"main", "modbus"}
    BY DEF Makers
  <1>2. /\ At("ping") <=> main = 1
        /\ At("cloud") <=> main = 2
        /\ At("modbus") <=> main = 3
    BY Places DEF TypeOK
  <1>3. CASE MainPing /\ maker["main"] = "off"
    <2>1. /\ main = 1 /\ maker["modbus"] = "off" /\ Clean(Ping)
          /\ maker' = [maker EXCEPT !["main"] = "malloc"]
          /\ making' = [making EXCEPT !["main"] = Ping]
          /\ UNCHANGED <<main, cloud, ctx, timerVars, timerTask, called, queue, restarts>>
      <3>1. main = 1
        BY <1>2, <1>3 DEF MainPing
      <3>2. QED
        BY <1>3, <3>1 DEF MainPing, Make, StartOrder, NotYetMade, TypeOK
    <2>2. /\ maker'["main"] = "malloc" /\ maker'["modbus"] = "off"
          /\ making'["main"] = Ping /\ making'["modbus"] = making["modbus"]
      BY <1>1, <2>1 DEF TypeOK
    <2>3. TypeOK'
      BY <1>1, <2>1, SizesAssumption DEF TypeOK, MakerSteps, timerVars, Timers, Ping
    <2>4. StartOrder' /\ NotYetMade' /\ Arguments'
      BY <1>1, <2>1, <2>2 DEF StartOrder, NotYetMade, Arguments, Building, Clean, timerVars
    <2>5. OwnHandle' /\ RepeatNeverLost' /\ EarlyPings'
      BY <1>1, <1>3, <2>1, <2>2 DEF OwnHandle, RepeatNeverLost, EarlyPings, InHand, timerVars
    <2>6. QED
      BY <2>3, <2>4, <2>5
  <1>4. CASE MainPing /\ maker["main"] # "off"
    <2>1. /\ main = 1 /\ maker["modbus"] = "off" /\ maker["main"] = "made"
          /\ maker' = [maker EXCEPT !["main"] = "done"]
          /\ main' = 2
          /\ UNCHANGED <<making, cloud, ctx, timerVars, timerTask, called, queue, restarts>>
      <3>1. main = 1
        BY <1>2, <1>4 DEF MainPing
      <3>2. QED
        BY <1>4, <3>1 DEF MainPing, StartOrder, TypeOK
    <2>2. maker'["main"] = "done" /\ maker'["modbus"] = "off"
      BY <1>1, <2>1 DEF TypeOK
    <2>3. TypeOK'
      BY <1>1, <2>1 DEF TypeOK, MakerSteps, timerVars
    <2>4. StartOrder' /\ NotYetMade' /\ Arguments'
      BY <1>1, <2>1, <2>2 DEF StartOrder, NotYetMade, Arguments, Building, Clean, timerVars
    <2>5. OwnHandle' /\ RepeatNeverLost' /\ EarlyPings'
      BY <1>1, <2>1, <2>2 DEF OwnHandle, RepeatNeverLost, EarlyPings, InHand, timerVars
    <2>6. QED
      BY <2>3, <2>4, <2>5
  <1>5. CASE MainCreatesCloud
    <2>1. /\ main = 2 /\ main' = 3 /\ cloud' = "create"
          /\ UNCHANGED <<maker, making, ctx, timerVars, timerTask, called, queue, restarts>>
      <3>1. main = 2
        BY <1>2, <1>5 DEF MainCreatesCloud
      <3>2. QED
        BY <1>5, <3>1 DEF MainCreatesCloud
    <2>2. TypeOK'
      BY <2>1 DEF TypeOK, timerVars
    <2>3. QED
      BY <2>1, <2>2 DEF OwnHandle, StartOrder, NotYetMade, Arguments, RepeatNeverLost,
                        EarlyPings, InHand, Clean, timerVars
  <1>6. CASE MainCreatesModbus
    <2>1. /\ main = 3 /\ main' = 4 /\ maker["main"] = "done" /\ maker["modbus"] = "off"
          /\ maker' = [maker EXCEPT !["modbus"] = "connect"]
          /\ UNCHANGED <<making, cloud, ctx, timerVars, timerTask, called, queue, restarts>>
      <3>1. main = 3
        BY <1>2, <1>6 DEF MainCreatesModbus
      <3>2. QED
        <4>1. main' = 4
          BY <1>6, <3>1 DEF MainCreatesModbus
        <4>2. maker["main"] = "done" /\ maker["modbus"] = "off"
          BY <3>1 DEF StartOrder
        <4>3. QED
          BY <1>6, <3>1, <4>1, <4>2 DEF MainCreatesModbus
    <2>2. maker'["main"] = "done" /\ maker'["modbus"] = "connect"
      BY <1>1, <2>1 DEF TypeOK
    <2>3. TypeOK'
      BY <1>1, <2>1 DEF TypeOK, MakerSteps, timerVars
    <2>4. StartOrder' /\ NotYetMade' /\ Arguments'
      BY <1>1, <2>1, <2>2 DEF StartOrder, NotYetMade, Arguments, Building, Clean, timerVars
    <2>5. OwnHandle' /\ RepeatNeverLost' /\ EarlyPings'
      BY <1>1, <2>1, <2>2 DEF OwnHandle, RepeatNeverLost, EarlyPings, InHand, timerVars
    <2>6. QED
      BY <2>3, <2>4, <2>5
  <1>7. QED
    BY <1>3, <1>4, <1>5, <1>6

LEMMA ModbusTaskInv ==
  ASSUME Inv, ModbusInit \/ ModbusPolls
  PROVE  Inv'
  <1> USE DEF Inv
  <1>1. "main" \in Makers /\ "modbus" \in Makers /\ Makers = {"main", "modbus"}
    BY DEF Makers
  <1>2. /\ Polls \cup {Retry} \subseteq Timers
        /\ Retry \notin Polls
        /\ NoTimer \notin Polls \cup {Retry}
        /\ \A t \in Polls : t \in Int
        /\ \A t \in Polls : t = 1 \/ t - 1 \in Polls
        /\ \A t \in Polls : 1 \in Polls /\ t >= 1
    BY SizesAssumption DEF Polls, Retry, Timers, NoTimer
  <1>3. maker["main"] = "done"
    BY DEF ModbusInit, ModbusPolls, StartOrder, TypeOK
  <1>4. CASE ModbusInit
    <2>1. /\ maker["modbus"] = "connect"
          /\ \A t \in Polls \cup {Retry} : Clean(t)
          /\ UNCHANGED <<main, cloud, timerVars, timerTask, called, queue, restarts>>
      BY <1>4 DEF ModbusInit, NotYetMade
    <2>2. ctx' \in BOOLEAN
      BY <1>4 DEF ModbusInit
    <2>3. \/ /\ ctx'
             /\ maker' = [maker EXCEPT !["modbus"] = "made"]
             /\ making' = making
          \/ /\ ~ ctx'
             /\ maker' = [maker EXCEPT !["modbus"] = "malloc"]
             /\ making' = [making EXCEPT !["modbus"] = Retry]
      BY <1>4 DEF ModbusInit, Connects, Make
    <2>4. CASE ctx' /\ maker' = [maker EXCEPT !["modbus"] = "made"] /\ making' = making
      <3>1. maker'["main"] = "done" /\ maker'["modbus"] = "made"
        BY <1>1, <1>3, <2>4 DEF TypeOK
      <3>2. TypeOK'
        BY <1>1, <2>1, <2>2, <2>4 DEF TypeOK, MakerSteps, timerVars
      <3>3. StartOrder'
        BY <1>1, <2>1, <2>4, <3>1 DEF StartOrder, Building, TypeOK
      <3>4. NotYetMade' /\ Arguments'
        BY <1>1, <1>2, <1>3, <2>1, <2>4, <3>1
           DEF StartOrder, NotYetMade, Arguments, Clean, timerVars
      <3>5. QED
        BY <1>1, <1>3, <2>1, <2>4, <3>1, <3>2, <3>3, <3>4
           DEF OwnHandle, RepeatNeverLost, EarlyPings, InHand, timerVars
    <2>5. CASE /\ ~ ctx'
               /\ maker' = [maker EXCEPT !["modbus"] = "malloc"]
               /\ making' = [making EXCEPT !["modbus"] = Retry]
      <3>1. /\ maker'["main"] = "done" /\ maker'["modbus"] = "malloc"
            /\ making'["main"] = making["main"] /\ making'["modbus"] = Retry
        BY <1>1, <1>3, <2>5 DEF TypeOK
      <3>2. TypeOK'
        BY <1>1, <1>2, <2>1, <2>2, <2>5 DEF TypeOK, MakerSteps, timerVars
      <3>3. StartOrder'
        BY <1>1, <1>2, <2>1, <2>5, <3>1 DEF StartOrder, Building, TypeOK
      <3>4. NotYetMade' /\ Arguments'
        BY <1>1, <1>2, <1>3, <2>1, <2>5, <3>1 DEF NotYetMade, Arguments, Clean, timerVars
      <3>5. QED
        BY <1>1, <1>3, <2>1, <2>5, <3>1, <3>2, <3>3, <3>4
           DEF OwnHandle, RepeatNeverLost, EarlyPings, InHand, timerVars
    <2>6. QED
      BY <2>3, <2>4, <2>5
  <1>5. CASE ModbusPolls
    <2>1. /\ maker["modbus"] = "made"
          /\ UNCHANGED <<main, cloud, ctx, timerVars, timerTask, called, queue, restarts>>
      BY <1>5 DEF ModbusPolls
    <2>2. CASE NextTimer \in Polls
      <3>1. /\ maker' = [maker EXCEPT !["modbus"] = "malloc"]
            /\ making' = [making EXCEPT !["modbus"] = NextTimer]
        BY <1>5, <2>2 DEF ModbusPolls, Make
      <3>2. /\ maker'["main"] = "done" /\ maker'["modbus"] = "malloc"
            /\ making'["main"] = making["main"] /\ making'["modbus"] = NextTimer
        BY <1>1, <1>3, <3>1 DEF TypeOK
      <3>3. /\ Clean(NextTimer)
            /\ \A t \in Polls : NextTimer < t => Clean(t)
        <4>1. CASE making["modbus"] \in Polls
          <5>1. NextTimer = making["modbus"] + 1
            BY <4>1 DEF NextTimer
          <5>2. \A t \in Polls : NextTimer <= t => making["modbus"] < t
            BY <1>2, <4>1, <5>1
          <5>3. NextTimer <= NextTimer
            BY <1>2, <2>2
          <5>4. \A t \in Polls : NextTimer < t => NextTimer <= t
            BY <1>2, <2>2
          <5>5. QED
            BY <2>2, <5>2, <5>3, <5>4 DEF NotYetMade
        <4>2. CASE making["modbus"] \notin Polls
          BY <2>2, <4>2 DEF NotYetMade
        <4>3. QED
          BY <4>1, <4>2
      <3>4. TypeOK'
        BY <1>1, <1>2, <2>1, <2>2, <3>1 DEF TypeOK, MakerSteps, timerVars
      <3>5. StartOrder'
        BY <1>1, <1>2, <2>1, <2>2, <3>2 DEF StartOrder, Building, TypeOK
      <3>6. NotYetMade'
        BY <1>1, <1>2, <2>1, <2>2, <3>2, <3>3 DEF NotYetMade, Clean, timerVars
      <3>7. Arguments' /\ RepeatNeverLost'
        BY <1>1, <1>3, <2>1, <3>2 DEF Arguments, RepeatNeverLost, InHand, timerVars
      <3>8. QED
        BY <2>1, <3>4, <3>5, <3>6, <3>7 DEF OwnHandle, EarlyPings, timerVars
    <2>3. CASE NextTimer \notin Polls
      <3>1. maker' = [maker EXCEPT !["modbus"] = "done"] /\ making' = making
        BY <1>5, <2>3 DEF ModbusPolls
      <3>2. maker'["main"] = "done" /\ maker'["modbus"] = "done"
        BY <1>1, <1>3, <3>1 DEF TypeOK
      <3>4. TypeOK'
        BY <1>1, <2>1, <3>1 DEF TypeOK, MakerSteps, timerVars
      <3>5. StartOrder' /\ NotYetMade'
        BY <1>1, <2>1, <3>1, <3>2 DEF StartOrder, Building, TypeOK, NotYetMade, Clean, timerVars
      <3>6. Arguments' /\ RepeatNeverLost'
        BY <1>1, <1>3, <2>1, <3>1, <3>2 DEF Arguments, RepeatNeverLost, InHand, timerVars
      <3>7. QED
        BY <2>1, <3>4, <3>5, <3>6 DEF OwnHandle, EarlyPings, timerVars
    <2>4. QED
      BY <2>2, <2>3
  <1>6. QED
    BY <1>4, <1>5

LEMMA CloudInv ==
  ASSUME Inv, Cloud
  PROVE  Inv'
  <1> USE DEF Inv
  <1>1. /\ UNCHANGED <<main, maker, making, ctx, timerVars, timerTask, called, restarts>>
        /\ cloud' \in {"receive", "delay"}
        /\ queue' \in {NoQueue} \cup 0 .. QueueLen
        /\ queue' = NoQueue => queue = NoQueue
    BY SizesAssumption
       DEF Cloud, CloudStarts, CloudReceives, CloudWakes, TypeOK, NoQueue
  <1>2. TypeOK'
    BY <1>1 DEF TypeOK, timerVars
  <1>3. StartOrder' /\ NotYetMade' /\ Arguments'
    BY <1>1 DEF StartOrder, NotYetMade, Arguments, Clean, timerVars
  <1>4. OwnHandle' /\ RepeatNeverLost' /\ EarlyPings'
    BY <1>1 DEF OwnHandle, RepeatNeverLost, EarlyPings, InHand, timerVars
  <1>5. QED
    BY <1>2, <1>3, <1>4

-----------------------------------------------------------------------------
(* The steps of the esp_timer task.                                        *)

\* A timer that runs, or whose callback is called, has been made.
LEMMA Made ==
  ASSUME Inv
  PROVE  /\ \A t \in armed : ~ Clean(t)
         /\ timerTask # "idle" => ~ Clean(called)
         /\ NoTimer \notin Timers
  <1>1. NoTimer \notin Timers
    BY SizesAssumption DEF NoTimer, Timers
  <1>2. QED
    BY <1>1 DEF Clean

LEMMA ExpiresInv ==
  ASSUME Inv, NEW t \in Timers, Expires(t)
  PROVE  Inv'
  <1> USE DEF Inv
  <1>1. /\ timerTask = "idle" /\ t \in armed /\ argOf[t] = t
        /\ t = Ping /\ queue = NoQueue => restarts < MaxRestarts
        /\ armed' = armed \ {t} /\ called' = t /\ timerTask' = "call"
        /\ UNCHANGED <<startVars, timerArg, argOf, repeat, queue, restarts>>
    BY DEF Expires, Arguments
  <1>2. ~ Clean(t) /\ argOf[t] # NoTimer
    BY <1>1, Made DEF Clean
  <1>3. TypeOK'
    BY <1>1 DEF TypeOK, startVars
  <1>4. \A u : Clean(u) => Clean(u)'
    BY <1>1, <1>2 DEF Clean
  <1>5. NotYetMade' /\ StartOrder'
    BY <1>1, <1>4 DEF NotYetMade, StartOrder, startVars
  <1>6. Arguments'
    BY <1>1 DEF Arguments, startVars
  <1>7. RepeatNeverLost'
    BY <1>1 DEF RepeatNeverLost, InHand, startVars
  <1>8. OwnHandle' /\ EarlyPings'
    BY <1>1 DEF OwnHandle, EarlyPings, startVars
  <1>9. QED
    BY <1>3, <1>5, <1>6, <1>7, <1>8

\* The callback returns.
LEMMA ReturnInv ==
  ASSUME Inv, Return("again"),
         queue' \in {NoQueue} \cup 0 .. QueueLen
  PROVE  Inv'
  <1> USE DEF Inv
  <1>1. /\ timerTask = "call" /\ timerTask' = "again"
        /\ UNCHANGED <<startVars, timerVars, called, restarts>>
    BY DEF Return
  <1>2. TypeOK'
    BY <1>1 DEF TypeOK, startVars, timerVars
  <1>3. StartOrder' /\ NotYetMade' /\ Arguments'
    BY <1>1 DEF StartOrder, NotYetMade, Arguments, Clean, startVars, timerVars
  <1>4. OwnHandle' /\ RepeatNeverLost' /\ EarlyPings'
    BY <1>1 DEF OwnHandle, RepeatNeverLost, EarlyPings, InHand, startVars, timerVars
  <1>5. QED
    BY <1>2, <1>3, <1>4

LEMMA TimerTaskInv ==
  ASSUME Inv, TimerTask
  PROVE  Inv'
  <1>1. queue \in {NoQueue} \cup 0 .. QueueLen
    BY DEF Inv, TypeOK
  <1>2. CASE PingSends
    <2>1. queue' \in 0 .. QueueLen
      BY <1>2, SizesAssumption DEF PingSends
    <2>2. QED
      BY <1>2, <2>1, ReturnInv DEF PingSends
  <1>3. CASE PingGivesUp
    BY <1>1, <1>3, ReturnInv DEF PingGivesUp
  <1>4. CASE PingAborts
    BY <1>4, RestartInv DEF PingAborts, Inv, EarlyPings
  <1>5. CASE PollReturns
    BY <1>1, <1>5, ReturnInv DEF PollReturns
  <1>6. CASE RetryConnects
    <2>1. ~ ctx
      BY <1>6, Made DEF RetryConnects, Inv, NotYetMade
    <2>2. Return("again") /\ UNCHANGED queue
      BY <1>6, <2>1 DEF RetryConnects, Connects
    <2>3. QED
      BY <1>1, <2>2, ReturnInv
  <1>7. CASE StartsAgain
    <2>1. timerTask = "again" /\ called \in Timers /\ argOf[called] = called /\ called \notin armed
      BY <1>7 DEF StartsAgain, Inv, Arguments
    <2>2. CASE called \notin repeat
      <3>1. /\ timerTask' = "idle"
            /\ UNCHANGED <<startVars, timerVars, called, queue, restarts>>
        BY <1>7, <2>2 DEF StartsAgain
      <3>2. TypeOK' /\ OwnHandle' /\ StartOrder' /\ NotYetMade' /\ Arguments' /\ EarlyPings'
        BY <3>1 DEF Inv, TypeOK, OwnHandle, StartOrder, NotYetMade, Arguments, EarlyPings,
                    Clean, startVars, timerVars
      <3>3. RepeatNeverLost'
        BY <2>2, <3>1 DEF Inv, RepeatNeverLost, InHand, startVars, timerVars
      <3>4. QED
        BY <3>2, <3>3 DEF Inv
    <2>3. CASE called \in repeat
      <3>1. /\ timerTask' = "idle"
            /\ armed' = armed \cup {called}
            /\ UNCHANGED <<startVars, timerArg, argOf, repeat, called, queue, restarts>>
        BY <1>7, <2>1, <2>3 DEF StartsAgain
      <3>2. \A u : Clean(u) => Clean(u)'
        BY <3>1 DEF Clean
      <3>3. TypeOK' /\ OwnHandle' /\ StartOrder' /\ EarlyPings'
        BY <2>1, <3>1 DEF Inv, TypeOK, OwnHandle, StartOrder, EarlyPings, startVars
      <3>4. NotYetMade'
        BY <3>1, <3>2 DEF Inv, NotYetMade, startVars
      <3>5. Arguments'
        BY <2>1, <3>1 DEF Inv, Arguments, startVars
      <3>6. RepeatNeverLost'
        BY <3>1 DEF Inv, RepeatNeverLost, InHand, startVars
      <3>7. QED
        BY <3>3, <3>4, <3>5, <3>6 DEF Inv
    <2>4. QED
      BY <2>2, <2>3
  <1>8. QED
    BY <1>2, <1>3, <1>4, <1>5, <1>6, <1>7 DEF TimerTask

-----------------------------------------------------------------------------
(* The theorems.                                                           *)

LEMMA NextInv == Inv /\ [Next]_vars => Inv'
  <1>1. SUFFICES ASSUME Inv, [Next]_vars PROVE Inv'
    OBVIOUS
  <1>2. CASE Main
    <2>1. CASE MakeTimer("main")
      BY <1>1, <2>1, MallocInv, CreateInv, SetFlagInv, StartTimerInv DEF MakeTimer, Makers
    <2>2. QED
      BY <1>1, <1>2, <2>1, MainInv DEF Main
  <1>3. CASE Modbus
    <2>1. CASE MakeTimer("modbus")
      BY <1>1, <2>1, MallocInv, CreateInv, SetFlagInv, StartTimerInv DEF MakeTimer, Makers
    <2>2. QED
      BY <1>1, <1>3, <2>1, ModbusTaskInv DEF Modbus
  <1>4. CASE Cloud
    BY <1>1, <1>4, CloudInv
  <1>5. CASE TimerTask
    BY <1>1, <1>5, TimerTaskInv
  <1>6. CASE \E t \in Timers : Expires(t)
    BY <1>1, <1>6, ExpiresInv
  <1>7. CASE UNCHANGED vars
    BY <1>1, <1>7
       DEF vars, startVars, timerVars, Inv, TypeOK, OwnHandle, StartOrder, NotYetMade, Arguments,
           RepeatNeverLost, EarlyPings, InHand, Clean
  <1>8. QED
    BY <1>1, <1>2, <1>3, <1>4, <1>5, <1>6, <1>7 DEF Next

LEMMA InvHolds == Spec => []Inv
  BY InitInv, NextInv, PTL DEF Spec

(***************************************************************************)
(* The types hold, however long the tasks take to start, whatever memory   *)
(* there is, and whenever the timers expire.                               *)
(***************************************************************************)
THEOREM RuntimeTypeOK == Spec => []TypeOK
  <1>1. Inv => TypeOK
    BY DEF Inv
  <1>2. QED
    BY <1>1, InvHolds, PTL

(***************************************************************************)
(* Every esp_timer calls back with its own handle: app_main and the Modbus *)
(* task never fill in generic_timer_args at the same time.                 *)
(***************************************************************************)
THEOREM HandlesAreOwn == Spec => []OwnHandle
  <1>1. Inv => OwnHandle
    BY DEF Inv
  <1>2. QED
    BY <1>1, InvHolds, PTL

(***************************************************************************)
(* A timer whose repeat_flag is set runs or is about to be started.        *)
(***************************************************************************)
THEOREM RepeatIsNeverLost == Spec => []RepeatNeverLost
  <1>1. Inv => RepeatNeverLost
    BY DEF Inv
  <1>2. QED
    BY <1>1, InvHolds, PTL

(***************************************************************************)
(* No timer is started while it runs: esp_timer_start_once does not fail,  *)
(* and icom_start_timer does not restart the firmware.                     *)
(***************************************************************************)
THEOREM StartsSafe == Spec => []StartsAreSafe
  <1>1. Inv => StartsAreSafe
    BY DEF Inv, Arguments, StartsAreSafe
  <1>2. QED
    BY <1>1, InvHolds, PTL

(***************************************************************************)
(* Whenever icom_modbus_client_connect_timer_callback is to be called      *)
(* there is no context: RetryOpens fails for any number of registers.      *)
(***************************************************************************)
THEOREM RetriesLackContext == Spec => []RetryLacksContext
  <1>1. Inv => RetryLacksContext
    BY Made DEF Inv, NotYetMade, RetryLacksContext, InHand
  <1>2. QED
    BY <1>1, InvHolds, PTL
=============================================================================

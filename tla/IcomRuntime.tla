---------------------------- MODULE IcomRuntime ----------------------------
(***************************************************************************)
(* The run-time of ble_modbus_bridge: app_main and the tasks it creates,   *)
(* the timers of icom_timer_api.c and the queue of the cloud task.         *)
(*                                                                         *)
(* A timer is a handle (callback, repeat flag) and an esp_timer, a one-    *)
(* shot, whose callback gets as argument what generic_timer_args.arg held  *)
(* when it was created: one variable for all timers and tasks.  Callbacks  *)
(* run one at a time in the esp_timer task, which then starts the timer    *)
(* again if its flag says so.  The tasks interleave at every access to     *)
(* what they share.  A timer that is running may expire at any step.       *)
(*                                                                         *)
(* What a poll callback does is in ModbusPolling; here it only returns.    *)
(***************************************************************************)
EXTENDS Integers

CONSTANTS
  RegCount,      \* Number of configured registers, one timer each.
  QueueLen,      \* Length of a task's queue: 10 in the code.
  MaxRestarts    \* Bound of the model: pings before there is a queue.

ASSUME SizesAssumption ==
  /\ RegCount \in Nat
  /\ QueueLen \in Nat
  /\ MaxRestarts \in Nat

VARIABLES
  main,          \* What of MainOrder app_main is at,
  maker,         \*   and for each task that makes timers the step it is at
  making,        \*   and the timer.
  cloud,         \* Where the cloud task is.
  ctx,           \* Whether modbus_new_rtu returned a context.
  timerArg,      \* generic_timer_args.arg
  argOf,         \* The argument each esp_timer was created with, or NoTimer.
  armed,         \* The esp_timers that are running.
  repeat,        \* The handles whose repeat_flag is set.
  timerTask,     \* Where the esp_timer task is,
  called,        \*   and the handle whose callback it calls.
  queue,         \* Messages in the cloud task's queue, or NoQueue.
  restarts

startVars == <<main, maker, making, cloud, ctx>>
timerVars == <<timerArg, argOf, armed, repeat>>
vars == <<startVars, timerVars, timerTask, called, queue, restarts>>

\* The timers: the ping, one for each register, and the one that retries to
\* connect.
Ping == 0
Polls == 1 .. RegCount
Retry == RegCount + 1
Timers == 0 .. RegCount + 1
NoTimer == -1

NoQueue == -1

Makers == {"main", "modbus"}

\* Fault: the tasks are created before the ping timer.
MainOrderTasksFirst == <<"cloud", "modbus", "ping", "loop">>

\* app_main: icom_main_task_init comes first.
MainOrder == <<"ping", "cloud", "modbus", "loop">>

\* The state after power-on or a restart.
Fresh ==
  [main      |-> 1,
   maker     |-> [m \in Makers |-> "off"],
   making    |-> [m \in Makers |-> NoTimer],
   cloud     |-> "off",
   ctx       |-> FALSE,
   timerArg  |-> NoTimer,
   argOf     |-> [t \in Timers |-> NoTimer],
   armed     |-> {},
   repeat    |-> {},
   timerTask |-> "idle",
   called    |-> NoTimer,
   queue     |-> NoQueue]

Init ==
  /\ main = Fresh.main
  /\ maker = Fresh.maker
  /\ making = Fresh.making
  /\ cloud = Fresh.cloud
  /\ ctx = Fresh.ctx
  /\ timerArg = Fresh.timerArg
  /\ argOf = Fresh.argOf
  /\ armed = Fresh.armed
  /\ repeat = Fresh.repeat
  /\ timerTask = Fresh.timerTask
  /\ called = Fresh.called
  /\ queue = Fresh.queue
  /\ restarts = 0

\* abort(): of a failed ESP_ERROR_CHECK or of FreeRTOS's assertions.
Restart ==
  /\ main' = Fresh.main
  /\ maker' = Fresh.maker
  /\ making' = Fresh.making
  /\ cloud' = Fresh.cloud
  /\ ctx' = Fresh.ctx
  /\ timerArg' = Fresh.timerArg
  /\ argOf' = Fresh.argOf
  /\ armed' = Fresh.armed
  /\ repeat' = Fresh.repeat
  /\ timerTask' = Fresh.timerTask
  /\ called' = Fresh.called
  /\ queue' = Fresh.queue
  /\ restarts' = restarts + 1

-----------------------------------------------------------------------------
(* icom_create_timer and icom_start_timer, step by step, in task m.        *)

\* Fault: the flag is set once the timer runs.
NextStepStartEarly(step) ==
  CASE step = "create" -> "start"
    [] step = "start"  -> "flag"
    [] step = "flag"   -> "made"

NextStep(step) ==
  CASE step = "create" -> "flag"
    [] step = "flag"   -> "start"
    [] step = "start"  -> "made"

\* Task m begins to make timer t.
Make(m, t) ==
  /\ maker' = [maker EXCEPT ![m] = "malloc"]
  /\ making' = [making EXCEPT ![m] = t]

Step(m) == maker' = [maker EXCEPT ![m] = NextStep(@)]

\* Without memory for the handle there is no timer; every caller goes on.
Malloc(m) ==
  /\ maker[m] = "malloc"
  /\ \/ maker' = [maker EXCEPT ![m] = "made"] /\ UNCHANGED timerArg
     \/ maker' = [maker EXCEPT ![m] = "create"] /\ timerArg' = making[m]
  /\ UNCHANGED <<main, making, cloud, ctx, argOf, armed, repeat, timerTask, called, queue, restarts>>

\* esp_timer_create copies generic_timer_args.
CreateTimer(m) ==
  /\ maker[m] = "create"
  /\ Step(m)
  /\ argOf' = [argOf EXCEPT ![making[m]] = timerArg]
  /\ UNCHANGED <<main, making, cloud, ctx, timerArg, armed, repeat, timerTask, called, queue, restarts>>

SetFlag(m) ==
  /\ maker[m] = "flag"
  /\ Step(m)
  /\ repeat' = repeat \cup {making[m]}
  /\ UNCHANGED <<main, making, cloud, ctx, timerArg, argOf, armed, timerTask, called, queue, restarts>>

\* esp_timer_start_once under ESP_ERROR_CHECK.
StartTimer(m) ==
  /\ maker[m] = "start"
  /\ IF making[m] \in armed
       THEN Restart
       ELSE /\ Step(m)
            /\ armed' = armed \cup {making[m]}
            /\ UNCHANGED <<main, making, cloud, ctx, timerArg, argOf, repeat,
                           timerTask, called, queue, restarts>>

MakeTimer(m) == Malloc(m) \/ CreateTimer(m) \/ SetFlag(m) \/ StartTimer(m)

-----------------------------------------------------------------------------
(* The tasks.                                                              *)

At(place) == MainOrder[main] = place

MainPing ==
  /\ At("ping")
  /\ maker["main"] \in {"off", "made"}
  /\ IF maker["main"] = "off"
       THEN Make("main", Ping) /\ UNCHANGED main
       ELSE main' = main + 1 /\ maker' = [maker EXCEPT !["main"] = "done"] /\ UNCHANGED making
  /\ UNCHANGED <<cloud, ctx, timerVars, timerTask, called, queue, restarts>>

MainCreatesCloud ==
  /\ At("cloud")
  /\ main' = main + 1
  /\ cloud' = "create"
  /\ UNCHANGED <<maker, making, ctx, timerVars, timerTask, called, queue, restarts>>

MainCreatesModbus ==
  /\ At("modbus")
  /\ main' = main + 1
  /\ maker' = [maker EXCEPT !["modbus"] = "connect"]
  /\ UNCHANGED <<making, cloud, ctx, timerVars, timerTask, called, queue, restarts>>

Main == MainPing \/ MainCreatesCloud \/ MainCreatesModbus \/ MakeTimer("main")

\* modbus_connect fails without a context only: the result of
\* icom_open_modbus_port is dropped by _modbus_rtu_connect.
Connects(context, open) == context

\* icom_modbus_init.  A failed connection makes a timer that tries again.
ModbusInit ==
  /\ maker["modbus"] = "connect"
  /\ \E context, open \in BOOLEAN :
       /\ ctx' = context
       /\ IF Connects(context, open)
            THEN maker' = [maker EXCEPT !["modbus"] = "made"] /\ UNCHANGED making
            ELSE Make("modbus", Retry)
  /\ UNCHANGED <<main, cloud, timerVars, timerTask, called, queue, restarts>>

\* icom_create_modbus_rtu_poll_timers, whatever icom_modbus_init returned.
NextTimer == IF making["modbus"] \in Polls THEN making["modbus"] + 1 ELSE 1

ModbusPolls ==
  /\ maker["modbus"] = "made"
  /\ IF NextTimer \in Polls
       THEN Make("modbus", NextTimer)
       ELSE maker' = [maker EXCEPT !["modbus"] = "done"] /\ UNCHANGED making
  /\ UNCHANGED <<main, cloud, ctx, timerVars, timerTask, called, queue, restarts>>

Modbus == ModbusInit \/ ModbusPolls \/ MakeTimer("modbus")

\* icom_cloud_task.
CloudStarts ==
  /\ cloud = "create"
  /\ cloud' = "receive"
  /\ queue' = 0
  /\ UNCHANGED <<main, maker, making, ctx, timerVars, timerTask, called, restarts>>

CloudReceives ==
  /\ cloud = "receive"
  /\ queue > 0
  /\ queue' = queue - 1
  /\ cloud' = "delay"
  /\ UNCHANGED <<main, maker, making, ctx, timerVars, timerTask, called, restarts>>

CloudWakes ==
  /\ cloud = "delay"
  /\ cloud' = "receive"
  /\ UNCHANGED <<main, maker, making, ctx, timerVars, timerTask, called, queue, restarts>>

Cloud == CloudStarts \/ CloudReceives \/ CloudWakes

-----------------------------------------------------------------------------
(* The esp_timer task.                                                     *)

\* Fault: the timer goes on running.
ExpiresPeriodically(t) ==
  /\ timerTask = "idle"
  /\ t \in armed
  /\ called' = argOf[t]
  /\ timerTask' = "call"
  /\ UNCHANGED <<startVars, timerVars, queue, restarts>>

\* The timer has expired: generic_polling_timer_callback gets its argument.
\* (MaxRestarts bounds the pings that come too early.)
Expires(t) ==
  /\ timerTask = "idle"
  /\ t \in armed
  /\ argOf[t] = Ping /\ queue = NoQueue => restarts < MaxRestarts
  /\ armed' = armed \ {t}
  /\ called' = argOf[t]
  /\ timerTask' = "call"
  /\ UNCHANGED <<startVars, timerArg, argOf, repeat, queue, restarts>>

Return(step) ==
  /\ timerTask = "call"
  /\ timerTask' = step
  /\ UNCHANGED <<startVars, timerVars, called, restarts>>

\* Fault: a queue that is full takes one more.
PingOverfills ==
  /\ called = Ping
  /\ queue \in 0 .. QueueLen
  /\ queue' = queue + 1
  /\ Return("again")

\* icom_healthping_timer_callback: xQueueSend to a queue that is there, and has
\* room within 100 ticks or has not.
PingSends ==
  /\ called = Ping
  /\ queue \in 0 .. QueueLen - 1
  /\ queue' = queue + 1
  /\ Return("again")

\* Fault: the callback waits as long as it takes.
PingWaitsForever == FALSE /\ UNCHANGED vars

PingGivesUp ==
  /\ called = Ping
  /\ queue = QueueLen
  /\ Return("again")
  /\ UNCHANGED queue

PingAborts ==
  /\ timerTask = "call"
  /\ called = Ping
  /\ queue = NoQueue
  /\ Restart

PollReturns ==
  /\ called \in Polls
  /\ Return("again")
  /\ UNCHANGED queue

\* icom_modbus_client_connect_timer_callback: its handle is its argument, which
\* is NULL; on success it clears the flag through it.
RetryConnects ==
  /\ timerTask = "call"
  /\ called = Retry
  /\ \E open \in BOOLEAN :
       IF Connects(ctx, open)
         THEN Restart
         ELSE Return("again") /\ UNCHANGED queue

\* The end of generic_polling_timer_callback.
StartsAgain ==
  /\ timerTask = "again"
  /\ IF called \notin repeat
       THEN /\ timerTask' = "idle"
            /\ UNCHANGED <<startVars, timerVars, called, queue, restarts>>
       ELSE IF called \in armed
         THEN Restart
         ELSE /\ timerTask' = "idle"
              /\ armed' = armed \cup {called}
              /\ UNCHANGED <<startVars, timerArg, argOf, repeat, called, queue, restarts>>

TimerTask ==
  \/ PingSends \/ PingGivesUp \/ PingAborts
  \/ PollReturns \/ RetryConnects
  \/ StartsAgain

-----------------------------------------------------------------------------

Next == Main \/ Modbus \/ Cloud \/ TimerTask \/ \E t \in Timers : Expires(t)

Spec == Init /\ [][Next]_vars

\* The tasks get on with their start, and the timer task serves every timer that
\* has expired: esp_timer keeps them in the order of their alarms.  Nothing is
\* asked of the cloud task once it has its queue.
FairSpec ==
  /\ Spec
  /\ WF_vars(Main)
  /\ WF_vars(Modbus)
  /\ WF_vars(CloudStarts)
  /\ WF_vars(TimerTask)
  /\ \A t \in Timers : SF_vars(Expires(t))

-----------------------------------------------------------------------------
(* Properties.                                                             *)

MakerSteps == {"off", "connect", "malloc", "create", "flag", "start", "made", "done"}

TypeOK ==
  /\ main \in 1 .. 4
  /\ maker \in [Makers -> MakerSteps]
  /\ making \in [Makers -> Timers \cup {NoTimer}]
  /\ cloud \in {"off", "create", "receive", "delay"}
  /\ ctx \in BOOLEAN
  /\ timerArg \in Timers \cup {NoTimer}
  /\ argOf \in [Timers -> Timers \cup {NoTimer}]
  /\ armed \subseteq Timers
  /\ repeat \subseteq Timers
  /\ timerTask \in {"idle", "call", "again"}
  /\ called \in Timers \cup {NoTimer}
  /\ queue \in {NoQueue} \cup 0 .. QueueLen
  /\ restarts \in 0 .. MaxRestarts

(***************************************************************************)
(* Every esp_timer was created with its own handle as argument, although   *)
(* the argument passes through one variable that all tasks share and none  *)
(* locks: app_main has made its timer before there is another task.        *)
(***************************************************************************)
OwnHandle == \A t \in Timers : argOf[t] \in {t, NoTimer}

\* The timer task is with timer t.
InHand(t) == timerTask # "idle" /\ called = t

(***************************************************************************)
(* A repeating timer is never forgotten: it runs, or is about to be        *)
(* started, or its callback is under way and will start it again.  The     *)
(* flag must be set before the timer is started, since the timer task may  *)
(* run in between.                                                         *)
(***************************************************************************)
RepeatNeverLost ==
  \A t \in repeat :
    \/ t \in armed
    \/ InHand(t)
    \/ \E m \in Makers : maker[m] = "start" /\ making[m] = t

(***************************************************************************)
(* esp_timer_start_once never finds its timer running, neither in the task *)
(* that makes it nor in the callback that starts it again: it is called    *)
(* under ESP_ERROR_CHECK, and the firmware would restart.                  *)
(***************************************************************************)
StartsAreSafe ==
  /\ \A m \in Makers : maker[m] = "start" => making[m] \notin armed
  /\ timerTask = "again" /\ called \in repeat => called \notin armed

(***************************************************************************)
(* A repeating timer calls back again and again, unless the firmware       *)
(* restarts.  All callbacks share one task: a cloud task that stops        *)
(* reading and a queue that is full delay the others but do not stop them. *)
(***************************************************************************)
KeepsFiring ==
  \A t \in Timers :
    t \in repeat ~> (timerTask = "call" /\ called = t) \/ t \notin repeat

\* The timer that retries to connect runs only where there is no context.
RetryLacksContext == Retry \in armed \/ InHand(Retry) => ~ctx

(***************************************************************************)
(* The timer that retries to connect fires until the connection is opened, *)
(* and then stops (icom_modbus_task.c:76-79).  The code does otherwise: no *)
(* retry makes the context that modbus_connect needs, so that it fails     *)
(* whether the port could be opened or not.                                *)
(***************************************************************************)
RetryOpens == Retry \in repeat ~> Retry \notin repeat
=============================================================================

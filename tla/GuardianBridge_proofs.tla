----------------------- MODULE GuardianBridge_proofs -----------------------
(***************************************************************************)
(* Proofs about the bridge between the phone and the CCU, for any set of   *)
(* commands and any number of commands, CCU starts and merged packets.     *)
(***************************************************************************)
EXTENDS GuardianBridge, SequenceTheorems, TLAPS

-----------------------------------------------------------------------------
(* The tables.                                                             *)

\* Every command of the table is handled within the types.
LEMMA TableType ==
  ASSUME NEW c \in DOMAIN CommandTable
  PROVE  CommandTable[c] \in HandlingType
<1> USE DEF Handling, HandlingType, FsmStates, WaitingStates, RestingStates, ReturnCodes,
            Answered, DoneState, Notices, None
<1>1. c \in DOMAIN AccountCommands => AccountCommands[c] \in HandlingType
  BY DEF AccountCommands
<1>2. c \in DOMAIN NumberCommands => NumberCommands[c] \in HandlingType
  BY DEF NumberCommands
<1>3. c \in DOMAIN WifiCommands => WifiCommands[c] \in HandlingType
  BY DEF WifiCommands
<1>4. c \in DOMAIN SystemCommands => SystemCommands[c] \in HandlingType
  BY DEF SystemCommands
<1>5. c \in DOMAIN AddressCommands => AddressCommands[c] \in HandlingType
  BY DEF AddressCommands
<1>6. Handling(None, "UNRECOGNIZED", None, None) \in HandlingType
  OBVIOUS
<1> HIDE DEF Handling, HandlingType, FsmStates, WaitingStates, RestingStates, ReturnCodes,
             Answered, DoneState, Notices, None
<1> QED BY <1>1, <1>2, <1>3, <1>4, <1>5, <1>6 DEF CommandTable

\* The same for all commands, audio included.
LEMMA HandlingsType ==
  ASSUME NEW c \in AllCommands, NEW s \in BOOLEAN, NEW h \in Handlings(c, s)
  PROVE  h \in HandlingType
<1>1. CASE c \in VoiceCommands
  BY <1>1 DEF Handlings, VoiceHandlings, VoiceCommands, Chunk, Handling, HandlingType,
     FsmStates, WaitingStates, RestingStates, ReturnCodes, Answered, DoneState, Notices, None
<1>2. CASE c = "addressChunk"
  BY <1>2 DEF Handlings, VoiceCommands, Chunk, Handling, HandlingType, Notices, None
<1>3. CASE c \in DOMAIN CommandTable /\ c \notin VoiceCommands /\ c # "addressChunk"
  BY <1>3, TableType DEF Handlings
<1> QED BY <1>1, <1>2, <1>3 DEF AllCommands

\* A message of the CCU leads to a state, and never to one that waits.
LEMMA StateAfterRests ==
  ASSUME NEW m \in FromCcu, NEW state \in FsmStates
  PROVE  /\ StateAfter(m, state) \in FsmStates
         /\ StateAfter(m, state) \in WaitingStates =>
              /\ state \in WaitingStates
              /\ m.op = "SCAN_NAME" \/ Ignored(m)
BY DEF StateAfter, FromCcu, Answered, DoneState, FsmStates, WaitingStates, RestingStates

\* What a message reports is a return code.
LEMMA ReportedCodeType ==
  ASSUME NEW m
  PROVE  ReportedCode(m) \in ReturnCodes
BY DEF ReportedCode, ReturnCodes

\* The CCU's answers are messages, and the last one ends the wait.
LEMMA AnswersType ==
  ASSUME NEW op \in Answered, NEW c \in Codes, NEW n \in Nat, NEW a \in Answers(op, c, n)
  PROVE  /\ a \in Seq(FromCcu)
         /\ \E i \in DOMAIN a : a[i].op \notin {"READY", "SCAN_NAME"} /\ a[i].n = n
<1> DEFINE M(o) == [op |-> o, code |-> c, n |-> n]
<1>1. \A o \in Answered \cup {"SCAN_NAME", "UPDATE_REBOOT"} : M(o) \in FromCcu
  BY DEF FromCcu
<1>2. \/ \E o \in Answered \cup {"UPDATE_REBOOT"} : a = <<M(o)>>
      \/ a = <<M("SCAN_NAME"), M("SCAN")>>
  BY DEF Answers, Answered, DoneState
<1>3. {"READY", "SCAN_NAME"} \cap (Answered \cup {"UPDATE_REBOOT"}) = {}
  BY DEF Answered, DoneState
<1>4. CASE \E o \in Answered \cup {"UPDATE_REBOOT"} : a = <<M(o)>>
  <2>1. PICK o \in Answered \cup {"UPDATE_REBOOT"} : a = <<M(o)>>
    BY <1>4
  <2>2. a \in Seq(FromCcu) /\ 1 \in DOMAIN a /\ a[1] = M(o)
    BY <1>1, <2>1
  <2> QED BY <1>3, <2>2
<1>5. CASE a = <<M("SCAN_NAME"), M("SCAN")>>
  <2>1. "SCAN" \in Answered
    BY DEF Answered, DoneState
  <2>2. a \in Seq(FromCcu) /\ 2 \in DOMAIN a /\ a[2] = M("SCAN")
    BY <1>1, <1>5, <2>1
  <2> QED BY <2>2
<1> QED BY <1>2, <1>4, <1>5

-----------------------------------------------------------------------------
(* Types.                                                                  *)

\* Requests added to the line.
LEMMA SendType ==
  ASSUME toCcu \in Seq(Request), writes \in 0 .. MaxWrites,
         NEW op \in Answered \cup Notices, Send(op)
  PROVE  toCcu' \in Seq(Request)
<1>1. [op |-> op, n |-> writes] \in Request
  BY DEF Request
<1> QED BY <1>1, AppendProperties DEF Send

LEMMA PacketType == TypeOK /\ ProcessPacket => TypeOK'
<1> SUFFICES ASSUME TypeOK, ProcessPacket
             PROVE  TypeOK'
  OBVIOUS
<1>1. Head(toBridge) \in FromCcu
  BY HeadTailProperties DEF TypeOK, ProcessPacket
<1>2. PICK k \in 1 .. Len(toBridge) :
        /\ merges' = IF k > 1 THEN merges + 1 ELSE merges
        /\ k > 1 => merges < MaxMerges
        /\ \/ /\ UNCHANGED <<btc, handling, ccuId, streaming, connected>>
              /\ Interpret(Head(toBridge))
              /\ toBridge' = SubSeq(toBridge, k + 1, Len(toBridge))
              /\ lost' \in BOOLEAN
           \/ \E d \in BOOLEAN : Abort(SubSeq(toBridge, k + 1, Len(toBridge)), d)
  BY DEF ProcessPacket, TypeOK, Ignored, LosesAnswer
<1>a. {answered', stale'} \subseteq BOOLEAN
  BY DEF ProcessPacket, TypeOK, Ignored, LosesAnswer
<1>3. SubSeq(toBridge, k + 1, Len(toBridge)) \in Seq(FromCcu)
  BY SubSeqProperties, LenProperties DEF TypeOK
<1>4. UNCHANGED <<reply, writes, toCcu, asked, boots>>
  BY DEF ProcessPacket
<1>5. merges' \in 0 .. MaxMerges
  BY <1>2, BoundsAssumption DEF TypeOK
<1>6. CASE Interpret(Head(toBridge)) /\ UNCHANGED <<btc, handling, ccuId, streaming, connected>>
           /\ toBridge' = SubSeq(toBridge, k + 1, Len(toBridge)) /\ lost' \in BOOLEAN
  <2>1. bt_state' \in FsmStates
    BY <1>1, <1>6, StateAfterRests DEF Interpret, TypeOK
  <2>2. code' \in ReturnCodes /\ codeFrom' \in Nat
    BY <1>1, <1>6, ReportedCodeType DEF Interpret, TypeOK, FromCcu
  <2> QED BY <1>3, <1>4, <1>5, <1>6, <1>a, <2>1, <2>2 DEF TypeOK, Request
<1>7. CASE \E d \in BOOLEAN : Abort(SubSeq(toBridge, k + 1, Len(toBridge)), d)
  <2>1. PICK d \in BOOLEAN : Abort(SubSeq(toBridge, k + 1, Len(toBridge)), d)
    BY <1>7
  <2>2. toBridge' \in Seq(FromCcu)
    BY <1>3, <2>1, EmptySeq DEF Abort
  <2>3. handling' \in HandlingType
    BY <2>1 DEF Abort, NoHandling, Handling, HandlingType, None
  <2>4. btc' \in Steps /\ bt_state' \in FsmStates /\ code' \in ReturnCodes /\ codeFrom' \in Nat
    BY <2>1 DEF Abort, Steps, FsmStates, RestingStates, ReturnCodes
  <2>5. {ccuId', streaming', connected', lost'} \subseteq BOOLEAN
    BY <2>1 DEF Abort
  <2> QED BY <1>4, <1>5, <1>a, <2>2, <2>3, <2>4, <2>5 DEF TypeOK, HandlingType, Request
<1> QED BY <1>2, <1>6, <1>7

LEMMA TypeStep == TypeOK /\ [Next]_vars => TypeOK'
<1> SUFFICES ASSUME TypeOK, [Next]_vars
             PROVE  TypeOK'
  OBVIOUS
<1> USE BoundsAssumption DEF bridgeVars, phoneVars, lineVars, historyVars
<1>1. CASE Poll
  BY <1>1 DEF Poll, TypeOK, Request, FsmStates, RestingStates
<1>2. CASE Advertise
  <2>1. toCcu' \in Seq(Request)
    BY <1>2, SendType DEF Advertise, TypeOK, Notices
  <2> QED BY <1>2, <2>1 DEF Advertise, TypeOK, Request, Steps
<1>3. CASE Connect
  <2>1. toCcu' \in Seq(Request)
    BY <1>3, SendType DEF Connect, TypeOK, Notices
  <2> QED BY <1>3, <2>1 DEF Connect, TypeOK, Request
<1>4. CASE Disconnect
  <2>1. toCcu' \in Seq(Request)
    BY <1>4, SendType DEF Disconnect, TypeOK, Notices
  <2> QED BY <1>4, <2>1 DEF Disconnect, TypeOK, Request
<1>5. CASE Write
  <2>1. PICK c \in Commands :
          /\ handling' \in Handlings(c, streaming)
          /\ streaming' = StreamingAfter(c, streaming)
          /\ btc' = IF c = "scanNames" THEN "rescan" ELSE "enter"
    BY <1>5 DEF Write
  <2>2. handling' \in HandlingType
    BY <2>1, HandlingsType, CommandsAssumption DEF TypeOK
  <2>3. streaming' \in BOOLEAN
    BY <2>1 DEF StreamingAfter, TypeOK
  <2>4. btc' \in Steps /\ code' \in ReturnCodes /\ codeFrom' \in Nat
    BY <1>5, <2>1 DEF Write, Steps, ReturnCodes
  <2>5. writes' \in 0 .. MaxWrites /\ asked' \in 0 .. writes'
    BY <1>5 DEF Write, TypeOK
  <2> QED BY <1>5, <2>2, <2>3, <2>4, <2>5 DEF Write, TypeOK
<1>6. CASE Enter
  BY <1>6 DEF Enter, SetState, NextStep, LastStep, TypeOK, HandlingType, Request, Steps
<1>7. CASE StoreCode
  BY <1>7 DEF StoreCode, NextStep, LastStep, TypeOK, HandlingType, Request, Steps
<1>8. CASE Settle
  BY <1>8 DEF Settle, SetState, NextStep, LastStep, TypeOK, HandlingType, Request, Steps
<1>9. CASE Ask
  <2>1. toCcu' \in Seq(Request)
    BY <1>9, SendType DEF Ask, TypeOK, HandlingType
  <2>2. btc' \in Steps
    BY <1>9 DEF Ask, NextStep, LastStep, Steps
  <2>3. \/ asked' = writes /\ lost' = FALSE /\ answered' = FALSE /\ stale' = FALSE
        \/ UNCHANGED historyVars
    BY <1>9 DEF Ask
  <2>4. {lost', answered', stale'} \subseteq BOOLEAN
    BY <2>3 DEF TypeOK
  <2>5. asked' \in 0 .. writes
    BY <2>3 DEF TypeOK
  <2> QED BY <1>9, <2>1, <2>2, <2>4, <2>5 DEF Ask, TypeOK, Request
<1>10. CASE Rescan
  BY <1>10 DEF Rescan, Compare, TypeOK, Request, Steps
<1>19. CASE ForceScan
  BY <1>19 DEF ForceScan, TypeOK, Request, Steps, FsmStates, WaitingStates
<1>11. CASE Check
  BY <1>11 DEF Check, TypeOK, Request, Steps
<1>12. CASE StartNames
  BY <1>12 DEF StartNames, TypeOK, Request, Steps, FsmStates, RestingStates
<1>13. CASE MarkNotReady
  BY <1>13 DEF MarkNotReady, TypeOK, Request, Steps, ReturnCodes
<1>14. CASE Respond
  BY <1>14 DEF Respond, TypeOK, Request, Steps
<1>15. CASE ProcessPacket
  BY <1>15, PacketType
<1>16. CASE CcuServes
  <2>1. Head(toCcu) \in Request /\ Tail(toCcu) \in Seq(Request)
    BY <1>16, HeadTailProperties DEF CcuServes, TypeOK
  <2>2. CASE Head(toCcu).op \in Answered
    <3>1. PICK c \in CcuCodes : \E a \in Answers(Head(toCcu).op, c, Head(toCcu).n) :
            toBridge' = toBridge \o a
      BY <1>16, <2>2 DEF CcuServes
    <3>2. PICK a \in Answers(Head(toCcu).op, c, Head(toCcu).n) : toBridge' = toBridge \o a
      BY <3>1
    <3>3. Head(toCcu).n \in Nat /\ c \in Codes
      BY <2>1, CodesAssumption DEF Request
    <3>4. a \in Seq(FromCcu)
      BY <2>2, <3>2, <3>3, AnswersType
    <3>5. toBridge' \in Seq(FromCcu)
      BY <3>2, <3>4, ConcatProperties DEF TypeOK
    <3> QED BY <1>16, <2>1, <3>5 DEF CcuServes, TypeOK, Request
  <2>3. CASE Head(toCcu).op \notin Answered
    BY <1>16, <2>1, <2>3 DEF CcuServes, TypeOK, Request
  <2> QED BY <2>2, <2>3
<1>17. CASE CcuStarts
  <2>1. [op |-> "READY", code |-> "ok", n |-> 0] \in FromCcu
    BY DEF FromCcu, Codes
  <2>2. toBridge' \in Seq(FromCcu)
    BY <1>17, <2>1, AppendProperties DEF CcuStarts, TypeOK
  <2>3. lost' \in BOOLEAN
    BY <1>17 DEF CcuStarts, TypeOK, Requested
  <2> QED BY <1>17, <2>2, <2>3, EmptySeq DEF CcuStarts, TypeOK, Request
<1>18. CASE UNCHANGED vars
  BY <1>18 DEF vars, TypeOK, Request
<1> QED
  BY <1>1, <1>2, <1>3, <1>4, <1>5, <1>6, <1>7, <1>8, <1>9, <1>10, <1>11, <1>12, <1>13,
     <1>14, <1>15, <1>16, <1>17, <1>18, <1>19
  DEF Next, Start, Phone, WriteSteps, ReadSteps, Ccu

(***************************************************************************)
(* The bridge keeps its types: the FSM is always in one of its states, and *)
(* the return code the phone reads is always one of akbi_msg.h.            *)
(***************************************************************************)
THEOREM BridgeTypeOK == Spec => []TypeOK
<1>1. Init => TypeOK
  <2> SUFFICES ASSUME Init
               PROVE  TypeOK
    OBVIOUS
  <2>1. handling \in HandlingType
    BY DEF Init, NoHandling, Handling, HandlingType, None
  <2>2. btc \in Steps /\ bt_state \in FsmStates /\ code \in ReturnCodes
    BY DEF Init, Steps, FsmStates, RestingStates, ReturnCodes
  <2>3. reply \in [n : 0 .. MaxWrites, code : ReturnCodes, from : Nat]
    BY BoundsAssumption DEF Init, ReturnCodes
  <2>4. toCcu \in Seq(Request) /\ toBridge \in Seq(FromCcu)
    BY EmptySeq DEF Init
  <2>5. /\ writes \in 0 .. MaxWrites /\ asked \in 0 .. writes
        /\ boots \in 0 .. MaxBoots /\ merges \in 0 .. MaxMerges
    BY BoundsAssumption DEF Init
  <2>6. codeFrom \in Nat /\ {ccuId, streaming, connected, lost, answered, stale} \subseteq BOOLEAN
    BY DEF Init
  <2> QED BY <2>1, <2>2, <2>3, <2>4, <2>5, <2>6 DEF TypeOK
<1> QED BY <1>1, TypeStep, PTL DEF Spec

-----------------------------------------------------------------------------
(* Waits end with a message of the CCU or a new command only.              *)

\* A read that found a complete scan has nothing to wait for until it is done:
\* no message of the CCU makes the FSM wait.
NamesRest == btc = "names" => ~Waiting

LEMMA NamesRestStep == TypeOK /\ NamesRest /\ [Next]_vars => NamesRest'
<1> SUFFICES ASSUME TypeOK, NamesRest, [Next]_vars, btc' = "names"
             PROVE  ~Waiting'
  BY DEF NamesRest, Waiting
<1> USE DEF bridgeVars, phoneVars, lineVars, historyVars, Waiting
<1>1. CASE Check
  BY <1>1 DEF Check, WaitingStates
<1>2. CASE ProcessPacket
  <2>1. Head(toBridge) \in FromCcu
    BY <1>2, HeadTailProperties DEF TypeOK, ProcessPacket
  <2>2. CASE bt_state' = StateAfter(Head(toBridge), bt_state) /\ UNCHANGED btc
    BY <2>1, <2>2, StateAfterRests DEF NamesRest, TypeOK
  <2>3. CASE bt_state' = "INIT"
    BY <2>3 DEF WaitingStates
  <2> QED BY <1>2, <2>2, <2>3 DEF ProcessPacket, Interpret, Abort
<1>3. CASE UNCHANGED <<btc, bt_state>>
  BY <1>3 DEF NamesRest
<1>4. Write \/ WriteSteps \/ ReadSteps \/ Advertise => btc' # "names"
  BY DEF Write, WriteSteps, Enter, StoreCode, Settle, Ask, Rescan, Compare, ForceScan,
     SetState, NextStep, LastStep, ReadSteps, StartNames, MarkNotReady, Respond, Advertise
<1>5. Poll => btc' # "names"
  BY DEF Poll
<1>6. Connect \/ Disconnect \/ Ccu \/ UNCHANGED vars => UNCHANGED <<btc, bt_state>>
  BY DEF Connect, Disconnect, Ccu, CcuServes, CcuStarts, vars
<1> QED BY <1>1, <1>2, <1>3, <1>4, <1>5, <1>6 DEF Next, Start, Phone

(***************************************************************************)
(* A read never ends a wait, although it writes the state it read some     *)
(* steps before: what it wrote over was a complete scan or a later state.  *)
(***************************************************************************)
THEOREM WaitIsKept == Spec => WaitKept
<1>1. Init => NamesRest
  BY DEF Init, NamesRest
<1>2. TypeOK /\ NamesRest /\ [Next]_vars
        => [Waiting /\ ~Waiting' => ProcessPacket \/ Enter \/ Settle]_vars
  <2> SUFFICES ASSUME TypeOK, NamesRest, Next, Waiting, ~Waiting'
               PROVE  ProcessPacket \/ Enter \/ Settle
    OBVIOUS
  <2> USE DEF bridgeVars, phoneVars, lineVars, historyVars, Waiting
  <2>1. CASE Poll
    BY <2>1 DEF Poll, WaitingStates
  <2>2. CASE ForceScan
    BY <2>2 DEF ForceScan, WaitingStates
  <2>3. CASE StartNames
    BY <2>3 DEF StartNames, NamesRest
  <2>4. bt_state' # bt_state
    OBVIOUS
  <2>5. ~(Advertise \/ Connect \/ Disconnect \/ Write \/ Check)
    BY <2>4 DEF Advertise, Connect, Disconnect, Write, Check
  <2>6. ~(StoreCode \/ Ask \/ Rescan \/ MarkNotReady \/ Respond \/ Ccu)
    BY <2>4 DEF StoreCode, Ask, Rescan, Compare, MarkNotReady, Respond, Ccu, CcuServes, CcuStarts
  <2> QED
    BY <2>1, <2>2, <2>3, <2>5, <2>6 DEF Next, Start, Phone, WriteSteps, ReadSteps
<1> QED BY <1>1, <1>2, BridgeTypeOK, NamesRestStep, PTL DEF Spec, WaitKept

-----------------------------------------------------------------------------
(* No wakeup is lost.                                                      *)

\* Up to the step that asks, a command has not asked ...
AskedLast == btc \in {"enter", "code", "settle", "ask"} => asked < writes

\* ... the last request is on the line, or its answer is, or either is lost, or
\* the bridge has handled the answer ...
Accounted == AnswerUnderWay \/ lost \/ answered

\* ... and a wait is for an answer on its way, but for a scan that was over when
\* its state was set once more.
AnswerFollows == asked = writes /\ Waiting => AnswerUnderWay \/ lost \/ stale

WaitInv ==
  /\ AskedLast
  /\ Accounted
  /\ AnswerFollows

LEMMA WaitInvGivesAnswer == TypeOK /\ WaitInv => AnswerStillComing
BY DEF WaitInv, AnswerFollows, AnswerStillComing

\* A message sent leaves the requests on the line where they are.
LEMMA SendKeepsRequests ==
  ASSUME toCcu \in Seq(Request), NEW op, Send(op), NEW n
  PROVE  Requested(n) \/ (op \in Answered /\ n = writes) => Requested(n)'
<1> DEFINE m == [op |-> op, n |-> writes]
<1>1. toCcu' = Append(toCcu, m)
  BY DEF Send
<1>2. /\ Len(toCcu) \in Nat
      /\ DOMAIN toCcu = 1 .. Len(toCcu)
      /\ DOMAIN toCcu' = 1 .. Len(toCcu) + 1
      /\ \A i \in 1 .. Len(toCcu) : toCcu'[i] = toCcu[i]
      /\ toCcu'[Len(toCcu) + 1] = m
  BY <1>1
<1>3. CASE Requested(n)
  <2>1. PICK i \in DOMAIN toCcu : toCcu[i].op \in Answered /\ toCcu[i].n = n
    BY <1>3 DEF Requested
  <2>2. i \in DOMAIN toCcu' /\ toCcu'[i] = toCcu[i]
    BY <1>2, <2>1
  <2> QED BY <2>1, <2>2 DEF Requested
<1>4. CASE op \in Answered /\ n = writes
  <2>1. Len(toCcu) + 1 \in DOMAIN toCcu'
    BY <1>2
  <2> QED BY <1>2, <1>4, <2>1 DEF Requested
<1> QED BY <1>3, <1>4

\* The CCU turns a request into its answer.
LEMMA ServingAnswers == TypeOK /\ CcuServes /\ AnswerUnderWay => AnswerUnderWay'
<1> SUFFICES ASSUME TypeOK, CcuServes, AnswerUnderWay
             PROVE  AnswerUnderWay'
  OBVIOUS
<1> DEFINE m == Head(toCcu)
<1>1. asked' = asked /\ toCcu # <<>> /\ toCcu' = Tail(toCcu) /\ toCcu \in Seq(Request)
  BY DEF CcuServes, lineVars, historyVars, TypeOK
<1>2. m \in Request /\ m = toCcu[1]
  BY <1>1, HeadTailProperties
<1>3. toBridge \in Seq(FromCcu)
  BY DEF TypeOK
<1>4. PICK a \in Seq(FromCcu) :
        /\ toBridge' = toBridge \o a
        /\ m.op \in Answered =>
             \E i \in DOMAIN a : a[i].op \notin {"READY", "SCAN_NAME"} /\ a[i].n = m.n
  <2>1. CASE m.op \in Answered
    <3>1. PICK c \in CcuCodes : \E a \in Answers(m.op, c, m.n) : toBridge' = toBridge \o a
      BY <2>1 DEF CcuServes
    <3>2. PICK a \in Answers(m.op, c, m.n) : toBridge' = toBridge \o a
      BY <3>1
    <3>3. m.n \in Nat /\ c \in Codes
      BY <1>2, CodesAssumption DEF Request
    <3>4. /\ a \in Seq(FromCcu)
          /\ \E i \in DOMAIN a : a[i].op \notin {"READY", "SCAN_NAME"} /\ a[i].n = m.n
      BY <2>1, <3>3, AnswersType
    <3> QED BY <3>2, <3>4
  <2>2. CASE m.op \notin Answered
    <3>1. toBridge' = toBridge
      BY <2>2 DEF CcuServes
    <3>2. toBridge' = toBridge \o <<>> /\ <<>> \in Seq(FromCcu)
      BY <1>3, <3>1
    <3> QED BY <2>2, <3>2
  <2> QED BY <2>1, <2>2
<1>5. /\ DOMAIN toBridge' = 1 .. Len(toBridge) + Len(a)
      /\ \A i \in 1 .. Len(toBridge) : toBridge'[i] = toBridge[i]
      /\ \A i \in 1 .. Len(a) : toBridge'[Len(toBridge) + i] = a[i]
      /\ DOMAIN toBridge = 1 .. Len(toBridge) /\ DOMAIN a = 1 .. Len(a)
      /\ Len(toBridge) \in Nat /\ Len(a) \in Nat
  BY <1>3, <1>4
<1>6. CASE LosesAnswer(toBridge)
  <2>1. PICK i \in DOMAIN toBridge :
          toBridge[i].op \notin {"READY", "SCAN_NAME"} /\ toBridge[i].n = asked
    BY <1>6 DEF LosesAnswer
  <2>2. i \in DOMAIN toBridge' /\ toBridge'[i] = toBridge[i]
    BY <1>5, <2>1
  <2> QED BY <1>1, <2>1, <2>2 DEF AnswerUnderWay, LosesAnswer
<1>7. CASE Requested(asked)
  <2>1. PICK i \in DOMAIN toCcu : toCcu[i].op \in Answered /\ toCcu[i].n = asked
    BY <1>7 DEF Requested
  <2>2. CASE i = 1
    <3>1. PICK j \in DOMAIN a : a[j].op \notin {"READY", "SCAN_NAME"} /\ a[j].n = asked
      BY <1>2, <1>4, <2>1, <2>2
    <3>2. Len(toBridge) + j \in DOMAIN toBridge' /\ toBridge'[Len(toBridge) + j] = a[j]
      BY <1>5, <3>1
    <3> QED BY <1>1, <3>1, <3>2 DEF AnswerUnderWay, LosesAnswer
  <2>3. CASE i # 1
    <3>1. i - 1 \in DOMAIN toCcu' /\ toCcu'[i - 1] = toCcu[i]
      BY <1>1, <2>1, <2>3, HeadTailProperties
    <3> QED BY <1>1, <2>1, <3>1 DEF AnswerUnderWay, Requested
  <2> QED BY <2>2, <2>3
<1> QED BY <1>6, <1>7 DEF AnswerUnderWay

\* A packet brings the answer, leaves it where it is, or loses it.
LEMMA PacketAnswers ==
  TypeOK /\ ProcessPacket /\ (AnswerUnderWay \/ lost)
    => \/ AnswerUnderWay' \/ lost'
       \/ LosesAnswer(<<Head(toBridge)>>) /\ ~Ignored(Head(toBridge))
<1> SUFFICES ASSUME TypeOK, ProcessPacket, AnswerUnderWay \/ lost
             PROVE  \/ AnswerUnderWay' \/ lost'
                    \/ LosesAnswer(<<Head(toBridge)>>) /\ ~Ignored(Head(toBridge))
  OBVIOUS
<1> DEFINE m == Head(toBridge)
           Unread(k) == SubSeq(toBridge, k + 1, Len(toBridge))
           Merged(k) == SubSeq(toBridge, 2, k)
           Dropped(k) == LosesAnswer(Merged(k)) \/ (Ignored(m) /\ m.n = asked)
<1>1. /\ toBridge # <<>> /\ toBridge \in Seq(FromCcu)
      /\ m \in FromCcu /\ m = toBridge[1] /\ Len(toBridge) \in Nat
      /\ toCcu' = toCcu /\ asked' = asked
  BY HeadTailProperties DEF TypeOK, ProcessPacket
<1>2. PICK k \in 1 .. Len(toBridge) :
        /\ lost \/ Dropped(k) => lost'
        /\ \/ toBridge' = Unread(k)
           \/ LosesAnswer(Unread(k)) => lost'
  BY DEF ProcessPacket, Abort
<1>3. CASE lost
  BY <1>2, <1>3
<1>4. CASE Requested(asked)
  BY <1>1, <1>4 DEF AnswerUnderWay, Requested
<1>5. CASE LosesAnswer(toBridge)
  <2>1. PICK i \in DOMAIN toBridge :
          toBridge[i].op \notin {"READY", "SCAN_NAME"} /\ toBridge[i].n = asked
    BY <1>5 DEF LosesAnswer
  <2>2. CASE i = 1
    <3>1. LosesAnswer(<<m>>)
      BY <1>1, <2>1, <2>2 DEF LosesAnswer
    <3> QED BY <1>1, <1>2, <2>1, <2>2, <3>1
  <2>3. CASE i \in 2 .. k
    <3>1. i - 1 \in DOMAIN Merged(k) /\ Merged(k)[i - 1] = toBridge[i]
      BY <1>1, <2>3, SubSeqProperties
    <3>2. LosesAnswer(Merged(k))
      BY <2>1, <3>1 DEF LosesAnswer
    <3> QED BY <1>2, <3>2
  <2>4. CASE i > k
    <3>1. i \in 1 .. Len(toBridge) /\ k \in Nat
      BY <1>1, <2>1
    <3>2. /\ Len(Unread(k)) = Len(toBridge) - k
          /\ DOMAIN Unread(k) = 1 .. Len(Unread(k))
          /\ \A j \in 1 .. Len(toBridge) - k : Unread(k)[j] = toBridge[k + j]
      BY <1>1, <2>4, <3>1
    <3>3. i - k \in 1 .. Len(toBridge) - k /\ k + (i - k) = i
      BY <1>1, <2>4, <3>1
    <3>4. i - k \in DOMAIN Unread(k) /\ Unread(k)[i - k] = toBridge[i]
      BY <3>2, <3>3
    <3>5. LosesAnswer(Unread(k))
      BY <2>1, <3>4 DEF LosesAnswer
    <3> QED BY <1>1, <1>2, <3>5 DEF AnswerUnderWay, LosesAnswer
  <2> QED BY <1>1, <2>1, <2>2, <2>3, <2>4
<1> QED BY <1>3, <1>4, <1>5 DEF AnswerUnderWay

\* A packet after which the FSM waits has not brought the answer.
LEMMA PacketLeavesWait ==
  TypeOK /\ ProcessPacket /\ Waiting'
    => /\ Waiting
       /\ ~(LosesAnswer(<<Head(toBridge)>>) /\ ~Ignored(Head(toBridge)))
<1> SUFFICES ASSUME TypeOK, ProcessPacket, Waiting'
             PROVE  /\ Waiting
                    /\ ~(LosesAnswer(<<Head(toBridge)>>) /\ ~Ignored(Head(toBridge)))
  OBVIOUS
<1> DEFINE m == Head(toBridge)
<1>1. m \in FromCcu
  BY HeadTailProperties DEF TypeOK, ProcessPacket
<1>2. bt_state' # "INIT"
  BY DEF Waiting, WaitingStates
<1>3. bt_state' = StateAfter(m, bt_state)
  BY <1>2 DEF ProcessPacket, Interpret, Abort
<1>4. Waiting /\ (m.op = "SCAN_NAME" \/ Ignored(m))
  BY <1>1, <1>3, StateAfterRests DEF Waiting, TypeOK
<1>5. m.op = "SCAN_NAME" => ~LosesAnswer(<<m>>)
  BY DEF LosesAnswer
<1> QED BY <1>4, <1>5

\* A start of the CCU loses requests, not answers.
LEMMA StartingAnswers ==
  TypeOK /\ CcuStarts /\ (AnswerUnderWay \/ lost) => AnswerUnderWay' \/ lost'
<1> SUFFICES ASSUME TypeOK, CcuStarts, AnswerUnderWay \/ lost
             PROVE  AnswerUnderWay' \/ lost'
  OBVIOUS
<1> DEFINE ready == [op |-> "READY", code |-> "ok", n |-> 0]
<1>1. asked' = asked /\ lost' = (lost \/ Requested(asked)) /\ toBridge' = Append(toBridge, ready)
  BY DEF CcuStarts
<1>2. CASE lost \/ Requested(asked)
  BY <1>1, <1>2
<1>3. CASE LosesAnswer(toBridge)
  <2>1. PICK i \in DOMAIN toBridge :
          toBridge[i].op \notin {"READY", "SCAN_NAME"} /\ toBridge[i].n = asked
    BY <1>3 DEF LosesAnswer
  <2>2. i \in DOMAIN toBridge' /\ toBridge'[i] = toBridge[i]
    BY <1>1, <2>1 DEF TypeOK
  <2> QED BY <1>1, <2>1, <2>2 DEF AnswerUnderWay, LosesAnswer
<1> QED BY <1>2, <1>3 DEF AnswerUnderWay

\* Steps that leave the line and its history alone and start no wait.
LEMMA QuietStep ==
  ASSUME Accounted, AnswerFollows,
         UNCHANGED <<toCcu, toBridge, asked, lost, answered, stale, writes>>,
         bt_state' = bt_state \/ ~Waiting'
  PROVE  Accounted' /\ AnswerFollows'
BY DEF Accounted, AnswerFollows, AnswerUnderWay, Requested, LosesAnswer, Waiting

\* Every step keeps the answer of a wait coming.
LEMMA WaitInvStep == TypeOK /\ WaitInv /\ [Next]_vars => WaitInv'
<1> SUFFICES ASSUME TypeOK, WaitInv, [Next]_vars
             PROVE  WaitInv'
  OBVIOUS
<1> USE DEF bridgeVars, phoneVars, lineVars, historyVars
<1>0. AskedLast /\ Accounted /\ AnswerFollows
  BY DEF WaitInv
<1>1. CASE Poll
  <2>1. UNCHANGED <<btc, toCcu, toBridge, asked, lost, answered, stale, writes>>
    BY <1>1 DEF Poll
  <2>2. bt_state' = bt_state \/ ~Waiting'
    BY <1>1 DEF Poll, Waiting, WaitingStates
  <2> QED BY <1>0, <2>1, <2>2, QuietStep DEF WaitInv, AskedLast
<1>2. CASE Advertise \/ Connect \/ Disconnect
  <2>1. /\ UNCHANGED <<bt_state, asked, lost, answered, stale, writes, toBridge>>
        /\ btc' = "idle"
        /\ \E op \in Notices : Send(op)
    BY <1>2 DEF Advertise, Connect, Disconnect, Notices
  <2>2. AnswerUnderWay => AnswerUnderWay'
    <3>1. Requested(asked) => Requested(asked)'
      BY <2>1, SendKeepsRequests DEF TypeOK, Requested
    <3> QED BY <2>1, <3>1 DEF AnswerUnderWay, LosesAnswer
  <2>3. Accounted' /\ AnswerFollows'
    BY <1>0, <2>1, <2>2 DEF Accounted, AnswerFollows, Waiting
  <2> QED BY <2>1, <2>3 DEF WaitInv, AskedLast
<1>3. CASE Write
  <2>1. asked' < writes' /\ asked' # writes'
    BY <1>3, BoundsAssumption DEF Write, TypeOK
  <2>2. Accounted'
    BY <1>0, <1>3 DEF Write, Accounted, AnswerUnderWay, Requested, LosesAnswer
  <2> QED BY <2>1, <2>2 DEF WaitInv, AskedLast, AnswerFollows
<1>4. CASE Enter \/ Settle \/ StoreCode
  <2>1. asked < writes /\ UNCHANGED <<toCcu, toBridge, asked, lost, answered, writes>>
    BY <1>0, <1>4 DEF AskedLast, Enter, Settle, SetState, StoreCode
  <2>2. asked' < writes' /\ asked' # writes'
    BY <2>1, BoundsAssumption DEF TypeOK
  <2>3. Accounted'
    BY <1>0, <2>1 DEF Accounted, AnswerUnderWay, Requested, LosesAnswer
  <2> QED BY <2>2, <2>3 DEF WaitInv, AskedLast, AnswerFollows
<1>5. CASE Ask
  <2>1. btc' \in {"idle", "rescan"} /\ UNCHANGED <<bt_state, toBridge, writes>>
    BY <1>5 DEF Ask, NextStep, LastStep
  <2>2. CASE handling.ask \in Answered
    <3>1. asked' = writes /\ Send(handling.ask)
      BY <1>5, <2>2 DEF Ask, Answered, DoneState, None
    <3>2. Requested(asked)'
      BY <2>1, <2>2, <3>1, SendKeepsRequests DEF TypeOK, Requested
    <3> QED BY <2>1, <3>2 DEF WaitInv, AskedLast, Accounted, AnswerFollows, AnswerUnderWay
  <2>3. CASE handling.ask \notin Answered
    <3>1. UNCHANGED <<asked, lost, answered>> /\ asked < writes
      BY <1>0, <1>5, <2>3 DEF Ask, AskedLast
    <3>2. asked' # writes'
      BY <2>1, <3>1, BoundsAssumption DEF TypeOK
    <3>3. Requested(asked) => Requested(asked)'
      <4>1. CASE handling.ask = None
        BY <1>5, <3>1, <4>1 DEF Ask, Requested
      <4>2. CASE handling.ask # None
        <5>1. Send(handling.ask)
          BY <1>5, <4>2 DEF Ask
        <5> QED BY <3>1, <5>1, SendKeepsRequests DEF TypeOK, Requested
      <4> QED BY <4>1, <4>2
    <3>4. Accounted'
      BY <1>0, <2>1, <3>1, <3>3 DEF Accounted, AnswerUnderWay, LosesAnswer
    <3> QED BY <2>1, <3>2, <3>4 DEF WaitInv, AskedLast, AnswerFollows
  <2> QED BY <2>2, <2>3
<1>6. CASE Check \/ MarkNotReady \/ Respond \/ StartNames \/ Rescan
  <2>1. /\ UNCHANGED <<toCcu, toBridge, asked, lost, answered, stale, writes>>
        /\ btc' \notin {"enter", "code", "settle", "ask"}
    BY <1>6 DEF Check, MarkNotReady, Respond, StartNames, Rescan, Compare
  <2>2. bt_state' = bt_state \/ ~Waiting'
    BY <1>6 DEF Check, MarkNotReady, Respond, StartNames, Rescan, Compare, Waiting,
       WaitingStates
  <2> QED BY <1>0, <2>1, <2>2, QuietStep DEF WaitInv, AskedLast
<1>7. CASE ForceScan
  <2>1. /\ btc' = "idle" /\ stale' = answered
        /\ UNCHANGED <<toCcu, toBridge, asked, lost, answered, writes>>
    BY <1>7 DEF ForceScan
  <2> QED
    BY <1>0, <2>1
    DEF WaitInv, AskedLast, Accounted, AnswerFollows, AnswerUnderWay, Requested, LosesAnswer
<1>8. CASE ProcessPacket
  <2>1. UNCHANGED <<asked, writes, stale>>
    BY <1>8 DEF ProcessPacket
  <2>2. btc' = btc \/ btc' = "register"
    BY <1>8 DEF ProcessPacket, Abort
  <2>3. AskedLast'
    BY <1>0, <2>1, <2>2 DEF AskedLast
  <2>4. answered' = (answered \/ (LosesAnswer(<<Head(toBridge)>>) /\ ~Ignored(Head(toBridge))))
    BY <1>8 DEF ProcessPacket
  <2>5. Accounted'
    BY <1>0, <1>8, <2>4, PacketAnswers DEF Accounted
  <2>6. AnswerFollows'
    BY <1>0, <1>8, <2>1, PacketAnswers, PacketLeavesWait DEF AnswerFollows
  <2> QED BY <2>3, <2>5, <2>6 DEF WaitInv
<1>9. CASE Ccu
  <2>1. UNCHANGED <<btc, bt_state, asked, writes, answered, stale>>
    BY <1>9 DEF Ccu, CcuServes, CcuStarts
  <2>2. AnswerUnderWay \/ lost => AnswerUnderWay' \/ lost'
    <3>1. CcuServes => lost' = lost
      BY DEF CcuServes
    <3> QED BY <1>9, <3>1, ServingAnswers, StartingAnswers DEF Ccu
  <2>3. Accounted' /\ AnswerFollows'
    BY <1>0, <2>1, <2>2 DEF Accounted, AnswerFollows, Waiting
  <2> QED BY <1>0, <2>1, <2>3 DEF WaitInv, AskedLast
<1>10. CASE UNCHANGED vars
  <2>1. UNCHANGED <<btc, bt_state, toCcu, toBridge, asked, lost, answered, stale, writes>>
    BY <1>10 DEF vars
  <2> QED BY <1>0, <2>1, QuietStep DEF WaitInv, AskedLast
<1> QED
  BY <1>1, <1>2, <1>3, <1>4, <1>5, <1>6, <1>7, <1>8, <1>9, <1>10
  DEF Next, Start, Phone, WriteSteps, ReadSteps

(***************************************************************************)
(* No wakeup is lost, whatever the commands and the codes of the CCU:      *)
(* whenever the Bluetooth task is idle and the FSM waits for the answer to *)
(* the current command, that answer is on its way or was lost on the line, *)
(* or the command asked for a scan that was over before the last of        *)
(* read_ble_message's three reads of the state was acted upon.             *)
(***************************************************************************)
THEOREM AnswerIsStillComing == Spec => []AnswerStillComing
<1>1. Init => WaitInv
  BY DEF Init, WaitInv, AskedLast, Accounted, AnswerFollows, Waiting, WaitingStates
<1>2. TypeOK /\ WaitInv /\ [Next]_vars => WaitInv'
  BY WaitInvStep
<1> QED BY <1>1, <1>2, BridgeTypeOK, WaitInvGivesAnswer, PTL DEF Spec

-----------------------------------------------------------------------------
(* A patient phone reads its own results.                                  *)

\* Whether something the CCU was asked or has answered is on the line.
InFlight == toBridge # <<>> \/ \E i \in DOMAIN toCcu : toCcu[i].op \in Answered

Ends(m) == m.op \notin {"READY", "SCAN_NAME"}

\* A command that asks the CCU waits first.
WaitsBefore(h) ==
  h.ask \in Answered =>
    h.settle \in WaitingStates \/ (h.settle = None /\ h.enter \in WaitingStates)

\* Before the CCU starts for the first time.
Fresh ==
  /\ writes = 0
  /\ toBridge # <<>> => /\ boots = MaxBoots
                        /\ Len(toBridge) = 1
                        /\ toBridge[1].op = "READY"
  /\ ccuId \/ bt_state = "CCU_READY" => toBridge = <<>> /\ boots = MaxBoots

\* After the bridge restarted: nothing will tell it again that the CCU is ready.
Stopped ==
  /\ boots = MaxBoots
  /\ toBridge = <<>>
  /\ ~ccuId
  /\ bt_state # "CCU_READY"

Starting ==
  btc = "register" =>
    /\ \A i \in DOMAIN toCcu : toCcu[i].op \notin Answered
    /\ Fresh \/ Stopped

\* What is on the line belongs to the current command, which waits for it: one
\* request, or what is left of its answer, of which the last message ends the wait.
OneExchange ==
  btc # "register" =>
    /\ boots = MaxBoots
    /\ InFlight => writes > 0 /\ asked = writes /\ Waiting
    /\ \A i \in DOMAIN toCcu : toCcu[i].op \in Answered => toCcu[i].n = asked
    /\ \A i, j \in DOMAIN toCcu :
         toCcu[i].op \in Answered /\ toCcu[j].op \in Answered => i = j
    /\ (\E i \in DOMAIN toCcu : toCcu[i].op \in Answered) => toBridge = <<>>
    /\ \A i \in DOMAIN toBridge :
         /\ toBridge[i].n = asked
         /\ toBridge[i].op # "READY"
         /\ toBridge[i].code # "odd"
         /\ Ends(toBridge[i]) => i = Len(toBridge)

\* The steps of a command up to its question.
BeforeAsking ==
  btc \in {"enter", "code", "settle", "ask"} =>
    /\ asked < writes
    /\ WaitsBefore(handling)
    /\ handling.ask \in Answered =>
         /\ btc \in {"code", "settle"} /\ handling.settle = None => Waiting
         /\ btc = "ask" => Waiting

\* A command that asked either waits, and a read under way will not settle it,
\* or is answered; then its code is there or was written over by a read.
AskedThenAnswered ==
  btc # "register" /\ asked = writes /\ writes > 0 =>
    IF Waiting
      THEN btc = "respond" => code \in ReadAgain
      ELSE codeFrom = writes \/ code = "NOT_READY"

\* What the phone has read of the current command.
LastReply ==
  /\ reply.n <= writes
  /\ btc \in {"enter", "code", "settle", "ask",
              "rescan", "rescanComplete", "rescanNames", "force"} => reply.n < writes
  /\ btc # "register" /\ Settled /\ asked = writes /\ writes > 0 => ~Waiting

OwnInv ==
  /\ Starting
  /\ OneExchange
  /\ BeforeAsking
  /\ AskedThenAnswered
  /\ LastReply
  /\ OwnResult

LEMMA TableWaits ==
  ASSUME NEW c \in DOMAIN CommandTable, c \notin {"activate", "addressStart"}
  PROVE  WaitsBefore(CommandTable[c])
<1> USE DEF Handling, WaitsBefore, WaitingStates, Answered, DoneState, None
<1>1. c \in DOMAIN AccountCommands => WaitsBefore(AccountCommands[c])
  BY DEF AccountCommands
<1>2. c \in DOMAIN NumberCommands => WaitsBefore(NumberCommands[c])
  BY DEF NumberCommands
<1>3. c \in DOMAIN WifiCommands => WaitsBefore(WifiCommands[c])
  BY DEF WifiCommands
<1>4. c \in DOMAIN SystemCommands => WaitsBefore(SystemCommands[c])
  BY DEF SystemCommands
<1>5. c \in DOMAIN AddressCommands => WaitsBefore(AddressCommands[c])
  BY DEF AddressCommands
<1>6. WaitsBefore(Handling(None, "UNRECOGNIZED", None, None))
  OBVIOUS
<1> HIDE DEF Handling, WaitsBefore, WaitingStates, Answered, DoneState, None
<1> QED BY <1>1, <1>2, <1>3, <1>4, <1>5, <1>6 DEF CommandTable

\* Every command waits before it asks, but those two.
LEMMA HandlingsWait ==
  ASSUME NEW c \in AllCommands, c \notin {"activate", "addressStart"}, NEW s \in BOOLEAN,
         NEW h \in Handlings(c, s)
  PROVE  WaitsBefore(h)
<1>1. CASE c \in VoiceCommands
  BY <1>1 DEF Handlings, VoiceHandlings, VoiceCommands, Chunk, Handling, WaitsBefore,
     WaitingStates, Answered, DoneState, None
<1>2. CASE c = "addressChunk"
  BY <1>2 DEF Handlings, VoiceCommands, Chunk, Handling, WaitsBefore, Answered, DoneState, None
<1>3. CASE c \in DOMAIN CommandTable /\ c \notin VoiceCommands /\ c # "addressChunk"
  BY <1>3, TableWaits DEF Handlings
<1> QED BY <1>1, <1>2, <1>3 DEF AllCommands

\* A phone and a CCU that keep to the protocol.
PatientUse ==
  /\ Patient
  /\ MaxBoots \in {0, 1}
  /\ "odd" \notin CcuCodes
  /\ "activate" \notin Commands /\ "addressStart" \notin Commands

\* Steps that leave the line and the command alone.
LEMMA LineUntouched ==
  ASSUME OneExchange, btc # "register",
         UNCHANGED <<toCcu, toBridge, asked, writes, boots>>,
         InFlight => Waiting'
  PROVE  OneExchange'
BY DEF OneExchange, InFlight

\* A step towards the question: nothing is on the line.
LEMMA NothingAsked ==
  ASSUME TypeOK, OneExchange, btc # "register", asked < writes
  PROVE  ~InFlight
<1>1. asked # writes
  BY DEF TypeOK
<1> QED BY <1>1 DEF OneExchange

\* The phone and the Bluetooth task, but for the question.

LEMMA OwnAtWrite ==
  ASSUME PatientUse, TypeOK, OwnInv, Write
  PROVE  OwnInv'
<1>1. PICK c \in Commands :
        /\ handling' \in Handlings(c, streaming)
        /\ btc' = IF c = "scanNames" THEN "rescan" ELSE "enter"
  BY DEF Write
<1>2. /\ btc = "idle" /\ Settled /\ writes' = writes + 1
      /\ UNCHANGED <<bt_state, reply, toCcu, toBridge, asked, boots>>
  BY DEF Write, PatientUse, lineVars, historyVars
<1>3. asked \in Nat /\ writes \in Nat /\ asked <= writes /\ reply.n = writes
  BY <1>2 DEF TypeOK, Settled
<1>4. asked' < writes' /\ asked' # writes' /\ reply'.n < writes' /\ reply'.n <= writes'
      /\ reply'.n # writes'
  BY <1>2, <1>3
<1>5. ~InFlight
  BY <1>2 DEF OwnInv, OneExchange, LastReply
<1>6. WaitsBefore(handling)'
  BY <1>1, HandlingsWait, CommandsAssumption DEF PatientUse, TypeOK, WaitsBefore
<1>7. btc' \in {"enter", "rescan"}
  BY <1>1
<1>8. Starting'
  BY <1>7 DEF Starting
<1>9. OneExchange'
  BY <1>2, <1>5 DEF OneExchange, InFlight, OwnInv
<1>10. BeforeAsking'
  BY <1>4, <1>6, <1>7 DEF BeforeAsking
<1>11. AskedThenAnswered' /\ LastReply'
  BY <1>4 DEF AskedThenAnswered, LastReply
<1>12. OwnResult'
  BY <1>2 DEF OwnInv, OwnResult
<1> QED BY <1>8, <1>9, <1>10, <1>11, <1>12 DEF OwnInv

LEMMA OwnAtSetState ==
  ASSUME TypeOK, OwnInv, Enter \/ Settle \/ StoreCode
  PROVE  OwnInv'
<1>1. /\ btc \in {"enter", "code", "settle"}
      /\ btc' = NextStep(btc)
      /\ UNCHANGED <<handling, reply, toCcu, toBridge, asked, writes, boots>>
  BY DEF Enter, Settle, StoreCode, SetState, phoneVars, lineVars, historyVars
<1>2. btc' \in {"code", "settle", "ask"}
  BY <1>1 DEF NextStep
<1>3. asked < writes /\ WaitsBefore(handling) /\ ~InFlight
  BY <1>1, NothingAsked DEF OwnInv, BeforeAsking
<1>4. asked \in Nat /\ writes \in Nat /\ asked # writes
  BY <1>3 DEF TypeOK
<1>5. Starting'
  BY <1>2 DEF Starting
<1>6. OneExchange'
  BY <1>1, <1>3, LineUntouched DEF OwnInv
<1>7. BeforeAsking'
  <2>1. SUFFICES ASSUME handling.ask \in Answered
                 PROVE  /\ btc' \in {"code", "settle"} /\ handling.settle = None => Waiting'
                        /\ btc' = "ask" => Waiting'
    BY <1>1, <1>2, <1>3 DEF BeforeAsking, WaitsBefore
  <2>2. handling.settle \in WaitingStates \/ (handling.settle = None /\ handling.enter \in WaitingStates)
    BY <1>3, <2>1 DEF WaitsBefore
  <2>3. None \notin WaitingStates
    BY DEF None, WaitingStates
  <2>4. CASE Enter
    BY <2>2, <2>3, <2>4 DEF Enter, SetState, NextStep, Waiting
  <2>5. CASE StoreCode
    <3>1. btc' = "settle" /\ bt_state' = bt_state /\ btc = "code"
      BY <2>5 DEF StoreCode, NextStep
    <3> QED BY <2>1, <3>1 DEF OwnInv, BeforeAsking, Waiting
  <2>6. CASE Settle
    <3>1. btc' = "ask" /\ btc = "settle"
          /\ bt_state' = IF handling.settle = None THEN bt_state ELSE handling.settle
      BY <2>6 DEF Settle, SetState, NextStep
    <3> QED BY <2>1, <2>2, <2>3, <3>1 DEF OwnInv, BeforeAsking, Waiting
  <2> QED BY <2>4, <2>5, <2>6
<1>8. AskedThenAnswered'
  BY <1>1, <1>4 DEF AskedThenAnswered
<1>9. LastReply'
  BY <1>1, <1>2, <1>4 DEF OwnInv, LastReply
<1>10. OwnResult'
  BY <1>1 DEF OwnInv, OwnResult
<1> QED BY <1>5, <1>6, <1>7, <1>8, <1>9, <1>10 DEF OwnInv

LEMMA OwnAtRescan ==
  ASSUME TypeOK, OwnInv, Rescan \/ ForceScan
  PROVE  OwnInv'
<1>1. /\ btc \in {"rescan", "rescanComplete", "rescanNames", "force"}
      /\ btc' \in {"idle", "rescanComplete", "rescanNames", "force"}
      /\ bt_state' = bt_state \/ Waiting'
      /\ UNCHANGED <<code, codeFrom, reply, toCcu, toBridge, asked, writes, boots>>
  BY DEF Rescan, Compare, ForceScan, phoneVars, lineVars, historyVars, Waiting, WaitingStates
<1>2. reply.n < writes /\ reply.n # writes
  BY <1>1 DEF OwnInv, LastReply, TypeOK
<1>3. Waiting => Waiting'
  BY <1>1 DEF Waiting
<1>4. Starting' /\ BeforeAsking'
  BY <1>1 DEF Starting, BeforeAsking
<1>5. OneExchange'
  BY <1>1, <1>3, LineUntouched DEF OwnInv, OneExchange
<1>6. AskedThenAnswered'
  BY <1>1, <1>3 DEF OwnInv, AskedThenAnswered
<1>7. LastReply' /\ OwnResult'
  BY <1>1, <1>2 DEF OwnInv, LastReply, Settled, OwnResult
<1> QED BY <1>4, <1>5, <1>6, <1>7 DEF OwnInv

LEMMA OwnAtRead ==
  ASSUME TypeOK, NamesRest, OwnInv, Check \/ StartNames \/ MarkNotReady \/ Respond
  PROVE  OwnInv'
<1>1. /\ btc \in {"idle", "names", "mark", "respond"}
      /\ btc' \in {"idle", "names", "mark", "respond"}
      /\ UNCHANGED <<handling, toCcu, toBridge, asked, writes, boots>>
  BY DEF Check, StartNames, MarkNotReady, Respond, phoneVars, lineVars, historyVars
<1>2. Waiting' = Waiting
  BY DEF Check, StartNames, MarkNotReady, Respond, Waiting, NamesRest, WaitingStates
<1>3. Starting' /\ BeforeAsking'
  BY <1>1 DEF Starting, BeforeAsking
<1>4. OneExchange'
  BY <1>1, <1>2, LineUntouched DEF OwnInv, OneExchange
<1>6. AskedThenAnswered'
  <2>1. CASE Check
    BY <1>1, <1>2, <2>1 DEF Check, OwnInv, AskedThenAnswered
  <2>2. CASE StartNames
    BY <1>1, <1>2, <2>2 DEF StartNames, OwnInv, NamesRest, AskedThenAnswered
  <2>3. CASE MarkNotReady
    BY <1>1, <1>2, <2>3 DEF MarkNotReady, AskedThenAnswered, ReadAgain
  <2>4. CASE Respond
    BY <1>1, <1>2, <2>4 DEF Respond, OwnInv, AskedThenAnswered
  <2> QED BY <2>1, <2>2, <2>3, <2>4
<1>7. LastReply' /\ OwnResult'
  <2>1. CASE reply' = reply
    BY <1>1, <1>2, <2>1 DEF OwnInv, LastReply, OwnResult, Settled
  <2>2. CASE Respond
    <3>1. reply' = [n |-> writes, code |-> code, from |-> codeFrom] /\ btc = "respond" /\ btc' = "idle"
      BY <2>2 DEF Respond
    <3>2. asked = writes /\ writes > 0 /\ code \notin ReadAgain => ~Waiting /\ codeFrom = writes
      BY <3>1 DEF OwnInv, AskedThenAnswered, ReadAgain
    <3>3. writes \in Nat /\ asked \in Nat
      BY DEF TypeOK
    <3> QED BY <1>1, <1>2, <3>1, <3>2, <3>3 DEF LastReply, OwnResult, Settled
  <2> QED BY <2>1, <2>2 DEF Check, StartNames, MarkNotReady, phoneVars
<1> QED BY <1>3, <1>4, <1>6, <1>7 DEF OwnInv

\* The messages to the CCU.

LEMMA NoticeSent ==
  ASSUME toCcu \in Seq(Request), NEW op \in Notices, Send(op)
  PROVE  /\ \A i \in DOMAIN toCcu' :
              toCcu'[i].op \in Answered => i \in DOMAIN toCcu /\ toCcu'[i] = toCcu[i]
         /\ InFlight' => toBridge' # <<>> \/ \E i \in DOMAIN toCcu : toCcu[i].op \in Answered
<1> DEFINE m == [op |-> op, n |-> writes]
<1>1. toCcu' = Append(toCcu, m) /\ m.op \notin Answered
  BY DEF Send, Notices, Answered, DoneState
<1>2. /\ DOMAIN toCcu' = 1 .. Len(toCcu) + 1 /\ DOMAIN toCcu = 1 .. Len(toCcu)
      /\ Len(toCcu) \in Nat
      /\ \A i \in 1 .. Len(toCcu) : toCcu'[i] = toCcu[i]
      /\ toCcu'[Len(toCcu) + 1] = m
  BY <1>1
<1> HIDE DEF m
<1>3. \A i \in DOMAIN toCcu' : i = Len(toCcu) + 1 \/ i \in DOMAIN toCcu
  BY <1>2
<1>4. \A i \in DOMAIN toCcu' :
        toCcu'[i].op \in Answered => i \in DOMAIN toCcu /\ toCcu'[i] = toCcu[i]
  BY <1>1, <1>2, <1>3
<1> QED BY <1>4 DEF InFlight

LEMMA OwnAtNotice ==
  ASSUME TypeOK, OwnInv, Advertise \/ Connect \/ Disconnect
  PROVE  OwnInv'
<1>1. PICK op \in Notices : Send(op)
  BY DEF Advertise, Connect, Disconnect, Notices
<1>2. /\ btc' = "idle"
      /\ UNCHANGED <<handling, bt_state, code, codeFrom, reply, toBridge, asked, writes, boots>>
      /\ btc = "idle" \/ (btc = "register" /\ ccuId)
  BY DEF Advertise, Connect, Disconnect, bridgeVars, phoneVars, historyVars
<1>3. Waiting' = Waiting
  BY <1>2 DEF Waiting
<1>4. /\ \A i \in DOMAIN toCcu' :
           toCcu'[i].op \in Answered => i \in DOMAIN toCcu /\ toCcu'[i] = toCcu[i]
      /\ InFlight' => InFlight
  BY <1>1, <1>2, NoticeSent DEF TypeOK, InFlight
<1>5. CASE btc = "idle"
  <2>1. OneExchange'
    BY <1>2, <1>3, <1>4, <1>5 DEF OwnInv, OneExchange
  <2>2. AskedThenAnswered' /\ LastReply'
    BY <1>2, <1>3, <1>5 DEF OwnInv, AskedThenAnswered, LastReply, Settled
  <2> QED BY <1>2, <2>1, <2>2 DEF OwnInv, Starting, BeforeAsking, OwnResult
<1>6. CASE btc = "register" /\ ccuId
  <2>1. /\ Fresh
        /\ \A i \in DOMAIN toCcu : toCcu[i].op \notin Answered
    BY <1>6 DEF OwnInv, Starting, Stopped
  <2>2. writes = 0 /\ toBridge = <<>> /\ boots = MaxBoots /\ ~InFlight
    BY <1>6, <2>1 DEF Fresh, InFlight
  <2>3. OneExchange'
    BY <1>2, <1>4, <2>1, <2>2 DEF OneExchange
  <2>4. AskedThenAnswered' /\ LastReply'
    BY <1>2, <2>2 DEF OwnInv, AskedThenAnswered, LastReply
  <2> QED BY <1>2, <2>3, <2>4 DEF OwnInv, Starting, BeforeAsking, OwnResult
<1> QED BY <1>2, <1>5, <1>6

LEMMA OwnAtAsk ==
  ASSUME TypeOK, OwnInv, Ask
  PROVE  OwnInv'
<1>1. /\ btc = "ask" /\ btc' \in {"idle", "rescan"}
      /\ UNCHANGED <<handling, bt_state, code, codeFrom, reply, toBridge, writes, boots>>
  BY DEF Ask, NextStep, LastStep, phoneVars
<1>2. asked < writes /\ reply.n < writes /\ asked \in Nat /\ writes \in Nat /\ reply.n \in Nat
  BY <1>1 DEF OwnInv, BeforeAsking, LastReply, TypeOK
<1>3. asked # writes /\ reply.n # writes /\ writes > 0 /\ reply.n <= writes
  BY <1>2
<1>4. ~InFlight
  BY <1>1, <1>2, NothingAsked DEF OwnInv
<1>5. Waiting' = Waiting
  BY <1>1 DEF Waiting
<1>6. boots = MaxBoots
  BY <1>1 DEF OwnInv, OneExchange
<1>7. Starting' /\ BeforeAsking'
  BY <1>1 DEF Starting, BeforeAsking
<1>8. LastReply'
  BY <1>1, <1>2, <1>3 DEF LastReply, Settled
<1>9. CASE handling.ask \notin Answered
  <2>1. asked' = asked
    BY <1>9 DEF Ask, historyVars
  <2>2. ~InFlight'
    <3>1. CASE handling.ask = None
      BY <1>1, <1>4, <3>1 DEF Ask, InFlight
    <3>2. CASE handling.ask # None
      <4>1. handling.ask \in Notices /\ Send(handling.ask)
        BY <1>9, <3>2 DEF Ask, TypeOK, HandlingType
      <4> QED BY <1>1, <1>4, <4>1, NoticeSent DEF TypeOK, InFlight
    <3> QED BY <3>1, <3>2
  <2>3. OneExchange'
    BY <1>1, <1>6, <2>2 DEF OneExchange, InFlight
  <2>4. AskedThenAnswered' /\ OwnResult'
    BY <1>1, <1>3, <2>1 DEF OwnInv, AskedThenAnswered, OwnResult
  <2> QED BY <1>7, <1>8, <2>3, <2>4 DEF OwnInv
<1>10. CASE handling.ask \in Answered
  <2> DEFINE m == [op |-> handling.ask, n |-> writes]
  <2>1. asked' = writes /\ toCcu' = Append(toCcu, m) /\ Waiting
    <3>1. handling.ask # None
      BY <1>10 DEF Answered, DoneState, None
    <3> QED BY <1>1, <1>10, <3>1 DEF Ask, Send, OwnInv, BeforeAsking
  <2>2. /\ DOMAIN toCcu' = 1 .. Len(toCcu) + 1 /\ DOMAIN toCcu = 1 .. Len(toCcu)
        /\ Len(toCcu) \in Nat
        /\ \A i \in 1 .. Len(toCcu) : toCcu'[i] = toCcu[i]
        /\ toCcu'[Len(toCcu) + 1] = m
    BY <2>1 DEF TypeOK
  <2>3. \A i \in DOMAIN toCcu' :
          toCcu'[i].op \in Answered => i = Len(toCcu) + 1 /\ toCcu'[i].n = writes
    <3>1. \A i \in 1 .. Len(toCcu) : toCcu[i].op \notin Answered
      BY <1>4, <2>2 DEF InFlight
    <3>2. \A i \in DOMAIN toCcu' : i = Len(toCcu) + 1 \/ i \in 1 .. Len(toCcu)
      BY <2>2
    <3> QED BY <2>2, <3>1, <3>2
  <2>4. toBridge' = <<>>
    BY <1>1, <1>4 DEF InFlight
  <2>5. OneExchange'
    BY <1>1, <1>3, <1>5, <1>6, <2>1, <2>3, <2>4 DEF OneExchange
  <2>6. AskedThenAnswered' /\ OwnResult'
    BY <1>1, <1>3, <1>5, <2>1 DEF AskedThenAnswered, OwnResult
  <2> QED BY <1>7, <1>8, <2>5, <2>6 DEF OwnInv
<1> QED BY <1>9, <1>10

\* The registration, and the CCU.

LEMMA OwnAtPoll ==
  ASSUME TypeOK, OwnInv, Poll
  PROVE  OwnInv'
<1>1. /\ btc = "register" /\ btc' = "register"
      /\ ccuId' = (bt_state = "CCU_READY")
      /\ bt_state' = bt_state \/ bt_state' # "CCU_READY"
      /\ UNCHANGED <<toCcu, toBridge, writes, asked, reply, boots>>
  BY DEF Poll, phoneVars, lineVars, historyVars
<1>2. Fresh => Fresh'
  BY <1>1 DEF Fresh
<1>3. Stopped => Stopped'
  BY <1>1 DEF Stopped
<1>4. Starting'
  BY <1>1, <1>2, <1>3 DEF OwnInv, Starting
<1> QED
  BY <1>1, <1>4 DEF OwnInv, OneExchange, BeforeAsking, AskedThenAnswered, LastReply, OwnResult

\* The CCU starts before the bridge advertises.
LEMMA OwnAtStart ==
  ASSUME PatientUse, TypeOK, OwnInv, CcuStarts
  PROVE  OwnInv'
<1>1. /\ boots < MaxBoots /\ boots' = boots + 1 /\ toCcu' = <<>>
      /\ toBridge' = Append(toBridge, [op |-> "READY", code |-> "ok", n |-> 0])
      /\ UNCHANGED <<btc, ccuId, bt_state, writes, asked, reply>>
  BY DEF CcuStarts, bridgeVars, phoneVars
<1>2. boots # MaxBoots /\ boots' = MaxBoots
  BY <1>1 DEF PatientUse, TypeOK
<1>3. btc = "register" /\ Fresh
  BY <1>2 DEF OwnInv, Starting, Stopped, OneExchange
<1>4. toBridge = <<>> /\ ~ccuId /\ bt_state # "CCU_READY" /\ writes = 0
  BY <1>2, <1>3 DEF Fresh
<1>5. Len(toBridge') = 1 /\ toBridge'[1].op = "READY"
  BY <1>1, <1>4
<1>6. Fresh'
  BY <1>1, <1>2, <1>4, <1>5 DEF Fresh
<1>7. Starting'
  BY <1>1, <1>6 DEF Starting
<1> QED
  BY <1>1, <1>3, <1>7
  DEF OwnInv, OneExchange, BeforeAsking, AskedThenAnswered, LastReply, OwnResult

\* The parts of an answer: the last one, and only it, ends the wait.
LEMMA AnswerEndsLast ==
  ASSUME NEW op \in Answered, NEW c \in CcuCodes, NEW n, NEW a \in Answers(op, c, n)
  PROVE  /\ Len(a) \in Nat /\ a # <<>> /\ DOMAIN a = 1 .. Len(a)
         /\ \A i \in DOMAIN a :
              /\ a[i].n = n /\ a[i].op # "READY" /\ a[i].code = c
              /\ Ends(a[i]) => i = Len(a)
<1> DEFINE M(o) == [op |-> o, code |-> c, n |-> n]
<1>1. \/ \E o \in Answered \cup {"UPDATE_REBOOT"} : a = <<M(o)>>
      \/ a = <<M("SCAN_NAME"), M("SCAN")>>
  BY DEF Answers, Answered, DoneState
<1>2. "READY" \notin Answered \cup {"UPDATE_REBOOT"}
  BY DEF Answered, DoneState
<1>3. CASE \E o \in Answered \cup {"UPDATE_REBOOT"} : a = <<M(o)>>
  BY <1>2, <1>3
<1>4. CASE a = <<M("SCAN_NAME"), M("SCAN")>>
  BY <1>4 DEF Ends
<1> QED BY <1>1, <1>3, <1>4

\* A request becomes its answer, a notice nothing.
LEMMA OwnAtServe ==
  ASSUME PatientUse, TypeOK, OwnInv, CcuServes
  PROVE  OwnInv'
<1> DEFINE m == Head(toCcu)
<1>1. /\ toCcu # <<>> /\ toCcu' = Tail(toCcu) /\ toCcu \in Seq(Request)
      /\ UNCHANGED <<btc, handling, bt_state, code, codeFrom, ccuId, reply, writes, asked, boots>>
  BY DEF CcuServes, bridgeVars, phoneVars, historyVars, TypeOK
<1>2. /\ m = toCcu[1] /\ 1 \in DOMAIN toCcu
      /\ \A i \in DOMAIN toCcu' : i + 1 \in DOMAIN toCcu /\ toCcu'[i] = toCcu[i + 1]
      /\ DOMAIN toCcu = 1 .. Len(toCcu) /\ DOMAIN toCcu' \subseteq Nat
  <2>1. Len(toCcu) \in Nat /\ Len(toCcu) >= 1 /\ DOMAIN toCcu = 1 .. Len(toCcu)
        /\ DOMAIN toCcu' = 1 .. Len(toCcu) - 1
    BY <1>1
  <2>2. \A i \in DOMAIN toCcu' : toCcu'[i] = toCcu[i + 1]
    BY <1>1, <2>1
  <2> QED BY <1>1, <2>1, <2>2
<1>3. Waiting' = Waiting
  BY <1>1 DEF Waiting
<1>4. BeforeAsking' /\ AskedThenAnswered' /\ LastReply' /\ OwnResult'
  BY <1>1, <1>3 DEF OwnInv, BeforeAsking, AskedThenAnswered, LastReply, Settled, OwnResult
<1> HIDE DEF m
<1>5. CASE m.op \notin Answered
  <2>1. toBridge' = toBridge
    BY <1>5 DEF CcuServes, m
  <2>2. Starting'
    BY <1>1, <1>2, <2>1 DEF OwnInv, Starting, Fresh, Stopped
  <2>3. InFlight' => InFlight
    BY <1>2, <2>1 DEF InFlight
  <2>4. OneExchange'
    <3> SUFFICES ASSUME btc # "register"
                 PROVE  OneExchange'
      BY <1>1 DEF OneExchange
    <3>1. \A i, j \in DOMAIN toCcu' :
            toCcu'[i].op \in Answered /\ toCcu'[j].op \in Answered => i = j
      <4> SUFFICES ASSUME NEW i \in DOMAIN toCcu', NEW j \in DOMAIN toCcu',
                          toCcu'[i].op \in Answered, toCcu'[j].op \in Answered
                   PROVE  i = j
        OBVIOUS
      <4>1. i + 1 = j + 1 /\ i \in Nat /\ j \in Nat
        BY <1>2 DEF OwnInv, OneExchange
      <4> QED BY <4>1
    <3>2. \A i \in DOMAIN toCcu' : toCcu'[i].op \in Answered => toCcu'[i].n = asked
      BY <1>2 DEF OwnInv, OneExchange
    <3>3. (\E i \in DOMAIN toCcu' : toCcu'[i].op \in Answered) => toBridge = <<>>
      BY <1>2 DEF OwnInv, OneExchange
    <3> QED BY <1>1, <1>3, <2>1, <2>3, <3>1, <3>2, <3>3 DEF OwnInv, OneExchange
  <2> QED BY <1>4, <2>2, <2>4 DEF OwnInv
<1>6. CASE m.op \in Answered
  <2>1. btc # "register" /\ InFlight /\ m.n = asked /\ toBridge = <<>>
    BY <1>2, <1>6 DEF OwnInv, Starting, OneExchange, InFlight
  <2>2. \A i \in DOMAIN toCcu' : toCcu'[i].op \notin Answered
    <3> SUFFICES ASSUME NEW i \in DOMAIN toCcu', toCcu'[i].op \in Answered
                 PROVE  FALSE
      OBVIOUS
    <3>1. i + 1 = 1 /\ i \in Nat
      BY <1>2, <1>6, <2>1 DEF OwnInv, OneExchange
    <3>2. i # 0
      BY <1>1
    <3> QED BY <3>1, <3>2
  <2>a. PICK c \in CcuCodes : \E a \in Answers(m.op, c, m.n) : toBridge' = toBridge \o a
    BY <1>6 DEF CcuServes, m
  <2>3. PICK a \in Answers(m.op, c, m.n) : toBridge' = toBridge \o a
    BY <2>a
  <2>4. c # "odd"
    BY DEF PatientUse
  <2>5. toBridge' = a
    <3>1. m.n \in Nat /\ c \in Codes
      <4>1. toCcu[1] \in Request
        BY <1>1, <1>2
      <4> QED BY <1>2, <4>1, CodesAssumption DEF Request
    <3>2. a \in Seq(FromCcu)
      BY <1>6, <3>1, AnswersType
    <3> QED BY <2>1, <2>3, <3>2
  <2>6. \A i \in DOMAIN a : /\ a[i].n = asked /\ a[i].op # "READY" /\ a[i].code # "odd"
                            /\ Ends(a[i]) => i = Len(a)
    BY <1>6, <2>1, <2>4, AnswerEndsLast
  <2>7. OneExchange'
    BY <1>1, <1>3, <2>1, <2>2, <2>5, <2>6 DEF OwnInv, OneExchange
  <2>8. Starting'
    BY <1>1, <2>1 DEF Starting
  <2> QED BY <1>4, <2>7, <2>8 DEF OwnInv
<1> QED BY <1>5, <1>6

\* A packet of the CCU is what CCU_READY is, or part of the one answer awaited.
LEMMA OwnAtPacket ==
  ASSUME PatientUse, TypeOK, OwnInv, ProcessPacket
  PROVE  OwnInv'
<1> DEFINE m == Head(toBridge)
           Unread(k) == SubSeq(toBridge, k + 1, Len(toBridge))
<1>1. /\ toBridge # <<>> /\ toBridge \in Seq(FromCcu) /\ m \in FromCcu /\ m = toBridge[1]
      /\ Len(toBridge) \in Nat /\ 1 \in DOMAIN toBridge
      /\ UNCHANGED <<reply, writes, toCcu, asked, boots>>
  BY HeadTailProperties DEF TypeOK, ProcessPacket
<1>2. PICK k \in 1 .. Len(toBridge) :
        IF Fatal(m)
          THEN /\ btc' = "register" /\ ccuId' = FALSE /\ bt_state' = "INIT"
               /\ toBridge' \in {Unread(k), <<>>}
          ELSE /\ Interpret(m)
               /\ toBridge' = Unread(k)
               /\ UNCHANGED <<btc, handling, ccuId>>
  BY DEF ProcessPacket, Abort
<1>3. /\ k \in Nat /\ k >= 1 /\ k <= Len(toBridge)
      /\ Len(Unread(k)) = Len(toBridge) - k
      /\ DOMAIN Unread(k) = 1 .. Len(toBridge) - k
      /\ \A i \in 1 .. Len(toBridge) - k :
           k + i \in DOMAIN toBridge /\ Unread(k)[i] = toBridge[k + i]
      /\ Len(toBridge) = 1 => Unread(k) = <<>>
  <2>1. k \in Nat /\ k >= 1 /\ k <= Len(toBridge)
    BY <1>1
  <2>2. /\ Unread(k) \in Seq(FromCcu)
        /\ Len(Unread(k)) = Len(toBridge) - k
        /\ \A i \in 1 .. Len(toBridge) - k : Unread(k)[i] = toBridge[k + i]
    BY <1>1, <2>1
  <2> HIDE DEF Unread
  <2>3. DOMAIN Unread(k) = 1 .. Len(toBridge) - k
    BY <2>2
  <2>4. \A i \in 1 .. Len(toBridge) - k : k + i \in DOMAIN toBridge
    BY <1>1, <2>1
  <2>5. Len(toBridge) = 1 => Unread(k) = <<>>
    <3>1. Len(toBridge) = 1 => Len(Unread(k)) = 0
      BY <2>1, <2>2
    <3> QED BY <2>2, <3>1
  <2> QED BY <2>1, <2>2, <2>3, <2>4, <2>5
<1>4. OwnResult'
  BY <1>1 DEF OwnInv, OwnResult
<1> HIDE DEF m, Unread
<1>5. CASE btc = "register"
  <2>1. /\ writes = 0 /\ boots = MaxBoots /\ Len(toBridge) = 1 /\ m.op = "READY"
        /\ ~ccuId /\ bt_state # "CCU_READY"
        /\ \A i \in DOMAIN toCcu : toCcu[i].op \notin Answered
    BY <1>1, <1>5 DEF OwnInv, Starting, Fresh, Stopped
  <2>2. toBridge' = <<>> /\ btc' = "register"
    BY <1>2, <1>3, <1>5, <2>1 DEF Fatal
  <2>3. Starting'
    BY <1>1, <2>1, <2>2 DEF Starting, Fresh
  <2> QED
    BY <1>1, <1>4, <2>2, <2>3
    DEF OwnInv, OneExchange, BeforeAsking, AskedThenAnswered, LastReply
<1>6. CASE btc # "register"
  <2>1. /\ boots = MaxBoots /\ writes > 0 /\ asked = writes /\ Waiting
        /\ \A i \in DOMAIN toCcu : toCcu[i].op \notin Answered
        /\ m.n = asked /\ m.op # "READY" /\ m.code # "odd"
        /\ Ends(m) => Len(toBridge) = 1
    BY <1>1, <1>6 DEF OwnInv, OneExchange, InFlight
  <2>2. btc \notin {"enter", "code", "settle", "ask"}
    <3>1. ~(asked < writes)
      BY <2>1 DEF TypeOK
    <3> QED BY <3>1 DEF OwnInv, BeforeAsking
  <2>3. CASE Fatal(m)
    <3>1. Ends(m)
      BY <2>3 DEF Fatal, Ends
    <3>2. toBridge' = <<>> /\ btc' = "register" /\ ccuId' = FALSE /\ bt_state' = "INIT"
      BY <1>2, <1>3, <2>1, <2>3, <3>1
    <3>3. Starting'
      BY <1>1, <2>1, <3>2 DEF Starting, Stopped
    <3> QED
      BY <1>1, <1>4, <3>2, <3>3
      DEF OwnInv, OneExchange, BeforeAsking, AskedThenAnswered, LastReply
  <2>4. CASE ~Fatal(m)
    <3>1. /\ Interpret(m) /\ toBridge' = Unread(k) /\ UNCHANGED <<btc, handling, ccuId>>
      BY <1>2, <2>4
    <3>2. Ends(m) => toBridge' = <<>>
      BY <1>3, <2>1, <3>1
    <3>3. Waiting' => m.op = "SCAN_NAME" \/ Ignored(m)
      BY <1>1, <3>1, StateAfterRests DEF Interpret, Waiting, TypeOK
    <3>4. ~Waiting' => Ends(m) /\ code' = ReportedCode(m) /\ codeFrom' = m.n
      <4>1. m.op = "SCAN_NAME" \/ Ignored(m) => bt_state' = bt_state
        BY <2>1, <3>1 DEF Interpret, StateAfter, Ignored
      <4>2. ~NoVerdict(m)
        BY <2>1 DEF NoVerdict
      <4> QED BY <2>1, <3>1, <4>1, <4>2 DEF Interpret, Reports, Ends, Waiting
    <3>5. InFlight' => Waiting'
      BY <1>1, <2>1, <3>2, <3>4 DEF InFlight
    <3>6. OneExchange'
      <4>1. \A i \in DOMAIN toBridge' :
              /\ toBridge'[i].n = asked /\ toBridge'[i].op # "READY" /\ toBridge'[i].code # "odd"
              /\ Ends(toBridge'[i]) => i = Len(toBridge')
        <5> SUFFICES ASSUME NEW i \in DOMAIN toBridge'
                     PROVE  /\ toBridge'[i].n = asked /\ toBridge'[i].op # "READY"
                            /\ toBridge'[i].code # "odd"
                            /\ Ends(toBridge'[i]) => i = Len(toBridge')
          OBVIOUS
        <5>1. /\ i \in 1 .. Len(toBridge) - k /\ k + i \in DOMAIN toBridge
              /\ toBridge'[i] = toBridge[k + i] /\ Len(toBridge') = Len(toBridge) - k
          BY <1>3, <3>1
        <5>2. Ends(toBridge[k + i]) => k + i = Len(toBridge)
          BY <1>6, <5>1 DEF OwnInv, OneExchange
        <5>3. k + i = Len(toBridge) => i = Len(toBridge) - k
          BY <1>1, <1>3, <5>1
        <5> QED BY <1>6, <5>1, <5>2, <5>3 DEF OwnInv, OneExchange
      <4> QED BY <1>1, <2>1, <3>1, <3>5, <4>1 DEF OneExchange
    <3>7. AskedThenAnswered'
      <4>1. CASE Waiting' /\ btc' = "respond"
        <5>1. code \in ReadAgain
          BY <2>1, <3>1, <4>1 DEF OwnInv, AskedThenAnswered
        <5>2. m.op = "SCAN_NAME" => code' = "SCANNING"
          <6>1. m.op = "SCAN_NAME" => Reports(m) /\ ReportedCode(m) = "SCANNING"
            BY DEF Reports, ReportedCode, Ignored, NoVerdict
          <6> QED BY <3>1, <6>1 DEF Interpret
        <5>3. Ignored(m) => code' = code
          BY <3>1 DEF Interpret, Reports
        <5> QED BY <3>3, <4>1, <5>1, <5>2, <5>3 DEF AskedThenAnswered, ReadAgain
      <4>2. CASE ~Waiting'
        BY <1>1, <2>1, <3>4, <4>2 DEF AskedThenAnswered
      <4> QED BY <4>1, <4>2 DEF AskedThenAnswered
    <3>8. LastReply'
      <4>1. ~Settled
        BY <1>6, <2>1 DEF OwnInv, LastReply
      <4> QED BY <1>1, <3>1, <4>1 DEF OwnInv, LastReply, Settled
    <3>9. Starting' /\ BeforeAsking'
      BY <1>6, <2>2, <3>1 DEF Starting, BeforeAsking
    <3> QED BY <1>4, <3>6, <3>7, <3>8, <3>9 DEF OwnInv
  <2> QED BY <2>3, <2>4
<1> QED BY <1>5, <1>6

LEMMA OwnInvStep == PatientUse /\ TypeOK /\ NamesRest /\ OwnInv /\ [Next]_vars => OwnInv'
<1> SUFFICES ASSUME PatientUse, TypeOK, NamesRest, OwnInv, [Next]_vars
             PROVE  OwnInv'
  OBVIOUS
<1>1. CASE Poll
  BY <1>1, OwnAtPoll
<1>2. CASE Advertise \/ Connect \/ Disconnect
  BY <1>2, OwnAtNotice
<1>3. CASE Write
  BY <1>3, OwnAtWrite
<1>4. CASE Enter \/ Settle \/ StoreCode
  BY <1>4, OwnAtSetState
<1>5. CASE Ask
  BY <1>5, OwnAtAsk
<1>6. CASE Rescan \/ ForceScan
  BY <1>6, OwnAtRescan
<1>7. CASE Check \/ StartNames \/ MarkNotReady \/ Respond
  BY <1>7, OwnAtRead
<1>8. CASE ProcessPacket
  BY <1>8, OwnAtPacket
<1>9. CASE CcuServes
  BY <1>9, OwnAtServe
<1>10. CASE CcuStarts
  BY <1>10, OwnAtStart
<1>11. CASE UNCHANGED vars
  <2>1. UNCHANGED <<btc, handling, bt_state, code, codeFrom, ccuId, reply, toCcu, toBridge,
                    writes, asked, boots>>
    BY <1>11 DEF vars, bridgeVars, phoneVars, lineVars, historyVars
  <2> QED
    BY <2>1 DEF OwnInv, Starting, Fresh, Stopped, OneExchange, InFlight, BeforeAsking,
       AskedThenAnswered, LastReply, Settled, OwnResult, Waiting
<1> QED
  BY <1>1, <1>2, <1>3, <1>4, <1>5, <1>6, <1>7, <1>8, <1>9, <1>10, <1>11
  DEF Next, Start, Phone, WriteSteps, ReadSteps, Ccu

(***************************************************************************)
(* A phone that waits for each outcome reads the CCU's answer to its own   *)
(* command, whatever it asks and at whichever step of a write or a read    *)
(* the answer comes in, merged with others or not; as long as the CCU      *)
(* starts once and answers with a code the bridge knows.  Excluded are the *)
(* two commands that ask and do not wait (ble_apis.c:511, 581-600).        *)
(***************************************************************************)
THEOREM PatientReadsOwnResult ==
  ASSUME PatientUse
  PROVE  Spec => []OwnResult
<1>1. Init => OwnInv
  BY DEF Init, OwnInv, Starting, Fresh, OneExchange, BeforeAsking, AskedThenAnswered, LastReply,
     OwnResult
<1>2. Init => NamesRest
  BY DEF Init, NamesRest
<1>3. TypeOK /\ NamesRest /\ OwnInv /\ [Next]_vars => OwnInv'
  BY PatientUse, OwnInvStep
<1>4. OwnInv => OwnResult
  BY DEF OwnInv
<1> QED BY <1>1, <1>2, <1>3, <1>4, BridgeTypeOK, NamesRestStep, PTL DEF Spec

=============================================================================

--------------------------- MODULE GuardianBridge ---------------------------
(***************************************************************************)
(* The BLE bridge of akbi/ble_ccu between one phone and the CCU.  The      *)
(* phone writes a command, the bridge forwards it over the serial line,    *)
(* and the phone reads the return message, polling while its code is       *)
(* NOT_READY.                                                              *)
(*                                                                         *)
(* Two tasks share bt_state and ep_return_message without a lock:          *)
(*                                                                         *)
(*   - the Bluetooth task (BTC) runs the GATT handlers of main.c, one      *)
(*     event at a time; a handler is several steps here;                   *)
(*   - the esp_timer task runs akbi_process_rx_serial_data.  It has the    *)
(*     higher priority on the same core, so it preempts a handler between  *)
(*     any two steps and is itself one step.                               *)
(*                                                                         *)
(* The phone and the CCU are the environment.  CcuProtocol holds the       *)
(* tables of commands and answers, SerialFramer the receive path.          *)
(***************************************************************************)
EXTENDS CcuProtocol

CONSTANTS
  Commands,      \* Commands the phone uses.
  CcuCodes,      \* Result codes the CCU answers with.
  Patient,       \* Whether the phone reads the result before it writes again.
  MaxWrites,     \* Bounds of the model: commands,
  MaxLine,       \*   messages to the CCU the phone's coming and going adds to,
  MaxBoots,      \*   starts of the CCU,
  MaxMerges      \*   packets that hold more than one message.

ASSUME CommandsAssumption == Commands \subseteq AllCommands

ASSUME CodesAssumption == CcuCodes \subseteq Codes

ASSUME PatientAssumption == Patient \in BOOLEAN

ASSUME BoundsAssumption ==
  /\ MaxWrites \in Nat
  /\ MaxLine \in Nat
  /\ MaxBoots \in Nat
  /\ MaxMerges \in Nat

VARIABLES
  btc,         \* Step the Bluetooth task is at.
  handling,    \* What the command being handled does.
  bt_state,    \* State of the FSM of akbi_fsm.c.
  code,        \* Byte BLE_RET_MSG_RC_OFFSET of ep_return_message.
  codeFrom,    \* Command whose answer stored code; 0: the bridge itself.
  ccuId,       \* Whether byte 0 of ep_return_message is set.
  streaming,   \* flag_sending_voice_data.
  connected,   \* Whether a phone is connected.
  reply,       \* What the phone read last: command, code and its origin.
  toCcu,       \* Messages on the serial line to the CCU,
  toBridge,    \*   and from it.
  writes,      \* Number of commands so far: the current one's number.
  asked,       \* Number of the last command that asks the CCU for an answer.
  lost,        \* Whether that request or its answer got lost or dropped.
  answered,    \* Whether the bridge has handled that answer.
  stale,       \* Whether it had, when it set a scanning state once more.
  boots, merges

bridgeVars == <<btc, handling, bt_state, code, codeFrom, ccuId, streaming>>
phoneVars == <<connected, reply, writes>>
historyVars == <<asked, lost, answered, stale>>
lineVars == <<toCcu, toBridge, historyVars, boots, merges>>

vars == <<bridgeVars, phoneVars, lineVars>>

Steps == {"register", "idle", "enter", "code", "settle", "ask", "rescan",
          "rescanComplete", "rescanNames", "force", "names", "mark", "respond"}

\* Codes that tell the phone to read again.
ReadAgain == {"NOT_READY", "SCANNING"}

\* No command has been written, or the phone knows the outcome of the last.
Settled == reply.n = writes /\ reply.code \notin ReadAgain

NoHandling == Handling(None, None, None, None)

Init ==
  /\ btc = "register"
  /\ handling = NoHandling
  /\ bt_state = "INIT"
  /\ code = "SUCCESS"
  /\ codeFrom = 0
  /\ ccuId = FALSE
  /\ streaming = FALSE
  /\ connected = FALSE
  /\ reply = [n |-> 0, code |-> "SUCCESS", from |-> 0]
  /\ toCcu = <<>>
  /\ toBridge = <<>>
  /\ writes = 0
  /\ asked = 0
  /\ lost = FALSE
  /\ answered = TRUE
  /\ stale = FALSE
  /\ boots = 0
  /\ merges = 0

Send(op) == toCcu' = Append(toCcu, [op |-> op, n |-> writes])

Waiting == bt_state \in WaitingStates

-----------------------------------------------------------------------------
(* Start: ESP_GATTS_REG_EVT polls the FSM every ten seconds until a        *)
(* CCU_READY has been seen, then advertises and says so.                   *)

Poll ==
  /\ btc = "register"
  /\ ~ccuId
  /\ ccuId' = (bt_state = "CCU_READY")
  /\ bt_state' = IF bt_state = "WIFI_SCAN_COMPLETE"
                   THEN "WIFI_NAME_SEND_IN_PROGRESS" ELSE bt_state
  /\ UNCHANGED <<btc, handling, code, codeFrom, streaming, phoneVars, lineVars>>

Advertise ==
  /\ btc = "register"
  /\ ccuId
  /\ btc' = "idle"
  /\ Send("ADV_STARTED")
  /\ UNCHANGED <<handling, bt_state, code, codeFrom, ccuId, streaming, phoneVars,
                 toBridge, historyVars, boots, merges>>

-----------------------------------------------------------------------------
(* The phone comes and goes; nothing of the bridge is reset for it.        *)

Connect ==
  /\ btc = "idle"
  /\ ~connected
  /\ Len(toCcu) < MaxLine
  /\ connected' = TRUE
  /\ Send("MOB_CONNECTED")
  /\ UNCHANGED <<bridgeVars, reply, writes, toBridge, historyVars, boots, merges>>

Disconnect ==
  /\ btc = "idle"
  /\ connected
  /\ Len(toCcu) < MaxLine
  /\ connected' = FALSE
  /\ Send("MOB_DISCONNECTED")
  /\ UNCHANGED <<bridgeVars, reply, writes, toBridge, historyVars, boots, merges>>

-----------------------------------------------------------------------------
(* ESP_GATTS_WRITE_EVT.  The handler clears the return message; then each  *)
(* step of the command is a step of its own.                               *)

Write ==
  /\ btc = "idle"
  /\ connected
  /\ writes < MaxWrites
  /\ Patient => Settled
  /\ \E c \in Commands :
       /\ handling' \in Handlings(c, streaming)
       /\ streaming' = StreamingAfter(c, streaming)
       /\ btc' = IF c = "scanNames" THEN "rescan" ELSE "enter"
  /\ writes' = writes + 1
  /\ code' = "SUCCESS"
  /\ codeFrom' = 0
  /\ UNCHANGED <<bt_state, ccuId, connected, reply, lineVars>>

LastStep == IF handling.ask = "SCAN" THEN "rescan" ELSE "idle"

\* Fault: the message goes out before the state that waits for its answer.
NextStepAskEarly(step) ==
  CASE step = "enter"  -> "code"
    [] step = "code"   -> "ask"
    [] step = "ask"    -> "settle"
    [] step = "settle" -> LastStep

\* The order of the steps of a command.
NextStep(step) ==
  CASE step = "enter"  -> "code"
    [] step = "code"   -> "settle"
    [] step = "settle" -> "ask"
    [] step = "ask"    -> LastStep

\* akbi_set_fsm_state, on entry (read_ble_message or execute_*) and later.
SetState(step, state) ==
  /\ btc = step
  /\ btc' = NextStep(step)
  /\ bt_state' = IF state = None THEN bt_state ELSE state
  /\ UNCHANGED <<handling, code, codeFrom, ccuId, streaming, phoneVars, lineVars>>

\* Fault: the state is not set for commands that store their code at once.
EnterUnguarded ==
  SetState("enter", IF handling.code = "SUCCESS" THEN None ELSE handling.enter)

Enter == SetState("enter", handling.enter)

Settle == SetState("settle", handling.settle)

StoreCode ==
  /\ btc = "code"
  /\ btc' = NextStep(btc)
  /\ IF handling.code = None
       THEN UNCHANGED <<code, codeFrom>>
       ELSE code' = handling.code /\ codeFrom' = 0
  /\ UNCHANGED <<handling, bt_state, ccuId, streaming, phoneVars, lineVars>>

Ask ==
  /\ btc = "ask"
  /\ btc' = NextStep(btc)
  /\ IF handling.ask = None THEN UNCHANGED toCcu ELSE Send(handling.ask)
  /\ IF handling.ask \in Answered
       THEN /\ asked' = writes
            /\ lost' = FALSE
            /\ answered' = FALSE
            /\ stale' = FALSE
       ELSE UNCHANGED historyVars
  /\ UNCHANGED <<handling, bt_state, code, codeFrom, ccuId, streaming, phoneVars,
                 toBridge, boots, merges>>

\* After execute_scan_wifis its caller makes sure of a scanning state: it reads
\* the state once for each state it compares with, and is done at a match.
Compare(step, state, next) ==
  /\ btc = step
  /\ btc' = IF bt_state = state THEN "idle" ELSE next
  /\ UNCHANGED <<handling, bt_state, code, codeFrom, ccuId, streaming, phoneVars, lineVars>>

Rescan ==
  \/ Compare("rescan", "WIFI_SCAN_IN_PROGRESS", "rescanComplete")
  \/ Compare("rescanComplete", "WIFI_SCAN_COMPLETE", "rescanNames")
  \/ Compare("rescanNames", "WIFI_NAME_SEND_IN_PROGRESS", "force")

\* Three reads without a match: it sets the state, whatever happened since.
ForceScan ==
  /\ btc = "force"
  /\ btc' = "idle"
  /\ bt_state' = "WIFI_SCAN_IN_PROGRESS"
  /\ stale' = answered
  /\ UNCHANGED <<handling, code, codeFrom, ccuId, streaming, phoneVars,
                 toCcu, toBridge, asked, lost, answered, boots, merges>>

WriteSteps == Enter \/ StoreCode \/ Settle \/ Ask \/ Rescan \/ ForceScan

-----------------------------------------------------------------------------
(* ESP_GATTS_READ_EVT.  akbi_check_fsm_state_and_respond reads the state   *)
(* once; the handler then marks the message NOT_READY, or not, and copies  *)
(* it out.                                                                 *)

\* Fault: a read takes a scan in progress for a complete one.
CheckScanEarly ==
  /\ btc = "idle"
  /\ connected
  /\ btc' = CASE bt_state \in {"WIFI_SCAN_IN_PROGRESS", "WIFI_SCAN_COMPLETE"} -> "names"
              [] Waiting /\ bt_state # "WIFI_SCAN_IN_PROGRESS"                -> "mark"
              [] OTHER                                                        -> "respond"
  /\ UNCHANGED <<handling, bt_state, code, codeFrom, ccuId, streaming, phoneVars, lineVars>>

Check ==
  /\ btc = "idle"
  /\ connected
  /\ btc' = CASE Waiting                         -> "mark"
              [] bt_state = "WIFI_SCAN_COMPLETE" -> "names"
              [] OTHER                           -> "respond"
  /\ UNCHANGED <<handling, bt_state, code, codeFrom, ccuId, streaming, phoneVars, lineVars>>

\* The first read after a scan; further reads return its names.
StartNames ==
  /\ btc = "names"
  /\ btc' = "respond"
  /\ bt_state' = "WIFI_NAME_SEND_IN_PROGRESS"
  /\ UNCHANGED <<handling, code, codeFrom, ccuId, streaming, phoneVars, lineVars>>

MarkNotReady ==
  /\ btc = "mark"
  /\ btc' = "respond"
  /\ code' = "NOT_READY"
  /\ codeFrom' = 0
  /\ UNCHANGED <<handling, bt_state, ccuId, streaming, phoneVars, lineVars>>

Respond ==
  /\ btc = "respond"
  /\ btc' = "idle"
  /\ reply' = [n |-> writes, code |-> code, from |-> codeFrom]
  /\ UNCHANGED <<handling, bt_state, code, codeFrom, ccuId, streaming,
                 connected, writes, lineVars>>

ReadSteps == StartNames \/ MarkNotReady \/ Respond

-----------------------------------------------------------------------------
(* akbi_process_rx_serial_data, in the callback of the serial timer.       *)

\* Whether ms holds the message that ends the wait of the last request.
LosesAnswer(ms) ==
  \E i \in DOMAIN ms : ms[i].op \notin {"READY", "SCAN_NAME"} /\ ms[i].n = asked

\* abort(): the firmware restarts.  Its tasks start over, the phone is
\* disconnected and messages that arrive meanwhile are lost.
Abort(unread, dropped) ==
  /\ btc' = "register"
  /\ handling' = NoHandling
  /\ bt_state' = "INIT"
  /\ code' = "SUCCESS"
  /\ codeFrom' = 0
  /\ ccuId' = FALSE
  /\ streaming' = FALSE
  /\ connected' = FALSE
  /\ toBridge' \in {unread, <<>>}
  /\ lost' = (lost \/ dropped \/ (toBridge' = <<>> /\ LosesAnswer(unread)))

\* Fault: the code of the answer is stored, the state is not set.
InterpretCodeOnly(m) ==
  /\ bt_state' = IF m.op = "READY" THEN "CCU_READY" ELSE bt_state
  /\ IF Reports(m)
       THEN code' = ReportedCode(m) /\ codeFrom' = m.n
       ELSE UNCHANGED <<code, codeFrom>>

\* Fault: the code of the answer is stored as it is.
InterpretRaw(m) ==
  /\ bt_state' = StateAfter(m, bt_state)
  /\ code' = m.code
  /\ codeFrom' = m.n

Interpret(m) ==
  /\ bt_state' = StateAfter(m, bt_state)
  /\ IF Reports(m)
       THEN code' = ReportedCode(m) /\ codeFrom' = m.n
       ELSE UNCHANGED <<code, codeFrom>>

\* Messages less than 100 ms apart are one packet; only the first is read.
ProcessPacket ==
  /\ toBridge # <<>>
  /\ \E k \in 1 .. Len(toBridge) :
       LET m       == Head(toBridge)
           merged  == SubSeq(toBridge, 2, k)
           unread  == SubSeq(toBridge, k + 1, Len(toBridge))
           dropped == \/ LosesAnswer(merged)
                      \/ Ignored(m) /\ m.n = asked
       IN /\ k > 1 => merges < MaxMerges
          /\ merges' = IF k > 1 THEN merges + 1 ELSE merges
          /\ answered' = (answered \/ (LosesAnswer(<<m>>) /\ ~Ignored(m)))
          /\ IF Fatal(m)
               THEN Abort(unread, dropped)
               ELSE /\ Interpret(m)
                    /\ toBridge' = unread
                    /\ lost' = (lost \/ dropped)
                    /\ UNCHANGED <<btc, handling, ccuId, streaming, connected>>
  /\ UNCHANGED <<reply, writes, toCcu, asked, stale, boots>>

-----------------------------------------------------------------------------
(* The CCU, outside this repository, as the bridge expects it.             *)

Answers(op, c, n) ==
  CASE op = "SCAN"   -> {<<[op |-> "SCAN", code |-> c, n |-> n]>>,
                         <<[op |-> "SCAN_NAME", code |-> c, n |-> n],
                           [op |-> "SCAN", code |-> c, n |-> n]>>}
    [] op = "UPDATE" -> {<<[op |-> o, code |-> c, n |-> n]>> :
                           o \in {"UPDATE", "UPDATE_REBOOT"}}
    [] OTHER         -> {<<[op |-> op, code |-> c, n |-> n]>>}

\* It takes the next message and answers it if it is a request.
CcuServes ==
  /\ toCcu # <<>>
  /\ toCcu' = Tail(toCcu)
  /\ LET m == Head(toCcu)
     IN IF m.op \in Answered
          THEN \E c \in CcuCodes : \E a \in Answers(m.op, c, m.n) : toBridge' = toBridge \o a
          ELSE UNCHANGED toBridge
  /\ UNCHANGED <<bridgeVars, phoneVars, historyVars, boots, merges>>

Requested(n) == \E i \in DOMAIN toCcu : toCcu[i].op \in Answered /\ toCcu[i].n = n

\* It starts, forgets what it was asked and reports that it is ready.
CcuStarts ==
  /\ boots < MaxBoots
  /\ boots' = boots + 1
  /\ toBridge' = Append(toBridge, [op |-> "READY", code |-> "ok", n |-> 0])
  /\ toCcu' = <<>>
  /\ lost' = (lost \/ Requested(asked))
  /\ UNCHANGED <<bridgeVars, phoneVars, asked, answered, stale, merges>>

-----------------------------------------------------------------------------

Start == Poll \/ Advertise
Phone == Connect \/ Disconnect \/ Write \/ Check
Ccu == CcuServes \/ CcuStarts

Next == Start \/ Phone \/ WriteSteps \/ ReadSteps \/ ProcessPacket \/ Ccu

Spec == Init /\ [][Next]_vars

\* The tasks of the bridge are always scheduled again and the CCU answers what
\* it is asked.  Nobody makes the phone write, or read, or the CCU start.
Fairness ==
  /\ WF_vars(Start)
  /\ WF_vars(WriteSteps \/ ReadSteps)
  /\ WF_vars(ProcessPacket)
  /\ WF_vars(CcuServes)

FairSpec == Spec /\ Fairness

-----------------------------------------------------------------------------
(* Properties.                                                             *)

Request == [op : Answered \cup Notices, n : 0 .. MaxWrites]

HandlingType ==
  [enter  : FsmStates \cup {None},
   code   : ReturnCodes \cup {None},
   settle : FsmStates \cup {None},
   ask    : Answered \cup Notices \cup {None}]

TypeOK ==
  /\ btc \in Steps
  /\ handling \in HandlingType
  /\ bt_state \in FsmStates
  /\ code \in ReturnCodes
  /\ codeFrom \in Nat
  /\ {ccuId, streaming, connected, lost, answered, stale} \subseteq BOOLEAN
  /\ reply \in [n : 0 .. MaxWrites, code : ReturnCodes, from : Nat]
  /\ toCcu \in Seq(Request)
  /\ toBridge \in Seq(FromCcu)
  /\ writes \in 0 .. MaxWrites
  /\ asked \in 0 .. writes
  /\ boots \in 0 .. MaxBoots
  /\ merges \in 0 .. MaxMerges

\* The answer to the last request, or the request itself, is on the line.
AnswerUnderWay == Requested(asked) \/ LosesAnswer(toBridge)

(***************************************************************************)
(* No lost wakeup: while the FSM waits for the answer to the current       *)
(* command, that answer is still to come.  The exceptions: it was lost on  *)
(* the way or dropped for a code the bridge does not know                  *)
(* (akbi_ccu_msg_handler.c:267-279), or it was handled before              *)
(* read_ble_message, at the end of a request for a scan, set               *)
(* WIFI_SCAN_IN_PROGRESS once more.  The callback may run between any two  *)
(* steps of a write or read, so this depends on the order of               *)
(* akbi_set_fsm_state and ccu_sent_*.                                      *)
(***************************************************************************)
AnswerStillComing ==
  btc = "idle" /\ Waiting /\ asked = writes => AnswerUnderWay \/ lost \/ stale

(***************************************************************************)
(* A phone that reads a final code for a command that asks the CCU reads   *)
(* what the CCU answered to that command, not to an earlier one and not a  *)
(* value the bridge made up.  Answers carry no number to tell them apart.  *)
(***************************************************************************)
OwnResult ==
  reply.n = asked /\ reply.n > 0 /\ reply.code \notin ReadAgain => reply.from = reply.n

(***************************************************************************)
(* Reads never end a wait, although they write the state they read some    *)
(* steps before: a wait ends with a message of the CCU or a new command.   *)
(***************************************************************************)
WaitKept == [][Waiting /\ ~Waiting' => ProcessPacket \/ Enter \/ Settle]_vars

(***************************************************************************)
(* Every wait for an answer ends, unless the answer was lost or dropped or *)
(* the scan was over when its state was set once more: no other schedule   *)
(* of the two tasks leaves the phone polling for ever.                     *)
(***************************************************************************)
WaitEnds == Waiting /\ asked = writes ~> ~Waiting \/ lost \/ stale

(***************************************************************************)
(* akbi_check_fsm_state_and_respond returns 1 "if waiting for message from *)
(* ccu" and 0 once it is received (akbi_fsm.c:66): once the answer to the  *)
(* current command has been handled the FSM does not wait any more.        *)
(***************************************************************************)
ReceivedEndsWait == btc = "idle" /\ asked = writes /\ answered => ~Waiting

(***************************************************************************)
(* The read handler answers NOT_READY only "if the state is not right":    *)
(* once an answer is in, its code can be read.                             *)
(***************************************************************************)
ResultNotMasked == btc = "idle" /\ code = "NOT_READY" => Waiting

=============================================================================

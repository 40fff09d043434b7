----------------------------- MODULE WifiSetup -----------------------------
(***************************************************************************)
(* Choosing a Wi-Fi network over the BLE bridge of akbi/ble_ccu: the phone *)
(* asks for a scan, reads the number of networks and then their names one  *)
(* by one, and answers with the position of the one it wants.  The choice, *)
(* a new password and the place of an activation come in parts, which the  *)
(* bridge keeps in saved_messages until the last part is there.            *)
(*                                                                         *)
(* As in GuardianBridge a scan command and a read are several steps of the *)
(* Bluetooth task, and the handling of a message of the CCU is one step of *)
(* the timer task that may come between any two of them.  What the other   *)
(* commands may suffer between their steps is left to GuardianBridge, and  *)
(* so are packets with more than one message in them: here the timer task  *)
(* handles one message at a time.                                          *)
(***************************************************************************)
EXTENDS Naturals, Sequences

CONSTANTS
  Surroundings,  \* What a scan may find: the lengths of the names, in order.
  Texts,         \* Parts of a password or a place: kind and length.
  Rows,          \* Number of rows of wifi_report.
  MaxScans,      \* Bounds of the model: scan commands,
  MaxCommands,   \*   these and commands with a part,
  MaxIndex       \*   and the last name a phone reads, there or not.

ASSUME SurroundingsAssumption ==
  \A names \in Surroundings :
    /\ names \in Seq(Nat \ {0})
    /\ Len(names) <= 20
    /\ Len(names) <= Rows

ASSUME SizesAssumption ==
  /\ Texts \subseteq {"CURRENT", "NEW", "KEY", "LATITUDE", "LONGITUDE", "STAMP"} \X Nat
  /\ Rows \in Nat
  /\ Rows >= 13
  /\ MaxScans \in Nat
  /\ MaxCommands \in Nat
  /\ MaxIndex \in Nat

VARIABLES
  btc,                 \* Step the Bluetooth task is at.
  bt_state,            \* State of the FSM, as far as a scan goes.
  ep_return_message,   \* Return code and data.
  wifi_report,         \* The names as the phone will read them,
  wifi_report_length,  \*   their lengths,
  ssid_index,          \*   and the number of those read.
  ap_name,             \* Places of wifi_scan_report that hold a name,
  ap_count,            \*   and the number of names put there.
  saved_messages,      \* The first and the second part of a command.
  toCcu, toBridge,     \* Messages on the serial line.
  found,               \* What the CCU found, scan by scan.
  scans, parts,        \* Commands so far.
  reading,             \* Whether the phone is reading a scan,
  heard,               \*   and what it has read of it.
  recent,              \* The two parts the phone wrote last.
  hurried,             \* Whether it asked for a scan with an answer to come.
  raced,               \* Whether the scan ended in the middle of a read.
  astray               \* Whether the FSM awaits a scan nobody asked for.

reportVars == <<wifi_report, wifi_report_length, ssid_index, ap_name, ap_count>>
phoneVars == <<scans, parts, reading, heard, recent>>
historyVars == <<found, hurried, raced, astray>>

vars == <<btc, bt_state, ep_return_message, reportVars, saved_messages, toCcu, toBridge,
          phoneVars, historyVars>>

Steps == {"idle", "clear", "state", "ask", "rescan", "rescanComplete", "rescanNames", "force",
          "start", "fill", "mark", "respond"}

\* WAIT is any other state in which reads are told to come back, REST the others.
States == {"SCANNING", "COMPLETE", "NAMES", "WAIT", "REST"}

ScanStates == {"SCANNING", "COMPLETE", "NAMES"}

Nobody == <<0, 0>>

\* A row of characters: those of a network's name and those an earlier, longer
\* name left behind it.
Row(net, chars, after) == [net |-> net, chars |-> chars, after |-> after]

Blank == Row(Nobody, 0, 0)

Least(a, b) == IF a <= b THEN a ELSE b

\* memcpy of n characters over a row.
Over(row, net, n) ==
  LET before == row.chars + row.after
  IN Row(net, n, IF before > n THEN before - n ELSE 0)

\* The 12 bytes of a return message: a number or a name, which ends in "~1" if
\* it was cut.
Count(n) == [is |-> "count", n |-> n, row |-> Blank]

Name(row, cut) == [is |-> IF cut THEN "cut" ELSE "name", n |-> 0, row |-> row]

Zeros == Count(0)

Cleared == [rc |-> "SUCCESS", data |-> Zeros]

\* A part of a command.  net is the network the phone means by a position.
Part(kind, n, len, position, net) ==
  [kind |-> kind, n |-> n, len |-> len, position |-> position, net |-> net]

NoPart == Part("none", 0, 0, 0, Nobody)

\* meant: the parts the phone wrote last, for comparison.
Message(op, first, second, meant) ==
  [op |-> op, first |-> first, second |-> second, meant |-> meant]

Init ==
  /\ btc = "idle"
  /\ bt_state = "REST"
  /\ ep_return_message = Cleared
  /\ wifi_report = [i \in 1 .. Rows |-> Blank]
  /\ wifi_report_length = [i \in 1 .. Rows |-> 0]
  /\ ssid_index = 0
  /\ ap_name = {}
  /\ ap_count = 0
  /\ saved_messages = <<NoPart, NoPart>>
  /\ toCcu = <<>>
  /\ toBridge = <<>>
  /\ found = <<>>
  /\ scans = 0
  /\ parts = 0
  /\ reading = FALSE
  /\ heard = <<>>
  /\ recent = <<NoPart, NoPart>>
  /\ hurried = FALSE
  /\ raced = FALSE
  /\ astray = FALSE

-----------------------------------------------------------------------------
(* CID_SCAN_WIFIS: the data type tells a new scan from a request for its   *)
(* names.                                                                  *)

AnswerOwed == toCcu # <<>> \/ toBridge # <<>>

Scan ==
  /\ btc = "idle"
  /\ scans < MaxScans
  /\ scans + parts < MaxCommands
  /\ btc' = "clear"
  /\ ep_return_message' = Cleared
  /\ scans' = scans + 1
  /\ reading' = TRUE
  /\ heard' = <<>>
  /\ hurried' = (hurried \/ AnswerOwed)
  /\ raced' = FALSE
  /\ astray' = FALSE
  /\ UNCHANGED <<bt_state, reportVars, saved_messages, toCcu, toBridge, parts, recent, found>>

\* Fault: the scan is asked for before the state that waits for it is set.
NextStepAskEarly(step) ==
  CASE step = "clear" -> "ask"
    [] step = "ask"   -> "state"
    [] step = "state" -> "idle"

NextStep(step) ==
  CASE step = "clear" -> "state"
    [] step = "state" -> "ask"
    [] step = "ask"   -> "rescan"

\* akbi_clear_ssids; the lengths stay as they are.
ClearSsids ==
  /\ btc = "clear"
  /\ btc' = NextStep(btc)
  /\ wifi_report' = [i \in 1 .. Rows |-> Blank]
  /\ ssid_index' = 0
  /\ UNCHANGED <<bt_state, ep_return_message, wifi_report_length, ap_name, ap_count,
                 saved_messages, toCcu, toBridge, phoneVars, historyVars>>

SetScanning ==
  /\ btc = "state"
  /\ btc' = NextStep(btc)
  /\ bt_state' = "SCANNING"
  /\ UNCHANGED <<ep_return_message, reportVars, saved_messages, toCcu, toBridge, phoneVars,
                 historyVars>>

AskForScan ==
  /\ btc = "ask"
  /\ btc' = NextStep(btc)
  /\ toCcu' = Append(toCcu, Message("SCAN", NoPart, NoPart, recent))
  /\ UNCHANGED <<bt_state, ep_return_message, reportVars, saved_messages, toBridge, phoneVars,
                 historyVars>>

\* The phone asks for names once it has read how many there are, or by mistake.
AskForNames ==
  /\ btc = "idle"
  /\ reading => heard # <<>> \/ hurried
  /\ btc' = "rescan"
  /\ ep_return_message' = Cleared
  /\ UNCHANGED <<bt_state, reportVars, saved_messages, toCcu, toBridge, phoneVars, historyVars>>

\* A scan is asked for, or its end is on the line.
ScanOwed ==
  \/ \E i \in DOMAIN toCcu : toCcu[i].op = "SCAN"
  \/ \E i \in DOMAIN toBridge : toBridge[i].op = "END"

\* Before it returns, read_ble_message compares the state with those of a scan,
\* reading it anew each time.
Compare(step, state, next) ==
  /\ btc = step
  /\ btc' = IF bt_state = state THEN "idle" ELSE next
  /\ UNCHANGED <<bt_state, ep_return_message, reportVars, saved_messages, toCcu, toBridge,
                 phoneVars, historyVars>>

Rescan ==
  \/ Compare("rescan", "SCANNING", "rescanComplete")
  \/ Compare("rescanComplete", "COMPLETE", "rescanNames")
  \/ Compare("rescanNames", "NAMES", "force")

\* Three reads without a match: it sets the state, whatever happened since.
ForceScan ==
  /\ btc = "force"
  /\ btc' = "idle"
  /\ bt_state' = "SCANNING"
  /\ astray' = (astray \/ ~ScanOwed)
  /\ UNCHANGED <<ep_return_message, reportVars, saved_messages, toCcu, toBridge, phoneVars,
                 found, hurried, raced>>

ScanSteps == ClearSsids \/ SetScanning \/ AskForScan \/ Rescan \/ ForceScan

-----------------------------------------------------------------------------
(* A read: akbi_check_fsm_state_and_respond, then the response.  The phone *)
(* reads no more names than it was told of.  If it was not told (its reads *)
(* say NOT_READY, or it does not keep what they say) it may read on for    *)
(* ever: the code compares ssid_index neither with the number of names nor *)
(* with the rows, and only MaxIndex bounds it here.                        *)

Check ==
  /\ btc = "idle"
  /\ reading
  /\ bt_state = "NAMES" => ssid_index < MaxIndex
  /\ heard # <<>> => Len(heard) <= heard[1].n
  /\ btc' = CASE bt_state \in {"SCANNING", "WAIT"} -> "mark"
              [] bt_state = "COMPLETE"             -> "start"
              [] bt_state = "NAMES"                -> "fill"
              [] bt_state = "REST"                 -> "respond"
  /\ UNCHANGED <<bt_state, ep_return_message, reportVars, saved_messages, toCcu, toBridge,
                 phoneVars, historyVars>>

StartNames ==
  /\ btc = "start"
  /\ btc' = "respond"
  /\ ssid_index' = 0
  /\ bt_state' = "NAMES"
  /\ UNCHANGED <<ep_return_message, wifi_report, wifi_report_length, ap_name, ap_count,
                 saved_messages, toCcu, toBridge, phoneVars, historyVars>>

\* What a name looks like in the return message: cut to 10 characters and
\* marked if its length is more than 12.
Shown(row, length) ==
  LET room == IF length > 12 THEN 10 ELSE 12
      own  == Least(row.chars, room)
  IN Name(Row(row.net, own, Least(row.after, room - own)), length > 12)

\* Fault: the index is advanced for a long name and then for every name.
NextRowTwice(length) == ssid_index + (IF length > 12 THEN 2 ELSE 1)

NextRow(length) == ssid_index + 1

\* What is read as the name at an index, and as its length: behind the rows it
\* is whatever the memory holds.
Entries(index) ==
  IF index < Rows THEN {<<wifi_report[index + 1], wifi_report_length[index + 1]>>}
  ELSE {Blank} \X {0, 13}

FillName ==
  /\ btc = "fill"
  /\ btc' = "respond"
  /\ \E entry \in Entries(ssid_index) :
       /\ ep_return_message' = [ep_return_message EXCEPT !.data = Shown(entry[1], entry[2])]
       /\ ssid_index' = NextRow(entry[2])
  /\ UNCHANGED <<bt_state, wifi_report, wifi_report_length, ap_name, ap_count, saved_messages,
                 toCcu, toBridge, phoneVars, historyVars>>

MarkNotReady ==
  /\ btc = "mark"
  /\ btc' = "respond"
  /\ ep_return_message' = [ep_return_message EXCEPT !.rc = "NOT_READY"]
  /\ UNCHANGED <<bt_state, reportVars, saved_messages, toCcu, toBridge, phoneVars, historyVars>>

\* The phone keeps what it reads of a scan, unless it is told to read again.
\* (What it reads after a hurried scan is not kept: two answers are mixed then.)
Respond ==
  /\ btc = "respond"
  /\ btc' = "idle"
  /\ heard' = IF ep_return_message.rc = "SUCCESS" /\ ~hurried
                THEN Append(heard, ep_return_message.data) ELSE heard
  /\ UNCHANGED <<bt_state, ep_return_message, reportVars, saved_messages, toCcu, toBridge,
                 scans, parts, reading, recent, historyVars>>

ReadSteps == StartNames \/ FillName \/ MarkNotReady \/ Respond

-----------------------------------------------------------------------------
(* Commands in parts: change of password, choice of a network, activation. *)

\* Fault: both parts are saved in one place.
OnePlaceOf(kind) == 1

\* save_group_messages: the second part of every command has the same place.
PlaceOf(kind) == IF kind \in {"CURRENT", "SSID", "LATITUDE"} THEN 1 ELSE 2

\* The state after the command; an activation leaves it alone.
StateAfterPart(kind) ==
  CASE kind \in {"CURRENT", "SSID"} -> "REST"
    [] kind \in {"NEW", "KEY"}      -> "WAIT"
    [] OTHER                        -> bt_state

\* Fault: the position goes out as the phone counts, from zero.
ApIdFromZero(part) == part.position

\* The CCU counts from one.
ApId(part) == part.position + 1

\* What goes to the CCU when the last part is there.  The latitude is copied with
\* the length of the longitude.
Sent(kind, saved, meant) ==
  CASE kind = "NEW"   -> <<Message("CHANGE", saved[1], saved[2], meant)>>
    [] kind = "KEY"   -> <<Message("CONFIGURE", [saved[1] EXCEPT !.position = ApId(saved[1])],
                                   saved[2], meant)>>
    [] kind = "STAMP" -> <<Message("ACTIVATE", [saved[1] EXCEPT !.len = Least(@, saved[2].len)],
                                   saved[2], meant)>>
    [] OTHER          -> <<>>

\* save_group_messages keeps a part; the time stamp that ends an activation is
\* used at once.
Saved(part) ==
  IF part.kind = "STAMP" THEN saved_messages
  ELSE [saved_messages EXCEPT ![PlaceOf(part.kind)] = part]

WritePart(part) ==
  /\ btc = "idle"
  /\ scans + parts < MaxCommands
  /\ parts' = parts + 1
  /\ saved_messages' = Saved(part)
  /\ recent' = IF part.kind = "STAMP" THEN recent ELSE <<recent[2], part>>
  /\ toCcu' = toCcu \o Sent(part.kind, saved_messages', recent')
  /\ bt_state' = StateAfterPart(part.kind)
  /\ ep_return_message' = Cleared
  /\ reading' = FALSE
  /\ heard' = <<>>
  /\ UNCHANGED <<btc, reportVars, toBridge, scans, historyVars>>

WriteText ==
  \E text \in Texts : WritePart(Part(text[1], parts + 1, text[2], 0, Nobody))

\* The phone names a network by its position among the names it has read; what
\* it means by that is known if no read was in the way of the scan.
WriteSsid ==
  \E i \in 2 .. Len(heard) :
    WritePart(Part("SSID", parts + 1, 1, i - 2, IF raced THEN Nobody ELSE heard[i].row.net))

-----------------------------------------------------------------------------
(* akbi_process_rx_serial_data.                                            *)

\* The serial driver reads a carriage return as a line feed.
Wire(byte) == IF byte = 13 THEN 10 ELSE byte

\* Fault: the length is taken as it was read.
LengthAsRead(m) == m.length

\* The workaround for a length of 13: the byte after the next one is 0, set by
\* the timer callback behind the last byte of the packet, if the length is 10.
LengthIn(m) == IF m.length = 10 /\ m.chars > 11 THEN 13 ELSE m.length

\* Fault: the position is taken as it was read.
IndexAsRead(m, names) == m.type

\* Fault: positions are counted from the row before.
IndexOneOff(m, names) == (IF m.type = 10 /\ 12 \in names THEN 13 ELSE m.type) + 1

\* The workaround for position 13: the twelfth name is already there.
IndexIn(m, names) == IF m.type = 10 /\ 12 \in names THEN 13 ELSE m.type

\* Fault: no name clears the report.
ClearsNever(m) == FALSE

\* The first name of a scan clears the report.
Clears(m) == m.type = 1

StoreName(m) ==
  LET first == Clears(m)
      names == IF first THEN {} ELSE ap_name
      index == IndexIn(m, names)
      n     == LengthIn(m)
  IN /\ ap_name' = names \cup {index}
     /\ ap_count' = IF first THEN 1 ELSE ap_count + 1
     /\ wifi_report' = [wifi_report EXCEPT ![index] = Over(@, m.net, n)]
     /\ wifi_report_length' = [wifi_report_length EXCEPT ![index] = n]
     /\ ep_return_message' = [ep_return_message EXCEPT !.rc = "SCANNING"]
     /\ UNCHANGED <<bt_state, ssid_index>>

EndScan ==
  /\ bt_state' = "COMPLETE"
  /\ ep_return_message' = [rc |-> "SUCCESS", data |-> Count(ap_count)]
  /\ UNCHANGED reportVars

EndOther ==
  /\ bt_state' = "REST"
  /\ ep_return_message' = [ep_return_message EXCEPT !.rc = "SUCCESS"]
  /\ UNCHANGED reportVars

ProcessMessage ==
  /\ toBridge # <<>>
  /\ toBridge' = Tail(toBridge)
  /\ LET m == Head(toBridge)
     IN CASE m.op = "NAME" -> StoreName(m)
          [] m.op = "END"  -> EndScan
          [] m.op = "DONE" -> EndOther
  /\ raced' = (raced \/ (Head(toBridge).op = "END" /\ btc \in {"mark", "respond"}))
  /\ UNCHANGED <<btc, saved_messages, toCcu, phoneVars, found, hurried, astray>>

-----------------------------------------------------------------------------
(* The CCU, outside this repository: it answers what it is asked in turn.  *)

Answer(op, type, length, net) ==
  [op |-> op, type |-> Wire(type), length |-> Wire(length), chars |-> length, net |-> net]

Names(scan, lengths) ==
  [i \in DOMAIN lengths |-> Answer("NAME", i, lengths[i], <<scan, i>>)]

CcuScans ==
  /\ Head(toCcu).op = "SCAN"
  /\ \E lengths \in Surroundings :
       /\ found' = Append(found, lengths)
       /\ toBridge' = toBridge \o Append(Names(Len(found'), lengths), Answer("END", 0, 0, Nobody))

CcuObeys ==
  /\ Head(toCcu).op # "SCAN"
  /\ toBridge' = Append(toBridge, Answer("DONE", 0, 0, Nobody))
  /\ UNCHANGED found

CcuServes ==
  /\ toCcu # <<>>
  /\ CcuScans \/ CcuObeys
  /\ toCcu' = Tail(toCcu)
  /\ UNCHANGED <<btc, bt_state, ep_return_message, reportVars, saved_messages, phoneVars,
                 hurried, raced, astray>>

-----------------------------------------------------------------------------

Phone == Scan \/ AskForNames \/ WriteText \/ WriteSsid \/ Check

Next == Phone \/ ScanSteps \/ ReadSteps \/ ProcessMessage \/ CcuServes

Spec == Init /\ [][Next]_vars

-----------------------------------------------------------------------------
(* Properties.                                                             *)

Kinds == {"CURRENT", "NEW", "SSID", "KEY", "LATITUDE", "LONGITUDE"}

Nets == Nat \X Nat

RowType == [net : Nets, chars : Nat, after : Nat]

DataType == [is : {"count", "name", "cut"}, n : Nat, row : RowType]

PartType == [kind : Kinds \cup {"none"}, n : Nat, len : Nat, position : Nat, net : Nets]

TwoParts == PartType \X PartType

Requests ==
  [op : {"SCAN", "CHANGE", "CONFIGURE", "ACTIVATE"}, first : PartType, second : PartType,
   meant : TwoParts]

AnswerType ==
  [op : {"NAME", "END", "DONE"}, type : 0 .. 20, length : Nat, chars : Nat, net : Nets]

TypeOK ==
  /\ btc \in Steps
  /\ bt_state \in States
  /\ ep_return_message \in [rc : {"SUCCESS", "SCANNING", "NOT_READY"}, data : DataType]
  /\ wifi_report \in [1 .. Rows -> RowType]
  /\ wifi_report_length \in [1 .. Rows -> Nat]
  /\ ssid_index \in Nat
  /\ ap_name \subseteq 1 .. Rows
  /\ ap_count \in Nat
  /\ saved_messages \in TwoParts
  /\ toCcu \in Seq(Requests)
  /\ toBridge \in Seq(AnswerType)
  /\ found \in Seq(Surroundings)
  /\ scans \in 0 .. MaxScans
  /\ parts \in 0 .. MaxCommands
  /\ heard \in Seq(DataType)
  /\ recent \in TwoParts
  /\ {reading, hurried, raced, astray} \subseteq BOOLEAN

\* The phone did not ask for a scan too early and no read was in the way.
Orderly == reading /\ ~hurried /\ ~raced

(***************************************************************************)
(* The reads of an undisturbed scan stay within the rows, although         *)
(* akbi_fsm.c:146-161 compares the index with nothing: the number the      *)
(* phone reads first, how often it then reads and the index stay in step.  *)
(* (Reads of a raced scan do not: they say NOT_READY to the end, and the   *)
(* index grows past the rows.)                                             *)
(***************************************************************************)
RowsRead == Orderly /\ btc = "fill" => ssid_index < Rows

\* The j-th network of the phone's scan, as it should be shown.
NameOf(j) ==
  LET n == found[scans][j]
  IN Name(Row(<<scans, j>>, IF n > 12 THEN 10 ELSE n, 0), n > 12)

(***************************************************************************)
(* After the number, the phone reads the names of its own scan, each once, *)
(* in the CCU's order and with all their characters or a mark, although    *)
(* the line turns a 13 into a 10 (akbi_ccu_msg_handler.c:106-121) and the  *)
(* rows, their lengths and the index are reset in different places.        *)
(***************************************************************************)
MenuIsScan ==
  Orderly => \A j \in 1 .. Len(heard) - 1 : j <= Len(found[scans]) => heard[j + 1] = NameOf(j)

\* What ap_count holds after the scans: a scan that finds nothing has no first
\* name to clear it.
LastCount ==
  IF \A s \in DOMAIN found : found[s] = <<>> THEN 0
  ELSE Len(found[CHOOSE s \in DOMAIN found :
                   /\ found[s] # <<>>
                   /\ \A t \in DOMAIN found : t > s => found[t] = <<>>])

(***************************************************************************)
(* The number the phone reads first is the number of networks the CCU      *)
(* found in this scan, or in the last one that found any.                  *)
(***************************************************************************)
CountIsFound == Orderly /\ heard # <<>> => heard[1] = Count(LastCount)

\* The parts are the two halves of one command, the first one written first.
Pairs == {<<"CURRENT", "NEW">>, <<"SSID", "KEY">>, <<"LATITUDE", "LONGITUDE">>}

Paired(m) == <<m.meant[1].kind, m.meant[2].kind>> \in Pairs

Whole(m) ==
  /\ m.first.n = m.meant[1].n
  /\ m.second = m.meant[2]
  /\ \/ m.first.len = m.meant[1].len
     \/ m.op = "ACTIVATE" /\ m.second.len < m.meant[1].len

(***************************************************************************)
(* If the phone wrote the two parts of a command last and one after the    *)
(* other, the CCU gets these two and whole, although all commands save     *)
(* their parts in the same places (ble_apis.c:60-64).  The exception: a    *)
(* latitude longer than the longitude is cut (ble_apis.c:509).             *)
(***************************************************************************)
PartsArrive ==
  \A i \in DOMAIN toCcu : toCcu[i].op # "SCAN" /\ Paired(toCcu[i]) => Whole(toCcu[i])

(***************************************************************************)
(* The CCU is told to connect to the network whose name the phone saw at   *)
(* the position it chose: the names, the phone's position and the CCU's    *)
(* own numbering stay in step, whatever the phone does after its choice.   *)
(* Of a name read after a raced scan nothing is claimed (WriteSsid): it is *)
(* one place off.                                                          *)
(***************************************************************************)
SelectedAsShown ==
  \A i \in DOMAIN toCcu :
    LET m == toCcu[i]
    IN m.op = "CONFIGURE" /\ m.first.net # Nobody => m.first.position = m.first.net[2]

(***************************************************************************)
(* While the FSM says that a scan is in progress, the end of a scan is     *)
(* still to come, at whatever step of the command the CCU's messages came  *)
(* in.  The exception: read_ble_message found no scan and set the state    *)
(* itself (ble_apis.c:724-727), because the phone asked for the names of   *)
(* none, or because the answer to a command before it came in between.     *)
(* Then the phone is not reading a scan, or it asked for it too early.     *)
(***************************************************************************)
ScanUnderWay ==
  btc = "idle" /\ bt_state = "SCANNING" => ScanOwed \/ (astray /\ (reading => hurried))

=============================================================================

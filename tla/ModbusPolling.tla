--------------------------- MODULE ModbusPolling ---------------------------
(***************************************************************************)
(* Register polling of the Modbus gateway: the poll callback of            *)
(* ble_modbus_bridge/main/icom_modbus_task.c, the read functions of        *)
(* modbus.c it calls, and the serial line to the Modbus device.            *)
(*                                                                         *)
(* The callbacks of all registers run one after the other in the esp_timer *)
(* task, and a read blocks that task until its answer is there or 500 ms   *)
(* have passed without a byte.  The model knows nothing of 500 ms: a read  *)
(* may time out whenever no byte is waiting, however near the answer is.   *)
(* What is not read stays on the line, since the context has the error     *)
(* recovery MODBUS_ERROR_RECOVERY_NONE and so nothing is ever flushed.     *)
(*                                                                         *)
(* A byte of an answer carries the number of the request it answers, its   *)
(* place and the length of the answer.  The line has no such thing: they   *)
(* say whether the bytes of a message are those of one answer, undisturbed *)
(* and complete, which is what the CRC is taken to find out.               *)
(***************************************************************************)
EXTENDS ModbusRtu, FiniteSets

CONSTANTS
  Registers,      \* The configured registers.
  RegType,        \* Type of each,
  RegAddress,     \*   and its address.
  Devices,        \* Slave numbers of the devices on the line.
  Tables,         \* For each function what a device holds, by address.
  CrcBytes,       \* Values a byte of a CRC may have.
  NoiseBytes,     \* Values of a byte the line has garbled.
  Slaves,         \* Slave numbers given to modbus_set_slave.
  MaxPolls,       \* Bounds of the model: polls,
  MaxPieces,      \*   answers that do not arrive all at once,
  MaxFaults       \*   bytes and requests the line garbles or loses.

NoRegister == "none"

ASSUME RegistersAssumption ==
  /\ NoRegister \notin Registers
  /\ RegType \in [Registers -> Functions]
  /\ RegAddress \in [Registers -> Word]

ASSUME DevicesAssumption == Devices \subseteq 1 .. 255 /\ Slaves \subseteq 0 .. 247

ASSUME TablesAssumption ==
  /\ DOMAIN Tables = Functions
  /\ \A f \in Functions : DOMAIN Tables[f] \subseteq Word
  /\ \A f \in BitFunctions : \A a \in DOMAIN Tables[f] : Tables[f][a] \in 0 .. 1
  /\ \A f \in RegisterFunctions : \A a \in DOMAIN Tables[f] : Tables[f][a] \in Word

ASSUME LineAssumption ==
  /\ CrcBytes \subseteq Byte
  /\ NoiseBytes \subseteq Byte
  /\ MaxPolls \in Nat
  /\ MaxPieces \in Nat
  /\ MaxFaults \in Nat

VARIABLES
  port,       \* "open"; "closed" if it could not be opened; "none": no context.
  slave,      \* Slave number of the context, -1 until it is set.
  polled,     \* The register whose callback runs, or NoRegister.
  todo,       \* The functions that callback has still to call.
  step,       \* Where _modbus_receive_msg is.
  req,        \* The request sent last,
  buf,        \*   the bytes of its answer read so far,
  need,       \*   and how many more the step reads.
  rt,         \* mbus_reg_rt_info: bits and value of each register.
  requests,   \* Requests on their way to the devices,
  transit,    \*   bytes on their way back,
  line,       \*   and bytes that have arrived and wait to be read.
  sent,       \* The requests so far; the last one's number is its length.
  timedOut,   \* Whether a read has ever timed out.
  polls, pieces, faults

contextVars == <<port, slave, polled, todo, step, req, buf, need, rt>>
lineVars == <<requests, transit, line>>
countVars == <<sent, timedOut, polls, pieces, faults>>

vars == <<contextVars, lineVars, countVars>>

RegCount == 1    \* ICOM_MODBUS_REG_COUNT

NoRequest == Request(0, 0, 0, 0)

\* What a register holds: the value, and the number of the request whose answer
\* it was taken from.
Unread == [v |-> 0, n |-> 0]

\* slave as _modbus_init_common leaves it.
Unset == -1

\* icom_modbus_init: the result of icom_open_modbus_port is dropped by
\* _modbus_rtu_connect, and polling starts whatever icom_modbus_init returns.
Init ==
  /\ port \in {"open", "closed", "none"}
  /\ slave = Unset
  /\ polled = NoRegister
  /\ todo = <<>>
  /\ step = "idle"
  /\ req = NoRequest
  /\ buf = <<>>
  /\ need = 0
  /\ rt = [r \in Registers |-> [bits |-> Unread, value |-> Unread]]
  /\ requests = <<>>
  /\ transit = <<>>
  /\ line = <<>>
  /\ sent = <<>>
  /\ timedOut = FALSE
  /\ polls = 0
  /\ pieces = 0
  /\ faults = 0

-----------------------------------------------------------------------------
(* The gateway.                                                            *)

\* modbus_set_slave, offered by the library; the gateway never calls it.
SetSlave(s) ==
  /\ polled = NoRegister
  /\ slave' = IF port = "none" THEN slave ELSE s
  /\ UNCHANGED <<port, polled, todo, step, req, buf, need, rt, lineVars, countVars>>

\* icom_modbus_rtu_reg_poll_callback: the cases of the switch fall through
\* from the coils to the holding registers.
Calls(type) ==
  CASE type = ReadCoils            -> <<ReadCoils, ReadDiscreteInputs, ReadHoldingRegisters>>
    [] type = ReadDiscreteInputs   -> <<ReadDiscreteInputs, ReadHoldingRegisters>>
    [] type = ReadHoldingRegisters -> <<ReadHoldingRegisters>>
    [] type = ReadInputRegisters   -> <<ReadInputRegisters>>

StartPoll(r) ==
  /\ polled = NoRegister
  /\ polls < MaxPolls
  /\ polls' = polls + 1
  /\ polled' = r
  /\ todo' = Calls(RegType[r])
  /\ step' = "send"
  /\ UNCHANGED <<port, slave, req, buf, need, rt, lineVars, sent, timedOut, pieces, faults>>

Receiving == {"function", "meta", "data"}

\* The call is over; the callback makes the next one or returns.
EndCall ==
  /\ todo' = Tail(todo)
  /\ step' = IF todo' = <<>> THEN "idle" ELSE "send"
  /\ polled' = IF todo' = <<>> THEN NoRegister ELSE polled
  /\ buf' = <<>>
  /\ need' = 0

\* No context, or write() on no file: the call returns -1 at once.
CallFails ==
  /\ step = "send"
  /\ port # "open"
  /\ EndCall
  /\ UNCHANGED <<port, slave, req, rt, lineVars, countVars>>

\* send_msg, and the beginning of _modbus_receive_msg.
SendRequest ==
  /\ step = "send"
  /\ port = "open"
  /\ req' = Request(slave, Head(todo), RegAddress[polled], RegCount)
  /\ sent' = Append(sent, [reg |-> polled, function |-> req'.function, addr |-> req'.addr])
  /\ requests' = Append(requests, [n |-> Len(sent'), req |-> req'])
  /\ step' = "function"
  /\ need' = HeaderLength + 1
  /\ UNCHANGED <<port, slave, polled, todo, buf, rt, transit, line, timedOut, polls, pieces, faults>>

\* The bytes read are one whole answer as it was sent.
Intact(cells) ==
  \A k \in DOMAIN cells :
    /\ cells[k].n = cells[1].n
    /\ cells[k].n # 0
    /\ cells[k].i = k
    /\ cells[k].of = Len(cells)

Values(cells) == [k \in DOMAIN cells |-> cells[k].v]

WithoutCrc(msg) == SubSeq(msg, 1, Len(msg) - ChecksumLength)

\* read_io_status and read_registers, for one bit or register.
Store(msg, n) ==
  rt' = IF req.function \in BitFunctions
          THEN [rt EXCEPT ![polled].bits = [v |-> msg[4] % 2, n |-> n]]
          ELSE [rt EXCEPT ![polled].value = [v |-> 256 * msg[4] + msg[5], n |-> n]]

\* The whole message is there.
Judge(cells) ==
  LET msg    == WithoutCrc(Values(cells))
      length == CheckIntegrity(slave, msg, Intact(cells))
  IN /\ IF length # Failed /\ CheckConfirmation(req, msg, length) # Failed
          THEN Store(msg, cells[1].n)
          ELSE UNCHANGED rt
     /\ EndCall

\* A step of _modbus_receive_msg waits for n more bytes.
ReadOn(cells, next, n) ==
  /\ buf' = cells
  /\ step' = next
  /\ need' = n
  /\ UNCHANGED <<polled, todo, rt>>

\* The next step of _modbus_receive_msg, or the end of it.
AdvanceStep(cells) ==
  LET msg == Values(cells)
  IN CASE step = "function" -> ReadOn(cells, "meta", MetaLength(msg[2]))
       [] step = "meta"     -> IF Len(msg) + RestLength(msg) > MaxAdu
                                 THEN EndCall /\ UNCHANGED rt
                                 ELSE ReadOn(cells, "data", RestLength(msg))
       [] step = "data"     -> Judge(cells)

\* recv: as many bytes of those wanted as have arrived.
Receive ==
  /\ step \in Receiving
  /\ line # <<>>
  /\ LET k     == IF need < Len(line) THEN need ELSE Len(line)
         cells == buf \o SubSeq(line, 1, k)
     IN /\ line' = SubSeq(line, k + 1, Len(line))
        /\ IF k = need THEN AdvanceStep(cells) ELSE ReadOn(cells, step, need - k)
  /\ UNCHANGED <<port, slave, req, requests, transit, countVars>>

\* Fault: no time-out between the bytes of an answer.
TimeoutForFirstByte ==
  /\ step = "function"
  /\ line = <<>>
  /\ timedOut' = TRUE
  /\ EndCall
  /\ UNCHANGED <<port, slave, req, rt, lineVars, sent, polls, pieces, faults>>

\* select: no byte for 500 ms.
Timeout ==
  /\ step \in Receiving
  /\ line = <<>>
  /\ timedOut' = TRUE
  /\ EndCall
  /\ UNCHANGED <<port, slave, req, rt, lineVars, sent, polls, pieces, faults>>

Gateway == CallFails \/ SendRequest \/ Receive \/ Timeout

-----------------------------------------------------------------------------
(* The devices and the line.                                               *)

\* The bytes of an answer on the line.
Frame(msg, crc, n) ==
  [k \in 1 .. Len(msg) + ChecksumLength |->
     [v  |-> IF k <= Len(msg) THEN msg[k] ELSE crc,
      n  |-> n,
      i  |-> k,
      of |-> Len(msg) + ChecksumLength]]

\* modbus_receive and modbus_reply in the device addressed; nobody answers a
\* broadcast.
DeviceReplies ==
  /\ requests # <<>>
  /\ requests' = Tail(requests)
  /\ LET r == Head(requests)
     IN IF r.req.slave \in Devices
          THEN \E crc \in CrcBytes :
                 transit' = transit \o Frame(Reply(Tables[r.req.function], r.req), crc, r.n)
          ELSE UNCHANGED transit
  /\ UNCHANGED <<contextVars, line, countVars>>

\* Bytes arrive, all that are on their way or only the first k.
Arrive(k) ==
  /\ k = Len(transit) \/ pieces < MaxPieces
  /\ pieces' = IF k = Len(transit) THEN pieces ELSE pieces + 1
  /\ line' = line \o SubSeq(transit, 1, k)
  /\ transit' = SubSeq(transit, k + 1, Len(transit))
  /\ UNCHANGED <<contextVars, requests, sent, timedOut, polls, faults>>

Fault ==
  /\ faults < MaxFaults
  /\ faults' = faults + 1

\* A request that arrives garbled is not answered: its CRC is wrong.
LoseRequest ==
  /\ requests # <<>>
  /\ requests' = Tail(requests)
  /\ Fault
  /\ UNCHANGED <<contextVars, transit, line, sent, timedOut, polls, pieces>>

LoseByte(k) ==
  /\ transit' = SubSeq(transit, 1, k - 1) \o SubSeq(transit, k + 1, Len(transit))
  /\ Fault
  /\ UNCHANGED <<contextVars, requests, line, sent, timedOut, polls, pieces>>

GarbleByte(k, v) ==
  /\ transit' = [transit EXCEPT ![k].v = v, ![k].n = 0]
  /\ Fault
  /\ UNCHANGED <<contextVars, requests, line, sent, timedOut, polls, pieces>>

Line ==
  \/ DeviceReplies
  \/ \E k \in 1 .. Len(transit) : Arrive(k)
  \/ LoseRequest
  \/ \E k \in 1 .. Len(transit) : LoseByte(k) \/ \E v \in NoiseBytes : GarbleByte(k, v)

-----------------------------------------------------------------------------

Next ==
  \/ \E s \in Slaves : SetSlave(s)
  \/ \E r \in Registers : StartPoll(r)
  \/ Gateway
  \/ Line

Spec == Init /\ [][Next]_vars

\* The timer task runs on; the devices and the line promise nothing.
FairSpec == Spec /\ WF_vars(Gateway)

-----------------------------------------------------------------------------
(* Properties.                                                             *)

Cell == [v : Byte, n : 0 .. Len(sent), i : Nat \ {0}, of : Nat]

RequestType == [slave : Byte, function : Functions, addr : Word, nb : {RegCount}]

TypeOK ==
  /\ port \in {"open", "closed", "none"}
  /\ slave \in -1 .. 247
  /\ polled \in Registers \cup {NoRegister}
  /\ todo \in Seq(Functions)
  /\ step \in {"idle", "send"} \cup Receiving
  /\ req \in RequestType \cup {NoRequest}
  /\ buf \in Seq(Cell)
  /\ need \in 0 .. MaxAdu
  /\ Len(buf) + need <= MaxAdu
  /\ rt \in [Registers -> [bits  : [v : 0 .. 1, n : 0 .. Len(sent)],
                           value : [v : Word, n : 0 .. Len(sent)]]]
  /\ requests \in Seq([n : 1 .. Len(sent), req : RequestType])
  /\ transit \in Seq(Cell)
  /\ line \in Seq(Cell)
  /\ sent \in Seq([reg : Registers, function : Functions, addr : Word])
  /\ timedOut \in BOOLEAN
  /\ polls \in 0 .. MaxPolls
  /\ pieces \in 0 .. MaxPieces
  /\ faults \in 0 .. MaxFaults

\* The part of a register's record that the answer to request q goes to.
Destination(record, q) == IF q.function \in BitFunctions THEN record.bits ELSE record.value

(***************************************************************************)
(* As long as modbus_set_slave has not been called, no poll ever stores a  *)
(* value: the request goes out for slave 255 and whatever is answered      *)
(* cannot have the slave number -1.  The gateway never calls it.           *)
(***************************************************************************)
UnsetNeverStores ==
  slave = Unset => \A r \in Registers : rt[r] = [bits |-> Unread, value |-> Unread]

(***************************************************************************)
(* A value stored is one a device has sent, undisturbed, in answer to a    *)
(* request for the same kind of table, although the bytes of answers left  *)
(* on the line, cut short or garbled are read as if they were an answer.   *)
(* It need not be the answer to this request, or of this register: RTU     *)
(* answers carry no address and late ones are not flushed.                 *)
(***************************************************************************)
GenuineAnswers ==
  \A r \in Registers :
    /\ rt[r].bits.n # 0 =>
         LET q == sent[rt[r].bits.n]
         IN q.function \in BitFunctions /\ rt[r].bits.v = Tables[q.function][q.addr]
    /\ rt[r].value.n # 0 =>
         LET q == sent[rt[r].value.n]
         IN q.function \in RegisterFunctions /\ rt[r].value.v = Tables[q.function][q.addr]

(***************************************************************************)
(* While nothing has been garbled or lost and no read has timed out, every *)
(* call reads the answer to its own request, to the last byte, whatever    *)
(* pieces it arrives in: it stores the device's value if the device has    *)
(* one and the slave is set, and nothing if not.                           *)
(***************************************************************************)
UndisturbedCallReads ==
  [][~timedOut' /\ faults = 0 /\ step \in Receiving /\ step' \notin Receiving =>
       IF slave = req.slave /\ req.addr \in DOMAIN Tables[req.function]
         THEN Destination(rt'[polled], req)
                = [v |-> Tables[req.function][req.addr], n |-> Len(sent)]
         ELSE UNCHANGED rt]_vars

(***************************************************************************)
(* A poll always returns, so that the timer task gets to the other timers: *)
(* no step of a read waits without a time-out, and the bytes of a message  *)
(* that lies about its length run out.                                     *)
(***************************************************************************)
PollEnds == polled # NoRegister ~> polled = NoRegister
=============================================================================

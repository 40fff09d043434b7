----------------------------- MODULE ModbusRtu -----------------------------
(***************************************************************************)
(* Modbus RTU messages as ble_modbus_bridge/main/modbus.c and modbus-rtu.c *)
(* build, read and judge them, for the four functions the gateway uses.    *)
(*                                                                         *)
(* A message is a sequence of bytes: slave, function, and what follows,    *)
(* without the two bytes of the CRC.                                       *)
(***************************************************************************)
EXTENDS Integers, Sequences

Byte == 0 .. 255      \* uint8_t
Word == 0 .. 65535    \* uint16_t

\* MODBUS_FC_*.  The register types of icom_modbus.h have the same numbers.
ReadCoils            == 1
ReadDiscreteInputs   == 2
ReadHoldingRegisters == 3
ReadInputRegisters   == 4

BitFunctions == {ReadCoils, ReadDiscreteInputs}
RegisterFunctions == {ReadHoldingRegisters, ReadInputRegisters}
Functions == BitFunctions \cup RegisterFunctions

HeaderLength == 1          \* _MODBUS_RTU_HEADER_LENGTH
ChecksumLength == 2        \* _MODBUS_RTU_CHECKSUM_LENGTH
MaxAdu == 256              \* MODBUS_RTU_MAX_ADU_LENGTH
MaxReadBits == 2000        \* MODBUS_MAX_READ_BITS
MaxReadRegisters == 125    \* MODBUS_MAX_READ_REGISTERS
Broadcast == 0             \* MODBUS_BROADCAST_ADDRESS

Exception == 128           \* Added to the function of an exception answer.
IllegalDataAddress == 2
IllegalDataValue == 3

Failed == -1               \* Return value of the functions that fail.

-----------------------------------------------------------------------------
(* Requests.                                                               *)

\* Registers or bits a function reads at most.
MaxCount(function) == IF function \in BitFunctions THEN MaxReadBits ELSE MaxReadRegisters

\* Fault: the slave is not cut to a byte.
RequestWide(slave, function, addr, nb) ==
  [slave |-> slave, function |-> function, addr |-> addr, nb |-> nb]

\* _modbus_rtu_build_request_basis; the slave is stored in one byte, so that
\* -1, the value of a context whose slave was never set, goes out as 255.
Request(slave, function, addr, nb) ==
  [slave |-> slave % 256, function |-> function, addr |-> addr, nb |-> nb]

\* The bytes of data that answer a request for nb bits or registers.
DataBytes(function, nb) ==
  IF function \in BitFunctions THEN (nb + 7) \div 8 ELSE 2 * nb

\* compute_response_length_from_request.
ResponseLength(req) == HeaderLength + 2 + DataBytes(req.function, req.nb) + ChecksumLength

-----------------------------------------------------------------------------
(* Answers: modbus_reply.                                                  *)

\* The value of each place of a byte, the lowest first.
PlaceValue == <<1, 2, 4, 8, 16, 32, 64, 128>>

\* The bytes of the nb registers from addr on, high byte first, or of the nb
\* bits, the first in the lowest place of the first byte.
Data(table, req) ==
  [k \in 1 .. DataBytes(req.function, req.nb) |->
     IF req.function \in RegisterFunctions
       THEN LET word == table[req.addr + (k - 1) \div 2]
            IN IF k % 2 = 1 THEN word \div 256 ELSE word % 256
       ELSE LET bit == [b \in 1 .. 8 |->
                          IF 8 * (k - 1) + b <= req.nb
                            THEN table[req.addr + 8 * (k - 1) + b - 1] * PlaceValue[b] ELSE 0]
            IN bit[1] + bit[2] + bit[3] + bit[4] + bit[5] + bit[6] + bit[7] + bit[8]]

\* table is the part of the slave's mapping the function reads; its domain are
\* the addresses the slave has.
Reply(table, req) ==
  IF req.nb \notin 1 .. MaxCount(req.function)
    THEN <<req.slave, req.function + Exception, IllegalDataValue>>
  ELSE IF req.addr \notin DOMAIN table \/ req.addr + req.nb - 1 \notin DOMAIN table
    THEN <<req.slave, req.function + Exception, IllegalDataAddress>>
  ELSE <<req.slave, req.function, DataBytes(req.function, req.nb)>> \o Data(table, req)

-----------------------------------------------------------------------------
(* Reading an answer: _modbus_receive_msg for a confirmation.              *)

\* compute_meta_length_after_function: bytes between function and data.
MetaLength(function) ==
  CASE function \in {5, 6, 15, 16} -> 4
    [] function = 22               -> 6
    [] OTHER                       -> 1

\* Fault: no data are read after a byte count that belongs to registers.
RestLengthOfBits(msg) ==
  ChecksumLength + IF msg[2] < ReadHoldingRegisters THEN msg[3] ELSE 0

\* compute_data_length_after_meta: what is left, from function and byte count.
RestLength(msg) ==
  ChecksumLength
    + IF msg[2] <= ReadInputRegisters \/ msg[2] \in {17, 23} THEN msg[3] ELSE 0

\* The length the three steps read for a message that begins like msg.
LengthRead(msg) == HeaderLength + 1 + MetaLength(msg[2]) + RestLength(msg)

-----------------------------------------------------------------------------
(* Judging an answer.                                                      *)

\* Fault: the slave number is compared as the byte it is on the line.
CheckIntegrityByte(slave, msg, intact) ==
  IF msg[1] # slave % 256 /\ msg[1] # Broadcast
    THEN 0
    ELSE IF intact THEN Len(msg) + ChecksumLength ELSE Failed

\* Fault: the CRC is not looked at.
CheckIntegrityBlind(slave, msg, intact) ==
  IF msg[1] # slave /\ msg[1] # Broadcast THEN 0 ELSE Len(msg) + ChecksumLength

\* _modbus_rtu_check_integrity: 0 for the answer of another slave, otherwise the
\* length with the CRC.  intact says whether the CRC is the one of the bytes.
CheckIntegrity(slave, msg, intact) ==
  IF msg[1] # slave /\ msg[1] # Broadcast
    THEN 0
    ELSE IF intact THEN Len(msg) + ChecksumLength ELSE Failed

\* check_confirmation after _modbus_rtu_pre_check_confirmation: the number of
\* values, in bytes for bits, or Failed.  length is what CheckIntegrity returned.
CheckConfirmation(req, msg, length) ==
  LET wanted == DataBytes(req.function, req.nb)
      got    == IF req.function \in BitFunctions THEN msg[3] ELSE msg[3] \div 2
      count  == IF req.function \in BitFunctions THEN wanted ELSE req.nb
  IN IF /\ req.slave = msg[1] \/ req.slave = Broadcast
        /\ msg[2] < Exception
        /\ length = ResponseLength(req)
        /\ msg[2] = req.function
        /\ got = count
       THEN count
       ELSE Failed
=============================================================================

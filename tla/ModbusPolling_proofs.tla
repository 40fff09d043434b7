------------------------ MODULE ModbusPolling_proofs ------------------------
(***************************************************************************)
(* Proofs about ModbusPolling, for any registers, tables and lines.        *)
(***************************************************************************)
EXTENDS ModbusPolling, SequenceTheorems, TLAPS

-----------------------------------------------------------------------------
(* Messages.                                                               *)

LEMMA FunctionTypes ==
  /\ Functions = 1 .. 4
  /\ BitFunctions = 1 .. 2
  /\ RegisterFunctions = 3 .. 4
  /\ RegCount = 1 /\ Exception = 128 /\ ChecksumLength = 2 /\ HeaderLength = 1
  /\ Broadcast = 0 /\ MaxAdu = 256 /\ Failed = -1 /\ Unset = -1
  /\ IllegalDataAddress = 2 /\ IllegalDataValue = 3
  BY DEF Functions, BitFunctions, RegisterFunctions, ReadCoils, ReadDiscreteInputs,
         ReadHoldingRegisters, ReadInputRegisters, RegCount, Exception, ChecksumLength,
         HeaderLength, Broadcast, MaxAdu, Failed, Unset, IllegalDataAddress, IllegalDataValue

LEMMA DataBytesOfOne ==
  ASSUME NEW f \in Functions
  PROVE  DataBytes(f, RegCount) = IF f \in BitFunctions THEN 1 ELSE 2
  BY FunctionTypes DEF DataBytes

LEMMA SeqOfFunction ==
  ASSUME NEW S, NEW n \in Nat, NEW f \in [1 .. n -> S]
  PROVE  f \in Seq(S) /\ Len(f) = n
<1>1. f \in Seq(S)
  BY SeqDef
<1>2. DOMAIN f = 1 .. n
  OBVIOUS
<1>3. DOMAIN f = 1 .. Len(f) /\ Len(f) \in Nat
  BY <1>1, LenProperties
<1> QED BY <1>1, <1>2, <1>3

\* The two bytes of a register.
LEMMA WordParts ==
  ASSUME NEW w \in Word
  PROVE  /\ w \div 256 \in Byte
         /\ w % 256 \in Byte
         /\ 256 * (w \div 256) + (w % 256) = w
  BY SMT DEF Word, Byte

LEMMA WordIsNat == Word \subseteq Nat /\ 0 \in Word /\ 1 \in Word
  BY SMT DEF Word

LEMMA TableType ==
  ASSUME NEW f \in Functions, NEW a \in DOMAIN Tables[f]
  PROVE  /\ a \in Word
         /\ Tables[f][a] \in Word
         /\ f \in BitFunctions => Tables[f][a] \in 0 .. 1
<1>1. a \in Word
  BY TablesAssumption
<1>2. f \in BitFunctions => Tables[f][a] \in 0 .. 1
  BY TablesAssumption
<1>3. f \in RegisterFunctions => Tables[f][a] \in Word
  BY TablesAssumption
<1>4. 0 .. 1 \subseteq Word
  BY WordIsNat
<1> QED BY <1>1, <1>2, <1>3, <1>4 DEF Functions

\* The data that answer a request for one bit or register.
LEMMA DataOfOne ==
  ASSUME NEW table, NEW q, NEW w \in Word,
         q.function \in Functions, q.nb = 1, q.addr \in Nat,
         w = table[q.addr], q.function \in BitFunctions => w \in 0 .. 1
  PROVE  LET d == Data(table, q)
         IN /\ d \in Seq(Byte)
            /\ q.function \in BitFunctions => Len(d) = 1 /\ d[1] = w
            /\ q.function \notin BitFunctions =>
                 Len(d) = 2 /\ d[1] = w \div 256 /\ d[2] = w % 256
<1> DEFINE d == Data(table, q)
<1>3. CASE q.function \in BitFunctions
  <2>1. DataBytes(q.function, q.nb) = 1 /\ q.function \notin RegisterFunctions
    BY <1>3, DataBytesOfOne, FunctionTypes
  <2> DEFINE bit == [b \in 1 .. 8 |-> IF 8 * (1 - 1) + b <= q.nb
                         THEN table[q.addr + 8 * (1 - 1) + b - 1] * PlaceValue[b] ELSE 0]
  <2>3. d = [k \in 1 .. 1 |-> d[k]]
        /\ d[1] = bit[1] + bit[2] + bit[3] + bit[4] + bit[5] + bit[6] + bit[7] + bit[8]
    BY <2>1 DEF Data
  <2>4. /\ bit[2] = 0 /\ bit[3] = 0 /\ bit[4] = 0 /\ bit[5] = 0
        /\ bit[6] = 0 /\ bit[7] = 0 /\ bit[8] = 0
    OBVIOUS
  <2>5. PlaceValue[1] = 1 /\ q.addr + 8 * (1 - 1) + 1 - 1 = q.addr
    BY DEF PlaceValue
  <2>a. bit[1] = w * 1
    BY <2>5
  <2>b. w \in 0 .. 1
    BY <1>3
  <2>6. bit[1] = w
    BY <2>a, <2>b
  <2> HIDE DEF bit, d
  <2>7. d[1] = w
    BY <2>3, <2>4, <2>6, <2>b
  <2>8. w \in Byte
    BY <2>b DEF Byte
  <2>9. d \in [1 .. 1 -> Byte]
    BY <2>7, <2>3, <2>8
  <2>10. d \in Seq(Byte) /\ Len(d) = 1
    BY <2>9, SeqOfFunction, 1 \in Nat
  <2> QED BY <1>3, <2>7, <2>10 DEF d
<1>4. CASE q.function \notin BitFunctions
  <2>1. DataBytes(q.function, q.nb) = 2 /\ q.function \in RegisterFunctions
    BY <1>4, DataBytesOfOne, FunctionTypes
  <2>2. (1 - 1) \div 2 = 0 /\ (2 - 1) \div 2 = 0 /\ 1 % 2 = 1 /\ 2 % 2 = 0
    OBVIOUS
  <2>3. d = [k \in 1 .. 2 |-> LET word == table[q.addr + (k - 1) \div 2]
                              IN IF k % 2 = 1 THEN word \div 256 ELSE word % 256]
    BY <2>1 DEF Data
  <2>4. q.addr + (1 - 1) \div 2 = q.addr /\ q.addr + (2 - 1) \div 2 = q.addr
    BY <2>2
  <2>5. d[1] = w \div 256 /\ d[2] = w % 256
    BY <2>3, <2>4, <2>2
  <2>6. d = [k \in 1 .. 2 |-> d[k]]
    BY <2>3
  <2> HIDE DEF d
  <2>8. d \in [1 .. 2 -> Byte]
    BY <2>5, <2>6, WordParts
  <2>9. d \in Seq(Byte) /\ Len(d) = 2
    BY <2>8, SeqOfFunction, 2 \in Nat
  <2> QED BY <1>4, <2>5, <2>9 DEF d
<1> QED BY <1>3, <1>4

\* What is known of an answer m to a request for one bit or register whose value,
\* if the device has it, is w.
AnswerTo(m, f, a, addresses, w) ==
  /\ m \in Seq(Byte)
  /\ Len(m) \in 3 .. 5
  /\ m[2] \in {f, f + Exception}
  /\ Len(m) > 3 => a \in addresses
  /\ Len(m) = 4 => f \in BitFunctions /\ m[4] = w
  /\ Len(m) = 5 => f \in RegisterFunctions /\ m[4] = w \div 256 /\ m[5] = w % 256

LEMMA ReplyBytes ==
  ASSUME NEW table, NEW q \in RequestType,
         q.addr \in DOMAIN table => table[q.addr] \in Word,
         q.addr \in DOMAIN table /\ q.function \in BitFunctions => table[q.addr] \in 0 .. 1
  PROVE  AnswerTo(Reply(table, q), q.function, q.addr, DOMAIN table, table[q.addr])
<1> DEFINE f == q.function
           m == Reply(table, q)
           w == table[q.addr]
           data == Data(table, q)
<1>1. /\ f \in Functions /\ q.nb = 1 /\ q.addr \in Nat /\ q.slave \in Byte
      /\ f \in 1 .. 4
  BY FunctionTypes, WordIsNat DEF RequestType
<1>2. f \in Byte /\ f + Exception \in Byte /\ IllegalDataAddress \in Byte
  BY <1>1, FunctionTypes DEF Byte
<1>3. q.nb \in 1 .. MaxCount(q.function)
  BY <1>1 DEF MaxCount, MaxReadBits, MaxReadRegisters
<1>4. q.addr + q.nb - 1 = q.addr
  BY <1>1
<1>5. CASE q.addr \notin DOMAIN table
  <2>1. m = <<q.slave, f + Exception, IllegalDataAddress>>
    BY <1>3, <1>5 DEF Reply
  <2> HIDE DEF m, f, w
  <2>2. m \in Seq(Byte) /\ Len(m) = 3 /\ m[2] = f + Exception
    BY <1>1, <1>2, <2>1 DEF f
  <2> QED BY <2>2 DEF AnswerTo, m, f, w
<1>6. CASE q.addr \in DOMAIN table
  <2> DEFINE n == DataBytes(f, q.nb)
             head == <<q.slave, f, n>>
  <2>1. m = head \o data
    BY <1>3, <1>4, <1>6 DEF Reply
  <2>2. n = (IF f \in BitFunctions THEN 1 ELSE 2) /\ n \in Byte
    BY <1>1, DataBytesOfOne, FunctionTypes DEF Byte
  <2>3. w \in Word /\ (f \in BitFunctions => w \in 0 .. 1)
    BY <1>6
  <2>4. /\ data \in Seq(Byte)
        /\ f \in BitFunctions => Len(data) = 1 /\ data[1] = w
        /\ f \notin BitFunctions =>
             Len(data) = 2 /\ data[1] = w \div 256 /\ data[2] = w % 256
    BY <1>1, <2>3, DataOfOne
  <2> HIDE DEF m, w, data, n, f
  <2>5. head \in Seq(Byte) /\ Len(head) = 3 /\ head[2] = f
    BY <1>1, <1>2, <2>2
  <2> HIDE DEF head
  <2>6. /\ m \in Seq(Byte)
        /\ Len(m) = 3 + Len(data)
        /\ m[2] = f
        /\ Len(data) >= 1 => m[4] = data[1]
        /\ Len(data) = 2 => m[5] = data[2]
    <3>1. /\ m \in Seq(Byte)
          /\ Len(m) = 3 + Len(data)
          /\ \A i \in 1 .. 3 + Len(data) : m[i] = IF i <= 3 THEN head[i] ELSE data[i - 3]
      <4>1. data \in Seq(Byte) /\ head \in Seq(Byte) /\ Len(head) = 3
        BY <2>4, <2>5
      <4>2. /\ head \o data \in Seq(Byte)
            /\ Len(head \o data) = Len(head) + Len(data)
            /\ \A i \in 1 .. Len(head) + Len(data) :
                 (head \o data)[i] = IF i <= Len(head) THEN head[i] ELSE data[i - Len(head)]
        BY <4>1, ConcatProperties, Zenon
      <4> QED BY <2>1, <4>1, <4>2, Zenon
    <3>2. Len(data) \in Nat
      BY <2>4
    <3>3. m[2] = head[2]
      BY <3>1, <3>2
    <3>4. ASSUME Len(data) >= 1 PROVE m[4] = data[1]
      <4>1. 4 \in 1 .. 3 + Len(data) /\ 4 - 3 = 1 /\ ~(4 <= 3)
        BY <3>2, <3>4
      <4> QED BY <3>1, <4>1
    <3>5. ASSUME Len(data) = 2 PROVE m[5] = data[2]
      <4>1. 5 \in 1 .. 3 + Len(data) /\ 5 - 3 = 2 /\ ~(5 <= 3)
        BY <3>2, <3>5
      <4> QED BY <3>1, <4>1
    <3> QED BY <2>5, <3>1, <3>3, <3>4, <3>5
  <2>7. f \in BitFunctions \/ f \in RegisterFunctions
    BY <1>1 DEF Functions
  <2>8. CASE f \in BitFunctions
    <3>1. Len(data) = 1 /\ data[1] = w
      BY <2>4, <2>8
    <3>2. Len(m) = 4 /\ m[4] = w
      BY <2>6, <3>1
    <3>a. m \in Seq(Byte)
      BY <2>6
    <3>b. Len(m) \in 3 .. 5
      BY <3>2
    <3>c. m[2] \in {f, f + Exception}
      BY <2>6, Zenon
    <3>d. Len(m) # 5
      BY <3>2
    <3>4. AnswerTo(m, f, q.addr, DOMAIN table, w)
      BY <1>6, <2>8, <3>2, <3>a, <3>b, <3>c, <3>d, Zenon DEF AnswerTo
    <3> QED BY <3>4 DEF m, f, w
  <2>9. CASE f \notin BitFunctions
    <3> DEFINE high == w \div 256
               low  == w % 256
    <3>1. Len(data) = 2 /\ data[1] = high /\ data[2] = low
      BY <2>4, <2>9
    <3> HIDE DEF high, low
    <3>2. Len(m) = 5 /\ m[4] = high /\ m[5] = low
      BY <2>6, <3>1
    <3>a. m \in Seq(Byte)
      BY <2>6
    <3>b. Len(m) \in 3 .. 5
      BY <3>2
    <3>c. m[2] \in {f, f + Exception}
      BY <2>6, Zenon
    <3>d. Len(m) # 4
      BY <3>2
    <3>4. AnswerTo(m, f, q.addr, DOMAIN table, w)
      BY <1>6, <2>7, <2>9, <3>2, <3>a, <3>b, <3>c, <3>d, Zenon DEF AnswerTo, high, low
    <3> QED BY <3>4 DEF m, f, w
  <2> QED BY <2>8, <2>9
<1> QED BY <1>5, <1>6

-----------------------------------------------------------------------------
(* The invariant.                                                          *)

SentType == [reg : Registers, function : Functions, addr : Word]

\* What a device has answered a request for register a of table f.
AnswerByte(c, f, a) ==
  /\ c.i = 2 => c.v \in {f, f + Exception}
  /\ c.of = 6 => /\ f \in BitFunctions
                 /\ a \in DOMAIN Tables[f]
                 /\ c.i = 4 => c.v = Tables[f][a]
  /\ c.of = 7 => /\ f \in RegisterFunctions
                 /\ a \in DOMAIN Tables[f]
                 /\ c.i = 4 => c.v = Tables[f][a] \div 256
                 /\ c.i = 5 => c.v = Tables[f][a] % 256

\* Bytes on the line and in the buffer, noise or sent by a device; s is sent.
GoodCell(s) ==
  {c \in [v : Byte, n : 0 .. Len(s), i : Nat \ {0}, of : Nat] :
     c.n # 0 => AnswerByte(c, s[c.n].function, s[c.n].addr)}

GoodRequest(s) ==
  {r \in [n : 1 .. Len(s), req : RequestType] :
     r.req.function = s[r.n].function /\ r.req.addr = s[r.n].addr}

\* What a register may hold.
GoodBit(s) ==
  {x \in [v : 0 .. 1, n : 0 .. Len(s)] :
     x.n # 0 => /\ s[x.n].function \in BitFunctions
                /\ x.v = Tables[s[x.n].function][s[x.n].addr]}

GoodValue(s) ==
  {x \in [v : Word, n : 0 .. Len(s)] :
     x.n # 0 => /\ s[x.n].function \in RegisterFunctions
                /\ x.v = Tables[s[x.n].function][s[x.n].addr]}

Scalars ==
  /\ port \in {"open", "closed", "none"}
  /\ slave \in -1 .. 247
  /\ timedOut \in BOOLEAN
  /\ polls \in 0 .. MaxPolls
  /\ pieces \in 0 .. MaxPieces
  /\ faults \in 0 .. MaxFaults

Control ==
  /\ step \in {"idle", "send"} \cup Receiving
  /\ polled \in Registers \cup {NoRegister}
  /\ polled = NoRegister <=> step = "idle"
  /\ todo \in Seq(Functions)
  /\ step # "idle" => todo # <<>>
  /\ req \in RequestType \cup {NoRequest}
  /\ step \in Receiving => req \in RequestType

\* How much of a message has been read and is still wanted.
Position ==
  /\ need \in 0 .. MaxAdu
  /\ step \notin Receiving => buf = <<>> /\ need = 0
  /\ step = "function" => Len(buf) + need = 2
  /\ step = "meta" => Len(buf) >= 2 /\ Len(buf) + need \in 3 .. 8
  /\ step = "data" => Len(buf) + need \in 5 .. MaxAdu

OnTheLine ==
  /\ sent \in Seq(SentType)
  /\ requests \in Seq(GoodRequest(sent))
  /\ transit \in Seq(GoodCell(sent))
  /\ line \in Seq(GoodCell(sent))
  /\ buf \in Seq(GoodCell(sent))

Kept == rt \in [Registers -> [bits : GoodBit(sent), value : GoodValue(sent)]]

\* A context whose slave was never set asks slave 255.
AsksNobody ==
  slave = Unset =>
    /\ step \in Receiving => req.slave = 255
    /\ \A r \in Registers : rt[r] = [bits |-> Unread, value |-> Unread]

PollingInv == Scalars /\ Control /\ Position /\ OnTheLine /\ Kept /\ AsksNobody

-----------------------------------------------------------------------------
(* What a new request changes in what is known of the line: nothing.       *)

LEMMA SentGrows ==
  ASSUME NEW s \in Seq(SentType), NEW e \in SentType
  PROVE  LET t == Append(s, e)
         IN /\ t \in Seq(SentType)
            /\ Len(t) = Len(s) + 1 /\ t[Len(t)] = e
            /\ GoodCell(s) \subseteq GoodCell(t)
            /\ GoodRequest(s) \subseteq GoodRequest(t)
            /\ GoodBit(s) \subseteq GoodBit(t)
            /\ GoodValue(s) \subseteq GoodValue(t)
<1> DEFINE t == Append(s, e)
<1>1. /\ t \in Seq(SentType) /\ Len(t) = Len(s) + 1 /\ t[Len(s) + 1] = e
      /\ Len(s) \in Nat
      /\ \A i \in 1 .. Len(s) : t[i] = s[i]
  BY AppendProperties, LenProperties
<1> HIDE DEF t
<1>2. 0 .. Len(s) \subseteq 0 .. Len(t) /\ 1 .. Len(s) \subseteq 1 .. Len(t)
  BY <1>1
<1>3. ASSUME NEW n \in 0 .. Len(s), n # 0
      PROVE  t[n] = s[n]
  BY <1>1, <1>3
<1>4. GoodCell(s) \subseteq GoodCell(t)
  BY <1>2, <1>3 DEF GoodCell
<1>5. GoodRequest(s) \subseteq GoodRequest(t)
  BY <1>1, <1>2 DEF GoodRequest
<1>6. GoodBit(s) \subseteq GoodBit(t)
  BY <1>2, <1>3 DEF GoodBit
<1>7. GoodValue(s) \subseteq GoodValue(t)
  BY <1>2, <1>3 DEF GoodValue
<1> QED BY <1>1, <1>4, <1>5, <1>6, <1>7 DEF t

\* A call that ends leaves the read at its beginning.
LEMMA CallEnds ==
  ASSUME Control, step # "idle", EndCall, UNCHANGED req
  PROVE  /\ Control'
         /\ Position'
         /\ step' \notin Receiving
         /\ buf' = <<>>
<1>1. todo \in Seq(Functions) /\ todo # <<>>
  BY DEF Control
<1>2. todo' = Tail(todo) /\ todo' \in Seq(Functions)
  BY <1>1, HeadTailProperties DEF EndCall
<1>3. step' \in {"idle", "send"} /\ step' \notin Receiving
  BY DEF EndCall, Receiving
<1>4. polled \in Registers
  BY DEF Control
<1>5. CASE todo' = <<>>
  <2>1. step' = "idle" /\ polled' = NoRegister
    BY <1>5 DEF EndCall
  <2> QED BY <1>2, <1>3, <2>1, <1>5, RegistersAssumption DEF Control, Position, EndCall, MaxAdu
<1>6. CASE todo' # <<>>
  <2>1. step' = "send" /\ polled' = polled
    BY <1>6 DEF EndCall
  <2> QED BY <1>2, <1>3, <1>4, <2>1, <1>6, RegistersAssumption DEF Control, Position, EndCall, MaxAdu
<1> QED BY <1>5, <1>6

-----------------------------------------------------------------------------
(* The steps.                                                              *)

LEMMA InitIsGood == Init => PollingInv
<1> SUFFICES ASSUME Init PROVE PollingInv
  OBVIOUS
<1> USE DEF Init
<1>1. Scalars
  <2>1. slave \in -1 .. 247
    BY FunctionTypes
  <2>2. polls \in 0 .. MaxPolls /\ pieces \in 0 .. MaxPieces /\ faults \in 0 .. MaxFaults
    BY LineAssumption
  <2>3. timedOut \in BOOLEAN /\ port \in {"open", "closed", "none"}
    BY Zenon
  <2> QED BY <2>1, <2>2, <2>3, Zenon DEF Scalars
<1>2. Control
  BY DEF Control, Receiving
<1>3. Position
  BY DEF Position, Receiving, MaxAdu
<1>4. OnTheLine
  BY DEF OnTheLine
<1>5. Kept
  <2>1. Unread \in GoodBit(sent) /\ Unread \in GoodValue(sent)
    BY WordIsNat DEF Unread, GoodBit, GoodValue
  <2> QED BY <2>1 DEF Kept
<1>6. AsksNobody
  BY DEF AsksNobody, Receiving
<1> QED BY <1>1, <1>2, <1>3, <1>4, <1>5, <1>6 DEF PollingInv

LEMMA SetSlaveKeeps ==
  ASSUME PollingInv, NEW s \in Slaves, SetSlave(s)
  PROVE  PollingInv'
<1> USE DEF PollingInv, SetSlave
<1>1. UNCHANGED <<lineVars, countVars>>
  OBVIOUS
<1>2. s \in 0 .. 247
  BY DevicesAssumption
<1>3. Scalars'
  BY <1>1, <1>2 DEF Scalars, countVars
<1>4. Control' /\ Position'
  BY DEF Control, Position
<1>5. OnTheLine' /\ Kept'
  BY <1>1 DEF OnTheLine, Kept, lineVars, countVars
<1>6. AsksNobody'
  BY <1>2, FunctionTypes DEF AsksNobody
<1> QED BY <1>3, <1>4, <1>5, <1>6

LEMMA CallsTyped ==
  ASSUME NEW type \in Functions
  PROVE  Calls(type) \in Seq(Functions) /\ Calls(type) # <<>>
<1>1. type \in {ReadCoils, ReadDiscreteInputs, ReadHoldingRegisters, ReadInputRegisters}
  BY DEF Functions, BitFunctions, RegisterFunctions
<1>2. {ReadCoils, ReadDiscreteInputs, ReadHoldingRegisters, ReadInputRegisters} \subseteq Functions
  BY DEF Functions, BitFunctions, RegisterFunctions
<1> USE DEF Calls, ReadCoils, ReadDiscreteInputs, ReadHoldingRegisters, ReadInputRegisters
<1>3. CASE type = ReadCoils
  BY <1>2, <1>3
<1>4. CASE type = ReadDiscreteInputs
  BY <1>2, <1>4
<1>5. CASE type = ReadHoldingRegisters
  BY <1>2, <1>5
<1>6. CASE type = ReadInputRegisters
  BY <1>2, <1>6
<1> QED BY <1>1, <1>3, <1>4, <1>5, <1>6

LEMMA StartPollKeeps ==
  ASSUME PollingInv, NEW r \in Registers, StartPoll(r)
  PROVE  PollingInv'
<1> USE DEF PollingInv, StartPoll
<1>1. RegType[r] \in Functions
  BY RegistersAssumption
<1>2. UNCHANGED <<port, slave, req, buf, need, rt, lineVars, sent, timedOut, pieces, faults>>
  OBVIOUS
<1>3. Scalars'
  BY <1>2, LineAssumption DEF Scalars
<1>4. step' = "send" /\ step' \notin Receiving /\ step = "idle"
  BY DEF Receiving, Control
<1>5. Control'
  BY <1>1, <1>4, CallsTyped, RegistersAssumption DEF Control
<1>6. Position'
  BY <1>4 DEF Position, Receiving
<1>7. OnTheLine' /\ Kept'
  BY <1>2 DEF OnTheLine, Kept, lineVars
<1>8. AsksNobody'
  BY <1>4 DEF AsksNobody
<1> QED BY <1>3, <1>5, <1>6, <1>7, <1>8

LEMMA CallFailsKeeps ==
  ASSUME PollingInv, CallFails
  PROVE  PollingInv'
<1>1. step # "idle" /\ EndCall /\ UNCHANGED req
  BY DEF CallFails
<1>2. /\ Control' /\ Position' /\ step' \notin Receiving /\ buf' = <<>>
  BY <1>1, CallEnds DEF PollingInv
<1>3. UNCHANGED <<port, slave, req, rt, lineVars, countVars>>
  BY DEF CallFails
<1>4. Scalars'
  BY <1>3 DEF PollingInv, Scalars, countVars
<1>5. OnTheLine' /\ Kept'
  BY <1>2, <1>3 DEF PollingInv, OnTheLine, Kept, lineVars, countVars
<1>6. AsksNobody'
  BY <1>2, <1>3 DEF PollingInv, AsksNobody
<1> QED BY <1>2, <1>4, <1>5, <1>6 DEF PollingInv

LEMMA TimeoutKeeps ==
  ASSUME PollingInv, Timeout
  PROVE  PollingInv'
<1>1. step # "idle" /\ EndCall /\ UNCHANGED req
  BY DEF Timeout, Receiving
<1>2. /\ Control' /\ Position' /\ step' \notin Receiving /\ buf' = <<>>
  BY <1>1, CallEnds DEF PollingInv
<1>3. UNCHANGED <<port, slave, req, rt, lineVars, sent, polls, pieces, faults>> /\ timedOut' = TRUE
  BY DEF Timeout
<1>4. Scalars'
  BY <1>3 DEF PollingInv, Scalars
<1>5. OnTheLine' /\ Kept'
  BY <1>2, <1>3 DEF PollingInv, OnTheLine, Kept, lineVars
<1>6. AsksNobody'
  BY <1>2, <1>3 DEF PollingInv, AsksNobody
<1> QED BY <1>2, <1>4, <1>5, <1>6 DEF PollingInv

LEMMA SendRequestKeeps ==
  ASSUME PollingInv, SendRequest
  PROVE  PollingInv'
<1> DEFINE f == Head(todo)
           a == RegAddress[polled]
           e == [reg |-> polled, function |-> f, addr |-> a]
<1>1. /\ step = "send" /\ step \notin Receiving
      /\ todo \in Seq(Functions) /\ todo # <<>>
      /\ polled \in Registers
  BY DEF PollingInv, SendRequest, Control, Receiving
<1>2. f \in Functions /\ a \in Word
  BY <1>1, HeadTailProperties, RegistersAssumption
<1>3. UNCHANGED <<port, slave, polled, todo, buf, rt, transit, line, timedOut, polls, pieces, faults>>
  BY DEF SendRequest
<1>4. slave \in -1 .. 247
  BY DEF PollingInv, Scalars
<1>5. slave % 256 \in Byte /\ (slave = -1 => slave % 256 = 255)
  BY <1>4 DEF Byte
<1>6. req' = [slave |-> slave % 256, function |-> f, addr |-> a, nb |-> RegCount]
  BY DEF SendRequest, Request
<1>7. req' \in RequestType
  BY <1>2, <1>5, <1>6 DEF RequestType
<1>8. sent' = Append(sent, e) /\ e \in SentType /\ sent \in Seq(SentType)
  BY <1>1, <1>2, <1>6 DEF SendRequest, PollingInv, OnTheLine, SentType
<1>9. step' = "function" /\ need' = 2
  BY FunctionTypes DEF SendRequest
<1>10. buf = <<>> /\ buf' = <<>>
  BY <1>1, <1>3 DEF PollingInv, Position
<1>11. Scalars'
  BY <1>3 DEF PollingInv, Scalars
<1>12. Control'
  BY <1>1, <1>3, <1>7, <1>9, RegistersAssumption DEF PollingInv, Control, Receiving
<1>13. Position'
  BY <1>9, <1>10 DEF Position, Receiving, MaxAdu
<1>14. OnTheLine'
  <2> HIDE DEF e
  <2>1. /\ sent' \in Seq(SentType) /\ Len(sent') = Len(sent) + 1 /\ sent'[Len(sent')] = e
        /\ GoodCell(sent) \subseteq GoodCell(sent')
        /\ GoodRequest(sent) \subseteq GoodRequest(sent')
    BY <1>8, SentGrows
  <2>2. /\ transit \in Seq(GoodCell(sent')) /\ line \in Seq(GoodCell(sent'))
        /\ requests \in Seq(GoodRequest(sent'))
    BY <2>1, SeqMonotonic DEF PollingInv, OnTheLine
  <2> DEFINE r == [n |-> Len(sent'), req |-> req']
  <2>3. Len(sent') \in 1 .. Len(sent')
    BY <1>8, <2>1, LenProperties
  <2>4. e.function = req'.function /\ e.addr = req'.addr
    BY <1>6 DEF e
  <2>5. r \in GoodRequest(sent')
    BY <1>7, <2>1, <2>3, <2>4 DEF GoodRequest
  <2>6. requests' = Append(requests, r)
    BY DEF SendRequest
  <2> HIDE DEF r
  <2>7. requests' \in Seq(GoodRequest(sent'))
    BY <2>2, <2>5, <2>6, AppendProperties
  <2> QED BY <1>3, <1>10, <2>1, <2>2, <2>7 DEF OnTheLine
<1>15. Kept'
  <2>1. GoodBit(sent) \subseteq GoodBit(sent') /\ GoodValue(sent) \subseteq GoodValue(sent')
    BY <1>8, SentGrows
  <2> QED BY <1>3, <2>1 DEF PollingInv, Kept
<1>16. AsksNobody'
  <2>1. req'.slave = slave % 256
    BY <1>6
  <2> QED BY <1>3, <1>5, <2>1, FunctionTypes DEF PollingInv, AsksNobody
<1> QED BY <1>11, <1>12, <1>13, <1>14, <1>15, <1>16 DEF PollingInv

\* Steps of the devices and the line touch nothing but bytes and requests.
LEMMA LineKeeps ==
  ASSUME PollingInv,
         UNCHANGED <<contextVars, sent, timedOut, polls>>,
         pieces' \in 0 .. MaxPieces, faults' \in 0 .. MaxFaults,
         requests' \in Seq(GoodRequest(sent)),
         transit' \in Seq(GoodCell(sent)),
         line' \in Seq(GoodCell(sent))
  PROVE  PollingInv'
<1>1. Scalars'
  BY DEF PollingInv, Scalars, contextVars
<1>2. Control' /\ Position'
  BY DEF PollingInv, Control, Position, contextVars
<1>3. OnTheLine' /\ Kept'
  BY DEF PollingInv, OnTheLine, Kept, contextVars
<1>4. AsksNobody'
  BY DEF PollingInv, AsksNobody, contextVars
<1> QED BY <1>1, <1>2, <1>3, <1>4 DEF PollingInv

\* The bytes of an answer to request q, the n-th.
LEMMA FrameIsGood ==
  ASSUME NEW s \in Seq(SentType), NEW r \in GoodRequest(s), NEW crc \in CrcBytes
  PROVE  Frame(Reply(Tables[r.req.function], r.req), crc, r.n) \in Seq(GoodCell(s))
<1> DEFINE q == r.req
           f == q.function
           a == q.addr
           table == Tables[f]
           m == Reply(table, q)
           w == table[a]
           frame == Frame(m, crc, r.n)
<1>1. /\ q \in RequestType /\ f \in Functions /\ r.n \in 1 .. Len(s)
      /\ s[r.n].function = f /\ s[r.n].addr = a
  BY DEF GoodRequest, RequestType
<1>2. crc \in Byte
  BY LineAssumption
<1>3. AnswerTo(m, f, a, DOMAIN table, w)
  <2>1. a \in DOMAIN table => w \in Word /\ (f \in BitFunctions => w \in 0 .. 1)
    BY <1>1, TableType
  <2> HIDE DEF table
  <2> QED BY <1>1, <2>1, ReplyBytes
<1> DEFINE n == r.n
<1> HIDE DEF m, q
<1>4. /\ m \in Seq(Byte) /\ Len(m) \in 3 .. 5 /\ Len(m) \in Nat
  BY <1>3 DEF AnswerTo
<1> DEFINE l == Len(m) + 2
           cell(k) == [v |-> IF k <= Len(m) THEN m[k] ELSE crc, n |-> n, i |-> k, of |-> l]
<1>5. frame = [k \in 1 .. l |-> cell(k)] /\ l \in Nat
  BY <1>4, FunctionTypes DEF Frame
<1>6. ASSUME NEW k \in 1 .. l
      PROVE  cell(k) \in GoodCell(s)
  <2> DEFINE c == cell(k)
  <2>1. c.n = n /\ c.i = k /\ c.of = l /\ c.v = IF k <= Len(m) THEN m[k] ELSE crc
    OBVIOUS
  <2>2. c.v \in Byte
    BY <1>2, <1>4
  <2>3. c \in [v : Byte, n : 0 .. Len(s), i : Nat \ {0}, of : Nat]
    BY <1>1, <1>4, <2>2
  <2> HIDE DEF c, cell
  <2>4. AnswerByte(c, f, a)
    <3>1. c.i = 2 => c.v \in {f, f + Exception}
      BY <1>3, <1>4, <2>1 DEF AnswerTo
    <3>2. ASSUME c.of = 6
          PROVE  /\ f \in BitFunctions
                 /\ a \in DOMAIN table
                 /\ c.i = 4 => c.v = w
      <4>b. c.of = Len(m) + 2
        BY <2>1
      <4> DEFINE length == Len(m)
      <4>c. length \in Nat /\ length + 2 = 6
        BY <1>4, <3>2, <4>b
      <4> HIDE DEF length
      <4>d. length = 4
        BY <4>c
      <4>a. Len(m) = 4
        BY <4>d DEF length
      <4>1. Len(m) = 4 /\ (c.i = 4 => c.v = m[4])
        BY <2>1, <4>a
      <4>2. f \in BitFunctions /\ m[4] = w /\ a \in DOMAIN table
        <5>1. Len(m) > 3
          BY <4>1
        <5> QED BY <1>3, <4>1, <5>1, Zenon DEF AnswerTo
      <4> QED BY <4>1, <4>2, Zenon
    <3>3. ASSUME c.of = 7
          PROVE  /\ f \in RegisterFunctions
                 /\ a \in DOMAIN table
                 /\ c.i = 4 => c.v = w \div 256
                 /\ c.i = 5 => c.v = w % 256
      <4>b. c.of = Len(m) + 2
        BY <2>1
      <4> DEFINE length == Len(m)
      <4>c. length \in Nat /\ length + 2 = 7
        BY <1>4, <3>3, <4>b
      <4> HIDE DEF length
      <4>d. length = 5
        BY <4>c
      <4>a. Len(m) = 5
        BY <4>d DEF length
      <4>1. Len(m) = 5 /\ (c.i = 4 => c.v = m[4]) /\ (c.i = 5 => c.v = m[5])
        BY <2>1, <4>a
      <4>2. f \in RegisterFunctions /\ m[4] = w \div 256 /\ m[5] = w % 256 /\ a \in DOMAIN table
        <5>1. Len(m) > 3
          BY <4>1
        <5> QED BY <1>3, <4>1, <5>1, Zenon DEF AnswerTo
      <4> QED BY <4>1, <4>2, Zenon
    <3> QED BY <3>1, <3>2, <3>3 DEF AnswerByte
  <2> QED BY <1>1, <2>1, <2>3, <2>4 DEF GoodCell, c
<1> HIDE DEF cell, l
<1>7. frame \in [1 .. l -> GoodCell(s)]
  BY <1>5, <1>6
<1> HIDE DEF frame
<1>8. frame \in Seq(GoodCell(s))
  BY <1>5, <1>7, SeqOfFunction
<1> QED BY <1>8 DEF frame, m, q

LEMMA DeviceRepliesKeeps ==
  ASSUME PollingInv, DeviceReplies
  PROVE  PollingInv'
<1> DEFINE r == Head(requests)
<1>1. /\ sent \in Seq(SentType) /\ requests \in Seq(GoodRequest(sent)) /\ requests # <<>>
      /\ transit \in Seq(GoodCell(sent)) /\ line \in Seq(GoodCell(sent))
  BY DEF PollingInv, OnTheLine, DeviceReplies
<1>2. r \in GoodRequest(sent) /\ Tail(requests) \in Seq(GoodRequest(sent))
  BY <1>1, HeadTailProperties
<1>3. requests' = Tail(requests) /\ UNCHANGED <<contextVars, line, countVars>>
  BY DEF DeviceReplies
<1>4. transit' \in Seq(GoodCell(sent))
  <2>1. CASE r.req.slave \in Devices
    <3>1. PICK crc \in CrcBytes :
            transit' = transit \o Frame(Reply(Tables[r.req.function], r.req), crc, r.n)
      BY <2>1 DEF DeviceReplies
    <3> DEFINE frame == Frame(Reply(Tables[r.req.function], r.req), crc, r.n)
    <3>2. frame \in Seq(GoodCell(sent))
      BY <1>1, <1>2, FrameIsGood
    <3>3. transit' = transit \o frame
      BY <3>1
    <3> HIDE DEF frame
    <3> QED BY <1>1, <3>2, <3>3, ConcatProperties
  <2>2. CASE r.req.slave \notin Devices
    BY <1>1, <2>2 DEF DeviceReplies
  <2> QED BY <2>1, <2>2
<1>5. pieces' \in 0 .. MaxPieces /\ faults' \in 0 .. MaxFaults
  BY <1>3 DEF countVars, PollingInv, Scalars
<1>6. UNCHANGED <<contextVars, sent, timedOut, polls>> /\ line' \in Seq(GoodCell(sent))
  BY <1>1, <1>3 DEF countVars
<1> QED BY <1>2, <1>3, <1>4, <1>5, <1>6, LineKeeps

\* The bytes of a sequence from m to n.
LEMMA Part ==
  ASSUME NEW S, NEW s \in Seq(S), NEW m \in Nat \ {0}, NEW n \in Nat, n <= Len(s)
  PROVE  /\ SubSeq(s, m, n) \in Seq(S)
         /\ Len(SubSeq(s, m, n)) = IF m <= n THEN n - m + 1 ELSE 0
<1>1. \A i \in m .. n : s[i] \in S
  BY ElementOfSeq, LenProperties
<1> QED BY <1>1, SubSeqProperties

LEMMA ArriveKeeps ==
  ASSUME PollingInv, NEW k \in 1 .. Len(transit), Arrive(k)
  PROVE  PollingInv'
<1>1. /\ transit \in Seq(GoodCell(sent)) /\ line \in Seq(GoodCell(sent))
      /\ requests \in Seq(GoodRequest(sent)) /\ Len(transit) \in Nat
  BY LenProperties DEF PollingInv, OnTheLine
<1>2. /\ SubSeq(transit, 1, k) \in Seq(GoodCell(sent))
      /\ SubSeq(transit, k + 1, Len(transit)) \in Seq(GoodCell(sent))
  BY <1>1, Part
<1>3. line' \in Seq(GoodCell(sent)) /\ transit' \in Seq(GoodCell(sent))
  BY <1>1, <1>2, ConcatProperties DEF Arrive
<1>4. UNCHANGED <<contextVars, requests, sent, timedOut, polls, faults>>
  BY DEF Arrive
<1>5. pieces' \in 0 .. MaxPieces /\ faults' \in 0 .. MaxFaults
  BY <1>4, LineAssumption DEF Arrive, PollingInv, Scalars
<1> QED BY <1>1, <1>3, <1>4, <1>5, LineKeeps

LEMMA FaultCounted ==
  ASSUME Scalars, Fault
  PROVE  faults' \in 0 .. MaxFaults
  BY LineAssumption DEF Scalars, Fault

LEMMA FaultsKeep ==
  ASSUME PollingInv,
         \/ LoseRequest
         \/ \E k \in 1 .. Len(transit) : LoseByte(k) \/ \E v \in NoiseBytes : GarbleByte(k, v)
  PROVE  PollingInv'
<1>1. /\ transit \in Seq(GoodCell(sent)) /\ line \in Seq(GoodCell(sent))
      /\ requests \in Seq(GoodRequest(sent)) /\ Len(transit) \in Nat
  BY LenProperties DEF PollingInv, OnTheLine
<1>2. CASE LoseRequest
  <2>1. requests' \in Seq(GoodRequest(sent))
    BY <1>1, <1>2, HeadTailProperties DEF LoseRequest
  <2>2. UNCHANGED <<contextVars, transit, line, sent, timedOut, polls, pieces>> /\ Fault
    BY <1>2 DEF LoseRequest
  <2>3. pieces' \in 0 .. MaxPieces /\ faults' \in 0 .. MaxFaults
    BY <2>2, FaultCounted DEF PollingInv, Scalars
  <2> QED BY <1>1, <2>1, <2>2, <2>3, LineKeeps
<1>3. ASSUME NEW k \in 1 .. Len(transit), LoseByte(k)
      PROVE  PollingInv'
  <2>1. /\ SubSeq(transit, 1, k - 1) \in Seq(GoodCell(sent))
        /\ SubSeq(transit, k + 1, Len(transit)) \in Seq(GoodCell(sent))
    BY <1>1, Part
  <2>2. transit' \in Seq(GoodCell(sent))
    BY <1>3, <2>1, ConcatProperties DEF LoseByte
  <2>3. UNCHANGED <<contextVars, requests, line, sent, timedOut, polls, pieces>> /\ Fault
    BY <1>3 DEF LoseByte
  <2>4. pieces' \in 0 .. MaxPieces /\ faults' \in 0 .. MaxFaults
    BY <2>3, FaultCounted DEF PollingInv, Scalars
  <2> QED BY <1>1, <2>2, <2>3, <2>4, LineKeeps
<1>4. ASSUME NEW k \in 1 .. Len(transit), NEW v \in NoiseBytes, GarbleByte(k, v)
      PROVE  PollingInv'
  <2> DEFINE old == transit[k]
             c   == [v |-> v, n |-> 0, i |-> old.i, of |-> old.of]
  <2>1. old \in GoodCell(sent)
    BY <1>1, ElementOfSeq
  <2>2. old = [v |-> old.v, n |-> old.n, i |-> old.i, of |-> old.of] /\ old.i \in Nat \ {0} /\ old.of \in Nat
    BY <2>1 DEF GoodCell
  <2>3. v \in Byte /\ 0 \in 0 .. Len(sent)
    BY LineAssumption, LenProperties DEF PollingInv, OnTheLine
  <2>4. c \in GoodCell(sent)
    BY <2>2, <2>3 DEF GoodCell
  <2>5. transit' = [transit EXCEPT ![k] = c]
    <3> HIDE DEF c, old
    <3>1. DOMAIN transit = 1 .. Len(transit)
      BY <1>1, LenProperties
    <3>2. transit' = [transit EXCEPT ![k].v = v, ![k].n = 0]
      BY <1>4 DEF GarbleByte
    <3>3. DOMAIN transit' = DOMAIN transit
      BY <3>2
    <3>4. \A j \in DOMAIN transit : j # k => transit'[j] = transit[j]
      BY <3>2
    <3>5. transit'[k] = [[old EXCEPT !.v = v] EXCEPT !.n = 0]
      BY <3>1, <3>2 DEF old
    <3> PICK x, n, i, of : old = [v |-> x, n |-> n, i |-> i, of |-> of]
      BY <2>2
    <3>6. [[old EXCEPT !.v = v] EXCEPT !.n = 0] = c
      <4>1. [old EXCEPT !.v = v] = [v |-> v, n |-> n, i |-> i, of |-> of]
        OBVIOUS
      <4>2. c = [v |-> v, n |-> 0, i |-> i, of |-> of]
        BY DEF c
      <4>3. [[v |-> v, n |-> n, i |-> i, of |-> of] EXCEPT !.n = 0]
              = [v |-> v, n |-> 0, i |-> i, of |-> of]
        OBVIOUS
      <4> QED BY <4>1, <4>2, <4>3, Zenon
    <3> QED BY <3>1, <3>2, <3>3, <3>4, <3>5, <3>6
  <2> HIDE DEF c
  <2>6. transit' \in Seq(GoodCell(sent))
    BY <1>1, <2>4, <2>5, ExceptSeq
  <2>7. UNCHANGED <<contextVars, requests, line, sent, timedOut, polls, pieces>> /\ Fault
    BY <1>4 DEF GarbleByte
  <2>8. pieces' \in 0 .. MaxPieces /\ faults' \in 0 .. MaxFaults
    BY <2>7, FaultCounted DEF PollingInv, Scalars
  <2> QED BY <1>1, <2>6, <2>7, <2>8, LineKeeps
<1> QED BY <1>2, <1>3, <1>4

-----------------------------------------------------------------------------
(* Reading an answer.                                                      *)

LEMMA ValuesTyped ==
  ASSUME NEW s \in Seq(SentType), NEW cells \in Seq(GoodCell(s))
  PROVE  /\ Values(cells) \in Seq(Byte)
         /\ Len(Values(cells)) = Len(cells)
         /\ \A k \in 1 .. Len(cells) : Values(cells)[k] = cells[k].v
<1>1. DOMAIN cells = 1 .. Len(cells) /\ Len(cells) \in Nat
  BY LenProperties
<1>2. ASSUME NEW k \in 1 .. Len(cells)
      PROVE  cells[k].v \in Byte
  <2>1. cells[k] \in GoodCell(s)
    BY ElementOfSeq
  <2> QED BY <2>1 DEF GoodCell
<1> DEFINE values == [k \in 1 .. Len(cells) |-> cells[k].v]
<1>3. Values(cells) = values
  BY <1>1 DEF Values
<1>4. values \in [1 .. Len(cells) -> Byte]
  BY <1>2
<1>5. \A k \in 1 .. Len(cells) : values[k] = cells[k].v
  OBVIOUS
<1> HIDE DEF values
<1>6. values \in Seq(Byte) /\ Len(values) = Len(cells)
  BY <1>1, <1>4, SeqOfFunction
<1> QED BY <1>3, <1>5, <1>6

LEMMA MessageTyped ==
  ASSUME NEW s \in Seq(SentType), NEW cells \in Seq(GoodCell(s)), Len(cells) >= 5
  PROVE  LET msg == WithoutCrc(Values(cells))
         IN /\ msg \in Seq(Byte)
            /\ Len(msg) = Len(cells) - 2
            /\ \A k \in 1 .. Len(cells) - 2 : msg[k] = cells[k].v
<1> DEFINE values == Values(cells)
           n      == Len(cells) - 2
<1>1. /\ values \in Seq(Byte) /\ Len(values) = Len(cells) /\ Len(cells) \in Nat
      /\ \A k \in 1 .. Len(cells) : values[k] = cells[k].v
  BY ValuesTyped, LenProperties
<1> HIDE DEF values
<1>2. WithoutCrc(values) = SubSeq(values, 1, n) /\ n \in Nat /\ n >= 3 /\ n <= Len(values)
  BY <1>1, FunctionTypes DEF WithoutCrc
<1> HIDE DEF n
<1>3. \A i \in 1 .. n : values[i] \in Byte
  BY <1>1, <1>2, ElementOfSeq
<1>4. /\ SubSeq(values, 1, n) \in Seq(Byte)
      /\ Len(SubSeq(values, 1, n)) = n
      /\ \A i \in 1 .. n : SubSeq(values, 1, n)[i] = values[i]
  <2>1. /\ SubSeq(values, 1, n) \in Seq(Byte)
        /\ Len(SubSeq(values, 1, n)) = IF 1 <= n THEN n - 1 + 1 ELSE 0
        /\ \A i \in 1 .. n - 1 + 1 : SubSeq(values, 1, n)[i] = values[1 + i - 1]
    BY <1>2, <1>3, SubSeqProperties
  <2>2. n - 1 + 1 = n /\ \A i \in 1 .. n : 1 + i - 1 = i
    BY <1>2
  <2> QED BY <1>2, <2>1, <2>2
<1>5. \A k \in 1 .. n : values[k] = cells[k].v
  BY <1>1, <1>2
<1> QED BY <1>2, <1>4, <1>5 DEF values, n

\* What CheckIntegrity and CheckConfirmation make sure of.
LEMMA ConfirmedAnswer ==
  ASSUME NEW q \in RequestType, NEW sl \in -1 .. 247, NEW intact \in BOOLEAN,
         NEW msg \in Seq(Byte), Len(msg) >= 3,
         CheckIntegrity(sl, msg, intact) # Failed,
         CheckConfirmation(q, msg, CheckIntegrity(sl, msg, intact)) # Failed
  PROVE  /\ ~(sl = Unset /\ q.slave = 255)
         /\ intact
         /\ msg[2] = q.function
         /\ Len(msg) + 2 = 5 + DataBytes(q.function, RegCount)
<1> DEFINE length == CheckIntegrity(sl, msg, intact)
<1>1. /\ q.slave = msg[1] \/ q.slave = Broadcast
      /\ length = ResponseLength(q)
      /\ msg[2] = q.function
  BY DEF CheckConfirmation
<1>2. /\ q.function \in Functions /\ q.nb = RegCount /\ q.slave \in Byte
      /\ DataBytes(q.function, RegCount) \in 1 .. 2
  BY DataBytesOfOne, FunctionTypes DEF RequestType
<1>3. ResponseLength(q) = 5 + DataBytes(q.function, RegCount)
  BY <1>2, FunctionTypes DEF ResponseLength
<1>4. Len(msg) \in Nat /\ msg[1] \in Byte
  BY ElementOfSeq, LenProperties
<1>5. length # 0 /\ length # Failed
  BY <1>1, <1>2, <1>3
<1>6. /\ msg[1] = sl \/ msg[1] = Broadcast
      /\ intact
      /\ length = Len(msg) + ChecksumLength
  BY <1>5 DEF CheckIntegrity
<1>7. ~(sl = Unset /\ q.slave = 255)
  BY <1>1, <1>4, <1>6, FunctionTypes DEF Byte
<1> HIDE DEF length
<1> QED BY <1>1, <1>3, <1>6, <1>7, FunctionTypes

\* What Judge stores is what a device holds.
LEMMA StoredIsGood ==
  ASSUME NEW s \in Seq(SentType), NEW cells \in Seq(GoodCell(s)), NEW q \in RequestType,
         NEW msg \in Seq(Byte), Len(cells) >= 5, Intact(cells),
         Len(msg) = Len(cells) - 2,
         \A k \in 1 .. Len(cells) - 2 : msg[k] = cells[k].v,
         msg[2] = q.function,
         Len(cells) = 5 + DataBytes(q.function, RegCount)
  PROVE  /\ q.function \in BitFunctions =>
              [v |-> msg[4] % 2, n |-> cells[1].n] \in GoodBit(s)
         /\ q.function \notin BitFunctions =>
              [v |-> 256 * msg[4] + msg[5], n |-> cells[1].n] \in GoodValue(s)
<1> DEFINE n == cells[1].n
           f == s[n].function
           a == s[n].addr
<1>1. Len(cells) \in Nat /\ DOMAIN cells = 1 .. Len(cells) /\ Len(s) \in Nat
  BY LenProperties
<1>2. ASSUME NEW k \in 1 .. Len(cells)
      PROVE  /\ cells[k].n = n /\ cells[k].i = k /\ cells[k].of = Len(cells)
             /\ n # 0 /\ n \in 1 .. Len(s)
             /\ AnswerByte(cells[k], f, a)
  <2>1. cells[k] \in GoodCell(s)
    BY ElementOfSeq
  <2>2. cells[k].n = n /\ cells[k].n # 0 /\ cells[k].i = k /\ cells[k].of = Len(cells)
    BY <1>1 DEF Intact
  <2> HIDE DEF n
  <2>3. cells[k].n \in 0 .. Len(s) /\ AnswerByte(cells[k], s[cells[k].n].function, s[cells[k].n].addr)
    BY <2>1, <2>2 DEF GoodCell
  <2>4. n \in 1 .. Len(s)
    BY <1>1, <2>2, <2>3
  <2> QED BY <2>2, <2>3, <2>4
<1>3. q.function \in Functions
  BY DEF RequestType
<1>4. 1 \in 1 .. Len(cells) /\ 2 \in 1 .. Len(cells) /\ 4 \in 1 .. Len(cells) /\ 5 \in 1 .. Len(cells)
  BY <1>1
<1>5. n \in 1 .. Len(s) /\ n \in 0 .. Len(s) /\ n # 0
  BY <1>2, <1>4
<1>6. f \in Functions
  <2>1. s[n] \in SentType
    BY <1>5, ElementOfSeq
  <2> QED BY <2>1 DEF SentType
<1>7. CASE q.function \in BitFunctions
  <2>1. Len(cells) = 6
    BY <1>3, <1>7, DataBytesOfOne
  <2>2. /\ cells[4].i = 4 /\ cells[4].of = 6 /\ AnswerByte(cells[4], f, a)
        /\ msg[4] = cells[4].v
    <3> HIDE DEF f, a, n
    <3>1. cells[4].i = 4 /\ cells[4].of = Len(cells) /\ AnswerByte(cells[4], f, a)
      BY <1>2, <1>4, Zenon
    <3>a. 4 \in 1 .. 6 - 2
      OBVIOUS
    <3>2. 4 \in 1 .. Len(cells) - 2
      BY <2>1, <3>a, Zenon
    <3>3. msg[4] = cells[4].v
      BY <3>2, Zenon
    <3> QED BY <2>1, <3>1, <3>3, Zenon
  <2>3. f \in BitFunctions /\ a \in DOMAIN Tables[f] /\ msg[4] = Tables[f][a]
    BY <2>2 DEF AnswerByte
  <2>4. Tables[f][a] \in 0 .. 1
    BY <1>6, <2>3, TableType
  <2>5. msg[4] % 2 = msg[4] /\ msg[4] \in 0 .. 1
    <3> DEFINE bit == msg[4]
    <3>1. bit \in 0 .. 1
      BY <2>3, <2>4, Zenon
    <3> HIDE DEF bit
    <3>2. bit = 0 \/ bit = 1
      BY <3>1
    <3>3. 0 % 2 = 0 /\ 1 % 2 = 1
      OBVIOUS
    <3>4. bit % 2 = bit
      BY <3>2, <3>3, Zenon
    <3> QED BY <3>1, <3>4, Zenon DEF bit
  <2> QED BY <1>5, <1>7, <2>3, <2>5 DEF GoodBit
<1>8. CASE q.function \notin BitFunctions
  <2>1. Len(cells) = 7
    BY <1>3, <1>8, DataBytesOfOne
  <2>2. /\ cells[4].i = 4 /\ cells[4].of = 7 /\ AnswerByte(cells[4], f, a)
        /\ cells[5].i = 5 /\ cells[5].of = 7 /\ AnswerByte(cells[5], f, a)
        /\ msg[4] = cells[4].v /\ msg[5] = cells[5].v
    <3> HIDE DEF f, a, n
    <3>1. cells[4].i = 4 /\ cells[4].of = Len(cells) /\ AnswerByte(cells[4], f, a)
      BY <1>2, <1>4, Zenon
    <3>2. cells[5].i = 5 /\ cells[5].of = Len(cells) /\ AnswerByte(cells[5], f, a)
      BY <1>2, <1>4, Zenon
    <3>a. 4 \in 1 .. 7 - 2 /\ 5 \in 1 .. 7 - 2
      OBVIOUS
    <3>3. 4 \in 1 .. Len(cells) - 2 /\ 5 \in 1 .. Len(cells) - 2
      BY <2>1, <3>a, Zenon
    <3>4. msg[4] = cells[4].v /\ msg[5] = cells[5].v
      BY <3>3, Zenon
    <3> QED BY <2>1, <3>1, <3>2, <3>4, Zenon
  <2> DEFINE w == Tables[f][a]
  <2>3. f \in RegisterFunctions /\ a \in DOMAIN Tables[f] /\ msg[4] = w \div 256 /\ msg[5] = w % 256
    BY <2>2 DEF AnswerByte
  <2>4. w \in Word
    BY <1>6, <2>3, TableType
  <2> DEFINE x == 256 * msg[4] + msg[5]
  <2> HIDE DEF w
  <2>5. x = w
    BY <2>3, <2>4, WordParts
  <2> HIDE DEF x
  <2>6. [v |-> x, n |-> n] \in GoodValue(s)
    BY <1>5, <2>3, <2>4, <2>5 DEF GoodValue, w
  <2> QED BY <1>8, <2>6 DEF x
<1> QED BY <1>7, <1>8

\* n bytes more are wanted by step next.
Wanted(next, length, n) ==
  /\ next \in Receiving
  /\ n \in 0 .. MaxAdu
  /\ next = "function" => length + n = 2
  /\ next = "meta" => length >= 2 /\ length + n \in 3 .. 8
  /\ next = "data" => length + n \in 5 .. MaxAdu

LEMMA ReadOnKeeps ==
  ASSUME PollingInv, step \in Receiving,
         UNCHANGED <<port, slave, req, requests, transit, countVars>>,
         line' \in Seq(GoodCell(sent)),
         NEW cells \in Seq(GoodCell(sent)), NEW next, NEW n,
         ReadOn(cells, next, n), Wanted(next, Len(cells), n)
  PROVE  PollingInv'
<1>1. /\ buf' = cells /\ step' = next /\ need' = n
      /\ UNCHANGED <<polled, todo, rt>>
      /\ UNCHANGED <<port, slave, req, requests, transit, sent, timedOut, polls, pieces, faults>>
  BY DEF ReadOn, countVars
<1>2. next \in Receiving
  BY DEF Wanted
<1>3. Scalars'
  BY <1>1 DEF PollingInv, Scalars
<1>4. Control'
  <2>1. next # "idle" /\ step # "idle"
    BY <1>2 DEF Receiving
  <2> QED BY <1>1, <1>2, <2>1, Zenon DEF PollingInv, Control
<1>5. Position'
  BY <1>1, <1>2 DEF Position, Wanted
<1>6. OnTheLine' /\ Kept'
  BY <1>1 DEF PollingInv, OnTheLine, Kept
<1>7. AsksNobody'
  BY <1>1 DEF PollingInv, AsksNobody
<1> QED BY <1>3, <1>4, <1>5, <1>6, <1>7 DEF PollingInv

LEMMA LastStepKeeps ==
  ASSUME PollingInv, step \in Receiving, EndCall,
         UNCHANGED <<port, slave, req, requests, transit, countVars>>,
         line' \in Seq(GoodCell(sent)),
         rt' \in [Registers -> [bits : GoodBit(sent), value : GoodValue(sent)]],
         slave = Unset => UNCHANGED rt
  PROVE  PollingInv'
<1>1. step # "idle"
  BY DEF Receiving
<1>2. /\ Control' /\ Position' /\ step' \notin Receiving /\ buf' = <<>>
  BY <1>1, CallEnds DEF PollingInv
<1>3. UNCHANGED <<port, slave, req, requests, transit, sent, timedOut, polls, pieces, faults>>
  BY DEF countVars
<1>4. Scalars'
  BY <1>3 DEF PollingInv, Scalars
<1>5. OnTheLine' /\ Kept'
  BY <1>2, <1>3 DEF PollingInv, OnTheLine, Kept
<1>6. AsksNobody'
  BY <1>2, <1>3 DEF PollingInv, AsksNobody
<1> QED BY <1>2, <1>4, <1>5, <1>6 DEF PollingInv

\* What Judge leaves in rt.
LEMMA JudgeKeeps ==
  ASSUME PollingInv, step = "data", NEW cells \in Seq(GoodCell(sent)), Len(cells) >= 5,
         Judge(cells)
  PROVE  /\ EndCall
         /\ rt' \in [Registers -> [bits : GoodBit(sent), value : GoodValue(sent)]]
         /\ slave = Unset => UNCHANGED rt
<1> DEFINE msg    == WithoutCrc(Values(cells))
           intact == Intact(cells)
           length == CheckIntegrity(slave, msg, intact)
           stores == length # Failed /\ CheckConfirmation(req, msg, length) # Failed
           types  == [bits : GoodBit(sent), value : GoodValue(sent)]
<1>1. EndCall /\ IF stores THEN Store(msg, cells[1].n) ELSE UNCHANGED rt
  BY DEF Judge
<1>2. /\ rt \in [Registers -> types]
      /\ sent \in Seq(SentType) /\ slave \in -1 .. 247
      /\ req \in RequestType /\ polled \in Registers
      /\ slave = Unset => req.slave = 255
  BY RegistersAssumption DEF PollingInv, Kept, OnTheLine, Scalars, Control, AsksNobody, Receiving
<1>3. CASE ~stores
  BY <1>1, <1>2, <1>3
<1>4. CASE stores
  <2>1. /\ msg \in Seq(Byte)
        /\ Len(msg) = Len(cells) - 2
        /\ \A k \in 1 .. Len(cells) - 2 : msg[k] = cells[k].v
    BY <1>2, MessageTyped
  <2>2. Len(cells) \in Nat /\ Len(msg) >= 3 /\ Len(msg) + 2 = Len(cells)
    BY <2>1, LenProperties
  <2>3. intact \in BOOLEAN
    BY DEF Intact
  <2> HIDE DEF msg, intact
  <2>4. /\ ~(slave = Unset /\ req.slave = 255)
        /\ intact
        /\ msg[2] = req.function
        /\ Len(msg) + 2 = 5 + DataBytes(req.function, RegCount)
    <3>1. /\ CheckIntegrity(slave, msg, intact) # Failed
          /\ CheckConfirmation(req, msg, CheckIntegrity(slave, msg, intact)) # Failed
      BY <1>4, Zenon
    <3>2. msg \in Seq(Byte) /\ Len(msg) >= 3
      BY <2>1, <2>2
    <3>3. slave \in -1 .. 247 /\ req \in RequestType
      BY <1>2
    <3> QED BY <2>3, <3>1, <3>2, <3>3, ConfirmedAnswer, Zenon
  <2>5. slave # Unset
    BY <1>2, <2>4
  <2>6. Intact(cells) /\ Len(cells) = 5 + DataBytes(req.function, RegCount)
    BY <2>2, <2>4 DEF intact
  <2> DEFINE bit   == [v |-> msg[4] % 2, n |-> cells[1].n]
             value == [v |-> 256 * msg[4] + msg[5], n |-> cells[1].n]
  <2>7. /\ req.function \in BitFunctions => bit \in GoodBit(sent)
        /\ req.function \notin BitFunctions => value \in GoodValue(sent)
    BY <1>2, <2>1, <2>4, <2>6, StoredIsGood
  <2>8. rt' = IF req.function \in BitFunctions
                THEN [rt EXCEPT ![polled].bits = bit] ELSE [rt EXCEPT ![polled].value = value]
    BY <1>1, <1>4 DEF Store
  <2> HIDE DEF bit, value
  <2>9. rt' \in [Registers -> types]
    <3>1. CASE req.function \in BitFunctions
      <4>1. rt' = [rt EXCEPT ![polled] = [rt[polled] EXCEPT !.bits = bit]]
        BY <2>8, <3>1
      <4>2. [rt[polled] EXCEPT !.bits = bit] \in types
        BY <1>2, <2>7, <3>1
      <4> HIDE DEF types
      <4> QED BY <1>2, <4>1, <4>2
    <3>2. CASE req.function \notin BitFunctions
      <4>1. rt' = [rt EXCEPT ![polled] = [rt[polled] EXCEPT !.value = value]]
        BY <2>8, <3>2
      <4>2. [rt[polled] EXCEPT !.value = value] \in types
        BY <1>2, <2>7, <3>2
      <4> HIDE DEF types
      <4> QED BY <1>2, <4>1, <4>2
    <3> QED BY <3>1, <3>2
  <2> QED BY <1>1, <2>5, <2>9
<1> QED BY <1>3, <1>4

LEMMA LengthsRead ==
  ASSUME NEW msg \in Seq(Byte), Len(msg) >= 2
  PROVE  /\ MetaLength(msg[2]) \in 1 .. 6
         /\ Len(msg) >= 3 => RestLength(msg) \in 2 .. 257
<1>1. Len(msg) \in Nat /\ msg[2] \in Byte /\ (Len(msg) >= 3 => msg[3] \in Byte)
  BY ElementOfSeq, LenProperties
<1>2. MetaLength(msg[2]) \in 1 .. 6
  BY DEF MetaLength
<1>3. ASSUME Len(msg) >= 3 PROVE RestLength(msg) \in 2 .. 257
  <2>1. msg[3] \in 0 .. 255
    BY <1>1, <1>3 DEF Byte
  <2> DEFINE b == msg[3]
             c == IF msg[2] <= ReadInputRegisters \/ msg[2] \in {17, 23} THEN b ELSE 0
  <2>2. c \in 0 .. 255
    BY <2>1
  <2>3. RestLength(msg) = 2 + c
    BY FunctionTypes DEF RestLength
  <2> HIDE DEF c
  <2> QED BY <2>2, <2>3
<1> QED BY <1>2, <1>3

LEMMA ReceiveKeeps ==
  ASSUME PollingInv, Receive
  PROVE  PollingInv'
<1> DEFINE k     == IF need < Len(line) THEN need ELSE Len(line)
           cells == buf \o SubSeq(line, 1, k)
<1>1. /\ step \in Receiving
      /\ line' = SubSeq(line, k + 1, Len(line))
      /\ IF k = need THEN AdvanceStep(cells) ELSE ReadOn(cells, step, need - k)
      /\ UNCHANGED <<port, slave, req, requests, transit, countVars>>
  BY DEF Receive
<1>2. /\ buf \in Seq(GoodCell(sent)) /\ line \in Seq(GoodCell(sent))
      /\ sent \in Seq(SentType) /\ need \in 0 .. 256
  BY FunctionTypes DEF PollingInv, OnTheLine, Position
<1>3. Len(buf) \in Nat /\ Len(line) \in Nat
  BY <1>2, LenProperties
<1>4. k \in Nat /\ k <= Len(line) /\ k <= need
  BY <1>2, <1>3
<1> HIDE DEF k
<1>5. /\ SubSeq(line, 1, k) \in Seq(GoodCell(sent)) /\ Len(SubSeq(line, 1, k)) = k
      /\ SubSeq(line, k + 1, Len(line)) \in Seq(GoodCell(sent))
  BY <1>2, <1>3, <1>4, Part
<1>6. cells \in Seq(GoodCell(sent)) /\ Len(cells) = Len(buf) + k
  BY <1>2, <1>5, ConcatProperties
<1>7. line' \in Seq(GoodCell(sent))
  BY <1>1, <1>5
<1> HIDE DEF cells
<1> DEFINE msg == Values(cells)
<1>8. msg \in Seq(Byte) /\ Len(msg) = Len(cells)
  BY <1>2, <1>6, ValuesTyped
<1> HIDE DEF msg
<1>9. /\ step = "function" => Len(buf) + need = 2
      /\ step = "meta" => Len(buf) >= 2 /\ Len(buf) + need \in 3 .. 8
      /\ step = "data" => Len(buf) + need \in 5 .. 256
  BY FunctionTypes DEF PollingInv, Position
<1>10. CASE k # need
  <2>1. ReadOn(cells, step, need - k)
    BY <1>1, <1>10
  <2>2. Len(cells) + (need - k) = Len(buf) + need /\ need - k \in 0 .. 256 /\ Len(cells) >= Len(buf)
    BY <1>2, <1>3, <1>4, <1>6
  <2>3. Wanted(step, Len(cells), need - k)
    <3> DEFINE length == Len(cells)
               before == Len(buf)
               rest   == need - k
    <3>1. length + rest = before + need /\ rest \in 0 .. 256 /\ length >= before
          /\ length \in Nat /\ before \in Nat
      BY <1>3, <1>6, <2>2, LenProperties
    <3>2. /\ step = "function" => before + need = 2
          /\ step = "meta" => before >= 2 /\ before + need \in 3 .. 8
          /\ step = "data" => before + need \in 5 .. 256
      BY <1>9
    <3> HIDE DEF length, before, rest
    <3>4. rest \in 0 .. MaxAdu
      BY <3>1, FunctionTypes
    <3>5. step = "function" => length + rest = 2
      BY <3>1, <3>2
    <3>6. step = "meta" => length >= 2 /\ length + rest \in 3 .. 8
      BY <3>1, <3>2
    <3>7. step = "data" => length + rest \in 5 .. MaxAdu
      BY <3>1, <3>2, FunctionTypes
    <3>3. Wanted(step, length, rest)
      BY <1>1, <3>4, <3>5, <3>6, <3>7, Zenon DEF Wanted
    <3> QED BY <3>3 DEF length, rest
  <2> QED BY <1>1, <1>6, <1>7, <2>1, <2>3, ReadOnKeeps
<1>11. CASE k = need
  <2>1. AdvanceStep(cells)
    BY <1>1, <1>11
  <2> DEFINE length == Len(cells)
  <2>2. /\ length \in Nat /\ Len(msg) = length
        /\ step = "function" => length = 2
        /\ step = "meta" => length \in 3 .. 8
        /\ step = "data" => length \in 5 .. 256
    BY <1>3, <1>6, <1>8, <1>9, <1>11
  <2>3. CASE step = "function"
    <3>1. ReadOn(cells, "meta", MetaLength(msg[2]))
      BY <2>1, <2>3 DEF AdvanceStep, msg
    <3>2. MetaLength(msg[2]) \in 1 .. 6 /\ length = 2
      BY <1>8, <2>2, <2>3, LengthsRead
    <3> HIDE DEF length
    <3>3. Wanted("meta", length, MetaLength(msg[2]))
      BY <3>2, FunctionTypes DEF Wanted, Receiving
    <3> QED BY <1>1, <1>6, <1>7, <3>1, <3>3, ReadOnKeeps DEF length
  <2>4. CASE step = "meta"
    <3>1. IF Len(msg) + RestLength(msg) > MaxAdu
            THEN EndCall /\ UNCHANGED rt ELSE ReadOn(cells, "data", RestLength(msg))
      BY <2>1, <2>4 DEF AdvanceStep, msg
    <3>a. length \in 3 .. 8
      BY <2>2, <2>4
    <3>b. Len(msg) >= 2 /\ Len(msg) >= 3
      BY <2>2, <3>a
    <3>2. RestLength(msg) \in 2 .. 257 /\ length \in 3 .. 8
      BY <1>8, <3>a, <3>b, LengthsRead, Zenon
    <3>3. CASE Len(msg) + RestLength(msg) > MaxAdu
      <4>1. EndCall /\ UNCHANGED rt
        BY <3>1, <3>3
      <4>2. rt' \in [Registers -> [bits : GoodBit(sent), value : GoodValue(sent)]]
        BY <4>1 DEF PollingInv, Kept
      <4> QED BY <1>1, <1>7, <4>1, <4>2, LastStepKeeps
    <3>4. CASE ~(Len(msg) + RestLength(msg) > MaxAdu)
      <4>1. ReadOn(cells, "data", RestLength(msg))
        BY <3>1, <3>4
      <4> DEFINE rest == RestLength(msg)
      <4>2. rest \in 2 .. 257 /\ length \in 3 .. 8 /\ ~(length + rest > 256)
        BY <2>2, <3>2, <3>4, FunctionTypes
      <4> HIDE DEF length, rest
      <4>3. Wanted("data", length, rest)
        BY <4>2, FunctionTypes DEF Wanted, Receiving
      <4> QED BY <1>1, <1>6, <1>7, <4>1, <4>3, ReadOnKeeps DEF length, rest
    <3> QED BY <3>3, <3>4
  <2>5. CASE step = "data"
    <3>1. Judge(cells)
      BY <2>1, <2>5 DEF AdvanceStep
    <3>2. Len(cells) >= 5
      BY <2>2, <2>5
    <3>3. /\ EndCall
          /\ rt' \in [Registers -> [bits : GoodBit(sent), value : GoodValue(sent)]]
          /\ slave = Unset => UNCHANGED rt
      BY <1>6, <2>5, <3>1, <3>2, JudgeKeeps
    <3> QED BY <1>1, <1>7, <3>3, LastStepKeeps
  <2> QED BY <1>1, <2>3, <2>4, <2>5 DEF Receiving
<1> QED BY <1>10, <1>11

-----------------------------------------------------------------------------
(* The theorems.                                                           *)

LEMMA NextKeeps == PollingInv /\ [Next]_vars => PollingInv'
<1> SUFFICES ASSUME PollingInv, [Next]_vars PROVE PollingInv'
  OBVIOUS
<1>1. ASSUME NEW s \in Slaves, SetSlave(s) PROVE PollingInv'
  BY <1>1, SetSlaveKeeps
<1>2. ASSUME NEW r \in Registers, StartPoll(r) PROVE PollingInv'
  BY <1>2, StartPollKeeps
<1>3. CASE Gateway
  BY <1>3, CallFailsKeeps, SendRequestKeeps, ReceiveKeeps, TimeoutKeeps DEF Gateway
<1>4. CASE Line
  <2>1. CASE DeviceReplies
    BY <2>1, DeviceRepliesKeeps
  <2>2. ASSUME NEW k \in 1 .. Len(transit), Arrive(k) PROVE PollingInv'
    BY <2>2, ArriveKeeps
  <2>3. CASE \/ LoseRequest
             \/ \E k \in 1 .. Len(transit) :
                  LoseByte(k) \/ \E v \in NoiseBytes : GarbleByte(k, v)
    BY <2>3, FaultsKeep
  <2> QED BY <1>4, <2>1, <2>2, <2>3 DEF Line
<1>5. CASE UNCHANGED vars
  <2> USE <1>5 DEF vars, contextVars, lineVars, countVars, PollingInv
  <2>1. Scalars' BY DEF Scalars
  <2>2. Control' BY DEF Control
  <2>3. Position' BY DEF Position
  <2>4. OnTheLine' BY DEF OnTheLine
  <2>5. Kept' BY DEF Kept
  <2>6. AsksNobody' BY DEF AsksNobody
  <2> QED BY <2>1, <2>2, <2>3, <2>4, <2>5, <2>6
<1> QED BY <1>1, <1>2, <1>3, <1>4, <1>5 DEF Next

LEMMA InvariantHolds == Spec => []PollingInv
<1>1. Init => PollingInv
  BY InitIsGood
<1>2. PollingInv /\ [Next]_vars => PollingInv'
  BY NextKeeps
<1> QED BY <1>1, <1>2, PTL DEF Spec

(***************************************************************************)
(* Types, the buffer of a message and the bytes it still wants among them: *)
(* however long the answers on the line say they are, at most MaxAdu bytes *)
(* are read into the array of read_registers and read_io_status.           *)
(***************************************************************************)
THEOREM PollingTypeOK == Spec => []TypeOK
<1>1. PollingInv => TypeOK
  <2> SUFFICES ASSUME PollingInv PROVE TypeOK
    OBVIOUS
  <2>1. GoodCell(sent) \subseteq Cell
    BY DEF GoodCell, Cell
  <2>2. buf \in Seq(Cell) /\ transit \in Seq(Cell) /\ line \in Seq(Cell)
    BY <2>1, SeqMonotonic DEF PollingInv, OnTheLine
  <2>3. GoodRequest(sent) \subseteq [n : 1 .. Len(sent), req : RequestType]
    BY DEF GoodRequest
  <2>4. requests \in Seq([n : 1 .. Len(sent), req : RequestType])
    BY <2>3, SeqMonotonic DEF PollingInv, OnTheLine
  <2>5. /\ GoodBit(sent) \subseteq [v : 0 .. 1, n : 0 .. Len(sent)]
        /\ GoodValue(sent) \subseteq [v : Word, n : 0 .. Len(sent)]
    BY DEF GoodBit, GoodValue
  <2>6. rt \in [Registers -> [bits  : [v : 0 .. 1, n : 0 .. Len(sent)],
                              value : [v : Word, n : 0 .. Len(sent)]]]
    BY <2>5 DEF PollingInv, Kept
  <2>7. sent \in Seq([reg : Registers, function : Functions, addr : Word])
    BY DEF PollingInv, OnTheLine, SentType
  <2>8. Scalars /\ Control /\ need \in 0 .. MaxAdu
    BY DEF PollingInv, Position
  <2>9. Len(buf) + need <= MaxAdu
    <3>1. Len(buf) \in Nat
      BY LenProperties DEF PollingInv, OnTheLine
    <3>2. CASE step \notin Receiving
      <4>1. buf = <<>> /\ need = 0
        BY <3>2 DEF PollingInv, Position
      <4>2. Len(buf) = 0
        BY <4>1
      <4> QED BY <4>1, <4>2, FunctionTypes
    <3>3. CASE step \in Receiving
      <4> DEFINE length == Len(buf)
      <4>1. \/ length + need = 2
            \/ length + need \in 3 .. 8
            \/ length + need \in 5 .. MaxAdu
        BY <3>3 DEF PollingInv, Position, Receiving
      <4>2. length \in Nat /\ need \in Nat
        BY <3>1, FunctionTypes DEF PollingInv, Position
      <4> HIDE DEF length
      <4>3. length + need <= MaxAdu
        BY <4>1, <4>2, FunctionTypes
      <4> QED BY <4>3 DEF length
    <3> QED BY <3>2, <3>3
  <2> QED BY <2>2, <2>4, <2>6, <2>7, <2>8, <2>9, Zenon DEF TypeOK, Scalars, Control
<1> QED BY <1>1, InvariantHolds, PTL

(***************************************************************************)
(* A gateway that never sets a slave number stores nothing it is answered. *)
(***************************************************************************)
THEOREM UnsetStoresNothing == Spec => []UnsetNeverStores
<1>1. PollingInv => UnsetNeverStores
  BY DEF PollingInv, AsksNobody, UnsetNeverStores
<1> QED BY <1>1, InvariantHolds, PTL

(***************************************************************************)
(* Whatever is late, lost, cut or garbled, a value that is stored was sent *)
(* by a device for a request of the same kind.                             *)
(***************************************************************************)
THEOREM AnswersAreGenuine == Spec => []GenuineAnswers
<1>1. PollingInv => GenuineAnswers
  <2> SUFFICES ASSUME PollingInv, NEW r \in Registers
               PROVE  /\ rt[r].bits.n # 0 =>
                           LET q == sent[rt[r].bits.n]
                           IN q.function \in BitFunctions /\ rt[r].bits.v = Tables[q.function][q.addr]
                      /\ rt[r].value.n # 0 =>
                           LET q == sent[rt[r].value.n]
                           IN q.function \in RegisterFunctions /\ rt[r].value.v = Tables[q.function][q.addr]
    BY DEF GenuineAnswers
  <2>1. rt[r].bits \in GoodBit(sent) /\ rt[r].value \in GoodValue(sent)
    BY DEF PollingInv, Kept
  <2> QED BY <2>1 DEF GoodBit, GoodValue
<1> QED BY <1>1, InvariantHolds, PTL


-----------------------------------------------------------------------------
(* The answer of an undisturbed call.                                      *)

\* All that is known of the answer m to a request q for one register or bit, of
\* which the device has those at addresses and holds w at that of q.
WholeAnswer(m, q, addresses, w) ==
  /\ AnswerTo(m, q.function, q.addr, addresses, w)
  /\ m[1] = q.slave
  /\ q.addr \notin addresses => Len(m) = 3 /\ m[2] = q.function + Exception
  /\ q.addr \in addresses => /\ Len(m) = 3 + DataBytes(q.function, RegCount)
                             /\ m[2] = q.function
                             /\ m[3] = DataBytes(q.function, RegCount)

LEMMA ReplyIsWhole ==
  ASSUME NEW q \in RequestType
  PROVE  WholeAnswer(Reply(Tables[q.function], q), q, DOMAIN Tables[q.function],
                     Tables[q.function][q.addr])
<1> DEFINE f     == q.function
           table == Tables[f]
           m     == Reply(table, q)
           w     == table[q.addr]
<1>1. /\ f \in Functions /\ f \in 1 .. 4 /\ q.nb = 1 /\ q.nb = RegCount
      /\ q.addr \in Nat /\ q.slave \in Byte
  BY FunctionTypes, WordIsNat DEF RequestType
<1>2. q.addr \in DOMAIN table => w \in Word /\ (f \in BitFunctions => w \in 0 .. 1)
  BY <1>1, TableType
<1> HIDE DEF table
<1>3. AnswerTo(m, f, q.addr, DOMAIN table, w)
  BY <1>2, ReplyBytes
<1>4. q.nb \in 1 .. MaxCount(f)
  BY <1>1 DEF MaxCount, MaxReadBits, MaxReadRegisters
<1>5. q.addr + q.nb - 1 = q.addr
  BY <1>1
<1>6. CASE q.addr \notin DOMAIN table
  <2>1. m = <<q.slave, f + Exception, IllegalDataAddress>>
    BY <1>4, <1>6 DEF Reply
  <2> HIDE DEF m
  <2>2. m[1] = q.slave /\ m[2] = f + Exception /\ Len(m) = 3
    BY <2>1
  <2> QED BY <1>3, <1>6, <2>2, Zenon DEF WholeAnswer, m, table
<1>7. CASE q.addr \in DOMAIN table
  <2> DEFINE n    == DataBytes(f, RegCount)
             head == <<q.slave, f, n>>
             data == Data(table, q)
  <2>1. m = head \o data
    BY <1>1, <1>4, <1>5, <1>7 DEF Reply
  <2>2. n = (IF f \in BitFunctions THEN 1 ELSE 2) /\ n \in Byte /\ f \in Byte
    BY <1>1, DataBytesOfOne DEF Byte
  <2>3. data \in Seq(Byte) /\ Len(data) = n
    BY <1>1, <1>2, <1>7, <2>2, DataOfOne
  <2> HIDE DEF m, data, n, f, w
  <2>4. /\ head \in Seq(Byte) /\ Len(head) = 3
        /\ head[1] = q.slave /\ head[2] = f /\ head[3] = n
    BY <1>1, <2>2
  <2> HIDE DEF head
  <2>5. /\ Len(head \o data) = Len(head) + Len(data)
        /\ \A i \in 1 .. Len(head) + Len(data) :
             (head \o data)[i] = IF i <= Len(head) THEN head[i] ELSE data[i - Len(head)]
    BY <2>3, <2>4, ConcatProperties, Zenon
  <2>6. Len(m) = 3 + n /\ (\A i \in 1 .. 3 + n : i <= 3 => m[i] = head[i])
    BY <2>1, <2>3, <2>4, <2>5
  <2>7. /\ 1 \in 1 .. 3 + n /\ 2 \in 1 .. 3 + n /\ 3 \in 1 .. 3 + n
        /\ 1 <= 3 /\ 2 <= 3 /\ 3 <= 3
    BY <2>2
  <2>8. m[1] = q.slave /\ m[2] = f /\ m[3] = n
    BY <2>4, <2>6, <2>7, Zenon
  <2> QED BY <1>3, <1>7, <2>6, <2>8, Zenon DEF WholeAnswer, m, n, f, w, table
<1> QED BY <1>6, <1>7

\* The bytes of the n-th answer, m, on the line.
CellsOf(a, m, n) ==
  /\ Len(a) = Len(m) + 2
  /\ \A k \in 1 .. Len(a) : a[k].n = n /\ a[k].i = k /\ a[k].of = Len(a)
  /\ \A k \in 1 .. Len(m) : a[k].v = m[k]

LEMMA FrameCells ==
  ASSUME NEW m, NEW crc, NEW n, NEW S, Len(m) \in Nat, Frame(m, crc, n) \in Seq(S)
  PROVE  CellsOf(Frame(m, crc, n), m, n)
<1> DEFINE a == Frame(m, crc, n)
           l == Len(m) + 2
<1>1. l \in Nat /\ 1 .. Len(m) \subseteq 1 .. l
  OBVIOUS
<1>2. a = [k \in 1 .. l |-> [v |-> IF k <= Len(m) THEN m[k] ELSE crc,
                             n |-> n, i |-> k, of |-> l]]
  BY FunctionTypes DEF Frame
<1> HIDE DEF a, l
<1>3. DOMAIN a = 1 .. l
  BY <1>2
<1>4. DOMAIN a = 1 .. Len(a) /\ Len(a) \in Nat
  BY LenProperties DEF a
<1>5. Len(a) = l
  BY <1>1, <1>3, <1>4
<1>6. \A k \in 1 .. l : a[k].n = n /\ a[k].i = k /\ a[k].of = l
  BY <1>2
<1>7. ASSUME NEW k \in 1 .. Len(m) PROVE a[k].v = m[k]
  <2>1. k \in 1 .. l /\ k <= Len(m)
    BY <1>1
  <2> QED BY <1>2, <2>1
<1> QED BY <1>5, <1>6, <1>7 DEF CellsOf, a, l

\* The first bytes of an answer say how long it is.
LEMMA LengthFollows ==
  ASSUME NEW q \in RequestType, NEW addresses, NEW w, NEW m, WholeAnswer(m, q, addresses, w),
         NEW msg \in Seq(Byte), Len(msg) >= 2, msg[2] = m[2]
  PROVE  /\ MetaLength(msg[2]) = 1
         /\ Len(msg) = 3 /\ msg[3] = m[3] => Len(msg) + RestLength(msg) = Len(m) + 2
<1> DEFINE f == q.function
<1>1. f \in 1 .. 4 /\ f \in Functions
  BY FunctionTypes DEF RequestType
<1>2. /\ q.addr \notin addresses => Len(m) = 3 /\ m[2] = f + 128
      /\ q.addr \in addresses => /\ Len(m) = 3 + DataBytes(f, RegCount)
                                 /\ m[2] = f
                                 /\ m[3] = DataBytes(f, RegCount)
  BY FunctionTypes, Zenon DEF WholeAnswer
<1> HIDE DEF f
<1>3. msg[2] \in 1 .. 4 \/ msg[2] \in 129 .. 132
  BY <1>1, <1>2
<1>4. MetaLength(msg[2]) = 1
  BY <1>3 DEF MetaLength
<1>5. ASSUME Len(msg) = 3, msg[3] = m[3]
      PROVE  Len(msg) + RestLength(msg) = Len(m) + 2
  <2>1. CASE q.addr \notin addresses
    <3>1. Len(m) = 3 /\ msg[2] \in 129 .. 132
      BY <1>1, <1>2, <2>1
    <3>2. RestLength(msg) = 2
      BY <3>1, FunctionTypes DEF RestLength, ReadInputRegisters
    <3> QED BY <1>5, <3>1, <3>2
  <2>2. CASE q.addr \in addresses
    <3> DEFINE n == DataBytes(f, RegCount)
    <3>1. n \in 1 .. 2
      BY <1>1, DataBytesOfOne
    <3>2. Len(m) = 3 + n /\ msg[2] \in 1 .. 4 /\ msg[3] = n
      BY <1>1, <1>2, <1>5, <2>2
    <3> HIDE DEF n
    <3>3. RestLength(msg) = 2 + n
      BY <3>2, FunctionTypes DEF RestLength, ReadInputRegisters
    <3> QED BY <1>5, <3>1, <3>2, <3>3
  <2> QED BY <2>1, <2>2
<1> QED BY <1>4, <1>5

SameBytes(msg, m) == Len(msg) = Len(m) /\ \A k \in 1 .. Len(m) : msg[k] = m[k]

\* The two checks let the value of a device through.
LEMMA AnswerConfirmed ==
  ASSUME NEW q \in RequestType, NEW addresses, NEW w, NEW m, WholeAnswer(m, q, addresses, w),
         q.addr \in addresses,
         NEW msg, SameBytes(msg, m)
  PROVE  /\ CheckIntegrity(q.slave, msg, TRUE) # Failed
         /\ CheckConfirmation(q, msg, CheckIntegrity(q.slave, msg, TRUE)) # Failed
<1> DEFINE f == q.function
           n == DataBytes(f, RegCount)
<1>1. /\ f \in 1 .. 4 /\ f \in Functions /\ q.nb = 1 /\ RegCount = 1
      /\ n = IF f \in BitFunctions THEN 1 ELSE 2
  BY FunctionTypes, DataBytesOfOne DEF RequestType
<1>2. m[1] = q.slave /\ m[2] = f /\ m[3] = n /\ Len(m) = 3 + n
  BY Zenon DEF WholeAnswer
<1>3. 1 \in 1 .. Len(m) /\ 2 \in 1 .. Len(m) /\ 3 \in 1 .. Len(m)
  BY <1>1, <1>2
<1>4. msg[1] = q.slave /\ msg[2] = f /\ msg[3] = n /\ Len(msg) = 3 + n
  BY <1>2, <1>3 DEF SameBytes
<1>5. CheckIntegrity(q.slave, msg, TRUE) = 5 + n
  BY <1>1, <1>4, FunctionTypes DEF CheckIntegrity
<1>6. ResponseLength(q) = 5 + n
  BY <1>1, FunctionTypes DEF ResponseLength
<1>7. (IF f \in BitFunctions THEN msg[3] ELSE msg[3] \div 2)
        = IF f \in BitFunctions THEN DataBytes(f, q.nb) ELSE q.nb
  <2>1. CASE f \in BitFunctions
    BY <1>1, <1>4, <2>1
  <2>2. CASE f \notin BitFunctions
    BY <1>1, <1>4, <2>2
  <2> QED BY <2>1, <2>2
<1>8. (IF f \in BitFunctions THEN DataBytes(f, q.nb) ELSE q.nb) = 1
  BY <1>1
<1>9. msg[2] < Exception
  BY <1>1, <1>4, FunctionTypes
<1>10. CheckConfirmation(q, msg, 5 + n) = 1
  BY <1>4, <1>6, <1>7, <1>8, <1>9, Zenon DEF CheckConfirmation
<1>11. n \in 1 .. 2
  BY <1>1
<1> HIDE DEF n
<1>12. 5 + n # Failed /\ 1 # Failed
  BY <1>11, FunctionTypes
<1> QED BY <1>5, <1>10, <1>12, Zenon

\* What the device sends back for the request under way.
Answer(crc) == Frame(Reply(Tables[req.function], req), crc, Len(sent))

\* A call knows which slave it asks and has asked.
InCall == step \in Receiving => req.slave = slave % 256 /\ Len(sent) # 0

\* The effect of a call that reads its answer.
Stored ==
  IF slave = req.slave /\ req.addr \in DOMAIN Tables[req.function]
    THEN Destination(rt'[polled], req)
           = [v |-> Tables[req.function][req.addr], n |-> Len(sent)]
    ELSE UNCHANGED rt

LEMMA AnswerJudged ==
  ASSUME PollingInv, InCall, step = "data", NEW crc,
         Answer(crc) \in Seq(GoodCell(sent)), Judge(Answer(crc))
  PROVE  Stored
<1> DEFINE f      == req.function
           w      == Tables[f][req.addr]
           m      == Reply(Tables[f], req)
           cells  == Answer(crc)
           msg    == WithoutCrc(Values(cells))
           intact == Intact(cells)
           length == CheckIntegrity(slave, msg, intact)
           stores == length # Failed /\ CheckConfirmation(req, msg, length) # Failed
<1>1. IF stores THEN Store(msg, cells[1].n) ELSE UNCHANGED rt
  BY DEF Judge
<1>2. /\ rt \in [Registers -> [bits : GoodBit(sent), value : GoodValue(sent)]]
      /\ sent \in Seq(SentType) /\ slave \in -1 .. 247
      /\ req \in RequestType /\ polled \in Registers
  BY RegistersAssumption DEF PollingInv, Kept, OnTheLine, Scalars, Control, Receiving
<1>3. req.slave = slave % 256 /\ Len(sent) # 0 /\ Len(sent) \in Nat
  BY <1>2, LenProperties DEF InCall, Receiving
<1>4. WholeAnswer(m, req, DOMAIN Tables[f], w)
  BY <1>2, ReplyIsWhole
<1>5. Len(m) \in 3 .. 5 /\ Len(m) \in Nat
  BY <1>4 DEF WholeAnswer, AnswerTo
<1>6. /\ Len(cells) = Len(m) + 2
      /\ \A k \in 1 .. Len(cells) : /\ cells[k].n = Len(sent)
                                    /\ cells[k].i = k
                                    /\ cells[k].of = Len(cells)
      /\ \A k \in 1 .. Len(m) : cells[k].v = m[k]
  <2> HIDE DEF m
  <2>1. cells = Frame(m, crc, Len(sent)) /\ Frame(m, crc, Len(sent)) \in Seq(GoodCell(sent))
    BY DEF Answer, m
  <2> HIDE DEF cells
  <2>2. CellsOf(Frame(m, crc, Len(sent)), m, Len(sent))
    BY <1>5, <2>1, FrameCells, Zenon
  <2> QED BY <2>1, <2>2, Zenon DEF CellsOf
<1> HIDE DEF m, cells
<1>7. cells \in Seq(GoodCell(sent)) /\ DOMAIN cells = 1 .. Len(cells) /\ Len(cells) >= 5
  <2>1. cells \in Seq(GoodCell(sent))
    BY DEF cells
  <2>2. DOMAIN cells = 1 .. Len(cells)
    BY <2>1, LenProperties
  <2> DEFINE l == Len(m)
  <2>3. l \in 3 .. 5 /\ Len(cells) = l + 2
    BY <1>5, <1>6
  <2> HIDE DEF l
  <2>4. Len(cells) >= 5
    BY <2>3
  <2> QED BY <2>1, <2>2, <2>4
<1>8. /\ msg \in Seq(Byte) /\ Len(msg) = Len(cells) - 2
      /\ \A k \in 1 .. Len(cells) - 2 : msg[k] = cells[k].v
  BY <1>2, <1>7, MessageTyped
<1>9. intact = TRUE
  <2>1. 1 \in 1 .. Len(cells)
    BY <1>5, <1>6
  <2>2. Intact(cells)
    BY <1>3, <1>6, <1>7, <2>1 DEF Intact
  <2> QED BY <2>2 DEF Intact
<1> HIDE DEF msg, intact
<1>10. Len(msg) = Len(m) /\ Len(msg) >= 3 /\ SameBytes(msg, m)
  BY <1>5, <1>6, <1>8 DEF SameBytes
<1>11. /\ 1 \in 1 .. Len(m) /\ 2 \in 1 .. Len(m) /\ 3 \in 1 .. Len(m)
       /\ cells[1].n = Len(sent)
  <2>1. 1 \in 1 .. Len(m) /\ 2 \in 1 .. Len(m) /\ 3 \in 1 .. Len(m)
    <3> DEFINE l == Len(m)
    <3>1. l \in 3 .. 5
      BY <1>5
    <3> HIDE DEF l
    <3>2. 1 \in 1 .. l /\ 2 \in 1 .. l /\ 3 \in 1 .. l
      BY <3>1
    <3> QED BY <3>2 DEF l
  <2>2. 1 \in 1 .. Len(cells)
    BY <1>7, LenProperties
  <2> QED BY <1>6, <2>1, <2>2, Zenon
<1>12. CASE slave = req.slave /\ req.addr \in DOMAIN Tables[f]
  <2>1. stores
    <3>1. /\ CheckIntegrity(req.slave, msg, TRUE) # Failed
          /\ CheckConfirmation(req, msg, CheckIntegrity(req.slave, msg, TRUE)) # Failed
      <4>2. req \in RequestType /\ req.addr \in DOMAIN Tables[f]
        BY <1>2, <1>12
      <4> QED BY <1>4, <1>10, <4>2, AnswerConfirmed, Zenon
    <3>2. length = CheckIntegrity(req.slave, msg, TRUE)
      BY <1>9, <1>12, Zenon
    <3> QED BY <3>1, <3>2, Zenon
  <2>2. rt' = IF f \in BitFunctions
                THEN [rt EXCEPT ![polled].bits = [v |-> msg[4] % 2, n |-> Len(sent)]]
                ELSE [rt EXCEPT ![polled].value = [v |-> 256 * msg[4] + msg[5], n |-> Len(sent)]]
    BY <1>1, <1>11, <2>1 DEF Store
  <2>3. f \in Functions /\ Len(m) = 3 + DataBytes(f, RegCount)
    BY <1>2, <1>4, <1>12 DEF WholeAnswer, RequestType
  <2>4. w \in Word /\ (f \in BitFunctions => w \in 0 .. 1)
    BY <1>12, <2>3, TableType
  <2>5. CASE f \in BitFunctions
    <3>1. Len(m) = 4
      BY <2>3, <2>5, DataBytesOfOne
    <3>2. m[4] = w /\ msg[4] = m[4]
      <4>1. 4 \in 1 .. Len(m)
        BY <3>1
      <4> QED BY <1>4, <1>10, <3>1, <4>1, Zenon DEF WholeAnswer, AnswerTo, SameBytes
    <3>3. msg[4] % 2 = w
      BY <2>4, <2>5, <3>2
    <3>4. rt'[polled].bits = [v |-> w, n |-> Len(sent)]
      BY <1>2, <2>2, <2>5, <3>3
    <3> QED BY <1>12, <2>5, <3>4 DEF Stored, Destination
  <2>6. CASE f \notin BitFunctions
    <3>1. Len(m) = 5
      BY <2>3, <2>6, DataBytesOfOne
    <3>2. m[4] = w \div 256 /\ m[5] = w % 256 /\ msg[4] = m[4] /\ msg[5] = m[5]
      <4>1. 4 \in 1 .. Len(m) /\ 5 \in 1 .. Len(m)
        BY <3>1
      <4> QED BY <1>4, <1>10, <3>1, <4>1, Zenon DEF WholeAnswer, AnswerTo, SameBytes
    <3> HIDE DEF w
    <3>3. 256 * msg[4] + msg[5] = w
      BY <2>4, <3>2, WordParts
    <3>4. rt'[polled].value = [v |-> w, n |-> Len(sent)]
      BY <1>2, <2>2, <2>6, <3>3
    <3> QED BY <1>12, <2>6, <3>4 DEF Stored, Destination, w
  <2> QED BY <2>5, <2>6
<1>13. CASE ~(slave = req.slave /\ req.addr \in DOMAIN Tables[f])
  <2>1. CASE ~stores
    BY <1>1, <1>13, <2>1 DEF Stored
  <2>2. CASE stores
    <3>1. /\ ~(slave = Unset /\ req.slave = 255)
          /\ intact
          /\ msg[2] = req.function
          /\ Len(msg) + 2 = 5 + DataBytes(req.function, RegCount)
      <4>1. /\ CheckIntegrity(slave, msg, intact) # Failed
            /\ CheckConfirmation(req, msg, CheckIntegrity(slave, msg, intact)) # Failed
        BY <2>2, Zenon
      <4>2. intact \in BOOLEAN /\ Len(msg) >= 3 /\ msg \in Seq(Byte)
        BY <1>8, <1>9, <1>10
      <4>3. slave \in -1 .. 247 /\ req \in RequestType
        BY <1>2
      <4> QED BY <4>1, <4>2, <4>3, ConfirmedAnswer, Zenon
    <3>2. slave = req.slave
      <4>1. ~(slave = -1 /\ req.slave = 255)
        BY <3>1, FunctionTypes, Zenon
      <4>2. slave \in -1 .. 247
        BY <1>2
      <4>3. /\ slave = -1 => slave % 256 = 255
            /\ slave # -1 => slave % 256 = slave
        BY <4>2
      <4> QED BY <1>3, <4>1, <4>3, Zenon
    <3>3. req.addr \notin DOMAIN Tables[f]
      BY <1>13, <3>2
    <3>4. m[2] = f + Exception /\ msg[2] = m[2]
      BY <1>4, <1>10, <1>11, <3>3 DEF WholeAnswer, SameBytes
    <3>5. f \in 1 .. 4
      BY <1>2, FunctionTypes DEF RequestType
    <3> QED BY <3>1, <3>4, <3>5, FunctionTypes
  <2> QED BY <2>1, <2>2
<1> QED BY <1>12, <1>13

\* Nothing is on the line in either direction.
Silent == requests = <<>> /\ transit = <<>> /\ line = <<>>

\* The request is on its way, or nobody answers it.
Asked ==
  /\ step = "function"
  /\ buf = <<>> /\ transit = <<>> /\ line = <<>>
  /\ requests \in {<<>>, <<[n |-> Len(sent), req |-> req]>>}

\* The bytes read, those that wait and those on their way are the answer, and
\* what the call still wants of it is what there is.
Answered(crc) ==
  /\ requests = <<>>
  /\ buf \o (line \o transit) = Answer(crc)
  /\ step = "meta" => Len(buf) + need = 3
  /\ step = "data" => Len(buf) + need = Len(Answer(crc))

Undisturbed ==
  ~timedOut /\ faults = 0 =>
    IF step \in Receiving
      THEN Asked \/ \E crc \in CrcBytes : Answered(crc)
      ELSE Silent

\* The first k bytes of b go over to a.
SameInAll(a, b, c, k) ==
  (a \o SubSeq(b, 1, k)) \o (SubSeq(b, k + 1, Len(b)) \o c) = a \o (b \o c)

LEMMA MovedBytes ==
  ASSUME NEW S, NEW a \in Seq(S), NEW b \in Seq(S), NEW c \in Seq(S), NEW k \in 0 .. Len(b)
  PROVE  SameInAll(a, b, c, k)
<1> DEFINE p == SubSeq(b, 1, k)
           r == SubSeq(b, k + 1, Len(b))
<1>1. Len(b) \in Nat /\ k \in Nat
  BY LenProperties
<1>2. p \in Seq(S) /\ r \in Seq(S)
  BY <1>1, Part
<1>3. p \o r = b
  <2>1. 1 \in 1 .. Len(b) + 1 /\ k \in 1 - 1 .. Len(b) /\ Len(b) \in k .. Len(b)
    BY <1>1
  <2>2. p \o r = SubSeq(b, 1, Len(b))
    BY <2>1, ConcatAdjacentSubSeq
  <2> QED BY <2>2, SubSeqFull
<1> HIDE DEF p, r
<1>4. r \o c \in Seq(S)
  BY <1>2, ConcatProperties
<1>a. \A x, y, z \in Seq(S) : (x \o y) \o z = x \o (y \o z)
  <2> TAKE x, y, z \in Seq(S)
  <2> QED BY SMT
<1>5. (a \o p) \o (r \o c) = a \o (p \o (r \o c))
  BY <1>2, <1>4, <1>a, Zenon
<1>6. (p \o r) \o c = p \o (r \o c)
  BY <1>2, <1>a, Zenon
<1> QED BY <1>3, <1>5, <1>6 DEF SameInAll, p, r

\* The beginning of a sequence.
LEMMA Beginning ==
  ASSUME NEW S, NEW a \in Seq(S), NEW b \in Seq(S)
  PROVE  /\ a \o b \in Seq(S)
         /\ Len(a \o b) = Len(a) + Len(b)
         /\ Len(a) \in Nat /\ Len(b) \in Nat
         /\ \A j \in 1 .. Len(a) : (a \o b)[j] = a[j]
         /\ Len(a) = Len(a \o b) => b = <<>> /\ a \o b = a
<1>1. Len(a) \in Nat /\ Len(b) \in Nat
  BY LenProperties
<1>2. /\ a \o b \in Seq(S)
      /\ Len(a \o b) = Len(a) + Len(b)
      /\ \A j \in 1 .. Len(a) + Len(b) :
           (a \o b)[j] = IF j <= Len(a) THEN a[j] ELSE b[j - Len(a)]
  BY ConcatProperties, Zenon
<1>3. ASSUME NEW j \in 1 .. Len(a) PROVE (a \o b)[j] = a[j]
  <2>1. j \in 1 .. Len(a) + Len(b) /\ j <= Len(a)
    BY <1>1
  <2> QED BY <1>2, <2>1
<1>4. ASSUME Len(a) = Len(a \o b) PROVE b = <<>> /\ a \o b = a
  <2>1. Len(b) = 0
    BY <1>1, <1>2, <1>4
  <2>2. b = <<>>
    BY <2>1, EmptySeq
  <2> QED BY <2>2, ConcatEmptySeq
<1> QED BY <1>1, <1>2, <1>3, <1>4

\* The message read so far, if it is the beginning of an answer.
LEMMA AnswerBegins ==
  ASSUME PollingInv, req \in RequestType, NEW crc,
         NEW cells \in Seq(GoodCell(sent)), NEW rest \in Seq(GoodCell(sent)),
         cells \o rest = Answer(crc)
  PROVE  LET m   == Reply(Tables[req.function], req)
             msg == Values(cells)
         IN /\ WholeAnswer(m, req, DOMAIN Tables[req.function],
                           Tables[req.function][req.addr])
            /\ Len(Answer(crc)) = Len(m) + 2
            /\ Len(m) \in 3 .. 5
            /\ msg \in Seq(Byte) /\ Len(msg) = Len(cells)
            /\ Len(cells) \in {2, 3} => msg[2] = m[2]
            /\ Len(cells) = 3 => msg[3] = m[3]
<1> DEFINE m   == Reply(Tables[req.function], req)
           msg == Values(cells)
           a   == Answer(crc)
<1>1. WholeAnswer(m, req, DOMAIN Tables[req.function], Tables[req.function][req.addr])
  BY ReplyIsWhole
<1> HIDE DEF m
<1>2. Len(m) \in 3 .. 5 /\ Len(m) \in Nat
  BY <1>1 DEF WholeAnswer, AnswerTo
<1>3. /\ a \in Seq(GoodCell(sent))
      /\ \A j \in 1 .. Len(cells) : a[j] = cells[j]
  <2>1. a = cells \o rest
    OBVIOUS
  <2> HIDE DEF a
  <2>2. /\ cells \o rest \in Seq(GoodCell(sent))
        /\ \A j \in 1 .. Len(cells) : (cells \o rest)[j] = cells[j]
    BY Beginning
  <2> QED BY <2>1, <2>2, Zenon
<1>4. Len(a) = Len(m) + 2 /\ \A k \in 1 .. Len(m) : a[k].v = m[k]
  <2>1. a = Frame(m, crc, Len(sent))
    BY DEF Answer, m
  <2> HIDE DEF a
  <2>2. Len(m) \in Nat /\ Frame(m, crc, Len(sent)) \in Seq(GoodCell(sent))
    BY <1>2, <1>3, <2>1
  <2>3. CellsOf(Frame(m, crc, Len(sent)), m, Len(sent))
    BY <2>2, FrameCells, Zenon
  <2> QED BY <2>1, <2>3, Zenon DEF CellsOf
<1> HIDE DEF a
<1>5. sent \in Seq(SentType)
  BY DEF PollingInv, OnTheLine
<1>6. /\ msg \in Seq(Byte) /\ Len(msg) = Len(cells)
      /\ \A k \in 1 .. Len(cells) : msg[k] = cells[k].v
  BY <1>5, ValuesTyped
<1> HIDE DEF msg
<1>7. 2 \in 1 .. Len(m) /\ 3 \in 1 .. Len(m)
  <2> DEFINE l == Len(m)
  <2>1. l \in 3 .. 5
    BY <1>2
  <2> HIDE DEF l
  <2>2. 2 \in 1 .. l /\ 3 \in 1 .. l
    BY <2>1
  <2> QED BY <2>2 DEF l
<1>8. ASSUME Len(cells) \in {2, 3} PROVE msg[2] = m[2]
  <2> DEFINE l == Len(cells)
  <2>1. l \in {2, 3}
    BY <1>8
  <2> HIDE DEF l
  <2>2. 2 \in 1 .. l
    BY <2>1
  <2>3. msg[2] = cells[2].v /\ a[2] = cells[2]
    BY <1>3, <1>6, <2>2, Zenon DEF l
  <2>4. a[2].v = m[2]
    BY <1>4, <1>7, Zenon
  <2> QED BY <2>3, <2>4, Zenon
<1>9. ASSUME Len(cells) = 3 PROVE msg[3] = m[3]
  <2>1. 3 \in 1 .. Len(cells)
    BY <1>9
  <2>2. msg[3] = cells[3].v /\ a[3] = cells[3]
    BY <1>3, <1>6, <2>1, Zenon
  <2>3. a[3].v = m[3]
    BY <1>4, <1>7, Zenon
  <2> QED BY <2>2, <2>3, Zenon
<1> QED BY <1>1, <1>2, <1>4, <1>6, <1>8, <1>9 DEF m, msg, a

\* Reading an answer to its last byte, and what it leaves.
LEMMA ReceiveAnswer ==
  ASSUME PollingInv, InCall, Receive, NEW crc \in CrcBytes, Answered(crc)
  PROVE  IF step' \in Receiving THEN Answered(crc)' ELSE Silent' /\ Stored
<1> DEFINE k     == IF need < Len(line) THEN need ELSE Len(line)
           part  == SubSeq(line, 1, k)
           cells == buf \o part
           rest  == SubSeq(line, k + 1, Len(line)) \o transit
           a     == Answer(crc)
           m     == Reply(Tables[req.function], req)
<1>1. /\ step \in Receiving
      /\ line' = SubSeq(line, k + 1, Len(line))
      /\ IF k = need THEN AdvanceStep(cells) ELSE ReadOn(cells, step, need - k)
      /\ UNCHANGED <<port, slave, req, requests, transit, countVars>>
  BY DEF Receive
<1>2. /\ buf \in Seq(GoodCell(sent)) /\ line \in Seq(GoodCell(sent))
      /\ transit \in Seq(GoodCell(sent))
      /\ sent \in Seq(SentType) /\ need \in 0 .. 256 /\ req \in RequestType
  BY <1>1, FunctionTypes DEF PollingInv, OnTheLine, Position, Control
<1>3. Len(buf) \in Nat /\ Len(line) \in Nat
  BY <1>2, LenProperties
<1>4. k \in Nat /\ k <= Len(line) /\ k <= need /\ k \in 0 .. Len(line)
  BY <1>2, <1>3
<1> HIDE DEF k
<1>5. /\ part \in Seq(GoodCell(sent)) /\ Len(part) = k
      /\ SubSeq(line, k + 1, Len(line)) \in Seq(GoodCell(sent))
  BY <1>2, <1>3, <1>4, Part
<1>6. cells \o rest = a
  <2>1. cells \o rest = buf \o (line \o transit)
    <3> DEFINE good == GoodCell(sent)
    <3>1. /\ buf \in Seq(good) /\ line \in Seq(good) /\ transit \in Seq(good)
          /\ k \in 0 .. Len(line)
      BY <1>2, <1>4
    <3> HIDE DEF good
    <3>2. SameInAll(buf, line, transit, k)
      BY <3>1, MovedBytes, Zenon
    <3> QED BY <3>2 DEF SameInAll
  <2> QED BY <2>1 DEF Answered
<1>7. rest \in Seq(GoodCell(sent)) /\ line' \o transit' = rest
  BY <1>1, <1>2, <1>5, ConcatProperties
<1> HIDE DEF part
<1>8. cells \in Seq(GoodCell(sent)) /\ Len(cells) = Len(buf) + k
  BY <1>2, <1>5, ConcatProperties
<1> HIDE DEF cells, rest, a
<1>9. a' = a /\ requests' = <<>>
  BY <1>1 DEF a, Answer, countVars, Answered
<1> DEFINE msg == Values(cells)
<1>10. /\ WholeAnswer(m, req, DOMAIN Tables[req.function], Tables[req.function][req.addr])
       /\ Len(a) = Len(m) + 2
       /\ Len(m) \in 3 .. 5
       /\ msg \in Seq(Byte) /\ Len(msg) = Len(cells)
       /\ Len(cells) \in {2, 3} => msg[2] = m[2]
       /\ Len(cells) = 3 => msg[3] = m[3]
  BY <1>2, <1>6, <1>7, <1>8, AnswerBegins DEF a
<1> HIDE DEF m, msg
<1>11. /\ step = "function" => Len(buf) + need = 2
       /\ step = "meta" => Len(buf) + need = 3
       /\ step = "data" => Len(buf) + need = Len(a)
  BY DEF PollingInv, Position, Answered, a
<1>12. ASSUME NEW next, NEW n, ReadOn(cells, next, n), next \in Receiving,
              next = "meta" => Len(cells) + n = 3,
              next = "data" => Len(cells) + n = Len(a)
       PROVE  step' \in Receiving /\ Answered(crc)'
  <2>1. buf' = cells /\ step' = next /\ need' = n
    BY <1>12 DEF ReadOn
  <2>2. buf' \o (line' \o transit') = Answer(crc)'
    BY <1>6, <1>7, <1>9, <2>1 DEF a
  <2>3. /\ step' = "meta" => Len(buf') + need' = 3
        /\ step' = "data" => Len(buf') + need' = Len(Answer(crc)')
    BY <1>9, <1>12, <2>1 DEF a
  <2> QED BY <1>9, <1>12, <2>1, <2>2, <2>3 DEF Answered
<1>13. CASE k # need
  <2>1. ReadOn(cells, step, need - k)
    BY <1>1, <1>13
  <2>2. Len(cells) + (need - k) = Len(buf) + need
    BY <1>2, <1>3, <1>4, <1>8
  <2> QED BY <1>1, <1>11, <1>12, <2>1, <2>2
<1>14. CASE k = need
  <2>1. AdvanceStep(cells)
    BY <1>1, <1>14
  <2>2. /\ step = "function" => Len(cells) = 2
        /\ step = "meta" => Len(cells) = 3
        /\ step = "data" => Len(cells) = Len(a)
    BY <1>8, <1>11, <1>14
  <2>3. CASE step = "function"
    <3>1. ReadOn(cells, "meta", MetaLength(msg[2]))
      BY <2>1, <2>3 DEF AdvanceStep, msg
    <3>2. Len(msg) >= 2 /\ msg[2] = m[2] /\ Len(cells) = 2
      BY <1>10, <2>2, <2>3
    <3>3. MetaLength(msg[2]) = 1
      BY <1>2, <1>10, <3>2, LengthFollows
    <3>4. Len(cells) + MetaLength(msg[2]) = 3
      BY <3>2, <3>3
    <3>5. "meta" \in Receiving /\ "meta" # "data"
      BY DEF Receiving
    <3> QED BY <1>12, <3>1, <3>4, <3>5
  <2>4. CASE step = "meta"
    <3>1. IF Len(msg) + RestLength(msg) > MaxAdu
            THEN EndCall /\ UNCHANGED rt ELSE ReadOn(cells, "data", RestLength(msg))
      BY <2>1, <2>4 DEF AdvanceStep, msg
    <3>a. Len(cells) = 3 /\ Len(cells) \in {2, 3}
      BY <2>2, <2>4
    <3>b. Len(msg) = 3 /\ msg[2] = m[2] /\ msg[3] = m[3] /\ msg \in Seq(Byte)
      BY <1>10, <3>a, Zenon
    <3>c. Len(msg) >= 2
      BY <3>b
    <3>2. Len(msg) >= 2 /\ Len(msg) = 3 /\ msg[2] = m[2] /\ msg[3] = m[3] /\ Len(cells) = 3
      BY <3>a, <3>b, <3>c
    <3>3. Len(msg) + RestLength(msg) = Len(m) + 2
      <4>1. /\ MetaLength(msg[2]) = 1
            /\ Len(msg) = 3 /\ msg[3] = m[3] => Len(msg) + RestLength(msg) = Len(m) + 2
        <5>1. WholeAnswer(m, req, DOMAIN Tables[req.function], Tables[req.function][req.addr])
          BY <1>10
        <5>2. req \in RequestType /\ msg \in Seq(Byte) /\ msg[2] = m[2]
          BY <1>2, <3>b
        <5> QED BY <3>c, <5>1, <5>2, LengthFollows
      <4> QED BY <3>b, <4>1, Zenon
    <3>4. Len(cells) + RestLength(msg) = Len(a)
      BY <1>10, <3>3, Zenon
    <3>5. ~(Len(msg) + RestLength(msg) > MaxAdu)
      <4> DEFINE l == Len(m)
      <4>1. l \in 3 .. 5
        BY <1>10
      <4> HIDE DEF l
      <4>2. ~(l + 2 > MaxAdu)
        BY <4>1, FunctionTypes
      <4> QED BY <3>3, <4>2, Zenon DEF l
    <3>6. ReadOn(cells, "data", RestLength(msg))
      BY <3>1, <3>5
    <3>7. "data" \in Receiving /\ "data" # "meta"
      BY DEF Receiving
    <3> QED BY <1>12, <3>4, <3>6, <3>7
  <2>5. CASE step = "data"
    <3>1. Judge(cells)
      BY <2>1, <2>5 DEF AdvanceStep
    <3>2. rest = <<>> /\ cells = a
      <4> DEFINE good == GoodCell(sent)
      <4>1. cells \in Seq(good) /\ rest \in Seq(good)
        BY <1>7, <1>8
      <4> HIDE DEF good
      <4>2. Len(cells) = Len(cells \o rest)
        BY <1>6, <2>2, <2>5, Zenon
      <4>3. rest = <<>> /\ cells \o rest = cells
        BY <4>1, <4>2, Beginning
      <4> QED BY <1>6, <4>3, Zenon
    <3>3. line' = <<>> /\ transit' = <<>>
      BY <1>1, <1>2, <1>5, <1>7, <3>2, ConcatEqualIffEmpty
    <3>4. step' \notin Receiving
      BY <3>1 DEF Judge, EndCall, Receiving
    <3>5. Stored
      <4>1. Answer(crc) \in Seq(GoodCell(sent)) /\ Judge(Answer(crc))
        BY <1>8, <3>1, <3>2 DEF a
      <4> QED BY <2>5, <4>1, AnswerJudged
    <3> QED BY <1>9, <3>3, <3>4, <3>5 DEF Silent
  <2> QED BY <1>1, <2>3, <2>4, <2>5 DEF Receiving
<1> QED BY <1>13, <1>14

CallInv == InCall /\ Undisturbed

LEMMA InitCall == Init => CallInv
  BY DEF Init, CallInv, InCall, Undisturbed, Silent, Receiving

\* Steps between calls.
LEMMA IdleStep ==
  ASSUME CallInv, step \notin Receiving, step' \notin Receiving,
         UNCHANGED <<lineVars, timedOut, faults>>
  PROVE  CallInv'
  BY DEF CallInv, InCall, Undisturbed, Silent, lineVars

LEMMA SendRequestCall ==
  ASSUME PollingInv, CallInv, SendRequest
  PROVE  CallInv'
<1> DEFINE e == [reg |-> polled, function |-> req'.function, addr |-> req'.addr]
           r == [n |-> Len(sent'), req |-> req']
<1>1. /\ step = "send" /\ step \notin Receiving
      /\ step' = "function" /\ step' \in Receiving /\ step' # "meta" /\ step' # "data"
  BY DEF SendRequest, Receiving
<1>2. /\ req' = Request(slave, Head(todo), RegAddress[polled], RegCount)
      /\ sent' = Append(sent, e)
      /\ requests' = Append(requests, r)
      /\ UNCHANGED <<slave, buf, transit, line, timedOut, faults>>
  BY DEF SendRequest
<1> HIDE DEF e, r
<1>3. req'.slave = slave' % 256
  BY <1>2 DEF Request
<1>4. sent \in Seq(SentType) /\ buf = <<>>
  BY <1>1 DEF PollingInv, OnTheLine, Position
<1>5. Len(sent') # 0
  <2>1. Len(sent) \in Nat /\ Len(Append(sent, e)) = Len(sent) + 1
    BY <1>4, LenProperties
  <2> QED BY <1>2, <2>1
<1>6. ASSUME ~timedOut', faults' = 0 PROVE Asked'
  <2>1. Silent
    BY <1>1, <1>2, <1>6 DEF CallInv, Undisturbed
  <2>2. requests' = <<r>>
    BY <1>2, <2>1 DEF Silent
  <2> QED BY <1>1, <1>2, <1>4, <2>1, <2>2 DEF Silent, Asked, r
<1> QED BY <1>1, <1>3, <1>5, <1>6 DEF CallInv, InCall, Undisturbed

LEMMA DeviceRepliesCall ==
  ASSUME PollingInv, CallInv, DeviceReplies
  PROVE  CallInv'
<1> DEFINE r == Head(requests)
<1>1. requests # <<>> /\ requests' = Tail(requests)
      /\ UNCHANGED <<contextVars, line, countVars>>
  BY DEF DeviceReplies
<1>2. UNCHANGED <<slave, step, req, buf, need, sent, timedOut, faults>>
  BY <1>1 DEF contextVars, countVars
<1>3. InCall'
  BY <1>2 DEF CallInv, InCall
<1>4. ASSUME ~timedOut, faults = 0
      PROVE  step \in Receiving /\ (Asked' \/ \E crc \in CrcBytes : Answered(crc)')
  <2>1. step \in Receiving /\ Asked
    BY <1>1, <1>4 DEF CallInv, Undisturbed, Silent, Answered
  <2>2. /\ requests = <<[n |-> Len(sent), req |-> req]>>
        /\ step = "function" /\ buf = <<>> /\ transit = <<>> /\ line = <<>>
    BY <1>1, <2>1 DEF Asked
  <2>3. r.n = Len(sent) /\ r.req = req /\ requests' = <<>>
    BY <1>1, <2>2
  <2>4. r \in GoodRequest(sent) /\ sent \in Seq(SentType)
    BY <1>1, HeadTailProperties DEF PollingInv, OnTheLine
  <2> HIDE DEF r
  <2>5. CASE r.req.slave \in Devices
    <3>1. PICK crc \in CrcBytes :
            transit' = transit \o Frame(Reply(Tables[r.req.function], r.req), crc, r.n)
      BY <2>5 DEF DeviceReplies, r
    <3>2. Frame(Reply(Tables[r.req.function], r.req), crc, r.n) = Answer(crc)
      BY <2>3 DEF Answer
    <3>3. Answer(crc) \in Seq(GoodCell(sent))
      BY <2>4, <3>2, FrameIsGood
    <3>4. transit' = Answer(crc)
      BY <2>2, <3>1, <3>2, <3>3, ConcatEmptySeq
    <3>5. buf' \o (line' \o transit') = Answer(crc)
      BY <1>1, <1>2, <2>2, <3>3, <3>4, ConcatEmptySeq
    <3>6. Answer(crc)' = Answer(crc)
      BY <1>2 DEF Answer
    <3>7. Answered(crc)'
      BY <1>2, <2>2, <2>3, <3>5, <3>6 DEF Answered
    <3> QED BY <2>1, <3>7
  <2>6. CASE r.req.slave \notin Devices
    <3>1. transit' = transit
      BY <2>6 DEF DeviceReplies, r
    <3>2. Asked'
      BY <1>1, <1>2, <2>2, <2>3, <3>1 DEF Asked
    <3> QED BY <2>1, <3>2
  <2> QED BY <2>5, <2>6
<1> QED BY <1>2, <1>3, <1>4 DEF CallInv, Undisturbed

LEMMA ArriveCall ==
  ASSUME PollingInv, CallInv, NEW k \in 1 .. Len(transit), Arrive(k)
  PROVE  CallInv'
<1>1. UNCHANGED <<slave, step, req, buf, need, requests, sent, timedOut, faults>>
  BY DEF Arrive, contextVars
<1>2. InCall'
  BY <1>1 DEF CallInv, InCall
<1>3. ASSUME ~timedOut, faults = 0
      PROVE  step \in Receiving /\ \E crc \in CrcBytes : Answered(crc)'
  <2>1. transit # <<>>
    OBVIOUS
  <2>2. step \in Receiving
    BY <1>3, <2>1 DEF CallInv, Undisturbed, Silent
  <2>3. PICK crc \in CrcBytes : Answered(crc)
    BY <1>3, <2>1 DEF CallInv, Undisturbed, Silent, Asked
  <2> DEFINE good == GoodCell(sent)
  <2>4. /\ line \in Seq(good) /\ transit \in Seq(good)
    BY DEF PollingInv, OnTheLine
  <2> HIDE DEF good
  <2>5. k \in 0 .. Len(transit) /\ k \in Nat /\ k <= Len(transit) /\ Len(transit) \in Nat
    BY <2>4, LenProperties
  <2>6. <<>> \in Seq(good)
    OBVIOUS
  <2>7. SameInAll(line, transit, <<>>, k)
    BY <2>4, <2>5, <2>6, MovedBytes, Zenon
  <2>8. /\ line' = line \o SubSeq(transit, 1, k)
        /\ transit' = SubSeq(transit, k + 1, Len(transit))
    BY DEF Arrive
  <2>9. transit' \in Seq(good)
    BY <2>4, <2>5, <2>8, Part
  <2>10. line' \o transit' = line \o transit
    <3>1. transit' \o <<>> = transit' /\ transit \o <<>> = transit
      BY <2>4, <2>9, ConcatEmptySeq
    <3>2. line' \o (transit' \o <<>>) = line \o (transit \o <<>>)
      BY <2>7, <2>8 DEF SameInAll
    <3> QED BY <3>1, <3>2
  <2>11. Answer(crc)' = Answer(crc)
    BY <1>1 DEF Answer
  <2>12. Answered(crc)'
    BY <1>1, <2>3, <2>10, <2>11 DEF Answered
  <2> QED BY <2>2, <2>12
<1> QED BY <1>1, <1>2, <1>3 DEF CallInv, Undisturbed

\* After a fault or a time-out nothing is claimed of the line.
LEMMA FaultsCall ==
  ASSUME PollingInv, CallInv,
         \/ LoseRequest
         \/ \E k \in 1 .. Len(transit) : LoseByte(k) \/ \E v \in NoiseBytes : GarbleByte(k, v)
  PROVE  CallInv'
<1>1. Fault /\ UNCHANGED <<contextVars, sent>>
  BY DEF LoseRequest, LoseByte, GarbleByte
<1>2. faults' # 0
  BY <1>1 DEF Fault, PollingInv, Scalars
<1> QED BY <1>1, <1>2 DEF CallInv, InCall, Undisturbed, contextVars

\* Reading on, and the last step of a call.
LEMMA ReceiveCall ==
  ASSUME PollingInv, CallInv, Receive
  PROVE  /\ CallInv'
         /\ ~timedOut /\ faults = 0 /\ step' \notin Receiving => Stored
<1>1. /\ step \in Receiving /\ line # <<>>
      /\ UNCHANGED <<slave, req, sent, timedOut, faults>>
  BY DEF Receive, countVars
<1>2. InCall'
  BY <1>1 DEF CallInv, InCall
<1>3. ASSUME ~timedOut, faults = 0
      PROVE  IF step' \in Receiving
               THEN \E crc \in CrcBytes : Answered(crc)' ELSE Silent' /\ Stored
  <2>1. PICK crc \in CrcBytes : Answered(crc)
    BY <1>1, <1>3 DEF CallInv, Undisturbed, Asked
  <2> QED BY <2>1, ReceiveAnswer DEF CallInv
<1> QED BY <1>1, <1>2, <1>3 DEF CallInv, Undisturbed

LEMMA CallHolds == PollingInv /\ CallInv /\ [Next]_vars => CallInv'
<1> SUFFICES ASSUME PollingInv, CallInv, [Next]_vars PROVE CallInv'
  OBVIOUS
<1>1. Control
  BY DEF PollingInv
<1>2. ASSUME NEW s \in Slaves, SetSlave(s) PROVE CallInv'
  <2>1. step = "idle" /\ step' = step
    BY <1>1, <1>2 DEF Control, SetSlave
  <2> QED BY <1>2, <2>1, IdleStep DEF SetSlave, countVars, Receiving
<1>3. ASSUME NEW r \in Registers, StartPoll(r) PROVE CallInv'
  <2>1. step = "idle" /\ step' = "send"
    BY <1>1, <1>3 DEF Control, StartPoll
  <2> QED BY <1>3, <2>1, IdleStep DEF StartPoll, Receiving
<1>4. CASE CallFails
  <2>1. step = "send" /\ step' \in {"idle", "send"}
    BY <1>4 DEF CallFails, EndCall
  <2> QED BY <1>4, <2>1, IdleStep DEF CallFails, countVars, Receiving
<1>5. CASE Timeout
  <2>1. timedOut' /\ step' \notin Receiving
    BY <1>5 DEF Timeout, EndCall, Receiving
  <2> QED BY <2>1 DEF CallInv, InCall, Undisturbed
<1>6. CASE SendRequest \/ Receive
  BY <1>6, SendRequestCall, ReceiveCall
<1>7. CASE Line
  <2>1. CASE DeviceReplies
    BY <2>1, DeviceRepliesCall
  <2>2. ASSUME NEW k \in 1 .. Len(transit), Arrive(k) PROVE CallInv'
    BY <2>2, ArriveCall
  <2>3. CASE \/ LoseRequest
             \/ \E k \in 1 .. Len(transit) :
                  LoseByte(k) \/ \E v \in NoiseBytes : GarbleByte(k, v)
    BY <2>3, FaultsCall
  <2> QED BY <1>7, <2>1, <2>2, <2>3 DEF Line
<1>8. CASE UNCHANGED vars
  <2> USE <1>8 DEF vars, contextVars, lineVars, countVars
  <2>1. InCall'
    BY DEF CallInv, InCall
  <2>2. Undisturbed'
    BY DEF CallInv, Undisturbed, Silent, Asked, Answered, Answer
  <2> QED BY <2>1, <2>2 DEF CallInv
<1> QED BY <1>2, <1>3, <1>4, <1>5, <1>6, <1>7, <1>8 DEF Next, Gateway

\* Only Receive and Timeout end a call.
LEMMA CallReads ==
  ASSUME PollingInv, CallInv, [Next]_vars,
         ~timedOut', faults = 0, step \in Receiving, step' \notin Receiving
  PROVE  Stored
<1>1. Control /\ step # "idle" /\ step # "send" /\ step' # step
  BY DEF PollingInv, Receiving
<1>2. CASE Receive
  <2>1. ~timedOut
    BY <1>2 DEF Receive, countVars
  <2> QED BY <1>2, <2>1, ReceiveCall
<1>3. ASSUME NEW s \in Slaves, SetSlave(s) PROVE FALSE
  BY <1>1, <1>3 DEF SetSlave
<1>4. ASSUME NEW r \in Registers, StartPoll(r) PROVE FALSE
  BY <1>1, <1>4 DEF StartPoll, Control
<1>5. CASE CallFails \/ SendRequest \/ Timeout
  BY <1>1, <1>5 DEF CallFails, SendRequest, Timeout
<1>6. CASE Line
  BY <1>1, <1>6 DEF Line, DeviceReplies, Arrive, LoseRequest, LoseByte, GarbleByte, contextVars
<1>7. CASE UNCHANGED vars
  BY <1>1, <1>7 DEF vars, contextVars
<1> QED BY <1>2, <1>3, <1>4, <1>5, <1>6, <1>7 DEF Next, Gateway

(***************************************************************************)
(* On a quiet line, with any registers, tables and devices and whatever    *)
(* pieces the answers arrive in, a call that does not time out reads the   *)
(* answer to its own request to the last byte: it stores what the device   *)
(* holds, or nothing if the device has no such register or the slave       *)
(* number is not set.                                                      *)
(***************************************************************************)
THEOREM UndisturbedReads == Spec => UndisturbedCallReads
<1>1. Init => PollingInv /\ CallInv
  BY InitIsGood, InitCall
<1>2. PollingInv /\ CallInv /\ [Next]_vars => (PollingInv /\ CallInv)'
  BY NextKeeps, CallHolds
<1>3. ASSUME PollingInv, CallInv, [Next]_vars
      PROVE  [~timedOut' /\ faults = 0 /\ step \in Receiving /\ step' \notin Receiving =>
                IF slave = req.slave /\ req.addr \in DOMAIN Tables[req.function]
                  THEN Destination(rt'[polled], req)
                         = [v |-> Tables[req.function][req.addr], n |-> Len(sent)]
                  ELSE UNCHANGED rt]_vars
  BY <1>3, CallReads DEF Stored
<1> QED BY <1>1, <1>2, <1>3, PTL DEF Spec, UndisturbedCallReads
=============================================================================

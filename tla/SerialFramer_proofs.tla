------------------------ MODULE SerialFramer_proofs ------------------------
(***************************************************************************)
(* Proofs about the serial receive path, for any number of bytes, any      *)
(* burst and any buffer that holds a burst and its terminator.             *)
(***************************************************************************)
EXTENDS SerialFramer, FunctionTheorems, SequenceTheorems, TLAPS

(***************************************************************************)
(* Who may touch what.  BufferOwned is not inductive: it needs that the    *)
(* callback does not run while the timer is armed, and that a flag of -1   *)
(* really means an idle timer whenever the UART thread is about to rely    *)
(* on it.                                                                  *)
(***************************************************************************)
Control ==
  /\ uartPc \in UartPcs
  /\ serial_timer_state \in {-1, 1}
  /\ armed \in BOOLEAN
  /\ cbPc \in CbPcs

CallbackDisarms == armed => cbPc = "idle"

FlagTellsIdle ==
  uartPc = "select" /\ serial_timer_state = -1 => ~armed /\ cbPc = "idle"

Ownership == Control /\ BufferOwned /\ CallbackDisarms /\ FlagTellsIdle

\* The tasks keep to their share of the buffer, step by step.
LEMMA OwnershipStep == Ownership /\ [Next]_vars => Ownership'
<1> SUFFICES ASSUME Ownership, [Next]_vars
             PROVE  Ownership'
  OBVIOUS
<1> USE DEF Ownership, Control, BufferOwned, CallbackDisarms, FlagTellsIdle,
            UartPcs, CbPcs
<1>1. CASE ReadByte
  BY <1>1 DEF ReadByte
<1>2. CASE AppendByte
  BY <1>2 DEF AppendByte
<1>3. CASE StopTimer
  BY <1>3 DEF StopTimer, Restart
<1>4. CASE StartTimer
  BY <1>4 DEF StartTimer, Restart
<1>5. CASE MarkTimer
  BY <1>5 DEF MarkTimer
<1>6. CASE TimerFires
  BY <1>6 DEF TimerFires
<1>7. CASE Terminate
  BY <1>7 DEF Terminate
<1>8. CASE Process
  BY <1>8 DEF Process
<1>9. CASE Empty
  BY <1>9 DEF Empty
<1>10. CASE Unmark
  BY <1>10 DEF Unmark
<1>11. CASE UNCHANGED vars
  BY <1>11 DEF vars
<1>12. CASE SelectTimeout
  BY <1>11, <1>12 DEF SelectTimeout
<1> QED
  BY <1>1, <1>2, <1>3, <1>4, <1>5, <1>6, <1>7, <1>8, <1>9, <1>10, <1>11, <1>12
  DEF Next, UartThread, TimerTask

LEMMA OwnershipHolds == Spec => []Ownership
<1>1. Init => Ownership
  BY DEF Init, Ownership, Control, BufferOwned, CallbackDisarms, FlagTellsIdle,
         UartPcs, CbPcs
<1> QED BY <1>1, OwnershipStep, PTL DEF Spec

(***************************************************************************)
(* The UART thread never writes the buffer, nor arms the timer, while the  *)
(* callback runs or the timer is armed, for any number of bytes.           *)
(***************************************************************************)
THEOREM BufferIsOwned == Spec => []BufferOwned
<1>1. Ownership => BufferOwned
  BY DEF Ownership
<1> QED BY <1>1, OwnershipHolds, PTL

-----------------------------------------------------------------------------
(***************************************************************************)
(* How many bytes the buffer holds.  At the first two points the count     *)
(* includes the terminator.                                                *)
(***************************************************************************)
CountBound ==
  /\ serial_data_bytes \in Nat
  /\ serial_data_bytes <= IF cbPc \in {"process", "empty"} THEN MaxBurst + 1 ELSE MaxBurst

\* A byte that is read, or about to be stored, finds room.
RoomForByte ==
  uartPc \in {"appendFirst", "append", "stop"} /\ cbPc = "idle" =>
    serial_data_bytes < MaxBurst

\* Without an armed timer or a running callback the buffer is empty, except
\* between a byte's arrival and the start of its timer.
EmptyAtRest ==
  ~armed /\ cbPc \in {"idle", "unmark"} /\ uartPc \notin {"startFirst", "append", "start"} =>
    serial_data_bytes = 0

\* The timer runs, and is started, for at least one byte.
TimerHasBytes ==
  /\ armed \/ cbPc = "terminate" \/ uartPc \in {"startFirst", "start"} => serial_data_bytes >= 1
  /\ cbPc = "process" => serial_data_bytes >= 2

Counting == CountBound /\ RoomForByte /\ EmptyAtRest /\ TimerHasBytes

\* Every step of the two tasks keeps the count within these bounds.
LEMMA CountingStep == Ownership /\ Counting /\ [Next]_vars => Counting'
<1> SUFFICES ASSUME Ownership, Counting, [Next]_vars
             PROVE  Counting'
  OBVIOUS
<1> USE BufferAssumption
    DEF Ownership, Control, BufferOwned, CallbackDisarms, FlagTellsIdle, UartPcs, CbPcs,
        Counting, CountBound, RoomForByte, EmptyAtRest, TimerHasBytes
<1>1. CASE ReadByte
  BY <1>1 DEF ReadByte, bufferVars
<1>2. CASE AppendByte
  BY <1>2 DEF AppendByte, StoreByte
<1>3. CASE StopTimer
  BY <1>3 DEF StopTimer, Restart, bufferVars
<1>4. CASE StartTimer
  BY <1>4 DEF StartTimer, Restart, bufferVars
<1>5. CASE MarkTimer
  BY <1>5 DEF MarkTimer, bufferVars
<1>6. CASE TimerFires
  BY <1>6 DEF TimerFires, bufferVars
<1>7. CASE Terminate
  BY <1>7 DEF Terminate
<1>8. CASE Process
  BY <1>8 DEF Process, bufferVars
<1>9. CASE Empty
  BY <1>9 DEF Empty
<1>10. CASE Unmark
  BY <1>10 DEF Unmark, bufferVars
<1>11. CASE UNCHANGED vars
  BY <1>11 DEF vars
<1>12. CASE SelectTimeout
  BY <1>11, <1>12 DEF SelectTimeout
<1> QED
  BY <1>1, <1>2, <1>3, <1>4, <1>5, <1>6, <1>7, <1>8, <1>9, <1>10, <1>11, <1>12
  DEF Next, UartThread, TimerTask

LEMMA CountingHolds == Spec => []Counting
<1>1. Init => Counting
  BY BufferAssumption
  DEF Init, Counting, CountBound, RoomForByte, EmptyAtRest, TimerHasBytes
<1> QED BY <1>1, CountingStep, OwnershipHolds, PTL DEF Spec

(***************************************************************************)
(* No byte stays in the buffer without a timer to deliver it, although the *)
(* flag and the timer disagree for a while on every packet.                *)
(***************************************************************************)
THEOREM NoByteIsStranded == Spec => []NoStrandedBytes
<1>1. Counting => NoStrandedBytes
  BY DEF Counting, CountBound, EmptyAtRest, NoStrandedBytes
<1> QED BY <1>1, CountingHolds, PTL

-----------------------------------------------------------------------------
(* The buffer and the line.                                                *)

\* Every access to the buffer is within its bounds.
BufferType == serial_rx_data \in [0 .. BufLen - 1 -> Bytes \cup {NUL}]

LineType ==
  /\ rxNext \in 1 .. MaxBytes + 1
  /\ uartPc \in {"appendFirst", "append", "stop"} => rxNext >= 2

\* Both tasks write inside the buffer, and bytes of the line only.
LEMMA BufferStep ==
  Ownership /\ Counting /\ BufferType /\ LineType /\ [Next]_vars => (BufferType /\ LineType)'
<1> SUFFICES ASSUME Ownership, Counting, BufferType, LineType, [Next]_vars
             PROVE  (BufferType /\ LineType)'
  OBVIOUS
<1> USE BufferAssumption, BytesAssumption DEF BufferType, LineType, Bytes, NUL
<1>1. CASE ReadByte
  BY <1>1 DEF ReadByte, bufferVars
<1>2. CASE AppendByte
  <2>1. serial_data_bytes \in 0 .. BufLen - 1 /\ cbPc = "idle"
    BY <1>2 DEF AppendByte, Ownership, BufferOwned, Counting, CountBound, RoomForByte
  <2>2. rxNext - 1 \in Bytes
    BY <1>2 DEF AppendByte
  <2> QED BY <1>2, <2>1, <2>2 DEF AppendByte, StoreByte
<1>3. CASE StopTimer
  BY <1>3 DEF StopTimer, Restart, bufferVars
<1>4. CASE StartTimer
  BY <1>4 DEF StartTimer, Restart, bufferVars
<1>5. CASE MarkTimer
  BY <1>5 DEF MarkTimer, bufferVars
<1>6. CASE TimerFires
  BY <1>6 DEF TimerFires, bufferVars
<1>7. CASE Terminate
  <2>1. serial_data_bytes + 1 \in 0 .. BufLen - 1
    BY <1>7 DEF Terminate, Counting, CountBound
  <2> QED BY <1>7, <2>1 DEF Terminate
<1>8. CASE Process
  BY <1>8 DEF Process, bufferVars
<1>9. CASE Empty
  BY <1>9 DEF Empty
<1>10. CASE Unmark
  BY <1>10 DEF Unmark, bufferVars
<1>11. CASE UNCHANGED vars
  BY <1>11 DEF vars
<1>12. CASE SelectTimeout
  BY <1>11, <1>12 DEF SelectTimeout
<1> QED
  BY <1>1, <1>2, <1>3, <1>4, <1>5, <1>6, <1>7, <1>8, <1>9, <1>10, <1>11, <1>12
  DEF Next, UartThread, TimerTask

(***************************************************************************)
(* What a step may do to the abstract view.                                *)
(***************************************************************************)
Pending == [i \in 1 .. Held |-> serial_rx_data[i - 1]]

SameBytes == \A i \in 0 .. Held - 1 : serial_rx_data'[i] = serial_rx_data[i]

Keeps ==
  /\ Held' = Held
  /\ Stored' = Stored
  /\ SameBytes
  /\ packets' = packets
  /\ restarts' = restarts

Grows ==
  /\ Held' = Held + 1
  /\ Stored' = Stored + 1
  /\ SameBytes
  /\ serial_rx_data'[Held] = Stored
  /\ packets' = packets
  /\ restarts' = restarts

Drops ==
  /\ Held' = 0
  /\ Stored' >= Stored
  /\ packets' = packets
  /\ restarts' = restarts + 1

HandsOver ==
  /\ Held >= 1
  /\ Held' = 0
  /\ Stored' = Stored
  /\ packets' = Append(packets, Pending)
  /\ restarts' = restarts

\* The view is well typed.
LEMMA ViewType ==
  Ownership /\ Counting /\ LineType => Held \in Nat /\ Stored \in Nat /\ Stored <= MaxBytes + 1
BY BytesAssumption DEF Ownership, Control, CbPcs, Counting, CountBound, TimerHasBytes, LineType,
   Held, Stored

\* Every step of the two tasks is of one of these four kinds.
LEMMA StepKinds ==
  Ownership /\ Counting /\ BufferType /\ LineType /\ [Next]_vars =>
    Keeps \/ Grows \/ Drops \/ HandsOver
<1> SUFFICES ASSUME Ownership, Counting, BufferType, LineType, [Next]_vars
             PROVE  Keeps \/ Grows \/ Drops \/ HandsOver
  OBVIOUS
<1> USE BufferAssumption, BytesAssumption
<1> USE DEF Held, Stored, SameBytes
<1>t. serial_data_bytes \in Nat /\ rxNext \in Nat
  BY DEF Counting, CountBound, LineType
<1>1. CASE ReadByte
  BY <1>t, <1>1 DEF ReadByte, bufferVars, Keeps
<1>2. CASE AppendByte
  <2>1. serial_data_bytes \in 0 .. BufLen - 1 /\ cbPc = "idle" /\ cbPc' = "idle"
    BY <1>2 DEF AppendByte, Ownership, BufferOwned, Counting, CountBound, RoomForByte
  <2>2. /\ Held = serial_data_bytes
        /\ Held' = serial_data_bytes + 1
        /\ Stored = rxNext - 1
        /\ Stored' = rxNext
        /\ packets' = packets
        /\ restarts' = restarts
    BY <1>2, <2>1 DEF AppendByte, StoreByte
  <2>3. serial_rx_data' = [serial_rx_data EXCEPT ![serial_data_bytes] = rxNext - 1]
    BY <1>2 DEF AppendByte, StoreByte
  <2>4. serial_rx_data'[serial_data_bytes] = rxNext - 1
    BY <2>1, <2>3 DEF BufferType
  <2>5. \A i \in 0 .. serial_data_bytes - 1 : serial_rx_data'[i] = serial_rx_data[i]
    BY <2>1, <2>3 DEF BufferType
  <2> QED BY <1>t, <2>2, <2>4, <2>5 DEF Grows
<1>3. CASE StopTimer
  <2>1. CASE armed
    BY <1>t, <1>3, <2>1 DEF StopTimer, bufferVars, Keeps
  <2>2. CASE ~armed
    BY <1>t, <1>3, <2>2 DEF StopTimer, Restart, Drops
  <2> QED BY <2>1, <2>2
<1>4. CASE StartTimer
  <2>1. ~armed
    BY <1>4 DEF StartTimer, Ownership, BufferOwned
  <2> QED BY <1>t, <1>4, <2>1 DEF StartTimer, bufferVars, Keeps
<1>5. CASE MarkTimer
  BY <1>t, <1>5 DEF MarkTimer, bufferVars, Keeps
<1>6. CASE TimerFires
  BY <1>t, <1>6 DEF TimerFires, bufferVars, Keeps
<1>7. CASE Terminate
  <2>1. serial_data_bytes + 1 \in 0 .. BufLen - 1
    BY <1>7 DEF Terminate, Counting, CountBound
  <2>2. \A i \in 0 .. serial_data_bytes - 1 : serial_rx_data'[i] = serial_rx_data[i]
    BY <1>t, <1>7, <2>1 DEF Terminate, BufferType
  <2>3. Held = serial_data_bytes /\ Held' = serial_data_bytes
    BY <1>t, <1>7 DEF Terminate
  <2>4. Stored' = Stored /\ packets' = packets /\ restarts' = restarts
    BY <1>7 DEF Terminate
  <2> QED BY <2>2, <2>3, <2>4 DEF Keeps
<1>8. CASE Process
  <2>1. Held = serial_data_bytes - 1 /\ Held >= 1 /\ Held' = 0 /\ Stored' = Stored
    BY <1>t, <1>8 DEF Process, Counting, TimerHasBytes
  <2>2. packets' = Append(packets, Pending) /\ restarts' = restarts
    BY <1>8, <2>1 DEF Process, Pending
  <2> QED BY <2>1, <2>2 DEF HandsOver
<1>9. CASE Empty
  BY <1>t, <1>9 DEF Empty, Keeps
<1>10. CASE Unmark
  BY <1>t, <1>10 DEF Unmark, bufferVars, Keeps
<1>11. CASE UNCHANGED vars
  BY <1>t, <1>11 DEF vars, Keeps
<1>12. CASE SelectTimeout
  BY <1>11, <1>12 DEF SelectTimeout
<1> QED
  BY <1>1, <1>2, <1>3, <1>4, <1>5, <1>6, <1>7, <1>8, <1>9, <1>10, <1>11, <1>12
  DEF Next, UartThread, TimerTask

-----------------------------------------------------------------------------
(* The contents, and the refinement.                                       *)

\* The buffer holds the last bytes of the line, in order.
Contents ==
  /\ Held < Stored
  /\ \A i \in 0 .. Held - 1 : serial_rx_data[i] = Stored - Held + i

PacketsType == packets \in Seq(Seq(Bytes)) /\ restarts \in Nat

\* What is pending is a sequence of bytes of the line.
LEMMA PendingType ==
  Ownership /\ Counting /\ LineType /\ Contents => Pending \in Seq(Bytes) /\ Len(Pending) = Held
<1> SUFFICES ASSUME Ownership, Counting, LineType, Contents
             PROVE  Pending \in Seq(Bytes) /\ Len(Pending) = Held
  OBVIOUS
<1>1. Held \in Nat /\ Stored \in Nat /\ Stored <= MaxBytes + 1
  BY ViewType
<1>2. ASSUME NEW i \in 1 .. Held
      PROVE  serial_rx_data[i - 1] \in Bytes
  <2>1. i - 1 \in 0 .. Held - 1
    BY <1>1
  <2>2. serial_rx_data[i - 1] = Stored - Held + (i - 1)
    BY <2>1 DEF Contents
  <2> QED BY <1>1, <2>2, BytesAssumption DEF Contents, Bytes
<1>3. Pending \in [1 .. Held -> Bytes]
  BY <1>2 DEF Pending
<1>4. Pending \in Seq(Bytes)
  BY <1>1, <1>3, SeqDef
<1>5. Len(Pending) = Held
  BY <1>1, <1>3, <1>4, LenProperties DEF Pending
<1> QED BY <1>4, <1>5

LEMMA ContentsStep ==
  /\ Ownership /\ Counting /\ BufferType /\ LineType /\ Contents /\ PacketsType
  /\ (Ownership /\ Counting /\ LineType)'
  /\ [Next]_vars
  => (Contents /\ PacketsType)'
<1> SUFFICES ASSUME Ownership, Counting, BufferType, LineType, Contents, PacketsType,
                    (Ownership /\ Counting /\ LineType)',
                    [Next]_vars
             PROVE  (Contents /\ PacketsType)'
  OBVIOUS
<1>1. /\ Held \in Nat /\ Stored \in Nat
      /\ Held' \in Nat /\ Stored' \in Nat
  <2>1. (Ownership /\ Counting /\ LineType => Held \in Nat /\ Stored \in Nat)'
    BY ViewType, PTL
  <2> QED BY ViewType, <2>1
<1>2. CASE Keeps
  BY <1>1, <1>2 DEF Keeps, SameBytes, Contents, PacketsType, Bytes
<1>3. CASE Grows
  <2>1. /\ Held' = Held + 1 /\ Stored' = Stored + 1
        /\ serial_rx_data'[Held] = Stored
    BY <1>3 DEF Grows
  <2>2. ASSUME NEW i \in 0 .. Held' - 1
        PROVE  serial_rx_data'[i] = Stored' - Held' + i
    <3>1. CASE i = Held
      BY <1>1, <2>1, <3>1
    <3>2. CASE i \in 0 .. Held - 1
      BY <1>1, <1>3, <2>1, <3>2 DEF Grows, SameBytes, Contents
    <3> QED BY <1>1, <2>1, <3>1, <3>2
  <2>3. Held' < Stored'
    BY <1>1, <2>1 DEF Contents
  <2> QED BY <1>3, <2>2, <2>3 DEF Grows, Contents, PacketsType, Bytes
<1>4. CASE Drops
  BY <1>1, <1>4 DEF Drops, Contents, PacketsType, Bytes
<1>5. CASE HandsOver
  <2>1. Pending \in Seq(Bytes)
    BY PendingType
  <2>2. packets' \in Seq(Seq(Bytes)) /\ restarts' \in Nat
    BY <1>5, <2>1, AppendProperties DEF HandsOver, PacketsType
  <2> QED BY <1>1, <1>5, <2>2 DEF HandsOver, Contents, PacketsType, Bytes
<1> QED BY <1>2, <1>3, <1>4, <1>5, StepKinds

\* The inductive invariant of the receive path.
FramerInv ==
  Ownership /\ Counting /\ BufferType /\ LineType /\ Contents /\ PacketsType

LEMMA FramerInvHolds == Spec => []FramerInv
<1>1. Init => FramerInv
  <2> SUFFICES ASSUME Init
               PROVE  FramerInv
    OBVIOUS
  <2>1. Ownership
    BY DEF Init, Ownership, Control, BufferOwned, CallbackDisarms, FlagTellsIdle, UartPcs, CbPcs
  <2>2. Counting
    BY BufferAssumption
    DEF Init, Counting, CountBound, RoomForByte, EmptyAtRest, TimerHasBytes
  <2>3. BufferType /\ LineType
    BY BytesAssumption, BufferAssumption DEF Init, BufferType, LineType, NUL
  <2>4. Contents
    BY DEF Init, Contents, Held, Stored
  <2>5. PacketsType
    BY EmptySeq DEF Init, PacketsType
  <2> QED BY <2>1, <2>2, <2>3, <2>4, <2>5 DEF FramerInv
<1>2. FramerInv /\ [Next]_vars => FramerInv'
  <2> SUFFICES ASSUME FramerInv, [Next]_vars
               PROVE  FramerInv'
    OBVIOUS
  <2>1. Ownership' /\ Counting'
    BY OwnershipStep, CountingStep DEF FramerInv
  <2>2. BufferType' /\ LineType'
    BY BufferStep DEF FramerInv
  <2>3. Contents' /\ PacketsType'
    BY <2>1, <2>2, ContentsStep DEF FramerInv
  <2> QED BY <2>1, <2>2, <2>3 DEF FramerInv
<1> QED BY <1>1, <1>2, PTL DEF Spec

(***************************************************************************)
(* The receive path keeps its types; above all, both tasks stay inside     *)
(* serial_rx_data and packets hold only bytes that were received.          *)
(***************************************************************************)
THEOREM FramerTypeOK == Spec => []TypeOK
<1>1. FramerInv => TypeOK
  <2> SUFFICES ASSUME FramerInv
               PROVE  TypeOK
    OBVIOUS
  <2>1. serial_data_bytes \in 0 .. BufLen - 1
    BY BufferAssumption DEF FramerInv, Counting, CountBound
  <2> QED BY <2>1
    DEF FramerInv, TypeOK, Ownership, Control, BufferType, LineType, PacketsType
<1> QED BY <1>1, FramerInvHolds, PTL

\* Storing one more byte appends it to what is pending.
LEMMA GrowsReceives ==
  FramerInv /\ FramerInv' /\ Grows => Assembly!Receive
<1> SUFFICES ASSUME FramerInv, FramerInv', Grows
             PROVE  Assembly!Receive
  OBVIOUS
<1>1. /\ Held \in Nat /\ Stored \in Nat /\ Stored <= MaxBytes + 1
      /\ Held < Stored
  BY ViewType DEF FramerInv, Contents
<1>0. Seq(Bytes) \subseteq Seq(Nat)
  <2>1. Bytes \subseteq Nat
    BY DEF Bytes
  <2> QED BY <2>1, SeqMonotonic
<1>2. Pending \in Seq(Nat) /\ Len(Pending) = Held
  BY <1>0, PendingType DEF FramerInv
<1>3. Pending' \in Seq(Nat) /\ Len(Pending') = Held'
  <2>1. (FramerInv => Pending \in Seq(Bytes) /\ Len(Pending) = Held)'
    BY PendingType, PTL DEF FramerInv
  <2>2. (Pending \in Seq(Bytes))' => Pending' \in Seq(Bytes)
    BY DEF Bytes
  <2> QED BY <1>0, <2>1, <2>2
<1>4. /\ Held' = Held + 1
      /\ Stored' = Stored + 1
      /\ packets' = packets
      /\ restarts' = restarts
  BY DEF Grows
<1>5. Pending' = Append(Pending, Stored)
  <2> DEFINE longer == Append(Pending, Stored)
  <2>1. /\ longer \in Seq(Nat)
        /\ Len(longer) = Held + 1
        /\ \A i \in 1 .. Held : longer[i] = Pending[i]
        /\ longer[Held + 1] = Stored
    BY <1>1, <1>2, AppendProperties
  <2>2. ASSUME NEW i \in 1 .. Held + 1
        PROVE  Pending'[i] = longer[i]
    <3>1. Pending'[i] = serial_rx_data'[i - 1]
      BY <1>4, <2>2 DEF Pending
    <3>2. CASE i = Held + 1
      BY <1>1, <2>1, <3>1, <3>2 DEF Grows
    <3>3. CASE i \in 1 .. Held
      <4>1. Pending[i] = serial_rx_data[i - 1]
        BY <3>3 DEF Pending
      <4>2. i - 1 \in 0 .. Held - 1
        BY <1>1, <3>3
      <4> QED BY <2>1, <3>1, <3>3, <4>1, <4>2 DEF Grows, SameBytes
    <3>4. i = Held + 1 \/ i \in 1 .. Held
      BY <1>1, <2>2
    <3> QED BY <3>2, <3>3, <3>4
  <2> HIDE DEF longer
  <2>3. Pending' = longer
    BY <1>1, <1>3, <1>4, <2>1, <2>2, SeqEqual
  <2> QED BY <2>3 DEF longer
<1> QED BY <1>4, <1>5 DEF Assembly!Receive, Pending

\* Nothing pending, as the abstract specification writes it.
LEMMA NothingPending == Held = 0 => Pending = <<>>
<1> SUFFICES ASSUME Held = 0
             PROVE  Pending = <<>>
  OBVIOUS
<1>1. Pending = [i \in {} |-> serial_rx_data[i - 1]]
  BY DEF Pending
<1> QED BY <1>1

\* Each kind of step is a step of the abstract specification, or none.
LEMMA AssemblyStep ==
  FramerInv /\ FramerInv' /\ [Next]_vars => [Assembly!Next]_(Assembly!vars)
<1> SUFFICES ASSUME FramerInv, FramerInv', [Next]_vars
             PROVE  [Assembly!Next]_(Assembly!vars)
  OBVIOUS
<1>1. /\ Held \in Nat /\ Stored \in Nat
      /\ Held' \in Nat /\ Stored' \in Nat
  <2>1. (FramerInv => Held \in Nat /\ Stored \in Nat)'
    BY ViewType, PTL DEF FramerInv
  <2> QED BY ViewType, <2>1 DEF FramerInv
<1>0. (Held = 0 => Pending = <<>>)'
  BY NothingPending, PTL
<1>2. CASE Keeps
  <2>1. Pending' = Pending
    BY <1>1, <1>2 DEF Keeps, SameBytes, Pending
  <2> QED BY <1>2, <2>1 DEF Keeps, Assembly!vars, Pending
<1>3. CASE Grows
  BY <1>3, GrowsReceives DEF Assembly!Next
<1>4. CASE Drops
  <2>1. Pending' = <<>>
    BY <1>0, <1>4 DEF Drops
  <2> QED BY <1>1, <1>4, <2>1 DEF Drops, Assembly!Next, Assembly!Lose, Pending
<1>5. CASE HandsOver
  <2>1. Pending' = <<>>
    BY <1>0, <1>5 DEF HandsOver
  <2>2. Pending # <<>>
    <3>1. Pending \in Seq(Bytes) /\ Len(Pending) = Held
      BY PendingType DEF FramerInv
    <3> QED BY <1>5, <3>1, EmptySeq DEF HandsOver
  <2> QED BY <1>5, <2>1, <2>2 DEF HandsOver, Assembly!Next, Assembly!Deliver, Pending
<1> QED BY <1>2, <1>3, <1>4, <1>5, StepKinds DEF FramerInv

(***************************************************************************)
(* The receive path implements PacketAssembly: every step of the two tasks *)
(* receives a byte, hands over all that is pending, changes nothing the    *)
(* abstract specification can see, or is a restart; only the last, which   *)
(* is counted, may lose a byte.                                            *)
(***************************************************************************)
THEOREM FramerImplementsAssembly == Spec => RefinesAssembly
<1>1. Init => Assembly!Init
  <2> SUFFICES ASSUME Init
               PROVE  Assembly!Init
    OBVIOUS
  <2>1. Held = 0 /\ Stored = 1
    BY DEF Init, Held, Stored
  <2>2. Pending = <<>>
    BY <2>1, NothingPending
  <2> QED BY <2>1, <2>2 DEF Init, Assembly!Init, Pending
<1>2. FramerInv /\ FramerInv' /\ [Next]_vars => [Assembly!Next]_(Assembly!vars)
  BY AssemblyStep
<1> QED BY <1>1, <1>2, FramerInvHolds, PTL DEF Spec, RefinesAssembly, Assembly!Spec

Abstract == INSTANCE PacketAssembly_proofs WITH
  next    <- Stored,
  pending <- [i \in 1 .. Held |-> serial_rx_data[i - 1]]

\* What PacketAssembly promises of every behaviour, it promises of these.
LEMMA FramerIsAssembly == Spec => [](Abstract!InOrder /\ Abstract!Unbroken)
<1>1. Abstract!Spec => [](Abstract!InOrder /\ Abstract!Unbroken)
  BY Abstract!AssemblyInOrder, Abstract!AssemblyUnbroken, PTL
<1>2. Assembly!Init => Abstract!Init
  BY DEF Abstract!Init, Assembly!Init
<1>3. [Assembly!Next]_(Assembly!vars) => [Abstract!Next]_(Abstract!vars)
  BY DEF Abstract!Next, Abstract!Receive, Abstract!Deliver, Abstract!Lose, Abstract!vars,
         Assembly!Next, Assembly!Receive, Assembly!Deliver, Assembly!Lose, Assembly!vars
<1> QED
  BY <1>1, <1>2, <1>3, FramerImplementsAssembly, PTL
  DEF RefinesAssembly, Abstract!Spec, Assembly!Spec

(***************************************************************************)
(* Hence the packets handed to akbi_process_rx_serial_data are runs of     *)
(* consecutive bytes of the line, in order, whatever the interleaving of   *)
(* the two tasks and however often they restart the firmware.              *)
(***************************************************************************)
THEOREM FramerInOrder == Spec => []PacketsInOrder
<1>1. Abstract!InOrder => PacketsInOrder
  BY DEF Abstract!InOrder, Abstract!Run, PacketsInOrder, Assembly!InOrder, Assembly!Run
<1> QED BY <1>1, FramerIsAssembly, PTL

(***************************************************************************)
(* And until a first restart those packets and the bytes still pending are *)
(* the line from its first byte, without a gap: however the tasks          *)
(* interleave, the callback loses none.                                    *)
(***************************************************************************)
THEOREM FramerLosesNoByte == Spec => []NoByteLost
<1>1. Abstract!Unbroken => NoByteLost
  BY DEF Abstract!Unbroken, NoByteLost, Assembly!Unbroken
<1> QED BY <1>1, FramerIsAssembly, PTL

=============================================================================

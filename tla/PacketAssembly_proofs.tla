----------------------- MODULE PacketAssembly_proofs -----------------------
(***************************************************************************)
(* Proofs about the abstract receive path: its packets are runs of the     *)
(* line, in order, for a line of any length.                               *)
(***************************************************************************)
EXTENDS PacketAssembly, SequenceTheorems, TLAPS

\* The variables of the abstract receive path keep their types.
LEMMA TypeCorrect == Spec => []TypeOK
<1>1. Init => TypeOK
  BY DEF Init, TypeOK, Bytes
<1>2. TypeOK /\ [Next]_vars => TypeOK'
  <2> SUFFICES ASSUME TypeOK, [Next]_vars
               PROVE  TypeOK'
    OBVIOUS
  <2> USE DEF TypeOK, Bytes
  <2>1. CASE Receive
    BY <2>1 DEF Receive
  <2>2. CASE Deliver
    BY <2>2 DEF Deliver
  <2>3. CASE Lose
    BY <2>3 DEF Lose
  <2>4. CASE UNCHANGED vars
    BY <2>4 DEF vars
  <2> QED BY <2>1, <2>2, <2>3, <2>4 DEF Next
<1> QED BY <1>1, <1>2, PTL DEF Spec

\* The length of a sequence is a natural number, zero only for the empty one.
LEMMA LenNat ==
  ASSUME NEW S, NEW s \in Seq(S)
  PROVE  /\ Len(s) \in Nat
         /\ s # <<>> => Len(s) >= 1
BY LenProperties, EmptySeq

\* The first and the last byte of a run, and the type of its bytes.
LEMMA RunEnds ==
  ASSUME NEW s \in Seq(Bytes), Run(s)
  PROVE  /\ Len(s) >= 1
         /\ s[1] \in Bytes
         /\ s[Len(s)] = s[1] + Len(s) - 1
<1>1. Len(s) \in Nat /\ Len(s) >= 1
  BY LenNat DEF Run
<1>2. s[1] \in Bytes
  BY <1>1, ElementOfSeq
<1> QED BY <1>1, <1>2 DEF Run

\* A received byte extends the run being assembled.
LEMMA ReceiveInOrder == TypeOK /\ InOrder /\ Receive => InOrder'
<1> SUFFICES ASSUME TypeOK, InOrder, Receive
             PROVE  InOrder'
  OBVIOUS
<1> DEFINE n == Len(pending)
<1>1. /\ pending' # <<>>
      /\ Len(pending') = n + 1
      /\ \A i \in 1 .. n : pending'[i] = pending[i]
      /\ pending'[n + 1] = next
  BY AppendProperties DEF TypeOK, Receive
<1>2. n \in Nat /\ next \in Nat /\ next' = next + 1 /\ packets' = packets
  BY LenNat DEF TypeOK, Receive, Bytes
<1>3. next' - Len(pending') = next - n
  BY <1>1, <1>2
<1>4. pending'[1] = next - n
  <2>1. CASE pending = <<>>
    <3>1. n = 0
      BY <2>1
    <3> QED BY <1>1, <1>2, <3>1
  <2>2. CASE pending # <<>>
    <3>1. n >= 1
      BY <2>2, LenNat DEF TypeOK
    <3> QED BY <1>1, <1>2, <2>2, <3>1 DEF InOrder
  <2> QED BY <2>1, <2>2
<1>5. ASSUME NEW i \in 1 .. Len(pending')
      PROVE  pending'[i] = pending'[1] + i - 1
  <2>1. CASE i = n + 1
    BY <1>1, <1>2, <1>4, <2>1
  <2>2. CASE i \in 1 .. n
    <3>1. pending # <<>>
      BY <1>2, <2>2
    <3>2. pending[i] = pending[1] + i - 1
      BY <2>2, <3>1 DEF InOrder, Run
    <3>3. pending[1] = next - n
      BY <3>1 DEF InOrder
    <3> QED BY <1>1, <1>4, <2>2, <3>2, <3>3
  <2> QED BY <1>1, <1>2, <2>1, <2>2
<1>6. Run(pending')
  BY <1>1, <1>5 DEF Run
<1> QED BY <1>2, <1>3, <1>4, <1>6 DEF InOrder

\* The run being assembled may follow the last packet.
LEMMA DeliverInOrder == TypeOK /\ InOrder /\ Deliver => InOrder'
<1> SUFFICES ASSUME TypeOK, InOrder, Deliver
             PROVE  InOrder'
  OBVIOUS
<1> DEFINE n == Len(packets)
<1>1. /\ packets' # <<>>
      /\ Len(packets') = n + 1
      /\ \A p \in 1 .. n : packets'[p] = packets[p]
      /\ packets'[n + 1] = pending
  BY AppendProperties DEF TypeOK, Deliver
<1>2. /\ n \in Nat
      /\ next \in Nat
      /\ next' = next
      /\ pending' = <<>>
      /\ Len(pending') = 0
      /\ Len(pending) \in Nat
  BY LenNat DEF TypeOK, Deliver, Bytes
<1>3. /\ Run(pending)
      /\ pending[1] = next - Len(pending)
  BY DEF InOrder, Deliver
<1>4. pending[Len(pending)] = next - 1
  BY <1>2, <1>3, RunEnds DEF TypeOK
<1>5. ASSUME NEW p \in 1 .. n + 1
      PROVE  Run(packets'[p])
  <2>1. CASE p \in 1 .. n
    BY <1>1, <2>1 DEF InOrder
  <2>2. CASE p = n + 1
    BY <1>1, <1>3, <2>2
  <2> QED BY <1>2, <2>1, <2>2
<1>6. ASSUME NEW p \in 1 .. n
      PROVE  packets'[p][Len(packets'[p])] < packets'[p + 1][1]
  <2>1. packets'[p] = packets[p]
    BY <1>1
  <2>2. CASE p \in 1 .. n - 1
    <3>1. p + 1 \in 1 .. n
      BY <1>2, <2>2
    <3>2. packets'[p + 1] = packets[p + 1]
      BY <1>1, <3>1
    <3> QED BY <2>1, <2>2, <3>2 DEF InOrder
  <2>3. CASE p = n
    <3>1. packets # <<>>
      BY <1>2, <2>3
    <3>2. packets[n][Len(packets[n])] < next - Len(pending)
      BY <3>1 DEF InOrder
    <3> QED BY <1>1, <1>3, <2>1, <2>3, <3>2
  <2> QED BY <1>2, <2>2, <2>3
<1>7. packets'[n + 1][Len(packets'[n + 1])] < next' - Len(pending')
  BY <1>1, <1>2, <1>4
<1>8. \A p \in 1 .. Len(packets') : Run(packets'[p])
  BY <1>1, <1>5
<1>9. \A p \in 1 .. Len(packets') - 1 :
        packets'[p][Len(packets'[p])] < packets'[p + 1][1]
  <2>1. Len(packets') - 1 = n
    BY <1>1, <1>2
  <2> QED BY <1>6, <2>1
<1>10. packets'[Len(packets')][Len(packets'[Len(packets')])] < next' - Len(pending')
  BY <1>1, <1>7
<1> QED BY <1>2, <1>8, <1>9, <1>10 DEF InOrder

\* A restart only moves the line forward.
LEMMA LoseInOrder == TypeOK /\ InOrder /\ Lose => InOrder'
<1> SUFFICES ASSUME TypeOK, InOrder, Lose
             PROVE  InOrder'
  OBVIOUS
<1> DEFINE last == packets[Len(packets)]
<1>1. /\ Len(pending) \in Nat
      /\ Len(packets) \in Nat
      /\ pending' = <<>>
      /\ Len(pending') = 0
      /\ packets' = packets
      /\ next \in Nat
      /\ next' \in Nat
      /\ next' >= next
  BY LenNat DEF TypeOK, Lose, Bytes
<1>2. ASSUME packets # <<>>
      PROVE  last[Len(last)] < next'
  <2>1. Len(packets) \in 1 .. Len(packets)
    BY <1>1, <1>2, LenNat DEF TypeOK
  <2>2. last \in Seq(Bytes) /\ Run(last)
    BY <2>1, ElementOfSeq DEF TypeOK, InOrder
  <2>3. last[Len(last)] \in Nat
    BY <2>2, RunEnds, LenNat DEF Bytes
  <2>4. last[Len(last)] < next - Len(pending)
    BY <1>2 DEF InOrder
  <2> QED BY <1>1, <2>3, <2>4
<1> QED BY <1>1, <1>2 DEF InOrder

\* A received byte leaves no gap behind it.
LEMMA ReceiveUnbroken == TypeOK /\ Unbroken /\ Receive => Unbroken'
<1> SUFFICES ASSUME TypeOK, Unbroken, Receive
             PROVE  Unbroken'
  OBVIOUS
<1>1. Len(pending') = Len(pending) + 1
  BY AppendProperties DEF TypeOK, Receive
<1>2. Len(pending) \in Nat /\ next \in Nat /\ next' = next + 1
  BY LenNat DEF TypeOK, Receive, Bytes
<1>3. next' - Len(pending') = next - Len(pending)
  BY <1>1, <1>2
<1>4. packets' = packets /\ restarts' = restarts
  BY DEF Receive
<1> QED BY <1>3, <1>4 DEF Unbroken

\* A delivered run starts where the last packet ended.
LEMMA DeliverUnbroken == TypeOK /\ InOrder /\ Unbroken /\ Deliver => Unbroken'
<1> SUFFICES ASSUME TypeOK, InOrder, Unbroken, Deliver, restarts = 0
             PROVE  Unbroken'
  BY DEF Deliver, Unbroken
<1> DEFINE n == Len(packets)
<1>1. /\ packets' # <<>>
      /\ Len(packets') = n + 1
      /\ \A p \in 1 .. n : packets'[p] = packets[p]
      /\ packets'[n + 1] = pending
  BY AppendProperties DEF TypeOK, Deliver
<1>2. /\ n \in Nat
      /\ packets # <<>> => n >= 1
      /\ packets = <<>> => n = 0
      /\ next \in Nat
      /\ next' = next
      /\ Len(pending') = 0
      /\ Len(pending) \in Nat
  BY LenNat DEF TypeOK, Deliver, Bytes
<1>3. Run(pending) /\ pending[1] = next - Len(pending)
  BY DEF InOrder, Deliver
<1>4. pending[Len(pending)] = next - 1
  BY <1>2, <1>3, RunEnds DEF TypeOK
<1>5. packets'[1][1] = 1
  <2>1. CASE packets = <<>>
    BY <1>1, <1>2, <1>3, <2>1 DEF Unbroken
  <2>2. CASE packets # <<>>
    BY <1>1, <1>2, <2>2 DEF Unbroken
  <2> QED BY <2>1, <2>2
<1>6. ASSUME NEW p \in 1 .. Len(packets') - 1
      PROVE  packets'[p + 1][1] = packets'[p][Len(packets'[p])] + 1
  <2>1. p \in 1 .. n /\ packets'[p] = packets[p]
    BY <1>1, <1>2
  <2>2. CASE p \in 1 .. n - 1
    <3>1. packets'[p + 1] = packets[p + 1]
      BY <1>1, <1>2, <2>2
    <3> QED BY <2>1, <2>2, <3>1 DEF Unbroken
  <2>3. CASE p = n
    <3>1. packets # <<>>
      BY <1>2, <2>1
    <3> QED BY <1>1, <1>3, <2>1, <2>3, <3>1 DEF Unbroken
  <2> QED BY <1>2, <2>1, <2>2, <2>3
<1>7. next' - Len(pending') = packets'[Len(packets')][Len(packets'[Len(packets')])] + 1
  BY <1>1, <1>2, <1>4
<1> QED BY <1>1, <1>5, <1>6, <1>7 DEF Unbroken

(***************************************************************************)
(* Whatever the line and however often the firmware restarts, packets are  *)
(* runs of consecutive bytes in the order of the line.                     *)
(***************************************************************************)
THEOREM AssemblyInOrder == Spec => []InOrder
<1>1. Init => InOrder
  BY DEF Init, InOrder
<1>2. TypeOK /\ InOrder /\ [Next]_vars => InOrder'
  <2> SUFFICES ASSUME TypeOK, InOrder, [Next]_vars
               PROVE  InOrder'
    OBVIOUS
  <2>1. CASE Receive
    BY <2>1, ReceiveInOrder
  <2>2. CASE Deliver
    BY <2>2, DeliverInOrder
  <2>3. CASE Lose
    BY <2>3, LoseInOrder
  <2>4. CASE UNCHANGED vars
    BY <2>4 DEF vars, InOrder, Run
  <2> QED BY <2>1, <2>2, <2>3, <2>4 DEF Next
<1> QED BY <1>1, <1>2, TypeCorrect, PTL DEF Spec

(***************************************************************************)
(* As long as the firmware has not restarted, the packets and the bytes    *)
(* being assembled are the whole line so far, without a gap.               *)
(***************************************************************************)
THEOREM AssemblyUnbroken == Spec => []Unbroken
<1>1. Init => Unbroken
  BY DEF Init, Unbroken
<1>2. TypeOK /\ InOrder /\ Unbroken /\ [Next]_vars => Unbroken'
  <2> SUFFICES ASSUME TypeOK, InOrder, Unbroken, [Next]_vars
               PROVE  Unbroken'
    OBVIOUS
  <2>1. CASE Receive
    BY <2>1, ReceiveUnbroken
  <2>2. CASE Deliver
    BY <2>2, DeliverUnbroken
  <2>3. CASE Lose
    BY <2>3 DEF Lose, TypeOK, Unbroken
  <2>4. CASE UNCHANGED vars
    BY <2>4 DEF vars, Unbroken
  <2> QED BY <2>1, <2>2, <2>3, <2>4 DEF Next
<1> QED BY <1>1, <1>2, TypeCorrect, AssemblyInOrder, PTL DEF Spec

=============================================================================

--------------------------- MODULE PacketAssembly ---------------------------
(***************************************************************************)
(* What the serial receive path of the BLE bridge promises to the code     *)
(* that interprets CCU messages: the bytes of the line are handed over in  *)
(* packets, each a run of consecutive bytes, in the order they arrived,    *)
(* none twice.  Bytes are lost only when the firmware restarts, and        *)
(* restarts counts how often it did.                                       *)
(*                                                                         *)
(* A byte is represented by its position on the line.  SerialFramer is     *)
(* the implementation.                                                     *)
(***************************************************************************)
EXTENDS Naturals, Sequences

VARIABLES
  next,      \* Position of the next byte of the line.
  pending,   \* Bytes taken since the last packet.
  packets,   \* Packets handed over, oldest first.
  restarts   \* How often the firmware has restarted.

vars == <<next, pending, packets, restarts>>

Bytes == Nat \ {0}

Init ==
  /\ next = 1
  /\ pending = <<>>
  /\ packets = <<>>
  /\ restarts = 0

\* The next byte of the line joins the packet being assembled.
Receive ==
  /\ pending' = Append(pending, next)
  /\ next' = next + 1
  /\ UNCHANGED <<packets, restarts>>

\* The bytes assembled so far become a packet.
Deliver ==
  /\ pending # <<>>
  /\ packets' = Append(packets, pending)
  /\ pending' = <<>>
  /\ UNCHANGED <<next, restarts>>

\* A restart, and nothing else, loses what is assembled and whatever arrives
\* meanwhile.
Lose ==
  /\ restarts' = restarts + 1
  /\ pending' = <<>>
  /\ next' \in Nat
  /\ next' >= next
  /\ UNCHANGED packets

Next == Receive \/ Deliver \/ Lose

Spec == Init /\ [][Next]_vars

-----------------------------------------------------------------------------

TypeOK ==
  /\ next \in Bytes
  /\ pending \in Seq(Bytes)
  /\ packets \in Seq(Seq(Bytes))
  /\ restarts \in Nat

\* A non-empty run of consecutive bytes.
Run(s) ==
  /\ s # <<>>
  /\ \A i \in 1 .. Len(s) : s[i] = s[1] + i - 1

(***************************************************************************)
(* Every packet is a run of consecutive bytes, later packets hold only     *)
(* later bytes, and the bytes being assembled are the last ones received.  *)
(***************************************************************************)
InOrder ==
  /\ \A p \in 1 .. Len(packets) : Run(packets[p])
  /\ \A p \in 1 .. Len(packets) - 1 :
       packets[p][Len(packets[p])] < packets[p + 1][1]
  /\ packets # <<>> =>
       packets[Len(packets)][Len(packets[Len(packets)])] < next - Len(pending)
  /\ pending # <<>> =>
       /\ Run(pending)
       /\ pending[1] = next - Len(pending)

(***************************************************************************)
(* As long as the firmware has not restarted, the packets and the bytes    *)
(* being assembled are the whole line from its first byte on, without a    *)
(* gap between them.                                                       *)
(***************************************************************************)
Unbroken ==
  restarts = 0 =>
    /\ packets # <<>> => packets[1][1] = 1
    /\ \A p \in 1 .. Len(packets) - 1 :
         packets[p + 1][1] = packets[p][Len(packets[p])] + 1
    /\ next - Len(pending) =
         IF packets = <<>> THEN 1
                           ELSE packets[Len(packets)][Len(packets[Len(packets)])] + 1

=============================================================================

---------------------------- MODULE SerialFramer ----------------------------
(***************************************************************************)
(* The serial receive path of akbi/ble_ccu (akbi_serial_task.c).  Two      *)
(* tasks share one buffer without a lock:                                  *)
(*                                                                         *)
(*   - the UART thread reads the line one byte at a time, appends it and   *)
(*     restarts a 100 ms one-shot timer;                                   *)
(*   - the timer's callback takes silence for the end of a packet, hands   *)
(*     the buffer to akbi_process_rx_serial_data and empties it.           *)
(*                                                                         *)
(* serial_timer_state is all they synchronise with.  Every access to       *)
(* shared state is a step of its own, since the two tasks run on two cores *)
(* and preempt each other.  The timer may fire whenever it is armed: the   *)
(* model knows nothing of 100 ms.  esp_timer_start_once fails on an armed  *)
(* timer and esp_timer_stop on one that is not; ESP_ERROR_CHECK turns      *)
(* either failure into abort() and a restart of the firmware.              *)
(***************************************************************************)
EXTENDS Integers, Sequences

CONSTANTS
  MaxBytes,   \* Number of bytes the CCU sends; bounds the model.
  MaxBurst,   \* Longest run of bytes the CCU sends without a 100 ms gap.
  BufLen      \* Size of serial_rx_data: 500 in the code.

ASSUME BytesAssumption == MaxBytes \in Nat

\* The callback writes its terminator one past the byte after the last one.
ASSUME BufferAssumption ==
  /\ MaxBurst \in Nat \ {0}
  /\ BufLen \in Nat
  /\ MaxBurst + 1 < BufLen

VARIABLES
  uartPc,               \* Where the UART thread is.
  rxNext,               \* Next byte of the line that read() returns.
  serial_rx_data,       \* The receive buffer; stale bytes stay in it.
  serial_data_bytes,    \* Number of bytes in it.
  serial_timer_state,   \* 1: armed, as far as the code knows; -1: not.
  armed,                \* Whether esp_timer really has the timer armed.
  cbPc,                 \* Where oneshot_timer_callback is.
  packets,              \* Packets passed to akbi_process_rx_serial_data.
  restarts              \* How often the firmware has restarted: history only.

vars == <<uartPc, rxNext, serial_rx_data, serial_data_bytes,
          serial_timer_state, armed, cbPc, packets, restarts>>

bufferVars == <<serial_rx_data, serial_data_bytes>>

NUL == 0
Bytes == 1 .. MaxBytes

UartPcs == {"select", "appendFirst", "startFirst", "markFirst", "remark",
            "stop", "append", "start", "mark"}
CbPcs == {"idle", "terminate", "process", "empty", "unmark"}

Init ==
  /\ uartPc = "select"
  /\ rxNext = 1
  /\ serial_rx_data = [i \in 0 .. BufLen - 1 |-> NUL]
  /\ serial_data_bytes = 0
  /\ serial_timer_state = -1
  /\ armed = FALSE
  /\ cbPc = "idle"
  /\ packets = <<>>
  /\ restarts = 0

(***************************************************************************)
(* abort(): the firmware restarts with its statics in their initial state. *)
(* Bytes that arrive before the UART driver is back are lost.              *)
(***************************************************************************)
Restart ==
  /\ uartPc' = "select"
  /\ rxNext' \in rxNext .. MaxBytes + 1
  /\ serial_rx_data' = [i \in 0 .. BufLen - 1 |-> NUL]
  /\ serial_data_bytes' = 0
  /\ serial_timer_state' = -1
  /\ armed' = FALSE
  /\ cbPc' = "idle"
  /\ restarts' = restarts + 1
  /\ UNCHANGED packets

-----------------------------------------------------------------------------
(* The UART thread.                                                        *)

\* select() times out after 15 s without a byte.
SelectTimeout == uartPc = "select" /\ UNCHANGED vars

\* One byte is read and the branch is chosen.  Past MaxBurst bytes the CCU
\* pauses until the callback has emptied the buffer.
ReadByte ==
  /\ uartPc = "select"
  /\ rxNext <= MaxBytes
  /\ serial_data_bytes < MaxBurst \/ cbPc # "idle"
  /\ rxNext' = rxNext + 1
  /\ uartPc' = IF serial_timer_state # 1 THEN "appendFirst" ELSE "stop"
  /\ UNCHANGED <<bufferVars, serial_timer_state, armed, cbPc, packets, restarts>>

\* Fault: the count is advanced before the byte is stored.
StoreBytePastCount ==
  /\ serial_rx_data' = [serial_rx_data EXCEPT ![serial_data_bytes + 1] = rxNext - 1]
  /\ serial_data_bytes' = serial_data_bytes + 1

StoreByte ==
  /\ serial_rx_data' = [serial_rx_data EXCEPT ![serial_data_bytes] = rxNext - 1]
  /\ serial_data_bytes' = serial_data_bytes + 1

AppendByte ==
  /\ \/ uartPc = "appendFirst" /\ uartPc' = "startFirst"
     \/ uartPc = "append" /\ uartPc' = "start"
  /\ StoreByte
  /\ UNCHANGED <<rxNext, serial_timer_state, armed, cbPc, packets, restarts>>

\* esp_timer_stop under ESP_ERROR_CHECK.
StopTimer ==
  /\ uartPc = "stop"
  /\ IF armed
       THEN /\ armed' = FALSE
            /\ uartPc' = "append"
            /\ UNCHANGED <<rxNext, bufferVars, serial_timer_state, cbPc, packets, restarts>>
       ELSE Restart

\* Fault: the timer stopped for a further byte is not started again.
StartTimerOnce ==
  /\ uartPc \in {"startFirst", "start"}
  /\ armed' = (uartPc = "startFirst")
  /\ uartPc' = IF uartPc = "startFirst" THEN "markFirst" ELSE "mark"
  /\ UNCHANGED <<rxNext, bufferVars, serial_timer_state, cbPc, packets, restarts>>

\* esp_timer_start_once under ESP_ERROR_CHECK.
StartTimer ==
  /\ uartPc \in {"startFirst", "start"}
  /\ IF armed
       THEN Restart
       ELSE /\ armed' = TRUE
            /\ uartPc' = IF uartPc = "startFirst" THEN "markFirst" ELSE "mark"
            /\ UNCHANGED <<rxNext, bufferVars, serial_timer_state, cbPc, packets, restarts>>

\* serial_timer_state = 1, by serial_port_timer_start and, after the first
\* byte of a packet, once more by its caller.
MarkTimer ==
  /\ \/ uartPc = "markFirst" /\ uartPc' = "remark"
     \/ uartPc \in {"remark", "mark"} /\ uartPc' = "select"
  /\ serial_timer_state' = 1
  /\ UNCHANGED <<rxNext, bufferVars, armed, cbPc, packets, restarts>>

UartThread == AppendByte \/ StopTimer \/ StartTimer \/ MarkTimer

-----------------------------------------------------------------------------
(* The timer task.                                                         *)

\* Fault: the flag is cleared before the callback has used the buffer.
TimerFiresUnmarked ==
  /\ armed
  /\ cbPc = "idle"
  /\ armed' = FALSE
  /\ serial_timer_state' = -1
  /\ cbPc' = "terminate"
  /\ UNCHANGED <<uartPc, rxNext, bufferVars, packets, restarts>>

\* esp_timer takes the expired one-shot timer off its list, then calls back.
TimerFires ==
  /\ armed
  /\ cbPc = "idle"
  /\ armed' = FALSE
  /\ cbPc' = "terminate"
  /\ UNCHANGED <<uartPc, rxNext, bufferVars, serial_timer_state, packets, restarts>>

\* Fault: the terminator is stored at the count and not past it, as if the
\* count already told of it.
TerminateInPlace ==
  /\ cbPc = "terminate"
  /\ serial_rx_data' = [serial_rx_data EXCEPT ![serial_data_bytes] = NUL]
  /\ cbPc' = "process"
  /\ UNCHANGED <<uartPc, rxNext, serial_data_bytes, serial_timer_state, armed, packets,
                 restarts>>

\* serial_rx_data[++serial_data_bytes] = '\0'.
Terminate ==
  /\ cbPc = "terminate"
  /\ serial_data_bytes' = serial_data_bytes + 1
  /\ serial_rx_data' = [serial_rx_data EXCEPT ![serial_data_bytes + 1] = NUL]
  /\ cbPc' = "process"
  /\ UNCHANGED <<uartPc, rxNext, serial_timer_state, armed, packets, restarts>>

\* Fault: the terminator's place is counted into the packet.
ProcessCounted ==
  /\ cbPc = "process"
  /\ packets' = Append(packets,
       [i \in 1 .. serial_data_bytes |-> serial_rx_data[i - 1]])
  /\ cbPc' = "empty"
  /\ UNCHANGED <<uartPc, rxNext, bufferVars, serial_timer_state, armed, restarts>>

\* akbi_process_rx_serial_data(serial_rx_data, serial_data_bytes - 1).
Process ==
  /\ cbPc = "process"
  /\ packets' = Append(packets,
       [i \in 1 .. serial_data_bytes - 1 |-> serial_rx_data[i - 1]])
  /\ cbPc' = "empty"
  /\ UNCHANGED <<uartPc, rxNext, bufferVars, serial_timer_state, armed, restarts>>

\* Fault: the count is not reset.
EmptyForgotten ==
  /\ cbPc = "empty"
  /\ cbPc' = "unmark"
  /\ UNCHANGED <<uartPc, rxNext, bufferVars, serial_timer_state, armed, packets, restarts>>

Empty ==
  /\ cbPc = "empty"
  /\ serial_data_bytes' = 0
  /\ cbPc' = "unmark"
  /\ UNCHANGED <<uartPc, rxNext, serial_rx_data, serial_timer_state, armed, packets, restarts>>

Unmark ==
  /\ cbPc = "unmark"
  /\ serial_timer_state' = -1
  /\ cbPc' = "idle"
  /\ UNCHANGED <<uartPc, rxNext, bufferVars, armed, packets, restarts>>

TimerTask == TimerFires \/ Terminate \/ Process \/ Empty \/ Unmark

-----------------------------------------------------------------------------

Next == SelectTimeout \/ ReadByte \/ UartThread \/ TimerTask

Spec == Init /\ [][Next]_vars

\* Both tasks are always scheduled again; nobody makes the CCU send a byte.
Fairness == WF_vars(UartThread) /\ WF_vars(TimerTask)

FairSpec == Spec /\ Fairness

-----------------------------------------------------------------------------
(* Properties.                                                             *)

TypeOK ==
  /\ uartPc \in UartPcs
  /\ rxNext \in 1 .. MaxBytes + 1
  /\ serial_rx_data \in [0 .. BufLen - 1 -> Bytes \cup {NUL}]
  /\ serial_data_bytes \in 0 .. BufLen - 1
  /\ serial_timer_state \in {-1, 1}
  /\ armed \in BOOLEAN
  /\ cbPc \in CbPcs
  /\ packets \in Seq(Seq(Bytes))
  /\ restarts \in Nat

(***************************************************************************)
(* check_and_uart_data never touches the buffer while the callback uses    *)
(* it, although no lock says so, and never arms the timer twice.           *)
(***************************************************************************)
BufferOwned ==
  uartPc \in {"appendFirst", "startFirst", "append", "start"} =>
    cbPc = "idle" /\ ~armed

(***************************************************************************)
(* Bytes in the buffer are never left without a timer that will deliver    *)
(* them, however the flag serial_timer_state and the real timer drift      *)
(* apart.                                                                  *)
(***************************************************************************)
NoStrandedBytes ==
  uartPc = "select" /\ cbPc = "idle" /\ serial_data_bytes > 0 => armed

(***************************************************************************)
(* ESP_ERROR_CHECK(esp_timer_stop(...)) asserts that the timer is running  *)
(* whenever a further byte of a packet arrives.                            *)
(***************************************************************************)
StopFindsTimerRunning == uartPc = "stop" => armed

(***************************************************************************)
(* The abstract view: bytes stored and not yet handed over are pending.    *)
(***************************************************************************)
Held ==
  CASE cbPc = "process" -> serial_data_bytes - 1
    [] cbPc = "empty"   -> 0
    [] OTHER            -> serial_data_bytes

Stored == IF uartPc \in {"appendFirst", "stop", "append"} THEN rxNext - 1 ELSE rxNext

Assembly == INSTANCE PacketAssembly WITH
  next    <- Stored,
  pending <- [i \in 1 .. Held |-> serial_rx_data[i - 1]]

(***************************************************************************)
(* The receive path implements PacketAssembly: it duplicates and reorders  *)
(* nothing, and the only step that loses a byte is a restart.              *)
(***************************************************************************)
RefinesAssembly == Assembly!Spec

(***************************************************************************)
(* The packets handed to akbi_process_rx_serial_data are runs of the line  *)
(* in order.                                                               *)
(***************************************************************************)
PacketsInOrder == Assembly!InOrder

(***************************************************************************)
(* Until a first restart every byte of the line that was stored is in a    *)
(* packet or still pending: the callback's count, which includes its       *)
(* terminator, cuts no byte off and leaves none behind.                    *)
(***************************************************************************)
NoByteLost == Assembly!Unbroken

(***************************************************************************)
(* Bytes in the buffer are eventually handed over (or lost to a restart).  *)
(***************************************************************************)
HeldBytesLeave == serial_data_bytes > 0 ~> serial_data_bytes = 0

=============================================================================

----------------------------- MODULE AudioRelay -----------------------------
(***************************************************************************)
(* The audio path of akbi/ble_ccu: ble_apis.c takes the recording of a     *)
(* personal voice message, or of the name of an address, from the phone    *)
(* in parts of 16 bytes and passes it on to the CCU in chunks of up to     *)
(* 256.  Both kinds use voice_data_buffer; each keeps its own counts in    *)
(* static variables that nothing but the end of its audio resets.          *)
(*                                                                         *)
(* Every message of the phone is one step: only the Bluetooth task touches *)
(* this state.  GuardianBridge has what the same messages do to the FSM    *)
(* and the return code.                                                    *)
(***************************************************************************)
EXTENDS Integers, Sequences

CONSTANTS
  Lengths,         \* Lengths in bytes of the recordings the phone makes.
  PartsPerBuffer,  \* Parts a buffer holds: 256 / 16 in the code.
  BufferNum,       \* VOICE_DATA_BUFFER_NUM: 4 in the code.
  MaxRecordings    \* Number of recordings; bounds the model.

ASSUME LengthsAssumption == Lengths \subseteq Nat \ {0}

ASSUME SizesAssumption ==
  /\ PartsPerBuffer \in Nat \ {0}
  /\ BufferNum \in Nat \ {0}
  /\ MaxRecordings \in Nat

Kinds == {"voice", "address"}
PartSize == 16

VARIABLES
  flag_sending_voice_data,
  voice_message_length,  \* The static variables, one of each per kind;
  chunk_offset,          \*   counted in parts,
  buffer_number,
  received_audio_size,   \*   and in bytes.
  voice_data_buffer,
  recording,   \* Per kind, the phone's latest recording and how far it got.
  recordings,  \* Number of recordings so far.
  kept,        \* Per kind, whether the phone has ended each one in full.
  overlapped,  \* Per kind, whether the latest ran into one of the other kind.
  announced,   \* What the CCU was told of the latest: its length,
  heard,       \*   its parts,
  heardBytes   \*   and the bytes of them.

countVars == <<chunk_offset, buffer_number, received_audio_size>>
bridgeVars ==
  <<flag_sending_voice_data, voice_message_length, countVars, voice_data_buffer>>
phoneVars == <<recording, recordings, kept, overlapped>>
ccuVars == <<announced, heard, heardBytes>>

vars == <<bridgeVars, phoneVars, ccuVars>>

\* A part is known by its recording and its place there; 0 is a header.
Part == Nat \X Nat

Stages == {"none", "length", "open", "ended"}

Idle == [n |-> 0, len |-> 0, sent |-> 0, stage |-> "none"]

InHand(k) == recording[k].stage \in {"length", "open"}

\* Whether the phone has sent all parts of its recording.
AllSent(k) == PartSize * recording[k].sent >= recording[k].len

Other(k) == IF k = "voice" THEN "address" ELSE "voice"

Zero == [k \in Kinds |-> 0]

Blank == [b \in 0 .. BufferNum - 1 |-> [i \in 0 .. PartsPerBuffer - 1 |-> <<0, 0>>]]

Init ==
  /\ flag_sending_voice_data = FALSE
  /\ voice_message_length = Zero
  /\ chunk_offset = Zero
  /\ buffer_number = Zero
  /\ received_audio_size = Zero
  /\ voice_data_buffer = Blank
  /\ recording = [k \in Kinds |-> Idle]
  /\ recordings = 0
  /\ kept = [k \in Kinds |-> TRUE]
  /\ overlapped = [k \in Kinds |-> FALSE]
  /\ announced = Zero
  /\ heard = [k \in Kinds |-> <<>>]
  /\ heardBytes = Zero

-----------------------------------------------------------------------------
(* store_and_send_voice_data, store_and_send_address_visiting_audio_data.  *)

\* ccu_sent_record_voice_msg_raw, ccu_sent_address_visiting_raw: the first
\* bytes of a buffer go to the CCU.
SendRaw(k, buffer, bytes) ==
  /\ heard' = [heard EXCEPT ![k] =
       @ \o [i \in 1 .. (bytes + PartSize - 1) \div PartSize |-> buffer[i - 1]]]
  /\ heardBytes' = [heardBytes EXCEPT ![k] = @ + bytes]
  /\ UNCHANGED announced

\* Fault: the size received is not reset.
ResetOffsets(k) ==
  /\ chunk_offset' = [chunk_offset EXCEPT ![k] = 0]
  /\ buffer_number' = [buffer_number EXCEPT ![k] = 0]
  /\ UNCHANGED received_audio_size

ResetCounts(k) ==
  /\ chunk_offset' = [chunk_offset EXCEPT ![k] = 0]
  /\ buffer_number' = [buffer_number EXCEPT ![k] = 0]
  /\ received_audio_size' = [received_audio_size EXCEPT ![k] = 0]

\* Fault: the last part goes out whole.
WholeBytes(k, parts) == PartSize * parts

\* The length of the last chunk, of which so many parts are stored.
LastBytes(k, parts) == PartSize * parts - (PartSize - (voice_message_length[k] % PartSize))

\* Fault: one part more than a buffer holds is waited for.
OverFull(parts) == parts > PartsPerBuffer

Full(parts) == parts >= PartsPerBuffer

\* Fault: the part is stored behind all that was received.
StoredAtSize(k, part) ==
  [voice_data_buffer[buffer_number[k]] EXCEPT ![received_audio_size[k] \div PartSize] = part]

\* The current buffer with the part stored.
Stored(k, part) ==
  [voice_data_buffer[buffer_number[k]] EXCEPT ![chunk_offset[k]] = part]

StoreAndSend(k, part) ==
  LET b      == buffer_number[k]
      buffer == Stored(k, part)
      size   == received_audio_size[k] + PartSize
      parts  == chunk_offset[k] + 1
  IN /\ voice_data_buffer' = [voice_data_buffer EXCEPT ![b] = buffer]
     /\ IF size >= voice_message_length[k]
          THEN SendRaw(k, buffer, LastBytes(k, parts)) /\ ResetCounts(k)
          ELSE /\ received_audio_size' = [received_audio_size EXCEPT ![k] = size]
               /\ IF Full(parts)
                    THEN /\ SendRaw(k, buffer, PartSize * parts)
                         /\ buffer_number' = [buffer_number EXCEPT ![k] = (b + 1) % BufferNum]
                         /\ chunk_offset' = [chunk_offset EXCEPT ![k] = 0]
                    ELSE /\ chunk_offset' = [chunk_offset EXCEPT ![k] = parts]
                         /\ UNCHANGED <<buffer_number, ccuVars>>
     /\ UNCHANGED <<flag_sending_voice_data, voice_message_length>>

-----------------------------------------------------------------------------
(* The messages of a recording.  The phone may begin one at any time, also *)
(* while another is under way, and may end one before all of it is sent.   *)

Begin(k, len, stage) ==
  /\ recordings < MaxRecordings
  /\ recordings' = recordings + 1
  /\ recording' = [recording EXCEPT ![k] =
       [n |-> recordings + 1, len |-> len, sent |-> 0, stage |-> stage]]
  /\ kept' = [kept EXCEPT ![k] = @ /\ ~InHand(k)]
  /\ overlapped' = [j \in Kinds |-> IF j = k THEN InHand(Other(k))
                                    ELSE overlapped[j] \/ InHand(j)]

\* ccu_sent_record_voice_msg, ccu_sent_address_visiting: a length is announced.
Announce(k, len) ==
  /\ announced' = [announced EXCEPT ![k] = len]
  /\ heard' = [heard EXCEPT ![k] = <<>>]
  /\ heardBytes' = [heardBytes EXCEPT ![k] = 0]

\* The header of a voice message; taken for a part if one is under way.
VoiceHeader(len) ==
  /\ Begin("voice", len, "open")
  /\ IF flag_sending_voice_data
       THEN StoreAndSend("voice", <<recordings + 1, 0>>)
       ELSE /\ flag_sending_voice_data' = TRUE
            /\ voice_message_length' = [voice_message_length EXCEPT !["voice"] = len]
            /\ Announce("voice", len)
            /\ UNCHANGED <<countVars, voice_data_buffer>>

VoiceEnd ==
  /\ recording["voice"].stage = "open"
  /\ recording' = [recording EXCEPT !["voice"].stage = "ended"]
  /\ kept' = [kept EXCEPT !["voice"] = @ /\ AllSent("voice")]
  /\ flag_sending_voice_data' = FALSE
  /\ UNCHANGED <<voice_message_length, countVars, voice_data_buffer,
                 recordings, overlapped, ccuVars>>

\* The length of the audio of an address comes first, nothing is sent for it;
\* then the message with its time stamp.
AddressLength(len) ==
  /\ Begin("address", len, "length")
  /\ voice_message_length' = [voice_message_length EXCEPT !["address"] = len]
  /\ UNCHANGED <<flag_sending_voice_data, countVars, voice_data_buffer, ccuVars>>

AddressStart ==
  /\ recording["address"].stage = "length"
  /\ recording' = [recording EXCEPT !["address"].stage = "open"]
  /\ Announce("address", voice_message_length["address"])
  /\ UNCHANGED <<bridgeVars, recordings, kept, overlapped>>

AddressEnd ==
  /\ recording["address"].stage = "open"
  /\ recording' = [recording EXCEPT !["address"].stage = "ended"]
  /\ kept' = [kept EXCEPT !["address"] = @ /\ AllSent("address")]
  /\ UNCHANGED <<bridgeVars, recordings, overlapped, ccuVars>>

\* The next part of a recording.
SendPart(k) ==
  /\ recording[k].stage = "open"
  /\ ~AllSent(k)
  /\ k = "voice" => flag_sending_voice_data
  /\ recording' = [recording EXCEPT ![k].sent = @ + 1]
  /\ StoreAndSend(k, <<recording[k].n, recording[k].sent + 1>>)
  /\ UNCHANGED <<recordings, kept, overlapped>>

\* The bridge restarts; the phone has to begin again.
Restart ==
  /\ flag_sending_voice_data' = FALSE
  /\ voice_message_length' = Zero
  /\ chunk_offset' = Zero
  /\ buffer_number' = Zero
  /\ received_audio_size' = Zero
  /\ voice_data_buffer' = Blank
  /\ recording' = [k \in Kinds |-> Idle]
  /\ kept' = [k \in Kinds |-> TRUE]
  /\ overlapped' = [k \in Kinds |-> FALSE]
  /\ UNCHANGED <<recordings, ccuVars>>

Next ==
  \/ \E len \in Lengths : VoiceHeader(len) \/ AddressLength(len)
  \/ VoiceEnd
  \/ AddressStart
  \/ AddressEnd
  \/ \E k \in Kinds : SendPart(k)
  \/ Restart

Spec == Init /\ [][Next]_vars

-----------------------------------------------------------------------------
(* Properties.                                                             *)

TypeOK ==
  /\ flag_sending_voice_data \in BOOLEAN
  /\ voice_message_length \in [Kinds -> Nat]
  /\ chunk_offset \in [Kinds -> 0 .. PartsPerBuffer - 1]
  /\ buffer_number \in [Kinds -> 0 .. BufferNum - 1]
  /\ received_audio_size \in [Kinds -> Nat]
  /\ voice_data_buffer \in [0 .. BufferNum - 1 -> [0 .. PartsPerBuffer - 1 -> Part]]
  /\ recording \in [Kinds -> [n : Nat, len : Nat, sent : Nat, stage : Stages]]
  /\ recordings \in 0 .. MaxRecordings
  /\ kept \in [Kinds -> BOOLEAN]
  /\ overlapped \in [Kinds -> BOOLEAN]
  /\ announced \in [Kinds -> Nat]
  /\ heard \in [Kinds -> Seq(Part)]
  /\ heardBytes \in [Kinds -> Nat]

\* The CCU has been told of the latest recording and the phone has kept to the
\* protocol so far.
Followed(k) == recording[k].stage \in {"open", "ended"} /\ kept[k]

(***************************************************************************)
(* What the CCU has heard of a recording are its parts, each once and in   *)
(* their order, unless a recording of the other kind ran into it: the two  *)
(* kinds share voice_data_buffer.                                          *)
(***************************************************************************)
InOrder ==
  \A k \in Kinds :
    Followed(k) /\ ~overlapped[k] =>
      \A i \in 1 .. Len(heard[k]) : heard[k][i] = <<recording[k].n, i>>

\* The current buffer goes on where what the CCU has heard ends: the two together
\* are the parts the phone has sent.
BufferContinues(k) ==
  /\ Len(heard[k]) + chunk_offset[k] = recording[k].sent
  /\ \A i \in 0 .. chunk_offset[k] - 1 :
       voice_data_buffer[buffer_number[k]][i] = <<recording[k].n, Len(heard[k]) + i + 1>>

(***************************************************************************)
(* While a recording goes on, every part of it that the CCU has not heard  *)
(* is still in the current buffer at its place, behind those heard.  A     *)
(* recording of the other kind that runs into it may overwrite its parts   *)
(* there: such recordings are excluded.                                    *)
(***************************************************************************)
NothingLost ==
  \A k \in Kinds :
    Followed(k) /\ ~overlapped[k] /\ ~AllSent(k) => BufferContinues(k)

(***************************************************************************)
(* Once all of a recording is sent the CCU has as many bytes as it was     *)
(* told to expect; if their number is a multiple of 16 it lacks the last   *)
(* part, which store_and_send_* cuts off.                                  *)
(***************************************************************************)
HeardWhole ==
  \A k \in Kinds :
    Followed(k) /\ AllSent(k) =>
      /\ announced[k] = recording[k].len
      /\ heardBytes[k] = announced[k] - (IF announced[k] % PartSize = 0 THEN PartSize ELSE 0)

(***************************************************************************)
(* The static variables are back at zero for the next recording once all   *)
(* parts of one are sent, for all lengths and numbers of buffers.          *)
(***************************************************************************)
CleanStart ==
  \A k \in Kinds :
    (Followed(k) => AllSent(k)) /\ kept[k] =>
      /\ chunk_offset[k] = 0
      /\ buffer_number[k] = 0
      /\ received_audio_size[k] = 0

=============================================================================

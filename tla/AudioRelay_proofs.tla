-------------------------- MODULE AudioRelay_proofs --------------------------
(***************************************************************************)
(* Proofs about AudioRelay, for all lengths and numbers of recordings and  *)
(* all sizes and numbers of buffers.                                       *)
(***************************************************************************)
EXTENDS AudioRelay, SequenceTheorems, TLAPS

\* What SendRaw forwards of a buffer.
LEMMA ChunkParts ==
  ASSUME NEW bytes \in Nat
  PROVE  (bytes + PartSize - 1) \div PartSize \in Nat
BY DEF PartSize

\* The last chunk is never shorter than nothing.
LEMMA LastBytesNat ==
  ASSUME TypeOK, NEW k \in Kinds, NEW parts \in Nat, parts > 0
  PROVE  /\ LastBytes(k, parts) \in Nat
         /\ LastBytes(k, parts) < PartSize * parts
<1>1. voice_message_length[k] \in Nat
  BY DEF TypeOK
<1> QED
  BY <1>1 DEF LastBytes, PartSize

\* The part is stored inside the buffer.
LEMMA StoredType ==
  ASSUME TypeOK, NEW k \in Kinds, NEW part \in Part
  PROVE  Stored(k, part) \in [0 .. PartsPerBuffer - 1 -> Part]
BY DEF TypeOK, Stored

\* A chunk that is no longer than its buffer holds parts.
LEMMA SendRawType ==
  ASSUME TypeOK, NEW k \in Kinds, NEW bytes \in Nat,
         NEW buffer \in [0 .. PartsPerBuffer - 1 -> Part],
         bytes <= PartSize * PartsPerBuffer,
         SendRaw(k, buffer, bytes)
  PROVE  /\ announced' \in [Kinds -> Nat]
         /\ heard' \in [Kinds -> Seq(Part)]
         /\ heardBytes' \in [Kinds -> Nat]
<1> DEFINE n == (bytes + PartSize - 1) \div PartSize
           chunk == [i \in 1 .. n |-> buffer[i - 1]]
<1>1. n \in Nat /\ n <= PartsPerBuffer
  BY SizesAssumption DEF PartSize
<1>2. chunk \in Seq(Part)
  <2>1. \A i \in 1 .. n : buffer[i - 1] \in Part
    BY <1>1, SizesAssumption
  <2> HIDE DEF n
  <2> QED
    BY <1>1, <2>1
<1>3. heard[k] \o chunk \in Seq(Part)
  <2> HIDE DEF chunk
  <2> QED
    BY <1>2 DEF TypeOK
<1>4. heard' = [heard EXCEPT ![k] = @ \o chunk]
  BY DEF SendRaw
<1>5. heard' \in [Kinds -> Seq(Part)]
  <2> HIDE DEF chunk
  <2> QED
    BY <1>3, <1>4 DEF TypeOK
<1> QED
  BY <1>5 DEF TypeOK, SendRaw

\* Storing and forwarding a part keeps the types.
LEMMA StoreAndSendType ==
  ASSUME TypeOK, NEW k \in Kinds, NEW part \in Part, StoreAndSend(k, part)
  PROVE  /\ flag_sending_voice_data' \in BOOLEAN
         /\ voice_message_length' \in [Kinds -> Nat]
         /\ chunk_offset' \in [Kinds -> 0 .. PartsPerBuffer - 1]
         /\ buffer_number' \in [Kinds -> 0 .. BufferNum - 1]
         /\ received_audio_size' \in [Kinds -> Nat]
         /\ voice_data_buffer' \in [0 .. BufferNum - 1 -> [0 .. PartsPerBuffer - 1 -> Part]]
         /\ announced' \in [Kinds -> Nat]
         /\ heard' \in [Kinds -> Seq(Part)]
         /\ heardBytes' \in [Kinds -> Nat]
<1> DEFINE parts == chunk_offset[k] + 1
           buffer == Stored(k, part)
<1>1. parts \in Nat /\ parts > 0 /\ parts <= PartsPerBuffer
  BY SizesAssumption DEF TypeOK
<1>2. buffer \in [0 .. PartsPerBuffer - 1 -> Part]
  BY StoredType
<1>3. /\ flag_sending_voice_data' \in BOOLEAN
      /\ voice_message_length' \in [Kinds -> Nat]
      /\ voice_data_buffer' \in [0 .. BufferNum - 1 -> [0 .. PartsPerBuffer - 1 -> Part]]
  <2> HIDE DEF buffer
  <2>1. voice_data_buffer' = [voice_data_buffer EXCEPT ![buffer_number[k]] = buffer]
    BY DEF StoreAndSend, buffer
  <2>2. UNCHANGED <<flag_sending_voice_data, voice_message_length>>
    BY DEF StoreAndSend
  <2> QED
    BY <1>2, <2>1, <2>2 DEF TypeOK
<1>4. CASE received_audio_size[k] + PartSize >= voice_message_length[k]
  <2>1. SendRaw(k, buffer, LastBytes(k, parts)) /\ ResetCounts(k)
    BY <1>4 DEF StoreAndSend
  <2>2. LastBytes(k, parts) \in Nat /\ LastBytes(k, parts) <= PartSize * PartsPerBuffer
    <3>1. LastBytes(k, parts) \in Nat /\ LastBytes(k, parts) < PartSize * parts
      BY <1>1, LastBytesNat
    <3> QED
      BY <1>1, <3>1, SizesAssumption DEF PartSize
  <2>3. /\ announced' \in [Kinds -> Nat]
        /\ heard' \in [Kinds -> Seq(Part)]
        /\ heardBytes' \in [Kinds -> Nat]
    <3> HIDE DEF buffer
    <3> QED
      BY <1>2, <2>1, <2>2, SendRawType
  <2>4. /\ chunk_offset' \in [Kinds -> 0 .. PartsPerBuffer - 1]
        /\ buffer_number' \in [Kinds -> 0 .. BufferNum - 1]
        /\ received_audio_size' \in [Kinds -> Nat]
    BY <2>1, SizesAssumption DEF TypeOK, ResetCounts
  <2> QED
    BY <1>3, <2>3, <2>4
<1>5. CASE ~(received_audio_size[k] + PartSize >= voice_message_length[k])
  <2>1. received_audio_size' = [received_audio_size EXCEPT ![k] = @ + PartSize]
    BY <1>5 DEF StoreAndSend
  <2>2. received_audio_size' \in [Kinds -> Nat]
    BY <2>1 DEF TypeOK, PartSize
  <2>3. CASE Full(parts)
    <3>1. /\ SendRaw(k, buffer, PartSize * parts)
          /\ buffer_number' = [buffer_number EXCEPT ![k] = (buffer_number[k] + 1) % BufferNum]
          /\ chunk_offset' = [chunk_offset EXCEPT ![k] = 0]
      BY <1>5, <2>3 DEF StoreAndSend
    <3>2. (buffer_number[k] + 1) % BufferNum \in 0 .. BufferNum - 1
      BY SizesAssumption DEF TypeOK
    <3>3. PartSize * parts \in Nat /\ PartSize * parts <= PartSize * PartsPerBuffer
      BY <1>1, SizesAssumption DEF PartSize
    <3>4. /\ announced' \in [Kinds -> Nat]
          /\ heard' \in [Kinds -> Seq(Part)]
          /\ heardBytes' \in [Kinds -> Nat]
      <4> HIDE DEF buffer, parts
      <4> QED
        BY <1>2, <3>1, <3>3, SendRawType
    <3>5. /\ chunk_offset' \in [Kinds -> 0 .. PartsPerBuffer - 1]
          /\ buffer_number' \in [Kinds -> 0 .. BufferNum - 1]
      BY <3>1, <3>2, SizesAssumption DEF TypeOK
    <3> QED
      BY <1>3, <2>2, <3>4, <3>5
  <2>4. CASE ~Full(parts)
    <3>1. /\ chunk_offset' = [chunk_offset EXCEPT ![k] = parts]
          /\ UNCHANGED <<buffer_number, ccuVars>>
      BY <1>5, <2>4 DEF StoreAndSend
    <3>2. parts \in 0 .. PartsPerBuffer - 1
      BY <1>1, <2>4, SizesAssumption DEF Full
    <3> QED
      BY <1>3, <2>2, <3>1, <3>2 DEF TypeOK, ccuVars
  <2> QED
    BY <2>3, <2>4
<1> QED
  BY <1>4, <1>5

-----------------------------------------------------------------------------
(* Types.                                                                  *)

\* A new recording keeps the types of what the phone does.
LEMMA BeginType ==
  ASSUME TypeOK, NEW k \in Kinds, NEW len \in Lengths, NEW stage \in Stages,
         Begin(k, len, stage)
  PROVE  /\ recording' \in [Kinds -> [n : Nat, len : Nat, sent : Nat, stage : Stages]]
         /\ recordings' \in 0 .. MaxRecordings
         /\ kept' \in [Kinds -> BOOLEAN]
         /\ overlapped' \in [Kinds -> BOOLEAN]
<1> USE LengthsAssumption, SizesAssumption
<1>1. recordings \in Nat /\ recordings' = recordings + 1 /\ recordings < MaxRecordings
  BY DEF TypeOK, Begin
<1>2. recordings' \in 0 .. MaxRecordings
  BY <1>1
<1>3. recording' \in [Kinds -> [n : Nat, len : Nat, sent : Nat, stage : Stages]]
  <2>1. [n |-> recordings + 1, len |-> len, sent |-> 0, stage |-> stage]
          \in [n : Nat, len : Nat, sent : Nat, stage : Stages]
    BY <1>1
  <2>2. recording' = [recording EXCEPT ![k] =
          [n |-> recordings + 1, len |-> len, sent |-> 0, stage |-> stage]]
    BY DEF Begin
  <2> QED
    BY <2>1, <2>2 DEF TypeOK
<1>4. kept' \in [Kinds -> BOOLEAN]
  <2>1. (kept[k] /\ ~InHand(k)) \in BOOLEAN
    OBVIOUS
  <2>2. kept' = [kept EXCEPT ![k] = kept[k] /\ ~InHand(k)]
    BY DEF Begin
  <2> QED
    BY <2>1, <2>2 DEF TypeOK
<1>5. overlapped' \in [Kinds -> BOOLEAN]
  <2>1. \A j \in Kinds : (IF j = k THEN InHand(Other(k))
                          ELSE overlapped[j] \/ InHand(j)) \in BOOLEAN
    <3> TAKE j \in Kinds
    <3>1. InHand(Other(k)) \in BOOLEAN
      BY DEF InHand
    <3>2. (overlapped[j] \/ InHand(j)) \in BOOLEAN
      OBVIOUS
    <3> QED
      BY <3>1, <3>2
  <2> QED
    BY <2>1 DEF Begin
<1> QED
  BY <1>2, <1>3, <1>4, <1>5

\* Announcing a length keeps the types of what the CCU knows.
LEMMA AnnounceType ==
  ASSUME TypeOK, NEW k \in Kinds, NEW len \in Nat, Announce(k, len)
  PROVE  /\ announced' \in [Kinds -> Nat]
         /\ heard' \in [Kinds -> Seq(Part)]
         /\ heardBytes' \in [Kinds -> Nat]
BY DEF TypeOK, Announce

\* Ending a recording keeps the types of what the phone does.
LEMMA EndType ==
  ASSUME TypeOK, NEW k \in Kinds,
         recording' = [recording EXCEPT ![k].stage = "ended"],
         kept' = [kept EXCEPT ![k] = @ /\ AllSent(k)]
  PROVE  /\ recording' \in [Kinds -> [n : Nat, len : Nat, sent : Nat, stage : Stages]]
         /\ kept' \in [Kinds -> BOOLEAN]
<1>1. recording' \in [Kinds -> [n : Nat, len : Nat, sent : Nat, stage : Stages]]
  BY DEF TypeOK, Stages
<1>2. (kept[k] /\ AllSent(k)) \in BOOLEAN
  OBVIOUS
<1>3. kept' \in [Kinds -> BOOLEAN]
  BY <1>2 DEF TypeOK
<1> QED
  BY <1>1, <1>3

\* No step leaves the types.
LEMMA TypeStep == TypeOK /\ [Next]_vars => TypeOK'
<1> SUFFICES ASSUME TypeOK, [Next]_vars
             PROVE  TypeOK'
  OBVIOUS
<1> USE LengthsAssumption, SizesAssumption
<1>1. ASSUME NEW len \in Lengths, VoiceHeader(len)
      PROVE  TypeOK'
  <2>1. "voice" \in Kinds /\ "open" \in Stages
    BY DEF Kinds, Stages
  <2>2. Begin("voice", len, "open")
    BY <1>1 DEF VoiceHeader
  <2>3. CASE flag_sending_voice_data
    <3>1. StoreAndSend("voice", <<recordings + 1, 0>>)
      BY <1>1, <2>3 DEF VoiceHeader
    <3>2. <<recordings + 1, 0>> \in Part
      BY DEF TypeOK, Part
    <3> QED
      BY <2>1, <2>2, <3>1, <3>2, BeginType, StoreAndSendType DEF TypeOK
  <2>4. CASE ~flag_sending_voice_data
    <3>1. /\ flag_sending_voice_data' = TRUE
          /\ voice_message_length' = [voice_message_length EXCEPT !["voice"] = len]
          /\ Announce("voice", len)
          /\ UNCHANGED <<countVars, voice_data_buffer>>
      BY <1>1, <2>4 DEF VoiceHeader
    <3> QED
      BY <2>1, <2>2, <3>1, BeginType, AnnounceType DEF TypeOK, countVars
  <2> QED
    BY <2>3, <2>4
<1>2. ASSUME NEW len \in Lengths, AddressLength(len)
      PROVE  TypeOK'
  <2>1. "address" \in Kinds /\ "length" \in Stages
    BY DEF Kinds, Stages
  <2>2. /\ Begin("address", len, "length")
        /\ voice_message_length' = [voice_message_length EXCEPT !["address"] = len]
        /\ UNCHANGED <<flag_sending_voice_data, countVars, voice_data_buffer, ccuVars>>
    BY <1>2 DEF AddressLength
  <2>3. voice_message_length' \in [Kinds -> Nat]
    BY <2>1, <2>2 DEF TypeOK
  <2> QED
    BY <2>1, <2>2, <2>3, BeginType DEF TypeOK, countVars, ccuVars
<1>3. CASE VoiceEnd
  <2>1. "voice" \in Kinds
    BY DEF Kinds
  <2> QED
    BY <1>3, <2>1, EndType DEF VoiceEnd, TypeOK, countVars, ccuVars
<1>4. CASE AddressStart
  <2>1. "address" \in Kinds
    BY DEF Kinds
  <2>2. voice_message_length["address"] \in Nat
    BY <2>1 DEF TypeOK
  <2>3. recording' \in [Kinds -> [n : Nat, len : Nat, sent : Nat, stage : Stages]]
    BY <1>4, <2>1 DEF AddressStart, TypeOK, Stages
  <2>4. /\ announced' \in [Kinds -> Nat]
        /\ heard' \in [Kinds -> Seq(Part)]
        /\ heardBytes' \in [Kinds -> Nat]
    BY <1>4, <2>1, <2>2, AnnounceType DEF AddressStart
  <2>5. UNCHANGED <<bridgeVars, recordings, kept, overlapped>>
    BY <1>4 DEF AddressStart
  <2> QED
    BY <2>3, <2>4, <2>5 DEF TypeOK, bridgeVars, countVars
<1>5. CASE AddressEnd
  <2>1. "address" \in Kinds
    BY DEF Kinds
  <2> QED
    BY <1>5, <2>1, EndType DEF AddressEnd, TypeOK, bridgeVars, countVars, ccuVars
<1>6. ASSUME NEW k \in Kinds, SendPart(k)
      PROVE  TypeOK'
  <2>1. recording[k] \in [n : Nat, len : Nat, sent : Nat, stage : Stages]
    BY DEF TypeOK
  <2>2. <<recording[k].n, recording[k].sent + 1>> \in Part
    BY <2>1 DEF Part
  <2>3. StoreAndSend(k, <<recording[k].n, recording[k].sent + 1>>)
    BY <1>6 DEF SendPart
  <2>4. recording' \in [Kinds -> [n : Nat, len : Nat, sent : Nat, stage : Stages]]
    <3>1. recording' = [recording EXCEPT ![k].sent = @ + 1]
      BY <1>6 DEF SendPart
    <3>2. recording[k].sent + 1 \in Nat
      BY <2>1
    <3> QED
      BY <3>1, <3>2 DEF TypeOK
  <2>5. UNCHANGED <<recordings, kept, overlapped>>
    BY <1>6 DEF SendPart
  <2> QED
    BY <2>2, <2>3, <2>4, <2>5, StoreAndSendType DEF TypeOK
<1>7. CASE Restart
  <2>1. Blank \in [0 .. BufferNum - 1 -> [0 .. PartsPerBuffer - 1 -> Part]]
    BY DEF Blank, Part
  <2>2. Idle \in [n : Nat, len : Nat, sent : Nat, stage : Stages]
    BY DEF Idle, Stages
  <2>3. Zero \in [Kinds -> Nat] /\ \A k \in Kinds : Zero[k] = 0
    BY DEF Zero
  <2>4. /\ Zero \in [Kinds -> 0 .. PartsPerBuffer - 1]
        /\ Zero \in [Kinds -> 0 .. BufferNum - 1]
    BY DEF Zero
  <2>5. recording' \in [Kinds -> [n : Nat, len : Nat, sent : Nat, stage : Stages]]
    BY <1>7, <2>2 DEF Restart
  <2>6. /\ flag_sending_voice_data' \in BOOLEAN
        /\ voice_message_length' \in [Kinds -> Nat]
        /\ chunk_offset' \in [Kinds -> 0 .. PartsPerBuffer - 1]
        /\ buffer_number' \in [Kinds -> 0 .. BufferNum - 1]
        /\ received_audio_size' \in [Kinds -> Nat]
        /\ voice_data_buffer' \in [0 .. BufferNum - 1 -> [0 .. PartsPerBuffer - 1 -> Part]]
    BY <1>7, <2>1, <2>3, <2>4 DEF Restart
  <2>7. kept' \in [Kinds -> BOOLEAN] /\ overlapped' \in [Kinds -> BOOLEAN]
    BY <1>7 DEF Restart
  <2>8. UNCHANGED <<recordings, announced, heard, heardBytes>>
    BY <1>7 DEF Restart, ccuVars
  <2> QED
    BY <2>5, <2>6, <2>7, <2>8 DEF TypeOK
<1>8. CASE UNCHANGED vars
  BY <1>8 DEF vars, bridgeVars, countVars, phoneVars, ccuVars, TypeOK
<1> QED
  BY <1>1, <1>2, <1>3, <1>4, <1>5, <1>6, <1>7, <1>8 DEF Next

\* The initial state has the types.
LEMMA InitType == Init => TypeOK
<1> SUFFICES ASSUME Init
             PROVE  TypeOK
  OBVIOUS
<1>1. Blank \in [0 .. BufferNum - 1 -> [0 .. PartsPerBuffer - 1 -> Part]]
  BY DEF Blank, Part
<1>2. Idle \in [n : Nat, len : Nat, sent : Nat, stage : Stages]
  BY DEF Idle, Stages
<1>3. /\ Zero \in [Kinds -> Nat]
      /\ Zero \in [Kinds -> 0 .. PartsPerBuffer - 1]
      /\ Zero \in [Kinds -> 0 .. BufferNum - 1]
  BY SizesAssumption DEF Zero
<1>4. /\ flag_sending_voice_data \in BOOLEAN
      /\ voice_message_length \in [Kinds -> Nat]
      /\ chunk_offset \in [Kinds -> 0 .. PartsPerBuffer - 1]
      /\ buffer_number \in [Kinds -> 0 .. BufferNum - 1]
      /\ received_audio_size \in [Kinds -> Nat]
      /\ voice_data_buffer \in [0 .. BufferNum - 1 -> [0 .. PartsPerBuffer - 1 -> Part]]
  BY <1>1, <1>3 DEF Init
<1>5. /\ recording \in [Kinds -> [n : Nat, len : Nat, sent : Nat, stage : Stages]]
      /\ recordings \in 0 .. MaxRecordings
      /\ kept \in [Kinds -> BOOLEAN]
      /\ overlapped \in [Kinds -> BOOLEAN]
  BY <1>2, SizesAssumption DEF Init
<1>6. /\ announced \in [Kinds -> Nat]
      /\ heard \in [Kinds -> Seq(Part)]
      /\ heardBytes \in [Kinds -> Nat]
  BY <1>3 DEF Init
<1> QED
  BY <1>4, <1>5, <1>6 DEF TypeOK

(***************************************************************************)
(* Type correctness.  In particular store_and_send_* never writes outside  *)
(* voice_data_buffer and never sends a negative number of bytes, whatever  *)
(* order the phone's messages come in.                                     *)
(***************************************************************************)
THEOREM AudioTypeOK == Spec => []TypeOK
BY InitType, TypeStep, PTL DEF Spec

-----------------------------------------------------------------------------
(* Counts.  HeardWhole and CleanStart rest on what the static              *)
(* variables of one kind count at each stage of a recording of that kind.  *)

Clean(k) ==
  chunk_offset[k] = 0 /\ buffer_number[k] = 0 /\ received_audio_size[k] = 0

\* The bytes the CCU gets of an audio of so many.
Forwarded(len) == len - (IF len % PartSize = 0 THEN PartSize ELSE 0)

Before(k) ==
  /\ Clean(k)
  /\ recording[k].stage = "length" =>
       recording[k].sent = 0 /\ voice_message_length[k] = recording[k].len

During(k) ==
  /\ recording[k].stage = "open"
  /\ voice_message_length[k] = recording[k].len
  /\ announced[k] = recording[k].len
  /\ received_audio_size[k] = PartSize * recording[k].sent
  /\ heardBytes[k] + PartSize * chunk_offset[k] = PartSize * recording[k].sent

After(k) ==
  /\ Clean(k)
  /\ announced[k] = recording[k].len
  /\ heardBytes[k] = Forwarded(recording[k].len)

Counts(k) ==
  /\ recording[k].stage # "none" => recording[k].len > 0
  /\ kept[k] =>
       CASE recording[k].stage \in {"none", "length"} -> Before(k)
         [] OTHER -> IF AllSent(k) THEN After(k) ELSE During(k)

FlagFollows == flag_sending_voice_data <=> recording["voice"].stage = "open"

CountsInv == TypeOK /\ FlagFollows /\ \A k \in Kinds : Counts(k)

\* A step does not touch the recording of kind k or the counts of that kind.
Untouched(k) ==
  /\ recording'[k] = recording[k]
  /\ kept'[k] = kept[k]
  /\ voice_message_length'[k] = voice_message_length[k]
  /\ chunk_offset'[k] = chunk_offset[k]
  /\ buffer_number'[k] = buffer_number[k]
  /\ received_audio_size'[k] = received_audio_size[k]
  /\ announced'[k] = announced[k]
  /\ heard'[k] = heard[k]
  /\ heardBytes'[k] = heardBytes[k]

LEMMA UntouchedCounts ==
  ASSUME NEW k \in Kinds, Counts(k), Untouched(k)
  PROVE  Counts(k)'
BY DEF Counts, Before, During, After, Clean, AllSent, Untouched

\* Storing a part of one kind leaves the counts of the other alone.
LEMMA StoreAndSendFrame ==
  ASSUME TypeOK, NEW k \in Kinds, NEW j \in Kinds, j # k,
         NEW part, StoreAndSend(k, part)
  PROVE  /\ voice_message_length'[j] = voice_message_length[j]
         /\ chunk_offset'[j] = chunk_offset[j]
         /\ buffer_number'[j] = buffer_number[j]
         /\ received_audio_size'[j] = received_audio_size[j]
         /\ announced'[j] = announced[j]
         /\ heard'[j] = heard[j]
         /\ heardBytes'[j] = heardBytes[j]
<1>1. /\ chunk_offset'[j] = chunk_offset[j]
      /\ buffer_number'[j] = buffer_number[j]
      /\ received_audio_size'[j] = received_audio_size[j]
  BY DEF TypeOK, StoreAndSend, ResetCounts
<1>2. \/ \E buffer, bytes : SendRaw(k, buffer, bytes)
      \/ UNCHANGED ccuVars
  BY DEF StoreAndSend
<1>3. /\ announced'[j] = announced[j]
      /\ heard'[j] = heard[j]
      /\ heardBytes'[j] = heardBytes[j]
  BY <1>2 DEF TypeOK, SendRaw, ccuVars
<1> QED
  BY <1>1, <1>3 DEF StoreAndSend

\* What is left of an audio after its whole parts.
LEMMA Remainder ==
  ASSUME NEW len \in Nat, NEW sent \in Nat,
         PartSize * sent < len, len <= PartSize * (sent + 1)
  PROVE  PartSize * sent + (len % PartSize) = Forwarded(len)
BY DEF PartSize, Forwarded

\* The counts of a recording after one more part.
LEMMA SendPartCounts ==
  ASSUME TypeOK, TypeOK', NEW k \in Kinds, Counts(k), SendPart(k)
  PROVE  Counts(k)'
<1>1. /\ recording[k] \in [n : Nat, len : Nat, sent : Nat, stage : Stages]
      /\ recording'[k] = [recording[k] EXCEPT !.sent = @ + 1]
      /\ recording[k].stage = "open"
      /\ kept'[k] = kept[k]
      /\ ~AllSent(k)
  BY DEF TypeOK, SendPart
<1>2. SUFFICES ASSUME kept[k]
               PROVE  IF AllSent(k)' THEN After(k)' ELSE During(k)'
  BY <1>1, <1>2 DEF Counts
<1>3. During(k)
  BY <1>1, <1>2 DEF Counts
<1>4. StoreAndSend(k, <<recording[k].n, recording[k].sent + 1>>)
  BY DEF SendPart
<1> DEFINE len == recording[k].len
           sent == recording[k].sent
           parts == chunk_offset[k] + 1
<1>5. /\ recording'[k].len = len
      /\ recording'[k].sent = sent + 1
      /\ recording'[k].stage = "open"
      /\ len \in Nat /\ sent \in Nat
      /\ voice_message_length'[k] = len
      /\ chunk_offset[k] \in Nat /\ heardBytes[k] \in Nat
  BY <1>1, <1>3, <1>4, SizesAssumption DEF TypeOK, During, StoreAndSend
<1>6. PartSize * sent < len
  BY <1>1, <1>5 DEF AllSent, PartSize
<1>7. received_audio_size[k] + PartSize = PartSize * (sent + 1)
  BY <1>3, <1>5 DEF During, PartSize
<1>8. CASE PartSize * (sent + 1) >= len
  <2>1. /\ \E buffer : SendRaw(k, buffer, LastBytes(k, parts))
        /\ ResetCounts(k)
    BY <1>3, <1>4, <1>7, <1>8 DEF StoreAndSend, During
  <2>2. Clean(k)'
    BY <2>1 DEF ResetCounts, Clean, TypeOK
  <2>3. announced'[k] = announced[k] /\ heardBytes'[k] = heardBytes[k] + LastBytes(k, parts)
    BY <2>1 DEF SendRaw, TypeOK
  <2>4. LastBytes(k, parts) = PartSize * chunk_offset[k] + (len % PartSize)
    BY <1>3, <1>5 DEF LastBytes, During, PartSize
  <2>5. heardBytes'[k] = PartSize * sent + (len % PartSize)
    BY <1>3, <1>5, <2>3, <2>4 DEF During, PartSize
  <2>6. heardBytes'[k] = Forwarded(len)
    BY <1>5, <1>6, <1>8, <2>5, Remainder
  <2>7. AllSent(k)'
    BY <1>5, <1>8 DEF AllSent
  <2> QED
    BY <1>3, <1>5, <2>2, <2>3, <2>6, <2>7 DEF After, During
<1>9. CASE ~(PartSize * (sent + 1) >= len)
  <2>1. ~AllSent(k)'
    BY <1>5, <1>9 DEF AllSent
  <2>2. received_audio_size'[k] = PartSize * (sent + 1)
    BY <1>3, <1>4, <1>7, <1>9 DEF StoreAndSend, During, TypeOK
  <2>3. announced'[k] = announced[k]
    BY <1>3, <1>4, <1>7, <1>9 DEF StoreAndSend, During, SendRaw, ccuVars
  <2>4. heardBytes'[k] + PartSize * chunk_offset'[k] = heardBytes[k] + PartSize * parts
    <3>1. CASE Full(parts)
      <4>1. /\ \E buffer : SendRaw(k, buffer, PartSize * parts)
            /\ chunk_offset' = [chunk_offset EXCEPT ![k] = 0]
        BY <1>3, <1>4, <1>7, <1>9, <3>1 DEF StoreAndSend, During
      <4>2. heardBytes'[k] = heardBytes[k] + PartSize * parts /\ chunk_offset'[k] = 0
        BY <4>1 DEF SendRaw, TypeOK
      <4> QED
        BY <1>5, <4>2 DEF PartSize
    <3>2. CASE ~Full(parts)
      <4>1. /\ chunk_offset' = [chunk_offset EXCEPT ![k] = parts]
            /\ UNCHANGED ccuVars
        BY <1>3, <1>4, <1>7, <1>9, <3>2 DEF StoreAndSend, During
      <4> QED
        BY <4>1 DEF ccuVars, TypeOK
    <3> QED
      BY <3>1, <3>2
  <2>5. heardBytes'[k] + PartSize * chunk_offset'[k] = PartSize * (sent + 1)
    <3>1. heardBytes[k] + PartSize * parts = PartSize * (sent + 1)
      BY <1>3, <1>5 DEF During, PartSize
    <3> QED
      BY <2>4, <3>1
  <2>6. announced[k] = len
    BY <1>3 DEF During
  <2>7. During(k)'
    BY <1>5, <2>2, <2>3, <2>5, <2>6 DEF During
  <2> QED
    BY <2>1, <2>7
<1> QED
  BY <1>5, <1>8, <1>9

\* A new recording begins with clean counts if the last one was kept to.
LEMMA BeginCounts ==
  ASSUME TypeOK, NEW k \in Kinds, NEW len \in Lengths, NEW stage \in Stages,
         Begin(k, len, stage)
  PROVE  /\ recording'[k] = [n |-> recordings + 1, len |-> len, sent |-> 0, stage |-> stage]
         /\ len \in Nat /\ len > 0
         /\ kept'[k] = (kept[k] /\ ~InHand(k))
         /\ \A j \in Kinds : j # k => recording'[j] = recording[j] /\ kept'[j] = kept[j]
BY LengthsAssumption DEF TypeOK, Begin

\* Counts that are clean when no recording is in hand.
LEMMA CleanBetween ==
  ASSUME TypeOK, NEW k \in Kinds, Counts(k), kept[k],
         recording[k].stage # "open" \/ AllSent(k)
  PROVE  Clean(k)
BY DEF Counts, Before, During, After

\* The messages that belong to recordings of kind k.
MessageOf(k) ==
  \/ SendPart(k)
  \/ k = "voice" /\ (VoiceEnd \/ \E len \in Lengths : VoiceHeader(len))
  \/ k = "address" /\ (AddressStart \/ AddressEnd \/ \E len \in Lengths : AddressLength(len))

LEMMA NextIsMessage == Next <=> (\E k \in Kinds : MessageOf(k)) \/ Restart
BY DEF Next, MessageOf, Kinds

\* A message of one kind leaves the recording and the counts of the other alone.
LEMMA MessageFrame ==
  ASSUME TypeOK, NEW k \in Kinds, NEW j \in Kinds, j # k, MessageOf(k)
  PROVE  Untouched(j)
<1>1. ASSUME NEW len \in Lengths, VoiceHeader(len), k = "voice"
      PROVE  Untouched(j)
  <2>1. Begin(k, len, "open") /\ "open" \in Stages
    BY <1>1 DEF VoiceHeader, Stages
  <2>2. recording'[j] = recording[j] /\ kept'[j] = kept[j]
    BY <2>1, BeginCounts
  <2>3. CASE flag_sending_voice_data
    <3>1. StoreAndSend(k, <<recordings + 1, 0>>)
      BY <1>1, <2>3 DEF VoiceHeader
    <3>2. /\ voice_message_length'[j] = voice_message_length[j]
          /\ chunk_offset'[j] = chunk_offset[j]
          /\ buffer_number'[j] = buffer_number[j]
          /\ received_audio_size'[j] = received_audio_size[j]
          /\ announced'[j] = announced[j]
          /\ heard'[j] = heard[j]
          /\ heardBytes'[j] = heardBytes[j]
      BY <3>1, StoreAndSendFrame
    <3> QED
      BY <2>2, <3>2 DEF Untouched
  <2>4. CASE ~flag_sending_voice_data
    <3>1. /\ voice_message_length' = [voice_message_length EXCEPT ![k] = len]
          /\ Announce(k, len)
          /\ UNCHANGED countVars
      BY <1>1, <2>4 DEF VoiceHeader
    <3> QED
      BY <2>2, <3>1 DEF Untouched, Announce, countVars, TypeOK
  <2> QED
    BY <2>3, <2>4
<1>2. ASSUME NEW len \in Lengths, AddressLength(len), k = "address"
      PROVE  Untouched(j)
  <2>1. /\ Begin(k, len, "length")
        /\ "length" \in Stages
        /\ voice_message_length' = [voice_message_length EXCEPT ![k] = len]
        /\ UNCHANGED <<countVars, ccuVars>>
    BY <1>2 DEF AddressLength, Stages
  <2>2. recording'[j] = recording[j] /\ kept'[j] = kept[j]
    BY <2>1, BeginCounts
  <2> QED
    BY <2>1, <2>2 DEF Untouched, countVars, ccuVars, TypeOK
<1>3. CASE k = "voice" /\ VoiceEnd
  BY <1>3 DEF VoiceEnd, Untouched, countVars, ccuVars, TypeOK
<1>4. CASE k = "address" /\ AddressStart
  BY <1>4 DEF AddressStart, Announce, Untouched, bridgeVars, countVars, TypeOK
<1>5. CASE k = "address" /\ AddressEnd
  BY <1>5 DEF AddressEnd, Untouched, bridgeVars, countVars, ccuVars, TypeOK
<1>6. CASE SendPart(k)
  <2>1. /\ recording' = [recording EXCEPT ![k].sent = @ + 1]
        /\ kept' = kept
        /\ StoreAndSend(k, <<recording[k].n, recording[k].sent + 1>>)
    BY <1>6 DEF SendPart
  <2> QED
    BY <2>1, StoreAndSendFrame DEF Untouched, TypeOK
<1> QED
  BY <1>1, <1>2, <1>3, <1>4, <1>5, <1>6 DEF MessageOf

\* What a message does to the counts of its own kind.
LEMMA MessageCounts ==
  ASSUME CountsInv, TypeOK', NEW k \in Kinds, MessageOf(k)
  PROVE  FlagFollows' /\ Counts(k)'
<1> USE DEF CountsInv
<1>0. "voice" \in Kinds /\ "address" \in Kinds /\ "voice" # "address"
  BY DEF Kinds
<1>1. ASSUME NEW len \in Lengths, VoiceHeader(len)
      PROVE  FlagFollows' /\ Counts("voice")'
  <2>1. /\ Begin("voice", len, "open")
        /\ "open" \in Stages
    BY <1>1 DEF VoiceHeader, Stages
  <2>2. /\ recording'["voice"] = [n |-> recordings + 1, len |-> len, sent |-> 0, stage |-> "open"]
        /\ len \in Nat /\ len > 0
        /\ kept'["voice"] = (kept["voice"] /\ ~InHand("voice"))
        /\ \A j \in Kinds : j # "voice" => recording'[j] = recording[j] /\ kept'[j] = kept[j]
    BY <1>0, <2>1, BeginCounts
  <2>3. CASE flag_sending_voice_data
    <3>1. StoreAndSend("voice", <<recordings + 1, 0>>)
      BY <1>1, <2>3 DEF VoiceHeader
    <3>2. FlagFollows'
      BY <2>2, <2>3, <3>1 DEF FlagFollows, StoreAndSend
    <3>3. Counts("voice")'
      <4>1. InHand("voice")
        BY <2>3 DEF FlagFollows, InHand
      <4>2. ~kept'["voice"]
        BY <2>2, <4>1
      <4>3. recording'["voice"].len > 0
        BY <2>2
      <4> QED
        BY <4>2, <4>3 DEF Counts
    <3> QED
      BY <3>2, <3>3
  <2>4. CASE ~flag_sending_voice_data
    <3>1. /\ flag_sending_voice_data' = TRUE
          /\ voice_message_length' = [voice_message_length EXCEPT !["voice"] = len]
          /\ Announce("voice", len)
          /\ UNCHANGED <<countVars, voice_data_buffer>>
      BY <1>1, <2>4 DEF VoiceHeader
    <3>2. FlagFollows'
      BY <2>2, <3>1 DEF FlagFollows
    <3>3. Counts("voice")'
      <4>1. ~AllSent("voice")'
        BY <2>2 DEF AllSent, PartSize
      <4>2. kept["voice"] => Clean("voice")
        BY <1>0, <2>4, CleanBetween DEF FlagFollows
      <4>3. /\ recording'["voice"].stage = "open"
            /\ recording'["voice"].len = len
            /\ recording'["voice"].sent = 0
        BY <2>2
      <4>4. /\ voice_message_length'["voice"] = len
            /\ announced'["voice"] = len
            /\ heardBytes'["voice"] = 0
            /\ chunk_offset' = chunk_offset
            /\ received_audio_size' = received_audio_size
        BY <1>0, <3>1 DEF Announce, countVars, TypeOK
      <4>5. ASSUME kept'["voice"]
            PROVE  During("voice")'
        <5>1. Clean("voice")
          BY <2>2, <4>2, <4>5
        <5>2. chunk_offset'["voice"] = 0 /\ received_audio_size'["voice"] = 0
          BY <4>4, <5>1 DEF Clean
        <5> QED
          BY <4>3, <4>4, <5>2 DEF During, PartSize
      <4> QED
        BY <2>2, <4>1, <4>3, <4>5 DEF Counts
    <3> QED
      BY <3>2, <3>3
  <2> QED
    BY <2>3, <2>4
<1>2. ASSUME NEW len \in Lengths, AddressLength(len)
      PROVE  FlagFollows' /\ Counts("address")'
  <2>1. /\ Begin("address", len, "length")
        /\ "length" \in Stages
        /\ voice_message_length' = [voice_message_length EXCEPT !["address"] = len]
        /\ UNCHANGED <<flag_sending_voice_data, countVars, voice_data_buffer, ccuVars>>
    BY <1>2 DEF AddressLength, Stages
  <2>2. /\ recording'["address"] = [n |-> recordings + 1, len |-> len, sent |-> 0, stage |-> "length"]
        /\ len \in Nat /\ len > 0
        /\ kept'["address"] = (kept["address"] /\ ~InHand("address"))
        /\ \A j \in Kinds : j # "address" => recording'[j] = recording[j] /\ kept'[j] = kept[j]
    BY <1>0, <2>1, BeginCounts
  <2>3. FlagFollows'
    BY <1>0, <2>1, <2>2 DEF FlagFollows
  <2>4. Counts("address")'
    <3>1. kept'["address"] => Clean("address")
      BY <1>0, <2>2, CleanBetween DEF InHand
    <3>2. kept'["address"] => Before("address")'
      BY <1>0, <2>1, <2>2, <3>1 DEF Before, Clean, countVars, TypeOK
    <3> QED
      BY <2>2, <3>2 DEF Counts
  <2> QED
    BY <2>3, <2>4
<1>3. ASSUME VoiceEnd
      PROVE  FlagFollows' /\ Counts("voice")'
  <2>1. /\ recording["voice"].stage = "open"
        /\ recording' = [recording EXCEPT !["voice"].stage = "ended"]
        /\ kept'["voice"] = (kept["voice"] /\ AllSent("voice"))
        /\ \A j \in Kinds : j # "voice" => recording'[j] = recording[j] /\ kept'[j] = kept[j]
        /\ flag_sending_voice_data' = FALSE
        /\ UNCHANGED <<voice_message_length, countVars, ccuVars>>
    BY <1>0, <1>3 DEF VoiceEnd, TypeOK
  <2>2. /\ recording'["voice"].stage = "ended"
        /\ recording'["voice"].len = recording["voice"].len
        /\ recording'["voice"].sent = recording["voice"].sent
    BY <1>0, <2>1 DEF TypeOK
  <2>3. FlagFollows'
    BY <2>1, <2>2 DEF FlagFollows
  <2>4. Counts("voice")'
    <3>1. kept'["voice"] => AllSent("voice") /\ After("voice")
      BY <1>0, <2>1 DEF Counts
    <3>2. AllSent("voice")' <=> AllSent("voice")
      BY <2>2 DEF AllSent
    <3>3. kept'["voice"] => After("voice")'
      BY <2>1, <2>2, <3>1 DEF After, Clean, countVars, ccuVars
    <3> QED
      BY <1>0, <2>1, <2>2, <3>1, <3>2, <3>3 DEF Counts
  <2> QED
    BY <2>3, <2>4
<1>4. ASSUME AddressStart
      PROVE  FlagFollows' /\ Counts("address")'
  <2>1. /\ recording["address"].stage = "length"
        /\ recording' = [recording EXCEPT !["address"].stage = "open"]
        /\ Announce("address", voice_message_length["address"])
        /\ UNCHANGED <<bridgeVars, kept>>
    BY <1>4 DEF AddressStart
  <2>2. /\ recording'["address"].stage = "open"
        /\ recording'["address"].len = recording["address"].len
        /\ recording'["address"].sent = recording["address"].sent
        /\ \A j \in Kinds : j # "address" => recording'[j] = recording[j]
    BY <1>0, <2>1 DEF TypeOK
  <2>3. FlagFollows'
    BY <1>0, <2>1, <2>2 DEF FlagFollows, bridgeVars
  <2>4. Counts("address")'
    <3>1. recording["address"].len > 0 /\ recording["address"].len \in Nat
      BY <1>0, <2>1 DEF Counts, TypeOK
    <3>2. kept["address"] => Before("address") /\ recording["address"].sent = 0
      BY <1>0, <2>1 DEF Counts, Before
    <3>3. kept["address"] => ~AllSent("address")'
      BY <2>2, <3>1, <3>2 DEF AllSent, PartSize
    <3>4. /\ announced'["address"] = voice_message_length["address"]
          /\ heardBytes'["address"] = 0
      BY <1>0, <2>1 DEF Announce, TypeOK
    <3>5. kept["address"] => During("address")'
      BY <2>1, <2>2, <3>2, <3>4 DEF Before, During, Clean, bridgeVars, countVars, PartSize
    <3> QED
      BY <2>1, <2>2, <3>1, <3>3, <3>5 DEF Counts
  <2> QED
    BY <2>3, <2>4
<1>5. ASSUME AddressEnd
      PROVE  FlagFollows' /\ Counts("address")'
  <2>1. /\ recording["address"].stage = "open"
        /\ recording' = [recording EXCEPT !["address"].stage = "ended"]
        /\ kept'["address"] = (kept["address"] /\ AllSent("address"))
        /\ \A j \in Kinds : j # "address" => recording'[j] = recording[j] /\ kept'[j] = kept[j]
        /\ UNCHANGED <<bridgeVars, ccuVars>>
    BY <1>0, <1>5 DEF AddressEnd, TypeOK
  <2>2. /\ recording'["address"].stage = "ended"
        /\ recording'["address"].len = recording["address"].len
        /\ recording'["address"].sent = recording["address"].sent
    BY <1>0, <2>1 DEF TypeOK
  <2>3. FlagFollows'
    BY <1>0, <2>1 DEF FlagFollows, bridgeVars
  <2>4. Counts("address")'
    <3>1. kept'["address"] => AllSent("address") /\ After("address")
      BY <1>0, <2>1 DEF Counts
    <3>2. AllSent("address")' <=> AllSent("address")
      BY <2>2 DEF AllSent
    <3>3. kept'["address"] => After("address")'
      BY <2>1, <2>2, <3>1 DEF After, Clean, bridgeVars, countVars, ccuVars
    <3> QED
      BY <1>0, <2>1, <2>2, <3>1, <3>2, <3>3 DEF Counts
  <2> QED
    BY <2>3, <2>4
<1>6. CASE SendPart(k)
  <2>1. /\ recording' = [recording EXCEPT ![k].sent = @ + 1]
        /\ StoreAndSend(k, <<recording[k].n, recording[k].sent + 1>>)
    BY <1>6 DEF SendPart
  <2>2. FlagFollows'
    BY <1>0, <2>1 DEF FlagFollows, StoreAndSend, TypeOK
  <2>3. Counts(k)'
    BY <1>6, SendPartCounts
  <2> QED
    BY <2>2, <2>3
<1> QED
  BY <1>1, <1>2, <1>3, <1>4, <1>5, <1>6 DEF MessageOf

\* What every step does to the counts.
LEMMA CountsStep ==
  ASSUME CountsInv, TypeOK', [Next]_vars
  PROVE  FlagFollows' /\ \A k \in Kinds : Counts(k)'
<1> USE DEF CountsInv
<1>1. ASSUME NEW j \in Kinds, MessageOf(j)
      PROVE  FlagFollows' /\ \A k \in Kinds : Counts(k)'
  <2>1. FlagFollows' /\ Counts(j)'
    BY <1>1, MessageCounts
  <2>2. ASSUME NEW k \in Kinds, k # j
        PROVE  Counts(k)'
    BY <1>1, <2>2, MessageFrame, UntouchedCounts
  <2> QED
    BY <2>1, <2>2
<1>2. CASE Restart
  BY <1>2 DEF Restart, FlagFollows, Counts, Before, Clean, Idle, Zero, Kinds
<1>3. CASE UNCHANGED vars
  <2>1. FlagFollows'
    BY <1>3 DEF FlagFollows, vars, bridgeVars, phoneVars
  <2>2. ASSUME NEW k \in Kinds
        PROVE  Counts(k)'
    BY <1>3, UntouchedCounts DEF Untouched, vars, bridgeVars, countVars, phoneVars, ccuVars
  <2> QED
    BY <2>1, <2>2
<1> QED
  BY <1>1, <1>2, <1>3, NextIsMessage

LEMMA InitCounts == Init => CountsInv
<1> SUFFICES ASSUME Init
             PROVE  CountsInv
  OBVIOUS
<1>1. FlagFollows
  BY DEF Init, FlagFollows, Kinds, Idle
<1>2. \A k \in Kinds : Counts(k)
  BY DEF Init, Counts, Before, Clean, Idle, Zero
<1> QED
  BY <1>1, <1>2, InitType DEF CountsInv

LEMMA CountsInvariant == Spec => []CountsInv
<1>1. Init => CountsInv
  BY InitCounts
<1>2. CountsInv /\ [Next]_vars => CountsInv'
  BY TypeStep, CountsStep DEF CountsInv
<1> QED
  BY <1>1, <1>2, PTL DEF Spec

(***************************************************************************)
(* The CCU gets the bytes it was told to expect, but for the last 16 of an *)
(* audio whose length is a multiple of 16.                                 *)
(***************************************************************************)
THEOREM AudioHeardWhole == Spec => []HeardWhole
<1>1. CountsInv => HeardWhole
  BY DEF CountsInv, HeardWhole, Followed, Counts, After, Forwarded
<1> QED
  BY <1>1, CountsInvariant, PTL

(***************************************************************************)
(* Every recording begins with the static variables at zero, as long as    *)
(* the phone has ended all before it in full.                              *)
(***************************************************************************)
THEOREM AudioCleanStart == Spec => []CleanStart
<1>1. CountsInv => CleanStart
  <2> SUFFICES ASSUME CountsInv, NEW k \in Kinds, kept[k], Followed(k) => AllSent(k)
               PROVE  Clean(k)
    BY DEF CleanStart, Clean
  <2> QED
    BY CleanBetween DEF CountsInv, Followed
<1> QED
  BY <1>1, CountsInvariant, PTL

-----------------------------------------------------------------------------
(* Order.  What the current buffer of a recording holds continues what the *)
(* CCU has heard of it, as long as no part of the other kind is stored in  *)
(* the same buffer.  Only recordings in hand together can disturb that.    *)

Overlaps ==
  \A k \in Kinds : InHand(k) /\ InHand(Other(k)) => overlapped[k]

HeardInOrder(k) ==
  \A i \in 1 .. Len(heard[k]) : heard[k][i] = <<recording[k].n, i>>

Order(k) ==
  Followed(k) /\ ~overlapped[k] =>
    HeardInOrder(k) /\ (~AllSent(k) => BufferContinues(k))

OrderInv == CountsInv /\ Overlaps /\ \A k \in Kinds : Order(k)

\* Forwarding the first c parts of a buffer that continues h.
LEMMA ForwardOrder ==
  ASSUME NEW h \in Seq(Part), NEW n \in Nat, NEW c \in Nat, NEW size \in Nat, c <= size,
         NEW buffer \in [0 .. size - 1 -> Part],
         \A i \in 1 .. Len(h) : h[i] = <<n, i>>,
         \A i \in 0 .. c - 1 : buffer[i] = <<n, Len(h) + i + 1>>,
         NEW g, g = h \o [i \in 1 .. c |-> buffer[i - 1]]
  PROVE  /\ Len(g) = Len(h) + c
         /\ \A i \in 1 .. Len(g) : g[i] = <<n, i>>
<1> DEFINE chunk == [i \in 1 .. c |-> buffer[i - 1]]
<1>1. chunk \in Seq(Part) /\ Len(chunk) = c
  <2>1. \A i \in 1 .. c : buffer[i - 1] \in Part
    OBVIOUS
  <2> QED
    BY <2>1
<1>2. \A i \in 1 .. c : chunk[i] = <<n, Len(h) + i>>
  <2> SUFFICES ASSUME NEW i \in 1 .. c
               PROVE  buffer[i - 1] = <<n, Len(h) + i>>
    OBVIOUS
  <2>1. i - 1 \in 0 .. c - 1
    OBVIOUS
  <2>2. buffer[i - 1] = <<n, Len(h) + (i - 1) + 1>>
    BY <2>1
  <2>3. Len(h) + (i - 1) + 1 = Len(h) + i
    BY Len(h) \in Nat
  <2> QED
    BY <2>2, <2>3
<1>0. Len(h) \in Nat
  BY LenProperties
<1>2a. g = h \o chunk
  OBVIOUS
<1> HIDE DEF chunk
<1>3. /\ Len(g) = Len(h) + c
      /\ \A i \in 1 .. Len(h) + c : g[i] = IF i <= Len(h) THEN h[i] ELSE chunk[i - Len(h)]
  <2>1. /\ Len(h \o chunk) = Len(h) + Len(chunk)
        /\ \A i \in 1 .. Len(h) + Len(chunk) :
             (h \o chunk)[i] = IF i <= Len(h) THEN h[i] ELSE chunk[i - Len(h)]
    BY <1>1, ConcatProperties, Zenon
  <2> QED
    BY <1>1, <1>2a, <2>1
<1>4. ASSUME NEW i \in 1 .. Len(g)
      PROVE  g[i] = <<n, i>>
  <2>1. CASE i <= Len(h)
    <3>1. g[i] = h[i]
      BY <1>3, <2>1
    <3> QED
      BY <2>1, <3>1
  <2>2. CASE i > Len(h)
    <3>1. i - Len(h) \in 1 .. c
      BY <1>0, <1>3, <2>2
    <3>2. g[i] = chunk[i - Len(h)]
      BY <1>0, <1>3, <2>2
    <3>3. Len(h) + (i - Len(h)) = i
      BY <1>0, <1>3
    <3> QED
      BY <1>2, <3>1, <3>2, <3>3
  <2> QED
    BY <2>1, <2>2
<1> QED
  BY <1>3, <1>4 DEF chunk

\* The order of a recording after one more part of it.
LEMMA SendPartOrder ==
  ASSUME TypeOK, TypeOK', NEW k \in Kinds, Counts(k), Order(k), SendPart(k)
  PROVE  Order(k)'
<1>1. /\ recording[k] \in [n : Nat, len : Nat, sent : Nat, stage : Stages]
      /\ recording'[k] = [recording[k] EXCEPT !.sent = @ + 1]
      /\ recording[k].stage = "open"
      /\ kept' = kept /\ overlapped' = overlapped
      /\ ~AllSent(k)
      /\ StoreAndSend(k, <<recording[k].n, recording[k].sent + 1>>)
  BY DEF TypeOK, SendPart
<1> DEFINE n == recording[k].n
           len == recording[k].len
           sent == recording[k].sent
           off == chunk_offset[k]
           b == buffer_number[k]
           h == heard[k]
           part == <<n, sent + 1>>
           buffer == Stored(k, part)
<1>2. SUFFICES ASSUME kept[k], ~overlapped[k]
               PROVE  HeardInOrder(k)' /\ (~AllSent(k)' => BufferContinues(k)')
  BY <1>1, <1>2 DEF Order, Followed
<1>3. HeardInOrder(k) /\ BufferContinues(k) /\ During(k)
  BY <1>1, <1>2 DEF Order, Followed, Counts
<1>4. /\ recording'[k].n = n /\ recording'[k].len = len /\ recording'[k].sent = sent + 1
      /\ n \in Nat /\ len \in Nat /\ sent \in Nat
  BY <1>1
<1>5. /\ h \in Seq(Part) /\ Len(h) \in Nat
      /\ off \in 0 .. PartsPerBuffer - 1 /\ off \in Nat /\ off + 1 <= PartsPerBuffer
      /\ b \in 0 .. BufferNum - 1
      /\ PartsPerBuffer \in Nat
  <2>1. heard[k] \in Seq(Part)
    BY DEF TypeOK
  <2>2. Len(heard[k]) \in Nat
    BY <2>1, LenProperties
  <2>3. /\ off \in 0 .. PartsPerBuffer - 1
        /\ b \in 0 .. BufferNum - 1
    BY DEF TypeOK
  <2>4. PartsPerBuffer \in Nat /\ off \in Nat /\ off + 1 <= PartsPerBuffer
    BY <2>3, SizesAssumption
  <2> QED
    BY <2>1, <2>2, <2>3, <2>4
<1>6. /\ part \in Part
      /\ buffer \in [0 .. PartsPerBuffer - 1 -> Part]
  BY <1>4, StoredType DEF Part
<1>7. \A i \in 0 .. off : buffer[i] = <<n, Len(h) + i + 1>>
  <2> SUFFICES ASSUME NEW i \in 0 .. off
               PROVE  buffer[i] = <<n, Len(h) + i + 1>>
    OBVIOUS
  <2>1. i \in 0 .. PartsPerBuffer - 1
    BY <1>5
  <2>2. buffer = [voice_data_buffer[b] EXCEPT ![off] = part]
    BY DEF Stored
  <2>3. voice_data_buffer[b] \in [0 .. PartsPerBuffer - 1 -> Part]
    BY <1>5 DEF TypeOK
  <2>4. CASE i = off
    <3>1. buffer[i] = part
      BY <2>1, <2>2, <2>3, <2>4
    <3>2. Len(h) + i + 1 = sent + 1
      BY <1>3, <2>4 DEF BufferContinues
    <3> QED
      BY <3>1, <3>2
  <2>5. CASE i # off
    <3>1. buffer[i] = voice_data_buffer[b][i]
      BY <2>1, <2>2, <2>3, <2>5
    <3>2. i \in 0 .. off - 1
      BY <1>5, <2>5
    <3> QED
      BY <1>3, <3>1, <3>2 DEF BufferContinues
  <2> QED
    BY <2>4, <2>5
<1>8. \A i \in 1 .. Len(h) : h[i] = <<n, i>>
  BY <1>3 DEF HeardInOrder
\* Forwarding c of the parts that are now in the buffer.
<1>9. ASSUME NEW c \in Nat, c <= off + 1,
             heard'[k] = h \o [i \in 1 .. c |-> buffer[i - 1]]
      PROVE  Len(heard'[k]) = Len(h) + c /\ HeardInOrder(k)'
  <2> HIDE DEF buffer, h, n
  <2>1. \A i \in 0 .. c - 1 : buffer[i] = <<n, Len(h) + i + 1>>
    <3> SUFFICES ASSUME NEW i \in 0 .. c - 1
                 PROVE  buffer[i] = <<n, Len(h) + i + 1>>
      OBVIOUS
    <3>1. off \in Nat
      BY <1>5
    <3>2. i \in 0 .. off
      BY <1>9, <3>1
    <3> QED
      BY <1>7, <3>2
  <2>2. c <= PartsPerBuffer
    BY <1>5, <1>9
  <2>3. /\ Len(heard'[k]) = Len(h) + c
        /\ \A i \in 1 .. Len(heard'[k]) : heard'[k][i] = <<n, i>>
    <3>1. h \in Seq(Part) /\ n \in Nat /\ PartsPerBuffer \in Nat
      BY <1>4, <1>5
    <3>2. buffer \in [0 .. PartsPerBuffer - 1 -> Part]
      BY <1>6
    <3> QED
      BY <1>8, <1>9, <2>1, <2>2, <3>1, <3>2, ForwardOrder, SMTT(30)
  <2> QED
    BY <1>4, <2>3 DEF HeardInOrder, n
<1>10. received_audio_size[k] + PartSize = PartSize * (sent + 1)
  BY <1>3, <1>4 DEF During, PartSize
<1>11. CASE PartSize * (sent + 1) >= len
  <2>1. AllSent(k)'
    BY <1>4, <1>11 DEF AllSent
  <2>2. SendRaw(k, buffer, LastBytes(k, off + 1))
    BY <1>1, <1>3, <1>10, <1>11 DEF StoreAndSend, During
  <2> DEFINE bytes == LastBytes(k, off + 1)
             c == (bytes + PartSize - 1) \div PartSize
  <2>3. bytes \in Nat /\ bytes < PartSize * (off + 1)
    BY <1>5, LastBytesNat
  <2>4. c \in Nat /\ c <= off + 1
    <3> HIDE DEF bytes
    <3> QED
      BY <1>5, <2>3 DEF PartSize
  <2>5. heard'[k] = h \o [i \in 1 .. c |-> buffer[i - 1]]
    BY <2>2 DEF SendRaw, TypeOK
  <2>6. HeardInOrder(k)'
    <3> HIDE DEF c, buffer
    <3> QED
      BY <1>9, <2>4, <2>5
  <2> QED
    BY <2>1, <2>6
<1>12. CASE ~(PartSize * (sent + 1) >= len) /\ Full(off + 1)
  <2>1. /\ SendRaw(k, buffer, PartSize * (off + 1))
        /\ chunk_offset' = [chunk_offset EXCEPT ![k] = 0]
    BY <1>1, <1>3, <1>10, <1>12 DEF StoreAndSend, During
  <2>2. (PartSize * (off + 1) + PartSize - 1) \div PartSize = off + 1
    BY <1>5 DEF PartSize
  <2>3. heard'[k] = h \o [i \in 1 .. off + 1 |-> buffer[i - 1]]
    BY <2>1, <2>2 DEF SendRaw, TypeOK
  <2>4. Len(heard'[k]) = Len(h) + (off + 1) /\ HeardInOrder(k)'
    <3>1. off + 1 \in Nat /\ off + 1 <= off + 1
      BY <1>5
    <3> HIDE DEF buffer
    <3> QED
      BY <1>9, <2>3, <3>1
  <2>5. chunk_offset'[k] = 0
    BY <2>1 DEF TypeOK
  <2>6. Len(heard'[k]) + chunk_offset'[k] = sent + 1
    <3>1. Len(h) + off = sent
      BY <1>3 DEF BufferContinues
    <3>2. Len(heard'[k]) = Len(h) + (off + 1)
      BY <2>4
    <3>3. Len(h) \in Nat /\ off \in Nat /\ sent \in Nat
      BY <1>4, <1>5
    <3> HIDE DEF h, off, sent
    <3> QED
      BY <2>5, <3>1, <3>2, <3>3
  <2>7. BufferContinues(k)'
    BY <1>4, <2>5, <2>6 DEF BufferContinues
  <2> QED
    BY <2>4, <2>7
<1>13. CASE ~(PartSize * (sent + 1) >= len) /\ ~Full(off + 1)
  <2>1. /\ chunk_offset' = [chunk_offset EXCEPT ![k] = off + 1]
        /\ UNCHANGED <<buffer_number, ccuVars>>
        /\ voice_data_buffer' = [voice_data_buffer EXCEPT ![b] = buffer]
    BY <1>1, <1>3, <1>10, <1>13 DEF StoreAndSend, During
  <2>2. /\ chunk_offset'[k] = off + 1
        /\ buffer_number'[k] = b
        /\ heard'[k] = h
    BY <2>1 DEF TypeOK, ccuVars
  <2>3. voice_data_buffer'[b] = buffer
    BY <1>5, <2>1 DEF TypeOK
  <2>4. HeardInOrder(k)'
    BY <1>4, <1>8, <2>2 DEF HeardInOrder
  <2>5. Len(heard'[k]) + chunk_offset'[k] = sent + 1
    BY <1>3, <1>4, <1>5, <2>2 DEF BufferContinues
  <2>6. \A i \in 0 .. chunk_offset'[k] - 1 :
          voice_data_buffer'[buffer_number'[k]][i] = <<n, Len(heard'[k]) + i + 1>>
    <3> HIDE DEF buffer
    <3> QED
      BY <1>5, <1>7, <2>2, <2>3
  <2>7. BufferContinues(k)'
    BY <1>4, <2>5, <2>6 DEF BufferContinues
  <2> QED
    BY <2>4, <2>7
<1> QED
  BY <1>11, <1>12, <1>13

\* Parts of the other kind disturb only a recording that overlaps with theirs.
LEMMA UntouchedOrder ==
  ASSUME NEW k \in Kinds, Counts(k), Order(k), Untouched(k),
         overlapped[k] => overlapped'[k],
         voice_data_buffer' = voice_data_buffer \/ (InHand(k) => overlapped'[k])
  PROVE  Order(k)'
<1>1. /\ Followed(k)' <=> Followed(k)
      /\ AllSent(k)' <=> AllSent(k)
      /\ HeardInOrder(k)' <=> HeardInOrder(k)
  BY DEF Untouched, Followed, AllSent, HeardInOrder
<1>2. SUFFICES ASSUME Followed(k), ~overlapped[k], ~overlapped'[k], ~AllSent(k),
                      BufferContinues(k)
               PROVE  BufferContinues(k)'
  BY <1>1, <1>2 DEF Order
<1>3. InHand(k)
  BY <1>2 DEF Followed, Counts, During, InHand
<1>4. voice_data_buffer' = voice_data_buffer
  BY <1>2, <1>3
<1> QED
  BY <1>2, <1>4 DEF BufferContinues, Untouched

\* What a message does to the order of the recording of its own kind.
LEMMA MessageOrder ==
  ASSUME OrderInv, CountsInv', NEW k \in Kinds, MessageOf(k)
  PROVE  Order(k)'
<1> USE DEF OrderInv, CountsInv
<1>1. ASSUME NEW len \in Lengths, VoiceHeader(len), k = "voice"
      PROVE  Order(k)'
  <2>1. Begin(k, len, "open") /\ "open" \in Stages
    BY <1>1 DEF VoiceHeader, Stages
  <2>2. /\ recording'[k] = [n |-> recordings + 1, len |-> len, sent |-> 0, stage |-> "open"]
        /\ kept'[k] = (kept[k] /\ ~InHand(k))
    BY <2>1, BeginCounts
  <2>3. CASE flag_sending_voice_data
    <3>1. InHand(k)
      BY <1>1, <2>3 DEF FlagFollows, InHand
    <3>2. ~kept'[k]
      BY <2>2, <3>1
    <3> QED
      BY <3>2 DEF Order, Followed
  <2>4. CASE ~flag_sending_voice_data
    <3>1. Announce(k, len) /\ UNCHANGED countVars
      BY <1>1, <2>4 DEF VoiceHeader
    <3>2. heard'[k] = <<>> /\ chunk_offset'[k] = chunk_offset[k]
      BY <3>1 DEF Announce, countVars, TypeOK
    <3>3. kept[k] => chunk_offset[k] = 0
      BY <1>1, <2>4, CleanBetween DEF FlagFollows, Clean
    <3>4. kept'[k] => chunk_offset'[k] = 0
      BY <2>2, <3>2, <3>3
    <3>5. recording'[k].sent = 0
      BY <2>2
    <3>6. HeardInOrder(k)' /\ (kept'[k] => BufferContinues(k)')
      BY <3>2, <3>4, <3>5 DEF HeardInOrder, BufferContinues
    <3> QED
      BY <3>6 DEF Order, Followed
  <2> QED
    BY <2>3, <2>4
<1>2. ASSUME NEW len \in Lengths, AddressLength(len), k = "address"
      PROVE  Order(k)'
  <2>1. Begin(k, len, "length") /\ "length" \in Stages
    BY <1>2 DEF AddressLength, Stages
  <2>2. recording'[k] = [n |-> recordings + 1, len |-> len, sent |-> 0, stage |-> "length"]
    BY <2>1, BeginCounts
  <2>3. recording'[k].stage = "length"
    BY <2>2
  <2> QED
    BY <2>3 DEF Order, Followed
<1>3. ASSUME recording[k].stage = "open",
             recording' = [recording EXCEPT ![k].stage = "ended"],
             kept' = [kept EXCEPT ![k] = @ /\ AllSent(k)],
             UNCHANGED <<overlapped, heard>>
      PROVE  Order(k)'
  <2>1. /\ recording'[k].stage = "ended"
        /\ recording'[k].n = recording[k].n
        /\ recording'[k].len = recording[k].len
        /\ recording'[k].sent = recording[k].sent
        /\ kept'[k] = (kept[k] /\ AllSent(k))
    BY <1>3 DEF TypeOK
  <2>2. kept'[k] => Followed(k) /\ AllSent(k) /\ AllSent(k)'
    BY <1>3, <2>1 DEF Followed, AllSent
  <2>3. HeardInOrder(k)' <=> HeardInOrder(k)
    BY <1>3, <2>1 DEF HeardInOrder
  <2> QED
    BY <1>3, <2>2, <2>3 DEF Order, Followed
<1>4. CASE k = "address" /\ AddressStart
  <2>1. /\ recording[k].stage = "length"
        /\ recording' = [recording EXCEPT ![k].stage = "open"]
        /\ Announce(k, voice_message_length[k])
        /\ UNCHANGED <<bridgeVars, kept>>
    BY <1>4 DEF AddressStart
  <2>2. /\ recording'[k].sent = recording[k].sent
        /\ heard'[k] = <<>>
        /\ chunk_offset' = chunk_offset
    BY <2>1 DEF Announce, bridgeVars, countVars, TypeOK
  <2>3. kept[k] => chunk_offset[k] = 0 /\ recording[k].sent = 0
    BY <2>1 DEF Counts, Before, Clean
  <2>4. HeardInOrder(k)' /\ (kept'[k] => BufferContinues(k)')
    BY <2>1, <2>2, <2>3 DEF HeardInOrder, BufferContinues
  <2> QED
    BY <2>4 DEF Order, Followed
<1>5. CASE SendPart(k)
  BY <1>5, SendPartOrder
<1>6. CASE k = "voice" /\ VoiceEnd
  BY <1>3, <1>6 DEF VoiceEnd, ccuVars
<1>7. CASE k = "address" /\ AddressEnd
  BY <1>3, <1>7 DEF AddressEnd, ccuVars
<1> QED
  BY <1>1, <1>2, <1>4, <1>5, <1>6, <1>7 DEF MessageOf

\* A new recording overlaps with the one of the other kind that is in hand.
LEMMA BeginOverlaps ==
  ASSUME TypeOK, Overlaps, NEW j \in Kinds, NEW len \in Lengths, NEW stage \in Stages,
         Begin(j, len, stage)
  PROVE  /\ Overlaps'
         /\ \A k \in Kinds : k # j => /\ overlapped[k] => overlapped'[k]
                                      /\ InHand(k) => overlapped'[k]
<1>1. /\ \A k \in Kinds : k # j => recording'[k] = recording[k]
      /\ overlapped' = [k \in Kinds |-> IF k = j THEN InHand(Other(j))
                                        ELSE overlapped[k] \/ InHand(k)]
  BY BeginCounts DEF Begin
<1>2. ASSUME NEW k \in Kinds, k # j
      PROVE  Other(j) = k /\ Other(k) = j
  BY <1>2 DEF Kinds, Other
<1>3. ASSUME NEW k \in Kinds, k # j
      PROVE  /\ InHand(k)' <=> InHand(k)
             /\ overlapped'[k] = (overlapped[k] \/ InHand(k))
             /\ overlapped'[j] = InHand(k)
  BY <1>1, <1>2, <1>3 DEF InHand
<1>4. ASSUME NEW k \in Kinds, InHand(k)', InHand(Other(k))'
      PROVE  overlapped'[k]
  <2>1. CASE k = j
    <3>1. Other(j) \in Kinds /\ Other(j) # j
      BY DEF Kinds, Other
    <3> QED
      BY <1>3, <1>4, <2>1, <3>1
  <2>2. CASE k # j
    BY <1>3, <1>4, <2>2
  <2> QED
    BY <2>1, <2>2
<1> QED
  BY <1>3, <1>4 DEF Overlaps

\* A message of one kind keeps the overlaps on record and disturbs the buffer of
\* the other kind only where there is one.
LEMMA MessageOverlaps ==
  ASSUME TypeOK, FlagFollows, Overlaps, NEW j \in Kinds, MessageOf(j)
  PROVE  /\ Overlaps'
         /\ \A k \in Kinds : k # j =>
              /\ overlapped[k] => overlapped'[k]
              /\ voice_data_buffer' = voice_data_buffer \/ (InHand(k) => overlapped'[k])
<1>1. CASE j = "voice" /\ \E len \in Lengths : VoiceHeader(len)
  <2>1. PICK len \in Lengths : VoiceHeader(len)
    BY <1>1
  <2>2. Begin(j, len, "open") /\ "open" \in Stages
    BY <1>1, <2>1 DEF VoiceHeader, Stages
  <2>3. /\ Overlaps'
        /\ \A k \in Kinds : k # j => /\ overlapped[k] => overlapped'[k]
                                     /\ InHand(k) => overlapped'[k]
    BY <2>2, BeginOverlaps
  <2> QED
    BY <2>3
<1>2. CASE j = "address" /\ \E len \in Lengths : AddressLength(len)
  <2>1. PICK len \in Lengths : AddressLength(len)
    BY <1>2
  <2>2. Begin(j, len, "length") /\ "length" \in Stages
    BY <1>2, <2>1 DEF AddressLength, Stages
  <2>3. /\ Overlaps'
        /\ \A k \in Kinds : k # j => /\ overlapped[k] => overlapped'[k]
                                     /\ InHand(k) => overlapped'[k]
    BY <2>2, BeginOverlaps
  <2> QED
    BY <2>3
\* What is left starts no recording.
<1>3. ASSUME UNCHANGED overlapped, \A k \in Kinds : InHand(k)' => InHand(k)
      PROVE  Overlaps'
  BY <1>3 DEF Overlaps, Kinds, Other
<1>4. CASE j = "voice" /\ VoiceEnd
  <2>1. UNCHANGED <<overlapped, voice_data_buffer>>
    BY <1>4 DEF VoiceEnd
  <2>2. \A k \in Kinds : InHand(k)' => InHand(k)
    BY <1>4 DEF VoiceEnd, InHand, TypeOK
  <2> QED
    BY <1>3, <2>1, <2>2
<1>5. CASE j = "address" /\ (AddressStart \/ AddressEnd)
  <2>1. UNCHANGED <<overlapped, voice_data_buffer>>
    BY <1>5 DEF AddressStart, AddressEnd, bridgeVars
  <2>2. \A k \in Kinds : InHand(k)' => InHand(k)
    BY <1>5 DEF AddressStart, AddressEnd, InHand, TypeOK
  <2> QED
    BY <1>3, <2>1, <2>2
<1>6. CASE SendPart(j)
  <2>1. UNCHANGED overlapped
    BY <1>6 DEF SendPart
  <2>2. \A k \in Kinds : InHand(k)' => InHand(k)
    BY <1>6 DEF SendPart, InHand, TypeOK
  <2>3. ASSUME NEW k \in Kinds, k # j, InHand(k)
        PROVE  overlapped[k]
    <3>1. InHand(j)
      BY <1>6 DEF SendPart, InHand
    <3>2. Other(k) = j
      BY <2>3 DEF Kinds, Other
    <3> QED
      BY <2>3, <3>1, <3>2 DEF Overlaps
  <2> QED
    BY <1>3, <2>1, <2>2, <2>3
<1> QED
  BY <1>1, <1>2, <1>4, <1>5, <1>6 DEF MessageOf

LEMMA OrderStep ==
  ASSUME OrderInv, CountsInv', [Next]_vars
  PROVE  Overlaps' /\ \A k \in Kinds : Order(k)'
<1> USE DEF OrderInv, CountsInv
<1>1. ASSUME NEW j \in Kinds, MessageOf(j)
      PROVE  Overlaps' /\ \A k \in Kinds : Order(k)'
  <2>1. Overlaps' /\ Order(j)'
    BY <1>1, MessageOverlaps, MessageOrder
  <2>2. ASSUME NEW k \in Kinds, k # j
        PROVE  Order(k)'
    <3>1. Untouched(k)
      BY <1>1, <2>2, MessageFrame
    <3>2. /\ overlapped[k] => overlapped'[k]
          /\ voice_data_buffer' = voice_data_buffer \/ (InHand(k) => overlapped'[k])
      BY <1>1, <2>2, MessageOverlaps
    <3> QED
      BY <3>1, <3>2, UntouchedOrder
  <2> QED
    BY <2>1, <2>2
<1>2. CASE Restart
  <2>1. \A k \in Kinds : recording'[k].stage = "none"
    BY <1>2 DEF Restart, Idle
  <2> QED
    BY <2>1 DEF Overlaps, InHand, Order, Followed
<1>3. CASE UNCHANGED vars
  <2>1. Overlaps'
    BY <1>3 DEF Overlaps, InHand, vars, phoneVars
  <2>2. ASSUME NEW k \in Kinds
        PROVE  Order(k)'
    <3>1. Untouched(k) /\ UNCHANGED <<overlapped, voice_data_buffer>>
      BY <1>3 DEF Untouched, vars, bridgeVars, countVars, phoneVars, ccuVars
    <3> QED
      BY <3>1, UntouchedOrder
  <2> QED
    BY <2>1, <2>2
<1> QED
  BY <1>1, <1>2, <1>3, NextIsMessage

LEMMA OrderInvariant == Spec => []OrderInv
<1>1. Init => OrderInv
  <2> SUFFICES ASSUME Init
               PROVE  Overlaps /\ \A k \in Kinds : Order(k)
    BY InitCounts DEF OrderInv
  <2>1. \A k \in Kinds : recording[k].stage = "none"
    BY DEF Init, Idle
  <2> QED
    BY <2>1 DEF Overlaps, InHand, Order, Followed
<1>2. OrderInv /\ [Next]_vars => OrderInv'
  <2> SUFFICES ASSUME OrderInv, [Next]_vars
               PROVE  OrderInv'
    OBVIOUS
  <2>1. CountsInv'
    BY TypeStep, CountsStep DEF OrderInv, CountsInv
  <2> QED
    BY <2>1, OrderStep DEF OrderInv
<1> QED
  BY <1>1, <1>2, PTL DEF Spec

(***************************************************************************)
(* What the CCU hears of a recording that none of the other kind ran into  *)
(* are its parts, each once and in their order.                            *)
(***************************************************************************)
THEOREM AudioInOrder == Spec => []InOrder
<1>1. OrderInv => InOrder
  BY DEF OrderInv, InOrder, Order, HeardInOrder
<1> QED
  BY <1>1, OrderInvariant, PTL

(***************************************************************************)
(* While such a recording goes on, the parts of it the CCU has not heard   *)
(* are in the current buffer, in their order behind those it has.          *)
(***************************************************************************)
THEOREM AudioNothingLost == Spec => []NothingLost
<1>1. OrderInv => NothingLost
  BY DEF OrderInv, NothingLost, Order
<1> QED
  BY <1>1, OrderInvariant, PTL

=============================================================================

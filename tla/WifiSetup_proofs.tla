-------------------------- MODULE WifiSetup_proofs --------------------------
(***************************************************************************)
(* Proofs about WifiSetup, for any surroundings, parts and bounds.         *)
(***************************************************************************)
EXTENDS WifiSetup, SequenceTheorems, TLAPS

-----------------------------------------------------------------------------
(* Types.                                                                  *)

\* A name has a row.
NamesFit ==
  \A i \in DOMAIN toBridge : toBridge[i].op = "NAME" =>
    toBridge[i].type \in 1 .. Rows /\ toBridge[i].type <= 20

LEMMA BlankType == Blank \in RowType /\ Zeros \in DataType /\ NoPart \in PartType
  BY DEF Blank, Row, RowType, Nets, Nobody, Zeros, Count, DataType, NoPart, Part, PartType

LEMMA CountType == \A n \in Nat : Count(n) \in DataType
  BY BlankType DEF Count, DataType

LEMMA ClearedType == Cleared.rc = "SUCCESS" /\ Cleared.data \in DataType
                     /\ Cleared \in [rc : {"SUCCESS", "SCANNING", "NOT_READY"}, data : DataType]
  BY BlankType DEF Cleared

LEMMA OverType ==
  ASSUME NEW row \in RowType, NEW net \in Nets, NEW n \in Nat
  PROVE  Over(row, net, n) \in RowType
  BY DEF Over, Row, RowType

LEMMA ShownType ==
  ASSUME NEW row \in RowType, NEW length \in Nat
  PROVE  Shown(row, length) \in DataType
<1> DEFINE room == IF length > 12 THEN 10 ELSE 12
           own  == Least(row.chars, room)
           after == Least(row.after, room - own)
<1>1. room \in Nat /\ row.chars \in Nat /\ row.after \in Nat /\ row.net \in Nets
  BY DEF RowType
<1>2. own \in Nat /\ own <= room
  BY <1>1 DEF Least
<1>3. after \in Nat
  BY <1>1, <1>2 DEF Least
<1>4. Row(row.net, own, after) \in RowType
  BY <1>1, <1>2, <1>3 DEF Row, RowType
<1>5. Shown(row, length) = Name(Row(row.net, own, after), length > 12)
  BY DEF Shown
<1> HIDE DEF own, after, room
<1> QED BY <1>4, <1>5 DEF Name, DataType

LEMMA PartTyped ==
  ASSUME NEW kind \in Kinds \cup {"none", "STAMP"}, NEW n \in Nat, NEW len \in Nat,
         NEW position \in Nat, NEW net \in Nets
  PROVE  /\ Part(kind, n, len, position, net).kind = kind
         /\ kind # "STAMP" => Part(kind, n, len, position, net) \in PartType
  BY DEF Part, PartType

LEMMA MessageType ==
  ASSUME NEW op \in {"SCAN", "CHANGE", "CONFIGURE", "ACTIVATE"},
         NEW first \in PartType, NEW second \in PartType, NEW meant \in TwoParts
  PROVE  Message(op, first, second, meant) \in Requests
  BY DEF Message, Requests

LEMMA SentType ==
  ASSUME NEW kind, NEW saved \in TwoParts, NEW meant \in TwoParts
  PROVE  Sent(kind, saved, meant) \in Seq(Requests)
<1>1. saved[1] \in PartType /\ saved[2] \in PartType
  BY DEF TwoParts
<1>2. [saved[1] EXCEPT !.position = ApId(saved[1])] \in PartType
  BY <1>1 DEF PartType, ApId
<1>3. [saved[1] EXCEPT !.len = Least(@, saved[2].len)] \in PartType
  BY <1>1 DEF PartType, Least
<1> QED BY <1>1, <1>2, <1>3, MessageType DEF Sent

LEMMA AnswerTyped ==
  ASSUME NEW op \in {"NAME", "END", "DONE"}, NEW type \in 0 .. 20, NEW length \in Nat,
         NEW net \in Nets
  PROVE  /\ Answer(op, type, length, net) \in AnswerType
         /\ Answer(op, type, length, net).op = op
         /\ type >= 1 => /\ Answer(op, type, length, net).type >= 1
                         /\ Answer(op, type, length, net).type <= type
  BY DEF Answer, AnswerType, Wire

\* Every name of l has a row.
Fits(l) ==
  \A i \in DOMAIN l : l[i].op = "NAME" => l[i].type \in 1 .. Rows /\ l[i].type <= 20

LEMMA ScanAnswerType ==
  ASSUME NEW scan \in Nat, NEW lengths \in Surroundings
  PROVE  LET l == Append(Names(scan, lengths), Answer("END", 0, 0, Nobody))
         IN l \in Seq(AnswerType) /\ Fits(l)
<1> DEFINE names == Names(scan, lengths)
           end   == Answer("END", 0, 0, Nobody)
<1>1. lengths \in Seq(Nat \ {0}) /\ Len(lengths) <= 20 /\ Len(lengths) <= Rows
  BY SurroundingsAssumption
<1>2. Len(lengths) \in Nat /\ DOMAIN lengths = 1 .. Len(lengths)
  BY <1>1
<1>3. ASSUME NEW i \in 1 .. Len(lengths)
      PROVE  /\ names[i] = Answer("NAME", i, lengths[i], <<scan, i>>)
             /\ names[i] \in AnswerType
             /\ names[i].type \in 1 .. Rows /\ names[i].type <= 20
  <2>1. names[i] = Answer("NAME", i, lengths[i], <<scan, i>>)
    BY <1>2 DEF Names
  <2>a. lengths[i] \in Nat \ {0}
    BY <1>1, ElementOfSeq
  <2> DEFINE length == lengths[i]
             size   == Len(lengths)
  <2>d. length \in Nat \ {0} /\ size \in Nat /\ size <= 20 /\ size <= Rows /\ i \in 1 .. size
    BY <1>1, <1>2, <2>a
  <2> HIDE DEF length, size
  <2>e. length \in Nat /\ i \in 0 .. 20 /\ i >= 1 /\ i <= Rows
    BY <2>d, SizesAssumption
  <2>2. lengths[i] \in Nat /\ i \in 0 .. 20 /\ i >= 1 /\ i <= Rows
    BY <2>e DEF length
  <2>3. <<scan, i>> \in Nets
    BY DEF Nets
  <2> HIDE DEF names
  <2>b. "NAME" \in {"NAME", "END", "DONE"}
    OBVIOUS
  <2>c. /\ Answer("NAME", i, lengths[i], <<scan, i>>) \in AnswerType
        /\ Answer("NAME", i, lengths[i], <<scan, i>>).type >= 1
        /\ Answer("NAME", i, lengths[i], <<scan, i>>).type <= i
    BY <2>2, <2>3, <2>b, AnswerTyped
  <2>4. names[i] \in AnswerType /\ names[i].type >= 1 /\ names[i].type <= i
    BY <2>1, <2>c
  <2>5. names[i].type \in 0 .. 20
    BY <2>4 DEF AnswerType
  <2> DEFINE type == names[i].type
  <2>6. type \in 0 .. 20 /\ type >= 1 /\ type <= i /\ i <= Rows
    BY <2>2, <2>4, <2>5
  <2> HIDE DEF type
  <2>7. type \in 1 .. Rows /\ type <= 20
    BY <2>2, <2>6, SizesAssumption
  <2> QED BY <2>1, <2>4, <2>7 DEF type
<1>4. DOMAIN names = 1 .. Len(lengths)
  BY <1>2 DEF Names
<1>5. names \in Seq(AnswerType) /\ Len(names) = Len(lengths)
  <2>1. names \in [1 .. Len(lengths) -> AnswerType]
    BY <1>2, <1>3 DEF Names
  <2> QED BY <1>2, <2>1
<1>6. end \in AnswerType /\ end.op = "END"
  <2>1. Nobody \in Nets
    BY DEF Nets, Nobody
  <2>2. 0 \in 0 .. 20 /\ 0 \in Nat /\ "END" \in {"NAME", "END", "DONE"}
    OBVIOUS
  <2> QED BY <2>1, <2>2, AnswerTyped
<1> HIDE DEF names, end
<1>7. Append(names, end) \in Seq(AnswerType)
  BY <1>5, <1>6
<1>8. ASSUME NEW i \in DOMAIN Append(names, end), Append(names, end)[i].op = "NAME"
      PROVE  Append(names, end)[i].type \in 1 .. Rows /\ Append(names, end)[i].type <= 20
  <2>1. i \in 1 .. Len(lengths) + 1
    BY <1>5, <1>6, <1>2
  <2>2. i # Len(lengths) + 1
    BY <1>5, <1>6, <1>8
  <2>3. i \in 1 .. Len(lengths) /\ Append(names, end)[i] = names[i]
    BY <1>2, <1>5, <2>1, <2>2
  <2> QED BY <1>3, <2>3
<1>9. Fits(Append(names, end))
  BY <1>8 DEF Fits
<1> QED BY <1>7, <1>9 DEF names, end

LEMMA ConcatFits ==
  ASSUME NEW l \in Seq(AnswerType), NEW r \in Seq(AnswerType), Fits(l), Fits(r)
  PROVE  l \o r \in Seq(AnswerType) /\ Fits(l \o r)
<1>1. l \o r \in Seq(AnswerType) /\ Len(l \o r) = Len(l) + Len(r)
  OBVIOUS
<1>2. ASSUME NEW i \in DOMAIN (l \o r), (l \o r)[i].op = "NAME"
      PROVE  (l \o r)[i].type \in 1 .. Rows /\ (l \o r)[i].type <= 20
  <2>1. i \in 1 .. Len(l) + Len(r)
    BY <1>1
  <2>2. CASE i <= Len(l)
    <3>1. i \in DOMAIN l /\ (l \o r)[i] = l[i]
      BY <2>1, <2>2
    <3> QED BY <1>2, <3>1 DEF Fits
  <2>3. CASE i > Len(l)
    <3>1. i - Len(l) \in DOMAIN r /\ (l \o r)[i] = r[i - Len(l)]
      BY <2>1, <2>3
    <3> QED BY <1>2, <3>1 DEF Fits
  <2> QED BY <2>1, <2>2, <2>3
<1> QED BY <1>1, <1>2 DEF Fits

LEMMA TailFits ==
  ASSUME NEW l \in Seq(AnswerType), l # <<>>, Fits(l)
  PROVE  /\ Tail(l) \in Seq(AnswerType) /\ Fits(Tail(l))
         /\ Head(l) \in AnswerType
         /\ Head(l).op = "NAME" => Head(l).type \in 1 .. Rows /\ Head(l).type <= 20
<1>1. Tail(l) \in Seq(AnswerType) /\ Len(Tail(l)) = Len(l) - 1 /\ Len(l) \in Nat /\ Len(l) >= 1
  OBVIOUS
<1>2. ASSUME NEW i \in DOMAIN Tail(l)
      PROVE  i + 1 \in DOMAIN l /\ Tail(l)[i] = l[i + 1]
  BY <1>1
<1>3. Head(l) = l[1] /\ 1 \in DOMAIN l /\ l[1] \in AnswerType
  BY <1>1
<1> QED BY <1>1, <1>2, <1>3 DEF Fits

\* StoreName keeps the types of the report.
LEMMA StoreNameType ==
  ASSUME TypeOK, NEW m \in AnswerType, m.type \in 1 .. Rows, m.type <= 20, StoreName(m)
  PROVE  /\ wifi_report' \in [1 .. Rows -> RowType]
         /\ wifi_report_length' \in [1 .. Rows -> Nat]
         /\ ap_name' \subseteq 1 .. Rows
         /\ ap_count' \in Nat
         /\ ep_return_message' \in [rc : {"SUCCESS", "SCANNING", "NOT_READY"}, data : DataType]
         /\ UNCHANGED <<bt_state, ssid_index>>
<1> DEFINE names == IF Clears(m) THEN {} ELSE ap_name
           index == IndexIn(m, names)
           n     == LengthIn(m)
<1>1. index \in 1 .. Rows
  BY SizesAssumption DEF IndexIn
<1>2. n \in Nat /\ m.net \in Nets
  BY DEF LengthIn, AnswerType
<1>3. names \subseteq 1 .. Rows
  BY DEF TypeOK
<1>4. wifi_report[index] \in RowType
  BY <1>1 DEF TypeOK
<1>5. Over(wifi_report[index], m.net, n) \in RowType
  BY <1>2, <1>4, OverType
<1>6. /\ ap_name' = names \cup {index}
      /\ ap_count' = IF Clears(m) THEN 1 ELSE ap_count + 1
      /\ wifi_report' = [wifi_report EXCEPT ![index] = Over(wifi_report[index], m.net, n)]
      /\ wifi_report_length' = [wifi_report_length EXCEPT ![index] = n]
      /\ ep_return_message' = [ep_return_message EXCEPT !.rc = "SCANNING"]
      /\ UNCHANGED <<bt_state, ssid_index>>
  BY DEF StoreName
<1> HIDE DEF names, index, n
<1>7. wifi_report' \in [1 .. Rows -> RowType]
  BY <1>5, <1>6 DEF TypeOK
<1>8. wifi_report_length' \in [1 .. Rows -> Nat]
  BY <1>2, <1>6 DEF TypeOK
<1>9. ep_return_message' \in [rc : {"SUCCESS", "SCANNING", "NOT_READY"}, data : DataType]
  BY <1>6 DEF TypeOK
<1>10. ap_name' \subseteq 1 .. Rows
  BY <1>1, <1>3, <1>6
<1>11. ap_count' \in Nat
  <2>1. ap_count \in Nat
    BY DEF TypeOK
  <2> QED BY <1>6, <2>1
<1> QED BY <1>6, <1>7, <1>8, <1>9, <1>10, <1>11

\* A step of the comparison at the end of a command for a scan.
LEMMA RescanStep ==
  Rescan =>
    /\ UNCHANGED <<bt_state, ep_return_message, reportVars, saved_messages, toCcu, toBridge,
                   phoneVars, historyVars>>
    /\ \/ btc \in {"rescan", "rescanComplete", "rescanNames"} /\ btc' = "idle"
       \/ btc = "rescan" /\ btc' = "rescanComplete" /\ bt_state # "SCANNING"
       \/ btc = "rescanComplete" /\ btc' = "rescanNames" /\ bt_state # "COMPLETE"
       \/ btc = "rescanNames" /\ btc' = "force" /\ bt_state # "NAMES"
  BY DEF Rescan, Compare

\* What a read fills in, be it a row or what lies behind the rows.
LEMMA EntryType ==
  ASSUME TypeOK, NEW entry \in Entries(ssid_index)
  PROVE  entry[1] \in RowType /\ entry[2] \in Nat
<1>1. CASE ssid_index < Rows
  <2>1. ssid_index + 1 \in 1 .. Rows
    BY <1>1, SizesAssumption DEF TypeOK
  <2>2. entry = <<wifi_report[ssid_index + 1], wifi_report_length[ssid_index + 1]>>
    BY <1>1 DEF Entries
  <2> QED BY <2>1, <2>2 DEF TypeOK
<1>2. CASE ~(ssid_index < Rows)
  <2>1. entry \in {Blank} \X {0, 13}
    BY <1>2 DEF Entries
  <2> QED BY <2>1, BlankType
<1> QED BY <1>1, <1>2

LEMMA TypeStep == TypeOK /\ NamesFit /\ [Next]_vars => TypeOK'
<1> SUFFICES ASSUME TypeOK, NamesFit, [Next]_vars
             PROVE  TypeOK'
  OBVIOUS
<1> USE DEF reportVars, phoneVars, historyVars
<1> DEFINE EpType == [rc : {"SUCCESS", "SCANNING", "NOT_READY"}, data : DataType]
<1>1. CASE Scan
  <2>1. btc' \in Steps /\ ep_return_message' \in EpType /\ heard' \in Seq(DataType)
    BY <1>1, ClearedType DEF Scan, Steps
  <2>2. scans' \in 0 .. MaxScans
    BY <1>1, SizesAssumption DEF Scan, TypeOK
  <2>3. {reading', hurried', raced', astray'} \subseteq BOOLEAN
    BY <1>1 DEF Scan, TypeOK
  <2> QED BY <1>1, <2>1, <2>2, <2>3 DEF Scan, TypeOK
<1>2. CASE ClearSsids
  <2>1. btc' \in Steps /\ ssid_index' \in Nat
    BY <1>2 DEF ClearSsids, NextStep, Steps
  <2>2. wifi_report' \in [1 .. Rows -> RowType]
    BY <1>2, BlankType DEF ClearSsids
  <2> QED BY <1>2, <2>1, <2>2 DEF ClearSsids, TypeOK
<1>3. CASE SetScanning
  BY <1>3 DEF SetScanning, NextStep, TypeOK, Steps, States
<1>4. CASE AskForScan
  <2>1. toCcu' \in Seq(Requests)
    <3>1. recent \in TwoParts /\ toCcu \in Seq(Requests)
      BY DEF TypeOK
    <3>2. Message("SCAN", NoPart, NoPart, recent) \in Requests
      BY <3>1, BlankType, MessageType
    <3> QED BY <1>4, <3>1, <3>2 DEF AskForScan
  <2> QED BY <1>4, <2>1 DEF AskForScan, NextStep, TypeOK, Steps
<1>5. CASE AskForNames
  BY <1>5, ClearedType DEF AskForNames, TypeOK, Steps
<1>6. CASE Rescan \/ ForceScan
  <2>1. CASE Rescan
    BY <2>1, RescanStep DEF TypeOK, Steps
  <2>2. CASE ForceScan
    <3>1. astray' \in BOOLEAN
      BY <2>2 DEF ForceScan, TypeOK
    <3>2. btc' \in Steps /\ bt_state' \in States
      BY <2>2 DEF ForceScan, Steps, States
    <3> QED BY <2>2, <3>1, <3>2 DEF ForceScan, TypeOK
  <2> QED BY <1>6, <2>1, <2>2
<1>7. CASE Check
  BY <1>7 DEF Check, TypeOK, Steps, States
<1>8. CASE StartNames
  BY <1>8 DEF StartNames, TypeOK, Steps, States
<1>9. CASE FillName
  <2>1. PICK entry \in Entries(ssid_index) :
          /\ ep_return_message' = [ep_return_message EXCEPT !.data = Shown(entry[1], entry[2])]
          /\ ssid_index' = NextRow(entry[2])
    BY <1>9 DEF FillName
  <2>2. Shown(entry[1], entry[2]) \in DataType
    BY EntryType, ShownType
  <2>3. ep_return_message' \in EpType
    BY <2>1, <2>2 DEF TypeOK
  <2>4. ssid_index' \in Nat
    BY <2>1 DEF NextRow, TypeOK
  <2> QED BY <1>9, <2>3, <2>4 DEF FillName, TypeOK, Steps
<1>10. CASE MarkNotReady
  BY <1>10 DEF MarkNotReady, TypeOK, Steps
<1>11. CASE Respond
  <2>1. heard' \in Seq(DataType)
    <3>1. ep_return_message.data \in DataType /\ heard \in Seq(DataType)
      BY DEF TypeOK
    <3> QED BY <1>11, <3>1 DEF Respond
  <2> QED BY <1>11, <2>1 DEF Respond, TypeOK, Steps
<1>12. ASSUME NEW part, WritePart(part),
              part.kind = "STAMP" \/ part \in PartType
       PROVE  TypeOK'
  <2>1. saved_messages' \in TwoParts /\ recent' \in TwoParts
    <3>1. saved_messages \in PartType \X PartType /\ recent \in PartType \X PartType
      BY DEF TypeOK, TwoParts
    <3>2. CASE part.kind = "STAMP"
      BY <1>12, <3>1, <3>2 DEF WritePart, Saved, TwoParts
    <3>3. CASE part.kind # "STAMP"
      <4>1. saved_messages' = [saved_messages EXCEPT ![PlaceOf(part.kind)] = part]
            /\ recent' = <<recent[2], part>> /\ part \in PartType
        BY <1>12, <3>3 DEF WritePart, Saved
      <4>2. PlaceOf(part.kind) = 1 \/ PlaceOf(part.kind) = 2
        BY DEF PlaceOf
      <4>3. saved_messages' \in PartType \X PartType
        BY <3>1, <4>1, <4>2
      <4>4. recent' \in PartType \X PartType
        BY <3>1, <4>1
      <4> QED BY <4>3, <4>4 DEF TwoParts
    <3> QED BY <3>2, <3>3
  <2>2. toCcu' \in Seq(Requests)
    <3>1. toCcu \in Seq(Requests)
      BY DEF TypeOK
    <3>2. toCcu' = toCcu \o Sent(part.kind, saved_messages', recent')
      BY <1>12 DEF WritePart
    <3>3. Sent(part.kind, saved_messages', recent') \in Seq(Requests)
      BY <2>1, SentType
    <3> QED BY <3>1, <3>2, <3>3
  <2>3. bt_state' \in States
    BY <1>12 DEF WritePart, StateAfterPart, States, TypeOK
  <2>4. parts' \in 0 .. MaxCommands
    BY <1>12, SizesAssumption DEF WritePart, TypeOK
  <2>5. ep_return_message' \in EpType /\ heard' = <<>> /\ reading' = FALSE
    BY <1>12, ClearedType DEF WritePart
  <2>6. {reading', hurried', raced', astray'} \subseteq BOOLEAN
    BY <1>12, <2>5 DEF WritePart, TypeOK
  <2>7. heard' \in Seq(DataType)
    BY <2>5
  <2> QED BY <1>12, <2>1, <2>2, <2>3, <2>4, <2>5, <2>6, <2>7 DEF WritePart, TypeOK
<1>13. CASE WriteText
  <2>1. PICK text \in Texts : WritePart(Part(text[1], parts + 1, text[2], 0, Nobody))
    BY <1>13 DEF WriteText
  <2>2. text[1] \in Kinds \cup {"none", "STAMP"} /\ text[2] \in Nat
    BY SizesAssumption DEF Kinds
  <2>3. parts + 1 \in Nat /\ 0 \in Nat /\ Nobody \in Nets
    BY DEF TypeOK, Nobody, Nets
  <2> QED BY <1>12, <2>1, <2>2, <2>3, PartTyped
<1>14. CASE WriteSsid
  <2>1. PICK i \in 2 .. Len(heard) :
          WritePart(Part("SSID", parts + 1, 1, i - 2, IF raced THEN Nobody ELSE heard[i].row.net))
    BY <1>14 DEF WriteSsid
  <2>2. heard \in Seq(DataType) /\ Len(heard) \in Nat
    BY DEF TypeOK
  <2>3. i \in 1 .. Len(heard) /\ i - 2 \in Nat
    BY <2>2
  <2>4. heard[i] \in DataType
    BY <2>2, <2>3, ElementOfSeq
  <2>5. (IF raced THEN Nobody ELSE heard[i].row.net) \in Nets
    BY <2>4 DEF DataType, RowType, Nets, Nobody
  <2>6. parts + 1 \in Nat /\ 1 \in Nat /\ "SSID" \in Kinds \cup {"none", "STAMP"}
    BY DEF TypeOK, Kinds
  <2> QED BY <1>12, <2>1, <2>3, <2>5, <2>6, PartTyped
<1>15. CASE ProcessMessage
  <2>1. toBridge \in Seq(AnswerType) /\ toBridge # <<>> /\ Fits(toBridge)
    BY <1>15 DEF ProcessMessage, TypeOK, NamesFit, Fits
  <2>2. /\ Tail(toBridge) \in Seq(AnswerType)
        /\ Head(toBridge) \in AnswerType
        /\ Head(toBridge).op = "NAME" =>
             Head(toBridge).type \in 1 .. Rows /\ Head(toBridge).type <= 20
    BY <2>1, TailFits
  <2> DEFINE m == Head(toBridge)
  <2>3. /\ CASE m.op = "NAME" -> StoreName(m)
             [] m.op = "END"  -> EndScan
             [] m.op = "DONE" -> EndOther
        /\ toBridge' = Tail(toBridge)
        /\ raced' = (raced \/ (m.op = "END" /\ btc \in {"mark", "respond"}))
        /\ UNCHANGED <<btc, saved_messages, toCcu, phoneVars, found, hurried, astray>>
    BY <1>15 DEF ProcessMessage
  <2>4. {reading', hurried', raced', astray'} \subseteq BOOLEAN
    BY <2>3 DEF TypeOK
  <2>5. m.op \in {"NAME", "END", "DONE"}
    BY <2>2 DEF AnswerType
  <2> HIDE DEF m
  <2>6. CASE m.op = "NAME"
    <3>1. StoreName(m) /\ m \in AnswerType /\ m.type \in 1 .. Rows /\ m.type <= 20
      BY <2>2, <2>3, <2>6 DEF m
    <3> QED BY <2>2, <2>3, <2>4, <3>1, StoreNameType DEF TypeOK
  <2>7. CASE m.op = "END"
    <3>1. EndScan
      BY <2>3, <2>7
    <3>2. Count(ap_count) \in DataType
      BY CountType DEF TypeOK
    <3> QED BY <2>2, <2>3, <2>4, <3>1, <3>2 DEF EndScan, TypeOK, States
  <2>8. CASE m.op = "DONE"
    <3>1. EndOther
      BY <2>3, <2>8
    <3> QED BY <2>2, <2>3, <2>4, <3>1 DEF EndOther, TypeOK, States
  <2> QED BY <2>5, <2>6, <2>7, <2>8
<1>16. CASE CcuServes
  <2>1. toCcu \in Seq(Requests) /\ toCcu # <<>> /\ Tail(toCcu) \in Seq(Requests)
    BY <1>16 DEF CcuServes, TypeOK
  <2>2. found' \in Seq(Surroundings) /\ toBridge' \in Seq(AnswerType)
    <3>1. toBridge \in Seq(AnswerType) /\ found \in Seq(Surroundings) /\ Fits(toBridge)
      BY DEF TypeOK, NamesFit, Fits
    <3>2. CASE CcuScans
      <4>1. PICK lengths \in Surroundings :
              /\ found' = Append(found, lengths)
              /\ toBridge' =
                   toBridge \o Append(Names(Len(found'), lengths), Answer("END", 0, 0, Nobody))
        BY <3>2 DEF CcuScans
      <4>2. found' \in Seq(Surroundings) /\ Len(found') \in Nat
        BY <3>1, <4>1
      <4> QED BY <3>1, <4>1, <4>2, ScanAnswerType
    <3>3. CASE CcuObeys
      <4>1. Nobody \in Nets /\ 0 \in 0 .. 20 /\ 0 \in Nat /\ "DONE" \in {"NAME", "END", "DONE"}
        BY DEF Nets, Nobody
      <4>2. Answer("DONE", 0, 0, Nobody) \in AnswerType
        BY <4>1, AnswerTyped
      <4> QED BY <3>1, <3>3, <4>2 DEF CcuObeys
    <3> QED BY <1>16, <3>2, <3>3 DEF CcuServes
  <2>3. toCcu' = Tail(toCcu)
        /\ UNCHANGED <<btc, bt_state, ep_return_message, reportVars, saved_messages, phoneVars,
                       hurried, raced, astray>>
    BY <1>16 DEF CcuServes
  <2> QED BY <2>1, <2>2, <2>3 DEF TypeOK
<1>17. CASE UNCHANGED vars
  BY <1>17 DEF vars, TypeOK
<1> QED
  BY <1>1, <1>2, <1>3, <1>4, <1>5, <1>6, <1>7, <1>8, <1>9, <1>10, <1>11, <1>13, <1>14,
     <1>15, <1>16, <1>17
  DEF Next, Phone, ScanSteps, ReadSteps

\* The steps of the phone and of the Bluetooth task take nothing off the line.
LEMMA LineStays ==
  Phone \/ ScanSteps \/ ReadSteps => toBridge' = toBridge
<1>1. Scan \/ ClearSsids \/ SetScanning \/ AskForScan \/ AskForNames \/ ForceScan
      => toBridge' = toBridge
  BY DEF Scan, ClearSsids, SetScanning, AskForScan, AskForNames, ForceScan
<1>2. Rescan => toBridge' = toBridge
  BY RescanStep
<1>3. Check \/ StartNames \/ FillName \/ MarkNotReady \/ Respond => toBridge' = toBridge
  BY DEF Check, StartNames, FillName, MarkNotReady, Respond
<1>4. WriteText \/ WriteSsid => toBridge' = toBridge
  BY DEF WriteText, WriteSsid, WritePart
<1> QED BY <1>1, <1>2, <1>3, <1>4 DEF Phone, ScanSteps, ReadSteps

LEMMA NamesFitStep == TypeOK /\ NamesFit /\ [Next]_vars => NamesFit'
<1> SUFFICES ASSUME TypeOK, NamesFit, [Next]_vars
             PROVE  NamesFit'
  OBVIOUS
<1>1. toBridge \in Seq(AnswerType) /\ Fits(toBridge)
  BY DEF TypeOK, NamesFit, Fits
<1>2. SUFFICES Fits(toBridge)'
  BY DEF NamesFit, Fits
<1>3. CASE ProcessMessage
  <2>1. toBridge # <<>> /\ toBridge' = Tail(toBridge)
    BY <1>3 DEF ProcessMessage
  <2> QED BY <1>1, <2>1, TailFits
<1>4. CASE CcuServes
  <2>1. CASE CcuScans
    <3>1. PICK lengths \in Surroundings :
            /\ found' = Append(found, lengths)
            /\ toBridge' =
                 toBridge \o Append(Names(Len(found'), lengths), Answer("END", 0, 0, Nobody))
      BY <2>1 DEF CcuScans
    <3>2. Len(found') \in Nat
      BY <3>1 DEF TypeOK
    <3> QED BY <1>1, <3>1, <3>2, ScanAnswerType, ConcatFits
  <2>2. CASE CcuObeys
    <3> DEFINE done == Answer("DONE", 0, 0, Nobody)
    <3>1. Nobody \in Nets /\ 0 \in 0 .. 20 /\ 0 \in Nat /\ "DONE" \in {"NAME", "END", "DONE"}
      BY DEF Nets, Nobody
    <3>2. done \in AnswerType /\ done.op = "DONE"
      BY <3>1, AnswerTyped
    <3>3. toBridge' = Append(toBridge, done)
      BY <2>2 DEF CcuObeys
    <3> HIDE DEF done
    <3>4. /\ Len(toBridge) \in Nat
          /\ Len(toBridge') = Len(toBridge) + 1
          /\ toBridge'[Len(toBridge) + 1] = done
          /\ \A i \in 1 .. Len(toBridge) : toBridge'[i] = toBridge[i]
          /\ DOMAIN toBridge' = 1 .. Len(toBridge) + 1
          /\ DOMAIN toBridge = 1 .. Len(toBridge)
      BY <1>1, <3>2, <3>3
    <3>5. ASSUME NEW i \in DOMAIN toBridge', toBridge'[i].op = "NAME"
          PROVE  i \in DOMAIN toBridge /\ toBridge'[i] = toBridge[i]
      BY <3>2, <3>4, <3>5
    <3> QED BY <1>1, <3>5 DEF Fits
  <2> QED BY <1>4, <2>1, <2>2 DEF CcuServes
<1>5. CASE Phone \/ ScanSteps \/ ReadSteps \/ UNCHANGED vars
  BY <1>1, <1>5, LineStays DEF vars
<1> QED BY <1>3, <1>4, <1>5 DEF Next

LEMMA InitTypes == Init => TypeOK /\ NamesFit
<1> SUFFICES ASSUME Init
             PROVE  TypeOK /\ NamesFit
  OBVIOUS
<1>1. toCcu \in Seq(Requests) /\ toBridge \in Seq(AnswerType) /\ found \in Seq(Surroundings)
      /\ heard \in Seq(DataType)
  BY DEF Init
<1>2. saved_messages \in TwoParts /\ recent \in TwoParts
  BY BlankType DEF Init, TwoParts
<1>3. /\ wifi_report \in [1 .. Rows -> RowType]
      /\ wifi_report_length \in [1 .. Rows -> Nat]
      /\ ssid_index \in Nat /\ scans \in 0 .. MaxScans /\ parts \in 0 .. MaxCommands
  BY BlankType, SizesAssumption DEF Init
<1>4. TypeOK
  BY <1>1, <1>2, <1>3, ClearedType DEF Init, TypeOK, Steps, States
<1>5. NamesFit
  BY DEF Init, NamesFit
<1> QED BY <1>4, <1>5

LEMMA TypesHold == Spec => [](TypeOK /\ NamesFit)
<1>1. TypeOK /\ NamesFit /\ [Next]_vars => (TypeOK /\ NamesFit)'
  BY TypeStep, NamesFitStep
<1> QED BY <1>1, InitTypes, PTL DEF Spec

(***************************************************************************)
(* The set-up keeps its types.  In particular no name is stored past the   *)
(* rows of the reports, although the code compares the CCU's numbering     *)
(* with nothing: the CCU finds at most 20 networks.                        *)
(***************************************************************************)
THEOREM SetupTypeOK == Spec => []TypeOK
  BY TypesHold, PTL

-----------------------------------------------------------------------------
(* The parts of a command.  A first part is in its place until another     *)
(* part follows; if that is its second part, both are in their places.     *)

PartsKept ==
  /\ recent[2].kind \in {"CURRENT", "SSID", "LATITUDE"} => saved_messages[1] = recent[2]
  /\ <<recent[1].kind, recent[2].kind>> \in Pairs =>
       saved_messages[1] = recent[1] /\ saved_messages[2] = recent[2]

\* What WritePart does to the parts.
LEMMA WritePartKeeps ==
  ASSUME TypeOK, PartsKept, NEW part, WritePart(part)
  PROVE  PartsKept'
<1>1. saved_messages \in PartType \X PartType /\ recent \in PartType \X PartType
  BY DEF TypeOK, TwoParts
<1>2. CASE part.kind = "STAMP"
  <2>1. saved_messages' = saved_messages /\ recent' = recent
    BY <1>2 DEF WritePart, Saved
  <2> QED BY <2>1 DEF PartsKept
<1>3. CASE part.kind # "STAMP"
  <2>1. saved_messages' = [saved_messages EXCEPT ![PlaceOf(part.kind)] = part]
        /\ recent' = <<recent[2], part>>
    BY <1>3 DEF WritePart, Saved
  <2>2. recent'[1] = recent[2] /\ recent'[2] = part
    BY <2>1
  <2>3. CASE part.kind \in {"CURRENT", "SSID", "LATITUDE"}
    <3>1. saved_messages' = [saved_messages EXCEPT ![1] = part]
      BY <2>1, <2>3 DEF PlaceOf
    <3>2. saved_messages'[1] = part
      BY <1>1, <3>1
    <3>3. <<recent'[1].kind, recent'[2].kind>> \notin Pairs
      BY <2>2, <2>3 DEF Pairs
    <3> QED BY <2>2, <3>2, <3>3 DEF PartsKept
  <2>4. CASE part.kind \notin {"CURRENT", "SSID", "LATITUDE"}
    <3>1. saved_messages' = [saved_messages EXCEPT ![2] = part]
      BY <2>1, <2>4 DEF PlaceOf
    <3>2. saved_messages'[2] = part /\ saved_messages'[1] = saved_messages[1]
      BY <1>1, <3>1
    <3>3. <<recent'[1].kind, recent'[2].kind>> \in Pairs =>
            recent[2].kind \in {"CURRENT", "SSID", "LATITUDE"}
      BY <2>2 DEF Pairs
    <3> QED BY <2>2, <2>4, <3>2, <3>3 DEF PartsKept
  <2> QED BY <2>3, <2>4
<1> QED BY <1>2, <1>3

\* A message built of kept parts has them whole.
LEMMA SentWhole ==
  ASSUME NEW kind, NEW saved \in TwoParts, NEW meant \in TwoParts,
         <<meant[1].kind, meant[2].kind>> \in Pairs => saved[1] = meant[1] /\ saved[2] = meant[2]
  PROVE  \A i \in DOMAIN Sent(kind, saved, meant) :
           Paired(Sent(kind, saved, meant)[i]) => Whole(Sent(kind, saved, meant)[i])
<1>1. saved[1] \in PartType /\ saved[2] \in PartType
  BY DEF TwoParts
<1>2. SUFFICES ASSUME NEW i \in DOMAIN Sent(kind, saved, meant),
                      Paired(Sent(kind, saved, meant)[i])
               PROVE  Whole(Sent(kind, saved, meant)[i])
  OBVIOUS
<1> DEFINE configured == [saved[1] EXCEPT !.position = ApId(saved[1])]
           cut        == [saved[1] EXCEPT !.len = Least(@, saved[2].len)]
<1>3. /\ configured.n = saved[1].n /\ configured.len = saved[1].len
      /\ cut.n = saved[1].n
      /\ cut.len = saved[1].len \/ saved[2].len < saved[1].len
  BY <1>1 DEF PartType, Least
<1>4. \/ Sent(kind, saved, meant) = <<>>
      \/ Sent(kind, saved, meant) = <<Message("CHANGE", saved[1], saved[2], meant)>>
      \/ Sent(kind, saved, meant) = <<Message("CONFIGURE", configured, saved[2], meant)>>
      \/ Sent(kind, saved, meant) = <<Message("ACTIVATE", cut, saved[2], meant)>>
  BY DEF Sent
<1> HIDE DEF configured, cut
<1>5. /\ Sent(kind, saved, meant) # <<>>
      /\ \/ Sent(kind, saved, meant)[i] = Message("CHANGE", saved[1], saved[2], meant)
         \/ Sent(kind, saved, meant)[i] = Message("CONFIGURE", configured, saved[2], meant)
         \/ Sent(kind, saved, meant)[i] = Message("ACTIVATE", cut, saved[2], meant)
  BY <1>2, <1>4
<1>6. Sent(kind, saved, meant)[i].meant = meant
  BY <1>5 DEF Message
<1>7. saved[1] = meant[1] /\ saved[2] = meant[2]
  BY <1>2, <1>6 DEF Paired
<1> QED BY <1>3, <1>5, <1>6, <1>7 DEF Whole, Message

LEMMA PartsStep ==
  TypeOK /\ TypeOK' /\ PartsKept /\ PartsArrive /\ [Next]_vars => PartsKept' /\ PartsArrive'
<1> SUFFICES ASSUME TypeOK, TypeOK', PartsKept, PartsArrive, [Next]_vars
             PROVE  PartsKept' /\ PartsArrive'
  OBVIOUS
<1> USE DEF phoneVars, historyVars
<1> DEFINE Good(m) == m.op # "SCAN" /\ Paired(m) => Whole(m)
<1>1. toCcu \in Seq(Requests) /\ \A i \in DOMAIN toCcu : Good(toCcu[i])
  BY DEF TypeOK, PartsArrive
<1>2. SUFFICES PartsKept' /\ \A i \in DOMAIN toCcu' : Good(toCcu'[i])
  BY DEF PartsArrive, Paired, Whole
<1> HIDE DEF Good
<1>3. ASSUME NEW part, WritePart(part)
      PROVE  PartsKept' /\ \A i \in DOMAIN toCcu' : Good(toCcu'[i])
  <2> DEFINE sent == Sent(part.kind, saved_messages', recent')
  <2>1. PartsKept'
    BY <1>3, WritePartKeeps
  <2>2. saved_messages' \in TwoParts /\ recent' \in TwoParts
    BY DEF TypeOK
  <2>3. sent \in Seq(Requests) /\ \A i \in DOMAIN sent : Good(sent[i])
    <3>1. sent \in Seq(Requests)
      BY <2>2, SentType
    <3>2. \A i \in DOMAIN sent : Paired(sent[i]) => Whole(sent[i])
      BY <2>1, <2>2, SentWhole DEF PartsKept
    <3> HIDE DEF sent
    <3> QED BY <3>1, <3>2 DEF Good
  <2>4. toCcu' = toCcu \o sent
    BY <1>3 DEF WritePart
  <2> HIDE DEF sent
  <2>5. ASSUME NEW i \in DOMAIN toCcu'
        PROVE  \/ i \in DOMAIN toCcu /\ toCcu'[i] = toCcu[i]
               \/ i - Len(toCcu) \in DOMAIN sent /\ toCcu'[i] = sent[i - Len(toCcu)]
    BY <1>1, <2>3, <2>4
  <2> QED BY <1>1, <2>1, <2>3, <2>5
<1>4. CASE WriteText \/ WriteSsid
  BY <1>3, <1>4 DEF WriteText, WriteSsid
<1>5. CASE AskForScan
  <2> DEFINE scan == Message("SCAN", NoPart, NoPart, recent)
  <2>1. toCcu' = Append(toCcu, scan) /\ UNCHANGED <<saved_messages, recent>>
    BY <1>5 DEF AskForScan
  <2>2. Good(scan)
    BY DEF Good, Message
  <2> HIDE DEF scan
  <2>3. ASSUME NEW i \in DOMAIN toCcu'
        PROVE  (i \in DOMAIN toCcu /\ toCcu'[i] = toCcu[i]) \/ toCcu'[i] = scan
    BY <1>1, <2>1
  <2>4. PartsKept'
    BY <2>1 DEF PartsKept
  <2> QED BY <1>1, <2>2, <2>3, <2>4
<1>6. CASE CcuServes
  <2>1. toCcu # <<>> /\ toCcu' = Tail(toCcu) /\ UNCHANGED <<saved_messages, recent>>
    BY <1>6 DEF CcuServes
  <2>2. ASSUME NEW i \in DOMAIN toCcu'
        PROVE  i + 1 \in DOMAIN toCcu /\ toCcu'[i] = toCcu[i + 1]
    BY <1>1, <2>1
  <2>3. PartsKept'
    BY <2>1 DEF PartsKept
  <2> QED BY <1>1, <2>2, <2>3
<1>7. CASE UNCHANGED <<toCcu, saved_messages, recent>>
  <2>1. PartsKept'
    BY <1>7 DEF PartsKept
  <2> QED BY <1>1, <1>7, <2>1
<1>8. Scan \/ ClearSsids \/ SetScanning \/ AskForNames \/ Rescan \/ ForceScan \/ Check
      \/ StartNames \/ FillName \/ MarkNotReady \/ Respond \/ ProcessMessage \/ UNCHANGED vars
      => UNCHANGED <<toCcu, saved_messages, recent>>
  BY RescanStep DEF Scan, ClearSsids, SetScanning, AskForNames, ForceScan, Check, StartNames,
                    FillName, MarkNotReady, Respond, ProcessMessage, vars
<1> QED
  BY <1>4, <1>5, <1>6, <1>7, <1>8 DEF Next, Phone, ScanSteps, ReadSteps

(***************************************************************************)
(* Two parts of a command written one after the other reach the CCU whole, *)
(* whatever the phone wrote before and wherever the messages come in.      *)
(***************************************************************************)
THEOREM PartsArriveWhole == Spec => []PartsArrive
<1>1. Init => PartsKept /\ PartsArrive
  <2> SUFFICES ASSUME Init
               PROVE  PartsKept /\ PartsArrive
    OBVIOUS
  <2>1. toCcu = <<>> /\ recent[1].kind = "none" /\ recent[2].kind = "none"
    BY DEF Init, NoPart, Part
  <2> QED BY <2>1 DEF PartsKept, PartsArrive, Pairs
<1>2. TypeOK /\ TypeOK' /\ (PartsKept /\ PartsArrive) /\ [Next]_vars
      => (PartsKept /\ PartsArrive)'
  BY PartsStep
<1> QED BY <1>1, <1>2, TypesHold, PTL DEF Spec

-----------------------------------------------------------------------------
(* The scan under way.  The callback may consume the end of an earlier     *)
(* scan at any step; the steps up to the question are left out.            *)

ScanSeen ==
  bt_state = "SCANNING" /\ btc \notin {"clear", "state", "ask"} => ScanOwed \/ astray

\* A sequence of requests or answers that has a message with this op.
HasOp(l, op) == \E i \in DOMAIN l : l[i].op = op

LEMMA AppendHas ==
  ASSUME NEW S, NEW l \in Seq(S), NEW r \in Seq(S), NEW op
  PROVE  HasOp(l \o r, op) <=> HasOp(l, op) \/ HasOp(r, op)
<1>1. Len(l \o r) = Len(l) + Len(r) /\ Len(l) \in Nat /\ Len(r) \in Nat
      /\ DOMAIN l = 1 .. Len(l) /\ DOMAIN r = 1 .. Len(r)
      /\ DOMAIN (l \o r) = 1 .. Len(l) + Len(r)
  OBVIOUS
<1>2. ASSUME NEW i \in DOMAIN l PROVE i \in DOMAIN (l \o r) /\ (l \o r)[i] = l[i]
  BY <1>1
<1>3. ASSUME NEW i \in DOMAIN r
      PROVE  Len(l) + i \in DOMAIN (l \o r) /\ (l \o r)[Len(l) + i] = r[i]
  BY <1>1
<1>4. ASSUME NEW i \in DOMAIN (l \o r)
      PROVE  \/ i \in DOMAIN l /\ (l \o r)[i] = l[i]
             \/ i - Len(l) \in DOMAIN r /\ (l \o r)[i] = r[i - Len(l)]
  BY <1>1
<1>5. HasOp(l \o r, op) => HasOp(l, op) \/ HasOp(r, op)
  <2> SUFFICES ASSUME HasOp(l \o r, op) PROVE HasOp(l, op) \/ HasOp(r, op)
    OBVIOUS
  <2>1. PICK i \in DOMAIN (l \o r) : (l \o r)[i].op = op
    BY DEF HasOp
  <2> QED BY <1>4, <2>1 DEF HasOp
<1>6. HasOp(l, op) => HasOp(l \o r, op)
  BY <1>2 DEF HasOp
<1>7. HasOp(r, op) => HasOp(l \o r, op)
  <2> SUFFICES ASSUME HasOp(r, op) PROVE HasOp(l \o r, op)
    OBVIOUS
  <2>1. PICK i \in DOMAIN r : r[i].op = op
    BY DEF HasOp
  <2>2. Len(l) + i \in DOMAIN (l \o r) /\ (l \o r)[Len(l) + i].op = op
    BY <1>3, <2>1
  <2> QED BY <2>2 DEF HasOp
<1> QED BY <1>5, <1>6, <1>7

LEMMA TailHas ==
  ASSUME NEW S, NEW l \in Seq(S), l # <<>>, NEW op, HasOp(l, op), Head(l).op # op
  PROVE  HasOp(Tail(l), op)
<1>1. PICK i \in DOMAIN l : l[i].op = op
  BY DEF HasOp
<1>2. Len(l) \in Nat /\ DOMAIN l = 1 .. Len(l) /\ Head(l) = l[1]
  OBVIOUS
<1>3. i \in 2 .. Len(l)
  BY <1>1, <1>2
<1>4. i - 1 \in DOMAIN Tail(l) /\ Tail(l)[i - 1] = l[i]
  BY <1>2, <1>3
<1> QED BY <1>1, <1>4 DEF HasOp

LEMMA OwedParts == ScanOwed <=> HasOp(toCcu, "SCAN") \/ HasOp(toBridge, "END")
  BY DEF ScanOwed, HasOp

\* Neither the CCU nor a new message to it takes a scan off the line.
LEMMA ServingOwed == TypeOK /\ CcuServes /\ ScanOwed => ScanOwed'
<1> SUFFICES ASSUME TypeOK, CcuServes, ScanOwed
             PROVE  ScanOwed'
  OBVIOUS
<1>1. /\ toCcu \in Seq(Requests) /\ toCcu # <<>> /\ toCcu' = Tail(toCcu)
      /\ toBridge \in Seq(AnswerType) /\ found \in Seq(Surroundings)
      /\ CcuScans \/ CcuObeys
  BY DEF CcuServes, TypeOK
<1>2. CASE CcuScans
  <2>1. PICK lengths \in Surroundings :
          /\ found' = Append(found, lengths)
          /\ toBridge' =
               toBridge \o Append(Names(Len(found'), lengths), Answer("END", 0, 0, Nobody))
    BY <1>2 DEF CcuScans
  <2> DEFINE names == Names(Len(found'), lengths)
             end   == Answer("END", 0, 0, Nobody)
  <2>2. Len(found') \in Nat
    BY <1>1, <2>1
  <2>3. Append(names, end) \in Seq(AnswerType)
    BY <2>2, ScanAnswerType
  <2>4. Len(lengths) \in Nat /\ DOMAIN names = 1 .. Len(lengths)
    BY SurroundingsAssumption DEF Names
  <2>5. end.op = "END"
    BY DEF Answer
  <2>6. names = [i \in 1 .. Len(lengths) |-> names[i]]
    BY <2>4 DEF Names
  <2>a. toBridge' = toBridge \o Append(names, end)
    BY <2>1
  <2> HIDE DEF names, end
  <2>7. Len(names) = Len(lengths)
    BY <2>4, <2>6
  <2>8. /\ Len(lengths) + 1 \in DOMAIN Append(names, end)
        /\ Append(names, end)[Len(lengths) + 1] = end
    BY <2>4, <2>6, <2>7
  <2>9. HasOp(Append(names, end), "END")
    BY <2>5, <2>8 DEF HasOp
  <2>10. HasOp(toBridge', "END")
    BY <1>1, <2>a, <2>3, <2>9, AppendHas
  <2> QED BY <2>10, OwedParts DEF ScanOwed, HasOp
<1>3. CASE CcuObeys
  <2> DEFINE done == Answer("DONE", 0, 0, Nobody)
  <2>1. done \in AnswerType
    <3>1. Nobody \in Nets /\ 0 \in 0 .. 20 /\ 0 \in Nat /\ "DONE" \in {"NAME", "END", "DONE"}
      BY DEF Nets, Nobody
    <3> QED BY <3>1, AnswerTyped
  <2>2. toBridge' = Append(toBridge, done) /\ Head(toCcu).op # "SCAN"
    BY <1>3 DEF CcuObeys
  <2> HIDE DEF done
  <2>3. HasOp(toCcu, "SCAN") => HasOp(toCcu', "SCAN")
    BY <1>1, <2>2, TailHas
  <2>4. HasOp(toBridge, "END") => HasOp(toBridge', "END")
    <3>1. toBridge' = toBridge \o <<done>> /\ <<done>> \in Seq(AnswerType)
      BY <1>1, <2>1, <2>2
    <3> QED BY <1>1, <3>1, AppendHas
  <2> QED BY <2>3, <2>4 DEF ScanOwed, HasOp
<1> QED BY <1>1, <1>2, <1>3

LEMMA ScanSeenStep == TypeOK /\ TypeOK' /\ ScanSeen /\ [Next]_vars => ScanSeen'
<1> SUFFICES ASSUME TypeOK, TypeOK', ScanSeen, [Next]_vars
             PROVE  ScanSeen'
  OBVIOUS
<1> USE DEF phoneVars, historyVars, reportVars
<1>1. CASE Scan
  BY <1>1 DEF Scan, ScanSeen
<1>2. CASE ClearSsids \/ SetScanning
  BY <1>2 DEF ClearSsids, SetScanning, NextStep, ScanSeen
<1>3. CASE AskForScan
  <2> DEFINE scan == Message("SCAN", NoPart, NoPart, recent)
  <2>1. toCcu' = toCcu \o <<scan>> /\ toCcu \in Seq(Requests) /\ scan.op = "SCAN"
        /\ <<scan>> \in Seq(Requests)
    <3>1. scan \in Requests
      BY BlankType, MessageType DEF TypeOK
    <3>2. toCcu' = Append(toCcu, scan) /\ toCcu \in Seq(Requests) /\ scan.op = "SCAN"
      BY <1>3 DEF AskForScan, TypeOK, Message
    <3> HIDE DEF scan
    <3> QED BY <3>1, <3>2
  <2> HIDE DEF scan
  <2>2. HasOp(<<scan>>, "SCAN")
    BY <2>1 DEF HasOp
  <2>3. HasOp(toCcu', "SCAN")
    BY <2>1, <2>2, AppendHas
  <2> QED BY <2>3 DEF ScanSeen, ScanOwed, HasOp
<1>4. CASE Rescan \/ ForceScan
  <2>1. UNCHANGED <<toCcu, toBridge>>
    BY <1>4, RescanStep DEF ForceScan
  <2>2. ScanOwed' <=> ScanOwed
    BY <2>1 DEF ScanOwed
  <2>3. CASE Rescan
    BY <2>2, <2>3, RescanStep DEF ScanSeen
  <2>4. CASE ForceScan
    <3>1. astray' = (astray \/ ~ScanOwed)
      BY <2>4 DEF ForceScan
    <3>2. ~ScanOwed => astray'
      BY <3>1, Zenon
    <3> QED BY <2>2, <3>2 DEF ScanSeen
  <2> QED BY <1>4, <2>3, <2>4
<1>5. CASE AskForNames \/ Check \/ StartNames \/ FillName \/ MarkNotReady \/ Respond
  <2>1. UNCHANGED <<toCcu, toBridge, astray>>
    BY <1>5 DEF AskForNames, Check, StartNames, FillName, MarkNotReady, Respond
  <2>2. bt_state' = bt_state \/ bt_state' # "SCANNING"
    BY <1>5 DEF AskForNames, Check, StartNames, FillName, MarkNotReady, Respond
  <2>3. btc \notin {"clear", "state", "ask"}
    BY <1>5 DEF AskForNames, Check, StartNames, FillName, MarkNotReady, Respond
  <2> QED BY <2>1, <2>2, <2>3 DEF ScanSeen, ScanOwed
<1>6. ASSUME NEW part, WritePart(part)
      PROVE  ScanSeen'
  <2>1. btc = "idle" /\ btc' = "idle" /\ toBridge' = toBridge /\ astray' = astray
    BY <1>6 DEF WritePart
  <2>2. bt_state' = bt_state \/ bt_state' # "SCANNING"
    BY <1>6 DEF WritePart, StateAfterPart
  <2>3. HasOp(toCcu, "SCAN") => HasOp(toCcu', "SCAN")
    <3>1. toCcu' = toCcu \o Sent(part.kind, saved_messages', recent')
      BY <1>6 DEF WritePart
    <3>2. Sent(part.kind, saved_messages', recent') \in Seq(Requests) /\ toCcu \in Seq(Requests)
      BY SentType DEF TypeOK
    <3> QED BY <3>1, <3>2, AppendHas
  <2> QED BY <2>1, <2>2, <2>3 DEF ScanSeen, ScanOwed, HasOp
<1>7. CASE WriteText \/ WriteSsid
  BY <1>6, <1>7 DEF WriteText, WriteSsid
<1>8. CASE ProcessMessage
  <2> DEFINE m == Head(toBridge)
  <2>1. toBridge \in Seq(AnswerType) /\ toBridge # <<>> /\ toBridge' = Tail(toBridge)
        /\ UNCHANGED <<btc, toCcu, astray>>
    BY <1>8 DEF ProcessMessage, TypeOK
  <2>2. m.op \in {"NAME", "END", "DONE"}
    <3>1. m \in AnswerType
      BY <2>1
    <3> QED BY <3>1 DEF AnswerType
  <2>3. CASE m.op = "NAME"
    <3>1. bt_state' = bt_state
      BY <1>8, <2>3 DEF ProcessMessage, StoreName
    <3>2. HasOp(toBridge, "END") => HasOp(toBridge', "END")
      BY <2>1, <2>3, TailHas
    <3> QED BY <2>1, <3>1, <3>2 DEF ScanSeen, ScanOwed, HasOp
  <2>4. CASE m.op # "NAME"
    <3>1. bt_state' # "SCANNING"
      BY <1>8, <2>2, <2>4 DEF ProcessMessage, EndScan, EndOther
    <3> QED BY <3>1 DEF ScanSeen
  <2> QED BY <2>3, <2>4
<1>9. CASE CcuServes
  <2>1. UNCHANGED <<btc, bt_state, astray>>
    BY <1>9 DEF CcuServes
  <2> QED BY <1>9, <2>1, ServingOwed DEF ScanSeen
<1>10. CASE UNCHANGED vars
  BY <1>10 DEF vars, ScanSeen, ScanOwed
<1> QED
  BY <1>1, <1>2, <1>3, <1>4, <1>5, <1>7, <1>8, <1>9, <1>10
  DEF Next, Phone, ScanSteps, ReadSteps

-----------------------------------------------------------------------------
(* The menu: from the CCU's scan to the names the phone has read.          *)

\* The networks of the last scan the CCU did.
Latest == IF found = <<>> THEN <<>> ELSE found[Len(found)]

\* A scan command whose request has not been served.
Asking == btc \in {"clear", "state", "ask"}

ScanFirst == toCcu # <<>> /\ toCcu[1].op = "SCAN"

Unserved == Asking \/ ScanFirst

\* There is one scan on the line at most, and it is the phone's.
OneScan ==
  ~hurried =>
    /\ Asking => toCcu = <<>>
    /\ Unserved => toBridge = <<>>
    /\ \A i \in DOMAIN toCcu : toCcu[i].op = "SCAN" => i = 1
    /\ scans = Len(found) + (IF Unserved THEN 1 ELSE 0)

\* While the phone reads a scan, nothing else is on the line.
OnlyScan ==
  /\ reading \/ heard # <<>> => scans > 0
  /\ btc \in {"start", "fill", "mark", "respond"} \/ heard # <<>> => reading
  /\ hurried => heard = <<>>
  /\ reading /\ ~hurried =>
       /\ \A i \in DOMAIN toCcu : toCcu[i].op = "SCAN"
       /\ \A i \in DOMAIN toBridge : toBridge[i].op # "DONE"

\* n is the number of networks of the last of these scans that found any.
Counted(results, n) ==
  \/ n = 0 /\ \A s \in DOMAIN results : results[s] = <<>>
  \/ \E s \in DOMAIN results :
       /\ results[s] # <<>>
       /\ \A t \in DOMAIN results : t > s => results[t] = <<>>
       /\ n = Len(results[s])

\* The first k names of the scan are stored, the others are on the line, in
\* order, and its end behind them.
NamesLeft(k) ==
  LET left == Len(Latest) - k
  IN /\ \A i \in 1 .. left :
          /\ i \in DOMAIN toBridge
          /\ toBridge[i] = Answer("NAME", k + i, Latest[k + i], <<Len(found), k + i>>)
     /\ \A i \in DOMAIN toBridge :
          /\ toBridge[i].op = "NAME" => i <= left
          /\ toBridge[i].op = "END" => i = left + 1
     /\ left > 0 => left + 1 \in DOMAIN toBridge /\ toBridge[left + 1].op = "END"

CountsTo(k) ==
  /\ k > 0 => ap_name = 1 .. k /\ ap_count = k
  /\ k = Len(Latest) => Counted(found, ap_count)

RowsTo(k) ==
  ~Unserved =>
    \A j \in 1 .. Rows :
      IF j <= k
        THEN /\ wifi_report[j] = Row(<<Len(found), j>>, Latest[j], 0)
             /\ wifi_report_length[j] = Latest[j]
        ELSE wifi_report[j] = Blank

NamesStored ==
  ~hurried =>
    /\ Unserved /\ btc # "clear" => \A j \in 1 .. Rows : wifi_report[j] = Blank
    /\ \E k \in 0 .. Len(Latest) : NamesLeft(k) /\ CountsTo(k) /\ RowsTo(k)

\* While the phone reads its scan the FSM stays with it: the end comes once, and
\* the comparison at the end of a command always finds one of the three states.
WithScan ==
  reading /\ ~hurried =>
    /\ ~astray
    /\ btc \notin {"clear", "state"} =>
         /\ bt_state \in ScanStates
         /\ bt_state # "SCANNING" => ~Unserved /\ toBridge = <<>>
    /\ btc = "ask" => bt_state = "SCANNING"
    /\ btc \in {"start", "rescanComplete"} => bt_state # "SCANNING"
    /\ btc = "rescanNames" => bt_state = "NAMES"
    /\ btc # "force"

\* Until the end of the scan is in, reads are told to come back.
ScanRuns ==
  /\ heard = <<>>
  /\ btc \in {"clear", "state", "ask", "rescan", "idle", "mark", "respond"}
  /\ btc \notin {"clear", "state"} => bt_state = "SCANNING"
  /\ btc = "respond" => ep_return_message.rc # "SUCCESS"

\* Then the first read gets the number of networks and each further one a name.
ScanOver ==
  \/ /\ bt_state = "COMPLETE"
     /\ btc \in {"rescan", "rescanComplete", "idle", "start"}
     /\ heard = <<>>
     /\ ep_return_message = [rc |-> "SUCCESS", data |-> Count(ap_count)]
  \/ /\ bt_state = "NAMES"
     /\ btc = "respond"
     /\ heard = <<>>
     /\ ssid_index = 0
     /\ ep_return_message = [rc |-> "SUCCESS", data |-> Count(ap_count)]
  \/ /\ bt_state = "NAMES"
     /\ btc \in {"rescan", "rescanComplete", "rescanNames", "idle", "fill"}
     /\ heard # <<>>
     /\ ssid_index + 1 = Len(heard)
     /\ ep_return_message.rc = "SUCCESS"
  \/ /\ bt_state = "NAMES"
     /\ btc = "respond"
     /\ heard # <<>>
     /\ ssid_index = Len(heard)
     /\ ep_return_message =
          [rc   |-> "SUCCESS",
           data |-> Shown(wifi_report[ssid_index], wifi_report_length[ssid_index])]

ReadsInStep ==
  Orderly =>
    /\ IF Unserved \/ toBridge # <<>> THEN ScanRuns ELSE ScanOver
    /\ heard # <<>> => heard[1] = Count(ap_count)
    /\ \A j \in 1 .. Len(heard) - 1 :
         heard[j + 1] = Shown(wifi_report[j], wifi_report_length[j])

\* The phone has read no more names than there are rows.
ReadsFit ==
  Orderly /\ heard # <<>> =>
    /\ Len(heard) <= Rows + 1
    /\ btc \in {"fill", "respond"} => Len(heard) <= Rows

\* A network kept for its key is the one at its position.
ChosenKept ==
  saved_messages[1].net # Nobody => saved_messages[1].position + 1 = saved_messages[1].net[2]

LEMMA LatestFacts ==
  ASSUME TypeOK
  PROVE  /\ Latest \in Seq(Nat \ {0})
         /\ Len(Latest) \in Nat /\ Len(Latest) <= 20 /\ Len(Latest) <= Rows
         /\ DOMAIN Latest = 1 .. Len(Latest)
         /\ \A i \in 1 .. Len(Latest) : Latest[i] \in Nat \ {0}
<1>1. found \in Seq(Surroundings)
  BY DEF TypeOK
<1>2. CASE found = <<>>
  <2>1. Latest = <<>>
    BY <1>2 DEF Latest
  <2> QED BY <2>1, SizesAssumption
<1>3. CASE found # <<>>
  <2>1. Latest \in Surroundings
    <3>1. found[Len(found)] \in Surroundings
      BY <1>1, <1>3
    <3> QED BY <1>3, <3>1 DEF Latest
  <2>2. Latest \in Seq(Nat \ {0}) /\ Len(Latest) <= 20 /\ Len(Latest) <= Rows
    BY <2>1, SurroundingsAssumption
  <2>3. Len(Latest) \in Nat /\ DOMAIN Latest = 1 .. Len(Latest)
    BY <2>2
  <2>4. \A i \in 1 .. Len(Latest) : Latest[i] \in Nat \ {0}
    BY <2>2, ElementOfSeq
  <2> QED BY <2>2, <2>3, <2>4
<1> QED BY <1>2, <1>3

\* The steps that leave the line and the reports alone.
Reading ==
  AskForNames \/ Rescan \/ ForceScan \/ Check \/ StartNames \/ FillName \/ MarkNotReady
  \/ Respond

LEMMA ReadingLeaves ==
  ASSUME TypeOK, Reading
  PROVE  /\ UNCHANGED <<toCcu, toBridge, found, scans, hurried, raced, reading, ap_name, ap_count,
                        wifi_report, wifi_report_length, saved_messages>>
         /\ ~Asking /\ ~Asking'
         /\ ScanFirst' = ScanFirst /\ Unserved' = Unserved /\ Latest' = Latest
<1>1. /\ UNCHANGED <<toCcu, toBridge, found, scans, hurried, raced, reading, ap_name, ap_count,
                     wifi_report, wifi_report_length, saved_messages>>
      /\ btc \notin {"clear", "state", "ask"} /\ btc' \notin {"clear", "state", "ask"}
  <2>1. CASE AskForNames
    BY <2>1 DEF AskForNames, reportVars, phoneVars, historyVars
  <2>2. CASE Rescan \/ ForceScan
    BY <2>2, RescanStep DEF ForceScan, reportVars, phoneVars, historyVars
  <2>3. CASE Check
    <3>1. btc' \in {"mark", "start", "fill", "respond"}
      BY <2>3 DEF Check, TypeOK, States
    <3> QED BY <2>3, <3>1 DEF Check, reportVars, phoneVars, historyVars
  <2>4. CASE StartNames \/ FillName \/ MarkNotReady \/ Respond
    BY <2>4 DEF StartNames, FillName, MarkNotReady, Respond, reportVars, phoneVars, historyVars
  <2> QED BY <2>1, <2>2, <2>3, <2>4 DEF Reading
<1> QED BY <1>1 DEF Asking, ScanFirst, Unserved, Latest

LEMMA SentNoScan ==
  ASSUME NEW kind, NEW saved, NEW meant
  PROVE  \A i \in DOMAIN Sent(kind, saved, meant) : Sent(kind, saved, meant)[i].op # "SCAN"
  BY DEF Sent, Message

LEMMA WritingLeaves ==
  ASSUME TypeOK, TypeOK', NEW part, WritePart(part)
  PROVE  /\ UNCHANGED <<btc, toBridge, found, scans, hurried, raced, ap_name, ap_count,
                        wifi_report, wifi_report_length>>
         /\ btc = "idle" /\ reading' = FALSE /\ heard' = <<>>
         /\ ~Asking /\ ~Asking'
         /\ \A i \in DOMAIN toCcu' :
              toCcu'[i].op = "SCAN" => i \in DOMAIN toCcu /\ toCcu[i].op = "SCAN"
         /\ ScanFirst' = ScanFirst /\ Unserved' = Unserved /\ Latest' = Latest
<1> DEFINE sent == Sent(part.kind, saved_messages', recent')
<1>1. /\ UNCHANGED <<btc, toBridge, found, scans, hurried, raced, ap_name, ap_count,
                     wifi_report, wifi_report_length>>
      /\ btc = "idle" /\ reading' = FALSE /\ heard' = <<>> /\ toCcu' = toCcu \o sent
  BY DEF WritePart, reportVars, historyVars
<1>2. toCcu \in Seq(Requests) /\ sent \in Seq(Requests)
  BY SentType DEF TypeOK
<1>3. \A i \in DOMAIN sent : sent[i].op # "SCAN"
  BY SentNoScan
<1> HIDE DEF sent
<1>4. ASSUME NEW i \in DOMAIN toCcu'
      PROVE  \/ i \in DOMAIN toCcu /\ toCcu'[i] = toCcu[i]
             \/ i - Len(toCcu) \in DOMAIN sent /\ toCcu'[i] = sent[i - Len(toCcu)]
  BY <1>1, <1>2
<1>5. \A i \in DOMAIN toCcu' :
        toCcu'[i].op = "SCAN" => i \in DOMAIN toCcu /\ toCcu[i].op = "SCAN"
  BY <1>3, <1>4
<1>6. ScanFirst' = ScanFirst
  <2>1. CASE toCcu = <<>>
    <3>1. toCcu' = sent
      BY <1>1, <1>2, <2>1
    <3>2. ~ScanFirst'
      <4>1. toCcu' # <<>> => 1 \in DOMAIN sent
        BY <1>2, <3>1
      <4> QED BY <1>3, <3>1, <4>1 DEF ScanFirst
    <3> QED BY <2>1, <3>2 DEF ScanFirst
  <2>2. CASE toCcu # <<>>
    <3>1. toCcu' # <<>> /\ toCcu'[1] = toCcu[1]
      BY <1>1, <1>2, <2>2
    <3> QED BY <2>2, <3>1 DEF ScanFirst
  <2> QED BY <2>1, <2>2
<1> QED BY <1>1, <1>5, <1>6 DEF Asking, Unserved, Latest

\* After the CCU has served a request none is at the head of the line.
LEMMA ServingLeaves ==
  ASSUME TypeOK, OneScan, CcuServes, ~hurried
  PROVE  /\ ~Asking /\ ~Unserved'
         /\ Unserved <=> Head(toCcu).op = "SCAN"
         /\ \A i \in DOMAIN toCcu' : toCcu'[i].op # "SCAN"
         /\ UNCHANGED <<btc, bt_state, ep_return_message, reportVars, saved_messages, phoneVars,
                        hurried, raced>>
<1>1. /\ toCcu \in Seq(Requests) /\ toCcu # <<>> /\ toCcu' = Tail(toCcu)
      /\ UNCHANGED <<btc, bt_state, ep_return_message, reportVars, saved_messages, phoneVars,
                     hurried, raced>>
  BY DEF CcuServes, TypeOK
<1>2. ~Asking /\ \A i \in DOMAIN toCcu : toCcu[i].op = "SCAN" => i = 1
  BY <1>1 DEF OneScan
<1>3. Head(toCcu) = toCcu[1]
  BY <1>1
<1>4. ASSUME NEW i \in DOMAIN toCcu'
      PROVE  i + 1 \in DOMAIN toCcu /\ toCcu'[i] = toCcu[i + 1] /\ i + 1 # 1
  BY <1>1
<1>5. \A i \in DOMAIN toCcu' : toCcu'[i].op # "SCAN"
  BY <1>2, <1>4
<1>6. toCcu' # <<>> => 1 \in DOMAIN toCcu'
  BY <1>1
<1>7. ~ScanFirst'
  BY <1>5, <1>6 DEF ScanFirst
<1>8. ~Asking'
  BY <1>1, <1>2 DEF Asking
<1> QED BY <1>1, <1>2, <1>3, <1>5, <1>7, <1>8 DEF Unserved, ScanFirst

LEMMA OneScanStep == TypeOK /\ TypeOK' /\ OneScan /\ [Next]_vars => OneScan'
<1> SUFFICES ASSUME TypeOK, TypeOK', OneScan, [Next]_vars, ~hurried'
             PROVE  OneScan'
  BY DEF OneScan
<1> USE DEF phoneVars, historyVars
<1>1. scans \in Nat /\ scans' \in Nat /\ Len(found) \in Nat
  BY SizesAssumption DEF TypeOK
<1>2. CASE Scan
  <2>1. ~hurried /\ toCcu = <<>> /\ toBridge = <<>> /\ UNCHANGED <<toCcu, toBridge, found>>
        /\ btc = "idle" /\ btc' = "clear" /\ scans' = scans + 1
    BY <1>2 DEF Scan, AnswerOwed
  <2>2. ~Unserved /\ Unserved'
    BY <2>1 DEF Unserved, Asking, ScanFirst
  <2>3. scans = Len(found)
    BY <1>1, <2>1, <2>2 DEF OneScan
  <2> QED BY <2>1, <2>2, <2>3 DEF OneScan
<1>3. CASE ClearSsids \/ SetScanning
  <2>1. UNCHANGED <<toCcu, toBridge, found, scans, hurried>>
        /\ Asking /\ Asking'
    BY <1>3 DEF ClearSsids, SetScanning, NextStep, Asking
  <2> QED BY <2>1 DEF OneScan, Unserved
<1>4. CASE AskForScan
  <2> DEFINE scan == Message("SCAN", NoPart, NoPart, recent)
  <2>1. UNCHANGED <<toBridge, found, scans, hurried>> /\ Asking /\ ~Asking'
        /\ toCcu' = Append(toCcu, scan)
    BY <1>4 DEF AskForScan, NextStep, Asking
  <2>2. toCcu = <<>>
    BY <2>1 DEF OneScan
  <2>3. scan.op = "SCAN"
    BY DEF Message
  <2> HIDE DEF scan
  <2>4. toCcu' = <<scan>>
    BY <2>1, <2>2
  <2>5. Unserved /\ Unserved'
    BY <2>1, <2>3, <2>4 DEF Unserved, ScanFirst
  <2> QED BY <2>1, <2>4, <2>5 DEF OneScan
<1>5. CASE Reading
  BY <1>5, ReadingLeaves DEF OneScan
<1>6. ASSUME NEW part, WritePart(part)
      PROVE  OneScan'
  <2>1. /\ UNCHANGED <<toBridge, found, scans, hurried>> /\ ~Asking' /\ ~Asking
        /\ Unserved' = Unserved
    BY <1>6, WritingLeaves
  <2>2. \A i \in DOMAIN toCcu' :
          toCcu'[i].op = "SCAN" => i \in DOMAIN toCcu /\ toCcu[i].op = "SCAN"
    BY <1>6, WritingLeaves
  <2>3. ~hurried /\ \A i \in DOMAIN toCcu : toCcu[i].op = "SCAN" => i = 1
    BY <2>1 DEF OneScan
  <2> QED BY <2>1, <2>2, <2>3 DEF OneScan
<1>7. CASE WriteText \/ WriteSsid
  BY <1>6, <1>7 DEF WriteText, WriteSsid
<1>8. CASE ProcessMessage
  <2>1. UNCHANGED <<btc, toCcu, found, scans, hurried>> /\ toBridge # <<>>
    BY <1>8 DEF ProcessMessage
  <2>2. ~Unserved /\ ~Unserved' /\ ~Asking'
    BY <2>1 DEF OneScan, Unserved, Asking, ScanFirst
  <2> QED BY <2>1, <2>2 DEF OneScan
<1>9. CASE CcuServes
  <2>1. ~hurried /\ scans' = scans /\ btc' = btc
    BY <1>9 DEF CcuServes
  <2>2. /\ ~Unserved'
        /\ Unserved <=> Head(toCcu).op = "SCAN"
        /\ \A i \in DOMAIN toCcu' : toCcu'[i].op # "SCAN"
    BY <1>9, <2>1, ServingLeaves
  <2>a. ~Asking'
    BY <2>2 DEF Unserved
  <2>3. CASE Head(toCcu).op = "SCAN"
    <3>1. CcuScans
      BY <1>9, <2>3 DEF CcuServes, CcuObeys
    <3>2. Len(found') = Len(found) + 1
      <4>1. /\ found \in Seq(Surroundings)
            /\ \E lengths \in Surroundings : found' = Append(found, lengths)
        BY <3>1 DEF CcuScans, TypeOK
      <4> QED BY <4>1
    <3> QED BY <1>1, <2>1, <2>2, <2>3, <2>a, <3>2 DEF OneScan
  <2>4. CASE Head(toCcu).op # "SCAN"
    <3>1. found' = found
      BY <1>9, <2>4 DEF CcuServes, CcuScans, CcuObeys
    <3> QED BY <1>1, <2>1, <2>2, <2>4, <2>a, <3>1 DEF OneScan
  <2> QED BY <2>3, <2>4
<1>10. CASE UNCHANGED vars
  BY <1>10 DEF vars, OneScan, Unserved, Asking, ScanFirst
<1> QED
  BY <1>2, <1>3, <1>4, <1>5, <1>7, <1>8, <1>9, <1>10
  DEF Next, Phone, ScanSteps, ReadSteps, Reading

LEMMA NamesAnswered ==
  ASSUME NEW scan \in Nat, NEW lengths \in Surroundings
  PROVE  LET l == Append(Names(scan, lengths), Answer("END", 0, 0, Nobody))
         IN /\ Len(lengths) \in Nat /\ DOMAIN l = 1 .. Len(lengths) + 1
            /\ \A i \in 1 .. Len(lengths) :
                 l[i] = Answer("NAME", i, lengths[i], <<scan, i>>) /\ l[i].op = "NAME"
            /\ l[Len(lengths) + 1].op = "END"
<1> DEFINE names == Names(scan, lengths)
           end   == Answer("END", 0, 0, Nobody)
<1>1. lengths \in Seq(Nat \ {0})
  BY SurroundingsAssumption
<1>2. Len(lengths) \in Nat /\ DOMAIN lengths = 1 .. Len(lengths)
  BY <1>1
<1>3. /\ names = [i \in 1 .. Len(lengths) |-> names[i]]
      /\ \A i \in 1 .. Len(lengths) :
           names[i] = Answer("NAME", i, lengths[i], <<scan, i>>) /\ names[i].op = "NAME"
  BY <1>2 DEF Names, Answer
<1>4. end.op = "END"
  BY DEF Answer
<1> HIDE DEF names, end
<1>5. Len(names) = Len(lengths)
  BY <1>2, <1>3
<1>6. /\ DOMAIN Append(names, end) = 1 .. Len(lengths) + 1
      /\ \A i \in 1 .. Len(lengths) : Append(names, end)[i] = names[i]
      /\ Append(names, end)[Len(lengths) + 1] = end
  BY <1>2, <1>3, <1>5
<1>7. \A i \in 1 .. Len(lengths) :
        /\ Append(names, end)[i] = Answer("NAME", i, lengths[i], <<scan, i>>)
        /\ Append(names, end)[i].op = "NAME"
  BY <1>3, <1>6
<1>8. Append(names, end)[Len(lengths) + 1].op = "END"
  BY <1>4, <1>6
<1> QED BY <1>2, <1>6, <1>7, <1>8 DEF names, end

LEMMA OnlyScanStep ==
  TypeOK /\ TypeOK' /\ OneScan /\ OnlyScan /\ [Next]_vars => OnlyScan'
<1> SUFFICES ASSUME TypeOK, TypeOK', OneScan, OnlyScan, [Next]_vars
             PROVE  OnlyScan'
  OBVIOUS
<1> USE DEF phoneVars, historyVars
<1>1. scans \in Nat
  BY SizesAssumption DEF TypeOK
<1>2. CASE Scan
  <2>1. btc' = "clear" /\ heard' = <<>> /\ reading' = TRUE /\ scans' = scans + 1
        /\ UNCHANGED <<toCcu, toBridge>>
    BY <1>2 DEF Scan
  <2>2. ~hurried' => toCcu = <<>> /\ toBridge = <<>>
    BY <1>2 DEF Scan, AnswerOwed
  <2> QED BY <1>1, <2>1, <2>2 DEF OnlyScan
<1>3. CASE ClearSsids \/ SetScanning
  BY <1>3 DEF ClearSsids, SetScanning, NextStep, OnlyScan
<1>4. CASE AskForScan
  <2> DEFINE scan == Message("SCAN", NoPart, NoPart, recent)
  <2>1. UNCHANGED <<toBridge, phoneVars, hurried>> /\ btc' = "rescan"
        /\ toCcu' = Append(toCcu, scan)
    BY <1>4 DEF AskForScan, NextStep
  <2>2. scan.op = "SCAN" /\ toCcu \in Seq(Requests)
    BY DEF Message, TypeOK
  <2> HIDE DEF scan
  <2>3. ASSUME NEW i \in DOMAIN toCcu'
        PROVE  (i \in DOMAIN toCcu /\ toCcu'[i] = toCcu[i]) \/ toCcu'[i] = scan
    BY <2>1, <2>2
  <2> QED BY <2>1, <2>2, <2>3 DEF OnlyScan
<1>5. CASE Reading /\ ~Check /\ ~Respond
  <2>1. UNCHANGED <<toCcu, toBridge, scans, hurried, reading, heard>>
    BY <1>5, RescanStep DEF Reading, AskForNames, ForceScan, StartNames, FillName, MarkNotReady
  <2>2. btc' \in {"start", "fill", "mark", "respond"} =>
          btc \in {"start", "fill", "mark", "respond"}
    BY <1>5, RescanStep DEF Reading, AskForNames, ForceScan, StartNames, FillName, MarkNotReady
  <2> QED BY <2>1, <2>2 DEF OnlyScan
<1>6. CASE Check
  BY <1>6 DEF Check, OnlyScan
<1>7. CASE Respond
  <2>1. btc = "respond" /\ btc' = "idle" /\ (hurried => heard' = heard)
        /\ UNCHANGED <<toCcu, toBridge, scans, hurried, reading>>
    BY <1>7 DEF Respond
  <2> QED BY <2>1 DEF OnlyScan
<1>8. ASSUME NEW part, WritePart(part)
      PROVE  OnlyScan'
  BY <1>8, WritingLeaves DEF OnlyScan
<1>9. CASE WriteText \/ WriteSsid
  BY <1>8, <1>9 DEF WriteText, WriteSsid
<1>10. CASE ProcessMessage
  <2>1. UNCHANGED <<btc, toCcu, scans, hurried, reading, heard>> /\ toBridge \in Seq(AnswerType)
        /\ toBridge # <<>> /\ toBridge' = Tail(toBridge)
    BY <1>10 DEF ProcessMessage, TypeOK
  <2>2. ASSUME NEW i \in DOMAIN toBridge'
        PROVE  i + 1 \in DOMAIN toBridge /\ toBridge'[i] = toBridge[i + 1]
    BY <2>1
  <2> QED BY <2>1, <2>2 DEF OnlyScan
<1>11. CASE CcuServes
  <2>1. UNCHANGED <<btc, scans, hurried, reading, heard>>
    BY <1>11 DEF CcuServes
  <2>2. SUFFICES ASSUME reading, ~hurried
                 PROVE  /\ \A i \in DOMAIN toCcu' : toCcu'[i].op = "SCAN"
                        /\ \A i \in DOMAIN toBridge' : toBridge'[i].op # "DONE"
    BY <2>1 DEF OnlyScan
  <2>3. /\ toCcu \in Seq(Requests) /\ toCcu # <<>> /\ toCcu' = Tail(toCcu)
        /\ toBridge \in Seq(AnswerType)
    BY <1>11 DEF CcuServes, TypeOK
  <2>4. ASSUME NEW i \in DOMAIN toCcu'
        PROVE  i + 1 \in DOMAIN toCcu /\ toCcu'[i] = toCcu[i + 1]
    BY <2>3
  <2>5. \A i \in DOMAIN toCcu' : toCcu'[i].op = "SCAN"
    BY <2>2, <2>4 DEF OnlyScan
  <2>6. Head(toCcu).op = "SCAN"
    <3>1. 1 \in DOMAIN toCcu /\ Head(toCcu) = toCcu[1]
      BY <2>3
    <3> QED BY <2>2, <3>1 DEF OnlyScan
  <2>7. CcuScans
    BY <1>11, <2>6 DEF CcuServes, CcuObeys
  <2>8. PICK lengths \in Surroundings :
          /\ found' = Append(found, lengths)
          /\ toBridge' =
               toBridge \o Append(Names(Len(found'), lengths), Answer("END", 0, 0, Nobody))
    BY <2>7 DEF CcuScans
  <2> DEFINE answers == Append(Names(Len(found'), lengths), Answer("END", 0, 0, Nobody))
  <2>9. Len(found') \in Nat
    BY <2>8 DEF TypeOK
  <2>10. answers \in Seq(AnswerType) /\ \A i \in DOMAIN answers : answers[i].op # "DONE"
    <3>1. answers \in Seq(AnswerType)
      BY <2>9, ScanAnswerType
    <3>2. /\ Len(lengths) \in Nat /\ DOMAIN answers = 1 .. Len(lengths) + 1
          /\ \A i \in 1 .. Len(lengths) : answers[i].op = "NAME"
          /\ answers[Len(lengths) + 1].op = "END"
      BY <2>9, NamesAnswered
    <3> HIDE DEF answers
    <3> QED BY <3>1, <3>2
  <2>a. toBridge' = toBridge \o answers
    BY <2>8
  <2> HIDE DEF answers
  <2>11. ASSUME NEW i \in DOMAIN toBridge'
         PROVE  \/ i \in DOMAIN toBridge /\ toBridge'[i] = toBridge[i]
                \/ i - Len(toBridge) \in DOMAIN answers
                   /\ toBridge'[i] = answers[i - Len(toBridge)]
    BY <2>3, <2>a, <2>10
  <2> QED BY <2>2, <2>5, <2>10, <2>11 DEF OnlyScan
<1>12. CASE UNCHANGED vars
  BY <1>12 DEF vars, OnlyScan
<1> QED
  BY <1>2, <1>3, <1>4, <1>5, <1>6, <1>7, <1>9, <1>10, <1>11, <1>12
  DEF Next, Phone, ScanSteps, ReadSteps, Reading

LEMMA CountedIsLast ==
  ASSUME TypeOK, NEW n, Counted(found, n)
  PROVE  n = LastCount
<1>1. DOMAIN found \subseteq Nat
  BY DEF TypeOK
<1>2. CASE \A s \in DOMAIN found : found[s] = <<>>
  BY <1>2 DEF Counted, LastCount
<1>3. CASE ~\A s \in DOMAIN found : found[s] = <<>>
  <2> DEFINE IsLast(s) == /\ found[s] # <<>>
                          /\ \A t \in DOMAIN found : t > s => found[t] = <<>>
             last == CHOOSE s \in DOMAIN found : IsLast(s)
  <2>1. PICK s \in DOMAIN found : IsLast(s) /\ n = Len(found[s])
    BY <1>3 DEF Counted
  <2>2. last \in DOMAIN found /\ IsLast(last)
    BY <2>1
  <2>3. LastCount = Len(found[last])
    BY <1>3 DEF LastCount
  <2> HIDE DEF last
  <2>4. ~(s < last) /\ ~(last < s)
    BY <1>1, <2>1, <2>2
  <2>5. s = last
    BY <1>1, <2>1, <2>2, <2>4
  <2> QED BY <2>1, <2>3, <2>5
<1> QED BY <1>2, <1>3

LEMMA CountedLatest == TypeOK /\ Len(Latest) > 0 => Counted(found, Len(Latest))
<1> SUFFICES ASSUME TypeOK, Len(Latest) > 0
             PROVE  Counted(found, Len(Latest))
  OBVIOUS
<1>1. found # <<>> /\ Latest # <<>>
  BY DEF Latest
<1>2. found \in Seq(Surroundings)
  BY DEF TypeOK
<1>3. Len(found) \in DOMAIN found /\ Latest = found[Len(found)]
      /\ \A t \in DOMAIN found : ~(t > Len(found))
  BY <1>1, <1>2 DEF Latest
<1> QED BY <1>1, <1>3 DEF Counted

\* A scan that finds nothing leaves the number as it is.
LEMMA CountedNothing ==
  ASSUME NEW results \in Seq(Surroundings), NEW n, Counted(results, n), <<>> \in Surroundings
  PROVE  Counted(Append(results, <<>>), n)
<1> DEFINE more == Append(results, <<>>)
<1>1. /\ Len(results) \in Nat /\ DOMAIN results = 1 .. Len(results)
      /\ DOMAIN more = 1 .. Len(results) + 1
      /\ \A i \in 1 .. Len(results) : more[i] = results[i]
      /\ more[Len(results) + 1] = <<>>
  OBVIOUS
<1> HIDE DEF more
<1>2. ASSUME NEW i \in DOMAIN more
      PROVE  (i \in DOMAIN results /\ more[i] = results[i]) \/ more[i] = <<>>
  BY <1>1
<1>3. CASE n = 0 /\ \A s \in DOMAIN results : results[s] = <<>>
  <2>1. \A s \in DOMAIN more : more[s] = <<>>
    BY <1>2, <1>3
  <2> QED BY <1>3, <2>1 DEF Counted, more
<1>4. CASE ~(n = 0 /\ \A s \in DOMAIN results : results[s] = <<>>)
  <2>1. PICK s \in DOMAIN results :
          /\ results[s] # <<>>
          /\ \A t \in DOMAIN results : t > s => results[t] = <<>>
          /\ n = Len(results[s])
    BY <1>4 DEF Counted
  <2>2. s \in DOMAIN more /\ more[s] = results[s]
    BY <1>1
  <2>3. \A t \in DOMAIN more : t > s => more[t] = <<>>
    BY <1>2, <2>1
  <2>4. \E u \in DOMAIN more :
          /\ more[u] # <<>>
          /\ \A t \in DOMAIN more : t > u => more[t] = <<>>
          /\ n = Len(more[u])
    BY <2>1, <2>2, <2>3
  <2> QED BY <2>4 DEF Counted, more
<1> QED BY <1>3, <1>4

\* What the workarounds make of the names in the order the CCU sends them.
LEMMA StoredInTurn ==
  ASSUME NEW k \in Nat, k < 20, NEW n \in Nat \ {0}, NEW f
  PROVE  LET m == Answer("NAME", k + 1, n, <<f, k + 1>>)
         IN /\ LengthIn(m) = n
            /\ m.net = <<f, k + 1>>
            /\ Clears(m) <=> k = 0
            /\ k = 0 => IndexIn(m, {}) = k + 1
            /\ k > 0 => IndexIn(m, 1 .. k) = k + 1
<1> DEFINE m == Answer("NAME", k + 1, n, <<f, k + 1>>)
<1>1. m.type = Wire(k + 1) /\ m.length = Wire(n) /\ m.chars = n /\ m.net = <<f, k + 1>>
  BY DEF Answer
<1> HIDE DEF m
<1>2. LengthIn(m) = n
  BY <1>1 DEF LengthIn, Wire
<1>3. Clears(m) <=> k = 0
  BY <1>1 DEF Clears, Wire
<1>4. (k = 0 => IndexIn(m, {}) = k + 1) /\ (k > 0 => IndexIn(m, 1 .. k) = k + 1)
  <2>1. CASE k = 12
    BY <1>1, <2>1 DEF IndexIn, Wire
  <2>2. CASE k = 9
    BY <1>1, <2>2 DEF IndexIn, Wire
  <2>3. CASE k # 12 /\ k # 9
    BY <1>1, <2>3 DEF IndexIn, Wire
  <2> QED BY <2>1, <2>2, <2>3
<1> QED BY <1>1, <1>2, <1>3, <1>4 DEF m

LEMMA OverBlank == \A net : \A n \in Nat : Over(Blank, net, n) = Row(net, n, 0)
  BY DEF Over, Blank, Row

\* The timer takes the next name off the line, or there is none left.
LEMMA NextOnLine ==
  ASSUME TypeOK, NEW k \in 0 .. Len(Latest), NamesLeft(k), ProcessMessage
  PROVE  LET m == Head(toBridge)
         IN /\ Latest' = Latest
            /\ m.op = "NAME" =>
                 /\ k < Len(Latest)
                 /\ m = Answer("NAME", k + 1, Latest[k + 1], <<Len(found), k + 1>>)
                 /\ NamesLeft(k + 1)'
                 /\ toBridge' # <<>>
            /\ m.op # "NAME" => k = Len(Latest) /\ NamesLeft(k)'
            /\ m.op = "END" =>
                 \A i \in DOMAIN toBridge' : toBridge'[i].op \notin {"NAME", "END"}
<1> DEFINE m    == Head(toBridge)
           left == Len(Latest) - k
<1>1. /\ toBridge \in Seq(AnswerType) /\ toBridge # <<>> /\ toBridge' = Tail(toBridge)
      /\ found' = found
  BY DEF ProcessMessage, TypeOK
<1>2. Latest' = Latest
  BY <1>1 DEF Latest
<1>3. Len(Latest) \in Nat /\ k \in Nat /\ k <= Len(Latest) /\ left \in Nat
  BY LatestFacts
<1>4. /\ Len(toBridge) \in Nat /\ DOMAIN toBridge = 1 .. Len(toBridge)
      /\ DOMAIN toBridge' = 1 .. Len(toBridge) - 1
      /\ m = toBridge[1] /\ 1 \in DOMAIN toBridge
      /\ \A i \in 1 .. Len(toBridge) - 1 : toBridge'[i] = toBridge[i + 1]
  BY <1>1
<1>5. /\ \A i \in 1 .. left :
           /\ i \in DOMAIN toBridge
           /\ toBridge[i] = Answer("NAME", k + i, Latest[k + i], <<Len(found), k + i>>)
      /\ \A i \in DOMAIN toBridge :
           /\ toBridge[i].op = "NAME" => i <= left
           /\ toBridge[i].op = "END" => i = left + 1
      /\ left > 0 => left + 1 \in DOMAIN toBridge /\ toBridge[left + 1].op = "END"
  BY DEF NamesLeft
<1> HIDE DEF m, left
<1>6. left > 0 => m.op = "NAME"
  <2>1. ASSUME left > 0 PROVE m = Answer("NAME", k + 1, Latest[k + 1], <<Len(found), k + 1>>)
    BY <1>3, <1>4, <1>5, <2>1
  <2> QED BY <2>1 DEF Answer
<1>7. CASE m.op = "NAME"
  <2>1. left > 0
    BY <1>3, <1>4, <1>5, <1>7
  <2>2. k < Len(Latest) /\ Len(Latest) - (k + 1) = left - 1 /\ left - 1 \in Nat
    BY <1>3, <2>1 DEF left
  <2>3. m = Answer("NAME", k + 1, Latest[k + 1], <<Len(found), k + 1>>)
    BY <1>3, <1>4, <1>5, <2>1
  <2>4. ASSUME NEW i \in 1 .. left - 1
        PROVE  /\ i \in DOMAIN toBridge'
               /\ toBridge'[i] = Answer("NAME", (k + 1) + i, Latest[(k + 1) + i],
                                         <<Len(found), (k + 1) + i>>)
    <3>1. i + 1 \in 1 .. left /\ k + (i + 1) = (k + 1) + i
      BY <1>3, <2>4
    <3>2. /\ i + 1 \in DOMAIN toBridge
          /\ toBridge[i + 1] = Answer("NAME", k + (i + 1), Latest[k + (i + 1)],
                                      <<Len(found), k + (i + 1)>>)
      BY <1>5, <3>1
    <3>3. i \in 1 .. Len(toBridge) - 1
      BY <1>4, <3>1, <3>2
    <3> QED BY <1>4, <3>1, <3>2, <3>3
  <2>5. ASSUME NEW i \in DOMAIN toBridge'
        PROVE  /\ toBridge'[i].op = "NAME" => i <= left - 1
               /\ toBridge'[i].op = "END" => i = (left - 1) + 1
    <3>1. /\ i \in 1 .. Len(toBridge) - 1 /\ i + 1 \in DOMAIN toBridge
          /\ toBridge'[i] = toBridge[i + 1]
      BY <1>4
    <3>2. /\ toBridge[i + 1].op = "NAME" => i + 1 <= left
          /\ toBridge[i + 1].op = "END" => i + 1 = left + 1
      BY <1>5, <3>1
    <3> QED BY <1>3, <3>1, <3>2
  <2>6. (left - 1) + 1 \in DOMAIN toBridge' /\ toBridge'[(left - 1) + 1].op = "END"
    <3>1. left \in 1 .. Len(toBridge) - 1
      BY <1>3, <1>4, <1>5, <2>1
    <3>2. toBridge'[left] = toBridge[left + 1]
      BY <1>4, <3>1
    <3>3. (left - 1) + 1 = left
      BY <1>3
    <3> QED BY <1>4, <1>5, <2>1, <3>1, <3>2, <3>3
  <2>7. NamesLeft(k + 1)'
    BY <1>1, <1>2, <2>2, <2>4, <2>5, <2>6 DEF NamesLeft
  <2>8. toBridge' # <<>>
    BY <2>6
  <2> QED BY <1>2, <1>7, <2>2, <2>3, <2>7, <2>8 DEF m
<1>8. CASE m.op # "NAME"
  <2>1. left = 0 /\ k = Len(Latest)
    <3>1. left = 0
      BY <1>3, <1>6, <1>8
    <3> QED BY <1>3, <3>1 DEF left
  <2>2. ASSUME NEW i \in DOMAIN toBridge'
        PROVE  toBridge'[i].op \notin {"NAME", "END"}
    <3>1. /\ i \in 1 .. Len(toBridge) - 1 /\ i + 1 \in DOMAIN toBridge
          /\ toBridge'[i] = toBridge[i + 1]
      BY <1>4
    <3>2. i + 1 > 1
      BY <1>4, <3>1
    <3> QED BY <1>5, <2>1, <3>1, <3>2
  <2>3. NamesLeft(k)'
    <3>1. Len(Latest') - k = 0
      BY <1>2, <1>3, <2>1
    <3> QED BY <2>2, <3>1 DEF NamesLeft
  <2> QED BY <1>2, <1>8, <2>1, <2>2, <2>3 DEF m
<1> QED BY <1>7, <1>8

\* A scan puts its names on the line.
LEMMA ScanOnLine ==
  ASSUME TypeOK, TypeOK', CcuScans, toBridge = <<>>
  PROVE  /\ NamesLeft(0)'
         /\ \E lengths \in Surroundings : found' = Append(found, lengths) /\ Latest' = lengths
<1>1. PICK lengths \in Surroundings :
        /\ found' = Append(found, lengths)
        /\ toBridge' = toBridge \o Append(Names(Len(found'), lengths), Answer("END", 0, 0, Nobody))
  BY DEF CcuScans
<1> DEFINE answers == Append(Names(Len(found'), lengths), Answer("END", 0, 0, Nobody))
<1>2. found \in Seq(Surroundings) /\ found' \in Seq(Surroundings) /\ Len(found') \in Nat
  BY DEF TypeOK
<1>3. Latest' = lengths
  <2>1. found' # <<>> /\ found'[Len(found')] = lengths
    BY <1>1, <1>2
  <2> QED BY <2>1 DEF Latest
<1>4. answers \in Seq(AnswerType)
  BY <1>2, ScanAnswerType
<1>5. /\ Len(lengths) \in Nat /\ DOMAIN answers = 1 .. Len(lengths) + 1
      /\ \A i \in 1 .. Len(lengths) :
           answers[i] = Answer("NAME", i, lengths[i], <<Len(found'), i>>) /\ answers[i].op = "NAME"
      /\ answers[Len(lengths) + 1].op = "END"
  BY <1>2, NamesAnswered
<1>a. toBridge' = toBridge \o answers
  BY <1>1
<1> HIDE DEF answers
<1>6. toBridge' = answers
  BY <1>4, <1>a
<1> DEFINE size == Len(lengths)
<1>7. size \in Nat /\ Len(Latest') - 0 = size
  BY <1>3, <1>5
<1>8. ASSUME NEW i \in 1 .. size
      PROVE  i \in DOMAIN toBridge' /\ 0 + i = i
             /\ toBridge'[i] = Answer("NAME", i, Latest'[i], <<Len(found'), i>>)
  BY <1>3, <1>5, <1>6
<1>9. ASSUME NEW i \in DOMAIN toBridge'
      PROVE  /\ toBridge'[i].op = "NAME" => i <= size
             /\ toBridge'[i].op = "END" => i = size + 1
  <2>1. i \in 1 .. size \/ i = size + 1
    BY <1>5, <1>6
  <2>2. i \in 1 .. size => toBridge'[i].op = "NAME"
    BY <1>5, <1>6
  <2>3. i = size + 1 => toBridge'[i].op = "END"
    BY <1>5, <1>6
  <2> QED BY <1>7, <2>1, <2>2, <2>3
<1>10. size + 1 \in DOMAIN toBridge' /\ toBridge'[size + 1].op = "END"
  BY <1>5, <1>6
<1> HIDE DEF size
<1>11. NamesLeft(0)'
  <2>1. ASSUME NEW i \in 1 .. Len(Latest') - 0
        PROVE  /\ i \in DOMAIN toBridge'
               /\ toBridge'[i] = Answer("NAME", 0 + i, Latest'[0 + i], <<Len(found'), 0 + i>>)
    BY <1>7, <1>8
  <2>2. \A i \in DOMAIN toBridge' :
          /\ toBridge'[i].op = "NAME" => i <= Len(Latest') - 0
          /\ toBridge'[i].op = "END" => i = (Len(Latest') - 0) + 1
    BY <1>7, <1>9
  <2>3. (Len(Latest') - 0) + 1 \in DOMAIN toBridge' /\ toBridge'[(Len(Latest') - 0) + 1].op = "END"
    BY <1>7, <1>10
  <2> QED BY <2>1, <2>2, <2>3 DEF NamesLeft
<1> QED BY <1>1, <1>3, <1>11

\* A name in turn goes into the next row.
LEMMA StoreInTurn ==
  ASSUME TypeOK, NEW k \in 0 .. Len(Latest), NamesLeft(k), CountsTo(k), RowsTo(k), ~Unserved,
         ProcessMessage, Head(toBridge).op = "NAME"
  PROVE  /\ k < Len(Latest) /\ Latest' = Latest
         /\ NamesLeft(k + 1)' /\ CountsTo(k + 1)' /\ RowsTo(k + 1)'
<1> DEFINE m == Head(toBridge)
           n == Latest[k + 1]
           f == Len(found)
<1>1. /\ k < Len(Latest) /\ Latest' = Latest /\ found' = found /\ NamesLeft(k + 1)'
      /\ m = Answer("NAME", k + 1, n, <<f, k + 1>>)
  BY NextOnLine DEF ProcessMessage
<1>2. k \in Nat /\ Len(Latest) \in Nat /\ Len(Latest) <= 20 /\ Len(Latest) <= Rows
  BY LatestFacts
<1>3. k < 20 /\ k + 1 \in 1 .. Rows /\ k + 1 <= Len(Latest)
  BY <1>1, <1>2, SizesAssumption
<1>4. n \in Nat \ {0}
  BY <1>2, <1>3, LatestFacts
<1>5. k > 0 => ap_name = 1 .. k /\ ap_count = k
  BY DEF CountsTo
<1>a. StoreName(m)
  BY DEF ProcessMessage
<1> HIDE DEF m, n, f
<1>6. /\ LengthIn(m) = n /\ m.net = <<f, k + 1>> /\ (Clears(m) <=> k = 0)
      /\ k = 0 => IndexIn(m, {}) = k + 1
      /\ k > 0 => IndexIn(m, 1 .. k) = k + 1
  BY <1>1, <1>2, <1>3, <1>4, StoredInTurn
<1>7. /\ ap_name' = (IF k = 0 THEN {} ELSE ap_name) \cup {k + 1}
      /\ ap_count' = IF k = 0 THEN 1 ELSE ap_count + 1
      /\ wifi_report' = [wifi_report EXCEPT ![k + 1] = Over(wifi_report[k + 1], <<f, k + 1>>, n)]
      /\ wifi_report_length' = [wifi_report_length EXCEPT ![k + 1] = n]
  <2>1. CASE k = 0
    BY <1>6, <1>a, <2>1 DEF StoreName
  <2>2. CASE k > 0
    BY <1>5, <1>6, <1>a, <2>2 DEF StoreName
  <2> QED BY <1>2, <2>1, <2>2
<1>8. ap_name' = 1 .. k + 1 /\ ap_count' = k + 1
  <2>1. CASE k = 0
    BY <1>7, <2>1
  <2>2. CASE k > 0
    BY <1>2, <1>5, <1>7, <2>2
  <2> QED BY <1>2, <2>1, <2>2
<1>9. CountsTo(k + 1)'
  <2>1. k + 1 = Len(Latest) => Counted(found, k + 1)
    <3>1. Len(Latest) > 0
      BY <1>1, <1>2
    <3> QED BY <3>1, CountedLatest
  <2> QED BY <1>1, <1>8, <2>1 DEF CountsTo
<1>10. RowsTo(k + 1)'
  <2>1. ASSUME NEW j \in 1 .. Rows
        PROVE  IF j <= k + 1
                 THEN /\ wifi_report'[j] = Row(<<f, j>>, Latest[j], 0)
                      /\ wifi_report_length'[j] = Latest[j]
                 ELSE wifi_report'[j] = Blank
    <3>1. IF j <= k
            THEN wifi_report[j] = Row(<<f, j>>, Latest[j], 0) /\ wifi_report_length[j] = Latest[j]
            ELSE wifi_report[j] = Blank
      BY DEF RowsTo, f
    <3>2. wifi_report \in [1 .. Rows -> RowType] /\ wifi_report_length \in [1 .. Rows -> Nat]
      BY DEF TypeOK
    <3>3. CASE j # k + 1
      <4>1. wifi_report'[j] = wifi_report[j] /\ wifi_report_length'[j] = wifi_report_length[j]
        BY <1>3, <1>7, <3>2, <3>3
      <4>2. j <= k + 1 <=> j <= k
        BY <1>2, <3>3, SizesAssumption
      <4> QED BY <3>1, <4>1, <4>2
    <3>4. CASE j = k + 1
      <4>1. wifi_report[j] = Blank
        BY <1>2, <3>1, <3>4
      <4>2. wifi_report'[j] = Over(Blank, <<f, k + 1>>, n) /\ wifi_report_length'[j] = n
        BY <1>3, <1>7, <3>2, <3>4, <4>1
      <4>3. wifi_report'[j] = Row(<<f, k + 1>>, n, 0)
        BY <1>4, <4>2, OverBlank
      <4>4. j <= k + 1
        BY <1>2, <3>4
      <4> QED BY <3>4, <4>2, <4>3, <4>4 DEF n
    <3> QED BY <3>3, <3>4
  <2> QED BY <1>1, <2>1 DEF RowsTo, f
<1> QED BY <1>1, <1>9, <1>10

LEMMA NamesStay ==
  ASSUME NamesStored,
         UNCHANGED <<toBridge, found, hurried, ap_name, ap_count, wifi_report, wifi_report_length>>,
         Unserved' = Unserved, btc = "clear" => btc' = "clear"
  PROVE  NamesStored'
<1>1. Latest' = Latest
  BY DEF Latest
<1>2. SUFFICES ASSUME ~hurried
               PROVE  NamesStored'
  BY DEF NamesStored
<1>3. PICK k \in 0 .. Len(Latest) : NamesLeft(k) /\ CountsTo(k) /\ RowsTo(k)
  BY <1>2 DEF NamesStored
<1>4. NamesLeft(k)' /\ CountsTo(k)' /\ RowsTo(k)'
  BY <1>1, <1>3 DEF NamesLeft, CountsTo, RowsTo
<1>5. Unserved' /\ btc' # "clear" => \A j \in 1 .. Rows : wifi_report'[j] = Blank
  BY <1>2 DEF NamesStored
<1> QED BY <1>1, <1>3, <1>4, <1>5 DEF NamesStored

LEMMA NamesStoredStep ==
  TypeOK /\ TypeOK' /\ OneScan /\ NamesStored /\ [Next]_vars => NamesStored'
<1> SUFFICES ASSUME TypeOK, TypeOK', OneScan, NamesStored, [Next]_vars, ~hurried'
             PROVE  NamesStored'
  BY DEF NamesStored
<1> DEFINE AllBlank == \A j \in 1 .. Rows : wifi_report[j] = Blank
<1>1. ~hurried
  BY RescanStep
  DEF Next, vars, historyVars, Phone, ScanSteps, ReadSteps, Scan, ClearSsids, SetScanning,
      AskForScan, AskForNames, ForceScan, Check, StartNames, FillName, MarkNotReady, Respond,
      WriteText, WriteSsid, WritePart, ProcessMessage, CcuServes
<1>2. PICK k \in 0 .. Len(Latest) : NamesLeft(k) /\ CountsTo(k) /\ RowsTo(k)
  BY <1>1 DEF NamesStored
<1>3. CASE Scan \/ ClearSsids \/ SetScanning \/ AskForScan
  <2>1. UNCHANGED <<toBridge, found, ap_name, ap_count, wifi_report_length>>
    BY <1>3 DEF Scan, ClearSsids, SetScanning, AskForScan, reportVars, historyVars
  <2>2. Unserved'
    <3>1. CASE Scan \/ ClearSsids \/ SetScanning
      BY <3>1 DEF Scan, ClearSsids, SetScanning, NextStep, Unserved, Asking
    <3>2. CASE AskForScan
      <4> DEFINE scan == Message("SCAN", NoPart, NoPart, recent)
      <4>1. Asking /\ toCcu' = Append(toCcu, scan)
        BY <3>2 DEF AskForScan, Asking
      <4>2. toCcu = <<>> /\ scan.op = "SCAN"
        BY <1>1, <4>1 DEF OneScan, Message
      <4> HIDE DEF scan
      <4>3. toCcu' = <<scan>>
        BY <4>1, <4>2
      <4> QED BY <4>2, <4>3 DEF Unserved, ScanFirst
    <3> QED BY <1>3, <3>1, <3>2
  <2>3. btc' # "clear" => AllBlank'
    <3>1. CASE Scan
      BY <3>1 DEF Scan
    <3>2. CASE ClearSsids
      BY <3>2 DEF ClearSsids
    <3>3. CASE SetScanning \/ AskForScan
      <4>1. Unserved /\ btc # "clear" /\ wifi_report' = wifi_report
        BY <3>3 DEF SetScanning, AskForScan, Unserved, Asking, reportVars
      <4> QED BY <1>1, <4>1 DEF NamesStored
    <3> QED BY <1>3, <3>1, <3>2, <3>3
  <2>4. Latest' = Latest /\ NamesLeft(k)' /\ CountsTo(k)' /\ RowsTo(k)'
    BY <1>2, <2>1, <2>2 DEF Latest, NamesLeft, CountsTo, RowsTo
  <2> QED BY <1>2, <2>3, <2>4 DEF NamesStored
<1>4. CASE Reading
  <2>1. /\ UNCHANGED <<toBridge, found, hurried, ap_name, ap_count, wifi_report,
                       wifi_report_length>>
        /\ Unserved' = Unserved /\ ~Asking
    BY <1>4, ReadingLeaves
  <2> QED BY <2>1, NamesStay DEF Asking
<1>5. ASSUME NEW part, WritePart(part)
      PROVE  NamesStored'
  <2>1. /\ UNCHANGED <<btc, toBridge, found, hurried, ap_name, ap_count, wifi_report,
                       wifi_report_length>>
        /\ Unserved' = Unserved
    BY <1>5, WritingLeaves
  <2> QED BY <2>1, NamesStay
<1>6. CASE WriteText \/ WriteSsid
  BY <1>5, <1>6 DEF WriteText, WriteSsid
<1>7. CASE ProcessMessage
  <2>1. toBridge # <<>> /\ UNCHANGED <<btc, toCcu, found, hurried>>
    BY <1>7 DEF ProcessMessage, phoneVars, historyVars
  <2>2. ~Unserved /\ ~Unserved'
    BY <1>1, <2>1 DEF OneScan, Unserved, Asking, ScanFirst
  <2>3. CASE Head(toBridge).op = "NAME"
    <3>1. /\ k < Len(Latest) /\ Latest' = Latest
          /\ NamesLeft(k + 1)' /\ CountsTo(k + 1)' /\ RowsTo(k + 1)'
      BY <1>2, <1>7, <2>2, <2>3, StoreInTurn
    <3>2. k + 1 \in 0 .. Len(Latest)
      BY <3>1, LatestFacts
    <3> QED BY <2>2, <3>1, <3>2 DEF NamesStored
  <2>4. CASE Head(toBridge).op # "NAME"
    <3>1. Latest' = Latest /\ NamesLeft(k)'
      BY <1>2, <1>7, <2>4, NextOnLine
    <3>2. UNCHANGED <<ap_name, ap_count, wifi_report, wifi_report_length>>
      <4>1. Head(toBridge).op \in {"END", "DONE"}
        <5>1. Head(toBridge) \in AnswerType
          BY <2>1 DEF TypeOK
        <5> QED BY <2>4, <5>1 DEF AnswerType
      <4> QED BY <1>7, <4>1 DEF ProcessMessage, EndScan, EndOther, reportVars
    <3>3. CountsTo(k)' /\ RowsTo(k)'
      BY <1>2, <2>1, <2>2, <3>1, <3>2 DEF CountsTo, RowsTo
    <3> QED BY <1>2, <2>2, <3>1, <3>3 DEF NamesStored
  <2> QED BY <2>3, <2>4
<1>8. CASE CcuServes
  <2>1. /\ ~Asking /\ ~Unserved' /\ (Unserved <=> Head(toCcu).op = "SCAN")
        /\ UNCHANGED <<btc, ap_name, ap_count, wifi_report, wifi_report_length>>
    BY <1>1, <1>8, ServingLeaves DEF reportVars
  <2>2. CASE Head(toCcu).op = "SCAN"
    <3>1. CcuScans /\ Unserved /\ toBridge = <<>>
      BY <1>1, <1>8, <2>1, <2>2 DEF CcuServes, CcuObeys, OneScan
    <3>2. NamesLeft(0)'
      BY <3>1, ScanOnLine
    <3>3. PICK lengths \in Surroundings : found' = Append(found, lengths) /\ Latest' = lengths
      BY <3>1, ScanOnLine
    <3>4. CountsTo(0)'
      <4>1. SUFFICES ASSUME 0 = Len(Latest')
                     PROVE  Counted(found', ap_count')
        BY DEF CountsTo
      <4>2. lengths = <<>>
        <5>1. lengths \in Seq(Nat \ {0})
          BY SurroundingsAssumption
        <5> QED BY <3>3, <4>1, <5>1
      <4>3. k = Len(Latest)
        <5>1. Len(Latest) - k > 0 => Len(Latest) - k + 1 \in DOMAIN toBridge
          BY <1>2 DEF NamesLeft
        <5>2. ~(Len(Latest) - k > 0)
          BY <3>1, <5>1
        <5>3. Len(Latest) \in Nat
          BY LatestFacts
        <5> QED BY <5>2, <5>3
      <4>4. Counted(found, ap_count)
        BY <1>2, <4>3 DEF CountsTo
      <4>5. found \in Seq(Surroundings)
        BY DEF TypeOK
      <4> QED BY <2>1, <3>3, <4>2, <4>4, <4>5, CountedNothing
    <3>5. RowsTo(0)'
      <4>1. AllBlank
        BY <1>1, <2>1, <3>1 DEF NamesStored, Asking
      <4>2. \A j \in 1 .. Rows : ~(j <= 0)
        BY SizesAssumption
      <4> QED BY <2>1, <4>1, <4>2 DEF RowsTo
    <3>6. 0 \in 0 .. Len(Latest')
      <4>1. Len(lengths) \in Nat
        BY SurroundingsAssumption
      <4> QED BY <3>3, <4>1
    <3> QED BY <2>1, <3>2, <3>4, <3>5, <3>6 DEF NamesStored
  <2>3. CASE Head(toCcu).op # "SCAN"
    <3> DEFINE done == Answer("DONE", 0, 0, Nobody)
    <3>1. found' = found /\ toBridge' = Append(toBridge, done)
      BY <1>8, <2>3 DEF CcuServes, CcuScans, CcuObeys
    <3>2. done.op = "DONE" /\ toBridge \in Seq(AnswerType)
      BY DEF Answer, TypeOK
    <3> HIDE DEF done
    <3>3. /\ Len(toBridge) \in Nat /\ DOMAIN toBridge = 1 .. Len(toBridge)
          /\ DOMAIN toBridge' = 1 .. Len(toBridge) + 1
          /\ \A i \in 1 .. Len(toBridge) : toBridge'[i] = toBridge[i]
          /\ toBridge'[Len(toBridge) + 1] = done
      BY <3>1, <3>2
    <3>4. Latest' = Latest
      BY <3>1 DEF Latest
    <3> DEFINE left == Len(Latest) - k
    <3>5. /\ \A i \in 1 .. left :
               /\ i \in DOMAIN toBridge
               /\ toBridge[i] = Answer("NAME", k + i, Latest[k + i], <<Len(found), k + i>>)
          /\ \A i \in DOMAIN toBridge :
               /\ toBridge[i].op = "NAME" => i <= left
               /\ toBridge[i].op = "END" => i = left + 1
          /\ left > 0 => left + 1 \in DOMAIN toBridge /\ toBridge[left + 1].op = "END"
      BY <1>2 DEF NamesLeft
    <3> HIDE DEF left
    <3>6. ASSUME NEW i \in DOMAIN toBridge
          PROVE  i \in DOMAIN toBridge' /\ toBridge'[i] = toBridge[i]
      BY <3>3
    <3>7. ASSUME NEW i \in DOMAIN toBridge', toBridge'[i].op # "DONE"
          PROVE  i \in DOMAIN toBridge /\ toBridge'[i] = toBridge[i]
      BY <3>2, <3>3, <3>7
    <3>8. /\ \A i \in 1 .. left :
               /\ i \in DOMAIN toBridge'
               /\ toBridge'[i] = Answer("NAME", k + i, Latest[k + i], <<Len(found), k + i>>)
          /\ \A i \in DOMAIN toBridge' :
               /\ toBridge'[i].op = "NAME" => i <= left
               /\ toBridge'[i].op = "END" => i = left + 1
          /\ left > 0 => left + 1 \in DOMAIN toBridge' /\ toBridge'[left + 1].op = "END"
      BY <3>5, <3>6, <3>7
    <3>9. NamesLeft(k)'
      BY <3>1, <3>4, <3>8 DEF NamesLeft, left
    <3>10. ~Unserved
      BY <2>1, <2>3
    <3>11. CountsTo(k)' /\ RowsTo(k)'
      BY <1>2, <2>1, <3>1, <3>4, <3>10 DEF CountsTo, RowsTo
    <3> QED BY <1>2, <2>1, <3>4, <3>9, <3>11 DEF NamesStored
  <2> QED BY <2>2, <2>3
<1>9. CASE UNCHANGED vars
  <2>1. Unserved' = Unserved
    BY <1>9 DEF vars, Unserved, Asking, ScanFirst
  <2> QED BY <1>9, <2>1, NamesStay DEF vars, reportVars, historyVars
<1> QED
  BY <1>3, <1>4, <1>6, <1>7, <1>8, <1>9 DEF Next, Phone, ScanSteps, ReadSteps, Reading

\* While the phone reads its scan the line holds names, and the end is the last.
LEMMA EndIsLast ==
  ASSUME TypeOK, OnlyScan, NamesStored, reading, ~hurried, ProcessMessage
  PROVE  LET m == Head(toBridge)
         IN /\ m.op \in {"NAME", "END"}
            /\ m.op = "NAME" => toBridge' # <<>>
            /\ m.op = "END" => toBridge' = <<>>
<1> DEFINE m == Head(toBridge)
<1>1. toBridge # <<>> /\ toBridge' = Tail(toBridge) /\ toBridge \in Seq(AnswerType)
  BY DEF ProcessMessage, TypeOK
<1>2. PICK k \in 0 .. Len(Latest) : NamesLeft(k)
  BY DEF NamesStored
<1>3. ASSUME NEW i \in DOMAIN toBridge
      PROVE  toBridge[i].op \in {"NAME", "END"}
  <2>1. toBridge[i] \in AnswerType
    BY <1>1
  <2>2. toBridge[i].op # "DONE"
    BY DEF OnlyScan
  <2> QED BY <2>1, <2>2 DEF AnswerType
<1>4. m = toBridge[1] /\ 1 \in DOMAIN toBridge
  BY <1>1
<1>5. m.op = "NAME" => toBridge' # <<>>
  BY <1>2, NextOnLine
<1>6. ASSUME m.op = "END"
      PROVE  toBridge' = <<>>
  <2>1. \A i \in DOMAIN toBridge' : toBridge'[i].op \notin {"NAME", "END"}
    BY <1>2, <1>6, NextOnLine
  <2>2. ASSUME NEW i \in DOMAIN toBridge'
        PROVE  i + 1 \in DOMAIN toBridge /\ toBridge'[i] = toBridge[i + 1]
    BY <1>1
  <2>3. \A i \in DOMAIN toBridge' : toBridge'[i].op \in {"NAME", "END"}
    BY <1>3, <2>2
  <2>4. toBridge' \in Seq(AnswerType) /\ (toBridge' # <<>> => 1 \in DOMAIN toBridge')
    BY <1>1
  <2> QED BY <2>1, <2>3, <2>4
<1> QED BY <1>3, <1>4, <1>5, <1>6

LEMMA WithScanStep ==
  TypeOK /\ TypeOK' /\ OneScan /\ OnlyScan /\ NamesStored /\ WithScan /\ [Next]_vars => WithScan'
<1> SUFFICES ASSUME TypeOK, TypeOK', OneScan, OnlyScan, NamesStored, WithScan, [Next]_vars,
                    reading', ~hurried'
             PROVE  WithScan'
  BY DEF WithScan
<1> USE DEF phoneVars, historyVars
<1>1. CASE Scan
  BY <1>1 DEF Scan, WithScan
<1>2. CASE ClearSsids \/ SetScanning \/ AskForScan
  BY <1>2 DEF ClearSsids, SetScanning, AskForScan, NextStep, ScanStates, WithScan
<1>3. CASE Reading
  <2>1. /\ toBridge' = toBridge /\ reading' = reading /\ hurried' = hurried
        /\ Unserved' = Unserved /\ ~Asking
    BY <1>3, ReadingLeaves
  <2>2. btc \notin {"clear", "state", "ask"}
    BY <2>1 DEF Asking
  <2>3. /\ ~astray /\ bt_state \in ScanStates /\ btc # "force"
        /\ bt_state # "SCANNING" => ~Unserved /\ toBridge = <<>>
        /\ btc \in {"start", "rescanComplete"} => bt_state # "SCANNING"
        /\ btc = "rescanNames" => bt_state = "NAMES"
    BY <2>1, <2>2 DEF WithScan
  <2>4. CASE Rescan
    BY <2>1, <2>3, <2>4, RescanStep DEF ScanStates, WithScan
  <2>5. CASE ForceScan
    BY <2>3, <2>5 DEF ForceScan
  <2>6. CASE StartNames
    BY <2>1, <2>3, <2>6 DEF StartNames, ScanStates, WithScan
  <2>7. CASE Check
    <3>1. UNCHANGED <<bt_state, astray>> /\ btc' \in {"mark", "start", "fill", "respond"}
          /\ (btc' = "start" => bt_state = "COMPLETE")
      BY <2>3, <2>7 DEF Check, ScanStates
    <3> QED BY <2>1, <2>3, <3>1 DEF WithScan
  <2>8. CASE AskForNames \/ FillName \/ MarkNotReady \/ Respond
    <3>1. UNCHANGED <<bt_state, astray>> /\ btc' \in {"rescan", "respond", "idle"}
      BY <2>8 DEF AskForNames, FillName, MarkNotReady, Respond
    <3> QED BY <2>1, <2>3, <3>1 DEF WithScan
  <2> QED BY <1>3, <2>4, <2>5, <2>6, <2>7, <2>8 DEF Reading
<1>4. CASE WriteText \/ WriteSsid
  <2>1. reading' = FALSE
    BY <1>4 DEF WriteText, WriteSsid, WritePart
  <2> QED BY <2>1
<1>5. CASE ProcessMessage
  <2> DEFINE m == Head(toBridge)
  <2>1. UNCHANGED <<btc, toCcu, reading, hurried, astray>> /\ toBridge # <<>>
    BY <1>5 DEF ProcessMessage
  <2>2. ~Unserved /\ ~Unserved'
    BY <2>1 DEF OneScan, Unserved, Asking, ScanFirst
  <2>3. /\ ~astray /\ bt_state = "SCANNING" /\ btc \notin {"clear", "state", "ask"}
        /\ btc \notin {"start", "rescanComplete", "rescanNames", "force"}
    BY <2>1, <2>2 DEF WithScan, Unserved, Asking
  <2>4. m.op \in {"NAME", "END"} /\ (m.op = "END" => toBridge' = <<>>)
    BY <1>5, <2>1, EndIsLast
  <2>5. /\ m.op = "NAME" => bt_state' = bt_state
        /\ m.op = "END" => bt_state' = "COMPLETE"
    BY <1>5 DEF ProcessMessage, StoreName, EndScan
  <2> QED BY <2>1, <2>2, <2>3, <2>4, <2>5 DEF ScanStates, WithScan
<1>6. CASE CcuServes
  <2>1. UNCHANGED <<btc, bt_state, reading, hurried, astray>> /\ toCcu # <<>>
    BY <1>6 DEF CcuServes
  <2>2. Head(toCcu).op = "SCAN"
    <3>1. 1 \in DOMAIN toCcu /\ Head(toCcu) = toCcu[1]
      BY <2>1 DEF TypeOK
    <3> QED BY <2>1, <3>1 DEF OnlyScan
  <2>3. ~Asking /\ Unserved
    BY <1>6, <2>1, <2>2, ServingLeaves
  <2>4. bt_state = "SCANNING"
    BY <2>1, <2>3 DEF WithScan, Asking
  <2> QED BY <2>1, <2>4 DEF ScanStates, WithScan
<1>7. CASE UNCHANGED vars
  BY <1>7 DEF vars, WithScan, Unserved, Asking, ScanFirst
<1> QED
  BY <1>1, <1>2, <1>3, <1>4, <1>5, <1>6, <1>7 DEF Next, Phone, ScanSteps, ReadSteps, Reading

\* The phone's read of a scan, one step of the read after the other.
LEMMA ReadsStep ==
  ASSUME TypeOK, OnlyScan, ReadsInStep, ReadsFit, Orderly, Reading
  PROVE  ReadsInStep'
<1> DEFINE Waits == Unserved \/ toBridge # <<>>
<1>1. /\ UNCHANGED <<toBridge, reading, hurried, raced, ap_count, wifi_report, wifi_report_length>>
      /\ Unserved' = Unserved
  BY ReadingLeaves
<1>2. /\ IF Waits THEN ScanRuns ELSE ScanOver
      /\ heard # <<>> => heard[1] = Count(ap_count)
      /\ \A j \in 1 .. Len(heard) - 1 :
           heard[j + 1] = Shown(wifi_report[j], wifi_report_length[j])
  BY DEF ReadsInStep
<1>3. Waits' = Waits
  BY <1>1
<1> HIDE DEF Waits
<1>4. reading /\ ~hurried /\ heard \in Seq(DataType) /\ ssid_index \in Nat
  BY DEF Orderly, TypeOK
<1>5. CASE ~Respond
  <2>1. heard' = heard
    BY <1>5, RescanStep
    DEF Reading, AskForNames, ForceScan, Check, StartNames, FillName, MarkNotReady, phoneVars
  <2>2. IF Waits THEN ScanRuns' ELSE ScanOver'
    <3>1. CASE AskForNames
      <4>1. heard # <<>> /\ btc = "idle" /\ btc' = "rescan" /\ ep_return_message' = Cleared
            /\ UNCHANGED <<bt_state, ssid_index>>
        BY <1>4, <3>1 DEF AskForNames, reportVars
      <4>2. ~Waits
        BY <1>2, <4>1 DEF ScanRuns
      <4>3. bt_state = "NAMES" /\ ssid_index + 1 = Len(heard)
        BY <1>2, <4>1, <4>2 DEF ScanOver
      <4>4. ep_return_message'.rc = "SUCCESS"
        BY <4>1, ClearedType
      <4> QED BY <2>1, <4>1, <4>2, <4>3, <4>4 DEF ScanOver
    <3>2. CASE Rescan \/ ForceScan
      <4>1. btc \in {"rescan", "rescanComplete", "rescanNames"} /\ Rescan
        <5>1. ForceScan => btc = "force"
          BY DEF ForceScan
        <5>2. btc # "force"
          BY <1>2 DEF ScanRuns, ScanOver
        <5> QED BY <3>2, <5>1, <5>2, RescanStep
      <4>2. UNCHANGED <<bt_state, ep_return_message, ssid_index, ap_count>>
        BY <4>1, RescanStep DEF reportVars
      <4>3. CASE Waits
        <5>1. ScanRuns /\ btc = "rescan" /\ bt_state = "SCANNING"
          BY <1>2, <4>1, <4>3 DEF ScanRuns
        <5>2. btc' = "idle"
          BY <4>1, <5>1, RescanStep
        <5> QED BY <2>1, <4>2, <4>3, <5>1, <5>2 DEF ScanRuns
      <4>4. CASE ~Waits
        <5>1. ScanOver
          BY <1>2, <4>4
        <5>2. CASE bt_state = "COMPLETE"
          <6>1. btc' \in {"idle", "rescanComplete"}
            BY <4>1, <5>1, <5>2, RescanStep DEF ScanOver
          <6> QED BY <2>1, <4>1, <4>2, <4>4, <5>1, <5>2, <6>1 DEF ScanOver
        <5>3. CASE bt_state = "NAMES"
          <6>1. btc' \in {"idle", "rescanComplete", "rescanNames"}
            BY <4>1, <5>3, RescanStep
          <6> QED BY <2>1, <4>1, <4>2, <4>4, <5>1, <5>3, <6>1 DEF ScanOver
        <5> QED BY <5>1, <5>2, <5>3 DEF ScanOver
      <4> QED BY <4>3, <4>4
    <3>3. CASE Check
      <4>1. btc = "idle" /\ UNCHANGED <<bt_state, ep_return_message, ssid_index, ap_count>>
            /\ btc' = CASE bt_state \in {"SCANNING", "WAIT"} -> "mark"
                        [] bt_state = "COMPLETE"             -> "start"
                        [] bt_state = "NAMES"                -> "fill"
                        [] bt_state = "REST"                 -> "respond"
        BY <3>3 DEF Check, reportVars
      <4>2. CASE Waits
        <5>1. ScanRuns /\ bt_state = "SCANNING"
          BY <1>2, <4>1, <4>2 DEF ScanRuns
        <5>2. btc' = "mark"
          BY <4>1, <5>1
        <5> QED BY <2>1, <4>1, <4>2, <5>1, <5>2 DEF ScanRuns
      <4>3. CASE ~Waits
        <5>1. ScanOver
          BY <1>2, <4>3
        <5>2. CASE bt_state = "COMPLETE"
          <6>1. btc' = "start"
            BY <4>1, <5>2
          <6> QED BY <2>1, <4>1, <4>3, <5>1, <5>2, <6>1 DEF ScanOver
        <5>3. CASE bt_state = "NAMES"
          <6>1. btc' = "fill"
            BY <4>1, <5>3
          <6> QED BY <2>1, <4>1, <4>3, <5>1, <5>3, <6>1 DEF ScanOver
        <5> QED BY <5>1, <5>2, <5>3 DEF ScanOver
      <4> QED BY <4>2, <4>3
    <3>4. CASE StartNames
      <4>1. btc = "start" /\ btc' = "respond" /\ ssid_index' = 0 /\ bt_state' = "NAMES"
            /\ UNCHANGED <<ep_return_message, ap_count>>
        BY <3>4 DEF StartNames
      <4>2. ~Waits
        BY <1>2, <4>1 DEF ScanRuns
      <4> QED BY <1>2, <2>1, <4>1, <4>2 DEF ScanOver
    <3>5. CASE FillName
      <4>1. btc = "fill" /\ btc' = "respond" /\ bt_state' = bt_state
        BY <3>5 DEF FillName
      <4>2. ~Waits
        BY <1>2, <4>1 DEF ScanRuns
      <4>3. bt_state = "NAMES" /\ heard # <<>> /\ ssid_index + 1 = Len(heard)
            /\ ep_return_message.rc = "SUCCESS"
        BY <1>2, <4>1, <4>2 DEF ScanOver
      <4>a. Len(heard) <= Rows
        BY <4>1, <4>3 DEF ReadsFit
      <4>b. Entries(ssid_index) =
              {<<wifi_report[ssid_index + 1], wifi_report_length[ssid_index + 1]>>}
        BY <1>4, <4>3, <4>a, SizesAssumption DEF Entries
      <4>c. /\ ep_return_message' =
                 [ep_return_message EXCEPT
                    !.data = Shown(wifi_report[ssid_index + 1], wifi_report_length[ssid_index + 1])]
            /\ ssid_index' = ssid_index + 1
        BY <3>5, <4>b DEF FillName, NextRow
      <4>4. ep_return_message' =
              [rc   |-> "SUCCESS",
               data |-> Shown(wifi_report[ssid_index'], wifi_report_length[ssid_index'])]
        <5>1. ep_return_message \in [rc : {"SUCCESS", "SCANNING", "NOT_READY"}, data : DataType]
          BY DEF TypeOK
        <5> QED BY <4>3, <4>c, <5>1
      <4> QED BY <1>1, <2>1, <4>1, <4>2, <4>3, <4>4, <4>c DEF ScanOver
    <3>6. CASE MarkNotReady
      <4>1. btc = "mark" /\ btc' = "respond" /\ bt_state' = bt_state
            /\ ep_return_message' = [ep_return_message EXCEPT !.rc = "NOT_READY"]
        BY <3>6 DEF MarkNotReady
      <4>2. ep_return_message'.rc # "SUCCESS"
        BY <4>1 DEF TypeOK
      <4>3. Waits /\ ScanRuns
        BY <1>2, <4>1 DEF ScanOver
      <4> QED BY <2>1, <4>1, <4>2, <4>3 DEF ScanRuns
    <3> QED BY <1>5, <3>1, <3>2, <3>3, <3>4, <3>5, <3>6 DEF Reading
  <2> QED BY <1>1, <1>2, <1>3, <2>1, <2>2 DEF ReadsInStep, Waits
<1>6. CASE Respond
  <2>1. btc = "respond" /\ btc' = "idle" /\ UNCHANGED <<bt_state, ep_return_message, ssid_index>>
        /\ heard' = IF ep_return_message.rc = "SUCCESS"
                      THEN Append(heard, ep_return_message.data) ELSE heard
    BY <1>4, <1>6 DEF Respond, reportVars
  <2>2. CASE Waits
    <3>1. ScanRuns /\ ep_return_message.rc # "SUCCESS"
      BY <1>2, <2>1, <2>2 DEF ScanRuns
    <3>2. ScanRuns' /\ heard' = heard
      BY <2>1, <3>1 DEF ScanRuns
    <3> QED BY <1>1, <1>2, <1>3, <2>2, <3>2 DEF ReadsInStep, Waits
  <2>3. CASE ~Waits
    <3>1. \/ /\ heard = <<>> /\ ssid_index = 0 /\ ep_return_message.data = Count(ap_count)
          \/ /\ heard # <<>> /\ ssid_index = Len(heard)
             /\ ep_return_message.data =
                  Shown(wifi_report[ssid_index], wifi_report_length[ssid_index])
      BY <1>2, <2>1, <2>3 DEF ScanOver
    <3>2. bt_state = "NAMES" /\ ep_return_message.rc = "SUCCESS"
      BY <1>2, <2>1, <2>3 DEF ScanOver
    <3>3. heard' = Append(heard, ep_return_message.data) /\ ep_return_message.data \in DataType
      BY <2>1, <3>2 DEF TypeOK
    <3>4. /\ Len(heard) \in Nat /\ Len(heard') = Len(heard) + 1 /\ heard' # <<>>
          /\ heard'[Len(heard) + 1] = ep_return_message.data
          /\ \A j \in 1 .. Len(heard) : heard'[j] = heard[j]
      BY <1>4, <3>3
    <3>5. Len(heard) = ssid_index
      BY <1>4, <3>1
    <3>6. ScanOver'
      BY <1>4, <2>1, <3>2, <3>4, <3>5 DEF ScanOver
    <3>7. heard'[1] = Count(ap_count)
      <4>1. CASE heard = <<>>
        BY <3>1, <3>4, <4>1
      <4>2. CASE heard # <<>>
        <5>1. 1 \in 1 .. Len(heard)
          BY <1>4, <4>2
        <5> QED BY <1>2, <3>4, <4>2, <5>1
      <4> QED BY <4>1, <4>2
    <3>8. ASSUME NEW j \in 1 .. Len(heard') - 1
          PROVE  heard'[j + 1] = Shown(wifi_report[j], wifi_report_length[j])
      <4>1. CASE j = Len(heard)
        <5>1. heard # <<>> /\ j = ssid_index
          BY <3>5, <4>1
        <5> QED BY <3>1, <3>4, <4>1, <5>1
      <4>2. CASE j # Len(heard)
        <5>1. j \in 1 .. Len(heard) - 1 /\ j + 1 \in 1 .. Len(heard)
          BY <3>4, <4>2
        <5> QED BY <1>2, <3>4, <5>1
      <4> QED BY <4>1, <4>2
    <3> QED BY <1>1, <1>3, <2>3, <3>6, <3>7, <3>8 DEF ReadsInStep, Waits
  <2> QED BY <2>2, <2>3
<1> QED BY <1>5, <1>6

LEMMA ReadsInStepStep ==
  TypeOK /\ TypeOK' /\ OneScan /\ OnlyScan /\ NamesStored /\ ReadsInStep /\ ReadsFit
  /\ [Next]_vars => ReadsInStep'
<1> SUFFICES ASSUME TypeOK, TypeOK', OneScan, OnlyScan, NamesStored, ReadsInStep, ReadsFit,
                    [Next]_vars, Orderly'
             PROVE  ReadsInStep'
  BY DEF ReadsInStep
<1>1. ASSUME ScanRuns', Unserved' \/ toBridge' # <<>>
      PROVE  ReadsInStep'
  <2>1. heard' = <<>>
    BY <1>1 DEF ScanRuns
  <2>2. \A j \in 1 .. Len(heard') - 1 : FALSE
    BY <2>1
  <2> QED BY <1>1, <2>1, <2>2 DEF ReadsInStep
<1>2. CASE Scan
  <2>1. ScanRuns' /\ Unserved'
    BY <1>2 DEF Scan, ScanRuns, Unserved, Asking
  <2> QED BY <1>1, <2>1
<1>3. CASE ClearSsids \/ SetScanning \/ AskForScan
  <2>1. UNCHANGED <<reading, heard, hurried, raced>> /\ Asking
    BY <1>3 DEF ClearSsids, SetScanning, AskForScan, Asking, phoneVars, historyVars
  <2>2. ScanRuns
    BY <2>1 DEF ReadsInStep, Orderly, Unserved
  <2>3. CASE ClearSsids \/ SetScanning
    <3>1. Unserved'
      BY <2>3 DEF ClearSsids, SetScanning, NextStep, Unserved, Asking
    <3>2. ScanRuns'
      BY <2>1, <2>2, <2>3 DEF ClearSsids, SetScanning, NextStep, ScanRuns
    <3> QED BY <1>1, <3>1, <3>2
  <2>4. CASE AskForScan
    <3> DEFINE scan == Message("SCAN", NoPart, NoPart, recent)
    <3>1. toCcu' = Append(toCcu, scan) /\ ~hurried
      BY <2>1, <2>4 DEF AskForScan, Orderly
    <3>2. toCcu = <<>> /\ scan.op = "SCAN"
      BY <2>1, <3>1 DEF OneScan, Message
    <3> HIDE DEF scan
    <3>3. toCcu' = <<scan>>
      BY <3>1, <3>2
    <3>4. Unserved'
      BY <3>2, <3>3 DEF Unserved, ScanFirst
    <3>5. ScanRuns'
      BY <2>1, <2>2, <2>4 DEF AskForScan, NextStep, ScanRuns
    <3> QED BY <1>1, <3>4, <3>5
  <2> QED BY <1>3, <2>3, <2>4
<1>4. CASE Reading
  <2>1. UNCHANGED <<reading, hurried, raced>>
    BY <1>4, ReadingLeaves
  <2>2. Orderly
    BY <2>1 DEF Orderly
  <2> QED BY <1>4, <2>2, ReadsStep
<1>5. ASSUME NEW part, WritePart(part)
      PROVE  FALSE
  BY <1>5 DEF WritePart, Orderly
<1>6. CASE WriteText \/ WriteSsid
  BY <1>5, <1>6 DEF WriteText, WriteSsid
<1>7. CASE ProcessMessage
  <2> DEFINE m == Head(toBridge)
  <2>1. /\ UNCHANGED <<btc, toCcu, reading, heard, hurried>>
        /\ toBridge # <<>> /\ toBridge' = Tail(toBridge) /\ toBridge \in Seq(AnswerType)
        /\ raced' = (raced \/ (m.op = "END" /\ btc \in {"mark", "respond"}))
    BY <1>7 DEF ProcessMessage, phoneVars, TypeOK
  <2>2. Orderly /\ (m.op = "END" => btc \notin {"mark", "respond"})
    BY <2>1 DEF Orderly
  <2>3. ScanRuns
    BY <2>1, <2>2 DEF ReadsInStep
  <2>4. /\ m.op \in {"NAME", "END"}
        /\ m.op = "NAME" => toBridge' # <<>>
        /\ m.op = "END" => toBridge' = <<>>
    BY <1>7, <2>2, EndIsLast DEF Orderly
  <2>6. CASE m.op = "NAME"
    <3>1. toBridge' # <<>>
      BY <2>4, <2>6
    <3>2. bt_state' = bt_state /\ ep_return_message'.rc # "SUCCESS"
      <4>1. StoreName(m)
        BY <1>7, <2>6 DEF ProcessMessage
      <4> QED BY <4>1 DEF StoreName, TypeOK
    <3>3. ScanRuns'
      BY <2>1, <2>3, <3>2 DEF ScanRuns
    <3> QED BY <1>1, <3>1, <3>3
  <2>7. CASE m.op = "END"
    <3>3. toBridge' = <<>>
      BY <2>4, <2>7
    <3>4. ~Unserved'
      <4>1. ~Unserved
        BY <2>1, <2>2 DEF OneScan, Orderly
      <4> QED BY <2>1, <4>1 DEF Unserved, Asking, ScanFirst
    <3>5. bt_state' = "COMPLETE" /\ ap_count' = ap_count
          /\ ep_return_message' = [rc |-> "SUCCESS", data |-> Count(ap_count)]
      BY <1>7, <2>7 DEF ProcessMessage, EndScan, reportVars
    <3>6. heard' = <<>> /\ btc' \in {"rescan", "idle"}
      <4>1. btc \notin {"clear", "state", "ask"}
        BY <2>1, <3>4 DEF Unserved, Asking
      <4> QED BY <2>1, <2>2, <2>3, <2>7, <4>1 DEF ScanRuns
    <3>7. ScanOver'
      BY <3>5, <3>6 DEF ScanOver
    <3>8. \A j \in 1 .. Len(heard') - 1 : FALSE
      BY <3>6
    <3> QED BY <3>3, <3>4, <3>6, <3>7, <3>8 DEF ReadsInStep
  <2> QED BY <2>4, <2>6, <2>7
<1>8. CASE CcuServes
  <2>1. UNCHANGED <<btc, bt_state, ep_return_message, reading, heard, hurried, raced>>
    BY <1>8 DEF CcuServes, phoneVars
  <2>2. Orderly /\ toCcu # <<>>
    BY <1>8, <2>1 DEF Orderly, CcuServes
  <2>3. Head(toCcu).op = "SCAN"
    <3>1. 1 \in DOMAIN toCcu /\ Head(toCcu) = toCcu[1]
      BY <2>2 DEF TypeOK
    <3> QED BY <2>2, <3>1 DEF OnlyScan, Orderly
  <2>4. CcuScans /\ Unserved
    BY <1>8, <2>2, <2>3, ServingLeaves DEF CcuServes, CcuObeys, Orderly
  <2>5. ScanRuns
    BY <2>2, <2>4 DEF ReadsInStep
  <2>6. ScanRuns'
    BY <2>1, <2>5 DEF ScanRuns
  <2>7. toBridge' # <<>>
    <3>1. PICK lengths \in Surroundings :
            /\ found' = Append(found, lengths)
            /\ toBridge' =
                 toBridge \o Append(Names(Len(found'), lengths), Answer("END", 0, 0, Nobody))
      BY <2>4 DEF CcuScans
    <3> DEFINE answers == Append(Names(Len(found'), lengths), Answer("END", 0, 0, Nobody))
    <3>2. Len(found') \in Nat /\ toBridge \in Seq(AnswerType)
      BY DEF TypeOK
    <3>3. answers \in Seq(AnswerType)
      BY <3>2, ScanAnswerType
    <3>4. answers # <<>>
      <4>1. Len(lengths) \in Nat /\ DOMAIN answers = 1 .. Len(lengths) + 1
        BY <3>2, NamesAnswered
      <4> HIDE DEF answers
      <4> QED BY <4>1
    <3>5. toBridge' = toBridge \o answers
      BY <3>1
    <3> HIDE DEF answers
    <3> QED BY <3>2, <3>3, <3>4, <3>5
  <2> QED BY <1>1, <2>6, <2>7
<1>9. CASE UNCHANGED vars
  BY <1>9 DEF vars, reportVars, phoneVars, historyVars, ReadsInStep, Orderly, Unserved, Asking,
              ScanFirst, ScanRuns, ScanOver
<1> QED
  BY <1>2, <1>3, <1>4, <1>6, <1>7, <1>8, <1>9 DEF Next, Phone, ScanSteps, ReadSteps, Reading

LEMMA ShownRow ==
  ASSUME NEW row, NEW length
  PROVE  Shown(row, length).row.net = row.net
  BY DEF Shown, Name, Row

LEMMA ShownWhole ==
  ASSUME NEW net, NEW n \in Nat
  PROVE  Shown(Row(net, n, 0), n) = Name(Row(net, IF n > 12 THEN 10 ELSE n, 0), n > 12)
<1>1. Row(net, n, 0).chars = n /\ Row(net, n, 0).after = 0 /\ Row(net, n, 0).net = net
  BY DEF Row
<1>2. CASE n > 12
  <2>1. Least(n, 10) = 10 /\ Least(0, 10 - 10) = 0
    BY <1>2 DEF Least
  <2> QED BY <1>1, <1>2, <2>1 DEF Shown
<1>3. CASE ~(n > 12)
  <2>1. Least(n, 12) = n /\ Least(0, 12 - n) = 0
    BY <1>3 DEF Least
  <2> QED BY <1>1, <1>3, <2>1 DEF Shown
<1> QED BY <1>2, <1>3

\* What the phone has read is what the rows hold, and these hold the scan.
LEMMA MenuRead ==
  ASSUME TypeOK, OneScan, OnlyScan, NamesStored, ReadsInStep, ReadsFit, Orderly, heard # <<>>
  PROVE  /\ scans = Len(found) /\ found[scans] = Latest
         /\ Counted(found, ap_count) /\ heard[1] = Count(ap_count)
         /\ \A j \in 1 .. Len(heard) - 1 :
              IF j <= Len(Latest) THEN heard[j + 1] = NameOf(j)
              ELSE heard[j + 1].row.net = Nobody
<1>1. ~Unserved /\ toBridge = <<>> /\ ScanOver
  BY DEF ReadsInStep, ScanRuns
<1>2. ~hurried /\ reading /\ scans > 0 /\ scans \in Nat
  BY SizesAssumption DEF Orderly, OnlyScan, TypeOK
<1>3. found \in Seq(Surroundings) /\ Len(found) \in Nat
  BY DEF TypeOK
<1>4. scans = Len(found)
  BY <1>1, <1>2, <1>3 DEF OneScan
<1>5. found # <<>> /\ found[scans] = Latest
  <2>1. found # <<>>
    BY <1>2, <1>3, <1>4
  <2> QED BY <1>4, <2>1 DEF Latest
<1>6. PICK k \in 0 .. Len(Latest) : NamesLeft(k) /\ CountsTo(k) /\ RowsTo(k)
  BY <1>2 DEF NamesStored
<1>7. Len(Latest) \in Nat /\ \A i \in 1 .. Len(Latest) : Latest[i] \in Nat
  BY LatestFacts
<1>8. k = Len(Latest)
  <2>1. Len(Latest) - k > 0 => Len(Latest) - k + 1 \in DOMAIN toBridge
    BY <1>6 DEF NamesLeft
  <2>2. ~(Len(Latest) - k > 0)
    BY <1>1, <2>1
  <2> QED BY <1>7, <2>2
<1>9. Counted(found, ap_count)
  BY <1>6, <1>8 DEF CountsTo
<1>10. ASSUME NEW j \in 1 .. Len(heard) - 1
       PROVE  IF j <= Len(Latest) THEN heard[j + 1] = NameOf(j)
              ELSE heard[j + 1].row.net = Nobody
  <2>1. heard[j + 1] = Shown(wifi_report[j], wifi_report_length[j])
    BY DEF ReadsInStep
  <2>2. j \in 1 .. Rows
    <3>1. Len(heard) \in Nat /\ Len(heard) <= Rows + 1
      BY DEF ReadsFit, TypeOK
    <3> QED BY <3>1, SizesAssumption
  <2>3. IF j <= Len(Latest)
          THEN /\ wifi_report[j] = Row(<<Len(found), j>>, Latest[j], 0)
               /\ wifi_report_length[j] = Latest[j]
          ELSE wifi_report[j] = Blank
    BY <1>1, <1>6, <1>8, <2>2 DEF RowsTo
  <2>4. CASE j <= Len(Latest)
    <3>1. Latest[j] \in Nat
      <4>1. j \in 1 .. Len(Latest)
        BY <1>7, <2>2, <2>4, SizesAssumption
      <4> QED BY <1>7, <4>1
    <3>2. heard[j + 1] = Shown(Row(<<scans, j>>, Latest[j], 0), Latest[j])
      BY <1>4, <2>1, <2>3, <2>4
    <3>3. heard[j + 1] = Name(Row(<<scans, j>>, IF Latest[j] > 12 THEN 10 ELSE Latest[j], 0),
                              Latest[j] > 12)
      BY <3>1, <3>2, ShownWhole
    <3> QED BY <1>5, <2>4, <3>3 DEF NameOf
  <2>5. CASE ~(j <= Len(Latest))
    <3>1. heard[j + 1].row.net = Blank.net
      BY <2>1, <2>3, <2>5, ShownRow
    <3> QED BY <2>5, <3>1 DEF Blank, Row
  <2> QED BY <2>4, <2>5
<1> QED BY <1>4, <1>5, <1>9, <1>10 DEF ReadsInStep

LEMMA ReadsFitStep ==
  TypeOK /\ TypeOK' /\ OneScan /\ OnlyScan /\ NamesStored /\ ReadsInStep /\ ReadsFit
  /\ [Next]_vars => ReadsFit'
<1> SUFFICES ASSUME TypeOK, TypeOK', OneScan, OnlyScan, NamesStored, ReadsInStep, ReadsFit,
                    [Next]_vars, Orderly', heard' # <<>>
             PROVE  ReadsFit'
  BY DEF ReadsFit
<1> USE DEF phoneVars, historyVars
<1>1. Rows \in Nat /\ Rows >= 13 /\ heard \in Seq(DataType) /\ Len(heard) \in Nat
  BY SizesAssumption DEF TypeOK
<1>2. CASE Scan \/ WriteText \/ WriteSsid
  <2>1. heard' = <<>>
    BY <1>2 DEF Scan, WriteText, WriteSsid, WritePart
  <2> QED BY <2>1
<1>3. CASE Check
  <2>1. /\ UNCHANGED <<reading, heard, hurried, raced>> /\ btc = "idle"
        /\ heard # <<>> => Len(heard) <= heard[1].n
    BY <1>3 DEF Check
  <2>2. Orderly /\ heard # <<>>
    BY <2>1 DEF Orderly
  <2>3. Counted(found, ap_count) /\ heard[1] = Count(ap_count)
    BY <2>2, MenuRead
  <2>4. heard[1].n = ap_count
    BY <2>3 DEF Count
  <2>5. ap_count <= Rows
    <3>1. CASE ap_count = 0
      BY <1>1, <3>1
    <3>2. CASE ap_count # 0
      <4>1. PICK s \in DOMAIN found : ap_count = Len(found[s])
        BY <2>3, <3>2 DEF Counted
      <4>2. found[s] \in Surroundings
        BY <4>1 DEF TypeOK
      <4> QED BY <4>1, <4>2, SurroundingsAssumption
    <3> QED BY <3>1, <3>2
  <2>6. ap_count \in Nat
    BY DEF TypeOK
  <2> QED BY <1>1, <2>1, <2>4, <2>5, <2>2, <2>6 DEF ReadsFit
<1>4. CASE Respond
  <2>1. UNCHANGED <<reading, hurried, raced>> /\ btc = "respond" /\ btc' = "idle"
        /\ (heard' = heard \/ heard' = Append(heard, ep_return_message.data))
    BY <1>4 DEF Respond
  <2>2. ep_return_message.data \in DataType
    BY DEF TypeOK
  <2>3. Len(heard') <= Len(heard) + 1
    BY <1>1, <2>1, <2>2
  <2>4. heard # <<>> => Len(heard) <= Rows
    BY <2>1 DEF ReadsFit, Orderly
  <2>5. heard = <<>> => Len(heard) = 0
    BY <1>1
  <2>6. Len(heard') \in Nat
    BY DEF TypeOK
  <2> QED BY <1>1, <2>1, <2>3, <2>4, <2>5, <2>6 DEF ReadsFit
<1>5. CASE AskForNames \/ Rescan \/ ForceScan \/ StartNames \/ FillName \/ MarkNotReady
  <2>1. UNCHANGED <<reading, heard, hurried, raced>>
    BY <1>5, RescanStep DEF AskForNames, ForceScan, StartNames, FillName, MarkNotReady
  <2>2. Orderly /\ heard # <<>>
    BY <2>1 DEF Orderly
  <2>3. ScanOver
    BY <2>2 DEF ReadsInStep, ScanRuns
  <2>4. btc' \in {"fill", "respond"} => btc = "fill"
    BY <1>5, <2>2, <2>3, RescanStep
    DEF AskForNames, ForceScan, StartNames, FillName, MarkNotReady, ScanOver
  <2> QED BY <2>1, <2>2, <2>4 DEF ReadsFit
<1>6. CASE ClearSsids \/ SetScanning \/ AskForScan
  <2>1. UNCHANGED <<reading, heard, hurried, raced>> /\ btc' \notin {"fill", "respond"}
    BY <1>6 DEF ClearSsids, SetScanning, AskForScan, NextStep
  <2> QED BY <2>1 DEF ReadsFit, Orderly
<1>7. CASE ProcessMessage \/ CcuServes
  <2>1. UNCHANGED <<btc, reading, heard, hurried>>
    BY <1>7 DEF ProcessMessage, CcuServes
  <2>2. raced => raced'
    <3>1. CASE ProcessMessage
      <4>1. raced' = (raced \/ (Head(toBridge).op = "END" /\ btc \in {"mark", "respond"}))
        BY <3>1 DEF ProcessMessage
      <4> QED BY <4>1, Zenon
    <3>2. CASE CcuServes
      BY <3>2 DEF CcuServes
    <3> QED BY <1>7, <3>1, <3>2
  <2> QED BY <2>1, <2>2 DEF ReadsFit, Orderly
<1>8. CASE UNCHANGED vars
  BY <1>8 DEF vars, ReadsFit, Orderly
<1> QED
  BY <1>2, <1>3, <1>4, <1>5, <1>6, <1>7, <1>8 DEF Next, Phone, ScanSteps, ReadSteps

MenuInv == OneScan /\ OnlyScan /\ NamesStored /\ WithScan /\ ReadsInStep /\ ReadsFit

LEMMA MenuShown == TypeOK /\ MenuInv => MenuIsScan /\ CountIsFound
<1> SUFFICES ASSUME TypeOK, MenuInv, Orderly
             PROVE  MenuIsScan /\ CountIsFound
  BY DEF MenuIsScan, CountIsFound
<1>1. CASE heard = <<>>
  <2>1. \A j \in 1 .. Len(heard) - 1 : FALSE
    BY <1>1
  <2> QED BY <1>1, <2>1 DEF MenuIsScan, CountIsFound
<1>2. CASE heard # <<>>
  <2>1. /\ found[scans] = Latest /\ Counted(found, ap_count) /\ heard[1] = Count(ap_count)
        /\ \A j \in 1 .. Len(heard) - 1 : j <= Len(Latest) => heard[j + 1] = NameOf(j)
    BY <1>2, MenuRead DEF MenuInv
  <2>2. ap_count = LastCount
    BY <2>1, CountedIsLast
  <2> QED BY <2>1, <2>2 DEF MenuIsScan, CountIsFound
<1> QED BY <1>1, <1>2

LEMMA MenuHolds == Spec => [](TypeOK /\ MenuInv)
<1>1. Init => MenuInv
  <2> SUFFICES ASSUME Init
               PROVE  MenuInv
    OBVIOUS
  <2>1. /\ btc = "idle" /\ toCcu = <<>> /\ toBridge = <<>> /\ found = <<>> /\ heard = <<>>
        /\ scans = 0 /\ ap_count = 0 /\ ~reading /\ ~hurried
        /\ wifi_report = [i \in 1 .. Rows |-> Blank]
    BY DEF Init
  <2>2. ~Unserved
    BY <2>1 DEF Unserved, Asking, ScanFirst
  <2>3. Latest = <<>> /\ Len(Latest) = 0 /\ DOMAIN toBridge = {} /\ DOMAIN toCcu = {}
    BY <2>1 DEF Latest
  <2>4. NamesLeft(0) /\ CountsTo(0) /\ RowsTo(0)
    <3>1. NamesLeft(0)
      BY <2>3 DEF NamesLeft
    <3>2. DOMAIN found = {}
      BY <2>1
    <3>3. CountsTo(0)
      BY <2>1, <3>2 DEF CountsTo, Counted
    <3>4. \A j \in 1 .. Rows : ~(j <= 0)
      BY SizesAssumption
    <3>5. RowsTo(0)
      BY <2>1, <3>4 DEF RowsTo
    <3> QED BY <3>1, <3>3, <3>5
  <2>5. NamesStored
    BY <2>2, <2>3, <2>4 DEF NamesStored
  <2>6. OneScan
    BY <2>1, <2>2, <2>3 DEF OneScan, Asking
  <2>7. OnlyScan /\ WithScan /\ ReadsInStep /\ ReadsFit
    BY <2>1 DEF OnlyScan, WithScan, ReadsInStep, ReadsFit, Orderly
  <2> QED BY <2>5, <2>6, <2>7 DEF MenuInv
<1>2. TypeOK /\ TypeOK' /\ MenuInv /\ [Next]_vars => MenuInv'
  BY OneScanStep, OnlyScanStep, NamesStoredStep, WithScanStep, ReadsInStepStep, ReadsFitStep
  DEF MenuInv
<1> QED BY <1>1, <1>2, TypesHold, PTL DEF Spec

(***************************************************************************)
(* While the FSM says that a scan is in progress, its end is to come,      *)
(* wherever in the handling of a command an answer comes in: between any   *)
(* two of akbi_set_fsm_state and ccu_sent_scan_all_wifi_msg, and between   *)
(* the three reads of the state that follow and the set.  Where that set   *)
(* makes a scan of none, the phone is not reading one, or was too early.   *)
(***************************************************************************)
THEOREM ScanIsUnderWay == Spec => []ScanUnderWay
<1>1. Init => ScanSeen
  BY DEF Init, ScanSeen
<1>2. TypeOK /\ TypeOK' /\ ScanSeen /\ [Next]_vars => ScanSeen'
  BY ScanSeenStep
<1>3. MenuInv /\ ScanSeen => ScanUnderWay
  BY DEF MenuInv, WithScan, ScanSeen, ScanUnderWay
<1> QED BY <1>1, <1>2, <1>3, MenuHolds, PTL DEF Spec

(***************************************************************************)
(* The reads of an undisturbed scan stay within the rows, for any number   *)
(* of rows the scans fit in, although nothing bounds the index.            *)
(***************************************************************************)
THEOREM RowsAreRead == Spec => []RowsRead
<1>1. TypeOK /\ MenuInv => RowsRead
  <2> SUFFICES ASSUME TypeOK, MenuInv, Orderly, btc = "fill"
               PROVE  ssid_index < Rows
    BY DEF RowsRead
  <2>1. heard # <<>> /\ ssid_index + 1 = Len(heard)
    BY DEF MenuInv, ReadsInStep, ScanRuns, ScanOver
  <2>2. Len(heard) <= Rows
    BY <2>1 DEF MenuInv, ReadsFit
  <2> QED BY <2>1, <2>2, SizesAssumption DEF TypeOK
<1> QED BY <1>1, MenuHolds, PTL

(***************************************************************************)
(* The names the phone reads of an undisturbed scan are those of its scan, *)
(* in order and whole or marked, whatever is around and however long the   *)
(* names are: no name is put in the row of another by the two workarounds  *)
(* for the byte 13, and what earlier scans left behind is never shown.     *)
(***************************************************************************)
THEOREM MenuIsOfScan == Spec => []MenuIsScan
<1>1. TypeOK /\ MenuInv => MenuIsScan
  BY MenuShown
<1> QED BY <1>1, MenuHolds, PTL

(***************************************************************************)
(* And the number before them is that of the networks of this scan, or of  *)
(* the last one that found any.                                            *)
(***************************************************************************)
THEOREM CountIsOfScan == Spec => []CountIsFound
<1>1. TypeOK /\ MenuInv => CountIsFound
  BY MenuShown
<1> QED BY <1>1, MenuHolds, PTL

-----------------------------------------------------------------------------
(* The choice, which is kept until the key of the network follows.         *)

\* The position of a network and its place in the scan.
Matches(part) == part.net # Nobody => part.position + 1 = part.net[2]

LEMMA ChoiceStep ==
  ASSUME TypeOK, TypeOK', ChosenKept, SelectedAsShown, NEW part, WritePart(part),
         part.kind # "STAMP" => Matches(part)
  PROVE  ChosenKept' /\ SelectedAsShown'
<1> DEFINE sent == Sent(part.kind, saved_messages', recent')
           Good(m) == m.op = "CONFIGURE" /\ m.first.net # Nobody =>
                        m.first.position = m.first.net[2]
<1>1. saved_messages \in PartType \X PartType /\ saved_messages' \in PartType \X PartType
  BY DEF TypeOK, TwoParts
<1>2. saved_messages' = saved_messages
      \/ /\ saved_messages' = [saved_messages EXCEPT ![PlaceOf(part.kind)] = part]
         /\ Matches(part)
  BY DEF WritePart, Saved
<1>3. saved_messages'[1] = saved_messages[1] \/ (saved_messages'[1] = part /\ Matches(part))
  <2>1. PlaceOf(part.kind) = 1 \/ PlaceOf(part.kind) = 2
    BY DEF PlaceOf
  <2> QED BY <1>1, <1>2, <2>1
<1>4. Matches(saved_messages'[1])
  BY <1>3 DEF ChosenKept, Matches
<1>5. \A i \in DOMAIN sent : Good(sent[i])
  <2> DEFINE configured == [saved_messages'[1] EXCEPT !.position = ApId(saved_messages'[1])]
  <2>1. configured.net = saved_messages'[1].net
        /\ configured.position = saved_messages'[1].position + 1
    BY <1>1 DEF PartType, ApId
  <2>2. Good(Message("CONFIGURE", configured, saved_messages'[2], recent'))
    BY <1>4, <2>1 DEF Message, Matches
  <2>3. ASSUME NEW i \in DOMAIN sent, sent[i].op = "CONFIGURE"
        PROVE  sent[i] = Message("CONFIGURE", configured, saved_messages'[2], recent')
    BY <2>3 DEF Sent, Message
  <2> HIDE DEF configured, sent
  <2> QED BY <2>2, <2>3
<1>6. toCcu' = toCcu \o sent /\ toCcu \in Seq(Requests) /\ sent \in Seq(Requests)
  BY SentType DEF WritePart, TypeOK
<1>7. \A i \in DOMAIN toCcu : Good(toCcu[i])
  BY DEF SelectedAsShown
<1> HIDE DEF sent, Good
<1>8. ASSUME NEW i \in DOMAIN toCcu'
      PROVE  \/ i \in DOMAIN toCcu /\ toCcu'[i] = toCcu[i]
             \/ i - Len(toCcu) \in DOMAIN sent /\ toCcu'[i] = sent[i - Len(toCcu)]
  BY <1>6
<1>9. \A i \in DOMAIN toCcu' : Good(toCcu'[i])
  BY <1>5, <1>7, <1>8
<1> QED BY <1>4, <1>9 DEF ChosenKept, Matches, SelectedAsShown, Good

LEMMA SelectedStep ==
  TypeOK /\ TypeOK' /\ MenuInv /\ ChosenKept /\ SelectedAsShown /\ [Next]_vars
  => ChosenKept' /\ SelectedAsShown'
<1> SUFFICES ASSUME TypeOK, TypeOK', MenuInv, ChosenKept, SelectedAsShown, [Next]_vars
             PROVE  ChosenKept' /\ SelectedAsShown'
  OBVIOUS
<1>1. toCcu \in Seq(Requests)
  BY DEF TypeOK
<1>2. CASE WriteText
  <2>1. PICK text \in Texts : WritePart(Part(text[1], parts + 1, text[2], 0, Nobody))
    BY <1>2 DEF WriteText
  <2>2. Matches(Part(text[1], parts + 1, text[2], 0, Nobody))
    BY DEF Matches, Part
  <2> QED BY <2>1, <2>2, ChoiceStep
<1>3. CASE WriteSsid
  <2>1. PICK i \in 2 .. Len(heard) :
          WritePart(Part("SSID", parts + 1, 1, i - 2, IF raced THEN Nobody ELSE heard[i].row.net))
    BY <1>3 DEF WriteSsid
  <2> DEFINE net  == IF raced THEN Nobody ELSE heard[i].row.net
             part == Part("SSID", parts + 1, 1, i - 2, net)
  <2>2. heard \in Seq(DataType) /\ Len(heard) \in Nat
    BY DEF TypeOK
  <2>3. heard # <<>> /\ i \in Nat /\ i - 1 \in 1 .. Len(heard) - 1 /\ (i - 1) + 1 = i
    BY <2>2
  <2>4. reading /\ ~hurried
    BY <2>3 DEF MenuInv, OnlyScan
  <2>5. net = Nobody \/ net[2] = i - 1
    <3>1. CASE raced
      BY <3>1
    <3>2. CASE ~raced
      <4>1. Orderly
        BY <2>4, <3>2 DEF Orderly
      <4>2. IF i - 1 <= Len(Latest) THEN heard[i] = NameOf(i - 1) ELSE heard[i].row.net = Nobody
        BY <2>3, <4>1, MenuRead DEF MenuInv
      <4>3. NameOf(i - 1).row.net = <<scans, i - 1>>
        BY DEF NameOf, Name, Row
      <4>4. heard[i].row.net = Nobody \/ heard[i].row.net = <<scans, i - 1>>
        BY <4>2, <4>3
      <4> QED BY <3>2, <4>4
    <3> QED BY <3>1, <3>2
  <2>6. part.net = net /\ part.position = i - 2
    BY DEF Part
  <2>a. WritePart(part)
    BY <2>1
  <2> HIDE DEF part, net
  <2>7. Matches(part)
    BY <2>3, <2>5, <2>6 DEF Matches
  <2> QED BY <2>7, <2>a, ChoiceStep
<1>4. CASE AskForScan
  <2> DEFINE scan == Message("SCAN", NoPart, NoPart, recent)
  <2>1. toCcu' = Append(toCcu, scan) /\ saved_messages' = saved_messages
    BY <1>4 DEF AskForScan
  <2>2. scan.op # "CONFIGURE"
    BY DEF Message
  <2> HIDE DEF scan
  <2>3. ASSUME NEW i \in DOMAIN toCcu'
        PROVE  (i \in DOMAIN toCcu /\ toCcu'[i] = toCcu[i]) \/ toCcu'[i] = scan
    BY <1>1, <2>1
  <2> QED BY <2>1, <2>2, <2>3 DEF ChosenKept, SelectedAsShown
<1>5. CASE CcuServes
  <2>1. toCcu # <<>> /\ toCcu' = Tail(toCcu) /\ saved_messages' = saved_messages
    BY <1>5 DEF CcuServes
  <2>2. ASSUME NEW i \in DOMAIN toCcu'
        PROVE  i + 1 \in DOMAIN toCcu /\ toCcu'[i] = toCcu[i + 1]
    BY <1>1, <2>1
  <2> QED BY <2>1, <2>2 DEF ChosenKept, SelectedAsShown
<1>6. CASE UNCHANGED <<toCcu, saved_messages>>
  BY <1>6 DEF ChosenKept, SelectedAsShown
<1>7. Scan \/ ClearSsids \/ SetScanning \/ Reading \/ ProcessMessage \/ UNCHANGED vars
      => UNCHANGED <<toCcu, saved_messages>>
  <2>1. Reading => UNCHANGED <<toCcu, saved_messages>>
    BY ReadingLeaves
  <2> QED BY <2>1 DEF Scan, ClearSsids, SetScanning, ProcessMessage, vars
<1> QED
  BY <1>2, <1>3, <1>4, <1>5, <1>6, <1>7 DEF Next, Phone, ScanSteps, ReadSteps, Reading

(***************************************************************************)
(* The CCU is told to connect to the network whose name the phone saw at   *)
(* the position it chose, also if other scans and other commands came      *)
(* between the choice and the key.                                         *)
(***************************************************************************)
THEOREM SelectedIsShown == Spec => []SelectedAsShown
<1>1. Init => ChosenKept /\ SelectedAsShown
  <2> SUFFICES ASSUME Init
               PROVE  ChosenKept /\ SelectedAsShown
    OBVIOUS
  <2>1. toCcu = <<>> /\ saved_messages = <<NoPart, NoPart>> /\ NoPart.net = Nobody
    BY DEF Init, NoPart, Part
  <2> QED BY <2>1 DEF ChosenKept, SelectedAsShown
<1>2. (TypeOK /\ MenuInv) /\ (TypeOK /\ MenuInv)' /\ (ChosenKept /\ SelectedAsShown) /\ [Next]_vars
      => (ChosenKept /\ SelectedAsShown)'
  BY SelectedStep
<1> QED BY <1>1, <1>2, MenuHolds, PTL DEF Spec

=============================================================================

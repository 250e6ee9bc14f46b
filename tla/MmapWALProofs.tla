--------------------------- MODULE MmapWALProofs ---------------------------
(* What an object acknowledged stays in the file, for every record size, file *)
(* size and number of records: theorems about MmapWAL.                        *)
EXTENDS MmapWAL, TLAPS

(* The log never reaches beyond its file, so resizing the file to the same    *)
(* size cuts off nothing that was acknowledged.                               *)
WithinFile == write_offset <= file_size /\ Len(acked) <= count

(* What mapped_data_ points to, and the file behind it, have the size that    *)
(* file_size_ says, although opens may fail before or after a good one.       *)
MappingFits == mapped => mapping = file_size /\ length = file_size

(* A record on its way is behind all that were acknowledged and has room.     *)
Underway ==
    /\ pc \in {"copy", "copied"} => mapped /\ Room /\ Len(acked) < count
    /\ pc = "copied" => file[write_offset] = count

IInv == TypeOK /\ AckedInPlace /\ WithinFile /\ MappingFits /\ Underway

(* Records do not overlap: the k-th ends where a later one begins or before.  *)
LEMMA RecordsApart ==
    ASSUME NEW R \in Nat, NEW k \in Nat, NEW l \in Nat, k < l
    PROVE  R * k + R <= R * l
<1>1. PICK d \in Nat : l = k + 1 + d
  <2>1. l - k - 1 \in Nat /\ l = k + 1 + (l - k - 1)
    OBVIOUS
  <2> QED BY <2>1
<1>2. R * (k + 1 + d) = R * k + R + R * d
  OBVIOUS
<1>3. R * d \in Nat /\ R * k \in Nat
  OBVIOUS
<1> QED BY <1>1, <1>2, <1>3

(* The offset of a record is one the file has an entry for.                   *)
LEMMA OffsetOfRecord ==
    ASSUME NEW k \in Nat, k <= MaxRecords
    PROVE  RecSize * k \in Offset /\ RecSize * k \in Nat
BY RecSizeAssumption, BoundsAssumption DEF Offset

LEMMA InitInv == Init => IInv
<1> SUFFICES ASSUME Init PROVE IInv
  OBVIOUS
<1> USE RecSizeAssumption, FileSizesAssumption, BoundsAssumption
<1>1. 0 \in Offset
  BY OffsetOfRecord, RecSize * 0 = 0
<1>2. acked = <<>> /\ acked \in Seq(Record) /\ Len(acked) = 0
  BY DEF Init
<1>3. TypeOK
  <2>1. file \in [Offset -> Record \cup {Zero, Torn}]
    BY DEF Init
  <2>2. /\ pc = "dead" /\ file_size \in FileSizes /\ write_offset \in Offset
        /\ mapping \in FileSizes \cup {0} /\ length \in FileSizes \cup {0} /\ promised \subseteq Record
    BY <1>1 DEF Init
  <2>3. /\ opens \in 0 .. MaxOpens /\ fd \in 0 .. MaxOpens /\ open_fds \subseteq 1 .. MaxOpens
        /\ count \in 0 .. MaxRecords
    BY DEF Init
  <2>4. mapped \in BOOLEAN /\ orderly \in BOOLEAN
    BY Zenon DEF Init
  <2> QED BY <1>2, <2>1, <2>2, <2>3, <2>4 DEF TypeOK
<1>4. AckedInPlace
  BY <1>2, RecSize * 0 = 0 DEF Init, AckedInPlace
<1>5. WithinFile /\ MappingFits /\ Underway
  BY <1>2 DEF Init, WithinFile, MappingFits, Underway
<1> QED BY <1>3, <1>4, <1>5 DEF IInv

(* Resizing the file to file_size keeps what is in the mapping.               *)
LEMMA TruncatedKeepsAcked ==
    ASSUME IInv
    PROVE  /\ Truncated(file_size) \in [Offset -> Record \cup {Zero, Torn}]
           /\ \A k \in 1 .. Len(acked) : Truncated(file_size)[RecSize * (k - 1)] = acked[k]
<1> USE RecSizeAssumption, FileSizesAssumption, BoundsAssumption DEF IInv
<1>1. Truncated(file_size) \in [Offset -> Record \cup {Zero, Torn}]
  BY DEF Truncated, TypeOK
<1>2. ASSUME NEW k \in 1 .. Len(acked)
      PROVE  Truncated(file_size)[RecSize * (k - 1)] = acked[k]
  <2>1. Len(acked) \in Nat /\ count \in Nat /\ count <= MaxRecords /\ file_size \in Nat
    BY DEF TypeOK
  <2>2. k - 1 \in Nat /\ k - 1 <= MaxRecords /\ k - 1 < Len(acked)
    BY <2>1 DEF WithinFile
  <2>3. RecSize * (k - 1) \in Offset
    BY <2>2, OffsetOfRecord
  <2>4. RecSize * (k - 1) + RecSize <= RecSize * Len(acked)
    BY <2>1, <2>2, RecordsApart
  <2>5. RecSize * Len(acked) <= file_size
    BY DEF WithinFile, AckedInPlace
  <2>6. RecSize * (k - 1) + RecSize <= file_size
    <3>1. RecSize * (k - 1) \in Nat /\ RecSize * Len(acked) \in Nat
      BY <2>1, <2>2
    <3> QED BY <2>1, <2>4, <2>5, <3>1
  <2>7. Truncated(file_size)[RecSize * (k - 1)] = file[RecSize * (k - 1)]
    BY <2>3, <2>6 DEF Truncated
  <2> QED BY <2>7 DEF AckedInPlace
<1> QED BY <1>1, <1>2

(* Writing at write_offset leaves the acknowledged records alone.             *)
LEMMA WriteBehindAcked ==
    ASSUME IInv, NEW k \in 1 .. Len(acked)
    PROVE  RecSize * (k - 1) \in Offset /\ RecSize * (k - 1) # write_offset
<1> USE RecSizeAssumption, BoundsAssumption DEF IInv
<1>1. Len(acked) \in Nat /\ Len(acked) <= MaxRecords
  BY DEF TypeOK, WithinFile
<1>2. k - 1 \in Nat /\ k - 1 < Len(acked)
  BY <1>1
<1>3. RecSize * (k - 1) + RecSize <= RecSize * Len(acked)
  BY <1>1, <1>2, RecordsApart
<1>4. RecSize * (k - 1) \in Offset /\ RecSize * (k - 1) \in Nat
  <2>1. k - 1 <= MaxRecords
    BY <1>1, <1>2
  <2> QED BY <1>2, <2>1, OffsetOfRecord
<1>5. RecSize * Len(acked) \in Nat
  BY <1>1
<1>6. RecSize * (k - 1) # RecSize * Len(acked)
  BY <1>3, <1>4, <1>5
<1> QED BY <1>4, <1>6 DEF AckedInPlace

(* A step that leaves offset, file and records alone, copies nothing and      *)
(* stays in type keeps the invariant.                                         *)
LEMMA FileUntouched ==
    ASSUME IInv, TypeOK', pc' \notin {"copy", "copied"},
           UNCHANGED <<file_size, write_offset, file, length, acked, count>>,
           mapped' => mapped /\ mapping' = mapping
    PROVE  IInv'
BY DEF IInv, AckedInPlace, WithinFile, MappingFits, Underway

LEMMA StepInv == IInv /\ [Next]_vars => IInv'
<1> SUFFICES ASSUME IInv, [Next]_vars PROVE IInv'
  OBVIOUS
<1> USE RecSizeAssumption, FileSizesAssumption, BoundsAssumption DEF IInv
<1>0. /\ Len(acked) \in Nat /\ count \in Nat /\ file_size \in Nat /\ write_offset \in Nat
      /\ opens \in Nat /\ write_offset = RecSize * Len(acked)
  <2>1. Len(acked) \in Nat /\ count \in Nat /\ file_size \in Nat /\ opens \in Nat
    BY DEF TypeOK
  <2>2. write_offset = RecSize * Len(acked)
    BY DEF AckedInPlace
  <2>3. write_offset \in Nat
    BY <2>1, <2>2
  <2> QED BY <2>1, <2>2, <2>3
<1>1. ASSUME NEW size \in FileSizes, Construct(size) PROVE IInv'
  <2>1. 0 \in Offset /\ RecSize * 0 = 0
    BY OffsetOfRecord, RecSize * 0 = 0
  <2>2. acked' = <<>> /\ acked' \in Seq(Record) /\ Len(acked') = 0
    BY <1>1 DEF Construct
  <2>3. TypeOK'
    <3>1. /\ pc' = "idle" /\ file_size' \in FileSizes /\ write_offset' \in Offset
          /\ mapping' = 0 /\ mapped' \in BOOLEAN /\ orderly' \in BOOLEAN
          /\ opens' = 0 /\ fd' = 0 /\ open_fds' = {}
          /\ UNCHANGED <<file, length, promised, count>>
      BY <1>1, <2>1 DEF Construct
    <3> QED BY <2>2, <3>1 DEF TypeOK
  <2>4. AckedInPlace'
    BY <1>1, <2>1, <2>2 DEF Construct, AckedInPlace
  <2>5. WithinFile' /\ MappingFits' /\ Underway'
    BY <1>0, <1>1, <2>2 DEF Construct, WithinFile, MappingFits, Underway
  <2> QED BY <2>3, <2>4, <2>5
<1>2. CASE OpenFails
  <2>1. opens' \in 0 .. MaxOpens /\ fd' \in 0 .. MaxOpens
    BY <1>2, <1>0 DEF OpenFails, CanOpen, TypeOK
  <2>2. TypeOK'
    BY <1>2, <2>1 DEF OpenFails, CanOpen, Untouched, TypeOK
  <2> QED BY <1>2, <2>2, FileUntouched DEF OpenFails, CanOpen, Untouched
<1>3. CASE TruncateFails
  <2>1. opens' \in 0 .. MaxOpens /\ fd' \in 0 .. MaxOpens /\ open_fds' \subseteq 1 .. MaxOpens
    BY <1>3, <1>0 DEF TruncateFails, CanOpen, TypeOK
  <2>2. TypeOK'
    BY <1>3, <2>1 DEF TruncateFails, CanOpen, Untouched, TypeOK
  <2> QED BY <1>3, <2>2, FileUntouched DEF TruncateFails, CanOpen, Untouched
<1>4. ASSUME NEW b \in BOOLEAN, Map(b) PROVE IInv'
  <2>1. /\ file' \in [Offset -> Record \cup {Zero, Torn}]
        /\ \A k \in 1 .. Len(acked) : file'[RecSize * (k - 1)] = acked[k]
    BY <1>4, TruncatedKeepsAcked DEF Map
  <2>2. TypeOK'
    BY <1>4, <1>0, <2>1 DEF Map, CanOpen, Untouched, TypeOK
  <2>3. AckedInPlace'
    BY <1>4, <2>1 DEF Map, Untouched, AckedInPlace
  <2>4. WithinFile' /\ Underway'
    BY <1>4 DEF Map, CanOpen, Untouched, WithinFile, Underway
  <2>5. MappingFits'
    BY <1>4 DEF Map, Untouched, MappingFits
  <2> QED BY <2>2, <2>3, <2>4, <2>5
<1>5. CASE Close
  <2>1. TypeOK'
    BY <1>5, <1>0 DEF Close, Untouched, TypeOK
  <2> QED BY <1>5, <2>1, FileUntouched DEF Close, Untouched
<1>6. CASE BeginAppend
  <2>1. TypeOK'
    BY <1>6, <1>0 DEF BeginAppend, walVars, TypeOK
  <2>2. AckedInPlace'
    BY <1>6, WriteBehindAcked DEF BeginAppend, walVars, AckedInPlace, TypeOK
  <2>3. WithinFile' /\ MappingFits' /\ Underway'
    BY <1>6, <1>0 DEF BeginAppend, Room, walVars, WithinFile, MappingFits, Underway
  <2> QED BY <2>1, <2>2, <2>3
<1>7. CASE EndCopy
  <2>1. count \in Record
    BY <1>7, <1>0 DEF EndCopy, Underway, TypeOK, Record
  <2>2. TypeOK'
    BY <1>7, <2>1 DEF EndCopy, walVars, TypeOK
  <2>3. AckedInPlace'
    BY <1>7, WriteBehindAcked DEF EndCopy, walVars, AckedInPlace, TypeOK
  <2>4. WithinFile' /\ MappingFits' /\ Underway'
    BY <1>7, <1>0 DEF EndCopy, Room, walVars, WithinFile, MappingFits, Underway, TypeOK
  <2> QED BY <2>2, <2>3, <2>4
<1>8. CASE Acknowledge
  <2>1. mapped /\ write_offset + RecSize <= file_size
    BY <1>8 DEF Acknowledge, Underway, Room
  <2>2. Len(acked) < count /\ count <= MaxRecords /\ file[write_offset] = count
    BY <1>8, <1>0 DEF Acknowledge, Underway, TypeOK
  <2>3. /\ count \in Record
        /\ acked' = Append(acked, count) /\ Len(acked') = Len(acked) + 1
        /\ acked' \in Seq(Record)
        /\ acked'[Len(acked) + 1] = count
        /\ \A k \in 1 .. Len(acked) : acked'[k] = acked[k]
    BY <1>8, <1>0, <2>2 DEF Acknowledge, TypeOK, Record
  <2>4. write_offset' = RecSize * Len(acked')
    <3>1. RecSize * (Len(acked) + 1) = RecSize * Len(acked) + RecSize
      BY <1>0
    <3> QED BY <1>8, <1>0, <2>3, <3>1 DEF Acknowledge
  <2>5. write_offset' \in Offset
    <3>1. Len(acked') \in Nat /\ Len(acked') <= MaxRecords
      BY <1>0, <2>2, <2>3
    <3>2. RecSize * Len(acked') \in Offset
      BY <3>1, OffsetOfRecord
    <3> QED BY <2>4, <3>2
  <2>6. TypeOK'
    BY <1>8, <2>3, <2>5 DEF Acknowledge, TypeOK
  <2>7. ASSUME NEW k \in 1 .. Len(acked')
        PROVE  file'[RecSize * (k - 1)] = acked'[k]
    <3>1. CASE k \in 1 .. Len(acked)
      BY <1>8, <2>3, <3>1 DEF Acknowledge, AckedInPlace
    <3>2. CASE k = Len(acked) + 1
      <4>1. k - 1 = Len(acked)
        BY <1>0, <3>2
      <4> QED BY <1>8, <1>0, <2>2, <2>3, <3>2, <4>1 DEF Acknowledge
    <3> QED BY <1>0, <2>3, <3>1, <3>2
  <2>8. AckedInPlace'
    BY <2>4, <2>7 DEF AckedInPlace
  <2>9. WithinFile' /\ MappingFits' /\ Underway'
    BY <1>8, <1>0, <2>1, <2>2, <2>3 DEF Acknowledge, WithinFile, MappingFits, Underway
  <2> QED BY <2>6, <2>8, <2>9
<1>9. CASE Exit
  <2>1. TypeOK'
    BY <1>9, <1>0 DEF Exit, TypeOK
  <2> QED BY <1>9, <2>1, FileUntouched DEF Exit
<1>10. CASE UNCHANGED vars
  BY <1>10 DEF vars, walVars, TypeOK, AckedInPlace, WithinFile, MappingFits, Underway, Room
<1> QED
  BY <1>1, <1>2, <1>3, <1>4, <1>5, <1>6, <1>7, <1>8, <1>9, <1>10 DEF Next, OpenSucceeds, MapFails

LEMMA Inductive == Spec => []IInv
BY InitInv, StepInv, PTL DEF Spec

(* TypeOK holds for every record size, file size and number of records.       *)
THEOREM TypeCorrect == Spec => []TypeOK
<1>1. IInv => TypeOK
  BY DEF IInv
<1> QED BY <1>1, Inductive, PTL

(* What an object acknowledged is in the file, in order and without a gap.    *)
THEOREM AckedStay == Spec => []AckedInPlace
<1>1. IInv => AckedInPlace
  BY DEF IInv
<1> QED BY <1>1, Inductive, PTL

(* append_order copies into mapped bytes of the file only, although it looks  *)
(* at neither the mapping nor the file: through every order of opens that     *)
(* succeed, opens that fail at any of their three calls, closes and lives.    *)
THEOREM CopiesAreMapped == Spec => []CopiesIntoMapping
<1>1. IInv => CopiesIntoMapping
  BY DEF IInv, Underway, Room, MappingFits, CopiesIntoMapping
<1> QED BY <1>1, Inductive, PTL

(* The descriptor of the mapping is the only one open while every open so far *)
(* succeeded and was closed before the next one; it stays the one fd_ names   *)
(* because a failed open, which changes fd_, ends the orderly use.            *)
LEMMA StepLeaksNothing ==
    ASSUME TypeOK, OrderlyUseLeaksNothing, [Next]_vars
    PROVE  OrderlyUseLeaksNothing'
<1> USE DEF OrderlyUseLeaksNothing
<1>1. ASSUME NEW size \in FileSizes, Construct(size) PROVE OrderlyUseLeaksNothing'
  BY <1>1 DEF Construct
<1>2. CASE OpenFails \/ TruncateFails
  BY <1>2 DEF OpenFails, TruncateFails
<1>3. ASSUME NEW b \in BOOLEAN, Map(b) PROVE OrderlyUseLeaksNothing'
  <2>1. SUFFICES ASSUME orderly' PROVE open_fds' = IF mapped' THEN {fd'} ELSE {}
    OBVIOUS
  <2>2. orderly /\ b /\ ~mapped /\ mapped'
    BY <1>3, <2>1, Zenon DEF Map, TypeOK
  <2> QED BY <1>3, <2>2 DEF Map, TypeOK
<1>4. CASE Close
  BY <1>4 DEF Close
<1>5. CASE BeginAppend \/ EndCopy \/ Acknowledge
  <2>1. UNCHANGED <<mapped, fd, open_fds, orderly>>
    BY <1>5 DEF BeginAppend, EndCopy, Acknowledge, walVars
  <2> QED BY <2>1
<1>6. CASE Exit
  BY <1>6 DEF Exit
<1>7. CASE UNCHANGED vars
  BY <1>7 DEF vars, walVars
<1> QED
  BY <1>1, <1>2, <1>3, <1>4, <1>5, <1>6, <1>7 DEF Next, OpenSucceeds, MapFails

(* However often a process opens and closes its log, if its opens succeed and *)
(* alternate with closes only the descriptor of the mapping is open.          *)
THEOREM NoLeakInOrderlyUse == Spec => []OrderlyUseLeaksNothing
<1>1. Init => OrderlyUseLeaksNothing
  BY DEF Init, OrderlyUseLeaksNothing
<1> QED BY <1>1, StepLeaksNothing, TypeCorrect, PTL DEF Spec
=============================================================================

------------------------------ MODULE MmapWAL ------------------------------
(* The memory-mapped write-ahead log (src/persistence/mmap_wal.cpp, the POSIX *)
(* branch): one file, and in each life of the process one MmapWAL object on   *)
(* it.  Appended records are numbered.  The mapping is shared, so the file is *)
(* what was copied into it and outlives the process; a loss of power, when    *)
(* the operating system has not written a page back, is left out.             *)
EXTENDS Integers, Sequences

CONSTANTS
    RecSize,     \* sizeof(NewOrderMsg)
    FileSizes,   \* the values given for initial_size
    MaxRecords,  \* bound: records appended over all lives of the process
    MaxOpens     \* bound: descriptors a process opens

ASSUME RecSizeAssumption   == RecSize \in Nat \ {0}
ASSUME FileSizesAssumption == FileSizes \subseteq Nat /\ FileSizes # {}
ASSUME BoundsAssumption    == MaxRecords \in Nat /\ MaxOpens \in Nat

Record == 1 .. MaxRecords
Zero == 0    \* bytes ftruncate added, or never written
Torn == -1   \* bytes of a record that was not copied to its end

VARIABLES
    pc,             \* "dead", "idle", or in append_order: "copy" in the memcpy,
                    \* "copied" after it
    file_size,      \* file_size_
    write_offset,   \* write_offset_
    mapped,         \* mapped_data_ is not null
    mapping,        \* the bytes of the file mapped at mapped_data_, 0 if none are
    fd,             \* fd_, 0 for -1
    open_fds,       \* the descriptors the process has open
    opens,          \* opens attempted in this life
    file,           \* the file, one entry per record that starts at that offset
    length,         \* the bytes of the file
    acked,          \* history: records this object has acknowledged
    promised,       \* history: records any object has acknowledged
    orderly,        \* history: no open failed or came before the last close
    count           \* history: records begun over all lives

walVars == <<file_size, write_offset, mapped, mapping, fd, open_fds, opens>>
vars    == <<pc, walVars, file, length, acked, promised, orderly, count>>

Offset == {RecSize * k : k \in 0 .. MaxRecords}

Init ==
    /\ pc = "dead"
    /\ file_size \in FileSizes
    /\ write_offset = 0 /\ mapped = FALSE /\ mapping = 0
    /\ fd = 0 /\ open_fds = {} /\ opens = 0
    /\ file = [o \in Offset |-> Zero] /\ length = 0
    /\ acked = <<>> /\ promised = {} /\ orderly = TRUE /\ count = 0

(* The process starts and constructs its MmapWAL.                             *)
Construct(size) ==
    /\ pc = "dead"
    /\ pc' = "idle"
    /\ file_size' = size
    /\ write_offset' = 0 /\ mapped' = FALSE /\ mapping' = 0
    /\ fd' = 0 /\ open_fds' = {} /\ opens' = 0
    /\ acked' = <<>> /\ orderly' = TRUE
    /\ UNCHANGED <<file, length, promised, count>>

(* ftruncate() cuts off or zeroes what lies beyond the size.                  *)
Truncated(size) ==
    [o \in Offset |-> IF o + RecSize <= size THEN file[o]
                      ELSE IF o < size /\ file[o] # Zero THEN Torn ELSE Zero]

(* open(): false when ::open fails, with fd_ set to -1; when ftruncate fails, *)
(* with the file open; or when mmap fails, which it does for no bytes, with   *)
(* the file open and resized. Only mmap touches mapped_data_: what the first  *)
(* two leave there may still be the mapping of an earlier open.               *)
CanOpen == pc = "idle" /\ opens < MaxOpens /\ opens' = opens + 1
Untouched == UNCHANGED <<pc, file_size, write_offset, acked, promised, count>>

OpenFails ==
    /\ CanOpen
    /\ fd' = 0
    /\ orderly' = FALSE
    /\ Untouched /\ UNCHANGED <<mapped, mapping, open_fds, file, length>>

TruncateFails ==
    /\ CanOpen
    /\ fd' = opens + 1 /\ open_fds' = open_fds \cup {opens + 1}
    /\ orderly' = FALSE
    /\ Untouched /\ UNCHANGED <<mapped, mapping, file, length>>

MapKeepsFailed(succeeds) ==   \* mistaken: MAP_FAILED stays in mapped_data_
    /\ CanOpen /\ (succeeds => file_size > 0)
    /\ fd' = opens + 1 /\ open_fds' = open_fds \cup {opens + 1}
    /\ file' = Truncated(file_size) /\ length' = file_size
    /\ mapped' = TRUE /\ mapping' = IF succeeds THEN file_size ELSE 0
    /\ orderly' = (orderly /\ succeeds /\ ~mapped)
    /\ Untouched
Map(succeeds) ==
    /\ CanOpen /\ (succeeds => file_size > 0)
    /\ fd' = opens + 1 /\ open_fds' = open_fds \cup {opens + 1}
    /\ file' = Truncated(file_size) /\ length' = file_size
    /\ mapped' = succeeds /\ mapping' = IF succeeds THEN file_size ELSE 0
    /\ orderly' = (orderly /\ succeeds /\ ~mapped)
    /\ Untouched

OpenSucceedsRewinds ==   \* mistaken: opening again starts the log over
    /\ CanOpen /\ file_size > 0
    /\ fd' = opens + 1 /\ open_fds' = open_fds \cup {opens + 1}
    /\ file' = Truncated(file_size) /\ length' = file_size
    /\ mapped' = TRUE /\ mapping' = file_size /\ write_offset' = 0
    /\ orderly' = (orderly /\ ~mapped)
    /\ UNCHANGED <<pc, file_size, acked, promised, count>>
OpenSucceeds == Map(TRUE)
MapFails     == Map(FALSE)

(* close(): only when something is mapped; fd_ and write_offset_ are kept.    *)
CloseForgetsMapping ==   \* mistaken: mapped_data_ is left dangling
    /\ pc = "idle"
    /\ mapped /\ mapping' = 0 /\ open_fds' = open_fds \ {fd}
    /\ Untouched /\ UNCHANGED <<mapped, fd, opens, file, length, orderly>>
Close ==
    /\ pc = "idle"
    /\ mapped /\ mapped' = FALSE /\ mapping' = 0 /\ open_fds' = open_fds \ {fd}
    /\ Untouched /\ UNCHANGED <<fd, opens, file, length, orderly>>

(* append_order(): refused without a mapping or room; otherwise the record is *)
(* copied to its end, and then acknowledged by a step of the offset. The      *)
(* process may die before, between and after.                                 *)
Room == write_offset + RecSize <= file_size

BeginAppend ==
    /\ pc = "idle" /\ count < MaxRecords
    /\ mapped /\ Room
    /\ pc' = "copy"
    /\ count' = count + 1
    /\ file' = [file EXCEPT ![write_offset] = Torn]
    /\ UNCHANGED <<walVars, length, acked, promised, orderly>>

EndCopy ==
    /\ pc = "copy"
    /\ pc' = "copied"
    /\ file' = [file EXCEPT ![write_offset] = count]
    /\ UNCHANGED <<walVars, length, acked, promised, orderly, count>>

AcknowledgePadded ==   \* mistaken: the offset advances by a padded record
    /\ pc = "copied"
    /\ pc' = "idle"
    /\ write_offset' = write_offset + RecSize + 1
    /\ acked' = Append(acked, count) /\ promised' = promised \cup {count}
    /\ UNCHANGED <<file_size, mapped, mapping, fd, open_fds, opens, file, length, orderly, count>>
Acknowledge ==
    /\ pc = "copied"
    /\ pc' = "idle"
    /\ write_offset' = write_offset + RecSize
    /\ acked' = Append(acked, count) /\ promised' = promised \cup {count}
    /\ UNCHANGED <<file_size, mapped, mapping, fd, open_fds, opens, file, length, orderly, count>>

(* The process ends, in order (the destructor closes) or killed: its mapping  *)
(* and descriptors are gone, the file stays.                                  *)
Exit ==
    /\ pc # "dead"
    /\ pc' = "dead"
    /\ mapped' = FALSE /\ mapping' = 0 /\ open_fds' = {}
    /\ UNCHANGED <<file_size, write_offset, fd, opens, file, length>>
    /\ UNCHANGED <<acked, promised, orderly, count>>

Next ==
    \/ \E size \in FileSizes : Construct(size)
    \/ OpenFails \/ TruncateFails \/ MapFails \/ OpenSucceeds
    \/ Close \/ BeginAppend \/ EndCopy \/ Acknowledge \/ Exit

Spec == Init /\ [][Next]_vars

TypeOK ==
    /\ pc \in {"dead", "idle", "copy", "copied"}
    /\ file_size \in FileSizes /\ write_offset \in Offset
    /\ mapped \in BOOLEAN /\ orderly \in BOOLEAN
    /\ mapping \in FileSizes \cup {0} /\ length \in FileSizes \cup {0}
    /\ opens \in 0 .. MaxOpens /\ fd \in 0 .. MaxOpens /\ open_fds \subseteq 1 .. MaxOpens
    /\ file \in [Offset -> Record \cup {Zero, Torn}]
    /\ acked \in Seq(Record) /\ promised \subseteq Record /\ count \in 0 .. MaxRecords

(* What an object has acknowledged is in the file, in the order of the calls  *)
(* and without a gap: through closes, further opens and opens that fail, and  *)
(* still when the process was killed, even in the middle of the next append.  *)
AckedInPlace ==
    /\ write_offset = RecSize * Len(acked)
    /\ \A k \in 1 .. Len(acked) : file[RecSize * (k - 1)] = acked[k]

(* append_order() copies into mapped bytes of the file only: its test reads   *)
(* file_size_ and whether mapped_data_ is null, and that must answer for what *)
(* is mapped there and for what the file holds, whatever opens succeeded,     *)
(* failed halfway or came on top of each other, in this life or before it.    *)
CopiesIntoMapping ==
    pc = "copy" => write_offset + RecSize <= mapping /\ write_offset + RecSize <= length

(* A process whose opens succeed and are closed before the next one has only  *)
(* the descriptor of its mapping open, however often it opens.                *)
OrderlyUseLeaksNothing == orderly => open_fds = IF mapped THEN {fd} ELSE {}

(* "allowing instant crash recovery" (README.md:39): a record that was ever   *)
(* acknowledged can be read back from the file.                               *)
AckedSurviveRestart == \A r \in promised : \E o \in Offset : file[o] = r
=============================================================================

-------------------------------- MODULE Mbr --------------------------------
(***************************************************************************)
(* Partition tables of the old kind, src/kernel/partition.c: the scan of   *)
(* the entries in sector 0 and of the chain of extended records, and the   *)
(* edits of the entries.  The scan and the edits each have a check of      *)
(* their own of what a table may hold.                                     *)
(*                                                                         *)
(* The disk is writable and nothing of it is mounted; otherwise every edit *)
(* is refused.  A disk with a protective entry is left to Gpt.             *)
(***************************************************************************)
EXTENDS Naturals, Sequences, FiniteSets

CONSTANTS
    PrimarySlots,     \* entries in sector 0; 4 in the code
    MaxCandidates,    \* PARTITION_MAX_PER_DISK
    MbrBlocks,        \* block_count of the disk
    MbrWord,          \* 2 ^ 32, the modulus of the fields of an entry
    MbrTables,        \* tables a disk may come with, and its extended records
    MbrStarts,        \* what callers ask for
    MbrCounts,
    MaxMbrEdits       \* bound on the edits

MbrEntry(type, first, count) == [type |-> type, first |-> first, count |-> count]
EmptyEntry == MbrEntry("none", 0, 0)

(* A sector without the signature is no extended record.                   *)
NoRecord == [signed |-> FALSE]
Record(entry, next) == [signed |-> TRUE, entry |-> entry, next |-> next]

MbrEntries == [type : {"none", "data", "extended", "protective"}, first : Nat, count : Nat]
MbrRecords == {NoRecord} \union [signed : {TRUE}, entry : MbrEntries, next : MbrEntries]

ASSUME MbrAssumption ==
    /\ PrimarySlots \in Nat \ {0} /\ MaxCandidates \in Nat /\ MbrBlocks \in Nat \ {0}
    /\ MbrWord \in Nat \ {0}
    /\ MbrTables \subseteq [entries : [1 .. PrimarySlots -> MbrEntries],
                            records : [0 .. MbrBlocks - 1 -> MbrRecords]]
    /\ MbrStarts \subseteq Nat /\ MbrCounts \subseteq Nat /\ MaxMbrEdits \in Nat

VARIABLES
    m_disk,     \* entries: those of sector 0; records: what the other sectors hold
    m_edit,     \* the last edit: its outcome, what was asked for, and the disk before
    m_edits     \* edits so far

mbrVars == <<m_disk, m_edit, m_edits>>

PrimaryNumbers == 1 .. PrimarySlots
NothingFound == [ok |-> FALSE, found |-> << >>]
Span(p) == p.first .. p.first + p.count - 1

-----------------------------------------------------------------------------
(* The scan                                                                *)

InDisk(first, count) == first # 0 /\ count # 0 /\ first < MbrBlocks /\ count <= MbrBlocks - first

Overlap(p, q) == p.first <= q.first + q.count - 1 /\ q.first <= p.first + p.count - 1

(* mbr_candidate_add                                                       *)
CandidateAdd(s, number, first, count) ==
    LET p == [number |-> number, first |-> first, count |-> count] IN
    IF /\ s.ok /\ Len(s.found) < MaxCandidates /\ InDisk(first, count)
       /\ \A i \in DOMAIN s.found : ~Overlap(p, s.found[i])
    THEN [s EXCEPT !.found = Append(@, p)]
    ELSE [s EXCEPT !.ok = FALSE]

(* scan_mbr, one entry of sector 0.  There is one extended partition at    *)
(* most; s.ext is EmptyEntry until it is met.                              *)
ScanPrimary(s, number, e) ==
    CASE e.type \in {"none", "protective"} \/ e.count = 0 -> s
      [] e.type = "extended" /\ e.count # 0 ->
           IF s.ext = EmptyEntry /\ InDisk(e.first, e.count) THEN [s EXCEPT !.ext = e]
           ELSE [s EXCEPT !.ok = FALSE]
      [] OTHER -> CandidateAdd(s, number, e.first, e.count)

(* One extended record, at s.at: the logical partition in its first entry, *)
(* counted from the record, and the place of the next one in its second,   *)
(* counted from the extended partition.                                    *)
ScanRecord(s, records, number) ==
    LET r == records[s.at]
        end == s.ext.first + s.ext.count - 1
        logical == s.at + r.entry.first
        next == s.ext.first + r.next.first
        added == CandidateAdd(s, number, logical, r.entry.count)
        ends == r.next.type = "none" /\ r.next.count = 0
    IN IF ~s.ok \/ s.at = 0 THEN s
       ELSE IF /\ Cardinality(s.visited) < MaxCandidates
               /\ s.at \in s.ext.first .. end /\ r.signed /\ s.at \notin s.visited
               /\ r.entry.type \notin {"none", "extended"} /\ r.entry.count # 0
               /\ logical <= end /\ r.entry.count <= end - logical + 1
               /\ ends \/ (r.next.type = "extended" /\ r.next.first # 0 /\ next <= end)
            THEN [added EXCEPT !.visited = @ \union {s.at}, !.at = IF ends THEN 0 ELSE next]
            ELSE [s EXCEPT !.ok = FALSE]

(* The entries of sector 0, one after the other                            *)
ScanPrimaries(entries) ==
    LET upTo[n \in 0 .. PrimarySlots] ==
            IF n = 0 THEN [ok |-> TRUE, found |-> << >>, ext |-> EmptyEntry, at |-> 0, visited |-> {}]
            ELSE ScanPrimary(upTo[n - 1], n, entries[n])
    IN upTo[PrimarySlots]

(* The chain, from the first record of the extended partition on           *)
ScanChain(p, records) ==
    LET upTo[n \in 0 .. MaxCandidates + 1] ==
            IF n = 0 THEN [p EXCEPT !.at = p.ext.first]
            ELSE ScanRecord(upTo[n - 1], records, PrimarySlots + n)
    IN upTo[MaxCandidates + 1]

(* partition_scan_device, scan_mbr: everything is recorded or nothing.     *)
ScanMbr(disk) ==
    LET p == ScanPrimaries(disk.entries)
        clear == \A i \in DOMAIN p.found : p.ext = EmptyEntry \/ ~Overlap(p.ext, p.found[i])
        all == ScanChain([p EXCEPT !.ok = @ /\ clear], disk.records)
    IN IF all.ok /\ \A i \in PrimaryNumbers : disk.entries[i].type # "protective"
       THEN [ok |-> TRUE, found |-> all.found] ELSE NothingFound

-----------------------------------------------------------------------------
(* The edits                                                               *)

(* mbr_table_valid                                                         *)
MbrTableValid(entries) ==
    LET used == {n \in PrimaryNumbers : entries[n].type # "none" \/ entries[n].count # 0} IN
    /\ \A n \in used : /\ entries[n].type \notin {"none", "protective", "extended"}
                       /\ InDisk(entries[n].first, entries[n].count)
    /\ \A n, k \in used : n # k => ~Overlap(entries[n], entries[k])
    /\ Cardinality(used) <= MaxCandidates

(* partition_mbr_commit, from its checks on.  A write that fails may have  *)
(* reached the disk, and so has one whose flush fails.                     *)
MbrCommit(slot, entry) ==
    LET edited == [m_disk.entries EXCEPT ![slot] =
                      MbrEntry(entry.type, entry.first % MbrWord, entry.count % MbrWord)] IN
    /\ \A n \in PrimaryNumbers : m_disk.entries[n].type # "protective"
    /\ MbrTableValid(edited)
    /\ \E ok, written \in BOOLEAN :
          /\ ok => written
          /\ m_disk' = IF written THEN [m_disk EXCEPT !.entries = edited] ELSE m_disk
          /\ m_edit' = [ok |-> ok, slot |-> slot, asked |-> entry, before |-> m_disk]

Representable(first, count) ==
    first # 0 /\ count # 0 /\ first < MbrWord /\ count < MbrWord

PartitionMbrCreate(slot, first, count) ==
    /\ m_disk.entries[slot].type = "none" /\ m_disk.entries[slot].count = 0
    /\ Representable(first, count)
    /\ MbrCommit(slot, MbrEntry("data", first, count))

PartitionMbrDelete(slot) ==
    /\ m_disk.entries[slot].type # "none"
    /\ MbrCommit(slot, EmptyEntry)

PartitionMbrResize(slot, first, count) ==
    /\ m_disk.entries[slot].type \notin {"none", "protective", "extended"}
    /\ m_disk.entries[slot].count # 0
    /\ Representable(first, count)
    /\ MbrCommit(slot, MbrEntry(m_disk.entries[slot].type, first, count))

MbrInit ==
    /\ m_disk \in MbrTables
    /\ m_edit = [ok |-> FALSE, slot |-> 0, asked |-> EmptyEntry, before |-> m_disk]
    /\ m_edits = 0

MbrNext ==
    /\ m_edits < MaxMbrEdits /\ m_edits' = m_edits + 1
    /\ \E slot \in PrimaryNumbers :
          \/ \E first \in MbrStarts, count \in MbrCounts :
                PartitionMbrCreate(slot, first, count) \/ PartitionMbrResize(slot, first, count)
          \/ PartitionMbrDelete(slot)

MbrSpec == MbrInit /\ [][MbrNext]_mbrVars

-----------------------------------------------------------------------------
Found(disk) == LET found == ScanMbr(disk).found IN {found[i] : i \in DOMAIN found}

(* Whatever a disk comes with, what the scan finds is apart, on the disk,  *)
(* and numbered once.                                                      *)
ScanSound ==
    \A p, q \in Found(m_disk) :
        /\ Span(p) \subseteq 1 .. MbrBlocks - 1
        /\ p # q => Span(p) \intersect Span(q) = {} /\ p.number # q.number

(* The two checks agree: once an edit has succeeded the next scan finds    *)
(* every entry that is left, the one that was edited as it was asked for;  *)
(* and one that failed, however far it came, costs no other partition.     *)
EditsFound ==
    /\ m_edit.ok =>
          LET left == [m_edit.before.entries EXCEPT ![m_edit.slot] = m_edit.asked] IN
          Found(m_disk) = {[number |-> n, first |-> left[n].first, count |-> left[n].count] :
                              n \in {k \in PrimaryNumbers : left[k].type # "none"}}
    /\ m_edit.slot # 0 =>
          \A p \in Found(m_edit.before) :
              p \in Found(m_disk) \/ p.number = m_edit.slot
              \/ (m_edit.before.entries[m_edit.slot].type = "extended" /\ p.number > PrimarySlots)

(* The scan and the edits agree on what a table may hold.                  *)
MbrSound == ScanSound /\ EditsFound

=============================================================================

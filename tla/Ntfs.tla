-------------------------------- MODULE Ntfs --------------------------------
(***************************************************************************)
(* The transactions of the NTFS driver, src/kernel/ntfs.c: every operation *)
(* marks the volume dirty, changes bitmaps, file records, the directory    *)
(* index and clusters one sector at a time, mounts the volume a second     *)
(* time to look at the result, and clears the mark.  The first write of a  *)
(* sector keeps what was there; when a step fails the kept sectors are     *)
(* written back, the last first.  A volume found dirty is mounted          *)
(* read-only.                                                              *)
(*                                                                         *)
(* The files are those of one directory, whose index is one record here    *)
(* (NtfsIndex has its tree).  A file record has two sectors that carry the *)
(* same update sequence number.  The disk may have a write cache: what was *)
(* written since the last flush then reaches the medium in any order.      *)
(* Memory that cannot be had is a failing step like any other.             *)
(***************************************************************************)
EXTENDS Naturals, Sequences, FiniteSets, SequencesExt

CONSTANTS
    Names,          \* names of files
    Contents,       \* what a file may contain
    Size,           \* Size[c]: bytes of the contents c
    ResidentMax,    \* bytes that fit into a file record
    ClusterSize,    \* bytes_per_cluster
    RecordBits,     \* bits of the bitmap of file records, the reserved ones left out
    RecordLimit,    \* records of $MFT, in the same count
    ClusterBits,    \* bits of the bitmap of clusters
    ClusterLimit,   \* clusters of the volume
    RunsPerRecord,  \* runs whose list fits into a record
    MaxUsn,         \* largest update sequence number, 65535
    SystemClusters, \* clusters in use for something other than these files
    MaxFailures,    \* bound on the failing steps of an operation
    MaxOperations   \* bound on the operations

ASSUME NtfsAssumption ==
    /\ Size \in [Contents -> Nat \ {0}]
    /\ ResidentMax \in Nat \ {0} /\ ClusterSize \in Nat \ {0}
    /\ RecordBits \in Nat /\ RecordLimit \in Nat
    /\ ClusterBits \in Nat /\ ClusterLimit \in Nat
    /\ RunsPerRecord \in Nat \ {0} /\ MaxUsn \in Nat \ {0, 1}
    /\ SystemClusters \subseteq 1 .. ClusterBits
    /\ MaxFailures \in Nat /\ MaxOperations \in Nat

VARIABLES
    disk,         \* disk[s]: what is on the medium in sector s
    write_cache,  \* the disk has a write cache
    pending,      \* what has not reached the medium, for some of the sectors
    mode,         \* how the volume is mounted
    op,           \* the operation in progress
    files,        \* the files as the finished operations left them
    failures,     \* failing steps of the operation in progress
    operations,   \* operations so far
    split         \* an undo did not restore every sector

vars == <<disk, write_cache, pending, mode, op, files, failures, operations, split>>

-----------------------------------------------------------------------------
(* The volume                                                              *)

VolumeRecord == 3
RootRecord == 5
FirstRecord == 24

Records == FirstRecord .. FirstRecord + RecordBits - 1
Clusters == 1 .. ClusterBits

RecordSectors(r) == {<<"record", r, 1>>, <<"record", r, 2>>}
MftBitmap == <<"bitmap", 0, 0>>
ClusterBitmap == <<"bitmap", 6, 0>>
ClusterSector(c) == <<"cluster", c, 0>>

Sectors ==
    UNION {RecordSectors(r) : r \in Records \union {VolumeRecord, RootRecord}}
    \union {MftBitmap, ClusterBitmap}
    \union {ClusterSector(c) : c \in Clusters}

Over(new, old) ==
    [s \in DOMAIN new \union DOMAIN old |-> IF s \in DOMAIN new THEN new[s] ELSE old[s]]

Only(f, S) == [s \in S |-> f[s]]

Nothing == Only(disk, {})

View == Over(pending, disk)

(* protect_fixup: the number that both sectors of a record get.            *)
NextUsn(usn) == (usn % MaxUsn) + 1

Damaged == [damaged |-> TRUE]

(* apply_fixup and validate_loaded_file_record: the numbers must agree.    *)
RecordIn(view, r) ==
    LET first == view[<<"record", r, 1>>]
        second == view[<<"record", r, 2>>]
    IN IF first.usn # second.usn \/ first.body # second.body THEN Damaged ELSE first.body

(* read_mft_record, read_mft_mirror_record: the mirror of the volume       *)
(* record is never written, so it says clean for good.                     *)
Torn(view, r) == view[<<"record", r, 1>>].usn # view[<<"record", r, 2>>].usn
Mirror == [usn |-> 1, body |-> [dirty |-> FALSE]]
VolumeDirty(view) ==
    IF Torn(view, VolumeRecord) THEN Mirror.body.dirty
    ELSE view[<<"record", VolumeRecord, 1>>].body.dirty

UsnOf(view, r) ==
    IF Torn(view, r) THEN Mirror.usn ELSE view[<<"record", r, 1>>].usn

Index(view) == RecordIn(view, RootRecord).entries

NoRecord == [used |-> FALSE]

(* ntfs_resolve, for a path of one name                                    *)
Resolve(view, name) ==
    IF Damaged = RecordIn(view, RootRecord) \/ name \notin DOMAIN Index(view) THEN 0
    ELSE Index(view)[name]

-----------------------------------------------------------------------------
(* The contents of a file                                                  *)

ClustersFor(size) == (size + ClusterSize - 1) \div ClusterSize

(* What the clusters, or the record, hold of the contents.                 *)
Chunks(c) == [i \in 1 .. ClustersFor(Size[c]) |-> <<c, i>>]

(* The runs of a list of clusters, and the records they are spread over.   *)
RunStarts(lcns) == {i \in DOMAIN lcns : i = 1 \/ lcns[i] # lcns[i - 1] + 1}
RunOf(lcns, i) == Cardinality({s \in RunStarts(lcns) : s <= i})
ExtentOf(lcns, i) == 1 + (RunOf(lcns, i) - 1) \div RunsPerRecord
ExtentCount(lcns) == ExtentOf(lcns, Len(lcns))
ExtentLcns(lcns, k) == SelectSeq([i \in DOMAIN lcns |-> <<i, lcns[i]>>],
                                 LAMBDA p : ExtentOf(lcns, p[1]) = k)

Seconds(pairs) == [i \in DOMAIN pairs |-> pairs[i][2]]

(* ntfs_build_basic_record, ntfs_build_nonresident_file_record, the base   *)
(* record and an extension record of ntfs_write_split_nonresident_file     *)
ResidentBody(name, c, room) ==
    [used |-> TRUE, base |-> 0, name |-> name, resident |-> TRUE, contents |-> c,
     room |-> room]
PlainBody(name, size, lcns) ==
    [used |-> TRUE, base |-> 0, name |-> name, resident |-> FALSE, size |-> size,
     lcns |-> lcns, extensions |-> << >>]
SplitBody(name, size, extensions) ==
    [used |-> TRUE, base |-> 0, name |-> name, resident |-> FALSE, size |-> size,
     lcns |-> << >>, extensions |-> extensions]
ExtensionBody(base, lcns) == [used |-> TRUE, base |-> base, lcns |-> lcns]

(* collect_attribute_stream: the clusters of a file, in order.             *)
LcnsOf(view, body) ==
    IF body.resident THEN << >>
    ELSE body.lcns \o FlattenSeq([i \in DOMAIN body.extensions |->
                                     RecordIn(view, body.extensions[i]).lcns])

(* ntfs_collect_extension_records                                          *)
ExtensionsOf(body) == IF body.resident THEN << >> ELSE body.extensions

(* ntfs_context_file_size, ntfs_context_read_file                          *)
SizeOf(body) == IF body.resident THEN Size[body.contents] ELSE body.size
ContentsIn(view, body) ==
    IF body.resident THEN [size |-> Size[body.contents], chunks |-> Chunks(body.contents)]
    ELSE LET lcns == LcnsOf(view, body) IN
         [size |-> body.size,
          chunks |-> [i \in 1 .. ClustersFor(body.size) |-> view[ClusterSector(lcns[i])]]]

File(c) == [size |-> Size[c], chunks |-> Chunks(c)]

(* The records of the named files and of their extensions are as they      *)
(* should be, what they use is marked used in the bitmaps, once, and       *)
(* nothing else is, but for the extension records of deleted files, which  *)
(* ntfs_delete_entry leaves behind.                                        *)
Bodies(view) == [name \in DOMAIN Index(view) |-> RecordIn(view, Index(view)[name])]

WellFormed(view) ==
    /\ RecordIn(view, RootRecord) # Damaged
    /\ \A name \in DOMAIN Index(view) :
          LET body == RecordIn(view, Index(view)[name]) IN
          /\ body # Damaged /\ body.used /\ body.base = 0 /\ body.name = name
          /\ \A i \in DOMAIN ExtensionsOf(body) :
                LET extension == RecordIn(view, ExtensionsOf(body)[i]) IN
                extension # Damaged /\ extension.used
                   /\ extension.base = Index(view)[name]

RecordsOf(view, name) ==
    {Index(view)[name]} \union ToSet(ExtensionsOf(Bodies(view)[name]))

ClustersOf(view, name) == ToSet(LcnsOf(view, Bodies(view)[name]))

Orphans(view) ==
    {r \in Records :
        LET body == RecordIn(view, r) IN
        /\ body # Damaged /\ body.used /\ body.base # 0
        /\ \A name \in DOMAIN Index(view) : r \notin RecordsOf(view, name)}

Disjoint(f) == \A x, y \in DOMAIN f : x # y => f[x] \intersect f[y] = {}

Accounted(view) ==
    LET records == [name \in DOMAIN Index(view) |-> RecordsOf(view, name)]
        clusters == [name \in DOMAIN Index(view) |-> ClustersOf(view, name)]
    IN /\ Disjoint(records) /\ Disjoint(clusters)
       /\ UNION {records[name] : name \in DOMAIN records}
             = view[MftBitmap] \ Orphans(view)
       /\ \A name \in DOMAIN clusters : clusters[name] \intersect SystemClusters = {}
       /\ UNION {clusters[name] : name \in DOMAIN clusters} \union SystemClusters
             = view[ClusterBitmap]

Sound(view) == WellFormed(view) /\ Accounted(view)

FilesIn(view) ==
    [name \in DOMAIN Index(view) |-> ContentsIn(view, Bodies(view)[name])]

-----------------------------------------------------------------------------
(* Steps: what the driver asks of the disk, in order                       *)

Write(sector, value) == [do |-> "write", sector |-> sector, value |-> value]
Flush == [do |-> "flush"]     \* ntfs_transaction_barrier
Read == [do |-> "read"]       \* something is read, which may fail
Refuse == [do |-> "refuse"]   \* the operation gives up

(* write_mft_record                                                        *)
RecordSteps(r, usn, body) ==
    << Write(<<"record", r, 1>>, [usn |-> usn, body |-> body]),
       Write(<<"record", r, 2>>, [usn |-> usn, body |-> body]), Flush >>

(* A record that was read is written back with the next number, a new one  *)
(* with the first.                                                         *)
Update(view, r, body) == RecordSteps(r, NextUsn(UsnOf(view, r)), body)
Fresh(r, body) == RecordSteps(r, 1, body)

(* ntfs_bitmap_find_clear, as ntfs_stream_update_bits has it: the lowest   *)
(* clear bits, in order; none when there are not enough.                   *)
ClearBits(bits, used, count) ==
    LET clear == SetToSortSeq(bits \ used, LAMBDA a, b : a < b) IN
    IF Len(clear) < count THEN << >> ELSE SubSeq(clear, 1, count)

(* ntfs_stream_update_bits writes the sector once for each bit.            *)
SetSteps(view, bitmap, bits) ==
    [i \in DOMAIN bits |-> Write(bitmap, view[bitmap] \union ToSet(SubSeq(bits, 1, i)))]
       \o << Flush >>
ClearSteps(view, bitmap, bits) ==
    [i \in DOMAIN bits |-> Write(bitmap, view[bitmap] \ ToSet(SubSeq(bits, 1, i)))]
       \o << Flush >>

(* ntfs_allocate_mft_records, ntfs_allocate_clusters: the limit is looked  *)
(* at when the bits have been set.                                         *)
AllocateSteps(view, bitmap, bits, limit) ==
    IF bits = << >> THEN << Refuse >>
    ELSE SetSteps(view, bitmap, bits)
            \o (IF \E b \in ToSet(bits) : b >= limit THEN << Refuse >> ELSE << >>)

NewRecords(view, count) == ClearBits(Records, view[MftBitmap], count)
NewClusters(view, count) == ClearBits(Clusters, view[ClusterBitmap], count)
AllocateRecords(view, records) ==
    AllocateSteps(view, MftBitmap, records, FirstRecord + RecordLimit)
AllocateClusters(view, lcns) ==
    AllocateSteps(view, ClusterBitmap, lcns, ClusterLimit + 1)

(* ntfs_zero_cluster_list, write_to_runs                                   *)
Zero == << >>
ZeroSteps(lcns) ==
    [i \in DOMAIN lcns |-> Write(ClusterSector(lcns[i]), Zero)] \o << Flush >>
DataSteps(lcns, c) ==
    [i \in DOMAIN Chunks(c) |-> Write(ClusterSector(lcns[i]), Chunks(c)[i])]
       \o << Flush >>

(* ntfs_write_split_nonresident_file                                       *)
SplitSteps(view, r, name, size, lcns) ==
    LET extensions == NewRecords(view, ExtentCount(lcns)) IN
    AllocateRecords(view, extensions)
       \o (IF extensions = << >> THEN << >> ELSE
           Fresh(r, SplitBody(name, size, extensions))
              \o FlattenSeq([k \in DOMAIN extensions |->
                     Fresh(extensions[k],
                           ExtensionBody(r, Seconds(ExtentLcns(lcns, k))))]))

(* The record of a file with these clusters, split when its list of runs   *)
(* is too long.                                                            *)
FitsRecord(lcns) == Cardinality(RunStarts(lcns)) <= RunsPerRecord

StorageSteps(view, r, name, size, lcns) ==
    IF FitsRecord(lcns) THEN Fresh(r, PlainBody(name, size, lcns))
    ELSE SplitSteps(view, r, name, size, lcns)

(* ntfs_index_root_insert and ntfs_index_root_remove, on the one record of *)
(* this directory                                                          *)
Without(entries, r) == Only(entries, {n \in DOMAIN entries : entries[n] # r})

InsertSteps(view, name, r) ==
    IF name \in DOMAIN Index(view) THEN << Refuse >>
    ELSE Update(view, RootRecord,
                [entries |-> Over([n \in {name} |-> r],
                                  Index(view))])

RemoveSteps(view, r) ==
    IF \A n \in DOMAIN Index(view) : Index(view)[n] # r THEN << Refuse >>
    ELSE Update(view, RootRecord, [entries |-> Without(Index(view), r)])

(* The end of ntfs_rewrite_file_storage: the old extension records         *)
ReleaseExtensions(view, extensions) ==
    IF extensions = << >> THEN << >> ELSE
    FlattenSeq([k \in DOMAIN extensions |->
                   Update(view, extensions[k],
                          [RecordIn(view, extensions[k]) EXCEPT !.used = FALSE])])
       \o ClearSteps(view, MftBitmap, extensions)

ReleaseClustersNever(view, lcns) == << >>

(* ntfs_release_stream_clusters                                            *)
ReleaseClusters(view, lcns) ==
    IF lcns = << >> THEN << >> ELSE ClearSteps(view, ClusterBitmap, lcns)

(* ntfs_remount_verify_path, ntfs_verify_file_allocation                   *)
PathVerified(view, name, exists, size) ==
    LET r == Resolve(view, name) IN
    /\ (r # 0) = exists
    /\ exists =>
          LET body == RecordIn(view, r) IN
          /\ size # 0 => SizeOf(body) = size
          /\ r \in view[MftBitmap]
          /\ ToSet(LcnsOf(view, body)) \subseteq view[ClusterBitmap]
          /\ \A e \in ToSet(ExtensionsOf(body)) :
                e \in view[MftBitmap] /\ RecordIn(view, e).base = r

VerifySteps(view, name, exists, size) ==
    IF PathVerified(view, name, exists, size) THEN << Read >> ELSE << Refuse >>

BeginStepsUnflushed(view) ==
    << Read >> \o Front(Update(view, VolumeRecord, [dirty |-> TRUE])) \o << Read >>

(* ntfs_mutation_begin and ntfs_mutation_commit: ntfs_set_volume_dirty,    *)
(* ntfs_verify_volume_dirty and the barriers around them                   *)
BeginSteps(view) ==
    << Read >> \o Update(view, VolumeRecord, [dirty |-> TRUE]) \o << Read, Flush >>
CommitSteps(view) ==
    << Flush, Read >> \o Update(view, VolumeRecord, [dirty |-> FALSE]) \o << Read, Flush >>

-----------------------------------------------------------------------------
(* Operations: the stages of each, and the steps of a stage                *)

Idle == [kind |-> "none"]

StoreStages(c) ==
    IF Size[c] <= ResidentMax THEN << "record" >>
    ELSE << "clusters", "zero", "data", "storage" >>

(* ntfs_create_entry                                                       *)
CreateStages(c) ==
    << "begin", "take record" >> \o StoreStages(c) \o << "insert", "verify", "commit" >>

(* ntfs_write_existing_file, in place when the contents fit, and otherwise *)
(* ntfs_rewrite_file_storage                                               *)
WriteStages(view, r, c) ==
    LET body == RecordIn(view, r)
        fits == IF body.resident THEN Size[c] <= body.room
                ELSE body.extensions = << >>
                        /\ Size[c] <= Len(body.lcns) * ClusterSize
    IN << "begin" >>
          \o (IF fits THEN IF body.resident THEN << "in record" >>
                           ELSE << "overwrite", "resize" >>
              ELSE StoreStages(c)
                      \o << "release", "release extensions", "remove", "insert" >>)
          \o << "verify", "commit" >>

(* ntfs_delete_entry                                                       *)
DeleteStages == << "begin", "release", "remove", "unuse", "free record", "verify gone",
                   "commit" >>

(* ntfs_context_rename                                                     *)
RenameStages == << "begin", "rename", "remove", "insert", "verify gone", "verify",
                   "commit" >>

(* The steps of a stage.  What an operation found before its first write   *)
(* is in op: the record r, its contents body, the clusters it had.         *)
StepsOf(stage, view) ==
    CASE stage = "begin" -> BeginSteps(view)
      [] stage = "take record" -> AllocateRecords(view, NewRecords(view, 1))
      [] stage = "clusters" -> AllocateClusters(view, NewClusters(view, ClustersFor(op.size)))
      [] stage = "zero" -> ZeroSteps(op.lcns)
      [] stage = "data" -> DataSteps(op.lcns, op.contents)
      [] stage = "storage" -> StorageSteps(view, op.record, op.to, op.size, op.lcns)
      [] stage = "record" ->
            Fresh(op.record, ResidentBody(op.to, op.contents, op.size))
      [] stage = "in record" ->
            Update(view, op.record, ResidentBody(op.to, op.contents, op.body.room))
      [] stage = "overwrite" -> DataSteps(op.body.lcns, op.contents)
      [] stage = "resize" -> Update(view, op.record, [op.body EXCEPT !.size = op.size])
      [] stage = "release" -> ReleaseClusters(view, op.old)
      [] stage = "release extensions" -> ReleaseExtensions(view, ExtensionsOf(op.body))
      [] stage = "rename" -> Update(view, op.record, [op.body EXCEPT !.name = op.to])
      [] stage = "insert" -> InsertSteps(view, op.to, op.record)
      [] stage = "remove" -> RemoveSteps(view, op.record)
      [] stage = "unuse" -> Update(view, op.record, [op.body EXCEPT !.used = FALSE])
      [] stage = "free record" -> ClearSteps(view, MftBitmap, << op.record >>)
      [] stage = "verify" -> VerifySteps(view, op.to, TRUE, op.size)
      [] stage = "verify gone" -> VerifySteps(view, op.name, FALSE, 0)
      [] stage = "refuse" -> << Refuse >>
      [] stage = "commit" -> CommitSteps(view)

AnyContents == CHOOSE c \in Contents : TRUE

-----------------------------------------------------------------------------
(* Operations                                                              *)

Start(kind, name, to, c, r, stages, after) ==
    LET body == IF r = 0 THEN NoRecord ELSE RecordIn(View, r) IN
    /\ operations' = operations + 1
    /\ op' = [kind |-> kind, name |-> name, to |-> to, contents |-> c, record |-> r,
              size |-> IF kind = "write" THEN Size[c] ELSE 0,
              body |-> body, old |-> IF r = 0 THEN << >> ELSE LcnsOf(View, body),
              lcns |-> << >>, stages |-> stages, steps |-> << >>, kept |-> << >>,
              otherwise |-> << >>, undoing |-> FALSE, late |-> FALSE, after |-> after]
    /\ UNCHANGED <<disk, write_cache, pending, mode, files, failures, split>>

MayStart == op = Idle /\ mode = "writable" /\ ~split /\ operations < MaxOperations

(* ntfs_context_write_file, ntfs_create_entry, ntfs_write_existing_file    *)
WriteFile(name, c) ==
    LET r == Resolve(View, name) IN
    /\ MayStart
    /\ Start("write", name, name, c, r,
             IF r = 0 THEN CreateStages(c) ELSE WriteStages(View, r, c),
             Over([n \in {name} |-> File(c)], files))

(* ntfs_delete_entry: the name is looked up when the volume is marked.     *)
Delete(name) ==
    LET r == Resolve(View, name) IN
    /\ MayStart
    /\ Start("delete", name, name, AnyContents, r,
             IF r = 0 THEN << "begin", "refuse" >> ELSE DeleteStages,
             Only(files, DOMAIN files \ {name}))

(* ntfs_context_rename: the new name must be free before the volume is     *)
(* marked, the old name is looked up after it.                             *)
Rename(name, to) ==
    LET r == Resolve(View, name) IN
    /\ MayStart
    /\ Resolve(View, to) = 0
    /\ Start("rename", name, to, AnyContents, r,
             IF r = 0 THEN << "begin", "refuse" >> ELSE RenameStages,
             IF r = 0 THEN files
             ELSE Over([n \in {to} |-> files[name]], Only(files, DOMAIN files \ {name})))

(* The next stage.                                                         *)
Load ==
    /\ op # Idle /\ op.steps = << >> /\ op.stages # << >> /\ ~op.undoing
    /\ \E stage \in {Head(op.stages)} :
          op' = [op EXCEPT
                   !.stages = Tail(op.stages),
                   !.steps = StepsOf(stage, View),
                   !.record = IF stage = "take record" /\ NewRecords(View, 1) # << >>
                              THEN NewRecords(View, 1)[1] ELSE @,
                   !.lcns = IF stage = "clusters" THEN NewClusters(View, ClustersFor(op.size))
                           ELSE @,
                   !.otherwise =
                      IF stage = "storage" /\ op.body # NoRecord /\ FitsRecord(op.lcns)
                      THEN SplitSteps(View, op.record, op.to, op.size, op.lcns)
                      ELSE << >>]
    /\ UNCHANGED <<disk, write_cache, pending, mode, files, failures, operations, split>>

(* ntfs_write_sector_raw, through the disk's cache if it has one           *)
Put(sector, value) ==
    IF write_cache
    THEN pending' = Over([s \in {sector} |-> value], pending) /\ UNCHANGED disk
    ELSE disk' = [disk EXCEPT ![sector] = value] /\ UNCHANGED pending

(* ntfs_transaction_snapshot: the first write of a sector keeps it.        *)
Kept(sector) ==
    IF op.undoing \/ \E i \in DOMAIN op.kept : op.kept[i].sector = sector THEN op.kept
    ELSE Append(op.kept, [sector |-> sector, value |-> View[sector]])

(* ntfs_write_sector, ntfs_transaction_barrier and reading, when all is    *)
(* well                                                                    *)
StepDone ==
    /\ op # Idle /\ op.steps # << >>
    /\ \E step \in {Head(op.steps)} :
          /\ step.do # "refuse"
          /\ IF step.do = "write" THEN Put(step.sector, step.value)
             ELSE IF step.do = "flush" THEN disk' = View /\ pending' = Nothing
             ELSE UNCHANGED <<disk, pending>>
          /\ op' = [op EXCEPT !.steps = Tail(op.steps),
                              !.kept = IF step.do = "write" THEN Kept(step.sector) ELSE @]
    /\ UNCHANGED <<write_cache, mode, files, failures, operations, split>>

(* ntfs_transaction_rollback                                               *)
UndoSteps(kept) == [i \in DOMAIN kept |-> Write(kept[Len(kept) + 1 - i].sector,
                                                kept[Len(kept) + 1 - i].value)] \o << Flush >>

(* A step fails, or the operation gives up.  A write that fails may have   *)
(* been done.  ntfs_rewrite_file_storage takes a record it could not write *)
(* for one that does not fit, and splits the file.                         *)
StepFails ==
    /\ op # Idle /\ op.steps # << >> /\ ~op.undoing
    /\ \E step \in {Head(op.steps)} :
          /\ step.do = "refuse" \/ failures < MaxFailures
          /\ failures' = IF step.do = "refuse" THEN failures ELSE failures + 1
          /\ \/ UNCHANGED <<disk, pending>>
             \/ step.do = "write" /\ Put(step.sector, step.value)
          /\ \E kept \in {IF step.do = "write" THEN Kept(step.sector) ELSE op.kept} :
                op' = IF op.otherwise # << >>
                      THEN [op EXCEPT !.kept = kept, !.steps = op.otherwise, !.otherwise = << >>]
                      ELSE [op EXCEPT !.kept = kept, !.steps = UndoSteps(kept),
                                      !.stages = << >>, !.undoing = TRUE,
                                      !.late = op.stages = << >>]
    /\ UNCHANGED <<write_cache, mode, files, operations, split>>

(* A step of the undo fails: the others are done, and nobody is told.      *)
UndoFails ==
    /\ op # Idle /\ op.steps # << >> /\ op.undoing /\ failures < MaxFailures
    /\ \E step \in {Head(op.steps)} :
          split' = (split \/ (IF step.do = "write" THEN View[step.sector] # step.value
                              ELSE pending # Nothing))
    /\ op' = [op EXCEPT !.steps = Tail(op.steps)]
    /\ failures' = failures + 1
    /\ UNCHANGED <<disk, write_cache, pending, mode, files, operations>>

(* ntfs_transaction_commit, and the end of the undo                        *)
Return ==
    /\ op # Idle /\ op.steps = << >> /\ op.stages = << >>
    /\ op' = Idle
    /\ files' = IF op.undoing THEN files ELSE op.after
    /\ failures' = 0
    /\ UNCHANGED <<disk, write_cache, pending, mode, operations, split>>

(* The medium may say clean while an undo is half done: under a write      *)
(* cache the restored mark may overtake the rest, and when the last steps  *)
(* of a commit fail the mark is cleared already.                           *)
Exposed == op # Idle /\ op.undoing /\ (write_cache \/ op.late)

(* The disk writes a sector out of its cache.  A crash in an exposed undo  *)
(* ends in a split volume whatever has been written.                       *)
Destage ==
    /\ ~Exposed
    /\ \E s \in DOMAIN pending :
          /\ disk' = [disk EXCEPT ![s] = pending[s]]
          /\ pending' = Only(pending, DOMAIN pending \ {s})
    /\ UNCHANGED <<write_cache, mode, op, files, failures, operations, split>>

(* The machine stops, and the volume is mounted again:                     *)
(* ntfs_initialize_context.                                                *)
Crash ==
    /\ pending' = Nothing
    /\ op' = Idle
    /\ failures' = 0
    /\ mode' = IF VolumeDirty(disk) THEN "read-only" ELSE "writable"
    /\ split' = (split \/ Exposed)
    /\ files' = IF VolumeDirty(disk) \/ split' THEN files ELSE FilesIn(disk)
    /\ UNCHANGED <<disk, write_cache, operations>>

Init ==
    /\ disk = [s \in Sectors |->
                  CASE s = MftBitmap -> {}
                    [] s = ClusterBitmap -> SystemClusters
                    [] s[1] = "cluster" -> Zero
                    [] s[1] = "record" ->
                         [usn |-> 1,
                          body |-> CASE s[2] = VolumeRecord -> [dirty |-> FALSE]
                                     [] s[2] = RootRecord -> [entries |-> Only(Size, {})]
                                     [] OTHER -> NoRecord]]
    /\ write_cache \in BOOLEAN
    /\ pending = Nothing
    /\ mode = "writable"
    /\ op = Idle
    /\ files = Only(Size, {})
    /\ failures = 0
    /\ operations = 0
    /\ split = FALSE

Next ==
    \/ \E name \in Names, c \in Contents : WriteFile(name, c)
    \/ \E name \in Names : Delete(name)
    \/ \E name, to \in Names : Rename(name, to)
    \/ Load \/ StepDone \/ StepFails \/ UndoFails \/ Return
    \/ Destage \/ Crash

Spec == Init /\ [][Next]_vars

-----------------------------------------------------------------------------
(* Whenever the machine stops and the medium does not carry the dirty mark *)
(* - the volume will be mounted for writing - its records, bitmaps and     *)
(* index agree, and its files are those before the operation in progress   *)
(* or those after it.                                                      *)
CrashSafe ==
    ~VolumeDirty(disk) /\ ~split /\ ~Exposed =>
        /\ Sound(disk)
        /\ FilesIn(disk) \in {files} \union (IF op = Idle THEN {} ELSE {op.after})

(* When no operation is in progress the volume holds exactly what the      *)
(* operations that reported success left, and nothing of those that        *)
(* failed: no record or cluster stays allocated, none is used twice.       *)
OperationsAtomic ==
    op = Idle /\ mode = "writable" /\ ~split => Sound(View) /\ FilesIn(View) = files

=============================================================================

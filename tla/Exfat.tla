------------------------------- MODULE Exfat -------------------------------
(***************************************************************************)
(* The exFAT driver, src/kernel/exfat.c.  Every operation marks the volume *)
(* dirty in both boot sectors, changes the allocation bitmap, the FAT and  *)
(* directories sector by sector, and clears the mark.  What a sector of    *)
(* these held before is kept in memory; when a step fails it is written    *)
(* back, the last first.  New clusters are written without that.  In the   *)
(* end the volume is mounted a second time to look at the result.          *)
(*                                                                         *)
(* The bitmap, the FAT and every cluster have one sector.  Lengths count   *)
(* clusters.  A name takes one or more entries of a directory, the parts   *)
(* of its set, which a checksum binds together.  The disk may have a write *)
(* cache: until the next flush a sector may still hold what it held.       *)
(***************************************************************************)
EXTENDS Naturals, Sequences, FiniteSets, SequencesExt

CONSTANTS
    UpCase,          \* UpCase[n]: the name n in upper case
    SetSize,         \* SetSize[n]: entries of the set of an entry named n
    ExfatPaths,      \* paths of the calls, sequences of names
    ExfatSizes,      \* sizes of files, in clusters
    PerCluster,      \* directory entries in a cluster
    LastHeap,        \* the last cluster of the volume; the first is 2
    SystemHeap,      \* clusters of the bitmap and of the up-case table
    Formats,         \* the volumes to begin with
    JournalRoom,     \* EXFAT_MAX_TRANSACTION_SECTORS
    MaxExfatFailures,  \* bound on the failing steps
    MaxExfatOperations \* bound on the calls

ASSUME ExfatAssumption ==
    /\ DOMAIN SetSize = DOMAIN UpCase
    /\ \A n \in DOMAIN SetSize : SetSize[n] \in Nat \ {0}
    /\ \A p \in ExfatPaths : \A i \in DOMAIN p : p[i] \in DOMAIN UpCase
    /\ ExfatSizes \subseteq Nat /\ PerCluster \in Nat \ {0}
    /\ LastHeap \in Nat /\ SystemHeap \subseteq 3 .. LastHeap
    /\ JournalRoom \in Nat /\ MaxExfatFailures \in Nat /\ MaxExfatOperations \in Nat

VARIABLES
    x_disk,        \* the sectors, as they are read
    x_older,       \* what some of them may still be on the medium
    x_cache,       \* the disk has a write cache
    x_op,          \* the operation in progress, with the journal
    x_tree,        \* what the paths lead to, by the finished operations
    x_failures,    \* failing steps so far
    x_operations,  \* calls so far
    x_flaws        \* events after which the volume is not sound any more

exfatVars == <<x_disk, x_older, x_cache, x_op, x_tree, x_failures, x_operations, x_flaws>>

-----------------------------------------------------------------------------
(* The volume                                                              *)

HeapClusters == 2 .. LastHeap
ExfatRoot == 2

MainBoot == <<"boot", 0>>
BackupBoot == <<"boot", 12>>
FatSector == <<"fat", 0>>
BitmapSector == <<"bitmap", 0>>
HeapSector(c) == <<"heap", c>>

FatFree == 0
FatEnd == 1

EmptySlot == [k |-> "empty"]       \* type 0: nothing follows
RetiredSlot == [k |-> "retired"]   \* a type without its in-use bit
SystemSlot == [k |-> "system"]     \* the entries of the bitmap and the up-case table

EmptyCluster == [i \in 1 .. PerCluster |-> EmptySlot]

(* A part of a file's data, of the call with number tag.                   *)
Chunk(tag, part) == << [k |-> "data", tag |-> tag, part |-> part] >>
ZeroChunk == << [k |-> "zero"] >>

(* The parts of an entry set: what build_entry_set puts together.          *)
EntrySet(name, directory, first, size, valid, no_fat_chain) ==
    [i \in 1 .. SetSize[name] |->
        [k |-> "set", part |-> i, name |-> name, directory |-> directory, first |-> first,
         size |-> size, valid |-> valid, no_fat_chain |-> no_fat_chain]]

RootNode == [found |-> TRUE, directory |-> TRUE, first |-> ExfatRoot, size |-> 0,
             no_fat_chain |-> FALSE, count |-> 0]
NoNode == [found |-> FALSE, directory |-> FALSE]

(* stream_cluster, read_fat, collect_clusters: the clusters of a stream;   *)
(* one without a length, the root, is as long as its chain.                *)
FatChain(view, first) ==
    LET at[n \in 1 .. LastHeap] ==
            IF n = 1 THEN first
            ELSE IF at[n - 1] \in HeapClusters THEN view[FatSector][at[n - 1]] ELSE FatFree
    IN  SelectSeq(at, LAMBDA c : c \in HeapClusters)

StreamClusters(view, node) ==
    IF node.no_fat_chain THEN [i \in 1 .. node.size |-> node.first + i - 1]
    ELSE LET chain == FatChain(view, node.first) IN
         IF node.size = 0 THEN chain ELSE SubSeq(chain, 1, Min({node.size, Len(chain)}))

DirectorySlots(view, directory) ==
    LET clusters == StreamClusters(view, directory) IN
    FlattenSeq([i \in DOMAIN clusters |-> view[HeapSector(clusters[i])]])

(* visit_directory: the sets before the first empty entry whose parts      *)
(* belong together, and the nodes they stand for.                          *)
StartsSet(slots, i) ==
    /\ slots[i].k = "set" /\ slots[i].part = 1
    /\ i + SetSize[slots[i].name] - 1 <= Len(slots)
    /\ \A j \in 1 .. SetSize[slots[i].name] - 1 :
          slots[i + j] = [slots[i] EXCEPT !.part = j + 1]
    /\ \A m \in 1 .. i : slots[m] # EmptySlot

NodeAt(directory, slots, i) ==
    [found |-> TRUE, name |-> slots[i].name, directory |-> slots[i].directory,
     first |-> slots[i].first, size |-> slots[i].size, valid |-> slots[i].valid,
     no_fat_chain |-> slots[i].no_fat_chain, at |-> i, count |-> SetSize[slots[i].name],
     parent |-> [first |-> directory.first, size |-> directory.size,
                 no_fat_chain |-> directory.no_fat_chain]]

NodesIn(view, directory) ==
    LET slots == DirectorySlots(view, directory) IN
    {NodeAt(directory, slots, i) : i \in {j \in DOMAIN slots : StartsSet(slots, j)}}

(* find_visitor, names_equal: the first that has the name, in any case     *)
FindNode(view, directory, name) ==
    LET hits == {n \in NodesIn(view, directory) : UpCase[n.name] = UpCase[name]} IN
    IF hits = {} THEN NoNode
    ELSE CHOOSE n \in hits : \A m \in hits : n.at <= m.at

(* resolve_path                                                            *)
ExfatResolve(view, path) ==
    LET at[n \in 0 .. Len(path)] ==
            IF n = 0 THEN RootNode
            ELSE IF at[n - 1].directory THEN FindNode(view, at[n - 1], path[n])
            ELSE NoNode
    IN  at[Len(path)]

(* exfat_context_read_file: what was never written reads as zeros.         *)
ReadNode(view, node) ==
    CASE ~node.found -> [k |-> "nothing"]
      [] node.directory -> [k |-> "directory"]
      [] OTHER ->
           LET clusters == StreamClusters(view, node) IN
           [k |-> "file",
            chunks |-> [i \in 1 .. node.size |->
                           IF i <= node.valid THEN view[HeapSector(clusters[i])]
                           ELSE ZeroChunk]]

UpCasePath(path) == [i \in DOMAIN path |-> UpCase[path[i]]]
KnownPaths == {UpCasePath(p) : p \in ExfatPaths}

TreeOf(view) == [p \in KnownPaths |-> ReadNode(view, ExfatResolve(view, p))]

(* exfat_probe, exfat_context_create, load_upcase: the root directory must *)
(* name the bitmap and the table.  The dirty mark is not looked at.        *)
Mountable(view) ==
    LET slots == DirectorySlots(view, RootNode) IN
    \E i \in DOMAIN slots : slots[i] = SystemSlot /\ \A m \in 1 .. i : slots[m] # EmptySlot

-----------------------------------------------------------------------------
(* Soundness of a volume                                                   *)

(* The nodes that can be reached, as deep as the paths go.                 *)
Reachable(view) ==
    LET below[n \in Nat] ==
            IF n = 0 THEN {RootNode}
            ELSE UNION {NodesIn(view, d) : d \in {m \in below[n - 1] : m.directory}}
    IN  UNION {below[n] : n \in 0 .. 3}

StreamWhole(view, node) ==
    LET clusters == StreamClusters(view, node) IN
    /\ node # RootNode => Len(clusters) = node.size
    /\ ToSet(clusters) \subseteq HeapClusters
    /\ ~node.no_fat_chain /\ clusters # << >> => view[FatSector][Last(clusters)] = FatEnd

(* What is marked in the bitmap is in one stream each, and nothing else.   *)
HeapAccounted(view) ==
    LET nodes == Reachable(view)
        owned == [n \in nodes |-> ToSet(StreamClusters(view, n))]
    IN /\ \A n \in nodes : StreamWhole(view, n) /\ owned[n] \intersect SystemHeap = {}
       /\ \A n, m \in nodes : n # m => owned[n] \intersect owned[m] = {}
       /\ view[BitmapSector] = SystemHeap \union UNION {owned[n] : n \in nodes}

(* What list_visitor lists is what a lookup finds.                         *)
ListedIsFound(view) ==
    \A d \in {n \in Reachable(view) : n.directory} :
       \A n \in NodesIn(view, d) : FindNode(view, d, n.name) = n

ExfatVolumeSound(view) ==
    /\ Mountable(view) /\ HeapAccounted(view) /\ ListedIsFound(view)
    /\ view[MainBoot].percent = Cardinality(view[BitmapSector])

-----------------------------------------------------------------------------
(* Steps                                                                   *)

PutSector(sector, value) == [do |-> "write", sector |-> sector, value |-> value]  \* write_sector
PutNew(sector, value) == [do |-> "new", sector |-> sector, value |-> value] \* no journal
Barrier == [do |-> "flush"]
Look == [do |-> "read"]
GiveUp == [do |-> "give up"]

(* Faulty variant: without the barrier.                                    *)
BeginTransactionUnflushed(view) ==
    << PutSector(MainBoot, [view[MainBoot] EXCEPT !.dirty = TRUE]),
       PutSector(BackupBoot, [view[BackupBoot] EXCEPT !.dirty = TRUE]) >>

(* transaction_begin, set_volume_dirty                                     *)
BeginTransaction(view) ==
    << PutSector(MainBoot, [view[MainBoot] EXCEPT !.dirty = TRUE]),
       PutSector(BackupBoot, [view[BackupBoot] EXCEPT !.dirty = TRUE]), Barrier >>

(* transaction_commit, update_percent_in_use                               *)
CommitTransaction(view) ==
    LET percent == Cardinality(view[BitmapSector]) IN
    << Barrier,
       PutSector(MainBoot, [dirty |-> TRUE, percent |-> percent]),
       PutSector(BackupBoot, [dirty |-> TRUE, percent |-> percent]),
       PutSector(MainBoot, [dirty |-> FALSE, percent |-> percent]),
       PutSector(BackupBoot, [dirty |-> FALSE, percent |-> percent]), Barrier, Barrier >>

(* The FAT when the first n clusters of a chain have been linked.          *)
LinkedTo(fat, chain, n) ==
    [c \in HeapClusters |->
        IF \E i \in 1 .. n : chain[i] = c
        THEN LET i == CHOOSE j \in 1 .. n : chain[j] = c IN
             IF i = Len(chain) THEN FatEnd ELSE chain[i + 1]
        ELSE fat[c]]

(* allocate_clusters takes the lowest that are free.                       *)
FreeOf(used) == SelectSeq([i \in 1 .. LastHeap - 1 |-> i + 1], LAMBDA c : c \notin used)

FreeHeap(view, count) ==
    LET free == FreeOf(view[BitmapSector]) IN
    IF Len(free) < count THEN << >> ELSE SubSeq(free, 1, count)

AllocateHeap(view, clusters) ==
    FlattenSeq([i \in DOMAIN clusters |->
        << PutSector(BitmapSector, view[BitmapSector] \union ToSet(SubSeq(clusters, 1, i))),
           PutSector(FatSector, LinkedTo(view[FatSector], clusters, i)) >>])

(* free_clusters                                                           *)
FreeClusters(view, clusters) ==
    FlattenSeq([i \in DOMAIN clusters |->
        << PutSector(BitmapSector, view[BitmapSector] \ ToSet(SubSeq(clusters, 1, i))),
           PutSector(FatSector, [c \in HeapClusters |->
                              IF c \in ToSet(SubSeq(clusters, 1, i)) THEN FatFree
                              ELSE view[FatSector][c]]) >>])

(* write_new_clusters                                                      *)
WriteNew(clusters, contents) ==
    [i \in DOMAIN clusters |-> PutNew(HeapSector(clusters[i]), contents[i])] \o << Barrier >>

(* write_directory_bytes, write_stream_metadata: one write for each        *)
(* cluster that holds some of the entries                                  *)
WriteSlots(view, directory, start, new) ==
    LET clusters == StreamClusters(view, directory)
        last == start + Len(new) - 1
        from == (start - 1) \div PerCluster
        upto == (last - 1) \div PerCluster
        slot(i, old) == IF i \in start .. last THEN new[i - start + 1] ELSE old
    IN IF last > Len(clusters) * PerCluster THEN << GiveUp >>
       ELSE [k \in 1 .. upto - from + 1 |->
                LET sector == HeapSector(clusters[from + k]) IN
                PutSector(sector, [j \in 1 .. PerCluster |->
                                slot((from + k - 1) * PerCluster + j, view[sector][j])])]

(* update_node_stream, read_node_set, write_node_set                       *)
UpdateNode(view, node, first, size) ==
    WriteSlots(view, node.parent, node.at,
               EntrySet(node.name, node.directory, first, size, size, FALSE))

(* retire_entry: the root directory has no entry.                          *)
RetireNode(view, node) ==
    IF ~node.found \/ node.count = 0 THEN << GiveUp >>
    ELSE WriteSlots(view, node.parent, node.at, [i \in 1 .. node.count |-> RetiredSlot])

(* extend_directory: the chain is written anew, for it may not have been   *)
(* in the FAT, and the length put into the entry, if there is one.         *)
ExtendDirectory(view, directory) ==
    LET old == StreamClusters(view, directory)
        new == FreeHeap(view, 1)
        fat == LinkedTo(view[FatSector], new, 1)
    IN IF new = << >> THEN << GiveUp >>
       ELSE AllocateHeap(view, new)
            \o << PutNew(HeapSector(new[1]), EmptyCluster) >>
            \o [i \in 1 .. Len(old) + 1 |-> PutSector(FatSector, LinkedTo(fat, old \o new, i))]
            \o (IF directory.count = 0 THEN << >>
                ELSE UpdateNode(view, directory, directory.first, Len(old) + 1))

Extended(view, directory) ==
    [directory EXCEPT !.no_fat_chain = FALSE,
                      !.size = Len(StreamClusters(view, directory)) + 1]

(* find_free_entries: one pass over the directory, with the run of free    *)
(* entries it begins with; the run at the end goes on when the directory   *)
(* has been extended and the next pass begins at its first entry.          *)
NoRun == [length |-> 0, start |-> 0]

FreeRun(view, directory, needed, run) ==
    LET slots == DirectorySlots(view, directory)
        after[i \in 0 .. Len(slots)] ==
            IF i = 0 THEN run
            ELSE IF after[i - 1].length = needed THEN after[i - 1]
            ELSE IF slots[i].k \notin {"empty", "retired"}
                 THEN [after[i - 1] EXCEPT !.length = 0]
            ELSE [length |-> after[i - 1].length + 1,
                  start |-> IF after[i - 1].length = 0 THEN i ELSE after[i - 1].start]
    IN  after[Len(slots)]

(* exfat_context_exists, exfat_context_is_directory and                    *)
(* exfat_context_file_size on a fresh mount: remount_verify                *)
RemountVerified(view, path, exists, directory, size) ==
    LET node == ExfatResolve(view, path) IN
    /\ Mountable(view)
    /\ node.found = exists
    /\ exists => node.directory = directory /\ (~directory => node.size = size)

-----------------------------------------------------------------------------
(* Operations                                                              *)

NoOperation == [kind |-> "none"]

ParentPath(path) == Front(path)   \* split_parent_path

Calls(kind, path, to, node, size, stages, after) ==
    /\ x_operations' = x_operations + 1
    /\ x_op' = [kind |-> kind, path |-> path, to |-> to, node |-> node,
                parent |-> IF kind \in {"file", "directory", "rename"}
                           THEN ExfatResolve(x_disk, ParentPath(to)) ELSE NoNode,
                clusters |-> << >>, size |-> size, run |-> NoRun, stages |-> stages,
                steps |-> << >>, kept |-> << >>, undoing |-> FALSE, late |-> FALSE,
                committed |-> FALSE, after |-> after]
    /\ UNCHANGED <<x_disk, x_older, x_cache, x_tree>>

FileOf(tag, size) == [k |-> "file", chunks |-> [i \in 1 .. size |-> Chunk(tag, i)]]
With(tree, path, value) == [p \in KnownPaths |-> IF p = UpCasePath(path) THEN value ELSE tree[p]]

PublishStages == << "find", "publish" >>

(* exfat_context_exists, when what it reads may not be readable: that is   *)
(* taken for a name that does not exist.                                   *)
SeemsFree(path, misread) ==
    /\ misread => x_failures < MaxExfatFailures /\ ExfatResolve(x_disk, path).found
    /\ misread \/ ~ExfatResolve(x_disk, path).found
    /\ x_failures' = IF misread THEN x_failures + 1 ELSE x_failures

MayPublish(path) ==
    path # << >> /\ ExfatResolve(x_disk, ParentPath(path)).directory

(* exfat_context_write_file for a new file, exfat_context_create_directory *)
(* : create_entry                                                          *)
ExfatCreate(path, directory, size, misread) ==
    /\ SeemsFree(path, misread) /\ MayPublish(path)
    /\ x_flaws' = IF misread THEN {"doubled"} ELSE {}
    /\ Calls(IF directory THEN "directory" ELSE "file", path, path, NoNode,
             IF directory THEN 1 ELSE size,
             << "begin" >>
                \o (IF directory \/ size # 0 THEN << "allocate", "contents" >> ELSE << >>)
                \o PublishStages \o << "commit", "verify" >>,
             With(x_tree, path, IF directory THEN [k |-> "directory"]
                                ELSE FileOf(x_operations + 1, size)))

(* collect_clusters asks for no memory when there are no clusters, and     *)
(* kmalloc(0) fails.                                                       *)
Collects(node) ==
    LET count == Len(StreamClusters(x_disk, node)) IN
    count # 0 /\ node.size \in {0, count}

(* exfat_context_write_file for a file that exists                         *)
Overwrite(path, size) ==
    \E node \in {ExfatResolve(x_disk, path)} :
       /\ node.found /\ ~node.directory /\ Collects(node)
       /\ Calls("overwrite", path, path, node, size,
                << "begin" >> \o (IF size # 0 THEN << "allocate", "contents" >> ELSE << >>)
                   \o << "update", "free", "commit", "verify" >>,
                With(x_tree, path, FileOf(x_operations + 1, size)))
       /\ UNCHANGED <<x_failures, x_flaws>>

(* delete_entry, directory_empty                                           *)
ExfatDelete(path) ==
    \E node \in {ExfatResolve(x_disk, path)} :
       /\ node.found /\ Collects(node)
       /\ node.directory => NodesIn(x_disk, node) = {}
       /\ Calls("delete", path, path, node, 0,
                << "begin", "retire", "free", "commit", "verify gone" >>,
                With(x_tree, path, [k |-> "nothing"]))
       /\ UNCHANGED <<x_failures, x_flaws>>

(* path_is_descendant compares the texts of the paths.                     *)
PathIsDescendant(parent, candidate) ==
    parent # << >> /\ IsStrictPrefix(parent, candidate)

(* What the paths lead to when everything below one moves to another.      *)
Moved(tree, from, to) ==
    LET f == UpCasePath(from)  t == UpCasePath(to)
        source(p) == f \o SubSeq(p, Len(t) + 1, Len(p))
    IN [p \in KnownPaths |->
           IF IsPrefix(t, p)
           THEN IF source(p) \in KnownPaths THEN tree[source(p)] ELSE [k |-> "nothing"]
           ELSE IF IsPrefix(f, p) THEN [k |-> "nothing"]
           ELSE tree[p]]

(* exfat_context_rename.  A directory moves into itself when the second    *)
(* path spells its name in another case.                                   *)
ExfatRename(path, to, misread) ==
    \E node \in {ExfatResolve(x_disk, path)} :
       /\ node.found
       /\ SeemsFree(to, misread) /\ MayPublish(to)
       /\ node.directory => ~PathIsDescendant(path, to)
       /\ x_flaws' = IF misread THEN {"doubled"}
                     ELSE IF node.directory /\ path # << >>
                             /\ IsStrictPrefix(UpCasePath(path), UpCasePath(to))
                          THEN {"looped"} ELSE {}
       /\ Calls("rename", path, to, node, node.size,
                << "begin" >> \o PublishStages
                   \o << "retire", "commit", "verify gone", "verify" >>,
                Moved(x_tree, path, to))

(* exfat_context_sync                                                      *)
SyncExfat ==
    /\ x_op = NoOperation
    /\ x_older' = [s \in DOMAIN x_disk |-> {}]
    /\ UNCHANGED <<x_disk, x_cache, x_op, x_tree, x_failures, x_operations, x_flaws>>

-----------------------------------------------------------------------------
(* Stages                                                                  *)

NewSet ==
    IF x_op.kind = "rename"
    THEN EntrySet(Last(x_op.to), x_op.node.directory, x_op.node.first, x_op.node.size,
                  IF x_op.node.directory THEN x_op.node.size ELSE x_op.node.valid,
                  x_op.node.no_fat_chain)
    ELSE EntrySet(Last(x_op.to), x_op.kind = "directory",
                  IF x_op.clusters = << >> THEN 0 ELSE x_op.clusters[1],
                  x_op.size, x_op.size, FALSE)

NewContents ==
    [i \in DOMAIN x_op.clusters |->
        IF x_op.kind = "directory" THEN EmptyCluster ELSE Chunk(x_operations, i)]

IsDirectoryOp == x_op.kind = "directory" \/ (x_op.kind = "rename" /\ x_op.node.directory)

FoundRun == FreeRun(x_disk, x_op.parent, SetSize[Last(x_op.to)], x_op.run)
RunFound == FoundRun.length = SetSize[Last(x_op.to)]

Verifying(view, path, exists) ==
    IF RemountVerified(view, path, exists, IsDirectoryOp, x_op.size)
    THEN << Look >> ELSE << GiveUp >>

StageSteps(stage, view) ==
    CASE stage = "begin" -> BeginTransaction(view)
      [] stage = "allocate" ->
            IF FreeHeap(view, x_op.size) = << >> THEN << GiveUp >>
            ELSE AllocateHeap(view, FreeHeap(view, x_op.size))
      [] stage = "contents" -> WriteNew(x_op.clusters, NewContents)
      [] stage = "find" -> IF RunFound THEN << Look >> ELSE ExtendDirectory(view, x_op.parent)
      [] stage = "publish" -> WriteSlots(view, x_op.parent, x_op.run.start, NewSet)
      [] stage = "update" ->
            UpdateNode(view, x_op.node,
                       IF x_op.clusters = << >> THEN 0 ELSE x_op.clusters[1], x_op.size)
      [] stage = "free" -> FreeClusters(view, StreamClusters(view, x_op.node))
      [] stage = "retire" -> RetireNode(view, ExfatResolve(view, x_op.path))
      [] stage = "commit" -> CommitTransaction(view)
      [] stage = "verify" -> Verifying(view, x_op.to, TRUE)
      [] stage = "verify gone" -> Verifying(view, x_op.path, FALSE)

(* The next stage.  The clusters and the place of the set are found with   *)
(* it; the search goes on when the directory has been extended.            *)
NextStage ==
    /\ x_op # NoOperation /\ x_op.steps = << >> /\ x_op.stages # << >> /\ ~x_op.undoing
    /\ \E stage \in {Head(x_op.stages)} :
          x_op' = [x_op EXCEPT
                     !.stages = IF stage = "find" /\ ~RunFound THEN @ ELSE Tail(@),
                     !.steps = StageSteps(stage, x_disk),
                     !.clusters = IF stage = "allocate" THEN FreeHeap(x_disk, x_op.size) ELSE @,
                     !.run = IF stage = "find" THEN FoundRun ELSE @,
                     !.parent = IF stage = "find" /\ ~RunFound THEN Extended(x_disk, @) ELSE @,
                     !.committed = stage \in {"verify", "verify gone"}]
    /\ UNCHANGED <<x_disk, x_older, x_cache, x_tree, x_failures, x_operations, x_flaws>>

WriteTo(sector, value) ==
    /\ x_disk' = [x_disk EXCEPT ![sector] = value]
    /\ x_older' = IF x_cache THEN [x_older EXCEPT ![sector] = @ \union {x_disk[sector]}]
                  ELSE x_older

FlushDisk == x_older' = [s \in DOMAIN x_disk |-> {}] /\ UNCHANGED x_disk

(* journal_sector: the first write of a sector keeps it, while there is    *)
(* room.                                                                   *)
Journaled(sector) == \E i \in DOMAIN x_op.kept : x_op.kept[i].sector = sector

HasRoom(step) ==
    step.do = "write" /\ ~x_op.undoing
       => Journaled(step.sector) \/ Len(x_op.kept) < JournalRoom

(* Faulty variant: a sector written again is kept again, over what it held *)
(* first.                                                                  *)
KeptWithLatest(step) ==
    IF step.do # "write" \/ x_op.undoing THEN x_op.kept
    ELSE Append(SelectSeq(x_op.kept, LAMBDA k : k.sector # step.sector),
                [sector |-> step.sector, value |-> x_disk[step.sector]])

KeptWith(step) ==
    IF step.do # "write" \/ x_op.undoing \/ Journaled(step.sector) THEN x_op.kept
    ELSE Append(x_op.kept, [sector |-> step.sector, value |-> x_disk[step.sector]])

(* write_sector, block_device_write, block_device_flush and reading, when  *)
(* all is well                                                             *)
ExfatStep ==
    /\ x_op # NoOperation /\ x_op.steps # << >>
    /\ \E step \in {Head(x_op.steps)} :
          /\ step.do # "give up" /\ HasRoom(step)
          /\ CASE step.do \in {"write", "new"} -> WriteTo(step.sector, step.value)
               [] step.do = "flush" -> FlushDisk
               [] step.do = "read" -> UNCHANGED <<x_disk, x_older>>
          /\ x_op' = [x_op EXCEPT !.steps = Tail(@), !.kept = KeptWith(step)]
    /\ UNCHANGED <<x_cache, x_tree, x_failures, x_operations, x_flaws>>

(* transaction_rollback                                                    *)
Rollback(kept) ==
    [i \in DOMAIN kept |-> PutSector(kept[Len(kept) + 1 - i].sector, kept[Len(kept) + 1 - i].value)]
       \o << Barrier >>

(* A step fails, or the operation gives up: what was kept is put back, but *)
(* a change that has been committed stays, and is reported as a failure.   *)
(* A write that fails may have been done.                                  *)
ExfatStepFails ==
    /\ x_op # NoOperation /\ x_op.steps # << >> /\ ~x_op.undoing
    /\ \E step \in {Head(x_op.steps)} :
          LET refused == step.do = "give up" \/ ~HasRoom(step) IN
          /\ refused \/ x_failures < MaxExfatFailures
          /\ x_failures' = IF refused THEN x_failures ELSE x_failures + 1
          /\ \/ UNCHANGED <<x_disk, x_older>>
             \/ ~refused /\ step.do \in {"write", "new"} /\ WriteTo(step.sector, step.value)
          /\ \E kept \in {IF refused THEN x_op.kept ELSE KeptWith(step)} :
                x_op' = [x_op EXCEPT !.kept = kept, !.stages = << >>,
                                     !.steps = IF x_op.committed THEN << >> ELSE Rollback(kept),
                                     !.undoing = ~x_op.committed,
                                     !.late = ~x_disk'[MainBoot].dirty /\ Len(kept) > 2]
    /\ UNCHANGED <<x_cache, x_tree, x_operations, x_flaws>>

(* A step of the rollback fails: the others are done, and nobody is told.  *)
RollbackStepFails ==
    /\ x_op # NoOperation /\ x_op.steps # << >> /\ x_op.undoing
    /\ x_failures < MaxExfatFailures
    /\ \E step \in {Head(x_op.steps)} :
          x_flaws' = IF (IF step.do = "write" THEN x_disk[step.sector] # step.value
                         ELSE \E s \in DOMAIN x_older : x_older[s] # {})
                     THEN x_flaws \union {"split"} ELSE x_flaws
    /\ x_op' = [x_op EXCEPT !.steps = Tail(@)]
    /\ x_failures' = x_failures + 1
    /\ UNCHANGED <<x_disk, x_older, x_cache, x_tree, x_operations>>

(* transaction_release and the result of the operation                     *)
ExfatReturns ==
    /\ x_op # NoOperation /\ x_op.steps = << >> /\ x_op.stages = << >>
    /\ x_op' = NoOperation
    /\ x_tree' = IF x_op.undoing THEN x_tree ELSE x_op.after
    /\ UNCHANGED <<x_disk, x_older, x_cache, x_failures, x_operations, x_flaws>>

(* What may be on the medium when the machine stops.                       *)
Media ==
    LET unsure == {s \in DOMAIN x_disk : x_older[s] # {}}
        choices == [unsure -> UNION {{s} \X (x_older[s] \union {x_disk[s]}) : s \in unsure}]
    IN {[s \in DOMAIN x_disk |-> IF s \in unsure THEN choice[s][2] ELSE x_disk[s]] :
           choice \in {f \in choices : \A s \in unsure : f[s][1] = s}}

CleanMedia ==
    IF \E boot \in x_older[MainBoot] \union {x_disk[MainBoot]} : ~boot.dirty
    THEN {m \in Media : ~m[MainBoot].dirty} ELSE {}

(* A rollback writes the clean mark of before without a barrier, and after *)
(* a failure at the end of the commit the mark is clean to begin with.     *)
RollbackExposed == x_op # NoOperation /\ x_op.undoing /\ (x_cache \/ x_op.late)

(* The machine stops, and the volume is mounted again: clean, or with the  *)
(* mark still set, which nobody looks at.  Crashes of a volume that is     *)
(* damaged already are left out.                                           *)
ExfatCrash ==
    /\ x_op # NoOperation /\ x_flaws = {}
    /\ \/ /\ ~RollbackExposed
          /\ x_disk' \in CleanMedia
          /\ x_tree' = TreeOf(x_disk')
          /\ UNCHANGED x_flaws
       \/ /\ RollbackExposed \/ x_disk[MainBoot].dirty
          /\ x_flaws' = x_flaws \union {"interrupted"}
          /\ UNCHANGED <<x_disk, x_tree>>
    /\ x_op' = NoOperation
    /\ x_older' = [s \in DOMAIN x_disk |-> {}]
    /\ UNCHANGED <<x_cache, x_failures, x_operations>>

(* An empty volume, and one that another system has put something on: a    *)
(* file written only in part, and a directory that is full but for its     *)
(* first and last entries, with an empty file; neither has its clusters in *)
(* the FAT.                                                                *)
SomeName(size) == CHOOSE n \in DOMAIN UpCase : SetSize[n] = size /\ UpCase[n] = n

EmptyVolume ==
    [used |-> {}, fat |-> << >>,
     slots |-> [c \in {ExfatRoot} |-> << SystemSlot, EmptySlot, EmptySlot >>]]

ForeignVolume ==
    LET free == FreeOf(SystemHeap \union {ExfatRoot})
        d == SomeName(1)  f == SomeName(2)
        file == EntrySet(f, FALSE, free[4], 2, 1, TRUE)
    IN [used |-> {free[i] : i \in 1 .. 5}, fat |-> << ExfatRoot, free[1] >>,
        slots |->
          [c \in {ExfatRoot, free[1], free[2], free[3]} |->
             CASE c = ExfatRoot ->
                    << SystemSlot, EntrySet(d, TRUE, free[2], 2, 2, TRUE)[1], file[1] >>
               [] c = free[1] -> << file[2], EmptySlot, EmptySlot >>
               [] c = free[2] ->
                    << RetiredSlot, EntrySet(d, FALSE, 0, 0, 0, FALSE)[1], SystemSlot >>
               [] c = free[3] -> << SystemSlot, SystemSlot, RetiredSlot >>]]

VolumeOf(v) ==
    LET used == SystemHeap \union {ExfatRoot} \union v.used
        boot == [dirty |-> FALSE, percent |-> Cardinality(used)]
        ends == [c \in HeapClusters |->
                    IF c \in SystemHeap \union {ExfatRoot} THEN FatEnd ELSE FatFree]
    IN [s \in {MainBoot, BackupBoot, FatSector, BitmapSector}
                \union {HeapSector(c) : c \in HeapClusters} |->
          CASE s \in {MainBoot, BackupBoot} -> boot
            [] s = FatSector -> LinkedTo(ends, v.fat, Len(v.fat))
            [] s = BitmapSector -> used
            [] s[1] = "heap" ->
                 IF s[2] \in DOMAIN v.slots THEN v.slots[s[2]] ELSE Chunk(0, s[2])]

ExfatInit ==
    /\ x_disk \in {VolumeOf(v) : v \in Formats}
    /\ x_older = [s \in DOMAIN x_disk |-> {}]
    /\ x_cache \in BOOLEAN
    /\ x_op = NoOperation
    /\ x_tree = TreeOf(x_disk)
    /\ x_failures = 0
    /\ x_operations = 0
    /\ x_flaws = {}

(* A call, when no other is in progress: the mount has a lock.             *)
ExfatCall ==
    /\ x_op = NoOperation /\ x_flaws = {} /\ x_operations < MaxExfatOperations
    /\ \E path \in ExfatPaths :
          \/ \E misread \in BOOLEAN :
                \/ ExfatCreate(path, TRUE, 0, misread)
                \/ \E to \in ExfatPaths : ExfatRename(path, to, misread)
          \/ \E size \in ExfatSizes : ExfatCreate(path, FALSE, size, FALSE)
          \/ \E size \in ExfatSizes : Overwrite(path, size)
          \/ ExfatDelete(path)

ExfatNext ==
    \/ ExfatCall \/ SyncExfat \/ NextStage \/ ExfatStep \/ ExfatStepFails \/ RollbackStepFails
    \/ ExfatReturns \/ ExfatCrash

ExfatSpec == ExfatInit /\ [][ExfatNext]_exfatVars

-----------------------------------------------------------------------------
(* If the machine stops and the medium does not carry the dirty mark, then *)
(* the bitmap, the chains and the directories on it agree, and its files   *)
(* are those before the operation in progress or those after it, whatever  *)
(* of the cache has been written (transaction_begin, transaction_commit).  *)
ExfatCrashSafe ==
    x_flaws = {} /\ ~RollbackExposed =>
        \A medium \in CleanMedia :
           /\ ExfatVolumeSound(medium)
           /\ TreeOf(medium) \in {x_tree}
                 \union (IF x_op = NoOperation THEN {} ELSE {x_op.after})

(* Between operations the volume holds what the committed operations left  *)
(* and nothing of those that failed (transaction_rollback), and the mount  *)
(* that verifies a committed operation finds it done.                      *)
ExfatAtomic ==
    x_flaws = {} =>
        IF x_op = NoOperation THEN ExfatVolumeSound(x_disk) /\ TreeOf(x_disk) = x_tree
        ELSE x_op.committed => x_op.steps # << GiveUp >>

(* No operation that all goes well with makes a directory unreachable: a   *)
(* directory is not moved into itself (path_is_descendant).                *)
DirectoriesStayReachable ==
    x_op = NoOperation /\ x_flaws \subseteq {"looped"} => HeapAccounted(x_disk)

=============================================================================

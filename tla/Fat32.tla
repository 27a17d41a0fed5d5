------------------------------- MODULE Fat32 -------------------------------
(***************************************************************************)
(* The FAT32 driver, src/kernel/fat32.c, called under the lock of its      *)
(* mount: one operation at a time, each a sequence of sector writes of     *)
(* which any may fail, and between any two of which the power may fail.    *)
(*                                                                         *)
(* What an operation writes is fixed when it starts, for the case that all *)
(* goes well: it is a list of writes (todo).  Every write carries what is  *)
(* to be cleaned up should it fail.  A failed write leaves the medium as   *)
(* it was, and the disk writes in the order it is told to.  A cluster has  *)
(* one sector; a name takes one entry, or two if it is long.  An entry     *)
(* that has lost its long part is found under no path any more (its alias  *)
(* is not in Paths) but is still there.                                    *)
(***************************************************************************)
EXTENDS Naturals, Sequences, FiniteSets, SequencesExt

CONSTANTS
    MaxCluster,      \* fat32_max_cluster: the clusters are 2 .. MaxCluster - 1
    PerCluster,      \* directory entries in a cluster
    RootNames,       \* the names of the calls in the root directory
    SubNames,        \* and those in a directory of it
    LongNames,       \* the names that need an entry for a long name
    Sizes,           \* sizes of files, in clusters
    MaxOperations,   \* bound on the calls
    MaxFailures      \* bound on the failing writes

ASSUME Fat32Assumption ==
    /\ MaxCluster \in Nat /\ MaxCluster > 2
    /\ PerCluster \in Nat /\ PerCluster >= 2
    /\ Sizes \subseteq Nat
    /\ MaxOperations \in Nat /\ MaxFailures \in Nat

(* The paths of the calls, which have one or two names                     *)
Paths == {<<n>> : n \in RootNames} \union {<<d, n>> : d \in RootNames, n \in SubNames}

VARIABLES
    disk,        \* the volume: two copies of the FAT and of FSInfo, and for
                 \* each cluster c the entries, or the bytes, data[c][i]
    mem,         \* free_cluster_count, next_free_cluster and fsinfo_dirty
    op,          \* the operation in progress
    todo,        \* the writes it has still to make
    tree,        \* what the paths lead to, for the properties
    operations,  \* calls so far
    failures,    \* writes that have failed
    cut,         \* an operation was cut short by a crash
    flaws        \* the events after which the volume is not sound any more

vars == <<disk, mem, op, todo, tree, operations, failures, cut, flaws>>

Clusters == 2 .. MaxCluster - 1
Capacity == MaxCluster - 2
Root == 2

Free == 0
EndOfChain == 1
Unknown == Capacity + 1   \* FAT32_FSINFO_UNKNOWN

FreeEntry == [k |-> "free"]
Deleted == [k |-> "deleted"]
LongPart(name) == [k |-> "long", name |-> name]
Dot(first) == [k |-> "dot", first |-> first]
Entry(kind, name, first, size) ==
    [k |-> kind, name |-> name, first |-> first, size |-> size]
Zeroes == [i \in 1 .. PerCluster |-> FreeEntry]
Bytes(tag, part) == [i \in 1 .. PerCluster |-> [k |-> "bytes", tag |-> tag, part |-> part]]

-----------------------------------------------------------------------------
(* Chains and directories                                                  *)

(* The clusters of a chain, but not more than the volume has.              *)
ChainOf(d, first) ==
    LET at[n \in 1 .. Capacity] ==
            IF n = 1 THEN first
            ELSE IF at[n - 1] \in Clusters THEN d.fat[1][at[n - 1]] ELSE Free
    IN  SelectSeq(at, LAMBDA c : c \in Clusters)

ChainValid(d, first) ==
    first \in Clusters /\ d.fat[1][Last(ChainOf(d, first))] = EndOfChain

(* The entries in the clusters of a directory, each with its place.        *)
Slots(d, first) ==
    LET chain == ChainOf(d, first)
        at == [n \in 1 .. PerCluster * Len(chain) |->
                  << chain[1 + (n - 1) \div PerCluster], 1 + ((n - 1) % PerCluster) >>]
    IN  [n \in DOMAIN at |-> [at |-> at[n], entry |-> d.data[at[n][1]][at[n][2]]]]

IsNamed(entry) == entry.k \in {"file", "dir"}

(* fat32_find_named_entry, which stops at an entry that was never used:    *)
(* the entry, and its places, which are those of all the long parts before *)
(* it and its own.                                                         *)
Missing == [entry |-> FreeEntry, places |-> << >>]

Matches(slots, n, name) ==
    /\ IsNamed(slots[n].entry)
    /\ slots[n].entry.name = name
    /\ name \in LongNames => n > 1 /\ slots[n - 1].entry = LongPart(name)

FindIn(slots, name) ==
    LET hits == {n \in 1 .. Len(slots) :
                    Matches(slots, n, name) /\ \A m \in 1 .. n : slots[m].entry # FreeEntry}
        n == Min(hits)
        m == Min({k \in 1 .. n : \A i \in k .. n - 1 : slots[i].entry.k = "long"})
    IN  IF hits = {} THEN Missing
        ELSE [entry |-> slots[n].entry,
              places |-> [i \in 1 .. n - m + 1 |-> slots[m + i - 1].at]]

(* The first cluster of the directory that holds p; 0 if there is none.    *)
Parent(d, p) ==
    IF Len(p) = 1 THEN Root
    ELSE LET found == FindIn(Slots(d, Root), p[1]).entry
         IN  IF found.k = "dir" THEN found.first ELSE 0

Find(d, p) == FindIn(Slots(d, Parent(d, p)), Last(p))

Exists(d, p) == Find(d, p) # Missing

(* What a reader finds.                                                    *)
Seen(d, entry) ==
    CASE entry.k = "dir" -> [k |-> "dir"]
      [] entry.k = "file" ->
           LET chain == ChainOf(d, entry.first) IN
           [k |-> "file",
            contents |-> [n \in 1 .. Min({entry.size, Len(chain)}) |-> d.data[chain[n]]]]
      [] OTHER -> [k |-> "nothing"]

Tree(d) == [p \in Paths |-> Seen(d, Find(d, p).entry)]

-----------------------------------------------------------------------------
(* Lists of writes                                                         *)

(* note is what the driver records in memory when the write has succeeded. *)
FatWrite(copy, c, value, clean, note) ==
    [k |-> "fat", copy |-> copy, at |-> c, value |-> value, clean |-> clean, note |-> note]
DataWrite(c, value, clean, note) ==
    [k |-> "data", at |-> c, value |-> value, clean |-> clean, note |-> note]
EntryWrite(place, value, clean, note) ==
    [k |-> "entry", at |-> place, value |-> value, clean |-> clean, note |-> note]
InfoWrite(copy, note) ==
    [k |-> "info", copy |-> copy, clean |-> << >>, note |-> note]
NoSpace(clean) == [k |-> "full", clean |-> clean]

NoNote == [k |-> "none"]
Allocated(c) == [k |-> "allocated", at |-> c]
Released(first, count) == [k |-> "released", first |-> first, count |-> count]
Linked == [k |-> "linked"]
Synced == [k |-> "synced"]

(* What is to be done after a failure.                                     *)
Clear(c) == [k |-> "clear", at |-> c]
FreeChain(first) == [k |-> "free", at |-> first]
Delete(place) == [k |-> "delete", at |-> place]

(* Faulty variant: the second copy is forgotten.                           *)
SetClusterOnce(c, value, clean) == << FatWrite(1, c, value, clean, NoNote) >>

SetCluster(c, value, clean) ==
    << FatWrite(1, c, value, clean, NoNote), FatWrite(2, c, value, clean, NoNote) >>

(* fat32_free_chain                                                        *)
ReleaseWrites(chain, clean) ==
    [n \in 1 .. 2 * Len(chain) |->
        FatWrite(IF n % 2 = 1 THEN 1 ELSE 2, chain[(n + 1) \div 2], Free, clean,
                 IF n = 2 * Len(chain) THEN Released(chain[1], Len(chain)) ELSE NoNote)]

FreeWrites(d, first, clean) ==
    IF ChainValid(d, first) THEN ReleaseWrites(ChainOf(d, first), clean) ELSE << >>

DeleteWrites(places, clean) ==
    [n \in 1 .. Len(places) |-> EntryWrite(places[n], Deleted, clean, NoNote)]

(* Each task is given up at its first failing write; the next ones follow. *)
TaskWrites(d, task, rest) ==
    CASE task.k = "clear" -> SetCluster(task.at, Free, rest)
      [] task.k = "free" -> FreeWrites(d, task.at, rest)
      [] task.k = "delete" -> DeleteWrites(<< task.at >>, rest)

CleanUp(d, tasks) ==
    FlattenSeq([n \in 1 .. Len(tasks) |->
        TaskWrites(d, tasks[n], SubSeq(tasks, n + 1, Len(tasks)))])

(* fat32_allocate_cluster: the free clusters in the order it finds them.   *)
FreeInOrder ==
    SelectSeq([n \in 1 .. Capacity |-> 2 + ((mem.next - 2 + n - 1) % Capacity)],
              LAMBDA c : disk.fat[1][c] = Free)

AllocateWrites(c, clean) ==
    SetCluster(c, EndOfChain, clean)
        \o << DataWrite(c, Zeroes, << Clear(c) >> \o clean, Allocated(c)) >>

(* fat32_allocate_chain: each cluster after the first is linked to the one *)
(* before it.                                                              *)
ChainWrites(clusters) ==
    FlattenSeq([n \in 1 .. Len(clusters) |->
        IF n = 1 THEN AllocateWrites(clusters[1], << >>)
        ELSE AllocateWrites(clusters[n], << FreeChain(clusters[1]) >>)
             \o SetCluster(clusters[n - 1], clusters[n], << FreeChain(clusters[1]) >>)])

(* write_cluster_chain                                                     *)
BytesWrites(clusters, tag) ==
    [n \in 1 .. Len(clusters) |->
        DataWrite(clusters[n], Bytes(tag, n), << FreeChain(clusters[1]) >>, NoNote)]

(* fat32_reserve_entries: enough adjoining places that are not in use,     *)
(* reaching into a new cluster at the end of the directory if need be.     *)
NameLength(name) == IF name \in LongNames THEN 2 ELSE 1

Runs(slots, needed) ==
    {n \in 1 .. Len(slots) - needed + 1 :
        \A m \in n .. n + needed - 1 : slots[m].entry \in {FreeEntry, Deleted}}

NewSlots(c) == [i \in 1 .. PerCluster |-> [at |-> <<c, i>>, entry |-> FreeEntry]]

Reserved(slots, needed) ==
    LET n == Min(Runs(slots, needed)) IN [i \in 1 .. needed |-> slots[n + i - 1].at]

ExtendWrites(last, c, clean) ==
    AllocateWrites(c, clean)
        \o SetCluster(last, c, << FreeChain(c) >> \o clean)
        \o << DataWrite(c, Zeroes, clean, NoNote) >>

PlaceWrites(places, entry, clean) ==
    IF Len(places) = 1 THEN << EntryWrite(places[1], entry, clean, Linked) >>
    ELSE << EntryWrite(places[1], LongPart(entry.name), clean, NoNote),
            EntryWrite(places[2], entry, << Delete(places[1]) >> \o clean, Linked) >>

(* fat32_write_named_entry in the directory with these slots; clusters are *)
(* the free ones that are left by then.                                    *)
NameWrites(slots, entry, clusters, clean) ==
    LET needed == NameLength(entry.name) IN
    CASE Runs(slots, needed) # {} -> PlaceWrites(Reserved(slots, needed), entry, clean)
      [] Runs(slots, needed) = {} /\ clusters = << >> -> << NoSpace(clean) >>
      [] OTHER -> ExtendWrites(Last(slots).at[1], clusters[1], clean)
                     \o PlaceWrites(Reserved(slots \o NewSlots(clusters[1]), needed),
                                    entry, clean)

-----------------------------------------------------------------------------
(* The operations                                                          *)

Idle == [call |-> "none"]

(* The next call may come; what follows a flaw is not looked at.           *)
Ready == op = Idle /\ operations < MaxOperations /\ flaws = {}

Start(call, p, to, writes) ==
    /\ op' = [call |-> call, path |-> p, to |-> to, linked |-> FALSE, good |-> TRUE]
    /\ todo' = writes
    /\ operations' = operations + 1
    /\ flaws' = IF p # to /\ IsPrefix(p, to) THEN flaws \union {"below itself"} ELSE flaws
    /\ UNCHANGED <<disk, mem, tree, failures, cut>>

(* The chain of an entry that is to go: a file may have none.              *)
ChainUsable(entry) == entry.first # 0 => ChainValid(disk, entry.first)

(* fat32_allocate_chain refuses a size above the count of free clusters.   *)
Affordable(size) == size = 0 \/ mem.count = Unknown \/ size <= mem.count

(* Faulty variant: the old chain is freed first.                           *)
OverwriteWritesFreeFirst(found, entry, clean) ==
    FreeWrites(disk, found.entry.first, << >>)
        \o << EntryWrite(Last(found.places), entry, clean, Linked) >>

OverwriteWrites(found, entry, clean) ==
    << EntryWrite(Last(found.places), entry, clean, Linked) >>
        \o FreeWrites(disk, found.entry.first, << >>)

(* fat32_context_write_file: a new chain, then the entry, then the old     *)
(* chain is freed.  Every call writes contents of its own.                 *)
WriteFile(p, size) ==
    \E found \in {Find(disk, p)}, free \in {FreeInOrder} :
        LET clusters == SubSeq(free, 1, size)
            clean == IF size = 0 THEN << >> ELSE << FreeChain(clusters[1]) >>
            entry == Entry("file", Last(p), IF size = 0 THEN 0 ELSE clusters[1], size)
        IN  /\ Parent(disk, p) # 0
            /\ found # Missing => found.entry.k = "file" /\ ChainUsable(found.entry)
            /\ Affordable(size)
            /\ size <= Len(free)
            /\ Start("write", p, p,
                   ChainWrites(clusters) \o BytesWrites(clusters, operations + 1)
                   \o IF found = Missing
                      THEN NameWrites(Slots(disk, Parent(disk, p)), entry,
                                      SubSeq(free, size + 1, Len(free)), clean)
                      ELSE OverwriteWrites(found, entry, clean))

(* The count of free clusters is unknown, or wrong since a crash.          *)
WriteFileNoSpace(p, size) ==
    \E found \in {Find(disk, p)}, free \in {FreeInOrder} :
        /\ Parent(disk, p) # 0
        /\ found # Missing => found.entry.k = "file" /\ ChainUsable(found.entry)
        /\ Affordable(size)
        /\ size > Len(free)
        /\ Start("write", p, p,
               ChainWrites(free) \o << NoSpace(IF free = << >> THEN << >>
                                               ELSE << FreeChain(free[1]) >>) >>)

DirectoryEmpty(d, first) ==
    LET slots == Slots(d, first)
        n == SelectInSeq(slots, LAMBDA slot : slot.entry = FreeEntry \/ IsNamed(slot.entry))
    IN  IF n = 0 THEN TRUE ELSE slots[n].entry = FreeEntry

(* fat32_context_delete_file, fat32_context_delete_directory               *)
DeleteEntry(p) ==
    \E found \in {Find(disk, p)} :
        /\ found # Missing
        /\ IF found.entry.k = "file" THEN ChainUsable(found.entry)
           ELSE ChainValid(disk, found.entry.first) /\ DirectoryEmpty(disk, found.entry.first)
        /\ Start("delete", p, p, DeleteWrites(found.places, << >>)
                                   \o FreeWrites(disk, found.entry.first, << >>))

Dots(c, parent) == [Zeroes EXCEPT ![1] = Dot(c), ![2] = Dot(parent)]

CreateDirectory(p) ==
    \E parent \in {Parent(disk, p)}, free \in {FreeInOrder} :
        /\ parent # 0
        /\ ~Exists(disk, p)
        /\ Start("mkdir", p, p,
               IF free = << >> THEN << NoSpace(<< >>) >>
               ELSE AllocateWrites(free[1], << >>)
                    \o << DataWrite(free[1], Dots(free[1], parent),
                                    << FreeChain(free[1]) >>, NoNote) >>
                    \o NameWrites(Slots(disk, parent), Entry("dir", Last(p), free[1], 0),
                                  Tail(free), << FreeChain(free[1]) >>))

(* Faulty variant: the old name goes first.                                *)
RenameWritesUnlinkFirst(found, from, to, name) ==
    DeleteWrites(found.places, << >>)
        \o NameWrites(Slots(disk, to), [found.entry EXCEPT !.name = name], FreeInOrder, << >>)

(* The new name, the ".." of a directory that changes place, the old name. *)
RenameWrites(found, from, to, name) ==
    NameWrites(Slots(disk, to), [found.entry EXCEPT !.name = name], FreeInOrder, << >>)
        \o (IF found.entry.k = "dir" /\ from # to
            THEN << EntryWrite(<< found.entry.first, 2 >>, Dot(to), << >>, NoNote) >>
            ELSE << >>)
        \o DeleteWrites(found.places, << >>)

(* Nothing keeps a directory from being moved below itself, where it is    *)
(* lost.                                                                   *)
Rename(p, r) ==
    \E found \in {Find(disk, p)}, to \in {Parent(disk, r)} :
        /\ found # Missing
        /\ to # 0
        /\ ~Exists(disk, r)
        /\ Start("rename", p, r, RenameWrites(found, Parent(disk, p), to, Last(r)))

-----------------------------------------------------------------------------
(* The steps                                                               *)

(* What the driver records in memory.                                      *)
MemAfter(note) ==
    CASE note.k = "allocated" ->
           [count |-> IF mem.count \in {Unknown, 0} THEN mem.count ELSE mem.count - 1,
            next |-> IF note.at + 1 >= MaxCluster THEN 2 ELSE note.at + 1,
            dirty |-> TRUE]
      [] note.k = "released" ->
           [count |-> IF mem.count = Unknown THEN Unknown
                      ELSE IF note.count > Capacity - mem.count THEN Capacity
                      ELSE mem.count + note.count,
            next |-> IF note.first < mem.next THEN note.first ELSE mem.next,
            dirty |-> TRUE]
      [] note.k = "synced" -> [mem EXCEPT !.dirty = FALSE]
      [] OTHER -> mem

DiskAfter(write) ==
    CASE write.k = "fat" -> [disk EXCEPT !.fat[write.copy][write.at] = write.value]
      [] write.k = "data" -> [disk EXCEPT !.data[write.at] = write.value]
      [] write.k = "entry" -> [disk EXCEPT !.data[write.at[1]][write.at[2]] = write.value]
      [] write.k = "info" ->
           [disk EXCEPT !.fsinfo[write.copy] = [count |-> mem.count, next |-> mem.next]]

WriteSucceeds ==
    /\ todo # << >>
    /\ Head(todo).k # "full"
    /\ \E after \in {DiskAfter(Head(todo))} : disk' = after /\ tree' = Tree(after)
    /\ mem' = MemAfter(Head(todo).note)
    /\ op' = [op EXCEPT !.linked = @ \/ Head(todo).note = Linked]
    /\ todo' = Tail(todo)
    /\ UNCHANGED <<operations, failures, cut, flaws>>

(* The rename in progress has made the new entry and still has the old     *)
(* one; with the long part of the old name gone, only one name is left.    *)
TwoEntries ==
    /\ op # Idle /\ op.call = "rename" /\ op.linked
    /\ \E n \in 1 .. Len(todo) : todo[n].k = "entry" /\ todo[n].value = Deleted

TwoNames == TwoEntries /\ tree[op.path].k # "nothing"

(* A new cluster of a directory is freed again although the link to it is  *)
(* in the first copy of the FAT, the one that counts; and a rename that    *)
(* fails half way leaves two entries for one chain.                        *)
FlawsAfter(write) ==
    {flaw \in {"loose link", "two entries"} :
        IF flaw = "two entries" THEN TwoEntries
        ELSE /\ write.k = "fat" /\ write.copy = 2 /\ write.clean # << >>
             /\ write.clean[1] = FreeChain(write.value)}

WriteFails ==
    /\ todo # << >>
    /\ Head(todo).k # "full"
    /\ failures < MaxFailures
    /\ todo' = CleanUp(disk, Head(todo).clean)
    /\ op' = [op EXCEPT !.good = FALSE]
    /\ failures' = failures + 1
    /\ flaws' = flaws \union FlawsAfter(Head(todo))
    /\ UNCHANGED <<disk, mem, tree, operations, cut>>

FindNoSpace ==
    /\ todo # << >>
    /\ Head(todo).k = "full"
    /\ mem' = IF mem.count = Unknown THEN mem ELSE [mem EXCEPT !.count = 0, !.dirty = TRUE]
    /\ todo' = CleanUp(disk, Head(todo).clean)
    /\ op' = [op EXCEPT !.good = FALSE]
    /\ UNCHANGED <<disk, tree, operations, failures, cut, flaws>>

(* The operation is over; fat32_context_sync follows if it succeeded.      *)
Finish ==
    /\ op # Idle
    /\ todo = << >>
    /\ IF op.good /\ mem.dirty
       THEN todo' = << InfoWrite(1, NoNote), InfoWrite(2, Synced) >> /\ UNCHANGED op
       ELSE op' = Idle /\ UNCHANGED todo
    /\ UNCHANGED <<disk, mem, tree, operations, failures, cut, flaws>>

(* fat32_initialize_context                                                *)
Mounted(info) == [count |-> info.count, next |-> info.next, dirty |-> FALSE]

(* The power fails, and the volume is mounted again: the second copy of    *)
(* the FAT is made equal to the first.                                     *)
Crash ==
    /\ disk' = [disk EXCEPT !.fat[2] = disk.fat[1]]
    /\ mem' = Mounted(disk.fsinfo[1])
    /\ cut' = (cut \/ op # Idle)
    /\ flaws' = IF TwoEntries THEN flaws \union {"two entries"} ELSE flaws
    /\ op' = Idle
    /\ todo' = << >>
    /\ UNCHANGED <<tree, operations, failures>>

(* An empty volume; the count of free clusters may not be known.           *)
Init ==
    /\ \E count \in {Capacity - 1, Unknown} :
          /\ disk = [fat |-> [copy \in 1 .. 2 |->
                                 [c \in Clusters |-> IF c = Root THEN EndOfChain ELSE Free]],
                     data |-> [c \in Clusters |-> Zeroes],
                     fsinfo |-> [copy \in 1 .. 2 |-> [count |-> count, next |-> 3]]]
          /\ mem = Mounted([count |-> count, next |-> 3])
    /\ op = Idle
    /\ todo = << >>
    /\ tree = Tree(disk)
    /\ operations = 0
    /\ failures = 0
    /\ cut = FALSE
    /\ flaws = {}

Next ==
    \/ /\ Ready
       /\ \E p \in Paths :
             \/ \E size \in Sizes : WriteFile(p, size) \/ WriteFileNoSpace(p, size)
             \/ DeleteEntry(p)
             \/ CreateDirectory(p)
             \/ \E r \in Paths : Rename(p, r)
    \/ WriteSucceeds \/ WriteFails \/ FindNoSpace \/ Finish \/ Crash

Spec == Init /\ [][Next]_vars

-----------------------------------------------------------------------------
(* Properties.                                                             *)

(* The named entries of a directory, and of the whole tree, with their     *)
(* places.                                                                 *)
EntriesOf(first) == {slot \in Range(Slots(disk, first)) : IsNamed(slot.entry)}

SubdirectoriesOf(S) == {slot.entry.first : slot \in {s \in S : s.entry.k = "dir"}}

AllEntries ==
    LET top == EntriesOf(Root)
        below == UNION {EntriesOf(c) : c \in SubdirectoriesOf(top)}
    IN  top \union below \union UNION {EntriesOf(c) : c \in SubdirectoriesOf(below)}

(* The first clusters of everything that can be reached.                   *)
Heads(entries) == {Root} \union ({slot.entry.first : slot \in entries} \ {0})

(* At every moment, so also after a loss of power, every chain that a      *)
(* directory entry leads to ends properly, has the clusters of its file,   *)
(* and shares none with another, nor has it two entries except during a    *)
(* rename: freeing or writing one file never touches another.              *)
ChainsSound ==
    flaws = {} =>
        \E entries \in {AllEntries} :
            /\ \A h \in Heads(entries) : ChainValid(disk, h)
            /\ \A h, g \in Heads(entries) :
                  h # g => Range(ChainOf(disk, h)) \intersect Range(ChainOf(disk, g)) = {}
            /\ \A s, t \in entries :
                  s # t /\ s.entry.first = t.entry.first /\ s.entry.first # 0 => TwoEntries
            /\ \A s \in entries :
                  s.entry.k = "file" => Len(ChainOf(disk, s.entry.first)) = s.entry.size

FreeClusters == {c \in Clusters : disk.fat[1][c] = Free}

(* Between operations, while no write has failed, no crash has cut an      *)
(* operation short and no directory was moved below itself: both copies of *)
(* the FAT agree, every cluster in use belongs to a file or directory, and *)
(* the count of free clusters in memory and in FSInfo is exact.            *)
SpaceAccounted ==
    op = Idle /\ failures = 0 /\ ~cut /\ flaws = {} =>
        /\ disk.fat[1] = disk.fat[2]
        /\ FreeClusters = Clusters \ UNION {Range(ChainOf(disk, h)) : h \in Heads(AllEntries)}
        /\ \A count \in {mem.count, disk.fsinfo[1].count, disk.fsinfo[2].count} :
              count \in {Unknown, Cardinality(FreeClusters)}

Contents == {[n \in 1 .. size |-> Bytes(tag, n)] : size \in Sizes, tag \in 1 .. MaxOperations}

Store == INSTANCE FileStore
    WITH moving <- IF TwoNames THEN << op.path, op.to >> ELSE << >>

(* Every write to the disk either leaves the tree of files as it is or     *)
(* makes the whole change of the operation in progress: a loss of power    *)
(* leaves each file with its old or its new contents.                      *)
ImplementsFileStore == Store!Spec
=============================================================================

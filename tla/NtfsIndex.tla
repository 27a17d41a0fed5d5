----------------------------- MODULE NtfsIndex -----------------------------
(***************************************************************************)
(* The directory indexes of the NTFS driver, src/kernel/ntfs.c.  A small   *)
(* directory keeps its entries in its file record (INDEX_ROOT).  When they *)
(* no longer fit they move to an index record of their own                 *)
(* (INDEX_ALLOCATION); a full index record is split and the entry in the   *)
(* middle goes to the root, in front of the child it separates.  Removing  *)
(* an entry of a large directory builds the whole tree anew.  Paths are    *)
(* looked up in the root entries and in the active index records, one      *)
(* after the other.                                                        *)
(*                                                                         *)
(* An operation is one step: what fails is undone (module Ntfs).  Lengths  *)
(* are in units of eight bytes; the list of runs of the index records and  *)
(* their bitmap are counted with the fixed length AllocationLength.        *)
(***************************************************************************)
EXTENDS Integers, Sequences, FiniteSets, SequencesExt

CONSTANTS
    EntryNames,        \* names, in the order of $UpCase: numbers
    DirectoryNames,    \* those that directories are given
    EntryLength,       \* EntryLength[n]: length of the entry of n
    RootRoom,          \* room for the index in a file record
    LeafRoom,          \* room for entries in an index record
    AllocationLength,  \* length of the attributes of the index records
    MaxLeaves,         \* index records there are clusters for
    FreeRecords,       \* records for files and directories: numbers
    MaxChanges         \* bound on the operations

ASSUME IndexAssumption ==
    /\ EntryNames \subseteq Nat /\ DirectoryNames \subseteq EntryNames
    /\ EntryLength \in [EntryNames -> Nat \ {0}]
    /\ RootRoom \in Nat /\ LeafRoom \in Nat /\ AllocationLength \in Nat
    /\ MaxLeaves \in Nat /\ FreeRecords \subseteq Nat /\ MaxChanges \in Nat

VARIABLES
    nodes,        \* nodes[r]: what file record r says of itself, r in use
    directories,  \* directories[r]: the index of directory r
    changes,      \* operations so far
    damaged       \* an operation has gone wrong and reported success

indexVars == <<nodes, directories, changes, damaged>>

-----------------------------------------------------------------------------
(* The index of a directory                                                *)

RootDirectory == 5

(* large is the flag of the index header.  An entry of the root of a large *)
(* directory separates its child from the rest; last is the child of the   *)
(* end entry.  An index record is a list of entries, active says which are *)
(* marked in the bitmap, allocations counts the INDEX_ALLOCATION           *)
(* attributes the record has.                                              *)
EmptyIndex == [large |-> FALSE, root |-> << >>, last |-> 0, leaves |-> << >>,
               active |-> {}, allocations |-> 0]

Entry(name, r) == [name |-> name, record |-> r, child |-> 0]

Failed == [failed |-> TRUE]

LengthOf(entries) ==
    LET sum[i \in 0 .. Len(entries)] ==
            IF i = 0 THEN 0 ELSE sum[i - 1] + EntryLength[entries[i].name]
    IN sum[Len(entries)]

(* What ntfs_resize_resident_attribute compares: an entry with a child is  *)
(* one unit longer.                                                        *)
RootLength(index) ==
    LengthOf(index.root) + (IF index.large THEN Len(index.root) + 1 ELSE 0)
       + index.allocations * AllocationLength

Fits(index) == RootLength(index) <= RootRoom

(* The place of a name: in front of the first entry with a larger one      *)
Place(entries, name) ==
    1 + Cardinality({i \in DOMAIN entries :
                        \A j \in 1 .. i : entries[j].name <= name})

InsertSorted(entries, entry) == InsertAt(entries, Place(entries, entry.name), entry)

NamesIn(entries) == {entries[i].name : i \in DOMAIN entries}
HasRecord(entries, r) == \E i \in DOMAIN entries : entries[i].record = r
WithoutRecord(entries, r) == SelectSeq(entries, LAMBDA e : e.record # r)

(* list_index_root, list_index_allocation: all the entries of a directory  *)
ActiveLeaves(index) ==
    FlattenSeq([i \in DOMAIN index.leaves |->
                   IF i \in index.active THEN index.leaves[i] ELSE << >>])
Listed(index) == index.root \o ActiveLeaves(index)

(* find_in_index_header                                                    *)
FindIn(entries, name) ==
    LET found == {i \in DOMAIN entries : entries[i].name = name} IN
    IF found = {} THEN 0
    ELSE entries[CHOOSE i \in found : \A j \in found : i <= j].record

(* find_in_index: the root of the record that is loaded, and the index     *)
(* records of the base record it is given                                  *)
FindInIndex(loaded, base, name) ==
    LET found == FindIn(loaded.root, name) IN
    IF found # 0 THEN found ELSE FindIn(ActiveLeaves(base), name)

IsDirectory(r) == r \in DOMAIN nodes /\ nodes[r].directory

(* ntfs_resolve, with the records and the indexes it meets: the base       *)
(* record stays the root directory.                                        *)
ResolveIn(records, indexes, path) ==
    LET base == indexes[RootDirectory]
        first == FindInIndex(base, base, path[1])
    IN IF path = << >> THEN RootDirectory
       ELSE IF Len(path) = 1 \/ first = 0 THEN first
       ELSE IF ~records[first].directory THEN 0
       ELSE FindInIndex(indexes[first], base, path[2])

ResolvePath(path) == ResolveIn(nodes, directories, path)

(* A path of two names whose second name was looked up in the index        *)
(* records of the root directory, with an answer that is not that of the   *)
(* directory itself.                                                       *)
Misled(path) ==
    LET first == ResolvePath(<< path[1] >>) IN
    Len(path) = 2 /\ IsDirectory(first) /\
        ResolvePath(path) # FindInIndex(directories[first], directories[first], path[2])

-----------------------------------------------------------------------------
(* Inserting                                                               *)

(* ntfs_convert_index_root_and_insert: the second time the new attributes  *)
(* come after the first ones, which stay those that are found.             *)
ConvertAndInsert(index, entry) ==
    LET leaf == InsertSorted(index.root, entry)
        converted ==
            IF index.allocations = 0
            THEN [large |-> TRUE, root |-> << >>, last |-> 1, leaves |-> << leaf >>,
                  active |-> {1}, allocations |-> 1]
            ELSE [index EXCEPT !.large = TRUE, !.root = << >>, !.last = 1,
                               !.allocations = @ + 1]
    IN IF LengthOf(leaf) <= LeafRoom /\ Fits(converted) THEN converted ELSE Failed

(* ntfs_root_select_child: 0 stands for the end entry.                     *)
SelectSeparator(index, name) ==
    LET larger == {i \in DOMAIN index.root : name < index.root[i].name} IN
    IF larger = {} THEN 0 ELSE CHOOSE i \in larger : \A j \in larger : i <= j

ChildAt(index, i) == IF i = 0 THEN index.last ELSE index.root[i].child

(* ntfs_grow_index_allocation                                              *)
Grow(index) ==
    [index EXCEPT !.leaves = Append(@, << >>), !.active = @ \union {Len(index.leaves) + 1}]

(* ntfs_root_insert_separator: the first entry that points to the old      *)
(* record now points to the new one, and the separator goes before it.     *)
InsertSeparator(index, median, old, new) ==
    LET at == {i \in DOMAIN index.root : index.root[i].child = old}
        separator == [median EXCEPT !.child = old]
        i == CHOOSE i \in at : \A j \in at : i <= j
    IN IF at # {}
       THEN [index EXCEPT !.root = InsertAt([index.root EXCEPT ![i].child = new], i, separator)]
       ELSE [index EXCEPT !.root = Append(index.root, separator), !.last = new]

(* The entries of a full record with the new one among them.  When it goes *)
(* to the end, the offset from which the others are moved up has not been  *)
(* set: shift entries at the end may have been moved over their            *)
(* successors.                                                             *)
MovedUp(entries, shift) ==
    [i \in DOMAIN entries |->
        IF i > Len(entries) - shift /\ i > 1 THEN entries[i - 1] ELSE entries[i]]

SplitInsertKeepingMedian(index, old, entry, shift) ==
    LET full == index.leaves[old]
        entries == InsertSorted(full, entry)
        median == Len(entries) \div 2 + 1
        new == Len(index.leaves) + 1
        grown == [Grow(index) EXCEPT !.leaves[old] = SubSeq(entries, 1, median - 1),
                                     !.leaves[new] = SubSeq(entries, median, Len(entries))]
    IN IF Len(index.leaves) < MaxLeaves
       THEN InsertSeparator(grown, entries[median], old, new) ELSE Failed

(* ntfs_index_allocation_split_insert                                      *)
SplitInsert(index, old, entry, shift) ==
    LET full == index.leaves[old]
        atEnd == Place(full, entry.name) = Len(full) + 1
        entries == InsertSorted(IF atEnd THEN MovedUp(full, shift) ELSE full, entry)
        median == Len(entries) \div 2 + 1
        new == Len(index.leaves) + 1
        left == SubSeq(entries, 1, median - 1)
        right == SubSeq(entries, median + 1, Len(entries))
        grown == [Grow(index) EXCEPT !.leaves[old] = left, !.leaves[new] = right]
        done == InsertSeparator(grown, entries[median], old, new)
    IN IF Len(index.leaves) < MaxLeaves /\ LengthOf(left) <= LeafRoom
             /\ LengthOf(right) <= LeafRoom /\ Fits(done)
       THEN done ELSE Failed

(* ntfs_index_allocation_insert: the record of the child is read whether   *)
(* or not the bitmap has it, if there is one.                              *)
AllocationInsert(index, entry, shift) ==
    LET child == ChildAt(index, SelectSeparator(index, entry.name)) IN
    IF child \notin DOMAIN index.leaves THEN Failed
    ELSE IF LengthOf(index.leaves[child]) + EntryLength[entry.name] > LeafRoom
         THEN SplitInsert(index, child, entry, shift)
    ELSE IF entry.name \in NamesIn(index.leaves[child]) THEN Failed
    ELSE [index EXCEPT !.leaves[child] = InsertSorted(@, entry)]

(* ntfs_index_root_insert                                                  *)
IndexInsert(index, entry, shift) ==
    LET inserted == [index EXCEPT !.root = InsertSorted(@, entry)] IN
    IF index.large THEN AllocationInsert(index, entry, shift)
    ELSE IF entry.name \in NamesIn(index.root) THEN Failed
    ELSE IF Fits(inserted) THEN inserted
    ELSE ConvertAndInsert(index, entry)

(* A split that puts the new entry at the end may move any number of the   *)
(* others.                                                                 *)
Shifts(index, entry) ==
    LET child == ChildAt(index, SelectSeparator(index, entry.name)) IN
    IF /\ index.large /\ child \in DOMAIN index.leaves
       /\ LengthOf(index.leaves[child]) + EntryLength[entry.name] > LeafRoom
       /\ \A e \in ToSet(index.leaves[child]) : e.name < entry.name
    THEN 0 .. Len(index.leaves[child]) - 1 ELSE {0}

-----------------------------------------------------------------------------
(* Removing                                                                *)

SortEntries(entries) == SortSeq(entries, LAMBDA a, b : a.name < b.name)

(* How many of the entries from start on go into an index record.          *)
LeafEnd(entries, start) ==
    CHOOSE end \in start - 1 .. Len(entries) :
        /\ LengthOf(SubSeq(entries, start, end)) <= LeafRoom
        /\ end = Len(entries) \/ LengthOf(SubSeq(entries, start, end + 1)) > LeafRoom

(* The pieces ntfs_index_rebuild_tree cuts the sorted entries into: pieces *)
(* but the last give their last entry to the root.                         *)
Pieces(entries) ==
    LET cut[start \in 1 .. Len(entries) + 1] ==
            IF start > Len(entries) THEN << >>
            ELSE LET end == LeafEnd(entries, start) IN
                 IF end < start \/ (end < Len(entries) /\ end = start)
                 THEN << << >> >>
                 ELSE << SubSeq(entries, start, end) >> \o cut[end + 1]
    IN cut[1]

(* An empty piece stands for entries that cannot be cut.                   *)
CanCut(pieces) == \A i \in DOMAIN pieces : pieces[i] # << >>

RebuiltLeaf(pieces, i) == IF i = Len(pieces) THEN pieces[i] ELSE Front(pieces[i])

PiecesWithout(index, r) == Pieces(SortEntries(WithoutRecord(Listed(index), r)))

(* The index with the first count pieces written, in front of the records  *)
(* there are                                                               *)
WriteLeaves(index, pieces, count) ==
    LET new == Len(index.leaves) + 1 .. Len(pieces)
    IN [index EXCEPT
          !.leaves = [i \in 1 .. Len(index.leaves) + Cardinality(new) |->
                         IF i <= count THEN RebuiltLeaf(pieces, i)
                         ELSE IF i \in new THEN << >> ELSE index.leaves[i]],
          !.active = @ \union new]

(* ntfs_index_rebuild_tree                                                 *)
CanRebuild(index, pieces) ==
    index.leaves # << >> /\ CanCut(pieces) /\ Len(pieces) <= MaxLeaves

Rebuilt(index, pieces) ==
    [WriteLeaves(index, pieces, Len(pieces)) EXCEPT
       !.large = pieces # << >>,
       !.root = [i \in 1 .. Len(pieces) - 1 |-> [Last(pieces[i]) EXCEPT !.child = i]],
       !.last = Len(pieces),
       !.active = 1 .. Len(pieces)]

(* ntfs_index_allocation_remove, in the records in use and in the others   *)
AllocationRemove(index, r) ==
    LET having == {i \in DOMAIN index.leaves : HasRecord(index.leaves[i], r)}
        i == CHOOSE i \in having : \A j \in having : i <= j
    IN IF having = {} THEN Failed
       ELSE [index EXCEPT !.leaves[i] = WithoutRecord(@, r)]

(* ntfs_index_root_remove.  A rebuild that fails - for want of room in the *)
(* root, or with the disk, at any point - is taken for one that was not    *)
(* needed: the entry is removed from the index record that has it, by then *)
(* one of a half rebuilt tree.  written counts the records rebuilt before. *)
Removal(index, written) == [index |-> index, written |-> written]

SmallRemovals(index, r) ==
    IF HasRecord(index.root, r)
    THEN {Removal([index EXCEPT !.root = WithoutRecord(@, r)], 0)} ELSE {}

LargeRemovals(index, r, pieces) ==
    {Removal(AllocationRemove(index, r), 0)}
    \union
    {Removal(AllocationRemove(WriteLeaves(index, pieces, k), r), k) :
        k \in IF CanRebuild(index, pieces) THEN DOMAIN pieces ELSE {}}
    \union
    {Removal(rebuilt, 0) :
        rebuilt \in {i \in IF CanRebuild(index, pieces) THEN {Rebuilt(index, pieces)} ELSE {} :
                        Fits(i)}}

Removals(index, r) ==
    {removal \in IF index.large
                  THEN UNION {LargeRemovals(index, r, pieces) :
                                 pieces \in {PiecesWithout(index, r)}}
                  ELSE SmallRemovals(index, r) : removal.index # Failed}

-----------------------------------------------------------------------------
(* Operations                                                              *)

Paths == {<<n>> : n \in EntryNames} \union {<<n, m>> : n \in DirectoryNames, m \in EntryNames}

(* ntfs_allocate_mft_records: the first free record                        *)
NewRecord == {r \in FreeRecords \ DOMAIN nodes :
                 \A other \in FreeRecords \ DOMAIN nodes : r <= other}

Joined(new, old) ==
    [r \in DOMAIN new \union DOMAIN old |-> IF r \in DOMAIN new THEN new[r] ELSE old[r]]

Among(f, S) == [r \in S |-> f[r]]

(* ntfs_create_entry, of a file or of a directory                          *)
CreateEntry(path) ==
    \E parent \in {ResolvePath(Front(path))}, record \in NewRecord :
       /\ ~damaged
       /\ ResolvePath(path) = 0
       /\ IsDirectory(parent)
       /\ \E shift \in Shifts(directories[parent], Entry(Last(path), record)) :
          \E index \in {IndexInsert(directories[parent], Entry(Last(path), record), shift)} :
             /\ index # Failed
             /\ nodes' = Joined([r \in {record} |->
                                   [directory |-> Last(path) \in DirectoryNames,
                                    parent |-> parent, name |-> Last(path)]],
                               nodes)
             /\ directories' = Joined([r \in {parent} |-> index],
                                     IF Last(path) \in DirectoryNames
                                     THEN Joined([r \in {record} |-> EmptyIndex], directories)
                                     ELSE directories)
             /\ damaged' = (shift # 0 \/ Misled(path) \/ Misled(path)')
       /\ ResolveIn(nodes', directories', path) # 0

DirectoryEmptyLeaves(index) == index.active = {}

(* ntfs_loaded_directory_empty                                             *)
DirectoryEmpty(index) == index.root = << >> /\ index.active = {}

(* ntfs_delete_entry: the record the path leads to is removed from the     *)
(* directory it names as its parent.  The path is looked up again while    *)
(* the record can still be read.                                           *)
DeleteEntry(path) ==
    \E r \in {ResolvePath(path)} \intersect FreeRecords :
       /\ ~damaged
       /\ IsDirectory(r) => DirectoryEmpty(directories[r])
       /\ \E removal \in Removals(directories[nodes[r].parent], r) :
             /\ \E left \in {[directories EXCEPT ![nodes[r].parent] = removal.index]} :
                   /\ ResolveIn(nodes, left, path) = 0
                   /\ nodes' = Among(nodes, DOMAIN nodes \ {r})
                   /\ directories' = Among(left, DOMAIN left \ {r})
             /\ damaged' = (removal.written # 0 \/ Misled(path))

(* ntfs_move_would_cycle                                                   *)
RECURSIVE WouldCycle(_, _)
WouldCycle(source, current) ==
    IF current = source THEN TRUE
    ELSE IF current = RootDirectory THEN FALSE
    ELSE WouldCycle(source, nodes[current].parent)

(* ntfs_context_rename                                                     *)
RenameEntry(path, to) ==
    /\ ~damaged
    /\ ResolvePath(to) = 0
    /\ \E r \in {ResolvePath(path)} \intersect FreeRecords, new \in {ResolvePath(Front(to))} :
          /\ IsDirectory(new)
          /\ IsDirectory(r) => ~WouldCycle(r, new)
          /\ nodes' = [nodes EXCEPT ![r].parent = new, ![r].name = Last(to)]
          /\ \E removal \in Removals(directories[nodes[r].parent], r) :
                \E left \in {[directories EXCEPT ![nodes[r].parent] = removal.index]} :
                \E shift \in Shifts(left[new], Entry(Last(to), r)) :
                \E index \in {IndexInsert(left[new], Entry(Last(to), r), shift)} :
                      /\ index # Failed
                      /\ directories' = [left EXCEPT ![new] = index]
                      /\ damaged' = (removal.written # 0 \/ shift # 0 \/ Misled(path)
                                     \/ Misled(to) \/ Misled(to)')
    /\ ResolveIn(nodes', directories', path) = 0
    /\ ResolveIn(nodes', directories', to) # 0

(* A volume with a directory and a file in its root directory              *)
IndexInit ==
    \E r, f \in FreeRecords, d \in DirectoryNames, n \in EntryNames \ DirectoryNames :
       /\ r < f /\ \A other \in FreeRecords \ {r} : f <= other
       /\ \A name \in DirectoryNames : d <= name
       /\ \A name \in EntryNames : name <= n
       /\ nodes = [c \in {RootDirectory, r, f} |->
                     [directory |-> c # f, parent |-> RootDirectory,
                      name |-> CASE c = RootDirectory -> 0 [] c = r -> d [] c = f -> n]]
       /\ directories = [c \in {RootDirectory, r} |->
                            IF c = r THEN EmptyIndex
                            ELSE [EmptyIndex EXCEPT !.root = << Entry(d, r), Entry(n, f) >>]]
       /\ changes = 0
       /\ damaged = FALSE

IndexNext ==
    /\ changes < MaxChanges
    /\ changes' = changes + 1
    /\ \/ \E path \in Paths : CreateEntry(path)
       \/ \E path \in Paths : DeleteEntry(path)
       \/ \E path, to \in Paths : RenameEntry(path, to)

IndexSpec == IndexInit /\ [][IndexNext]_indexVars

-----------------------------------------------------------------------------
(* What a directory should show: the files and directories whose records   *)
(* name it as their parent, each once.                                     *)
Children(r) == {c \in DOMAIN nodes \ {RootDirectory} : nodes[c].parent = r}

(* Through conversions, splits and rebuilds every directory lists each of  *)
(* its files once, under the name its record has, and nothing else.        *)
IndexComplete ==
    ~damaged =>
        \A r \in DOMAIN directories :
            LET listed == Listed(directories[r]) IN
            /\ Len(listed) = Cardinality(Children(r))
            /\ {<<listed[i].name, listed[i].record>> : i \in DOMAIN listed}
                  = {<<nodes[c].name, c>> : c \in Children(r)}

(* The tree of a large directory stays one that other implementations can  *)
(* search: the entries in order, those of a child between the separators   *)
(* beside it, each active record the child of one entry, nothing larger    *)
(* than its place.                                                         *)
Increasing(entries) == \A i, j \in DOMAIN entries : i < j => entries[i].name < entries[j].name

IndexOrdered ==
    ~damaged =>
        \A r \in DOMAIN directories :
            LET index == directories[r]
                children == [i \in 1 .. Len(index.root) + 1 |->
                                IF i <= Len(index.root) THEN index.root[i].child ELSE index.last]
            IN /\ Increasing(index.root) /\ Fits(index)
               /\ index.large =>
                     /\ ToSet(children) = index.active
                     /\ Cardinality(index.active) = Len(children)
                     /\ \A i \in DOMAIN children :
                           LET leaf == index.leaves[children[i]] IN
                           /\ Increasing(leaf) /\ LengthOf(leaf) <= LeafRoom
                           /\ \A e \in ToSet(leaf) :
                                 /\ i > 1 => index.root[i - 1].name < e.name
                                 /\ i <= Len(index.root) => e.name < index.root[i].name

(* A directory's index shows what it should, in order.                     *)
IndexSound == IndexComplete /\ IndexOrdered

(* The root is found going up from r in so many steps.                     *)
RECURSIVE Above(_, _)
Above(r, steps) ==
    r = RootDirectory \/ (steps > 0 /\ r \in DOMAIN directories /\ Above(nodes[r].parent, steps - 1))

(* However directories are moved, each of them is still below the root     *)
(* (ntfs_move_would_cycle and the operations that follow it).              *)
DirectoriesFormTree ==
    ~damaged => \A r \in DOMAIN nodes : Above(nodes[r].parent, Cardinality(DOMAIN nodes))

(* "Resolve an absolute path to its MFT record number": a path that leads  *)
(* to a file is one whose names are in the directories along it.           *)
ResolvesTheFile == ~damaged => \A path \in Paths : ~Misled(path)

=============================================================================

-------------------------------- MODULE Gpt --------------------------------
(***************************************************************************)
(* Editing a GUID partition table, src/kernel/partition.c: the entries are *)
(* kept twice on the disk, each copy with a header that holds their        *)
(* checksum.  partition_gpt_commit checks that both copies agree, changes  *)
(* one entry, writes the backup copy, flushes, writes the primary copy and *)
(* flushes again; when a call fails it writes the old contents back.       *)
(* partition_scan_device, at the next start, believes the first copy whose *)
(* checksum fits.                                                          *)
(*                                                                         *)
(* The disk may have a write cache: then what was written since the last   *)
(* flush reaches the medium in any order.  Without one it does so before   *)
(* the call returns.  A crash loses what has not reached the medium; a     *)
(* sector is written whole.  A failed call may have written any of its     *)
(* sectors, and the kernel's block cache then still has the old ones.  The *)
(* header fields that no edit changes are left out, and the checksum is    *)
(* the array it was computed from.                                         *)
(***************************************************************************)
EXTENDS Naturals, Sequences, FiniteSets

CONSTANTS
    EntryCount,      \* entry_count
    MaxPerDisk,      \* PARTITION_MAX_PER_DISK
    PerSector,       \* entries in a sector
    FirstUsable,     \* first_usable_lba
    LastUsable,      \* last_usable_lba
    GptWord,        \* 2 ^ 64
    Starts,          \* start_lba of the edits asked for
    GptCounts,          \* block_count of the edits asked for
    MaxFailures      \* bound on the failing calls of an edit

ASSUME GptAssumption ==
    /\ EntryCount \in Nat \ {0} /\ MaxPerDisk \in Nat \ {0} /\ PerSector \in Nat \ {0}
    /\ FirstUsable \in Nat /\ LastUsable \in Nat /\ FirstUsable <= LastUsable
    /\ GptWord \in Nat /\ LastUsable < GptWord
    /\ Starts \subseteq 0 .. GptWord - 1 /\ GptCounts \subseteq 0 .. GptWord - 1
    /\ MaxFailures \in Nat

VARIABLES
    disk,        \* disk[s]: what is on the medium in sector s
    write_cache, \* the disk has a write cache
    pending,     \* what has not reached the medium, for some of the sectors
    cached,      \* cached[s]: what the block cache has for s, unless evicted
    edit,        \* the edit in progress: its calls and where it is
    mounted,     \* a filesystem on the disk is mounted
    expected,    \* the tables a scan of the disk may find
    failures,    \* failing calls that the undo has not made up for
    split        \* a crash has cut an edit, or its undo, short

gptVars == <<disk, write_cache, pending, cached, edit, mounted, expected, failures, split>>

TableSlots == 0 .. EntryCount - 1
SectorOf(slot) == 1 + slot \div PerSector
EntrySectors == {SectorOf(slot) : slot \in TableSlots}

(* Sector 0 of a copy is its header, the others hold its entries.          *)
Copies == {"primary", "backup"}
Sectors == Copies \X ({0} \union EntrySectors)

NoEntry == [used |-> FALSE]
Entry(first, last) == [used |-> TRUE, first |-> first, last |-> last]
EmptyGpt == [slot \in TableSlots |-> NoEntry]

UsedSlots(table) == {slot \in TableSlots : table[slot].used}

SectorEntries(table, k) == [slot \in {s \in TableSlots : SectorOf(s) = k} |-> table[slot]]

(* What the two copies of a table look like on the disk.                   *)
Image(table) ==
    [s \in Sectors |-> IF s[2] = 0 THEN table ELSE SectorEntries(table, s[2])]

TableIn(image, copy) == [slot \in TableSlots |-> image[<<copy, SectorOf(slot)>>][slot]]

-----------------------------------------------------------------------------
(* Reading a table                                                         *)

(* gpt_entries_valid, and the same checks in scan_gpt_at                   *)
EntriesValid(table) ==
    \A slot \in UsedSlots(table) :
        /\ table[slot].first >= FirstUsable
        /\ table[slot].last <= LastUsable
        /\ table[slot].last >= table[slot].first
        /\ \A other \in UsedSlots(table) :
              other < slot => \/ table[slot].first > table[other].last
                              \/ table[other].first > table[slot].last

ChecksumFits(image, copy) == image[<<copy, 0>>] = TableIn(image, copy)

(* scan_gpt_at: the partitions of one copy; none when it is damaged or has *)
(* too many.                                                               *)
ScanAt(image, copy) ==
    LET table == TableIn(image, copy) IN
    IF /\ ChecksumFits(image, copy)
       /\ EntriesValid(table)
       /\ Cardinality(UsedSlots(table)) <= MaxPerDisk
    THEN table ELSE EmptyGpt

(* scan_gpt: the backup is used when the primary gives no partitions.      *)
Scan(image) ==
    IF UsedSlots(ScanAt(image, "primary")) # {} THEN ScanAt(image, "primary")
                                               ELSE ScanAt(image, "backup")

-----------------------------------------------------------------------------
(* The disk                                                                *)

Over(new, old) ==
    [s \in DOMAIN new \union DOMAIN old |-> IF s \in DOMAIN new THEN new[s] ELSE old[s]]

Only(f, S) == [s \in S |-> f[s]]

Nothing == Only(disk, {})

View == Over(pending, disk)

(* A sector reaches the medium.                                            *)
Destage ==
    /\ \E s \in DOMAIN pending :
          /\ disk' = [disk EXCEPT ![s] = pending[s]]
          /\ pending' = Only(pending, DOMAIN pending \ {s})
    /\ UNCHANGED <<write_cache, cached, edit, mounted, expected, failures, split>>

(* A call returns when its sectors are in the write cache or on the medium. *)
Settled == write_cache \/ pending = Nothing

-----------------------------------------------------------------------------
(* partition_gpt_commit                                                    *)

Idle == [phase |-> "idle"]

EntriesTo(copy) == [copy |-> copy, part |-> "entries"]
HeaderTo(copy) == [copy |-> copy, part |-> "header"]
Flushing == [part |-> "flush"]

(* Faulty variant: nothing is flushed between the two copies.              *)
CallsUnflushed(phase) ==
    CASE phase = "commit" -> << EntriesTo("backup"), HeaderTo("backup"),
                                EntriesTo("primary"), HeaderTo("primary"), Flushing >>
      [] phase = "undo_backup" -> << EntriesTo("backup"), HeaderTo("backup"), Flushing >>
      [] phase = "undo_both" -> << EntriesTo("primary"), HeaderTo("primary"),
                                   EntriesTo("backup"), HeaderTo("backup"), Flushing >>

(* Faulty variant: a backup that could not be written is left at that.     *)
CallsUndoSecond(phase) ==
    CASE phase = "commit" -> << EntriesTo("backup"), HeaderTo("backup"), Flushing,
                                EntriesTo("primary"), HeaderTo("primary"), Flushing >>
      [] phase = "undo_backup" -> << Flushing >>
      [] phase = "undo_both" -> << EntriesTo("primary"), HeaderTo("primary"),
                                   EntriesTo("backup"), HeaderTo("backup"), Flushing >>

(* The calls it makes, when all goes well and to undo.                     *)
Calls(phase) ==
    CASE phase = "commit" -> << EntriesTo("backup"), HeaderTo("backup"), Flushing,
                                EntriesTo("primary"), HeaderTo("primary"), Flushing >>
      [] phase = "undo_backup" -> << EntriesTo("backup"), HeaderTo("backup"), Flushing >>
      [] phase = "undo_both" -> << EntriesTo("primary"), HeaderTo("primary"),
                                   EntriesTo("backup"), HeaderTo("backup"), Flushing >>

NextCall == Calls(edit.phase)[edit.step]

CallSectors ==
    {s \in Sectors : s[1] = NextCall.copy /\ (s[2] = 0 <=> NextCall.part = "header")}

(* What the next call writes: the new table, or the old one to undo.       *)
Data == Only(Image(IF edit.phase = "commit" THEN edit.new ELSE edit.old), CallSectors)

Running == edit # Idle /\ edit.step <= Len(Calls(edit.phase)) /\ Settled

(* The changed table of each operation, for the arguments it accepts.      *)
(* disk_management_partition_gpt lets only the first slots through.        *)
Extent(start, count) == Entry(start, (start + count - 1) % GptWord)

ExtentFits(start, count) == count # 0 /\ count - 1 <= GptWord - 1 - start

EditSlots == {slot \in TableSlots : slot < MaxPerDisk}

Edits(table) ==
    {[table EXCEPT ![slot] = NoEntry] : slot \in UsedSlots(table) \intersect EditSlots}
    \union
    {[table EXCEPT ![slot] = Extent(p[1], p[2])] :
        slot \in EditSlots, p \in {q \in Starts \X GptCounts : ExtentFits(q[1], q[2])}}

(* Both copies are read, through the cache or from the disk.  The edit is  *)
(* refused unless they are whole and agree.                                *)
Begin(image) ==
    LET old == TableIn(image, "primary") IN
    /\ edit = Idle
    /\ ~mounted
    /\ \A s \in Sectors : image[s] \in {cached[s], View[s]}
    /\ ChecksumFits(image, "primary")
    /\ ChecksumFits(image, "backup")
    /\ TableIn(image, "backup") = old
    /\ \E new \in Edits(old) :
          /\ EntriesValid(new)
          /\ edit' = [phase |-> "commit", step |-> 1, old |-> old, new |-> new]
          /\ expected' = expected \union {new}
    /\ cached' = image
    /\ UNCHANGED <<disk, write_cache, pending, mounted, failures, split>>

Images ==
    {[s \in Sectors |-> IF s \in S THEN cached[s] ELSE View[s]] :
        S \in SUBSET {s \in Sectors : cached[s] # View[s]}}

Write ==
    /\ Running
    /\ NextCall # Flushing
    /\ pending' = Over(Data, pending)
    /\ cached' = Over(Data, cached)
    /\ edit' = [edit EXCEPT !.step = @ + 1]
    /\ UNCHANGED <<disk, write_cache, mounted, expected, failures, split>>

Flush ==
    /\ Running
    /\ NextCall = Flushing
    /\ disk' = View
    /\ pending' = Nothing
    /\ edit' = [edit EXCEPT !.step = @ + 1]
    /\ UNCHANGED <<write_cache, cached, mounted, expected, failures, split>>

(* A failing call of the commit starts the undo of what may have been      *)
(* written; a failing call of the undo is ignored.                         *)
AfterFailure ==
    IF edit.phase = "commit"
    THEN [edit EXCEPT !.phase = IF edit.step <= 3 THEN "undo_backup" ELSE "undo_both",
                      !.step = 1]
    ELSE [edit EXCEPT !.step = @ + 1]

WriteFails ==
    /\ Running
    /\ NextCall # Flushing
    /\ failures < MaxFailures
    /\ \E S \in SUBSET CallSectors : pending' = Over(Only(Data, S), pending)
    /\ edit' = AfterFailure
    /\ failures' = failures + 1
    /\ UNCHANGED <<disk, write_cache, cached, mounted, expected, split>>

FlushFails ==
    /\ Running
    /\ NextCall = Flushing
    /\ failures < MaxFailures
    /\ edit' = AfterFailure
    /\ failures' = failures + 1
    /\ UNCHANGED <<disk, write_cache, pending, cached, mounted, expected, split>>

(* The call returns 1, or 0 after the undo.  A single failure has been     *)
(* made up for by then.                                                    *)
Done ==
    /\ edit # Idle
    /\ edit.step > Len(Calls(edit.phase))
    /\ edit' = Idle
    /\ expected' = IF edit.phase = "commit" THEN {edit.new}
                   ELSE IF failures = 1 THEN {edit.old} ELSE expected
    /\ failures' = IF failures = 1 THEN 0 ELSE failures
    /\ UNCHANGED <<disk, write_cache, pending, cached, mounted, split>>

(* Power is lost and the system starts again; the scan finds what it       *)
(* finds.                                                                  *)
Crash ==
    /\ cached' = disk
    /\ expected' = {Scan(disk)}
    /\ split' = (split \/ edit # Idle \/ failures > 0)
    /\ pending' = Nothing
    /\ edit' = Idle
    /\ mounted' = FALSE
    /\ failures' = 0
    /\ UNCHANGED <<disk, write_cache>>

MountOrUnmount ==
    /\ edit = Idle
    /\ mounted' = ~mounted
    /\ UNCHANGED <<disk, write_cache, pending, cached, edit, expected, failures,
                   split>>

GptInit ==
    /\ \E table \in {EmptyGpt} \union Edits(EmptyGpt) :
          /\ EntriesValid(table)
          /\ disk = Image(table)
          /\ cached = Image(table)
          /\ expected = {table}
    /\ write_cache \in BOOLEAN
    /\ pending = Nothing
    /\ edit = Idle
    /\ mounted = FALSE
    /\ failures = 0
    /\ split = FALSE

GptNext ==
    \/ \E image \in Images : Begin(image)
    \/ Write \/ Flush \/ WriteFails \/ FlushFails \/ Done
    \/ Destage \/ Crash \/ MountOrUnmount

GptSpec == GptInit /\ [][GptNext]_gptVars

-----------------------------------------------------------------------------
(* Properties.                                                             *)

(* Whenever the power fails, the next scan finds the table as it was       *)
(* before the edit in progress or as it is meant to be after it: never a   *)
(* mixture, never an older table and never no table.  On a disk without a  *)
(* write cache one failing call, and its undo, may come on top; with a     *)
(* write cache they may not, because the undo of the primary copy is not   *)
(* flushed before the backup copy is written.                              *)
GptCrashSafe ==
    failures = 0 \/ (failures = 1 /\ ~write_cache) => Scan(disk) \in expected

(* An edit that fails has changed nothing, and one that succeeds has       *)
(* changed both copies for good: between edits they agree, nothing waits   *)
(* in the write cache, and the block cache shows what is on the disk.      *)
CopiesAgree ==
    edit = Idle /\ failures = 0 /\ ~split =>
        /\ pending = Nothing
        /\ \E table \in expected : disk = Image(table)
        /\ cached = disk
=============================================================================

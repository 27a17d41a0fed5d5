--------------------------- MODULE AddressSpaces ---------------------------
(***************************************************************************)
(* Page tables and processes: src/kernel/paging.c and src/kernel/process.c *)
(* on top of the frame allocator.  Page tables are frames of memory whose  *)
(* entries name other frames; an address space is the frame of its PML4.   *)
(* A virtual address is the tuple of its four table indices.  Entry flags  *)
(* other than "present" are left out.                                      *)
(***************************************************************************)
EXTENDS FrameAllocator

CONSTANTS
    UserEntries,      \* the first 256 entries of a PML4: the user half
    RootEntries,      \* all 512 of them
    TableEntries,     \* entries of the tables of the lower levels
    BootIndices,      \* PML4 indices of the pages mapped at boot, the heap's among them
    UserPages,        \* virtual addresses mapped into processes
    KernelPages,      \* virtual addresses the kernel maps, both halves
    MaxProcesses      \* ASAS_MAX_PROCESSES

UserIndices == 0 .. UserEntries - 1
KernelIndices == UserEntries .. RootEntries - 1
RootIndices == 0 .. RootEntries - 1
TableIndices == 0 .. TableEntries - 1
Indices == RootIndices \union TableIndices

(* In the kernel half the kernel maps nothing but what it maps at boot:    *)
(* the test page of main.c and the heap.                                   *)
ASSUME AddressSpaceAssumption ==
    /\ MaxProcesses \in Nat
    /\ UserEntries \in Nat /\ RootEntries \in Nat /\ UserEntries <= RootEntries
    /\ TableEntries \in Nat
    /\ BootIndices \subseteq KernelIndices
    /\ UserPages \subseteq
          UserIndices \X TableIndices \X TableIndices \X TableIndices
    /\ KernelPages \subseteq
          (UserIndices \union BootIndices) \X TableIndices \X TableIndices \X TableIndices

VARIABLES
    allocator,   \* the frame allocator record
    memory,      \* memory[f][i]: frame named by entry i of table f, 0 if none
    kernel,      \* the kernel's PML4 frame
    processes,   \* the process table
    next_pid

spaceVars == <<allocator, memory, kernel, processes, next_pid>>

Slots == 1 .. MaxProcesses

EmptyTable == [i \in Indices |-> 0]

UnusedProcess == [pid |-> 0, state |-> "UNUSED", pml4 |-> 0]

-----------------------------------------------------------------------------
(* paging.c                                                                *)

(* next_table: follow an entry, or make a table for it; table 0 is the     *)
(* null pointer that ends map_page early.                                  *)
NextTable(w, index) ==
    LET got == FrameAllocate(w.allocator) IN
    IF w.table = 0 THEN w
    ELSE IF w.memory[w.table][index] # 0
    THEN [w EXCEPT !.table = w.memory[w.table][index]]
    ELSE [allocator |-> got.allocator,
          memory |-> IF got.frame = 0 THEN w.memory
                     ELSE [w.memory EXCEPT ![got.frame] = EmptyTable,
                                           ![w.table][index] = got.frame],
          table |-> got.frame]

(* map_page into the space whose PML4 is root: next_table is called once   *)
(* for each of the upper three levels.  A failure leaves the tables it has *)
(* made in place; an entry that is in use is overwritten.                  *)
MapPage(a, root, va, frame) ==
    LET pml4 == [allocator |-> a, memory |-> memory, table |-> root]
        walk[n \in 0 .. 3] == IF n = 0 THEN pml4 ELSE NextTable(walk[n - 1], va[n])
        pt == walk[3]
    IN  IF pt.table = 0 THEN pt
        ELSE [pt EXCEPT !.memory[pt.table][va[4]] = frame]

(* paging_page_flags: the entry for a virtual page, 0 when it or a table   *)
(* on the way is not present.                                              *)
Follow(table, index) == IF table = 0 THEN 0 ELSE memory[table][index]

PageFlags(root, va) ==
    Follow(Follow(Follow(Follow(root, va[1]), va[2]), va[3]), va[4])

(* paging_destroy_address_space goes through the entries of a table in     *)
(* order: what is below an entry that is present is freed first, then the  *)
(* frame it names.  upTo[n] is the allocator after n entries.              *)
FreeBelow(a, table, entries, Deeper(_, _)) ==
    LET upTo[n \in 0 .. entries] ==
            IF n = 0 THEN a
            ELSE LET f == memory[table][n - 1]
                 IN IF f = 0 THEN upTo[n - 1] ELSE FrameFree(Deeper(upTo[n - 1], f), f)
    IN upTo[entries]

FreePage(a, f) == a
FreeTable(a, pt) == FreeBelow(a, pt, TableEntries, FreePage)
FreeDirectory(a, pd) == FreeBelow(a, pd, TableEntries, FreeTable)
FreePointers(a, pdpt) == FreeBelow(a, pdpt, TableEntries, FreeDirectory)

(* Faulty variant: the PML4 itself is forgotten.                           *)
FreeSpaceBelow(a, pml4) == FreeBelow(a, pml4, UserEntries, FreePointers)

(* The kernel half is left alone.                                          *)
FreeSpace(a, pml4) == FrameFree(FreeBelow(a, pml4, UserEntries, FreePointers), pml4)

(* The frames a table names, and everything below a PML4's given half      *)
Named(table, indices) == {memory[table][i] : i \in indices} \ {0}

Below(pml4, indices) ==
    LET pdpts == Named(pml4, indices)
        pds == UNION {Named(t, TableIndices) : t \in pdpts}
        pts == UNION {Named(t, TableIndices) : t \in pds}
        pages == UNION {Named(t, TableIndices) : t \in pts}
    IN  pdpts \union pds \union pts \union pages

(* Its effect on memory: every entry it follows is cleared.                *)
ClearedBy(pml4) ==
    [f \in DOMAIN memory |->
        IF f = pml4
        THEN [i \in Indices |-> IF i \in UserIndices THEN 0 ELSE memory[f][i]]
        ELSE IF f \in Below(pml4, UserIndices) THEN EmptyTable ELSE memory[f]]

-----------------------------------------------------------------------------
(* process.c                                                               *)

UnusedSlots == {s \in Slots : processes[s].state = "UNUSED"}

(* process_create with paging_create_address_space: slots are taken in     *)
(* order and never again once their process has exited.  It is not called  *)
(* before the boot mappings are made (main.c stops when one of them fails).*)
Create ==
    LET got == FrameAllocate(allocator)
        s == CHOOSE s \in UnusedSlots : \A r \in UnusedSlots : s <= r IN
    /\ \A i \in BootIndices : memory[kernel][i] # 0
    /\ UnusedSlots # {}
    /\ allocator' = got.allocator
    /\ IF got.frame = 0
       THEN UNCHANGED <<memory, processes, next_pid>>
       ELSE /\ memory' = [memory EXCEPT ![got.frame] =
                            [i \in Indices |-> IF i \in KernelIndices
                                               THEN memory[kernel][i] ELSE 0]]
            /\ processes' = [processes EXCEPT ![s] =
                               [pid |-> next_pid, state |-> "READY",
                                pml4 |-> got.frame]]
            /\ next_pid' = next_pid + 1
    /\ UNCHANGED kernel

(* Faulty variant: the exited process keeps its destroyed address space.   *)
KillKeepsSpace(pid) ==
    LET named == {s \in Slots : processes[s].pid = pid
                                  /\ processes[s].state # "UNUSED"}
        s == CHOOSE s \in named : \A r \in named : s <= r
        pml4 == processes[s].pml4 IN
    /\ named # {}
    /\ allocator' = FreeSpace(allocator, pml4)
    /\ memory' = ClearedBy(pml4)
    /\ processes' = [processes EXCEPT ![s].state = "EXITED"]
    /\ UNCHANGED <<kernel, next_pid>>

(* process_kill.  Killing a process that has already exited finds no       *)
(* address space to destroy and succeeds again.                            *)
Kill(pid) ==
    LET named == {s \in Slots : processes[s].pid = pid
                                  /\ processes[s].state # "UNUSED"}
        s == CHOOSE s \in named : \A r \in named : s <= r
        pml4 == processes[s].pml4 IN
    /\ named # {}
    /\ IF pml4 = 0
       THEN UNCHANGED <<allocator, memory>>
       ELSE /\ allocator' = FreeSpace(allocator, pml4)
            /\ memory' = ClearedBy(pml4)
    /\ processes' = [processes EXCEPT ![s].state = "EXITED", ![s].pml4 = 0]
    /\ UNCHANGED <<kernel, next_pid>>

-----------------------------------------------------------------------------
(* The callers of map_page allocate a frame and map it; when either fails  *)
(* they give up, and a frame that could not be mapped is lost              *)
(* (process_self_test, map_image_pages, heap_initialize).                  *)
MapNewFrame(root, va) ==
    LET got == FrameAllocate(allocator)
        done == MapPage(got.allocator, root, va, got.frame) IN
    /\ IF got.frame = 0
       THEN allocator' = got.allocator /\ UNCHANGED memory
       ELSE allocator' = done.allocator /\ memory' = done.memory
    /\ UNCHANGED <<kernel, processes, next_pid>>

(* Each virtual page is mapped once: image pages, the stack page and the   *)
(* heap pages are at different addresses.                                  *)
MapUserPage(s, va) ==
    /\ processes[s].pml4 # 0
    /\ PageFlags(processes[s].pml4, va) = 0
    /\ MapNewFrame(processes[s].pml4, va)

MapKernelPage(va) ==
    /\ PageFlags(kernel, va) = 0
    /\ MapNewFrame(kernel, va)

(* paging_initialize has taken the first frame for the kernel's PML4;      *)
(* without one the first map_page of main.c fails and the kernel stops.    *)
SpacesInit ==
    LET root == FrameAllocate(InitialAllocator) IN
    /\ root.frame # 0
    /\ kernel = root.frame
    /\ allocator = root.allocator
    /\ memory = [f \in PhysicalFrames |-> EmptyTable]
    /\ processes = [s \in Slots |-> UnusedProcess]
    /\ next_pid = 1

SpacesNext ==
    \/ Create
    \/ \E s \in Slots : processes[s].state # "UNUSED" /\ Kill(processes[s].pid)
    \/ \E s \in Slots, va \in UserPages : MapUserPage(s, va)
    \/ \E va \in KernelPages : MapKernelPage(va)

SpacesSpec == SpacesInit /\ [][SpacesNext]_spaceVars

-----------------------------------------------------------------------------
(* Properties.                                                             *)

(* Type correctness of the allocator, the tables and the process table: no *)
(* table entry and no process ever names a frame outside the conventional  *)
(* regions or in the low-memory reserve.                                   *)
SpacesTypeOK ==
    /\ allocator.descriptor_index \in 0 .. Len(MemoryMap)
    /\ allocator.remaining_pages \in Nat
    /\ allocator.allocated_pages \in Nat
    /\ allocator.free_list \in Seq(UsableFrames)
    /\ memory \in [PhysicalFrames -> [Indices -> UsableFrames \union {0}]]
    /\ kernel \in UsableFrames
    /\ processes \in [Slots -> [pid : Nat, state : {"UNUSED", "READY", "EXITED"},
                                pml4 : UsableFrames \union {0}]]

Live == {s \in Slots : processes[s].pml4 # 0}

UserFrames(s) == {processes[s].pml4} \union Below(processes[s].pml4, UserIndices)

KernelFrames == {kernel} \union Below(kernel, RootIndices)

(* A frame is on the free list at most once and never while a live address *)
(* space or the kernel still uses it, however processes are created, grown *)
(* and killed (twice, too) and whatever map_page left behind on failure.   *)
FreeFramesUnused ==
    LET free == Range(allocator.free_list) IN
    /\ Cardinality(free) = Len(allocator.free_list)
    /\ free \intersect KernelFrames = {}
    /\ \A s \in Live : free \intersect UserFrames(s) = {}

(* Two processes, and a process and the kernel, share no table and no page *)
(* outside the kernel half.                                                *)
Isolated ==
    /\ \A s, r \in Live : s # r => UserFrames(s) \intersect UserFrames(r) = {}
    /\ \A s \in Live : UserFrames(s) \intersect KernelFrames = {}

(* The kernel half of every live process is the kernel's, so a kernel page *)
(* mapped later is visible in all of them.                                 *)
KernelHalfShared ==
    \A s \in Live : \A i \in KernelIndices :
        memory[processes[s].pml4][i] = memory[kernel][i]

(* allocated_pages is the number of frames the bump pointer has passed     *)
(* that are not on the free list: frame_allocator_allocated_pages, which   *)
(* the leak tests compare, drifts neither on failures nor when the free    *)
(* list overflows.                                                         *)
AccountingExact ==
    allocator.allocated_pages =
        Cardinality(Issued(allocator)) - Len(allocator.free_list)

(* When a process exits, each of its frames goes to the free list, unless  *)
(* the list has no room left.                                              *)
KillReleases ==
    [][\A s \in Live : s \notin Live' =>
          \/ UserFrames(s) \subseteq Range(allocator'.free_list)
          \/ Len(allocator'.free_list) = FreeListCapacity]_spaceVars

(* Nobody has a frame of anybody else: not two processes, not a process    *)
(* and the kernel, not a process and the free list.                        *)
SpacesSeparate == SpacesTypeOK /\ FreeFramesUnused /\ Isolated /\ KernelHalfShared
=============================================================================

--------------------------- MODULE FrameAllocator ---------------------------
(***************************************************************************)
(* The physical frame allocator, src/kernel/memory.c: a bounded stack of   *)
(* recycled frames in front of a bump pointer that walks the conventional  *)
(* regions of the EFI memory map.  Frames are page numbers, and 0 is the   *)
(* failure value of frame_allocate.                                        *)
(*                                                                         *)
(* The operations are functions of the allocator record, because their     *)
(* callers make several of them in one step.                               *)
(***************************************************************************)
EXTENDS Naturals, Sequences, SequencesExt, FiniteSets

CONSTANTS
    MemoryMap,         \* the EFI descriptors: [conventional, start, pages]
    LowMemoryReserve,  \* LOW_MEMORY_RESERVE, in pages
    FreeListCapacity   \* FRAME_FREE_LIST_CAPACITY

DescriptorFrames(d) == d.start .. d.start + d.pages - 1

ASSUME MemoryMapAssumption ==
    /\ MemoryMap \in Seq([conventional : BOOLEAN, start : Nat, pages : Nat])
    /\ LowMemoryReserve \in Nat \ {0}
    /\ FreeListCapacity \in Nat
    /\ \A i, j \in DOMAIN MemoryMap :
          i # j => DescriptorFrames(MemoryMap[i])
                     \intersect DescriptorFrames(MemoryMap[j]) = {}

PhysicalFrames == UNION {DescriptorFrames(MemoryMap[i]) : i \in DOMAIN MemoryMap}

(* The frames a correct allocator may hand out.                            *)
UsableFrames ==
    UNION {{f \in DescriptorFrames(MemoryMap[i]) : f >= LowMemoryReserve} :
              i \in {j \in DOMAIN MemoryMap : MemoryMap[j].conventional}}

(* frame_allocator_initialize; descriptor_index counts from 0 as in C.     *)
InitialAllocator ==
    [descriptor_index |-> 0, next_frame |-> 0, remaining_pages |-> 0,
     allocated_pages |-> 0, free_list |-> << >>]

Selectable(d) ==
    /\ d.conventional
    /\ d.pages # 0
    /\ d.start + d.pages > LowMemoryReserve

(* select_next_region: the next usable descriptor becomes the current one, *)
(* clipped to start above the reserve; all are used up if there is none.   *)
SelectNextRegion(a) ==
    LET later == {i \in DOMAIN MemoryMap : i > a.descriptor_index}
        usable == {i \in later : Selectable(MemoryMap[i])}
        chosen == CHOOSE i \in usable : \A j \in usable : i <= j
        d == MemoryMap[chosen]
        first == IF d.start < LowMemoryReserve THEN LowMemoryReserve ELSE d.start
    IN  IF usable = {}
        THEN [a EXCEPT !.descriptor_index = Len(MemoryMap)]
        ELSE [a EXCEPT !.descriptor_index = chosen,
                       !.next_frame = first,
                       !.remaining_pages = d.start + d.pages - first]

(* frame_allocate: the allocator afterwards, and the frame or 0.           *)
FrameAllocate(a) ==
    LET r == IF a.remaining_pages = 0 THEN SelectNextRegion(a) ELSE a IN
    IF a.free_list # << >>
    THEN [allocator |-> [a EXCEPT !.free_list = Front(@),
                                  !.allocated_pages = @ + 1],
          frame |-> Last(a.free_list)]
    ELSE IF r.remaining_pages = 0
    THEN [allocator |-> r, frame |-> 0]
    ELSE [allocator |-> [r EXCEPT !.next_frame = @ + 1,
                                  !.remaining_pages = @ - 1,
                                  !.allocated_pages = @ + 1],
          frame |-> r.next_frame]

(* Faulty variant: the frame is counted as freed before the list is        *)
(* looked at.                                                              *)
FrameFreeCounted(a, frame) ==
    IF frame # 0 /\ Len(a.free_list) < FreeListCapacity
    THEN [a EXCEPT !.free_list = Append(@, frame),
                   !.allocated_pages = @ - 1]
    ELSE [a EXCEPT !.allocated_pages = @ - 1]

(* frame_free: a frame that does not fit on the free list is forgotten and *)
(* stays counted as allocated.                                             *)
FrameFree(a, frame) ==
    IF frame # 0 /\ Len(a.free_list) < FreeListCapacity
    THEN [a EXCEPT !.free_list = Append(@, frame),
                   !.allocated_pages = @ - 1]
    ELSE a

(* The frames the bump pointer has passed, in the current region and in    *)
(* those before it.                                                        *)
Issued(a) ==
    UNION {{f \in DescriptorFrames(MemoryMap[i]) :
               f >= LowMemoryReserve /\
               (i = a.descriptor_index /\ a.remaining_pages > 0
                    => f < a.next_frame)} :
           i \in {j \in DOMAIN MemoryMap : j <= a.descriptor_index
                                           /\ Selectable(MemoryMap[j])}}
=============================================================================

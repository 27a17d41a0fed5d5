-------------------------------- MODULE Heap --------------------------------
(***************************************************************************)
(* The kernel heap, src/kernel/heap.c: a first-fit free list threaded      *)
(* through the heap itself.  kmalloc splits the block it takes when a      *)
(* useful remainder is left; kfree marks the block free and then merges    *)
(* every pair of neighbouring free blocks in the whole list.               *)
(*                                                                         *)
(* The list is kept as the sequence of its block headers in address order, *)
(* each with the address the pointer arithmetic of the code gave it.       *)
(***************************************************************************)
EXTENDS Naturals, Sequences, SequencesExt

CONSTANTS
    HeapSize,     \* HEAP_SIZE
    HeaderSize,   \* sizeof(HEAP_BLOCK)
    Alignment,    \* 16
    HeapWord,     \* 2 ^ 64, the modulus of UINTN arithmetic
    Sizes         \* sizes passed to kmalloc

ASSUME HeapAssumption ==
    /\ HeapSize \in Nat /\ HeaderSize \in Nat \ {0} /\ Alignment \in Nat \ {0}
    /\ HeaderSize < HeapSize
    /\ HeapWord \in Nat /\ HeapSize + HeaderSize + Alignment < HeapWord
    /\ Sizes \subseteq 0 .. HeapWord - 1

VARIABLES
    blocks,   \* the list that starts at heap_head
    held      \* what callers hold: [pointer, size requested]

heapVars == <<blocks, held>>

Block(address, size, free) == [address |-> address, size |-> size, free |-> free]

(* align_size, whose addition wraps for sizes at the top of the range.     *)
AlignSize(size) ==
    LET sum == (size + Alignment - 1) % HeapWord IN sum - (sum % Alignment)

(* heap_initialize leaves one free block.                                  *)
HeapInit ==
    /\ blocks = << Block(0, HeapSize - HeaderSize, TRUE) >>
    /\ held = {}

Pointer(b) == b.address + HeaderSize

Fitting(size) == {k \in DOMAIN blocks : blocks[k].free /\ blocks[k].size >= size}

(* The blocks that take the place of b when size bytes of it are used.     *)
Carve(b, size) ==
    IF b.size >= size + HeaderSize + Alignment
    THEN << Block(b.address, size, FALSE),
            Block(Pointer(b) + size, b.size - size - HeaderSize, TRUE) >>
    ELSE << Block(b.address, b.size, FALSE) >>

(* Faulty variant: the size is tested for zero before it is aligned.       *)
KmallocUnchecked(size) ==
    LET aligned == AlignSize(size)
        fit == Fitting(aligned)
        k == CHOOSE k \in fit : \A j \in fit : k <= j IN
    /\ size # 0
    /\ fit # {}
    /\ blocks' = SubSeq(blocks, 1, k - 1) \o Carve(blocks[k], aligned)
                    \o SubSeq(blocks, k + 1, Len(blocks))
    /\ held' = held \union {[pointer |-> Pointer(blocks[k]), size |-> size]}

(* kmalloc when it succeeds; otherwise it returns 0 and changes nothing.   *)
Kmalloc(size) ==
    LET aligned == AlignSize(size)
        fit == Fitting(aligned)
        k == CHOOSE k \in fit : \A j \in fit : k <= j IN
    /\ aligned # 0
    /\ fit # {}
    /\ blocks' = SubSeq(blocks, 1, k - 1) \o Carve(blocks[k], aligned)
                    \o SubSeq(blocks, k + 1, Len(blocks))
    /\ held' = held \union {[pointer |-> Pointer(blocks[k]), size |-> size]}

(* One turn of the merging loop of kfree, for the block b that follows.    *)
Merge(list, b) ==
    IF list # << >> /\ Last(list).free /\ b.free
    THEN Append(Front(list),
                [Last(list) EXCEPT !.size = @ + HeaderSize + b.size])
    ELSE Append(list, b)

(* The list when the loop has come to its end.                             *)
MergedUpTo(list) ==
    LET upTo[n \in 0 .. Len(list)] ==
            IF n = 0 THEN << >> ELSE Merge(upTo[n - 1], list[n])
    IN upTo

Merged(list) == MergedUpTo(list)[Len(list)]

(* kfree of a pointer the caller holds.                                    *)
Kfree(h) ==
    LET marked == [k \in DOMAIN blocks |->
                     IF Pointer(blocks[k]) = h.pointer
                     THEN [blocks[k] EXCEPT !.free = TRUE] ELSE blocks[k]]
    IN
    /\ h \in held
    /\ blocks' = Merged(marked)
    /\ held' = held \ {h}

HeapNext == (\E size \in Sizes : Kmalloc(size)) \/ (\E h \in held : Kfree(h))

HeapSpec == HeapInit /\ [][HeapNext]_heapVars

-----------------------------------------------------------------------------
(* Properties.                                                             *)

(* Type correctness of the block list.                                     *)
HeapTypeOK ==
    /\ blocks \in Seq([address : 0 .. HeapSize, size : 0 .. HeapSize,
                       free : BOOLEAN])
    /\ blocks # << >>
    /\ held \subseteq [pointer : 0 .. HeapSize, size : Sizes]

(* The blocks and their headers cover the heap exactly: none overlaps, and *)
(* no byte is lost or gained by any sequence of splits and merges.         *)
BlocksTile ==
    /\ blocks[1].address = 0
    /\ \A k \in 1 .. Len(blocks) - 1 :
          blocks[k + 1].address = Pointer(blocks[k]) + blocks[k].size
    /\ Pointer(Last(blocks)) + Last(blocks).size = HeapSize

(* Free neighbours are always merged, after kmalloc as well: what is free  *)
(* is available in one piece.                                              *)
NoFreeNeighbours ==
    \A k \in 1 .. Len(blocks) - 1 : ~(blocks[k].free /\ blocks[k + 1].free)

(* Every pointer a caller holds is a block in use of at least the size it  *)
(* asked for, sizes at the top of the range included, no two callers share *)
(* a block, and every block in use is held by somebody.                    *)
HeldBlocks ==
    /\ \A h \in held : \E k \in DOMAIN blocks :
          /\ Pointer(blocks[k]) = h.pointer
          /\ ~blocks[k].free
          /\ blocks[k].size >= h.size
    /\ \A h, g \in held : h.pointer = g.pointer => h = g
    /\ \A k \in DOMAIN blocks :
          ~blocks[k].free => \E h \in held : h.pointer = Pointer(blocks[k])

(* heap_free_bytes                                                         *)
FreeUpTo ==
    LET upTo[n \in 0 .. Len(blocks)] ==
            IF n = 0 THEN 0
            ELSE upTo[n - 1] + (IF blocks[n].free THEN blocks[n].size ELSE 0)
    IN upTo

FreeBytes == FreeUpTo[Len(blocks)]

(* What stability.c tests at boot, for every order of allocations and      *)
(* frees: when everything has been freed, heap_free_bytes is back at its   *)
(* first value.                                                            *)
NothingLeaks == held = {} => FreeBytes = HeapSize - HeaderSize

(* All of it together: whatever is allocated and freed in whatever order,  *)
(* the list of blocks stays a partition of the heap that serves its        *)
(* callers and loses nothing.                                              *)
HeapSound == HeapTypeOK /\ BlocksTile /\ NoFreeNeighbours /\ HeldBlocks /\ NothingLeaks
=============================================================================

----------------------------- MODULE HeapProofs -----------------------------
(***************************************************************************)
(* What is proved of the kernel heap: for every size of the heap, of the   *)
(* header and of the requests, and for every order of kmalloc and kfree,   *)
(* the blocks partition the heap, callers share none of them, and nothing  *)
(* is lost.                                                                *)
(*                                                                         *)
(* The merging loop of kfree is a recursive function over the list.  That  *)
(* it exists, and what it has made of the first n blocks, is shown by      *)
(* looking at the least n for which it would not be so.                    *)
(***************************************************************************)
EXTENDS Heap, SequenceTheorems, WellFoundedInduction, TLAPS

(* A non-empty set of numbers has a least one.                             *)
LEMMA LeastNumber ==
    ASSUME NEW T, T \subseteq Nat, T # {}
    PROVE  \E n \in T : \A m \in T : n <= m
<1>1. PICK n \in T : \A m \in T : ~ (<<m, n>> \in OpToRel(<, Nat))
  BY NatLessThanWellFounded, WFMin
<1>2. \A m \in T : ~ (m < n)
  BY <1>1 DEF OpToRel
<1> QED BY <1>2

-----------------------------------------------------------------------------
(* The invariant                                                           *)

BlockSet == [address : Nat, size : Nat, free : BOOLEAN]

End(b) == b.address + HeaderSize + b.size

(* A block ends behind its beginning.                                      *)
LEMMA BlockEnds ==
    \A b \in BlockSet : b.address \in Nat /\ End(b) \in Nat /\ b.address <= End(b)
  BY HeapAssumption DEF BlockSet, End

(* A list of blocks, one behind the other from the beginning of the heap   *)
(* to the given end                                                        *)
Tiles(list, end) ==
    /\ list \in Seq(BlockSet)
    /\ list # << >>
    /\ list[1].address = 0
    /\ \A k \in 1 .. Len(list) - 1 : list[k + 1].address = End(list[k])
    /\ End(list[Len(list)]) = end

(* No block reaches into a later one.                                      *)
Ordered(list) ==
    \A j, k \in 1 .. Len(list) : j < k => End(list[j]) <= list[k].address

(* No two free blocks are neighbours.                                      *)
Apart(list) == \A k \in 1 .. Len(list) - 1 : ~(list[k].free /\ list[k + 1].free)

HeapInv ==
    /\ Tiles(blocks, HeapSize) /\ Ordered(blocks) /\ Apart(blocks)
    /\ HeldBlocks
    /\ held \subseteq [pointer : Nat, size : Sizes]

-----------------------------------------------------------------------------
(* The merging loop                                                        *)

(* The loop of kfree over a list                                           *)
LEMMA MergingLoop ==
    ASSUME NEW list, Len(list) \in Nat
    PROVE  /\ MergedUpTo(list)[0] = << >>
           /\ \A n \in 1 .. Len(list) :
                 MergedUpTo(list)[n] = Merge(MergedUpTo(list)[n - 1], list[n])
<1> DEFINE Loop(g, n) == g = [k \in 0 .. n |-> IF k = 0 THEN << >> ELSE Merge(g[k - 1], list[k])]
           Stuck == {n \in Nat : ~\E g : Loop(g, n)}
<1>1. Stuck = {}
  <2> SUFFICES ASSUME Stuck # {} PROVE FALSE
    OBVIOUS
  <2>1. PICK n \in Stuck : \A m \in Stuck : n <= m
    <3>1. Stuck \subseteq Nat
      OBVIOUS
    <3> HIDE DEF Stuck
    <3> QED BY <3>1, LeastNumber
  <2>2. CASE n = 0
    <3> DEFINE g == [k \in 0 .. 0 |-> << >>]
    <3>1. Loop(g, 0)
      BY SMT
    <3> QED BY <2>2, <3>1
  <2>3. CASE n # 0
    <3>1. n \in Nat /\ n - 1 \in Nat /\ n - 1 \notin Stuck
      BY <2>1, <2>3
    <3>2. PICK g : Loop(g, n - 1)
      BY <3>1
    <3> DEFINE h == [k \in 0 .. n |-> IF k = n THEN Merge(g[n - 1], list[n]) ELSE g[k]]
    <3>3. ASSUME NEW k \in 0 .. n
          PROVE  h[k] = IF k = 0 THEN << >> ELSE Merge(h[k - 1], list[k])
      BY <2>3, <3>1, <3>2
    <3>4. Loop(h, n)
      <4>1. h = [k \in 0 .. n |-> h[k]]
        OBVIOUS
      <4> HIDE DEF h
      <4> QED BY <3>3, <4>1
    <3> QED BY <3>4
  <2> QED BY <2>2, <2>3
<1>2. \E g : Loop(g, Len(list))
  BY <1>1
<1>3. MergedUpTo(list) = CHOOSE g : Loop(g, Len(list))
  BY DEF MergedUpTo
<1>4. Loop(MergedUpTo(list), Len(list))
  BY <1>2, <1>3
<1> QED BY <1>4

(* Both the last block of the list and the one that follows are free.      *)
Joins(list, n, b) == list[n].free /\ b.free

(* What one turn of the loop makes of a list of n blocks and the next one. *)
MergesTo(list, n, b, m) ==
    /\ m \in Seq(BlockSet)
    /\ ~Joins(list, n, b) =>
          /\ Len(m) = n + 1 /\ m[n + 1] = b
          /\ \A i \in 1 .. n : m[i] = list[i]
    /\ Joins(list, n, b) =>
          /\ Len(m) = n
          /\ m[n].address = list[n].address /\ m[n].free
          /\ m[n].size = list[n].size + HeaderSize + b.size
          /\ \A i \in 1 .. n - 1 : m[i] = list[i]

(* One turn of the loop: the block is put behind the list, or joined to    *)
(* the last one when both are free.                                        *)
LEMMA MergeIs ==
    ASSUME NEW list \in Seq(BlockSet), NEW n \in Nat \ {0}, n = Len(list),
           NEW b \in BlockSet, NEW m, m = Merge(list, b)
    PROVE  MergesTo(list, n, b, m)
<1>1. n \in Nat \ {0} /\ Last(list) = list[n] /\ list # << >>
  BY EmptySeq DEF Last
<1>2. CASE ~Joins(list, n, b)
  <2>1. Merge(list, b) = Append(list, b)
    BY <1>1, <1>2 DEF Merge, Joins
  <2> QED BY <1>1, <1>2, <2>1, AppendProperties DEF MergesTo
<1>3. CASE Joins(list, n, b)
  <2>1. PICK d \in BlockSet : d = list[n]
    BY <1>1
  <2>2. PICK c : c = [list[n] EXCEPT !.size = @ + HeaderSize + b.size]
    OBVIOUS
  <2>3. /\ c \in BlockSet /\ c.address = list[n].address /\ c.free
        /\ c.size = list[n].size + HeaderSize + b.size
    <3>1. PICK z \in Nat : z = d.size + HeaderSize + b.size
      BY HeapAssumption DEF BlockSet
    <3>2. c = [d EXCEPT !.size = z]
      BY <2>1, <2>2, <3>1
    <3>3. /\ c \in BlockSet /\ c.address = d.address /\ c.free = d.free /\ c.size = z
      BY <3>2 DEF BlockSet
    <3> QED BY <1>3, <2>1, <3>1, <3>3 DEF Joins
  <2>4. Merge(list, b) = Append(Front(list), c)
    BY <1>1, <1>3, <2>2 DEF Merge, Joins
  <2>5. /\ Front(list) \in Seq(BlockSet) /\ Len(Front(list)) = n - 1
        /\ \A i \in 1 .. n - 1 : Front(list)[i] = list[i]
    <3>1. \A i \in 1 .. n - 1 : list[i] \in BlockSet
      BY <1>1
    <3>2. 1 \in Int /\ n - 1 \in Int
      BY <1>1
    <3>3. /\ SubSeq(list, 1, n - 1) \in Seq(BlockSet)
          /\ Len(SubSeq(list, 1, n - 1)) = IF 1 <= n - 1 THEN (n - 1) - 1 + 1 ELSE 0
          /\ \A i \in 1 .. (n - 1) - 1 + 1 : SubSeq(list, 1, n - 1)[i] = list[1 + i - 1]
      BY <3>1, <3>2, SubSeqProperties
    <3>4. Front(list) = SubSeq(list, 1, n - 1)
      BY DEF Front
    <3> QED BY <1>1, <3>3, <3>4
  <2>6. PICK f : f = Front(list)
    OBVIOUS
  <2>7. /\ Append(f, c) \in Seq(BlockSet) /\ Len(Append(f, c)) = n
        /\ Append(f, c)[n] = c
        /\ \A i \in 1 .. n - 1 : Append(f, c)[i] = list[i]
    BY <1>1, <2>3, <2>5, <2>6, AppendProperties
  <2> QED BY <1>1, <1>3, <2>3, <2>4, <2>6, <2>7 DEF MergesTo
<1> QED BY <1>2, <1>3

(* The blocks of a list end where the list does, or before.                *)
LEMMA EndsWithin ==
    ASSUME NEW list, NEW end, Tiles(list, end), Ordered(list)
    PROVE  \A j \in 1 .. Len(list) : End(list[j]) <= end
<1>1. PICK n \in Nat \ {0} : n = Len(list)
  BY EmptySeq DEF Tiles
<1>2. \A j \in 1 .. n : list[j] \in BlockSet
  BY <1>1 DEF Tiles
<1>3. \A j \in 1 .. n : list[j].address <= End(list[j]) /\ End(list[j]) \in Nat
                              /\ list[j].address \in Nat
  BY <1>2, HeapAssumption DEF End, BlockSet
<1>4. \A j \in 1 .. n - 1 : End(list[j]) <= list[n].address
  BY <1>1 DEF Ordered
<1>5. End(list[n]) = end
  BY <1>1 DEF Tiles
<1> QED BY <1>1, <1>3, <1>4, <1>5

(* What the loop keeps: the list of merged blocks is a piece of the heap   *)
(* without gaps that ends with the last block looked at.                   *)
LEMMA MergeKeepsTiles ==
    ASSUME NEW list, NEW b \in BlockSet, Tiles(list, b.address), Ordered(list), Apart(list)
    PROVE  LET m == Merge(list, b)
           IN Tiles(m, End(b)) /\ Ordered(m) /\ Apart(m)
<1>1. PICK n \in Nat \ {0} : n = Len(list)
  BY EmptySeq DEF Tiles
<1>2. PICK m : m = Merge(list, b)
  OBVIOUS
<1>3. \A j \in 1 .. n : list[j] \in BlockSet /\ End(list[j]) <= b.address
  BY <1>1, EndsWithin DEF Tiles
<1>4. HeaderSize \in Nat \ {0}
  BY HeapAssumption
<1>5. list \in Seq(BlockSet) /\ list # << >> /\ End(list[n]) = b.address
  BY <1>1 DEF Tiles
<1>6. MergesTo(list, n, b, m)
  <2>1. list \in Seq(BlockSet)
    BY <1>5
  <2> QED BY <1>1, <1>2, <2>1, MergeIs
<1>7. CASE ~Joins(list, n, b)
  <2>1. /\ m \in Seq(BlockSet) /\ Len(m) = n + 1 /\ m[n + 1] = b
        /\ \A i \in 1 .. n : m[i] = list[i]
    BY <1>7, <1>6 DEF MergesTo
  <2>2. PICK l : l = n + 1 /\ l = Len(m)
    BY <2>1
  <2>3. m # << >>
    BY <2>1
  <2>4. Tiles(m, End(b))
    <3>1. ASSUME NEW k \in 1 .. n PROVE m[k + 1].address = End(m[k])
      <4>1. CASE k = n
        BY <1>5, <2>1, <4>1
      <4>2. CASE k # n
        <5>1. k \in 1 .. n - 1 /\ k + 1 \in 1 .. n
          BY <4>2
        <5> QED BY <1>1, <2>1, <5>1 DEF Tiles
      <4> QED BY <4>1, <4>2
    <3>2. m[1].address = 0
      BY <1>1, <2>1 DEF Tiles
    <3>3. 1 .. l - 1 = 1 .. n
      BY <2>2
    <3> QED BY <2>1, <2>2, <2>3, <3>1, <3>2, <3>3 DEF Tiles
  <2>5. Ordered(m)
    BY <1>1, <1>3, <2>1, <2>2 DEF Ordered
  <2>6. Apart(m)
    BY <1>1, <1>7, <2>1, <2>2 DEF Apart, Joins
  <2> QED BY <1>2, <2>4, <2>5, <2>6
<1>8. CASE Joins(list, n, b)
  <2>1. /\ m \in Seq(BlockSet) /\ Len(m) = n
        /\ m[n].address = list[n].address /\ m[n].free
        /\ m[n].size = list[n].size + HeaderSize + b.size
        /\ \A i \in 1 .. n - 1 : m[i] = list[i]
    BY <1>8, <1>6 DEF MergesTo
  <2>2. End(m[n]) = End(b)
    <3>1. list[n] \in BlockSet
      BY <1>3
    <3>2. /\ list[n].address \in Nat /\ list[n].size \in Nat
          /\ b.address \in Nat /\ b.size \in Nat
      BY <3>1 DEF BlockSet
    <3>3. list[n].address + HeaderSize + list[n].size = b.address
      BY <1>5 DEF End
    <3>4. PICK a \in Nat, z \in Nat, y \in Nat, x \in Nat :
             a = list[n].address /\ z = list[n].size /\ x = b.address /\ y = b.size
      BY <3>2
    <3>5. m[n].address = a /\ m[n].size = z + HeaderSize + y /\ a + HeaderSize + z = x
      BY <2>1, <3>3, <3>4
    <3>6. a + HeaderSize + (z + HeaderSize + y) = x + HeaderSize + y
      BY <1>4, <3>5
    <3> QED BY <3>4, <3>5, <3>6 DEF End
  <2>3. m # << >>
    BY <2>1
  <2>4. Tiles(m, End(b))
    <3>1. ASSUME NEW k \in 1 .. n - 1 PROVE m[k + 1].address = End(m[k])
      <4>1. list[k + 1].address = End(list[k]) /\ m[k] = list[k]
        BY <1>1, <2>1 DEF Tiles
      <4>2. m[k + 1].address = list[k + 1].address
        <5>1. CASE k + 1 = n
          BY <2>1, <5>1
        <5>2. CASE k + 1 # n
          <6>1. k + 1 \in 1 .. n - 1
            BY <5>2
          <6> QED BY <2>1, <6>1
        <5> QED BY <5>1, <5>2
      <4> QED BY <4>1, <4>2
    <3>2. m[1].address = 0
      <4>1. list[1].address = 0
        BY DEF Tiles
      <4>2. CASE n = 1
        BY <2>1, <4>1, <4>2
      <4>3. CASE n # 1
        BY <2>1, <4>1, <4>3
      <4> QED BY <4>2, <4>3
    <3> QED BY <2>1, <2>2, <2>3, <3>1, <3>2 DEF Tiles
  <2>5. Ordered(m)
    BY <1>1, <2>1, SMTT(30) DEF Ordered
  <2>6. Apart(m)
    BY <1>1, <1>8, <2>1 DEF Apart, Joins
  <2> QED BY <1>2, <2>4, <2>5, <2>6
<1> QED BY <1>7, <1>8

(* x is a block of the list.                                               *)
In(list, x) == \E k \in 1 .. Len(list) : list[k] = x

(* A turn loses no block that is in use and makes none.                    *)
LEMMA MergeKeepsUsed ==
    ASSUME NEW list \in Seq(BlockSet), NEW n \in Nat \ {0}, n = Len(list),
           NEW b \in BlockSet, NEW x, ~x.free
    PROVE  In(Merge(list, b), x) <=> In(list, x) \/ x = b
<1>1. PICK m : m = Merge(list, b)
  OBVIOUS
<1>2. CASE ~Joins(list, n, b)
  <2>1. /\ Len(m) = n + 1 /\ m[n + 1] = b
        /\ \A i \in 1 .. n : m[i] = list[i]
    BY <1>1, <1>2, MergeIs, SMTT(30) DEF MergesTo
  <2>2. (\E k \in 1 .. n + 1 : m[k] = x) <=> (\E k \in 1 .. n : list[k] = x) \/ x = b
    BY <2>1
  <2> QED BY <1>1, <2>1, <2>2 DEF In
<1>3. CASE Joins(list, n, b)
  <2>1. /\ Len(m) = n /\ m[n].free
        /\ \A i \in 1 .. n - 1 : m[i] = list[i]
    BY <1>1, <1>3, MergeIs, SMTT(30) DEF MergesTo
  <2>2. m[n] # x /\ list[n] # x /\ b # x
    BY <1>3, <2>1 DEF Joins
  <2>3. (\E k \in 1 .. n : m[k] = x) <=> (\E k \in 1 .. n : list[k] = x)
    <3>1. \A k \in 1 .. n : k # n => m[k] = list[k]
      BY <2>1
    <3> QED BY <2>2, <3>1
  <2> QED BY <1>1, <2>1, <2>2, <2>3 DEF In
<1> QED BY <1>2, <1>3

(* What the loop has made of the first n blocks                            *)
MergedRight(list, n) ==
    LET m == MergedUpTo(list)[n]
    IN /\ Tiles(m, End(list[n])) /\ Ordered(m) /\ Apart(m)
       /\ \A x : ~x.free => (In(m, x) <=> \E k \in 1 .. n : list[k] = x)

(* After the first turn the list is the first block.                       *)
LEMMA FirstTurn ==
    ASSUME NEW list, NEW end, Tiles(list, end)
    PROVE  MergedRight(list, 1)
<1>1. Len(list) \in Nat \ {0} /\ list[1] \in BlockSet /\ list[1].address = 0
  BY EmptySeq DEF Tiles
<1>2. PICK b \in BlockSet : b = list[1]
  BY <1>1
<1>3. MergedUpTo(list)[1] = << b >>
  <2>1. MergedUpTo(list)[1] = Merge(MergedUpTo(list)[0], list[1]) /\ MergedUpTo(list)[0] = << >>
    BY <1>1, MergingLoop
  <2>2. Merge(<< >>, b) = Append(<< >>, b)
    BY DEF Merge
  <2> QED BY <1>2, <2>1, <2>2
<1>4. PICK m : m = << b >>
  OBVIOUS
<1>5. m \in Seq(BlockSet) /\ m # << >> /\ Len(m) = 1 /\ m[1] = b
  BY <1>4
<1>6. Tiles(m, End(b)) /\ Ordered(m) /\ Apart(m)
  BY <1>1, <1>2, <1>5 DEF Tiles, Ordered, Apart
<1>7. \A x : In(m, x) <=> \E k \in 1 .. 1 : list[k] = x
  BY <1>2, <1>5 DEF In
<1> QED BY <1>2, <1>3, <1>4, <1>6, <1>7 DEF MergedRight

(* If the loop is right after a turn it is right after the next one.       *)
LEMMA NextTurn ==
    ASSUME NEW list, NEW end, Tiles(list, end), NEW n \in 1 .. Len(list) - 1,
           MergedRight(list, n)
    PROVE  MergedRight(list, n + 1)
<1>1. Len(list) \in Nat \ {0} /\ n + 1 \in 1 .. Len(list) /\ list[n + 1] \in BlockSet
  BY EmptySeq DEF Tiles
<1>2. PICK b \in BlockSet : b = list[n + 1]
  BY <1>1
<1>3. PICK l : l = MergedUpTo(list)[n]
  OBVIOUS
<1>4. MergedUpTo(list)[n + 1] = Merge(l, b)
  <2>1. MergedUpTo(list)[n + 1] = Merge(MergedUpTo(list)[(n + 1) - 1], list[n + 1])
    BY <1>1, MergingLoop
  <2>2. (n + 1) - 1 = n
    OBVIOUS
  <2> QED BY <1>2, <1>3, <2>1, <2>2
<1>5. b.address = End(list[n])
  BY <1>2 DEF Tiles
<1>6. Tiles(l, b.address) /\ Ordered(l) /\ Apart(l)
  BY <1>3, <1>5 DEF MergedRight
<1>7. Tiles(Merge(l, b), End(b)) /\ Ordered(Merge(l, b)) /\ Apart(Merge(l, b))
  BY <1>6, MergeKeepsTiles
<1>8. ASSUME NEW x, ~x.free
      PROVE  In(Merge(l, b), x) <=> \E k \in 1 .. n + 1 : list[k] = x
  <2>1. l \in Seq(BlockSet) /\ Len(l) \in Nat \ {0}
    BY <1>6, EmptySeq DEF Tiles
  <2>2. In(Merge(l, b), x) <=> In(l, x) \/ x = b
    BY <1>8, <2>1, MergeKeepsUsed
  <2>3. In(l, x) <=> \E k \in 1 .. n : list[k] = x
    BY <1>3, <1>8 DEF MergedRight
  <2>4. \A k : k \in 1 .. n + 1 <=> k \in 1 .. n \/ k = n + 1
    BY <1>1
  <2> QED BY <1>2, <2>2, <2>3, <2>4
<1> QED BY <1>2, <1>4, <1>7, <1>8 DEF MergedRight

(* The list after the loop, by the least turn that would not be right      *)
LEMMA LoopMerges ==
    ASSUME NEW list, NEW end, Tiles(list, end)
    PROVE  /\ Tiles(Merged(list), end) /\ Ordered(Merged(list)) /\ Apart(Merged(list))
           /\ \A x : ~x.free => (In(Merged(list), x) <=> In(list, x))
<1>1. PICK l \in Nat \ {0} : l = Len(list)
  BY EmptySeq DEF Tiles
<1>2. ASSUME NEW n \in 1 .. l PROVE MergedRight(list, n)
  <2> DEFINE Wrong == {k \in 1 .. l : ~MergedRight(list, k)}
  <2> SUFFICES ASSUME Wrong # {} PROVE FALSE
    OBVIOUS
  <2>1. PICK m \in Wrong : \A k \in Wrong : m <= k
    <3>1. Wrong \subseteq Nat
      OBVIOUS
    <3> HIDE DEF Wrong
    <3> QED BY <3>1, LeastNumber
  <2>2. m \in 1 .. l /\ ~MergedRight(list, m)
    OBVIOUS
  <2>3. m # 1
    BY <2>2, FirstTurn
  <2>4. m - 1 \in 1 .. Len(list) - 1 /\ m - 1 \notin Wrong
    BY <1>1, <2>1, <2>2, <2>3
  <2>5. MergedRight(list, m - 1)
    BY <1>1, <2>2, <2>4
  <2>6. MergedRight(list, (m - 1) + 1)
    BY <2>4, <2>5, NextTurn
  <2> QED BY <2>2, <2>6
<1>3. MergedRight(list, l) /\ End(list[l]) = end
  BY <1>1, <1>2 DEF Tiles
<1> QED BY <1>1, <1>3 DEF MergedRight, Merged, In

-----------------------------------------------------------------------------
(* kfree                                                                   *)

(* Two blocks of an ordered list are at different addresses.               *)
LEMMA PointersDiffer ==
    ASSUME NEW list \in Seq(BlockSet), Ordered(list),
           NEW j \in 1 .. Len(list), NEW k \in 1 .. Len(list), Pointer(list[j]) = Pointer(list[k])
    PROVE  j = k
<1>1. PICK a \in BlockSet, b \in BlockSet : a = list[j] /\ b = list[k]
  OBVIOUS
<1>2. a.address \in Nat /\ a.size \in Nat /\ b.address \in Nat /\ b.size \in Nat
      /\ HeaderSize \in Nat \ {0}
  BY HeapAssumption DEF BlockSet
<1>3. a.address = b.address
  BY <1>1, <1>2, SMTT(30) DEF Pointer
<1>4. Len(list) \in Nat
  OBVIOUS
<1>5. CASE j < k
  <2>1. a.address + HeaderSize + a.size <= b.address
    BY <1>1, <1>5 DEF Ordered, End
  <2> QED BY <1>2, <1>3, <2>1
<1>6. CASE k < j
  <2>1. b.address + HeaderSize + b.size <= a.address
    BY <1>1, <1>6 DEF Ordered, End
  <2> QED BY <1>2, <1>3, <2>1
<1> QED BY <1>4, <1>5, <1>6

(* kfree keeps the invariant: the block of the pointer, and no other, is   *)
(* free afterwards, and the loop keeps the blocks that are in use.         *)
LEMMA KfreeKeepsInv ==
    ASSUME HeapInv, NEW h \in held, Kfree(h)
    PROVE  HeapInv'
<1>1. PICK n \in Nat \ {0} : n = Len(blocks) /\ blocks \in Seq(BlockSet)
  BY EmptySeq DEF HeapInv, Tiles
<1>2. PICK marked : marked = [k \in DOMAIN blocks |->
                                IF Pointer(blocks[k]) = h.pointer
                                THEN [blocks[k] EXCEPT !.free = TRUE] ELSE blocks[k]]
  OBVIOUS
<1>3. blocks' = Merged(marked) /\ held' = held \ {h}
  BY <1>2 DEF Kfree
<1>4. ASSUME NEW k \in 1 .. n
      PROVE  /\ marked[k] \in BlockSet
             /\ marked[k].address = blocks[k].address /\ marked[k].size = blocks[k].size
             /\ Pointer(blocks[k]) = h.pointer => marked[k].free
             /\ Pointer(blocks[k]) # h.pointer => marked[k] = blocks[k]
  <2>1. blocks[k] \in BlockSet /\ k \in DOMAIN blocks
    BY <1>1
  <2>2. CASE Pointer(blocks[k]) = h.pointer
    <3>1. marked[k] = [blocks[k] EXCEPT !.free = TRUE]
      BY <1>2, <2>1, <2>2
    <3>2. PICK b \in BlockSet : b = blocks[k]
      BY <2>1
    <3>3. marked[k] = [b EXCEPT !.free = TRUE]
      BY <3>1, <3>2
    <3> QED BY <2>2, <3>2, <3>3 DEF BlockSet
  <2>3. CASE Pointer(blocks[k]) # h.pointer
    BY <1>2, <2>1, <2>3
  <2> QED BY <2>2, <2>3
<1>5. Len(marked) = n /\ marked \in Seq(BlockSet) /\ marked # << >>
  <2>1. DOMAIN blocks = 1 .. n
    BY <1>1
  <2>2. marked \in [1 .. n -> BlockSet]
    BY <1>2, <1>4, <2>1
  <2> QED BY <2>2
<1>6. \A k \in 1 .. n : End(marked[k]) = End(blocks[k])
  BY <1>4 DEF End
<1>7. Tiles(marked, HeapSize)
  <2>1. /\ blocks[1].address = 0 /\ End(blocks[n]) = HeapSize
        /\ \A k \in 1 .. n - 1 : blocks[k + 1].address = End(blocks[k])
    BY <1>1 DEF HeapInv, Tiles
  <2>2. /\ marked[1].address = 0 /\ End(marked[n]) = HeapSize
        /\ \A k \in 1 .. n - 1 : marked[k + 1].address = End(marked[k])
    BY <1>4, <1>6, <2>1
  <2> QED BY <1>5, <2>2 DEF Tiles
<1>8. /\ Tiles(blocks', HeapSize) /\ Ordered(blocks') /\ Apart(blocks')
      /\ \A x : ~x.free => (In(blocks', x) <=> In(marked, x))
  BY <1>3, <1>7, LoopMerges
<1>9. blocks' \in Seq(BlockSet)
  BY <1>8 DEF Tiles
<1>10. /\ Ordered(blocks) /\ HeldBlocks
  BY DEF HeapInv
<1>11. ASSUME NEW g \in held'
       PROVE  \E k \in DOMAIN blocks' :
                 /\ Pointer(blocks'[k]) = g.pointer /\ ~blocks'[k].free
                 /\ blocks'[k].size >= g.size
  <2>1. g \in held /\ g # h /\ g.pointer # h.pointer
    BY <1>3, <1>10, <1>11 DEF HeldBlocks
  <2>2. PICK k \in DOMAIN blocks :
           Pointer(blocks[k]) = g.pointer /\ ~blocks[k].free /\ blocks[k].size >= g.size
    BY <1>10, <2>1 DEF HeldBlocks
  <2>3. k \in 1 .. n /\ marked[k] = blocks[k]
    BY <1>1, <1>4, <2>1, <2>2
  <2>4. In(marked, blocks[k])
    BY <1>5, <2>3 DEF In
  <2>5. In(blocks', blocks[k])
    BY <1>8, <2>2, <2>4
  <2>6. PICK j \in 1 .. Len(blocks') : blocks'[j] = blocks[k]
    BY <2>5 DEF In
  <2>7. j \in DOMAIN blocks'
    BY <1>9
  <2> QED BY <2>2, <2>6, <2>7
<1>12. ASSUME NEW k \in DOMAIN blocks', ~blocks'[k].free
       PROVE  \E g \in held' : g.pointer = Pointer(blocks'[k])
  <2>1. In(blocks', blocks'[k])
    BY <1>9 DEF In
  <2>2. In(marked, blocks'[k])
    BY <1>8, <1>12, <2>1
  <2>3. PICK j \in 1 .. n : marked[j] = blocks'[k]
    BY <1>5, <2>2 DEF In
  <2>4. Pointer(blocks[j]) # h.pointer /\ marked[j] = blocks[j]
    BY <1>4, <1>12, <2>3
  <2>5. PICK g \in held : g.pointer = Pointer(blocks[j])
    <3>1. j \in DOMAIN blocks /\ ~blocks[j].free
      BY <1>1, <1>12, <2>3, <2>4
    <3> QED BY <1>10, <3>1 DEF HeldBlocks
  <2>6. g \in held'
    BY <1>3, <2>4, <2>5
  <2> QED BY <2>3, <2>4, <2>5, <2>6
<1>13. \A g, f \in held' : g.pointer = f.pointer => g = f
  BY <1>3, <1>10 DEF HeldBlocks
<1>14. HeldBlocks'
  BY <1>11, <1>12, <1>13 DEF HeldBlocks, Pointer
<1>15. held' \subseteq [pointer : Nat, size : Sizes]
  BY <1>3 DEF HeapInv
<1> QED BY <1>8, <1>14, <1>15 DEF HeapInv

-----------------------------------------------------------------------------
(* kmalloc                                                                 *)

(* A size that align_size makes something of fits into the result: sizes   *)
(* at the top of the range wrap to zero and are refused.                   *)
LEMMA AlignedFits ==
    ASSUME NEW size \in 0 .. HeapWord - 1, AlignSize(size) # 0
    PROVE  AlignSize(size) \in Nat /\ size <= AlignSize(size)
<1>1. HeapWord \in Nat \ {0} /\ Alignment \in Nat \ {0} /\ Alignment < HeapWord
  BY HeapAssumption
<1>2. PICK up \in Nat : up = size + Alignment - 1
  BY <1>1
<1>3. PICK sum : sum = up % HeapWord
  OBVIOUS
<1>4. AlignSize(size) = sum - (sum % Alignment)
  BY <1>2, <1>3 DEF AlignSize
<1>5. CASE up < HeapWord
  <2>1. sum = up
    BY <1>1, <1>3, <1>5
  <2>2. PICK r \in 0 .. Alignment - 1 : r = sum % Alignment
    BY <1>1, <2>1
  <2>3. r <= sum
    BY <1>1, <2>1, <2>2
  <2> QED BY <1>1, <1>2, <1>4, <2>1, <2>2, <2>3
<1>6. CASE ~(up < HeapWord)
  <2>1. sum = up - HeapWord
    BY <1>1, <1>2, <1>3, <1>6
  <2>2. sum \in Nat /\ sum < Alignment
    BY <1>1, <1>2, <1>6, <2>1
  <2>3. sum % Alignment = sum
    BY <1>1, <2>2
  <2>4. AlignSize(size) = 0
    BY <1>4, <2>2, <2>3
  <2> QED BY <2>4
<1> QED BY <1>5, <1>6

(* Some blocks take the place of the block k.                              *)
Spliced(list, k, c) == SubSeq(list, 1, k - 1) \o c \o SubSeq(list, k + 1, Len(list))

(* What is then at each place                                              *)
Placed(m, list, n, k, c, l) ==
    /\ Len(m) = n + l - 1
    /\ \A i \in 1 .. k - 1 : m[i] = list[i]
    /\ \A i \in 1 .. l : m[k - 1 + i] = c[i]
    /\ \A i \in k + 1 .. n : m[i + l - 1] = list[i]

(* The blocks before keep their place, those behind move up or down.       *)
LEMMA SplicedIs ==
    ASSUME NEW S, NEW list \in Seq(S), NEW n \in Nat, n = Len(list), NEW k \in 1 .. n,
           NEW c \in Seq(S), NEW l \in Nat, l = Len(c), NEW m, m = Spliced(list, k, c)
    PROVE  m \in Seq(S) /\ Placed(m, list, n, k, c, l)
<1>1. PICK p : p = SubSeq(list, 1, k - 1)
  OBVIOUS
<1>2. PICK q : q = SubSeq(list, k + 1, n)
  OBVIOUS
<1>3. p \in Seq(S) /\ Len(p) = k - 1 /\ \A i \in 1 .. k - 1 : p[i] = list[i]
  <2>1. \A i \in 1 .. k - 1 : list[i] \in S
    OBVIOUS
  <2>2. 1 \in Int /\ k - 1 \in Int
    OBVIOUS
  <2>3. /\ p \in Seq(S)
        /\ Len(p) = IF 1 <= k - 1 THEN (k - 1) - 1 + 1 ELSE 0
        /\ \A i \in 1 .. (k - 1) - 1 + 1 : p[i] = list[1 + i - 1]
    BY <1>1, <2>1, <2>2, SubSeqProperties
  <2> QED BY <2>3
<1>4. q \in Seq(S) /\ Len(q) = n - k /\ \A i \in 1 .. n - k : q[i] = list[k + i]
  <2>1. \A i \in k + 1 .. n : list[i] \in S
    OBVIOUS
  <2>2. k + 1 \in Int /\ n \in Int
    OBVIOUS
  <2>3. /\ q \in Seq(S)
        /\ Len(q) = IF k + 1 <= n THEN n - (k + 1) + 1 ELSE 0
        /\ \A i \in 1 .. n - (k + 1) + 1 : q[i] = list[(k + 1) + i - 1]
    BY <1>2, <2>1, <2>2, SubSeqProperties
  <2>4. \A i \in 1 .. n - k : (k + 1) + i - 1 = k + i
    OBVIOUS
  <2> QED BY <2>3, <2>4
<1>5. PICK a : a = p \o c
  OBVIOUS
<1>6. m = a \o q
  BY <1>1, <1>2, <1>5 DEF Spliced
<1>7. /\ a \in Seq(S) /\ Len(a) = k - 1 + l
      /\ \A i \in 1 .. k - 1 + l : a[i] = IF i <= k - 1 THEN p[i] ELSE c[i - (k - 1)]
  BY <1>3, <1>5, ConcatProperties
<1>8. PICK z \in Nat : z = k - 1 + l
  <2>1. k - 1 + l \in Nat
    OBVIOUS
  <2> QED BY <2>1, Zenon
<1>9. /\ m \in Seq(S) /\ Len(m) = z + (n - k)
      /\ \A i \in 1 .. z + (n - k) : m[i] = IF i <= z THEN a[i] ELSE q[i - z]
  <2>1. /\ m \in Seq(S) /\ Len(m) = Len(a) + Len(q)
        /\ \A i \in 1 .. Len(a) + Len(q) : m[i] = IF i <= Len(a) THEN a[i] ELSE q[i - Len(a)]
    <3>1. a \in Seq(S) /\ q \in Seq(S)
      BY <1>4, <1>7
    <3> QED BY <1>6, <3>1, ConcatProperties
  <2>2. Len(a) = z /\ Len(q) = n - k
    BY <1>4, <1>7, <1>8
  <2> QED BY <2>1, <2>2
<1>10. \A i \in 1 .. k - 1 : m[i] = list[i]
  <2> SUFFICES ASSUME NEW i \in 1 .. k - 1 PROVE m[i] = list[i]
    OBVIOUS
  <2>1. i <= k - 1 /\ i \in 1 .. z /\ i \in 1 .. z + (n - k)
    BY <1>8
  <2> QED BY <1>3, <1>7, <1>8, <1>9, <2>1
<1>11. \A i \in 1 .. l : m[k - 1 + i] = c[i]
  <2> SUFFICES ASSUME NEW i \in 1 .. l PROVE m[k - 1 + i] = c[i]
    OBVIOUS
  <2>1. PICK j : j = k - 1 + i
    OBVIOUS
  <2>2. j \in 1 .. z /\ ~(j <= k - 1) /\ j - (k - 1) = i
    BY <1>8, <2>1
  <2> QED BY <1>7, <1>8, <1>9, <2>1, <2>2, SMTT(30)
<1>12. \A i \in k + 1 .. n : m[i + l - 1] = list[i]
  <2> SUFFICES ASSUME NEW i \in k + 1 .. n PROVE m[i + l - 1] = list[i]
    OBVIOUS
  <2>1. PICK j : j = i + l - 1
    OBVIOUS
  <2>2. j \in 1 .. z + (n - k) /\ ~(j <= z) /\ j - z = i - k /\ i - k \in 1 .. n - k /\ k + (i - k) = i
    BY <1>8, <2>1
  <2> QED BY <1>4, <1>9, <2>1, <2>2
<1>13. Len(m) = n + l - 1
  BY <1>8, <1>9
<1> QED BY <1>9, <1>10, <1>11, <1>12, <1>13 DEF Placed

(* The list with x, or x and y, in the place of the block k                *)
Replaced(m, list, n, k, x) ==
    /\ Len(m) = n /\ m[k] = x
    /\ \A i \in 1 .. n : i # k => m[i] = list[i]

Divided(m, list, n, k, x, y) ==
    /\ Len(m) = n + 1 /\ m[k] = x /\ m[k + 1] = y
    /\ \A i \in 1 .. k - 1 : m[i] = list[i]
    /\ \A i \in k + 1 .. n : m[i + 1] = list[i]

(* One block takes the place of another.                                   *)
LEMMA SpliceOne ==
    ASSUME NEW S, NEW list \in Seq(S), NEW n \in Nat, n = Len(list), NEW k \in 1 .. n,
           NEW c \in Seq(S), Len(c) = 1, NEW m, m = Spliced(list, k, c)
    PROVE  m \in Seq(S) /\ Replaced(m, list, n, k, c[1])
<1>2. PICK l \in Nat : l = 1
  OBVIOUS
<1>3. l = Len(c)
  BY <1>2
<1>1. m \in Seq(S) /\ Placed(m, list, n, k, c, l)
  BY <1>3, SplicedIs
<1>4. /\ Len(m) = n + l - 1
      /\ \A i \in 1 .. k - 1 : m[i] = list[i]
      /\ \A i \in 1 .. l : m[k - 1 + i] = c[i]
      /\ \A i \in k + 1 .. n : m[i + l - 1] = list[i]
  BY <1>1 DEF Placed
<1>5. Len(m) = n
  BY <1>2, <1>4
<1>6. m[k] = c[1]
  <2>1. k - 1 + 1 = k /\ 1 \in 1 .. l
    BY <1>2
  <2> QED BY <1>4, <2>1
<1>7. \A i \in k + 1 .. n : m[i] = list[i]
  <2> SUFFICES ASSUME NEW i \in k + 1 .. n PROVE m[i] = list[i]
    OBVIOUS
  <2>1. i + l - 1 = i
    BY <1>2
  <2> QED BY <1>4, <2>1
<1>8. \A i \in 1 .. n : i # k => i \in 1 .. k - 1 \/ i \in k + 1 .. n
  OBVIOUS
<1> QED BY <1>1, <1>4, <1>5, <1>6, <1>7, <1>8 DEF Replaced

(* Two blocks take the place of one.                                       *)
LEMMA SpliceTwo ==
    ASSUME NEW S, NEW list \in Seq(S), NEW n \in Nat, n = Len(list), NEW k \in 1 .. n,
           NEW c \in Seq(S), Len(c) = 2, NEW m, m = Spliced(list, k, c)
    PROVE  m \in Seq(S) /\ Divided(m, list, n, k, c[1], c[2])
<1>2. PICK l \in Nat : l = 2
  OBVIOUS
<1>3. l = Len(c)
  BY <1>2
<1>1. m \in Seq(S) /\ Placed(m, list, n, k, c, l)
  BY <1>3, SplicedIs
<1>4. /\ Len(m) = n + l - 1
      /\ \A i \in 1 .. k - 1 : m[i] = list[i]
      /\ \A i \in 1 .. l : m[k - 1 + i] = c[i]
      /\ \A i \in k + 1 .. n : m[i + l - 1] = list[i]
  BY <1>1 DEF Placed
<1>5. Len(m) = n + 1
  BY <1>2, <1>4
<1>6. m[k] = c[1] /\ m[k + 1] = c[2]
  <2>1. k - 1 + 1 = k /\ k - 1 + 2 = k + 1 /\ 1 \in 1 .. l /\ 2 \in 1 .. l
    BY <1>2
  <2> QED BY <1>4, <2>1
<1>7. \A i \in k + 1 .. n : m[i + 1] = list[i]
  <2> SUFFICES ASSUME NEW i \in k + 1 .. n PROVE m[i + 1] = list[i]
    OBVIOUS
  <2>1. i + l - 1 = i + 1
    BY <1>2
  <2> QED BY <1>4, <2>1
<1> QED BY <1>1, <1>4, <1>5, <1>6, <1>7 DEF Divided

(* A block that is taken from the list for a caller.                       *)
LEMMA TakenIsHeld ==
    ASSUME HeapInv, NEW k \in 1 .. Len(blocks), blocks[k].free, NEW size \in Sizes,
           NEW x \in BlockSet, ~x.free, x.address = blocks[k].address, size <= x.size,
           blocks' \in Seq(BlockSet),
           \A w : ~w.free => (In(blocks', w) <=> In(blocks, w) \/ w = x),
           held' = held \union {[pointer |-> Pointer(blocks[k]), size |-> size]}
    PROVE  HeldBlocks' /\ held' \subseteq [pointer : Nat, size : Sizes]
<1>1. blocks \in Seq(BlockSet) /\ HeldBlocks /\ Ordered(blocks)
  BY DEF HeapInv, Tiles
<1>2. PICK new : new = [pointer |-> Pointer(blocks[k]), size |-> size]
  OBVIOUS
<1>3. new.pointer = Pointer(x) /\ new.pointer = Pointer(blocks[k]) /\ new.size = size
  BY <1>2 DEF Pointer
<1>4. ASSUME NEW h \in held PROVE h.pointer # new.pointer
  <2>1. PICK j \in DOMAIN blocks : Pointer(blocks[j]) = h.pointer /\ ~blocks[j].free
    BY <1>1 DEF HeldBlocks
  <2>2. j \in 1 .. Len(blocks) /\ j # k
    BY <1>1, <2>1
  <2> QED BY <1>1, <1>3, <2>1, <2>2, PointersDiffer
<1>5. ASSUME NEW h \in held'
      PROVE  \E j \in DOMAIN blocks' :
                /\ Pointer(blocks'[j]) = h.pointer /\ ~blocks'[j].free
                /\ blocks'[j].size >= h.size
  <2>1. PICK w : In(blocks', w) /\ ~w.free /\ Pointer(w) = h.pointer /\ w.size >= h.size
    <3>1. CASE h = new
      <4>1. In(blocks', x)
        OBVIOUS
      <4>2. x.size \in Nat /\ size \in Nat
        BY HeapAssumption DEF BlockSet
      <4>3. x.size >= size
        BY <4>2
      <4> QED BY <1>3, <3>1, <4>1, <4>3
    <3>2. CASE h \in held
      <4>1. PICK j \in DOMAIN blocks :
               Pointer(blocks[j]) = h.pointer /\ ~blocks[j].free /\ blocks[j].size >= h.size
        BY <1>1, <3>2 DEF HeldBlocks
      <4>2. In(blocks, blocks[j])
        BY <1>1 DEF In
      <4> QED BY <4>1, <4>2
    <3> QED BY <1>2, <3>1, <3>2
  <2>2. PICK j \in 1 .. Len(blocks') : blocks'[j] = w
    BY <2>1 DEF In
  <2>3. j \in DOMAIN blocks'
    OBVIOUS
  <2> QED BY <2>1, <2>2, <2>3
<1>6. ASSUME NEW j \in DOMAIN blocks', ~blocks'[j].free
      PROVE  \E h \in held' : h.pointer = Pointer(blocks'[j])
  <2>1. In(blocks', blocks'[j])
    BY DEF In
  <2>2. CASE blocks'[j] = x
    <3>1. new \in held'
      BY <1>2
    <3> QED BY <1>3, <2>2, <3>1
  <2>3. CASE In(blocks, blocks'[j])
    <3>1. PICK i \in 1 .. Len(blocks) : blocks[i] = blocks'[j]
      BY <2>3 DEF In
    <3>2. i \in DOMAIN blocks /\ ~blocks[i].free
      BY <1>1, <1>6, <3>1
    <3>3. PICK h \in held : h.pointer = Pointer(blocks[i])
      BY <1>1, <3>2 DEF HeldBlocks
    <3> QED BY <3>1, <3>3
  <2> QED BY <1>6, <2>1, <2>2, <2>3
<1>7. \A g, h \in held' : g.pointer = h.pointer => g = h
  BY <1>1, <1>2, <1>4 DEF HeldBlocks
<1>8. HeldBlocks'
  BY <1>5, <1>6, <1>7 DEF HeldBlocks, Pointer
<1>9. new \in [pointer : Nat, size : Sizes]
  <2>1. blocks[k] \in BlockSet
    BY <1>1
  <2>2. Pointer(blocks[k]) \in Nat
    BY <2>1, HeapAssumption, SMTT(30) DEF Pointer, BlockSet
  <2> QED BY <1>2, <2>2
<1> QED BY <1>2, <1>8, <1>9 DEF HeapInv

(* The block is used as it is.                                             *)
LEMMA TakeWhole ==
    ASSUME NEW list, NEW end, Tiles(list, end), Ordered(list), Apart(list),
           NEW k \in 1 .. Len(list), list[k].free,
           NEW x \in BlockSet, ~x.free, x.address = list[k].address, End(x) = End(list[k]),
           NEW c \in Seq(BlockSet), Len(c) = 1, c[1] = x, NEW m, m = Spliced(list, k, c)
    PROVE  /\ Tiles(m, end) /\ Ordered(m) /\ Apart(m)
           /\ \A w : ~w.free => (In(m, w) <=> In(list, w) \/ w = x)
<1>1. PICK n \in Nat \ {0} : n = Len(list) /\ list \in Seq(BlockSet)
  BY EmptySeq DEF Tiles
<1>4. m \in Seq(BlockSet) /\ Replaced(m, list, n, k, x)
  BY <1>1, SpliceOne
<1>5. /\ Len(m) = n /\ m[k] = x
      /\ \A i \in 1 .. n : i # k => m[i] = list[i]
  BY <1>4 DEF Replaced
<1>6. \A i \in 1 .. n : m[i].address = list[i].address /\ End(m[i]) = End(list[i])
  BY <1>5
<1>7. Tiles(m, end)
  <2>1. /\ list[1].address = 0 /\ End(list[n]) = end
        /\ \A i \in 1 .. n - 1 : list[i + 1].address = End(list[i])
    BY <1>1 DEF Tiles
  <2>2. /\ m[1].address = 0 /\ End(m[n]) = end
        /\ \A i \in 1 .. n - 1 : m[i + 1].address = End(m[i])
    BY <1>6, <2>1
  <2>3. m # << >>
    BY <1>1, <1>5
  <2> QED BY <1>4, <1>5, <2>2, <2>3 DEF Tiles
<1>8. Ordered(m)
  BY <1>1, <1>5, <1>6 DEF Ordered
<1>9. Apart(m)
  BY <1>1, <1>5 DEF Apart
<1>10. ASSUME NEW w, ~w.free PROVE In(m, w) <=> In(list, w) \/ w = x
  <2>1. (\E i \in 1 .. n : m[i] = w) <=> (\E i \in 1 .. n : list[i] = w) \/ w = x
    BY <1>1, <1>5, <1>10
  <2> QED BY <1>1, <1>5, <2>1 DEF In
<1> QED BY <1>7, <1>8, <1>9, <1>10

(* The block is split: the caller gets its first part, the rest stays      *)
(* free.                                                                   *)
LEMMA TakeSplit ==
    ASSUME NEW list, NEW end, Tiles(list, end), Ordered(list), Apart(list),
           NEW k \in 1 .. Len(list), list[k].free,
           NEW x \in BlockSet, ~x.free, x.address = list[k].address,
           NEW y \in BlockSet, y.free, y.address = End(x), End(y) = End(list[k]),
           NEW c \in Seq(BlockSet), Len(c) = 2, c[1] = x, c[2] = y,
           NEW m, m = Spliced(list, k, c)
    PROVE  /\ Tiles(m, end) /\ Ordered(m) /\ Apart(m)
           /\ \A w : ~w.free => (In(m, w) <=> In(list, w) \/ w = x)
<1>1. PICK n \in Nat \ {0} : n = Len(list) /\ list \in Seq(BlockSet)
  BY EmptySeq DEF Tiles
<1>2. m \in Seq(BlockSet) /\ Divided(m, list, n, k, x, y)
  BY <1>1, SpliceTwo
<1>3. /\ Len(m) = n + 1 /\ m[k] = x /\ m[k + 1] = y
      /\ \A i \in 1 .. k - 1 : m[i] = list[i]
      /\ \A i \in k + 1 .. n : m[i + 1] = list[i]
  BY <1>2 DEF Divided
<1>4. /\ list[1].address = 0 /\ End(list[n]) = end
      /\ \A i \in 1 .. n - 1 : list[i + 1].address = End(list[i])
  BY <1>1 DEF Tiles
<1>5. \A i \in k + 2 .. n + 1 : i - 1 \in k + 1 .. n /\ m[i] = list[i - 1]
  <2> SUFFICES ASSUME NEW i \in k + 2 .. n + 1
               PROVE  i - 1 \in k + 1 .. n /\ m[i] = list[i - 1]
    OBVIOUS
  <2>1. i - 1 \in k + 1 .. n /\ (i - 1) + 1 = i
    BY <1>1
  <2> QED BY <1>3, <2>1
<1>6. /\ \A i \in 1 .. n : list[i] \in BlockSet
      /\ \A i \in 1 .. n + 1 : m[i] \in BlockSet
  BY <1>1, <1>2, <1>3
<1>7. /\ \A i \in 1 .. n : list[i].address \in Nat /\ End(list[i]) \in Nat
                          /\ list[i].address <= End(list[i])
      /\ End(x) \in Nat /\ End(y) \in Nat /\ End(x) <= End(y) /\ x.address <= End(x)
      /\ x.address \in Nat
  <2>1. x.address <= End(x) /\ y.address <= End(y) /\ End(x) \in Nat /\ End(y) \in Nat
    BY BlockEnds
  <2>2. \A i \in 1 .. n : list[i].address \in Nat /\ End(list[i]) \in Nat
                          /\ list[i].address <= End(list[i])
    BY <1>6, BlockEnds
  <2>3. x.address \in Nat
    BY BlockEnds
  <2> QED BY <2>1, <2>2, <2>3
<1>8. Tiles(m, end)
  <2>1. m[1].address = 0
    BY <1>1, <1>3, <1>4
  <2>2. End(m[n + 1]) = end
    <3>1. CASE k = n
      BY <1>3, <1>4, <3>1
    <3>2. CASE k # n
      <4>1. n \in k + 1 .. n
        BY <1>1, <3>2
      <4> QED BY <1>3, <1>4, <4>1
    <3> QED BY <3>1, <3>2
  <2>3. ASSUME NEW i \in 1 .. n PROVE m[i + 1].address = End(m[i])
    <3>1. CASE i \in 1 .. k - 2
      <4>1. i \in 1 .. k - 1 /\ i + 1 \in 1 .. k - 1 /\ i \in 1 .. n - 1
        BY <1>1, <3>1
      <4> QED BY <1>3, <1>4, <4>1
    <3>2. CASE i = k - 1
      <4>1. i \in 1 .. k - 1 /\ i + 1 = k /\ i \in 1 .. n - 1
        BY <1>1, <3>2
      <4> QED BY <1>3, <1>4, <4>1
    <3>3. CASE i = k
      BY <1>3, <3>3
    <3>4. CASE i = k + 1
      <4>1. i + 1 \in k + 2 .. n + 1 /\ (i + 1) - 1 = k + 1 /\ k \in 1 .. n - 1
        BY <1>1, <3>4
      <4> QED BY <1>3, <1>4, <1>5, <3>4, <4>1, SMTT(30)
    <3>5. CASE i \in k + 2 .. n
      <4>1. /\ i + 1 \in k + 2 .. n + 1 /\ i \in k + 2 .. n + 1 /\ (i + 1) - 1 = i
            /\ i - 1 \in 1 .. n - 1 /\ (i - 1) + 1 = i
        BY <1>1, <3>5
      <4>2. m[i + 1] = list[i] /\ m[i] = list[i - 1]
        <5>1. m[i + 1] = list[(i + 1) - 1] /\ m[i] = list[i - 1]
          BY <1>5, <4>1, Zenon
        <5> QED BY <4>1, <5>1
      <4>3. list[i].address = End(list[i - 1])
        <5>1. list[(i - 1) + 1].address = End(list[i - 1])
          BY <1>4, <4>1, Zenon
        <5> QED BY <4>1, <5>1
      <4> QED BY <4>2, <4>3
    <3> QED BY <1>1, <3>1, <3>2, <3>3, <3>4, <3>5
  <2>4. m # << >>
    BY <1>1, <1>3
  <2>5. PICK z \in Nat : z = n + 1
    BY <1>1
  <2>6. /\ m \in Seq(BlockSet) /\ Len(m) = z /\ z - 1 = n
    BY <1>2, <1>3, <2>5
  <2>7. /\ \A i \in 1 .. Len(m) - 1 : m[i + 1].address = End(m[i])
        /\ End(m[Len(m)]) = end
    BY <2>2, <2>3, <2>5, <2>6
  <2> QED BY <2>1, <2>4, <2>6, <2>7 DEF Tiles
<1>9. Ordered(m)
  <2> SUFFICES ASSUME NEW i \in 1 .. n + 1, NEW j \in 1 .. n + 1, i < j
               PROVE  End(m[i]) <= m[j].address
    BY <1>3 DEF Ordered
  <2>1. \A a, b \in 1 .. n : a < b => End(list[a]) <= list[b].address
    BY <1>1 DEF Ordered
  <2>2. CASE j <= k
    <3>1. i \in 1 .. k - 1 /\ i \in 1 .. n /\ j \in 1 .. n /\ (j = k \/ j \in 1 .. k - 1)
      BY <1>1, <2>2
    <3> QED BY <1>3, <2>1, <3>1
  <2>3. CASE j = k + 1
    <3>1. CASE i = k
      <4>1. End(x) <= End(x)
        BY <1>7
      <4> QED BY <1>3, <2>3, <3>1, <4>1
    <3>2. CASE i \in 1 .. k - 1
      <4>1. i \in 1 .. n /\ i < k
        BY <1>1, <3>2
      <4>2. End(list[i]) <= x.address
        <5>1. k \in 1 .. n
          BY <1>1
        <5> QED BY <2>1, <4>1, <5>1
      <4>3. End(list[i]) <= End(x)
        BY <1>7, <4>1, <4>2
      <4> QED BY <1>3, <2>3, <3>2, <4>3
    <3> QED BY <2>3, <3>1, <3>2
  <2>4. CASE j \in k + 2 .. n + 1
    <3>1. /\ m[j] = list[j - 1] /\ j - 1 \in k + 1 .. n /\ j - 1 \in 1 .. n /\ k < j - 1
      BY <1>1, <1>5, <2>4
    <3>2. End(list[k]) <= list[j - 1].address
      BY <2>1, <3>1, SMTT(30)
    <3>3. CASE i = k
      <4>1. End(x) <= list[j - 1].address
        BY <1>7, <3>1, <3>2, SMTT(30)
      <4> QED BY <1>3, <3>1, <3>3, <4>1
    <3>4. CASE i = k + 1
      BY <1>3, <3>1, <3>2, <3>4
    <3>5. CASE i \in 1 .. k - 1
      <4>1. i \in 1 .. n /\ i < j - 1
        BY <1>1, <3>1, <3>5
      <4> QED BY <1>3, <2>1, <3>1, <3>5, <4>1
    <3>6. CASE i \in k + 2 .. n + 1
      <4>1. m[i] = list[i - 1] /\ i - 1 \in 1 .. n /\ i - 1 < j - 1
        BY <1>1, <1>5, <3>6
      <4> QED BY <2>1, <3>1, <4>1
    <3> QED BY <1>1, <3>3, <3>4, <3>5, <3>6
  <2> QED BY <1>1, <2>2, <2>3, <2>4
<1>10. Apart(m)
  <2> SUFFICES ASSUME NEW i \in 1 .. n, m[i].free, m[i + 1].free PROVE FALSE
    BY <1>1, <1>3 DEF Apart
  <2>1. \A a \in 1 .. n - 1 : ~(list[a].free /\ list[a + 1].free)
    BY <1>1 DEF Apart
  <2>2. CASE i \in 1 .. k - 2
    <3>1. i \in 1 .. k - 1 /\ i + 1 \in 1 .. k - 1 /\ i \in 1 .. n - 1
      BY <1>1, <2>2
    <3> QED BY <1>3, <2>1, <3>1
  <2>3. CASE i = k - 1 \/ i = k
    BY <1>1, <1>3, <2>3
  <2>4. CASE i = k + 1
    <3>1. i + 1 \in k + 2 .. n + 1 /\ (i + 1) - 1 = k + 1 /\ k \in 1 .. n - 1
      BY <1>1, <2>4
    <3>2. list[k + 1].free
      BY <1>5, <3>1
    <3> QED BY <2>1, <3>1, <3>2
  <2>5. CASE i \in k + 2 .. n
    <3>1. /\ i + 1 \in k + 2 .. n + 1 /\ i \in k + 2 .. n + 1 /\ (i + 1) - 1 = i
          /\ i - 1 \in 1 .. n - 1 /\ (i - 1) + 1 = i
      BY <1>1, <2>5
    <3>2. list[i - 1].free /\ list[i].free
      BY <1>5, <3>1
    <3> QED BY <2>1, <3>1, <3>2
  <2> QED BY <1>1, <2>2, <2>3, <2>4, <2>5
<1>11. ASSUME NEW w, ~w.free PROVE In(m, w) <=> In(list, w) \/ w = x
  <2>1. ASSUME NEW i \in 1 .. n + 1, m[i] = w
        PROVE  (\E j \in 1 .. n : list[j] = w) \/ w = x
    <3>1. CASE i \in 1 .. k - 1
      BY <1>1, <1>3, <2>1, <3>1
    <3>2. CASE i = k
      BY <1>3, <2>1, <3>2
    <3>3. CASE i = k + 1
      BY <1>3, <1>11, <2>1, <3>3
    <3>4. CASE i \in k + 2 .. n + 1
      <4>1. i - 1 \in 1 .. n /\ list[i - 1] = w
        BY <1>1, <1>5, <2>1, <3>4
      <4> QED BY <4>1
    <3> QED BY <1>1, <3>1, <3>2, <3>3, <3>4
  <2>2. ASSUME NEW j \in 1 .. n, list[j] = w
        PROVE  \E i \in 1 .. n + 1 : m[i] = w
    <3>1. CASE j \in 1 .. k - 1
      BY <1>1, <1>3, <2>2, <3>1
    <3>2. CASE j = k
      BY <1>11, <2>2, <3>2
    <3>3. CASE j \in k + 1 .. n
      <4>1. j + 1 \in 1 .. n + 1 /\ m[j + 1] = w
        BY <1>1, <1>3, <2>2, <3>3
      <4> QED BY <4>1
    <3> QED BY <1>1, <3>1, <3>2, <3>3
  <2>3. k \in 1 .. n + 1 /\ m[k] = x
    BY <1>1, <1>3
  <2>4. (\E i \in 1 .. n + 1 : m[i] = w) <=> (\E i \in 1 .. n : list[i] = w) \/ w = x
    BY <2>1, <2>2, <2>3
  <2> QED BY <1>1, <1>3, <2>4 DEF In
<1> QED BY <1>8, <1>9, <1>10, <1>11

(* kmalloc keeps the invariant, whether the block is split or not.         *)
LEMMA KmallocKeepsInv ==
    ASSUME HeapInv, NEW size \in Sizes, Kmalloc(size)
    PROVE  HeapInv'
<1>1. PICK n \in Nat \ {0} : n = Len(blocks) /\ blocks \in Seq(BlockSet)
  BY EmptySeq DEF HeapInv, Tiles
<1>2. PICK aligned : aligned = AlignSize(size)
  OBVIOUS
<1>3. aligned \in Nat /\ size \in Nat /\ size <= aligned
  BY <1>2, AlignedFits, HeapAssumption DEF Kmalloc
<1>4. PICK k : k = CHOOSE i \in Fitting(aligned) : \A j \in Fitting(aligned) : i <= j
  OBVIOUS
<1>5. k \in Fitting(aligned)
  <2>1. Fitting(aligned) \subseteq Nat
    BY <1>1 DEF Fitting
  <2>2. Fitting(aligned) # {}
    BY <1>2 DEF Kmalloc
  <2>3. \E j \in Fitting(aligned) : \A i \in Fitting(aligned) : j <= i
    BY <2>1, <2>2, LeastNumber
  <2> QED BY <1>4, <2>3
<1>6. PICK b \in BlockSet : b = blocks[k]
  BY <1>1, <1>5 DEF Fitting
<1>7. k \in 1 .. Len(blocks) /\ blocks[k].free /\ b.size >= aligned
  BY <1>1, <1>5, <1>6 DEF Fitting
<1>8. PICK c : c = Carve(b, aligned)
  OBVIOUS
<1>9. blocks' = Spliced(blocks, k, c)
  BY <1>2, <1>4, <1>6, <1>8 DEF Kmalloc, Spliced
<1>10. held' = held \union {[pointer |-> Pointer(blocks[k]), size |-> size]}
  BY <1>2, <1>4 DEF Kmalloc
<1>11. b.address \in Nat /\ b.size \in Nat /\ HeaderSize \in Nat /\ Alignment \in Nat
  BY <1>6, HeapAssumption DEF BlockSet
<1>12. Tiles(blocks, HeapSize) /\ Ordered(blocks) /\ Apart(blocks)
  BY DEF HeapInv
<1>13. CASE b.size >= aligned + HeaderSize + Alignment
  <2>1. PICK r \in Nat : r = b.size - aligned - HeaderSize
    BY <1>3, <1>11, <1>13
  <2>2. PICK p \in Nat : p = b.address + HeaderSize + aligned
    BY <1>3, <1>11
  <2>3. PICK x : x = Block(b.address, aligned, FALSE)
    OBVIOUS
  <2>4. PICK y : y = Block(p, r, TRUE)
    OBVIOUS
  <2>5. /\ x \in BlockSet /\ ~x.free /\ x.address = b.address /\ x.size = aligned
    BY <1>3, <1>11, <2>3 DEF Block, BlockSet
  <2>6. /\ y \in BlockSet /\ y.free /\ y.address = p /\ y.size = r
    BY <2>4 DEF Block, BlockSet
  <2>7. y.address = End(x) /\ End(y) = End(b)
    BY <1>3, <1>11, <2>1, <2>2, <2>5, <2>6 DEF End
  <2>8. c = << x, y >>
    BY <1>8, <1>13, <2>1, <2>2, <2>3, <2>4 DEF Carve, Pointer
  <2>9. c \in Seq(BlockSet) /\ Len(c) = 2 /\ c[1] = x /\ c[2] = y
    BY <2>5, <2>6, <2>8
  <2>10. x.address = blocks[k].address /\ End(y) = End(blocks[k]) /\ size <= x.size
    BY <1>3, <1>6, <2>5, <2>7
  <2>11. /\ Tiles(blocks', HeapSize) /\ Ordered(blocks') /\ Apart(blocks')
         /\ \A w : ~w.free => (In(blocks', w) <=> In(blocks, w) \/ w = x)
    <3> HIDE <2>8
    <3> QED BY <1>7, <1>9, <1>12, <2>5, <2>6, <2>7, <2>9, <2>10, TakeSplit
  <2>12. blocks' \in Seq(BlockSet)
    BY <2>11 DEF Tiles
  <2>13. HeldBlocks' /\ held' \subseteq [pointer : Nat, size : Sizes]
    BY <1>7, <1>10, <2>5, <2>10, <2>11, <2>12, TakenIsHeld
  <2> QED BY <2>11, <2>13 DEF HeapInv
<1>14. CASE ~(b.size >= aligned + HeaderSize + Alignment)
  <2>1. PICK x : x = Block(b.address, b.size, FALSE)
    OBVIOUS
  <2>2. /\ x \in BlockSet /\ ~x.free /\ x.address = b.address /\ x.size = b.size
    BY <1>11, <2>1 DEF Block, BlockSet
  <2>3. End(x) = End(b)
    BY <2>2 DEF End
  <2>4. c = << x >>
    BY <1>8, <1>14, <2>1 DEF Carve
  <2>5. c \in Seq(BlockSet) /\ Len(c) = 1 /\ c[1] = x
    BY <2>2, <2>4
  <2>6. x.address = blocks[k].address /\ End(x) = End(blocks[k]) /\ size <= x.size
    BY <1>3, <1>6, <1>7, <1>11, <2>2, <2>3
  <2>7. /\ Tiles(blocks', HeapSize) /\ Ordered(blocks') /\ Apart(blocks')
        /\ \A w : ~w.free => (In(blocks', w) <=> In(blocks, w) \/ w = x)
    BY <1>7, <1>9, <1>12, <2>2, <2>5, <2>6, TakeWhole
  <2>8. blocks' \in Seq(BlockSet)
    BY <2>7 DEF Tiles
  <2>9. HeldBlocks' /\ held' \subseteq [pointer : Nat, size : Sizes]
    BY <1>7, <1>10, <2>2, <2>6, <2>7, <2>8, TakenIsHeld
  <2> QED BY <2>7, <2>9 DEF HeapInv
<1> QED BY <1>13, <1>14

-----------------------------------------------------------------------------
(* The invariant holds, and what follows from it                           *)

(* heap_initialize leaves one block that is the whole heap.                *)
LEMMA HeapInitInv == HeapInit => HeapInv
<1> SUFFICES ASSUME HeapInit PROVE HeapInv
  OBVIOUS
<1>1. PICK z \in Nat : z = HeapSize - HeaderSize
  BY HeapAssumption
<1>2. PICK b : b = Block(0, z, TRUE)
  OBVIOUS
<1>3. b \in BlockSet /\ b.address = 0 /\ b.size = z /\ b.free
  BY <1>2 DEF Block, BlockSet
<1>4. blocks = << b >> /\ held = {}
  BY <1>1, <1>2 DEF HeapInit
<1>5. blocks \in Seq(BlockSet) /\ Len(blocks) = 1 /\ blocks[1] = b /\ blocks # << >>
  BY <1>3, <1>4
<1>6. DOMAIN blocks = {1} /\ held = {}
  BY <1>4, <1>5
<1> HIDE <1>4
<1>7. End(b) = HeapSize
  BY <1>1, <1>3, HeapAssumption DEF End
<1>8. Tiles(blocks, HeapSize)
  BY <1>3, <1>5, <1>7 DEF Tiles
<1>9. Ordered(blocks) /\ Apart(blocks)
  BY <1>5 DEF Ordered, Apart
<1>10. HeldBlocks
  BY <1>3, <1>5, <1>6 DEF HeldBlocks
<1> QED BY <1>6, <1>8, <1>9, <1>10 DEF HeapInv

(* The invariant holds in every reachable state.                           *)
THEOREM HeapInvariant == HeapSpec => []HeapInv
<1>1. ASSUME HeapInv, [HeapNext]_heapVars PROVE HeapInv'
  <2>1. CASE UNCHANGED heapVars
    BY <1>1, <2>1 DEF heapVars, HeapInv, HeldBlocks, Tiles, Ordered, Apart
  <2>2. CASE \E size \in Sizes : Kmalloc(size)
    BY <1>1, <2>2, KmallocKeepsInv
  <2>3. CASE \E h \in held : Kfree(h)
    BY <1>1, <2>3, KfreeKeepsInv
  <2> QED BY <1>1, <2>1, <2>2, <2>3 DEF HeapNext
<1> QED BY <1>1, HeapInitInv, PTL DEF HeapSpec

(* heap_free_bytes over a list of one block                                *)
LEMMA FreeBytesOfOne ==
    ASSUME Len(blocks) = 1, blocks[1].free, blocks[1].size \in Nat
    PROVE  FreeBytes = blocks[1].size
<1> DEFINE Loop(g) == g = [n \in 0 .. Len(blocks) |->
                             IF n = 0 THEN 0
                             ELSE g[n - 1] + (IF blocks[n].free THEN blocks[n].size ELSE 0)]
           g1 == [n \in 0 .. Len(blocks) |-> IF n = 0 THEN 0 ELSE blocks[1].size]
<1>1. Loop(g1)
  <2>1. ASSUME NEW n \in 0 .. Len(blocks)
        PROVE  g1[n] = IF n = 0 THEN 0
                       ELSE g1[n - 1] + (IF blocks[n].free THEN blocks[n].size ELSE 0)
    <3>1. n = 0 \/ n = 1
      OBVIOUS
    <3>2. g1[0] = 0 /\ g1[1] = blocks[1].size
      OBVIOUS
    <3> HIDE DEF g1
    <3> QED BY <3>1, <3>2
  <2>2. g1 = [n \in 0 .. Len(blocks) |-> g1[n]]
    OBVIOUS
  <2> HIDE DEF g1
  <2> QED BY <2>1, <2>2
<1>2. FreeUpTo = CHOOSE g : Loop(g)
  BY DEF FreeUpTo
<1>3. Loop(FreeUpTo)
  <2> HIDE DEF Loop, g1
  <2> QED BY <1>1, <1>2
<1>4. FreeUpTo[0] = 0 /\ FreeUpTo[1] = FreeUpTo[0] + blocks[1].size
  BY <1>3
<1> QED BY <1>4 DEF FreeBytes

(* A list in which no block is in use has one block.                       *)
LEMMA NothingHeldIsOneBlock ==
    ASSUME HeapInv, held = {}
    PROVE  Len(blocks) = 1 /\ blocks[1].free /\ blocks[1].size = HeapSize - HeaderSize
<1>1. PICK n \in Nat \ {0} : n = Len(blocks) /\ blocks \in Seq(BlockSet)
  BY EmptySeq DEF HeapInv, Tiles
<1>2. \A k \in 1 .. n : blocks[k].free
  BY <1>1 DEF HeapInv, HeldBlocks
<1>3. n = 1
  <2> SUFFICES ASSUME n # 1 PROVE FALSE
    OBVIOUS
  <2>1. 1 \in 1 .. n /\ 1 + 1 \in 1 .. n /\ 1 \in 1 .. n - 1
    BY <1>1
  <2> QED BY <1>1, <1>2, <2>1 DEF HeapInv, Apart
<1>4. blocks[1].address = 0 /\ End(blocks[1]) = HeapSize /\ blocks[1] \in BlockSet
  BY <1>1, <1>3 DEF HeapInv, Tiles
<1>5. blocks[1].size = HeapSize - HeaderSize
  BY <1>4, HeapAssumption DEF End, BlockSet
<1> QED BY <1>1, <1>2, <1>3, <1>5

(* The invariant is enough.                                                *)
LEMMA HeapInvSound == HeapInv => HeapSound
<1> SUFFICES ASSUME HeapInv PROVE HeapSound
  OBVIOUS
<1>1. PICK n \in Nat \ {0} : n = Len(blocks) /\ blocks \in Seq(BlockSet) /\ blocks # << >>
  BY EmptySeq DEF HeapInv, Tiles
<1>2. /\ Tiles(blocks, HeapSize) /\ Ordered(blocks) /\ Apart(blocks) /\ HeldBlocks
  BY DEF HeapInv
<1>3. HeapSize \in Nat /\ HeaderSize \in Nat \ {0}
  BY HeapAssumption
<1>4. ASSUME NEW k \in 1 .. n
      PROVE  /\ blocks[k] \in [address : 0 .. HeapSize, size : 0 .. HeapSize, free : BOOLEAN]
             /\ Pointer(blocks[k]) \in 0 .. HeapSize
             /\ Pointer(blocks[k]) + blocks[k].size = End(blocks[k])
  <2>1. PICK b \in BlockSet : b = blocks[k]
    BY <1>1
  <2>2. End(b) <= HeapSize
    BY <1>1, <1>2, <2>1, EndsWithin
  <2>3. b.address \in Nat /\ b.size \in Nat /\ b.free \in BOOLEAN
    BY DEF BlockSet
  <2>4. b.address + HeaderSize + b.size <= HeapSize
    BY <2>2 DEF End
  <2>5. /\ b.address \in 0 .. HeapSize /\ b.size \in 0 .. HeapSize
        /\ b.address + HeaderSize \in 0 .. HeapSize
    BY <1>3, <2>3, <2>4
  <2>6. b \in [address : 0 .. HeapSize, size : 0 .. HeapSize, free : BOOLEAN]
    BY <2>3, <2>5 DEF BlockSet
  <2> QED BY <1>3, <2>1, <2>3, <2>5, <2>6 DEF Pointer, End
<1>5. HeapTypeOK
  <2>1. blocks \in Seq([address : 0 .. HeapSize, size : 0 .. HeapSize, free : BOOLEAN])
    <3>1. PICK B : B = [address : 0 .. HeapSize, size : 0 .. HeapSize, free : BOOLEAN]
      OBVIOUS
    <3>2. \A k \in 1 .. n : blocks[k] \in B
      BY <1>4, <3>1
    <3>3. blocks \in [1 .. n -> B]
      BY <1>1, <3>2
    <3>4. blocks \in Seq(B)
      BY <3>3
    <3> QED BY <3>1, <3>4
  <2>2. ASSUME NEW h \in held PROVE h \in [pointer : 0 .. HeapSize, size : Sizes]
    <3>1. h \in [pointer : Nat, size : Sizes]
      BY DEF HeapInv
    <3>2. PICK k \in DOMAIN blocks : Pointer(blocks[k]) = h.pointer
      BY <1>2 DEF HeldBlocks
    <3>3. h.pointer \in 0 .. HeapSize
      BY <1>1, <1>4, <3>2
    <3> QED BY <3>1, <3>3
  <2> QED BY <1>1, <2>1, <2>2 DEF HeapTypeOK
<1>6. BlocksTile
  <2>1. /\ blocks[1].address = 0 /\ End(blocks[n]) = HeapSize
        /\ \A k \in 1 .. n - 1 : blocks[k + 1].address = End(blocks[k])
    BY <1>1, <1>2 DEF Tiles
  <2>2. Last(blocks) = blocks[n] /\ n \in 1 .. n
    BY <1>1 DEF Last
  <2>3. \A k \in 1 .. n - 1 : k \in 1 .. n
    OBVIOUS
  <2> QED BY <1>1, <1>4, <2>1, <2>2, <2>3 DEF BlocksTile
<1>7. NoFreeNeighbours
  BY <1>2 DEF Apart, NoFreeNeighbours
<1>8. NothingLeaks
  <2> SUFFICES ASSUME held = {} PROVE FreeBytes = HeapSize - HeaderSize
    BY DEF NothingLeaks
  <2>1. HeapSize - HeaderSize \in Nat
    BY HeapAssumption
  <2> QED BY <2>1, NothingHeldIsOneBlock, FreeBytesOfOne
<1> QED BY <1>2, <1>5, <1>6, <1>7, <1>8 DEF HeapSound

(* The kernel heap is correct: for every heap size, header size, alignment *)
(* and set of requested sizes, after any sequence of kmalloc and kfree the *)
(* blocks partition the heap, no two free blocks are neighbours, every     *)
(* caller has a block of its own that is large enough, and when everything *)
(* is freed heap_free_bytes is back at its first value.                    *)
THEOREM HeapCorrect == HeapSpec => []HeapSound
  BY HeapInvariant, HeapInvSound, PTL
=============================================================================

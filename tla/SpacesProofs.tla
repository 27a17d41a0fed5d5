---------------------------- MODULE SpacesProofs ----------------------------
(***************************************************************************)
(* What is proved of the frame allocator, the page tables and the process  *)
(* table: for every memory map, every size of the tables and any order of  *)
(* creating, growing and killing processes, no frame has two owners, and   *)
(* the count of allocated frames is exact.                                 *)
(*                                                                         *)
(* A frame is busy when the bump pointer has passed it and it is not on    *)
(* the free list.  frame_allocate makes one frame busy, frame_free makes   *)
(* at most one idle.  The frames in use by an address space are busy, and  *)
(* each has one place in one tree of tables.                               *)
(***************************************************************************)
EXTENDS AddressSpaces, FiniteSetTheorems, SequenceTheorems, WellFoundedInduction, TLAPS

(* A non-empty set of numbers has a least one.                             *)
LEMMA LeastNumber ==
    ASSUME NEW T, T \subseteq Nat, T # {}
    PROVE  \E n \in T : \A m \in T : n <= m
<1>1. PICK n \in T : \A m \in T : ~ (<<m, n>> \in OpToRel(<, Nat))
  BY NatLessThanWellFounded, WFMin
<1>2. \A m \in T : ~ (m < n)
  BY <1>1 DEF OpToRel
<1> QED BY <1>2

-----------------------------------------------------------------------------
(* The frame allocator                                                     *)

AllocatorSet ==
    [descriptor_index : 0 .. Len(MemoryMap), next_frame : Nat, remaining_pages : Nat,
     allocated_pages : Nat, free_list : Seq(UsableFrames)]

(* The region the bump pointer is in                                       *)
InRegion(a) ==
    a.remaining_pages > 0 =>
        /\ a.descriptor_index \in 1 .. Len(MemoryMap)
        /\ Selectable(MemoryMap[a.descriptor_index])
        /\ a.next_frame >= LowMemoryReserve
        /\ a.next_frame >= MemoryMap[a.descriptor_index].start
        /\ a.next_frame + a.remaining_pages =
              MemoryMap[a.descriptor_index].start + MemoryMap[a.descriptor_index].pages

Listed(list) == {list[k] : k \in 1 .. Len(list)}

Once(list) == \A j, k \in 1 .. Len(list) : list[j] = list[k] => j = k

Busy(a) == Issued(a) \ Listed(a.free_list)

GoodList(a) ==
    /\ Once(a.free_list)
    /\ Listed(a.free_list) \subseteq Issued(a)
    /\ Len(a.free_list) <= FreeListCapacity

Counted(a) == a.allocated_pages = Cardinality(Issued(a)) - Len(a.free_list)

AllocGood(a) == a \in AllocatorSet /\ InRegion(a) /\ GoodList(a) /\ Counted(a)

(* The descriptors, one by one                                             *)
LEMMA Descriptors ==
    /\ Len(MemoryMap) \in Nat /\ DOMAIN MemoryMap = 1 .. Len(MemoryMap)
    /\ \A i \in 1 .. Len(MemoryMap) :
          MemoryMap[i].start \in Nat /\ MemoryMap[i].pages \in Nat
<1>1. MemoryMap \in Seq([conventional : BOOLEAN, start : Nat, pages : Nat])
  BY MemoryMapAssumption
<1>2. \A i \in 1 .. Len(MemoryMap) :
         MemoryMap[i] \in [conventional : BOOLEAN, start : Nat, pages : Nat]
  <2>1. PICK D : D = [conventional : BOOLEAN, start : Nat, pages : Nat]
    OBVIOUS
  <2>2. MemoryMap \in Seq(D)
    BY <1>1, <2>1
  <2>3. \A i \in 1 .. Len(MemoryMap) : MemoryMap[i] \in D
    BY <2>2
  <2> QED BY <2>1, <2>3
<1> QED BY <1>1, <1>2

(* A frame the allocator may hand out is a frame, and not the failure      *)
(* value.                                                                  *)
LEMMA UsableAre ==
    /\ UsableFrames \subseteq PhysicalFrames /\ UsableFrames \subseteq Nat
    /\ 0 \notin UsableFrames
<1>1. ASSUME NEW f \in UsableFrames
      PROVE  f \in PhysicalFrames /\ f \in Nat /\ f # 0
  <2>1. PICK i \in DOMAIN MemoryMap : f \in DescriptorFrames(MemoryMap[i]) /\ f >= LowMemoryReserve
    BY DEF UsableFrames
  <2>2. MemoryMap[i].start \in Nat /\ MemoryMap[i].pages \in Nat
    BY <2>1, Descriptors
  <2>3. f \in Nat
    BY <2>1, <2>2 DEF DescriptorFrames
  <2> QED BY <2>1, <2>3, MemoryMapAssumption DEF PhysicalFrames
<1> QED BY <1>1

(* Physical memory is finite, and so are the frames handed out.            *)
LEMMA UsableFinite == IsFiniteSet(UsableFrames)
<1> DEFINE n == Len(MemoryMap)
           Region(i) == {f \in DescriptorFrames(MemoryMap[i]) : f >= LowMemoryReserve}
           J == {j \in DOMAIN MemoryMap : MemoryMap[j].conventional}
           R == {Region(i) : i \in J}
           g == [i \in J |-> Region(i)]
<1>1. IsFiniteSet(J)
  <2>1. IsFiniteSet(1 .. n)
    BY Descriptors, FS_Interval
  <2>2. J \in SUBSET (1 .. n)
    BY Descriptors
  <2> QED BY <2>1, <2>2, FS_Subset
<1>2. g \in Surjection(J, R)
  BY DEF Surjection
<1>3. IsFiniteSet(R)
  <2> HIDE DEF g, R, J
  <2> QED BY <1>1, <1>2, FS_Surjection
<1>4. ASSUME NEW T \in R PROVE IsFiniteSet(T)
  <2>1. PICK i \in J : T = Region(i)
    OBVIOUS
  <2>2. PICK s \in Nat, p \in Nat : s = MemoryMap[i].start /\ p = MemoryMap[i].pages
    BY Descriptors
  <2>3. IsFiniteSet(s .. s + p - 1)
    BY FS_Interval
  <2>4. T \in SUBSET (s .. s + p - 1)
    BY <2>1, <2>2 DEF DescriptorFrames
  <2> HIDE DEF R
  <2> QED BY <2>3, <2>4, FS_Subset
<1>5. UsableFrames = UNION R
  BY DEF UsableFrames
<1> HIDE DEF R
<1> QED BY <1>3, <1>4, <1>5, FS_UNION

(* Whatever the bump pointer has passed may be handed out.                 *)
LEMMA IssuedUsable ==
    ASSUME NEW a
    PROVE  Issued(a) \subseteq UsableFrames /\ IsFiniteSet(Issued(a))
<1>1. Issued(a) \subseteq UsableFrames
  BY DEF Issued, UsableFrames, Selectable
<1> QED BY <1>1, UsableFinite, FS_Subset

(* A descriptor that is selected has pages above the reserve.              *)
LEMMA SelectNext ==
    ASSUME NEW a \in AllocatorSet, a.remaining_pages = 0, NEW r, r = SelectNextRegion(a)
    PROVE  /\ r \in AllocatorSet /\ InRegion(r) /\ Issued(r) = Issued(a)
           /\ r.free_list = a.free_list /\ r.allocated_pages = a.allocated_pages
<1> DEFINE usable == {i \in {i \in DOMAIN MemoryMap : i > a.descriptor_index} :
                         Selectable(MemoryMap[i])}
<1>1. PICK n \in Nat : n = Len(MemoryMap) /\ DOMAIN MemoryMap = 1 .. n
  BY Descriptors
<1>2. PICK di \in 0 .. n : di = a.descriptor_index
  BY <1>1 DEF AllocatorSet
<1>3. CASE usable = {}
  <2>1. r = [a EXCEPT !.descriptor_index = Len(MemoryMap)]
    BY <1>3 DEF SelectNextRegion
  <2>2. /\ r \in AllocatorSet /\ r.descriptor_index = n /\ r.remaining_pages = 0
        /\ r.free_list = a.free_list /\ r.allocated_pages = a.allocated_pages
    BY <1>1, <2>1 DEF AllocatorSet
  <2>3. {j \in DOMAIN MemoryMap : j <= r.descriptor_index /\ Selectable(MemoryMap[j])}
          = {j \in DOMAIN MemoryMap : j <= a.descriptor_index /\ Selectable(MemoryMap[j])}
    BY <1>1, <1>2, <1>3, <2>2
  <2>4. Issued(r) = Issued(a)
    BY <2>2, <2>3 DEF Issued
  <2> QED BY <2>2, <2>4 DEF InRegion
<1>4. CASE usable # {}
  <2>1. PICK c : c = CHOOSE i \in usable : \A j \in usable : i <= j
    OBVIOUS
  <2>2. c \in usable /\ \A j \in usable : c <= j
    <3>1. usable \subseteq Nat
      BY <1>1
    <3> HIDE DEF usable
    <3> QED BY <1>4, <2>1, <3>1, LeastNumber
  <2>3. c \in 1 .. n /\ c > di /\ Selectable(MemoryMap[c])
    BY <1>1, <1>2, <2>2
  <2>4. PICK s \in Nat, p \in Nat : /\ s = MemoryMap[c].start /\ p = MemoryMap[c].pages
                                    /\ p # 0 /\ s + p > LowMemoryReserve
    BY <1>1, <2>3, Descriptors DEF Selectable
  <2>5. PICK first \in Nat : first = IF s < LowMemoryReserve THEN LowMemoryReserve ELSE s
    BY MemoryMapAssumption
  <2>6. PICK left \in Nat : left = s + p - first /\ left > 0
    <3>1. first < s + p
      BY <2>4, <2>5
    <3>2. s + p - first \in Nat /\ s + p - first > 0
      BY <3>1
    <3> QED BY <3>2
  <2>7. r = [a EXCEPT !.descriptor_index = c, !.next_frame = first, !.remaining_pages = left]
    <3>1. PICK d : d = MemoryMap[c]
      OBVIOUS
    <3>2. first = IF d.start < LowMemoryReserve THEN LowMemoryReserve ELSE d.start
      BY <2>4, <2>5, <3>1
    <3>3. left = d.start + d.pages - first
      BY <2>4, <2>6, <3>1
    <3> DEFINE chosen == CHOOSE i \in usable : \A j \in usable : i <= j
               at == MemoryMap[chosen]
               from == IF at.start < LowMemoryReserve THEN LowMemoryReserve ELSE at.start
    <3>4. r = IF usable = {} THEN [a EXCEPT !.descriptor_index = Len(MemoryMap)]
              ELSE [a EXCEPT !.descriptor_index = chosen, !.next_frame = from,
                             !.remaining_pages = at.start + at.pages - from]
      BY Zenon DEF SelectNextRegion
    <3>5. chosen = c /\ at = d
      BY <2>1, <3>1
    <3>6. from = first
      <4> HIDE DEF chosen, at
      <4> QED BY <3>2, <3>5
    <3> HIDE DEF usable, chosen, at, from
    <3> QED BY <1>4, <3>3, <3>4, <3>5, <3>6
  <2>8. /\ r \in AllocatorSet /\ r.descriptor_index = c /\ r.remaining_pages = left
        /\ r.next_frame = first
        /\ r.free_list = a.free_list /\ r.allocated_pages = a.allocated_pages
    <3>1. PICK x, y : x = [a EXCEPT !.descriptor_index = c] /\ y = [x EXCEPT !.next_frame = first]
      OBVIOUS
    <3>2. x \in AllocatorSet /\ x.descriptor_index = c
          /\ x.free_list = a.free_list /\ x.allocated_pages = a.allocated_pages
      BY <1>1, <2>3, <3>1, SMTT(30) DEF AllocatorSet
    <3>3. y \in AllocatorSet /\ y.descriptor_index = c /\ y.next_frame = first
          /\ y.free_list = a.free_list /\ y.allocated_pages = a.allocated_pages
      BY <3>1, <3>2 DEF AllocatorSet
    <3>4. r = [y EXCEPT !.remaining_pages = left]
      BY <2>7, <3>1 DEF AllocatorSet
    <3> QED BY <3>3, <3>4 DEF AllocatorSet
  <2>9. InRegion(r)
    <3>1. first >= LowMemoryReserve /\ first >= s /\ first + left = s + p
      BY <2>5, <2>6, MemoryMapAssumption
    <3> QED BY <1>1, <2>3, <2>4, <2>8, <3>1 DEF InRegion
  <2>10. Issued(r) = Issued(a)
    <3>1. ASSUME NEW f \in Issued(a) PROVE f \in Issued(r)
      <4>1. PICK j \in 1 .. n : /\ j <= di /\ Selectable(MemoryMap[j])
                                /\ f \in DescriptorFrames(MemoryMap[j]) /\ f >= LowMemoryReserve
        BY <1>1, <1>2, <3>1 DEF Issued
      <4>2. j <= c /\ j # c
        BY <1>2, <2>3, <4>1
      <4> QED BY <1>1, <2>8, <4>1, <4>2 DEF Issued
    <3>2. ASSUME NEW f \in Issued(r) PROVE f \in Issued(a)
      <4>1. PICK j \in 1 .. n :
               /\ j <= c /\ Selectable(MemoryMap[j])
               /\ f \in DescriptorFrames(MemoryMap[j]) /\ f >= LowMemoryReserve
               /\ (j = c /\ left > 0 => f < first)
        BY <1>1, <2>8, <3>2 DEF Issued
      <4>2. j # c
        <5>1. CASE j = c
          <6>1. f \in s .. s + p - 1 /\ f < first
            BY <2>4, <2>6, <4>1, <5>1 DEF DescriptorFrames
          <6> QED BY <2>5, <4>1, <6>1, MemoryMapAssumption
        <5> QED BY <5>1
      <4>3. j <= di
        BY <1>1, <1>2, <2>2, <2>3, <4>1, <4>2
      <4>4. ~(j = a.descriptor_index /\ a.remaining_pages > 0)
        OBVIOUS
      <4> QED BY <1>1, <1>2, <4>1, <4>3, <4>4 DEF Issued
    <3> QED BY <3>1, <3>2
  <2> QED BY <2>8, <2>9, <2>10
<1> QED BY <1>3, <1>4

(* What the bump pointer has passed depends on the pointer only.           *)
LEMMA IssuedSame ==
    ASSUME NEW a, NEW b, b.descriptor_index = a.descriptor_index,
           b.remaining_pages = a.remaining_pages, b.next_frame = a.next_frame
    PROVE  Issued(b) = Issued(a) /\ (InRegion(a) => InRegion(b))
  BY DEF Issued, InRegion

(* The free list without its last frame                                    *)
LEMMA ListFront ==
    ASSUME NEW S, NEW s \in Seq(S), s # << >>, Once(s), NEW q, q = Front(s)
    PROVE  /\ q \in Seq(S) /\ Len(s) \in Nat \ {0} /\ Len(q) = Len(s) - 1 /\ Once(q)
           /\ Last(s) \in S /\ Last(s) \in Listed(s)
           /\ Listed(q) = Listed(s) \ {Last(s)}
<1>1. PICK n \in Nat \ {0} : n = Len(s)
  OBVIOUS
<1>2. q \in Seq(S) /\ Len(q) = n - 1 /\ \A k \in 1 .. n - 1 : q[k] = s[k]
  BY <1>1 DEF Front
<1>3. Last(s) = s[n] /\ s[n] \in S /\ n \in 1 .. n
  BY <1>1 DEF Last
<1>4. Once(q)
  BY <1>1, <1>2 DEF Once
<1>5. Listed(q) = Listed(s) \ {s[n]}
  BY <1>1, <1>2, <1>3 DEF Listed, Once
<1> QED BY <1>1, <1>2, <1>3, <1>4, <1>5 DEF Listed

(* The free list with one more frame                                       *)
With(s, f) == Append(s, f)

OneMore(S, s, f, q) ==
    q \in Seq(S) /\ Len(q) = Len(s) + 1 /\ Once(q) /\ Listed(q) = Listed(s) \union {f}

(* It has no repetitions either.                                           *)
LEMMA ListAppend ==
    ASSUME NEW S, NEW s \in Seq(S), NEW f \in S, f \notin Listed(s), Once(s),
           NEW q, q = With(s, f)
    PROVE  OneMore(S, s, f, q)
<1>1. PICK n \in Nat : n = Len(s)
  OBVIOUS
<1>2. q \in Seq(S) /\ Len(q) = n + 1 /\ q[n + 1] = f /\ \A k \in 1 .. n : q[k] = s[k]
  BY <1>1 DEF With
<1>3. \A k \in 1 .. n : q[k] # f
  BY <1>1, <1>2 DEF Listed
<1>4. Once(q)
  <2>1. ASSUME NEW j \in 1 .. n + 1, NEW k \in 1 .. n + 1, q[j] = q[k] PROVE j = k
    <3>1. CASE j \in 1 .. n /\ k \in 1 .. n
      BY <1>1, <1>2, <2>1, <3>1 DEF Once
    <3>2. CASE j = n + 1 \/ k = n + 1
      BY <1>2, <1>3, <2>1, <3>2
    <3> QED BY <3>1, <3>2
  <2> QED BY <1>2, <2>1 DEF Once
<1>5. Listed(q) = Listed(s) \union {f}
  <2>1. \A x : x \in Listed(q) <=> \E k \in 1 .. n + 1 : x = q[k]
    BY <1>2 DEF Listed
  <2>2. \A x : x \in Listed(s) <=> \E k \in 1 .. n : x = s[k]
    BY <1>1 DEF Listed
  <2>3. ASSUME NEW x \in Listed(q) PROVE x \in Listed(s) \union {f}
    <3>1. PICK k \in 1 .. n + 1 : x = q[k]
      BY <2>1
    <3>2. CASE k = n + 1
      BY <1>2, <3>1, <3>2
    <3>3. CASE k \in 1 .. n
      BY <1>2, <2>2, <3>1, <3>3
    <3> QED BY <3>2, <3>3
  <2>4. ASSUME NEW x \in Listed(s) \union {f} PROVE x \in Listed(q)
    <3>1. CASE x = f
      BY <1>2, <2>1, <3>1, n + 1 \in 1 .. n + 1
    <3>2. CASE x \in Listed(s)
      <4>1. PICK k \in 1 .. n : x = s[k]
        BY <2>2, <3>2
      <4> QED BY <1>2, <2>1, <4>1, k \in 1 .. n + 1
    <3> QED BY <3>1, <3>2
  <2> QED BY <2>3, <2>4
<1> QED BY <1>1, <1>2, <1>4, <1>5 DEF OneMore

(* A frame of descriptor j that the pointer has passed                     *)
Passed(f, j, di, left, x) ==
    /\ j <= di /\ Selectable(MemoryMap[j])
    /\ f \in DescriptorFrames(MemoryMap[j])
    /\ f >= LowMemoryReserve
    /\ (j = di /\ left > 0 => f < x)

(* The frames that have been issued, one by one                            *)
LEMMA IssuedIs ==
    ASSUME NEW a, NEW f
    PROVE  f \in Issued(a) <=>
              \E j \in DOMAIN MemoryMap :
                  Passed(f, j, a.descriptor_index, a.remaining_pages, a.next_frame)
<1> DEFINE Part(i) == {g \in DescriptorFrames(MemoryMap[i]) :
                          g >= LowMemoryReserve /\
                          (i = a.descriptor_index /\ a.remaining_pages > 0
                               => g < a.next_frame)}
           J == {j \in DOMAIN MemoryMap : j <= a.descriptor_index /\ Selectable(MemoryMap[j])}
<1>1. Issued(a) = UNION {Part(i) : i \in J}
  BY DEF Issued
<1>2. \A i \in J : f \in Part(i) <=>
         Passed(f, i, a.descriptor_index, a.remaining_pages, a.next_frame)
  BY DEF Passed
<1>3. \A i \in DOMAIN MemoryMap :
         Passed(f, i, a.descriptor_index, a.remaining_pages, a.next_frame) => i \in J
  BY DEF Passed
<1>4. J \subseteq DOMAIN MemoryMap
  OBVIOUS
<1> HIDE DEF Part, J
<1> QED BY <1>1, <1>2, <1>3, <1>4

(* And the usable ones                                                     *)
LEMMA UsableIs ==
    ASSUME NEW f, NEW j \in DOMAIN MemoryMap, Selectable(MemoryMap[j]),
           f \in DescriptorFrames(MemoryMap[j]), f >= LowMemoryReserve
    PROVE  f \in UsableFrames
<1> DEFINE Part(i) == {g \in DescriptorFrames(MemoryMap[i]) : g >= LowMemoryReserve}
           J == {i \in DOMAIN MemoryMap : MemoryMap[i].conventional}
<1>1. UsableFrames = UNION {Part(i) : i \in J}
  BY DEF UsableFrames
<1>2. j \in J /\ f \in Part(j)
  BY DEF Selectable
<1> HIDE DEF Part, J
<1> QED BY <1>1, <1>2

(* The bump pointer moves on by one frame.                                 *)
LEMMA BumpIssues ==
    ASSUME NEW a \in AllocatorSet, InRegion(a), a.remaining_pages # 0,
           NEW b, b.descriptor_index = a.descriptor_index,
           b.next_frame = a.next_frame + 1, b.remaining_pages = a.remaining_pages - 1
    PROVE  /\ InRegion(b) /\ a.next_frame \in UsableFrames
           /\ a.next_frame \notin Issued(a)
           /\ Issued(b) = Issued(a) \union {a.next_frame}
<1>0. PICK n \in Nat : n = Len(MemoryMap) /\ DOMAIN MemoryMap = 1 .. n
  BY Descriptors
<1>1. PICK di \in 1 .. n : /\ n = Len(MemoryMap) /\ DOMAIN MemoryMap = 1 .. n
                           /\ di = a.descriptor_index
  BY <1>0 DEF AllocatorSet, InRegion
<1>2. PICK x \in Nat, left \in Nat \ {0}, s \in Nat, p \in Nat :
         /\ x = a.next_frame /\ left = a.remaining_pages
         /\ s = MemoryMap[di].start /\ p = MemoryMap[di].pages
         /\ x >= LowMemoryReserve /\ x >= s /\ x + left = s + p
  <2>1. PICK x \in Nat : x = a.next_frame
    BY DEF AllocatorSet
  <2>2. PICK left \in Nat \ {0} : left = a.remaining_pages
    BY DEF AllocatorSet
  <2>3. PICK s \in Nat, p \in Nat : s = MemoryMap[di].start /\ p = MemoryMap[di].pages
    BY <1>1, Descriptors
  <2>4. x >= LowMemoryReserve /\ x >= s /\ x + left = s + p
    BY <1>1, <2>1, <2>2, <2>3 DEF InRegion
  <2> QED BY <2>1, <2>2, <2>3, <2>4
<1>3. Selectable(MemoryMap[di])
  BY <1>1, <1>2 DEF InRegion
<1>4. DescriptorFrames(MemoryMap[di]) = s .. s + p - 1
  BY <1>2 DEF DescriptorFrames
<1>5. x \in s .. s + p - 1
  BY <1>2
<1>6. x \in UsableFrames
  BY <1>1, <1>2, <1>3, <1>4, <1>5, UsableIs
<1>7. b.descriptor_index = di /\ b.next_frame = x + 1 /\ b.remaining_pages = left - 1
  BY <1>1, <1>2
<1>8. InRegion(b)
  <2>1. x + 1 >= LowMemoryReserve /\ x + 1 >= s /\ (x + 1) + (left - 1) = s + p
    <3>1. PICK L \in Nat : L = LowMemoryReserve
      BY MemoryMapAssumption
    <3>2. x + 1 >= L /\ x + 1 >= s
      BY <1>2, <3>1
    <3>3. (x + 1) + (left - 1) = s + p
      BY <1>2
    <3> QED BY <3>1, <3>2, <3>3
  <2> QED BY <1>1, <1>2, <1>3, <1>7, <2>1 DEF InRegion
<1>9. \A f : f \in Issued(a) <=> \E j \in 1 .. n : Passed(f, j, di, left, x)
  BY <1>1, <1>2, IssuedIs
<1>10. \A f : f \in Issued(b) <=> \E j \in 1 .. n : Passed(f, j, di, left - 1, x + 1)
  BY <1>1, <1>7, IssuedIs
<1>11. x \notin Issued(a)
  <2>1. ASSUME NEW j \in 1 .. n, Passed(x, j, di, left, x) PROVE FALSE
    <3>1. j # di /\ x \in DescriptorFrames(MemoryMap[j])
      BY <1>2, <2>1 DEF Passed
    <3> QED BY <1>1, <1>4, <1>5, <3>1, MemoryMapAssumption
  <2> QED BY <1>9, <2>1
<1>12. ASSUME NEW f \in DescriptorFrames(MemoryMap[di])
       PROVE  f \in Nat /\ (f < x + 1 <=> f < x \/ f = x) /\ (left = 1 => f < x + 1)
  <2>1. f \in s .. s + p - 1
    BY <1>4
  <2>2. left = 1 => s + p - 1 = x
    BY <1>2
  <2> QED BY <2>1, <2>2
<1>13. ASSUME NEW f, NEW j \in 1 .. n
       PROVE  /\ Passed(f, j, di, left, x) => Passed(f, j, di, left - 1, x + 1)
              /\ Passed(f, j, di, left - 1, x + 1) => Passed(f, j, di, left, x) \/ f = x
  <2>1. CASE j = di
    <3>1. left > 0 /\ (left - 1 > 0 \/ left = 1)
      OBVIOUS
    <3> QED BY <1>12, <2>1, <3>1 DEF Passed
  <2>2. CASE j # di
    BY <2>2 DEF Passed
  <2> QED BY <2>1, <2>2
<1>14. Passed(x, di, di, left - 1, x + 1)
  BY <1>2, <1>3, <1>4, <1>5 DEF Passed
<1>15. Issued(b) = Issued(a) \union {x}
  BY <1>9, <1>10, <1>13, <1>14
<1> QED BY <1>2, <1>6, <1>8, <1>11, <1>15

(* A list without repetitions has as many elements as its length.          *)
LEMMA ListCounts ==
    ASSUME NEW S, NEW s \in Seq(S), Once(s)
    PROVE  Cardinality(Listed(s)) = Len(s) /\ IsFiniteSet(Listed(s))
<1>1. PICK n \in Nat : n = Len(s)
  OBVIOUS
<1> DEFINE h == [k \in 1 .. n |-> s[k]]
<1>2. h \in Bijection(1 .. n, Listed(s))
  BY <1>1 DEF Bijection, Injection, Surjection, IsInjective, Once, Listed
<1>3. ExistsBijection(1 .. n, Listed(s))
  BY <1>2 DEF ExistsBijection
<1>4. IsFiniteSet(1 .. n) /\ Cardinality(1 .. n) = n
  BY FS_Interval
<1> QED BY <1>1, <1>3, <1>4, FS_Bijection

(* frame_allocate: a frame that was not busy is, or nothing has changed.   *)
LEMMA AllocateGives ==
    ASSUME NEW a, AllocGood(a), NEW r, r = FrameAllocate(a),
           NEW b, b = r.allocator, NEW g, g = r.frame
    PROVE  /\ AllocGood(b)
           /\ g = 0 => Busy(b) = Busy(a)
           /\ g # 0 => /\ g \in UsableFrames /\ g \notin Busy(a)
                       /\ Busy(b) = Busy(a) \union {g}
<1>1. a \in AllocatorSet /\ InRegion(a) /\ GoodList(a) /\ Counted(a)
  BY DEF AllocGood
<1>2. PICK list \in Seq(UsableFrames), count \in Nat, len \in Nat :
         list = a.free_list /\ count = a.allocated_pages /\ len = Len(list)
  BY <1>1 DEF AllocatorSet
<1>3. PICK c \in Nat : c = Cardinality(Issued(a)) /\ count = c - len
  BY <1>1, <1>2, IssuedUsable, FS_CardinalityType DEF Counted
<1>4. CASE a.free_list # << >>
  <2>1. PICK q : q = Front(list)
    OBVIOUS
  <2>2. /\ q \in Seq(UsableFrames) /\ Len(q) = len - 1 /\ Once(q) /\ len # 0
        /\ Last(list) \in UsableFrames /\ Last(list) \in Listed(list)
        /\ Listed(q) = Listed(list) \ {Last(list)}
    BY <1>1, <1>2, <1>4, <2>1, ListFront DEF GoodList
  <2>3. g = Last(list) /\ b = [a EXCEPT !.free_list = q, !.allocated_pages = count + 1]
    BY <1>1, <1>2, <1>4, <2>1 DEF FrameAllocate, AllocatorSet
  <2>4. /\ b \in AllocatorSet /\ b.free_list = q /\ b.allocated_pages = count + 1
        /\ b.descriptor_index = a.descriptor_index /\ b.next_frame = a.next_frame
        /\ b.remaining_pages = a.remaining_pages
    <3>1. PICK x : x = [a EXCEPT !.free_list = q]
      OBVIOUS
    <3>2. /\ x \in AllocatorSet /\ x.free_list = q
          /\ x.descriptor_index = a.descriptor_index /\ x.next_frame = a.next_frame
          /\ x.remaining_pages = a.remaining_pages
      BY <1>1, <2>2, <3>1 DEF AllocatorSet
    <3>3. b = [x EXCEPT !.allocated_pages = count + 1] /\ count + 1 \in Nat
      BY <1>1, <2>3, <3>1 DEF AllocatorSet
    <3> QED BY <3>2, <3>3 DEF AllocatorSet
  <2>5. Issued(b) = Issued(a) /\ InRegion(b)
    BY <1>1, <2>4, IssuedSame
  <2>6. GoodList(b)
    <3>1. len - 1 <= FreeListCapacity
      BY <1>1, <1>2, MemoryMapAssumption DEF GoodList
    <3> QED BY <1>1, <1>2, <2>2, <2>4, <2>5, <3>1 DEF GoodList
  <2>7. Counted(b)
    <3>1. count + 1 = c - (len - 1)
      BY <1>3
    <3> QED BY <1>3, <2>2, <2>4, <2>5, <3>1 DEF Counted
  <2>8. g \in Issued(a) /\ g \in Listed(list)
    BY <1>1, <1>2, <2>2, <2>3 DEF GoodList
  <2>9. g \notin Busy(a) /\ Busy(b) = Busy(a) \union {g}
    BY <1>2, <2>2, <2>3, <2>4, <2>5, <2>8 DEF Busy
  <2>10. g \in UsableFrames /\ g # 0
    BY <2>2, <2>3, UsableAre
  <2> QED BY <2>4, <2>5, <2>6, <2>7, <2>9, <2>10 DEF AllocGood
<1>5. CASE a.free_list = << >>
  <2>1. PICK s : s = IF a.remaining_pages = 0 THEN SelectNextRegion(a) ELSE a
    OBVIOUS
  <2>2. /\ s \in AllocatorSet /\ InRegion(s) /\ Issued(s) = Issued(a)
        /\ s.free_list = list /\ s.allocated_pages = count
    BY <1>1, <1>2, <2>1, SelectNext
  <2>3. AllocGood(s) /\ Busy(s) = Busy(a)
    BY <1>1, <1>2, <2>2 DEF AllocGood, GoodList, Counted, Busy
  <2>4. CASE s.remaining_pages = 0
    <3>1. b = s /\ g = 0
      BY <1>5, <2>1, <2>4 DEF FrameAllocate
    <3> QED BY <2>3, <3>1
  <2>5. CASE s.remaining_pages # 0
    <3>1. PICK x \in Nat, left \in Nat \ {0} : x = s.next_frame /\ left = s.remaining_pages
      BY <2>2, <2>5 DEF AllocatorSet
    <3>2. g = x /\ b = [s EXCEPT !.next_frame = x + 1, !.remaining_pages = left - 1,
                                 !.allocated_pages = count + 1]
      <4>1. r = [allocator |-> [s EXCEPT !.next_frame = @ + 1, !.remaining_pages = @ - 1,
                                         !.allocated_pages = @ + 1],
                 frame |-> s.next_frame]
        BY <1>5, <2>1, <2>5 DEF FrameAllocate
      <4>2. b = [s EXCEPT !.next_frame = @ + 1, !.remaining_pages = @ - 1,
                          !.allocated_pages = @ + 1] /\ g = s.next_frame
        BY <4>1
      <4> QED BY <2>2, <3>1, <4>2 DEF AllocatorSet
    <3>3. /\ b \in AllocatorSet /\ b.free_list = list /\ b.allocated_pages = count + 1
          /\ b.descriptor_index = s.descriptor_index /\ b.next_frame = x + 1
          /\ b.remaining_pages = left - 1
      <4>0. PICK x1 \in Nat, l1 \in Nat, c1 \in Nat :
               x1 = x + 1 /\ l1 = left - 1 /\ c1 = count + 1
        OBVIOUS
      <4>1. PICK y, z : y = [s EXCEPT !.next_frame = x1] /\ z = [y EXCEPT !.remaining_pages = l1]
        OBVIOUS
      <4>2. /\ y \in AllocatorSet /\ y.free_list = list /\ y.next_frame = x1
            /\ y.descriptor_index = s.descriptor_index
        BY <2>2, <4>1 DEF AllocatorSet
      <4>3. /\ z \in AllocatorSet /\ z.free_list = list /\ z.next_frame = x1
            /\ z.descriptor_index = s.descriptor_index /\ z.remaining_pages = l1
        BY <4>1, <4>2 DEF AllocatorSet
      <4>4. b = [z EXCEPT !.allocated_pages = c1]
        BY <2>2, <3>2, <4>0, <4>1 DEF AllocatorSet
      <4>5. /\ b \in AllocatorSet /\ b.free_list = list /\ b.allocated_pages = c1
            /\ b.descriptor_index = s.descriptor_index /\ b.next_frame = x1
            /\ b.remaining_pages = l1
        BY <4>3, <4>4 DEF AllocatorSet
      <4> QED BY <4>0, <4>5
    <3>4. /\ InRegion(b) /\ x \in UsableFrames /\ x \notin Issued(s)
          /\ Issued(b) = Issued(s) \union {x}
      BY <2>2, <2>5, <3>1, <3>3, BumpIssues
    <3>5. Listed(list) \subseteq Issued(a) /\ x \notin Listed(list)
      BY <1>1, <1>2, <2>2, <3>4 DEF GoodList
    <3>6. GoodList(b)
      BY <1>1, <1>2, <2>2, <3>3, <3>4 DEF GoodList
    <3>7. Cardinality(Issued(b)) = c + 1
      <4>1. PICK I : I = Issued(s) /\ IsFiniteSet(I) /\ x \notin I /\ Cardinality(I) = c
        BY <1>3, <2>2, <3>4, IssuedUsable
      <4>2. Cardinality(I \union {x}) = c + 1
        BY <4>1, FS_AddElement
      <4> QED BY <3>4, <4>1, <4>2
    <3>8. Counted(b)
      <4>1. count + 1 = (c + 1) - len
        BY <1>3
      <4> QED BY <1>2, <3>3, <3>7, <4>1 DEF Counted
    <3>9. x \notin Busy(a) /\ Busy(b) = Busy(a) \union {x}
      BY <1>2, <2>2, <3>3, <3>4, <3>5 DEF Busy
    <3> QED BY <3>2, <3>3, <3>4, <3>6, <3>8, <3>9, UsableAre DEF AllocGood
  <2> QED BY <2>4, <2>5
<1> QED BY <1>4, <1>5

(* b is the allocator after the frames of S, all of them busy in a, have   *)
(* been freed: they are idle, or the free list is full.                    *)
Releases(a, b, S) ==
    /\ AllocGood(b) /\ Busy(b) \subseteq Busy(a) /\ Busy(a) \ S \subseteq Busy(b)
    /\ Issued(b) = Issued(a)
    /\ Len(a.free_list) <= Len(b.free_list)
    /\ S \intersect Busy(b) = {} \/ Len(b.free_list) = FreeListCapacity

(* The length of the free list of a good allocator                         *)
LEMMA ListLength ==
    ASSUME NEW a, AllocGood(a)
    PROVE  /\ Len(a.free_list) \in Nat /\ FreeListCapacity \in Nat
           /\ Len(a.free_list) <= FreeListCapacity
<1>1. a.free_list \in Seq(UsableFrames)
  BY DEF AllocGood, AllocatorSet
<1> QED BY <1>1, MemoryMapAssumption DEF AllocGood, GoodList

(* Nothing is freed.                                                       *)
LEMMA ReleasesNothing ==
    ASSUME NEW a, AllocGood(a)
    PROVE  Releases(a, a, {})
  BY ListLength DEF Releases

(* One set of frames is freed and then another.                            *)
LEMMA ReleasesBoth ==
    ASSUME NEW a, NEW b, NEW c, NEW S, NEW T, AllocGood(a),
           Releases(a, b, S), Releases(b, c, T), S \intersect T = {}
    PROVE  Releases(a, c, S \union T)
<1>1. PICK i \in Nat, j \in Nat, k \in Nat, m \in Nat :
         /\ i = Len(a.free_list) /\ j = Len(b.free_list) /\ k = Len(c.free_list)
         /\ m = FreeListCapacity /\ i <= j /\ j <= k /\ k <= m
  BY ListLength DEF Releases
<1>2. j = m => k = m
  BY <1>1
<1>3. i <= k
  BY <1>1
<1>4. (S \union T) \intersect Busy(c) = {} \/ k = m
  BY <1>1, <1>2 DEF Releases
<1>5. Busy(c) \subseteq Busy(a) /\ Busy(a) \ (S \union T) \subseteq Busy(c)
  BY DEF Releases
<1> QED BY <1>1, <1>3, <1>4, <1>5 DEF Releases

(* frame_free                                                              *)
LEMMA FreeReleases ==
    ASSUME NEW a, AllocGood(a), NEW f, f \in Busy(a), NEW b, b = FrameFree(a, f)
    PROVE  Releases(a, b, {f})
<1>1. a \in AllocatorSet /\ InRegion(a) /\ GoodList(a) /\ Counted(a)
  BY DEF AllocGood
<1>2. PICK list \in Seq(UsableFrames), count \in Nat, len \in Nat :
         list = a.free_list /\ count = a.allocated_pages /\ len = Len(list)
  BY <1>1 DEF AllocatorSet
<1>3. PICK c \in Nat, m \in Nat : /\ c = Cardinality(Issued(a)) /\ count = c - len
                                  /\ m = FreeListCapacity /\ len <= m
  BY <1>1, <1>2, IssuedUsable, FS_CardinalityType, MemoryMapAssumption DEF Counted, GoodList
<1>4. f \in Issued(a) /\ f \notin Listed(list) /\ f \in UsableFrames /\ f # 0
  BY <1>2, IssuedUsable, UsableAre DEF Busy
<1>5. CASE ~(len < m)
  <2>1. b = a /\ len = m
    BY <1>2, <1>3, <1>5 DEF FrameFree
  <2> QED BY <1>2, <1>3, <2>1 DEF Releases
<1>6. CASE len < m
  <2>1. PICK q : q = With(list, f)
    OBVIOUS
  <2>2. /\ q \in Seq(UsableFrames) /\ Len(q) = len + 1 /\ Once(q)
        /\ Listed(q) = Listed(list) \union {f}
    <3>1. Once(list)
      BY <1>1, <1>2 DEF GoodList
    <3>2. f \in UsableFrames /\ f \notin Listed(list)
      BY <1>4
    <3>3. OneMore(UsableFrames, list, f, q)
      BY <2>1, <3>1, <3>2, ListAppend
    <3> QED BY <1>2, <3>3 DEF OneMore
  <2>3. count # 0
    <3>1. Listed(q) \subseteq Issued(a)
      BY <1>1, <1>2, <1>4, <2>2 DEF GoodList
    <3>2. Cardinality(Listed(q)) = len + 1 /\ IsFiniteSet(Listed(q))
      BY <2>2, ListCounts
    <3>3. Cardinality(Listed(q)) <= c
      BY <1>3, <3>1, IssuedUsable, FS_Subset
    <3> QED BY <1>3, <3>2, <3>3
  <2>4. b = [a EXCEPT !.free_list = q, !.allocated_pages = count - 1]
    BY <1>1, <1>2, <1>3, <1>4, <1>6, <2>1 DEF FrameFree, AllocatorSet, With
  <2>5. /\ b \in AllocatorSet /\ b.free_list = q /\ b.allocated_pages = count - 1
        /\ b.descriptor_index = a.descriptor_index /\ b.next_frame = a.next_frame
        /\ b.remaining_pages = a.remaining_pages
    <3>1. PICK x : x = [a EXCEPT !.free_list = q]
      OBVIOUS
    <3>2. /\ x \in AllocatorSet /\ x.free_list = q
          /\ x.descriptor_index = a.descriptor_index /\ x.next_frame = a.next_frame
          /\ x.remaining_pages = a.remaining_pages
      BY <1>1, <2>2, <3>1 DEF AllocatorSet
    <3>3. b = [x EXCEPT !.allocated_pages = count - 1] /\ count - 1 \in Nat
      BY <1>1, <2>3, <2>4, <3>1 DEF AllocatorSet
    <3> QED BY <3>2, <3>3 DEF AllocatorSet
  <2>6. Issued(b) = Issued(a) /\ InRegion(b)
    BY <1>1, <2>5, IssuedSame
  <2>7. GoodList(b)
    <3>1. len + 1 <= FreeListCapacity
      BY <1>3, <1>6
    <3> QED BY <1>1, <1>2, <1>4, <2>2, <2>5, <2>6, <3>1 DEF GoodList
  <2>8. Counted(b)
    <3>1. count - 1 = c - (len + 1)
      BY <1>3
    <3> QED BY <1>3, <2>2, <2>5, <2>6, <3>1 DEF Counted
  <2>9. Busy(b) = Busy(a) \ {f}
    BY <1>2, <1>4, <2>2, <2>5, <2>6 DEF Busy
  <2>10. len <= len + 1
    OBVIOUS
  <2> QED BY <1>2, <2>2, <2>5, <2>6, <2>7, <2>8, <2>9, <2>10 DEF Releases, AllocGood
<1> QED BY <1>5, <1>6

-----------------------------------------------------------------------------
(* The place of a frame                                                    *)

(* A frame in use is at one place: in the space of the kernel (0) or of a  *)
(* process slot, at a level from 4, a PML4, to 0, a page, and named by one *)
(* entry of one table of the level above.                                  *)
PlaceSet == [space : Nat, level : 0 .. 4, up : Nat, index : Nat]

(* The entries that belong to the space: not the kernel half of a process  *)
Followed(p) ==
    IF p.level < 4 THEN TableIndices
    ELSE IF p.space = 0 THEN RootIndices ELSE UserIndices

(* The entries map_page may set                                            *)
Settable(p) ==
    IF p.level < 4 THEN TableIndices
    ELSE IF p.space = 0 THEN UserIndices \union BootIndices ELSE UserIndices

IsChild(place, f, i, g) ==
    /\ g \in DOMAIN place
    /\ place[g].space = place[f].space /\ place[g].level = place[f].level - 1
    /\ place[g].up = f /\ place[g].index = i

Tree(place, m) ==
    \A f \in DOMAIN place : place[f].level # 0 =>
        \A i \in Followed(place[f]) : m[f][i] # 0 => IsChild(place, f, i, m[f][i])

IsRoot(place, f, space) ==
    f \in DOMAIN place /\ place[f].space = space /\ place[f].level = 4

Roots(place, k, ps) ==
    /\ IsRoot(place, k, 0)
    /\ \A s \in Slots : ps[s].pml4 # 0 => IsRoot(place, ps[s].pml4, s)

TableSet == [Indices -> UsableFrames \union {0}]
MemorySet == [PhysicalFrames -> TableSet]
ProcessSet == [pid : Nat, state : {"UNUSED", "READY", "EXITED"}, pml4 : UsableFrames \union {0}]

SharedIn(m, k, ps) ==
    \A s \in Slots : ps[s].pml4 # 0 =>
        \A i \in KernelIndices : m[ps[s].pml4][i] = m[k][i]

BootedIn(m, k, ps) ==
    (\E s \in Slots : ps[s].pml4 # 0) => \A i \in BootIndices : m[k][i] # 0

Owned(place, a, m, k, ps) ==
    /\ AllocGood(a) /\ m \in MemorySet /\ ps \in [Slots -> ProcessSet]
    /\ place \in [DOMAIN place -> PlaceSet] /\ DOMAIN place \subseteq Busy(a)
    /\ Roots(place, k, ps) /\ Tree(place, m)
    /\ SharedIn(m, k, ps) /\ BootedIn(m, k, ps)

(* The invariant: some placing fits the tables and the processes.          *)
SpacesInv ==
    next_pid \in Nat /\ \E place : Owned(place, allocator, memory, kernel, processes)

(* A busy frame is a frame of memory.                                      *)
LEMMA BusyFrames ==
    ASSUME NEW a
    PROVE  /\ Busy(a) \subseteq UsableFrames /\ Busy(a) \subseteq PhysicalFrames
           /\ Busy(a) \subseteq Nat /\ 0 \notin Busy(a)
  BY IssuedUsable, UsableAre DEF Busy

(* The indices                                                             *)
LEMMA IndicesAre ==
    /\ UserIndices \subseteq RootIndices /\ KernelIndices \subseteq RootIndices
    /\ BootIndices \subseteq KernelIndices /\ UserIndices \intersect KernelIndices = {}
    /\ RootIndices \subseteq Indices /\ TableIndices \subseteq Indices
    /\ Indices \subseteq Nat
<1>1. PICK u \in Nat, r \in Nat, t \in Nat :
         u = UserEntries /\ r = RootEntries /\ t = TableEntries /\ u <= r
  BY AddressSpaceAssumption
<1>2. /\ UserIndices = 0 .. u - 1 /\ KernelIndices = u .. r - 1 /\ RootIndices = 0 .. r - 1
      /\ TableIndices = 0 .. t - 1
  BY <1>1 DEF UserIndices, KernelIndices, RootIndices, TableIndices
<1>3. BootIndices \subseteq KernelIndices
  BY AddressSpaceAssumption
<1> QED BY <1>1, <1>2, <1>3 DEF Indices

(* What an entry may be set to is followed.                                *)
LEMMA SettableFollowed ==
    ASSUME NEW p
    PROVE  Settable(p) \subseteq Followed(p) /\ Followed(p) \subseteq Indices
  BY IndicesAre DEF Settable, Followed

(* More frames become busy.                                                *)
LEMMA OwnedGrows ==
    ASSUME NEW place, NEW a, NEW m, NEW k, NEW ps, Owned(place, a, m, k, ps),
           NEW b, AllocGood(b), Busy(a) \subseteq Busy(b)
    PROVE  Owned(place, b, m, k, ps)
  BY DEF Owned

(* The placing with frame g below entry i of table f                       *)
Hung(place, f, i, g) ==
    [h \in DOMAIN place \union {g} |->
        IF h = g THEN [space |-> place[f].space, level |-> place[f].level - 1,
                       up |-> f, index |-> i]
        ELSE place[h]]

(* It changes no other place.                                              *)
LEMMA HungIs ==
    ASSUME NEW place, place \in [DOMAIN place -> PlaceSet], NEW f \in DOMAIN place,
           f \in Nat, place[f].level # 0, NEW i \in Nat, NEW g, g \notin DOMAIN place,
           NEW p, p = Hung(place, f, i, g)
    PROVE  /\ DOMAIN p = DOMAIN place \union {g} /\ p \in [DOMAIN p -> PlaceSet]
           /\ \A h \in DOMAIN place : p[h] = place[h]
           /\ p[g].space = place[f].space /\ p[g].level = place[f].level - 1
           /\ p[g].up = f /\ p[g].index = i
<1>1. PICK s \in Nat, l \in 1 .. 4 : s = place[f].space /\ l = place[f].level
  <2>1. place[f] \in PlaceSet
    OBVIOUS
  <2> QED BY <2>1 DEF PlaceSet
<1>2. PICK q : q = [space |-> s, level |-> l - 1, up |-> f, index |-> i]
  OBVIOUS
<1>3. l - 1 \in 0 .. 4
  OBVIOUS
<1>4. q \in PlaceSet /\ q.space = s /\ q.level = l - 1 /\ q.up = f /\ q.index = i
  BY <1>2, <1>3 DEF PlaceSet
<1>5. p = [h \in DOMAIN place \union {g} |-> IF h = g THEN q ELSE place[h]]
  BY <1>1, <1>2 DEF Hung
<1>6. /\ DOMAIN p = DOMAIN place \union {g} /\ p[g] = q
      /\ \A h \in DOMAIN place : p[h] = place[h]
  BY <1>5
<1>7. p \in [DOMAIN p -> PlaceSet]
  BY <1>4, <1>5
<1> QED BY <1>1, <1>4, <1>6, <1>7

(* What setting one entry of one table, and filling another table, leaves  *)
PutIn(m, f, i, g, c) == [[m EXCEPT ![g] = c] EXCEPT ![f][i] = g]

(* The tables after it                                                     *)
LEMMA PutIs ==
    ASSUME NEW m \in MemorySet, NEW f \in PhysicalFrames, NEW i \in Indices,
           NEW g \in UsableFrames, g # f, NEW c \in TableSet,
           NEW n, n = PutIn(m, f, i, g, c)
    PROVE  /\ n \in MemorySet /\ n[f][i] = g /\ n[g] = c
           /\ \A j \in Indices : j # i => n[f][j] = m[f][j]
           /\ \A h \in PhysicalFrames : h # f /\ h # g => n[h] = m[h]
<1>1. g \in PhysicalFrames
  BY UsableAre
<1>2. PICK T : T = TableSet
  OBVIOUS
<1>3. PICK x : x = [m EXCEPT ![g] = c]
  OBVIOUS
<1>4. m \in [PhysicalFrames -> T] /\ c \in T
  BY <1>2 DEF MemorySet
<1>5. /\ x \in [PhysicalFrames -> T] /\ x[g] = c
      /\ \A h \in PhysicalFrames : h # g => x[h] = m[h]
  BY <1>1, <1>3, <1>4
<1>6. PICK t : t = [x[f] EXCEPT ![i] = g]
  OBVIOUS
<1>7. m[f] \in TableSet /\ x[f] = m[f]
  BY <1>2, <1>4, <1>5
<1>8. t \in TableSet /\ t[i] = g /\ \A j \in Indices : j # i => t[j] = m[f][j]
  BY <1>6, <1>7 DEF TableSet
<1>9. n = [x EXCEPT ![f] = t]
  BY <1>3, <1>6 DEF PutIn
<1>10. n \in [PhysicalFrames -> T] /\ n[f] = t /\ \A h \in PhysicalFrames : h # f => n[h] = x[h]
  BY <1>2, <1>5, <1>8, <1>9
<1> QED BY <1>1, <1>2, <1>5, <1>8, <1>10 DEF MemorySet

(* An empty table                                                          *)
LEMMA EmptyIs == EmptyTable \in TableSet /\ \A i \in Indices : EmptyTable[i] = 0
  BY DEF EmptyTable, TableSet

(* map_page and next_table hang a frame that nobody has under an entry of  *)
(* a table: everything else stays as it is.                                *)
LEMMA PutEntry ==
    ASSUME NEW place, NEW a, NEW m, NEW k, NEW ps, Owned(place, a, m, k, ps),
           NEW f \in DOMAIN place, place[f].level # 0, NEW i \in Settable(place[f]),
           place[f].level = 4 => m[f][i] = 0,
           NEW g \in Busy(a), g \notin DOMAIN place,
           NEW c \in TableSet, place[f].level # 1 => c = EmptyTable,
           NEW n, n = PutIn(m, f, i, g, c)
    PROVE  Owned(Hung(place, f, i, g), a, n, k, ps)
<1>1. PICK p : p = Hung(place, f, i, g)
  OBVIOUS
<1>2. /\ AllocGood(a) /\ m \in MemorySet /\ ps \in [Slots -> ProcessSet]
      /\ place \in [DOMAIN place -> PlaceSet] /\ DOMAIN place \subseteq Busy(a)
      /\ Roots(place, k, ps) /\ Tree(place, m)
      /\ SharedIn(m, k, ps) /\ BootedIn(m, k, ps)
  BY DEF Owned
<1>3. /\ Busy(a) \subseteq UsableFrames /\ Busy(a) \subseteq PhysicalFrames
      /\ Busy(a) \subseteq Nat /\ 0 \notin Busy(a)
  BY BusyFrames
<1>4. i \in Followed(place[f]) /\ i \in Indices /\ i \in Nat
  BY SettableFollowed, IndicesAre
<1>5. /\ DOMAIN p = DOMAIN place \union {g} /\ p \in [DOMAIN p -> PlaceSet]
      /\ \A h \in DOMAIN place : p[h] = place[h]
      /\ p[g].space = place[f].space /\ p[g].level = place[f].level - 1
      /\ p[g].up = f /\ p[g].index = i
  <2>1. f \in Nat /\ i \in Nat /\ place \in [DOMAIN place -> PlaceSet]
    BY <1>2, <1>3, <1>4
  <2> HIDE <1>2
  <2> QED BY <1>1, <2>1, HungIs, SMTT(30)
<1>6. /\ n \in MemorySet /\ n[f][i] = g /\ n[g] = c
      /\ \A j \in Indices : j # i => n[f][j] = m[f][j]
      /\ \A h \in PhysicalFrames : h # f /\ h # g => n[h] = m[h]
  <2>1. f \in PhysicalFrames /\ g \in UsableFrames /\ g # f
    BY <1>2, <1>3
  <2> QED BY <1>2, <1>4, <2>1, PutIs
<1>7. PICK l \in 1 .. 4 : l = place[f].level
  <2>1. place[f] \in PlaceSet
    BY <1>2
  <2> QED BY <2>1 DEF PlaceSet
<1>8. Tree(p, n)
  <2>1. ASSUME NEW h \in DOMAIN p, p[h].level # 0, NEW j \in Followed(p[h]), n[h][j] # 0
        PROVE  IsChild(p, h, j, n[h][j])
    <3>1. j \in Indices
      BY SettableFollowed
    <3>2. CASE h = g
      <4>1. l # 1
        BY <1>5, <1>7, <2>1, <3>2
      <4>2. n[h][j] = 0
        BY <1>6, <1>7, <3>1, <3>2, <4>1, EmptyIs
      <4> QED BY <2>1, <4>2
    <3>3. CASE h = f /\ j = i
      BY <1>5, <1>6, <3>3 DEF IsChild
    <3>4. CASE h # g /\ ~(h = f /\ j = i)
      <4>1. h \in DOMAIN place /\ p[h] = place[h] /\ h \in PhysicalFrames
        BY <1>2, <1>3, <1>5, <3>4
      <4>2. n[h][j] = m[h][j]
        BY <1>6, <3>1, <3>4, <4>1
      <4>3. IsChild(place, h, j, m[h][j])
        BY <1>2, <2>1, <4>1, <4>2 DEF Tree
      <4> QED BY <1>5, <4>1, <4>2, <4>3 DEF IsChild
    <3> QED BY <3>2, <3>3, <3>4
  <2> QED BY <2>1 DEF Tree
<1>9. Roots(p, k, ps)
  BY <1>2, <1>5 DEF Roots, IsRoot
<1>10. IsRoot(place, k, 0) /\ \A s \in Slots : ps[s].pml4 # 0 => IsRoot(place, ps[s].pml4, s)
  BY <1>2 DEF Roots
<1>11. 0 \notin Slots
  BY AddressSpaceAssumption DEF Slots
<1>12. k \in PhysicalFrames /\ k # g
  BY <1>2, <1>3, <1>10 DEF IsRoot
<1>13. ASSUME NEW j \in KernelIndices, n[k][j] # m[k][j]
       PROVE  k = f /\ j = i /\ i \in BootIndices /\ m[k][j] = 0 /\ n[k][j] # 0
  <2>1. j \in Indices
    BY IndicesAre
  <2>2. k = f /\ j = i
    BY <1>6, <1>12, <1>13, <2>1
  <2>3. l = 4 /\ place[f].space = 0
    BY <1>7, <1>10, <2>2 DEF IsRoot
  <2>4. i \in BootIndices
    BY <1>7, <2>2, <2>3, IndicesAre DEF Settable
  <2>5. g # 0
    BY <1>3
  <2> QED BY <1>6, <1>7, <2>2, <2>3, <2>4, <2>5
<1>14. BootedIn(n, k, ps)
  <2>1. ASSUME NEW s \in Slots, ps[s].pml4 # 0, NEW j \in BootIndices PROVE n[k][j] # 0
    BY <1>2, <1>13, <2>1, IndicesAre DEF BootedIn
  <2> QED BY <2>1 DEF BootedIn
<1>15. SharedIn(n, k, ps)
  <2>1. ASSUME NEW s \in Slots, ps[s].pml4 # 0, NEW j \in KernelIndices
        PROVE  n[ps[s].pml4][j] = n[k][j]
    <3>1. n[k][j] = m[k][j]
      BY <1>2, <1>13, <2>1 DEF BootedIn
    <3>2. PICK r : r = ps[s].pml4
      OBVIOUS
    <3>3. r \in DOMAIN place /\ place[r].space = s /\ place[r].level = 4 /\ s # 0
      BY <1>10, <1>11, <2>1, <3>2 DEF IsRoot
    <3>4. r \in PhysicalFrames /\ r # g /\ j \in Indices
      BY <1>2, <1>3, <3>3, IndicesAre
    <3>5. r = f => j # i
      BY <1>7, <3>3, IndicesAre DEF Settable
    <3>6. n[r][j] = m[r][j]
      BY <1>6, <3>4, <3>5
    <3>7. m[r][j] = m[k][j]
      BY <1>2, <2>1, <3>2 DEF SharedIn
    <3> QED BY <3>1, <3>2, <3>6, <3>7
  <2> QED BY <2>1 DEF SharedIn
<1>16. DOMAIN p \subseteq Busy(a)
  BY <1>2, <1>5
<1> QED BY <1>1, <1>2, <1>5, <1>6, <1>8, <1>9, <1>14, <1>15, <1>16 DEF Owned

-----------------------------------------------------------------------------
(* map_page                                                                *)

WalkSet == [allocator : AllocatorSet, memory : MemorySet, table : UsableFrames \union {0}]

(* map_page has come to a table of level l, or failed, with frame g in     *)
(* hand.                                                                   *)
Reached(place, w, k, ps, g, l) ==
    /\ w \in WalkSet /\ Owned(place, w.allocator, w.memory, k, ps)
    /\ g \in Busy(w.allocator) /\ g \notin DOMAIN place
    /\ (w.table # 0 => w.table \in DOMAIN place /\ place[w.table].level = l)

(* The parts of an owner, a few at a time                                  *)
LEMMA OwnedParts ==
    ASSUME NEW place, NEW a, NEW m, NEW k, NEW ps, Owned(place, a, m, k, ps)
    PROVE  /\ AllocGood(a) /\ a \in AllocatorSet /\ m \in MemorySet
           /\ DOMAIN place \subseteq Busy(a) /\ DOMAIN place \subseteq UsableFrames
           /\ 0 \notin DOMAIN place
           /\ \A f \in DOMAIN place : place[f] \in PlaceSet
<1>1. DOMAIN place \subseteq Busy(a) /\ AllocGood(a) /\ m \in MemorySet
      /\ \A f \in DOMAIN place : place[f] \in PlaceSet
  BY DEF Owned
<1> QED BY <1>1, BusyFrames DEF AllocGood

(* next_table goes one level down, or fails.                               *)
LEMMA NextTableReaches ==
    ASSUME NEW place, NEW w, NEW k, NEW ps, NEW g, NEW l \in 2 .. 4,
           Reached(place, w, k, ps, g, l), NEW i,
           w.table # 0 => i \in Settable(place[w.table])
    PROVE  \E p : Reached(p, NextTable(w, i), k, ps, g, l - 1)
<1>1. PICK v : v = NextTable(w, i)
  OBVIOUS
<1>2. PICK a, m, t : a = w.allocator /\ m = w.memory /\ t = w.table
  OBVIOUS
<1>3. /\ w \in WalkSet /\ Owned(place, a, m, k, ps) /\ g \in Busy(a) /\ g \notin DOMAIN place
      /\ (t # 0 => t \in DOMAIN place /\ place[t].level = l)
  BY <1>2 DEF Reached
<1>4. /\ AllocGood(a) /\ m \in MemorySet /\ DOMAIN place \subseteq Busy(a)
      /\ DOMAIN place \subseteq UsableFrames /\ 0 \notin DOMAIN place
  BY <1>3, OwnedParts
<1>5. CASE t = 0
  <2>1. v = w
    BY <1>1, <1>2, <1>5 DEF NextTable
  <2>2. Reached(place, w, k, ps, g, l - 1)
    BY <1>2, <1>3, <1>5 DEF Reached
  <2> QED BY <1>1, <2>1, <2>2
<1>6. CASE t # 0 /\ m[t][i] # 0
  <2>1. v = [w EXCEPT !.table = m[t][i]]
    BY <1>1, <1>2, <1>6 DEF NextTable
  <2>2. PICK x : x = m[t][i]
    OBVIOUS
  <2>3. i \in Followed(place[t])
    BY <1>2, <1>6, SettableFollowed
  <2>4. IsChild(place, t, i, x)
    <3>1. Tree(place, m)
      BY <1>3 DEF Owned
    <3> QED BY <1>3, <1>6, <2>2, <2>3, <3>1 DEF Tree
  <2>5. x \in DOMAIN place /\ place[x].level = l - 1 /\ x \in UsableFrames
    BY <1>3, <1>4, <1>6, <2>4 DEF IsChild
  <2>6. v \in WalkSet /\ v.allocator = a /\ v.memory = m /\ v.table = x
    BY <1>2, <1>3, <2>1, <2>2, <2>5 DEF WalkSet
  <2>7. Reached(place, v, k, ps, g, l - 1)
    BY <1>3, <2>5, <2>6 DEF Reached
  <2> QED BY <1>1, <2>7
<1>7. CASE t # 0 /\ m[t][i] = 0
  <2>1. PICK got : got = FrameAllocate(a)
    OBVIOUS
  <2>2. PICK b, x : b = got.allocator /\ x = got.frame
    OBVIOUS
  <2>3. /\ AllocGood(b) /\ Busy(a) \subseteq Busy(b)
        /\ (x # 0 => x \in UsableFrames /\ x \in Busy(b) /\ x \notin Busy(a))
    BY <1>4, <2>1, <2>2, AllocateGives
  <2>4. Owned(place, b, m, k, ps)
    BY <1>3, <2>3, OwnedGrows
  <2>5. v = [allocator |-> b,
             memory |-> IF x = 0 THEN m
                        ELSE [m EXCEPT ![x] = EmptyTable, ![t][i] = x],
             table |-> x]
    BY <1>1, <1>2, <1>7, <2>1, <2>2 DEF NextTable
  <2>6. b \in AllocatorSet
    BY <2>3 DEF AllocGood
  <2>7. CASE x = 0
    <3>1. v \in WalkSet /\ v.allocator = b /\ v.memory = m /\ v.table = 0
      BY <1>4, <2>5, <2>6, <2>7 DEF WalkSet
    <3>2. Reached(place, v, k, ps, g, l - 1)
      BY <1>3, <2>3, <2>4, <3>1 DEF Reached
    <3> QED BY <1>1, <3>2
  <2>8. CASE x # 0
    <3>1. PICK n : n = PutIn(m, t, i, x, EmptyTable)
      OBVIOUS
    <3>2. PICK p : p = Hung(place, t, i, x)
      OBVIOUS
    <3>3. i \in Settable(place[t]) /\ t \in DOMAIN place /\ place[t].level # 0
      BY <1>2, <1>3, <1>7
    <3>4. x \notin DOMAIN place
      BY <1>4, <2>3, <2>8
    <3>5. Owned(p, b, n, k, ps)
      <4>1. x \in Busy(b) /\ EmptyTable \in TableSet /\ m[t][i] = 0
        BY <1>7, <2>3, <2>8, EmptyIs
      <4> QED BY <2>4, <3>1, <3>2, <3>3, <3>4, <4>1, PutEntry
    <3>6. n \in MemorySet
      BY <3>5, OwnedParts
    <3>7. v = [allocator |-> b, memory |-> n, table |-> x]
      BY <2>5, <2>8, <3>1 DEF PutIn
    <3>8. v \in WalkSet /\ v.allocator = b /\ v.memory = n /\ v.table = x
      BY <2>3, <2>6, <2>8, <3>6, <3>7 DEF WalkSet
    <3>9. DOMAIN p = DOMAIN place \union {x} /\ p[x].level = l - 1
      <4>1. p[x].level = place[t].level - 1 /\ DOMAIN p = DOMAIN place \union {x}
        BY <3>2 DEF Hung
      <4> QED BY <1>3, <1>7, <4>1
    <3>10. g # x
      BY <1>3, <2>3, <2>8
    <3>11. Reached(p, v, k, ps, g, l - 1)
      BY <1>3, <2>3, <3>5, <3>8, <3>9, <3>10 DEF Reached
    <3> QED BY <1>1, <3>11
  <2> QED BY <2>7, <2>8
<1> QED BY <1>5, <1>6, <1>7

(* The walk of map_page is three calls of next_table.                      *)
LEMMA WalkIs ==
    ASSUME NEW w, NEW va,
           NEW f, f = CHOOSE g : g = [n \in 0 .. 3 |-> IF n = 0 THEN w ELSE NextTable(g[n - 1], va[n])]
    PROVE  f[3] = NextTable(NextTable(NextTable(w, va[1]), va[2]), va[3])
<1>1. PICK a, b, c : a = NextTable(w, va[1]) /\ b = NextTable(a, va[2]) /\ c = NextTable(b, va[3])
  OBVIOUS
<1> DEFINE Walk(g) == g = [n \in 0 .. 3 |-> IF n = 0 THEN w ELSE NextTable(g[n - 1], va[n])]
<1>2. PICK h : h = [n \in 0 .. 3 |-> IF n = 0 THEN w ELSE IF n = 1 THEN a ELSE IF n = 2 THEN b ELSE c]
  OBVIOUS
<1>3. h[0] = w /\ h[1] = a /\ h[2] = b /\ h[3] = c
  BY <1>2
<1>4. \A n \in 0 .. 3 : h[n] = IF n = 0 THEN w ELSE NextTable(h[n - 1], va[n])
  <2>1. ASSUME NEW n \in 0 .. 3 PROVE n = 0 \/ (n = 1 /\ n - 1 = 0) \/ (n = 2 /\ n - 1 = 1) \/ (n = 3 /\ n - 1 = 2)
    OBVIOUS
  <2> QED BY <1>1, <1>3, <2>1
<1>5. h = [n \in 0 .. 3 |-> h[n]]
  BY <1>2
<1>6. Walk(h)
  BY <1>4, <1>5
<1>7. f = CHOOSE g : Walk(g)
  OBVIOUS
<1>8. Walk(f)
  <2> HIDE DEF Walk
  <2> QED BY <1>6, <1>7
<1>9. f[0] = w /\ f[1] = NextTable(f[1 - 1], va[1]) /\ f[2] = NextTable(f[2 - 1], va[2])
      /\ f[3] = NextTable(f[3 - 1], va[3])
  BY <1>8
<1> QED BY <1>9, 1 - 1 = 0, 2 - 1 = 1, 3 - 1 = 2

(* map_page: the frame is mapped, or the frame is lost; either way every   *)
(* frame has one owner at most.                                            *)
LEMMA MapPageKeeps ==
    ASSUME NEW place, NEW a, NEW k, NEW ps, Owned(place, a, memory, k, ps),
           NEW g \in Busy(a), g \notin DOMAIN place,
           NEW root \in DOMAIN place, place[root].level = 4,
           NEW va, va[1] \in Settable(place[root]),
           va[2] \in TableIndices, va[3] \in TableIndices, va[4] \in TableIndices,
           NEW d, d = MapPage(a, root, va, g)
    PROVE  \E p : Owned(p, d.allocator, d.memory, k, ps)
<1>1. PICK w4 : w4 = [allocator |-> a, memory |-> memory, table |-> root]
  OBVIOUS
<1>2. PICK w3 : w3 = NextTable(w4, va[1])
  OBVIOUS
<1>3. PICK w2 : w2 = NextTable(w3, va[2])
  OBVIOUS
<1>4. PICK w1 : w1 = NextTable(w2, va[3])
  OBVIOUS
<1>5. d = IF w1.table = 0 THEN w1 ELSE [w1 EXCEPT !.memory[w1.table][va[4]] = g]
  <2> DEFINE pml4 == [allocator |-> a, memory |-> memory, table |-> root]
             walk == CHOOSE h : h = [n \in 0 .. 3 |-> IF n = 0 THEN pml4 ELSE NextTable(h[n - 1], va[n])]
  <2>1. d = IF walk[3].table = 0 THEN walk[3] ELSE [walk[3] EXCEPT !.memory[walk[3].table][va[4]] = g]
    BY DEF MapPage
  <2>2. PICK f : f = walk
    OBVIOUS
  <2>3. f[3] = NextTable(NextTable(NextTable(pml4, va[1]), va[2]), va[3])
    BY <2>2, WalkIs
  <2>4. walk[3] = w1
    BY <1>1, <1>2, <1>3, <1>4, <2>2, <2>3
  <2> HIDE DEF walk
  <2> QED BY <2>1, <2>4
<1>6. Reached(place, w4, k, ps, g, 4) /\ w4.table = root
  <2>1. a \in AllocatorSet /\ memory \in MemorySet /\ root \in UsableFrames
    BY OwnedParts
  <2>2. w4 \in WalkSet /\ w4.allocator = a /\ w4.memory = memory /\ w4.table = root
    BY <1>1, <2>1 DEF WalkSet
  <2> QED BY <2>2 DEF Reached
<1>7. ASSUME NEW q, NEW w, NEW l \in 1 .. 3, Reached(q, w, k, ps, g, l), w.table # 0
      PROVE  Settable(q[w.table]) = TableIndices
  BY <1>7 DEF Reached, Settable
<1>8. PICK p3 : Reached(p3, w3, k, ps, g, 3)
  <2>1. \E p : Reached(p, NextTable(w4, va[1]), k, ps, g, 4 - 1)
    BY <1>6, NextTableReaches
  <2> QED BY <1>2, <2>1, 4 - 1 = 3
<1>9. PICK p2 : Reached(p2, w2, k, ps, g, 2)
  <2>1. w3.table # 0 => va[2] \in Settable(p3[w3.table])
    BY <1>7, <1>8
  <2>2. \E p : Reached(p, NextTable(w3, va[2]), k, ps, g, 3 - 1)
    BY <1>8, <2>1, NextTableReaches
  <2> QED BY <1>3, <2>2, 3 - 1 = 2
<1>10. PICK p1 : Reached(p1, w1, k, ps, g, 1)
  <2>1. w2.table # 0 => va[3] \in Settable(p2[w2.table])
    BY <1>7, <1>9
  <2>2. \E p : Reached(p, NextTable(w2, va[3]), k, ps, g, 2 - 1)
    BY <1>9, <2>1, NextTableReaches
  <2> QED BY <1>4, <2>2, 2 - 1 = 1
<1>11. PICK b, m, t : b = w1.allocator /\ m = w1.memory /\ t = w1.table
  OBVIOUS
<1>12. w1 \in WalkSet /\ Owned(p1, b, m, k, ps) /\ g \in Busy(b) /\ g \notin DOMAIN p1
  BY <1>10, <1>11 DEF Reached
<1>13. CASE t = 0
  BY <1>5, <1>11, <1>12, <1>13
<1>14. CASE t # 0
  <2>1. t \in DOMAIN p1 /\ p1[t].level = 1 /\ va[4] \in Settable(p1[t])
    BY <1>7, <1>10, <1>11, <1>14 DEF Reached
  <2>2. PICK n : n = PutIn(m, t, va[4], g, m[g])
    OBVIOUS
  <2>3. m \in MemorySet /\ g \in PhysicalFrames /\ t \in PhysicalFrames
    BY <1>12, <2>1, OwnedParts, BusyFrames, UsableAre
  <2>4. m[g] \in TableSet
    BY <2>3 DEF MemorySet
  <2>5. Owned(Hung(p1, t, va[4], g), b, n, k, ps)
    BY <1>12, <2>1, <2>2, <2>4, PutEntry
  <2>6. n = [m EXCEPT ![t][va[4]] = g]
    <3>1. [m EXCEPT ![g] = m[g]] = m
      BY <2>3 DEF MemorySet
    <3> QED BY <2>2, <3>1 DEF PutIn
  <2>7. d = [w1 EXCEPT !.memory = n]
    BY <1>5, <1>11, <1>12, <1>14, <2>6 DEF WalkSet
  <2>8. n \in MemorySet
    BY <2>5, OwnedParts
  <2>9. d.allocator = b /\ d.memory = n
    BY <1>11, <1>12, <2>7, <2>8 DEF WalkSet
  <2> QED BY <2>5, <2>9
<1> QED BY <1>13, <1>14

(* The callers of map_page                                                 *)
LEMMA MapNewFrameKeeps ==
    ASSUME NEW place, Owned(place, allocator, memory, kernel, processes),
           NEW root \in DOMAIN place, place[root].level = 4,
           NEW va, va[1] \in Settable(place[root]),
           va[2] \in TableIndices, va[3] \in TableIndices, va[4] \in TableIndices,
           MapNewFrame(root, va)
    PROVE  \E p : Owned(p, allocator', memory', kernel', processes')
<1>1. PICK got : got = FrameAllocate(allocator)
  OBVIOUS
<1>2. PICK b, x : b = got.allocator /\ x = got.frame
  OBVIOUS
<1>3. /\ AllocGood(b) /\ Busy(allocator) \subseteq Busy(b)
      /\ (x # 0 => x \in UsableFrames /\ x \in Busy(b) /\ x \notin Busy(allocator))
  BY <1>1, <1>2, OwnedParts, AllocateGives
<1>4. Owned(place, b, memory, kernel, processes)
  BY <1>3, OwnedGrows
<1>5. PICK d : d = MapPage(b, root, va, x)
  OBVIOUS
<1>6. /\ kernel' = kernel /\ processes' = processes
      /\ IF x = 0 THEN allocator' = b /\ memory' = memory
         ELSE allocator' = d.allocator /\ memory' = d.memory
  BY <1>1, <1>2, <1>5 DEF MapNewFrame
<1>7. CASE x = 0
  BY <1>4, <1>6, <1>7
<1>8. CASE x # 0
  <2>1. x \in Busy(b) /\ x \notin DOMAIN place
    BY <1>3, <1>8, OwnedParts
  <2>2. \E p : Owned(p, d.allocator, d.memory, kernel, processes)
    BY <1>4, <1>5, <2>1, MapPageKeeps
  <2> QED BY <1>6, <1>8, <2>2
<1> QED BY <1>7, <1>8

(* A page mapped into a process                                            *)
LEMMA MapUserKeeps ==
    ASSUME SpacesInv, NEW s \in Slots, NEW va \in UserPages, MapUserPage(s, va)
    PROVE  SpacesInv'
<1>1. PICK place : Owned(place, allocator, memory, kernel, processes)
  BY DEF SpacesInv
<1>2. PICK root : root = processes[s].pml4
  OBVIOUS
<1>3. root # 0 /\ MapNewFrame(root, va) /\ next_pid' = next_pid
  BY <1>2 DEF MapUserPage, MapNewFrame
<1>4. IsRoot(place, root, s) /\ s # 0
  BY <1>1, <1>2, <1>3, AddressSpaceAssumption DEF Owned, Roots, Slots
<1>5. va \in UserIndices \X TableIndices \X TableIndices \X TableIndices
  BY AddressSpaceAssumption
<1>6. /\ va[1] \in UserIndices /\ va[2] \in TableIndices /\ va[3] \in TableIndices
      /\ va[4] \in TableIndices
  BY <1>5
<1>7. root \in DOMAIN place /\ place[root].level = 4 /\ va[1] \in Settable(place[root])
  BY <1>4, <1>6 DEF IsRoot, Settable
<1>8. \E p : Owned(p, allocator', memory', kernel', processes')
  BY <1>1, <1>3, <1>6, <1>7, MapNewFrameKeeps
<1> QED BY <1>3, <1>8 DEF SpacesInv

(* A page the kernel maps                                                  *)
LEMMA MapKernelKeeps ==
    ASSUME SpacesInv, NEW va \in KernelPages, MapKernelPage(va)
    PROVE  SpacesInv'
<1>1. PICK place : Owned(place, allocator, memory, kernel, processes)
  BY DEF SpacesInv
<1>2. MapNewFrame(kernel, va) /\ next_pid' = next_pid
  BY DEF MapKernelPage, MapNewFrame
<1>3. IsRoot(place, kernel, 0)
  BY <1>1 DEF Owned, Roots
<1>4. va \in (UserIndices \union BootIndices) \X TableIndices \X TableIndices \X TableIndices
  BY AddressSpaceAssumption
<1>5. /\ va[1] \in UserIndices \union BootIndices /\ va[2] \in TableIndices
      /\ va[3] \in TableIndices /\ va[4] \in TableIndices
  BY <1>4
<1>6. kernel \in DOMAIN place /\ place[kernel].level = 4 /\ va[1] \in Settable(place[kernel])
  BY <1>3, <1>5 DEF IsRoot, Settable
<1>7. \E p : Owned(p, allocator', memory', kernel', processes')
  BY <1>1, <1>2, <1>5, <1>6, MapNewFrameKeeps
<1> QED BY <1>2, <1>7 DEF SpacesInv

-----------------------------------------------------------------------------
(* process_create                                                          *)

(* The kernel's half of a new PML4                                         *)
NewRoot == [i \in Indices |-> IF i \in KernelIndices THEN memory[kernel][i] ELSE 0]

(* It is a table with nothing in the user half.                            *)
LEMMA NewRootIs ==
    ASSUME memory \in MemorySet, kernel \in PhysicalFrames
    PROVE  /\ NewRoot \in TableSet /\ \A i \in UserIndices : NewRoot[i] = 0
           /\ \A i \in KernelIndices : NewRoot[i] = memory[kernel][i]
<1>1. memory[kernel] \in TableSet
  BY DEF MemorySet
<1>2. \A i \in Indices : memory[kernel][i] \in UsableFrames \union {0}
  BY <1>1 DEF TableSet
<1>3. NewRoot \in TableSet
  BY <1>2 DEF NewRoot, TableSet
<1> QED BY <1>3, IndicesAre DEF NewRoot

(* A process with an address space of its own                              *)
LEMMA CreateKeeps ==
    ASSUME SpacesInv, Create
    PROVE  SpacesInv'
<1>1. PICK place : Owned(place, allocator, memory, kernel, processes)
  BY DEF SpacesInv
<1>2. PICK got : got = FrameAllocate(allocator)
  OBVIOUS
<1>3. PICK b, x : b = got.allocator /\ x = got.frame
  OBVIOUS
<1>4. /\ AllocGood(b) /\ Busy(allocator) \subseteq Busy(b)
      /\ (x # 0 => x \in UsableFrames /\ x \in Busy(b) /\ x \notin Busy(allocator))
  BY <1>1, <1>2, <1>3, OwnedParts, AllocateGives
<1>5. Owned(place, b, memory, kernel, processes)
  BY <1>1, <1>4, OwnedGrows
<1>6. PICK s : s = CHOOSE q \in UnusedSlots : \A r \in UnusedSlots : q <= r
  OBVIOUS
<1>7. s \in Slots
  <2>1. UnusedSlots \subseteq Slots /\ UnusedSlots # {} /\ Slots \subseteq Nat
    BY DEF Create, UnusedSlots, Slots
  <2>2. \E r \in UnusedSlots : \A q \in UnusedSlots : r <= q
    BY <2>1, LeastNumber
  <2> QED BY <1>6, <2>1, <2>2
<1>8. CASE x = 0
  <2>1. /\ allocator' = b /\ memory' = memory /\ processes' = processes
        /\ kernel' = kernel /\ next_pid' = next_pid
    BY <1>2, <1>3, <1>8 DEF Create
  <2> QED BY <1>5, <2>1 DEF SpacesInv
<1>9. CASE x # 0
  <2>1. PICK proc : proc = [pid |-> next_pid, state |-> "READY", pml4 |-> x]
    OBVIOUS
  <2>2. /\ allocator' = b /\ kernel' = kernel /\ next_pid' = next_pid + 1
        /\ memory' = [memory EXCEPT ![x] = NewRoot]
        /\ processes' = [processes EXCEPT ![s] = proc]
        /\ \A i \in BootIndices : memory[kernel][i] # 0
    BY <1>2, <1>3, <1>6, <1>9, <2>1 DEF Create, NewRoot
  <2>3. next_pid \in Nat /\ next_pid + 1 \in Nat
    BY DEF SpacesInv
  <2>4. /\ memory \in MemorySet /\ processes \in [Slots -> ProcessSet]
        /\ place \in [DOMAIN place -> PlaceSet] /\ DOMAIN place \subseteq Busy(b)
        /\ Tree(place, memory) /\ SharedIn(memory, kernel, processes)
        /\ IsRoot(place, kernel, 0)
        /\ \A r \in Slots : processes[r].pml4 # 0 => IsRoot(place, processes[r].pml4, r)
    BY <1>5 DEF Owned, Roots
  <2>5. /\ DOMAIN place \subseteq PhysicalFrames /\ x \notin DOMAIN place
        /\ x \in PhysicalFrames /\ kernel \in DOMAIN place
    BY <1>1, <1>4, <1>9, <2>4, OwnedParts, UsableAre DEF IsRoot
  <2>6. /\ NewRoot \in TableSet /\ \A i \in UserIndices : NewRoot[i] = 0
        /\ \A i \in KernelIndices : NewRoot[i] = memory[kernel][i]
    BY <2>4, <2>5, NewRootIs
  <2>7. PICK m, ps : m = memory' /\ ps = processes'
    OBVIOUS
  <2>8. /\ m \in MemorySet /\ m[x] = NewRoot
        /\ \A h \in PhysicalFrames : h # x => m[h] = memory[h]
    BY <2>2, <2>4, <2>5, <2>6, <2>7 DEF MemorySet
  <2>9. proc \in ProcessSet /\ proc.pml4 = x
    BY <1>4, <1>9, <2>1, <2>3 DEF ProcessSet
  <2>10. /\ ps \in [Slots -> ProcessSet] /\ ps[s] = proc
         /\ \A r \in Slots : r # s => ps[r] = processes[r]
    BY <1>7, <2>2, <2>4, <2>7, <2>9
  <2>11. PICK q : q \in PlaceSet /\ q.space = s /\ q.level = 4
    <3>1. s \in Nat
      BY <1>7 DEF Slots
    <3> WITNESS [space |-> s, level |-> 4, up |-> 0, index |-> 0]
    <3> QED BY <3>1 DEF PlaceSet
  <2>12. PICK p : p = [h \in DOMAIN place \union {x} |-> IF h = x THEN q ELSE place[h]]
    OBVIOUS
  <2>13. /\ DOMAIN p = DOMAIN place \union {x} /\ p[x] = q
         /\ \A h \in DOMAIN place : p[h] = place[h]
         /\ p \in [DOMAIN p -> PlaceSet]
    BY <2>4, <2>5, <2>11, <2>12
  <2>14. s # 0
    BY <1>7 DEF Slots
  <2>15. Tree(p, m)
    <3>1. ASSUME NEW h \in DOMAIN p, p[h].level # 0, NEW j \in Followed(p[h]), m[h][j] # 0
          PROVE  IsChild(p, h, j, m[h][j])
      <4>1. h # x
        <5>1. CASE h = x
          <6>1. j \in UserIndices
            BY <2>11, <2>13, <2>14, <5>1 DEF Followed
          <6> QED BY <2>6, <2>8, <3>1, <5>1, <6>1
        <5> QED BY <5>1
      <4>2. h \in DOMAIN place /\ p[h] = place[h] /\ m[h] = memory[h]
        BY <2>5, <2>8, <2>13, <4>1
      <4>3. IsChild(place, h, j, memory[h][j])
        BY <2>4, <3>1, <4>2 DEF Tree
      <4> QED BY <2>13, <4>2, <4>3 DEF IsChild
    <3> QED BY <3>1 DEF Tree
  <2>16. Roots(p, kernel, ps)
    <3>1. IsRoot(p, kernel, 0)
      BY <2>4, <2>13 DEF IsRoot
    <3>2. ASSUME NEW r \in Slots, ps[r].pml4 # 0 PROVE IsRoot(p, ps[r].pml4, r)
      <4>1. CASE r = s
        BY <2>9, <2>10, <2>11, <2>13, <4>1 DEF IsRoot
      <4>2. CASE r # s
        BY <2>4, <2>10, <2>13, <3>2, <4>2 DEF IsRoot
      <4> QED BY <4>1, <4>2
    <3> QED BY <3>1, <3>2 DEF Roots
  <2>17. m[kernel] = memory[kernel]
    BY <2>5, <2>8
  <2>18. SharedIn(m, kernel, ps)
    <3>1. ASSUME NEW r \in Slots, ps[r].pml4 # 0, NEW i \in KernelIndices
          PROVE  m[ps[r].pml4][i] = m[kernel][i]
      <4>1. CASE r = s
        BY <2>6, <2>8, <2>9, <2>10, <2>17, <4>1
      <4>2. CASE r # s
        <5>1. processes[r].pml4 # 0 /\ ps[r].pml4 = processes[r].pml4
          BY <2>10, <3>1, <4>2
        <5>2. processes[r].pml4 \in DOMAIN place
          BY <2>4, <5>1 DEF IsRoot
        <5>3. m[processes[r].pml4] = memory[processes[r].pml4]
          BY <2>5, <2>8, <5>2
        <5> QED BY <2>4, <2>17, <5>1, <5>3 DEF SharedIn
      <4> QED BY <4>1, <4>2
    <3> QED BY <3>1 DEF SharedIn
  <2>19. BootedIn(m, kernel, ps)
    BY <2>2, <2>17 DEF BootedIn
  <2>20. DOMAIN p \subseteq Busy(b)
    BY <1>4, <1>9, <2>4, <2>13
  <2>21. Owned(p, b, m, kernel, ps)
    BY <1>4, <2>8, <2>10, <2>13, <2>15, <2>16, <2>18, <2>19, <2>20 DEF Owned
  <2>22. Owned(p, allocator', memory', kernel', processes')
    BY <2>2, <2>7, <2>21
  <2> QED BY <2>2, <2>3, <2>22 DEF SpacesInv
<1> QED BY <1>8, <1>9

-----------------------------------------------------------------------------
(* The beginning                                                           *)

(* Nothing has been handed out yet.                                        *)
LEMMA InitialGood == AllocGood(InitialAllocator)
<1>1. PICK a : a = InitialAllocator
  OBVIOUS
<1>2. /\ a.descriptor_index = 0 /\ a.remaining_pages = 0 /\ a.allocated_pages = 0
      /\ a.free_list = << >>
  BY <1>1 DEF InitialAllocator
<1>3. a \in AllocatorSet
  <2>1. << >> \in Seq(UsableFrames) /\ 0 \in 0 .. Len(MemoryMap)
    BY Descriptors
  <2> QED BY <1>1, <2>1 DEF InitialAllocator, AllocatorSet
<1>4. Issued(a) = {}
  <2>1. \A f : f \notin Issued(a)
    BY <1>2, Descriptors, IssuedIs DEF Passed
  <2> QED BY <2>1
<1>5. Len(a.free_list) = 0 /\ Once(a.free_list) /\ Listed(a.free_list) = {}
  BY <1>2 DEF Once, Listed
<1>6. GoodList(a)
  BY <1>5, MemoryMapAssumption DEF GoodList
<1>7. Counted(a)
  <2>1. Cardinality(Issued(a)) = 0
    BY <1>4, FS_EmptySet
  <2>2. a.allocated_pages = 0 /\ Len(a.free_list) = 0
    BY <1>2
  <2>3. 0 = 0 - 0
    OBVIOUS
  <2> QED BY <2>1, <2>2, <2>3 DEF Counted
<1>8. InRegion(a)
  BY <1>2 DEF InRegion
<1> QED BY <1>1, <1>3, <1>6, <1>7, <1>8 DEF AllocGood

(* The kernel's PML4 is the only frame in use.                             *)
LEMMA SpacesInitInv ==
    ASSUME SpacesInit
    PROVE  SpacesInv
<1>1. PICK root : root = FrameAllocate(InitialAllocator)
  OBVIOUS
<1>2. PICK b, x : b = root.allocator /\ x = root.frame
  OBVIOUS
<1>3. /\ x # 0 /\ kernel = x /\ allocator = b
      /\ memory = [f \in PhysicalFrames |-> EmptyTable]
      /\ processes = [s \in Slots |-> UnusedProcess] /\ next_pid = 1
  BY <1>1, <1>2 DEF SpacesInit
<1>4. AllocGood(b) /\ x \in UsableFrames /\ x \in Busy(b)
  BY <1>1, <1>2, <1>3, InitialGood, AllocateGives
<1>5. PICK q : q \in PlaceSet /\ q.space = 0 /\ q.level = 4
  <2> WITNESS [space |-> 0, level |-> 4, up |-> 0, index |-> 0]
  <2> QED BY DEF PlaceSet
<1>6. PICK p : p = [h \in {x} |-> q]
  OBVIOUS
<1>7. DOMAIN p = {x} /\ p[x] = q /\ p \in [DOMAIN p -> PlaceSet]
  BY <1>5, <1>6
<1>8. memory \in MemorySet /\ \A f \in PhysicalFrames : memory[f] = EmptyTable
  BY <1>3, EmptyIs DEF MemorySet
<1>9. UnusedProcess \in ProcessSet /\ UnusedProcess.pml4 = 0
  BY DEF UnusedProcess, ProcessSet
<1>10. processes \in [Slots -> ProcessSet] /\ \A s \in Slots : processes[s].pml4 = 0
  BY <1>3, <1>9
<1>11. Tree(p, memory)
  <2>1. ASSUME NEW h \in DOMAIN p, NEW j \in Followed(p[h]) PROVE memory[h][j] = 0
    BY <1>4, <1>7, <1>8, EmptyIs, UsableAre, SettableFollowed
  <2> QED BY <2>1 DEF Tree
<1>12. Roots(p, kernel, processes)
  BY <1>3, <1>5, <1>7, <1>10 DEF Roots, IsRoot
<1>13. SharedIn(memory, kernel, processes) /\ BootedIn(memory, kernel, processes)
  BY <1>10 DEF SharedIn, BootedIn
<1>14. DOMAIN p \subseteq Busy(b)
  BY <1>4, <1>7
<1>15. Owned(p, allocator, memory, kernel, processes)
  BY <1>3, <1>4, <1>7, <1>8, <1>10, <1>11, <1>12, <1>13, <1>14 DEF Owned
<1> QED BY <1>3, <1>15 DEF SpacesInv

-----------------------------------------------------------------------------
(* paging_destroy_address_space                                            *)

(* What is done below a frame at each level, and how many entries a table  *)
(* has                                                                     *)
DeeperAt(l, a, f) ==
    CASE l = 0 -> FreePage(a, f)
      [] l = 1 -> FreeTable(a, f)
      [] l = 2 -> FreeDirectory(a, f)
      [] l = 3 -> FreePointers(a, f)
      [] l = 4 -> FreeSpaceBelow(a, f)

EntriesAt(l) == IF l = 4 THEN UserEntries ELSE TableEntries

(* One entry of a table of the level above l                               *)
FreeEntry(l, u, f) == IF f = 0 THEN u ELSE FrameFree(DeeperAt(l, u, f), f)

(* g[n] is the allocator after n entries of table t.                       *)
LoopIs(g, l, a, t, n) ==
    /\ g = [k \in 0 .. n |-> g[k]] /\ g[0] = a
    /\ \A k \in 1 .. n : g[k] = FreeEntry(l, g[k - 1], memory[t][k - 1])

(* The loop over n entries exists.                                         *)
LEMMA LoopExists ==
    ASSUME NEW l, NEW a, NEW t, NEW len \in Nat
    PROVE  \E g : LoopIs(g, l, a, t, len)
<1> DEFINE Stuck == {n \in Nat : ~\E g : LoopIs(g, l, a, t, n)}
<1>1. Stuck = {}
  <2> SUFFICES ASSUME Stuck # {} PROVE FALSE
    OBVIOUS
  <2>1. PICK n \in Stuck : \A m \in Stuck : n <= m
    <3>1. Stuck \subseteq Nat
      OBVIOUS
    <3> HIDE DEF Stuck
    <3> QED BY <3>1, LeastNumber
  <2>2. CASE n = 0
    <3>1. PICK g : g = [k \in 0 .. 0 |-> a]
      OBVIOUS
    <3>2. LoopIs(g, l, a, t, 0)
      BY <3>1 DEF LoopIs
    <3> QED BY <2>2, <3>2
  <2>3. CASE n # 0
    <3>1. n \in Nat /\ n - 1 \in Nat /\ n - 1 \notin Stuck
      <4>1. n \in Nat
        OBVIOUS
      <4> HIDE DEF Stuck
      <4> QED BY <2>1, <2>3, <4>1
    <3>2. PICK g : LoopIs(g, l, a, t, n - 1)
      BY <3>1
    <3>3. PICK e : e = FreeEntry(l, g[n - 1], memory[t][n - 1])
      OBVIOUS
    <3>4. PICK h : h = [k \in 0 .. n |-> IF k = n THEN e ELSE g[k]]
      OBVIOUS
    <3>5. h[n] = e /\ h[0] = a /\ \A k \in 0 .. n - 1 : h[k] = g[k]
      BY <2>3, <3>1, <3>2, <3>4 DEF LoopIs
    <3>6. ASSUME NEW k \in 1 .. n
          PROVE  h[k] = FreeEntry(l, h[k - 1], memory[t][k - 1])
      <4>1. CASE k = n
        BY <3>1, <3>3, <3>5, <4>1
      <4>2. CASE k # n
        <5>1. k \in 1 .. n - 1 /\ k \in 0 .. n - 1 /\ k - 1 \in 0 .. n - 1
          BY <3>1, <4>2
        <5>2. h[k] = g[k] /\ h[k - 1] = g[k - 1]
          BY <3>5, <5>1
        <5> QED BY <3>2, <5>1, <5>2 DEF LoopIs
      <4> QED BY <4>1, <4>2
    <3>7. h = [k \in 0 .. n |-> h[k]]
      BY <3>4
    <3>8. LoopIs(h, l, a, t, n)
      BY <3>5, <3>6, <3>7 DEF LoopIs
    <3> QED BY <3>8
  <2> QED BY <2>2, <2>3
<1> QED BY <1>1

(* The loops of the code are these.                                        *)
LEMMA LoopsAre ==
    ASSUME NEW l \in 0 .. 3, NEW a, NEW t
    PROVE  \E g : LoopIs(g, l, a, t, EntriesAt(l + 1))
                  /\ DeeperAt(l + 1, a, t) = g[EntriesAt(l + 1)]
<1>1. UserEntries \in Nat /\ TableEntries \in Nat
  BY AddressSpaceAssumption
<1>2. CASE l = 0
  <2> DEFINE Loop(g) ==
        g = [n \in 0 .. TableEntries |->
               IF n = 0 THEN a
               ELSE LET f == memory[t][n - 1]
                    IN IF f = 0 THEN g[n - 1] ELSE FrameFree(FreePage(g[n - 1], f), f)]
  <2>1. FreeTable(a, t) = (CHOOSE g : Loop(g))[TableEntries]
    BY DEF FreeTable, FreeBelow
  <2>2. ASSUME NEW g PROVE Loop(g) <=> LoopIs(g, 0, a, t, TableEntries)
    <3>1. \A u, f : FreeEntry(0, u, f) = IF f = 0 THEN u ELSE FrameFree(FreePage(u, f), f)
      BY DEF FreeEntry, DeeperAt
    <3> QED BY <1>1, <3>1, SMTT(30) DEF LoopIs
  <2>3. \E g : Loop(g)
    <3> HIDE DEF Loop
    <3> QED BY <1>1, <2>2, LoopExists
  <2>4. PICK g : g = CHOOSE h : Loop(h)
    OBVIOUS
  <2>5. Loop(g)
    <3> HIDE DEF Loop
    <3> QED BY <2>3, <2>4
  <2>6. LoopIs(g, 0, a, t, TableEntries) /\ FreeTable(a, t) = g[TableEntries]
    <3> HIDE DEF Loop
    <3> QED BY <2>1, <2>2, <2>4, <2>5
  <2>7. EntriesAt(l + 1) = TableEntries /\ DeeperAt(l + 1, a, t) = FreeTable(a, t)
    BY <1>2 DEF EntriesAt, DeeperAt
  <2> HIDE DEF Loop
  <2> QED BY <1>2, <2>6, <2>7
<1>3. CASE l = 1
  <2> DEFINE Loop(g) ==
        g = [n \in 0 .. TableEntries |->
               IF n = 0 THEN a
               ELSE LET f == memory[t][n - 1]
                    IN IF f = 0 THEN g[n - 1] ELSE FrameFree(FreeTable(g[n - 1], f), f)]
  <2>1. FreeDirectory(a, t) = (CHOOSE g : Loop(g))[TableEntries]
    BY DEF FreeDirectory, FreeBelow
  <2>2. ASSUME NEW g PROVE Loop(g) <=> LoopIs(g, 1, a, t, TableEntries)
    <3>1. \A u, f : FreeEntry(1, u, f) = IF f = 0 THEN u ELSE FrameFree(FreeTable(u, f), f)
      BY DEF FreeEntry, DeeperAt
    <3> QED BY <1>1, <3>1 DEF LoopIs
  <2>3. \E g : Loop(g)
    <3> HIDE DEF Loop
    <3> QED BY <1>1, <2>2, LoopExists
  <2>4. PICK g : g = CHOOSE h : Loop(h)
    OBVIOUS
  <2>5. Loop(g)
    <3> HIDE DEF Loop
    <3> QED BY <2>3, <2>4
  <2>6. LoopIs(g, 1, a, t, TableEntries) /\ FreeDirectory(a, t) = g[TableEntries]
    <3> HIDE DEF Loop
    <3> QED BY <2>1, <2>2, <2>4, <2>5
  <2>7. EntriesAt(l + 1) = TableEntries /\ DeeperAt(l + 1, a, t) = FreeDirectory(a, t)
    BY <1>3 DEF EntriesAt, DeeperAt
  <2> HIDE DEF Loop
  <2> QED BY <1>3, <2>6, <2>7
<1>4. CASE l = 2
  <2> DEFINE Loop(g) ==
        g = [n \in 0 .. TableEntries |->
               IF n = 0 THEN a
               ELSE LET f == memory[t][n - 1]
                    IN IF f = 0 THEN g[n - 1] ELSE FrameFree(FreeDirectory(g[n - 1], f), f)]
  <2>1. FreePointers(a, t) = (CHOOSE g : Loop(g))[TableEntries]
    BY DEF FreePointers, FreeBelow
  <2>2. ASSUME NEW g PROVE Loop(g) <=> LoopIs(g, 2, a, t, TableEntries)
    <3>1. \A u, f : FreeEntry(2, u, f) = IF f = 0 THEN u ELSE FrameFree(FreeDirectory(u, f), f)
      BY DEF FreeEntry, DeeperAt
    <3> QED BY <1>1, <3>1, SMTT(30) DEF LoopIs
  <2>3. \E g : Loop(g)
    <3> HIDE DEF Loop
    <3> QED BY <1>1, <2>2, LoopExists
  <2>4. PICK g : g = CHOOSE h : Loop(h)
    OBVIOUS
  <2>5. Loop(g)
    <3> HIDE DEF Loop
    <3> QED BY <2>3, <2>4
  <2>6. LoopIs(g, 2, a, t, TableEntries) /\ FreePointers(a, t) = g[TableEntries]
    <3> HIDE DEF Loop
    <3> QED BY <2>1, <2>2, <2>4, <2>5
  <2>7. EntriesAt(l + 1) = TableEntries /\ DeeperAt(l + 1, a, t) = FreePointers(a, t)
    BY <1>4 DEF EntriesAt, DeeperAt
  <2> HIDE DEF Loop
  <2> QED BY <1>4, <2>6, <2>7
<1>5. CASE l = 3
  <2> DEFINE Loop(g) ==
        g = [n \in 0 .. UserEntries |->
               IF n = 0 THEN a
               ELSE LET f == memory[t][n - 1]
                    IN IF f = 0 THEN g[n - 1] ELSE FrameFree(FreePointers(g[n - 1], f), f)]
  <2>1. FreeSpaceBelow(a, t) = (CHOOSE g : Loop(g))[UserEntries]
    BY DEF FreeSpaceBelow, FreeBelow
  <2>2. ASSUME NEW g PROVE Loop(g) <=> LoopIs(g, 3, a, t, UserEntries)
    <3>1. \A u, f : FreeEntry(3, u, f) = IF f = 0 THEN u ELSE FrameFree(FreePointers(u, f), f)
      BY DEF FreeEntry, DeeperAt
    <3> QED BY <1>1, <3>1 DEF LoopIs
  <2>3. \E g : Loop(g)
    <3> HIDE DEF Loop
    <3> QED BY <1>1, <2>2, LoopExists
  <2>4. PICK g : g = CHOOSE h : Loop(h)
    OBVIOUS
  <2>5. Loop(g)
    <3> HIDE DEF Loop
    <3> QED BY <2>3, <2>4
  <2>6. LoopIs(g, 3, a, t, UserEntries) /\ FreeSpaceBelow(a, t) = g[UserEntries]
    <3> HIDE DEF Loop
    <3> QED BY <2>1, <2>2, <2>4, <2>5
  <2>7. EntriesAt(l + 1) = UserEntries /\ DeeperAt(l + 1, a, t) = FreeSpaceBelow(a, t)
    BY <1>5 DEF EntriesAt, DeeperAt
  <2> HIDE DEF Loop
  <2> QED BY <1>5, <2>6, <2>7
<1> QED BY <1>2, <1>3, <1>4, <1>5

(* The frames below a frame of each level, and the indices they are under  *)
Under1(t) == Named(t, TableIndices)
Under2(t) == UNION {{e} \union Under1(e) : e \in Named(t, TableIndices)}
Under3(t) == UNION {{e} \union Under2(e) : e \in Named(t, TableIndices)}
Under4(t) == UNION {{e} \union Under3(e) : e \in Named(t, UserIndices)}

UnderAt(l, f) ==
    CASE l = 0 -> {}
      [] l = 1 -> Under1(f)
      [] l = 2 -> Under2(f)
      [] l = 3 -> Under3(f)
      [] l = 4 -> Under4(f)

Down(l) == IF l = 4 THEN UserIndices ELSE TableIndices

(* What is below an entry of a table                                       *)
Part(l, e) == {e} \union UnderAt(l, e)

(* Frames below a table, one by one                                        *)
LEMMA UnderIs ==
    ASSUME NEW l \in 0 .. 3, NEW t, NEW x
    PROVE  x \in UnderAt(l + 1, t) <=>
              \E i \in Down(l + 1) : memory[t][i] # 0 /\ x \in Part(l, memory[t][i])
<1>1. UnderAt(l + 1, t) = UNION {Part(l, e) : e \in Named(t, Down(l + 1))}
  <2>1. CASE l = 0
    <3>1. UnderAt(l + 1, t) = Named(t, TableIndices) /\ Down(l + 1) = TableIndices
      BY <2>1 DEF UnderAt, Under1, Down
    <3>2. \A e : Part(l, e) = {e}
      BY <2>1 DEF Part, UnderAt
    <3> QED BY <3>1, <3>2
  <2>2. CASE l = 1
    BY <2>2 DEF UnderAt, Under2, Down, Part
  <2>3. CASE l = 2
    BY <2>3 DEF UnderAt, Under3, Down, Part
  <2>4. CASE l = 3
    BY <2>4 DEF UnderAt, Under4, Down, Part
  <2> QED BY <2>1, <2>2, <2>3, <2>4
<1>2. \A e : e \in Named(t, Down(l + 1)) <=> e # 0 /\ \E i \in Down(l + 1) : e = memory[t][i]
  BY DEF Named
<1>3. x \in UnderAt(l + 1, t) <=> \E e \in Named(t, Down(l + 1)) : x \in Part(l, e)
  BY <1>1
<1> QED BY <1>2, <1>3

(* The indices of a loop                                                   *)
LEMMA DownIs ==
    ASSUME NEW l \in 1 .. 4
    PROVE  /\ EntriesAt(l) \in Nat /\ Down(l) = 0 .. EntriesAt(l) - 1
           /\ Down(l) \subseteq Indices
           /\ \A p : p.level = l => Down(l) \subseteq Followed(p)
<1>1. EntriesAt(l) \in Nat /\ Down(l) = 0 .. EntriesAt(l) - 1
  BY AddressSpaceAssumption DEF EntriesAt, Down, UserIndices, TableIndices
<1>2. Down(l) \subseteq Indices
  BY IndicesAre DEF Down
<1>3. ASSUME NEW p, p.level = l PROVE Down(l) \subseteq Followed(p)
  BY <1>3, IndicesAre DEF Down, Followed
<1> QED BY <1>1, <1>2, <1>3

(* Frame f is at level l.                                                  *)
At(place, f, l) == f \in DOMAIN place /\ place[f].level = l

(* What is below the frames of level l is in the same space and of a lower *)
(* level, and below one of them only.                                      *)
Tidy(place, l) ==
    /\ \A f : At(place, f, l) =>
          \A x \in UnderAt(l, f) : /\ x \in DOMAIN place /\ place[x].space = place[f].space
                                   /\ place[x].level < l
    /\ \A e, f : At(place, e, l) /\ At(place, f, l) /\ e # f =>
          Part(l, e) \intersect Part(l, f) = {}

(* The loop below the frames of level l frees exactly what is there.       *)
Frees(place, l) ==
    \A u, f : AllocGood(u) /\ At(place, f, l) /\ UnderAt(l, f) \subseteq Busy(u)
                 => Releases(u, DeeperAt(l, u, f), UnderAt(l, f))

Placing(place) == place \in [DOMAIN place -> PlaceSet] /\ Tree(place, memory)

(* A level is a number.                                                    *)
LEMMA Levels ==
    ASSUME NEW place, Placing(place), NEW f \in DOMAIN place
    PROVE  place[f].level \in 0 .. 4 /\ place[f].space \in Nat
<1>1. place[f] \in PlaceSet
  BY DEF Placing
<1> QED BY <1>1 DEF PlaceSet

(* An entry that is present names a frame one level below.                 *)
LEMMA ChildAt ==
    ASSUME NEW place, Placing(place), NEW l \in 0 .. 3, NEW f, At(place, f, l + 1),
           NEW i \in Down(l + 1), NEW e, e = memory[f][i], e # 0
    PROVE  /\ At(place, e, l) /\ e \in DOMAIN place
           /\ place[e].up = f /\ place[e].index = i /\ place[e].space = place[f].space
<1>1. l + 1 \in 1 .. 4 /\ l + 1 # 0
  OBVIOUS
<1>2. i \in Followed(place[f]) /\ place[f].level # 0
  BY <1>1, DownIs DEF At
<1>3. IsChild(place, f, i, e)
  BY <1>2 DEF Placing, Tree, At
<1>4. (l + 1) - 1 = l
  OBVIOUS
<1> QED BY <1>3, <1>4 DEF IsChild, At

(* Nothing is below a page.                                                *)
LEMMA Tidy0 ==
    ASSUME NEW place
    PROVE  Tidy(place, 0) /\ Frees(place, 0)
<1>1. \A f : UnderAt(0, f) = {} /\ Part(0, f) = {f}
  BY DEF UnderAt, Part
<1>2. \A u, f : DeeperAt(0, u, f) = u
  BY DEF DeeperAt, FreePage
<1>3. Tidy(place, 0)
  BY <1>1 DEF Tidy
<1>4. Frees(place, 0)
  BY <1>1, <1>2, ReleasesNothing DEF Frees
<1> QED BY <1>3, <1>4

(* From one level to the next: a frame is named by one entry only.         *)
LEMMA TidyUp ==
    ASSUME NEW place, Placing(place), NEW l \in 0 .. 3, Tidy(place, l)
    PROVE  Tidy(place, l + 1)
<1>1. ASSUME NEW f, At(place, f, l + 1), NEW x \in UnderAt(l + 1, f)
      PROVE  \E e : /\ At(place, e, l) /\ place[e].up = f /\ place[e].space = place[f].space
                    /\ x \in Part(l, e)
  <2>1. PICK i \in Down(l + 1) : memory[f][i] # 0 /\ x \in Part(l, memory[f][i])
    BY UnderIs
  <2>2. PICK e : e = memory[f][i]
    OBVIOUS
  <2>3. At(place, e, l) /\ place[e].up = f /\ place[e].space = place[f].space
    BY <1>1, <2>1, <2>2, ChildAt
  <2> QED BY <2>1, <2>2, <2>3
<1>2. ASSUME NEW f, At(place, f, l + 1), NEW x \in UnderAt(l + 1, f)
      PROVE  x \in DOMAIN place /\ place[x].space = place[f].space /\ place[x].level < l + 1
  <2>1. PICK e : /\ At(place, e, l) /\ place[e].up = f /\ place[e].space = place[f].space
                 /\ x \in Part(l, e)
    BY <1>1, <1>2
  <2>2. CASE x = e
    BY <2>1, <2>2 DEF At
  <2>3. CASE x \in UnderAt(l, e)
    <3>1. x \in DOMAIN place /\ place[x].space = place[e].space /\ place[x].level < l
      BY <2>1, <2>3 DEF Tidy
    <3>2. place[x].level \in 0 .. 4
      BY <3>1, Levels
    <3> QED BY <2>1, <3>1, <3>2
  <2> QED BY <2>1, <2>2, <2>3 DEF Part
<1>3. ASSUME NEW e, NEW f, At(place, e, l + 1), At(place, f, l + 1), e # f,
             NEW x \in Part(l + 1, e), x \in Part(l + 1, f)
      PROVE  FALSE
  <2>1. x # e /\ x # f
    <3>1. ASSUME NEW c, NEW d, At(place, c, l + 1), At(place, d, l + 1),
                 c # d, x = c, x \in Part(l + 1, d)
          PROVE  FALSE
      <4>1. x \in UnderAt(l + 1, d)
        BY <3>1 DEF Part
      <4>2. place[x].level < l + 1
        BY <1>2, <3>1, <4>1
      <4> QED BY <3>1, <4>2 DEF At
    <3> QED BY <1>3, <3>1
  <2>2. x \in UnderAt(l + 1, e) /\ x \in UnderAt(l + 1, f)
    BY <1>3, <2>1 DEF Part
  <2>3. PICK c : At(place, c, l) /\ place[c].up = e /\ x \in Part(l, c)
    BY <1>1, <1>3, <2>2
  <2>4. PICK d : At(place, d, l) /\ place[d].up = f /\ x \in Part(l, d)
    BY <1>1, <1>3, <2>2
  <2>5. c # d
    BY <1>3, <2>3, <2>4
  <2> QED BY <2>3, <2>4, <2>5 DEF Tidy
<1>4. \A e, f : At(place, e, l + 1) /\ At(place, f, l + 1) /\ e # f =>
         Part(l + 1, e) \intersect Part(l + 1, f) = {}
  BY <1>3
<1> QED BY <1>2, <1>4 DEF Tidy

(* The frames below the first n entries of a table                         *)
Above(l, t, n) ==
    {x \in UnderAt(l + 1, t) :
        \E i \in 0 .. n - 1 : memory[t][i] # 0 /\ x \in Part(l, memory[t][i])}

(* Different entries of a table have different frames below them.          *)
LEMMA PartsApart ==
    ASSUME NEW place, Placing(place), NEW l \in 0 .. 3, Tidy(place, l),
           NEW t, At(place, t, l + 1), NEW i \in Down(l + 1), NEW j \in Down(l + 1), i # j,
           memory[t][i] # 0, memory[t][j] # 0
    PROVE  Part(l, memory[t][i]) \intersect Part(l, memory[t][j]) = {}
<1>1. PICK d, e : d = memory[t][i] /\ e = memory[t][j]
  OBVIOUS
<1>2. At(place, d, l) /\ place[d].index = i
  BY <1>1, ChildAt
<1>3. At(place, e, l) /\ place[e].index = j
  BY <1>1, ChildAt
<1>4. d # e
  BY <1>2, <1>3
<1> QED BY <1>1, <1>2, <1>3, <1>4 DEF Tidy

(* One more entry                                                          *)
LEMMA EntryReleases ==
    ASSUME NEW place, Placing(place), NEW l \in 0 .. 3, Tidy(place, l), Frees(place, l),
           NEW f, At(place, f, l), NEW u, AllocGood(u), Part(l, f) \subseteq Busy(u),
           f # 0, NEW v, v = FreeEntry(l, u, f)
    PROVE  Releases(u, v, Part(l, f))
<1>1. PICK d : d = DeeperAt(l, u, f)
  OBVIOUS
<1>2. v = FrameFree(d, f)
  BY <1>1 DEF FreeEntry
<1>3. UnderAt(l, f) \subseteq Busy(u) /\ f \in Busy(u)
  BY DEF Part
<1>4. Releases(u, d, UnderAt(l, f))
  BY <1>1, <1>3 DEF Frees
<1>5. f \notin UnderAt(l, f)
  <2>1. f \in UnderAt(l, f) => place[f].level < l
    BY DEF Tidy
  <2> QED BY <2>1 DEF At
<1>6. AllocGood(d) /\ f \in Busy(d)
  BY <1>3, <1>4, <1>5 DEF Releases
<1>7. Releases(d, v, {f})
  BY <1>2, <1>6, FreeReleases
<1>8. Releases(u, v, UnderAt(l, f) \union {f})
  BY <1>4, <1>5, <1>7, ReleasesBoth
<1>9. UnderAt(l, f) \union {f} = Part(l, f)
  BY DEF Part
<1> QED BY <1>8, <1>9

(* The whole loop, by the least number of entries after which something    *)
(* else would have been freed                                              *)
LEMMA FreesUp ==
    ASSUME NEW place, Placing(place), NEW l \in 0 .. 3, Tidy(place, l), Frees(place, l)
    PROVE  Frees(place, l + 1)
<1> SUFFICES ASSUME NEW u, NEW t, AllocGood(u), At(place, t, l + 1),
                    UnderAt(l + 1, t) \subseteq Busy(u)
             PROVE  Releases(u, DeeperAt(l + 1, u, t), UnderAt(l + 1, t))
  BY DEF Frees
<1>1. PICK len \in Nat : len = EntriesAt(l + 1) /\ Down(l + 1) = 0 .. len - 1
  BY DownIs, SMTT(30)
<1>2. PICK g : LoopIs(g, l, u, t, len) /\ DeeperAt(l + 1, u, t) = g[len]
  BY <1>1, LoopsAre
<1> DEFINE Wrong == {n \in 0 .. len : ~Releases(u, g[n], Above(l, t, n))}
<1>3. Wrong = {}
  <2> SUFFICES ASSUME Wrong # {} PROVE FALSE
    OBVIOUS
  <2>1. PICK n \in Wrong : \A m \in Wrong : n <= m
    <3>1. Wrong \subseteq Nat
      OBVIOUS
    <3> HIDE DEF Wrong
    <3> QED BY <3>1, LeastNumber
  <2>2. CASE n = 0
    <3>1. g[0] = u
      BY <1>2 DEF LoopIs
    <3>2. Above(l, t, 0) = {}
      BY DEF Above
    <3> QED BY <2>2, <3>1, <3>2, ReleasesNothing
  <2>3. CASE n # 0
    <3>1. n \in 1 .. len /\ n - 1 \in 0 .. len - 1 /\ n - 1 \in 0 .. len
      BY <2>3
    <3>2. n - 1 \notin Wrong
      <4>1. n \in Nat /\ ~(n <= n - 1)
        BY <3>1
      <4> HIDE DEF Wrong
      <4> QED BY <2>1, <4>1
    <3>3. PICK k \in 0 .. len - 1 : k = n - 1 /\ n = k + 1 /\ k \in Down(l + 1)
      BY <1>1, <3>1
    <3>4. Releases(u, g[k], Above(l, t, k))
      BY <3>1, <3>2, <3>3
    <3>5. PICK f : f = memory[t][k]
      OBVIOUS
    <3>6. g[n] = FreeEntry(l, g[k], f)
      BY <1>2, <3>1, <3>3, <3>5 DEF LoopIs
    <3>7. \A x : x \in Above(l, t, n) <=>
                   x \in Above(l, t, k) \/ (x \in UnderAt(l + 1, t) /\ f # 0 /\ x \in Part(l, f))
      <4>1. \A i : i \in 0 .. n - 1 <=> (i \in 0 .. k - 1 \/ i = k)
        BY <3>1, <3>3
      <4> QED BY <3>5, <4>1 DEF Above
    <3>8. CASE f = 0
      <4>1. Above(l, t, n) = Above(l, t, k)
        BY <3>7, <3>8
      <4>2. g[n] = g[k]
        BY <3>6, <3>8 DEF FreeEntry
      <4> QED BY <3>4, <4>1, <4>2
    <3>9. CASE f # 0
      <4>1. At(place, f, l)
        BY <3>3, <3>5, <3>9, ChildAt
      <4>2. Part(l, f) \subseteq UnderAt(l + 1, t)
        BY <3>3, <3>5, <3>9, UnderIs
      <4>3. Above(l, t, n) = Above(l, t, k) \union Part(l, f)
        BY <3>7, <3>9, <4>2
      <4>4. Above(l, t, k) \intersect Part(l, f) = {}
        <5>1. ASSUME NEW x \in Above(l, t, k), x \in Part(l, f) PROVE FALSE
          <6>1. PICK i \in 0 .. k - 1 : memory[t][i] # 0 /\ x \in Part(l, memory[t][i])
            BY DEF Above
          <6>2. i \in Down(l + 1) /\ i # k
            BY <1>1, <3>3, <6>1
          <6> QED BY <3>3, <3>5, <3>9, <5>1, <6>1, <6>2, PartsApart
        <5> QED BY <5>1
      <4>5. AllocGood(g[k]) /\ Part(l, f) \subseteq Busy(g[k])
        BY <3>4, <4>2, <4>4 DEF Releases
      <4>6. Releases(g[k], g[n], Part(l, f))
        BY <3>6, <3>9, <4>1, <4>5, EntryReleases
      <4>7. Releases(u, g[n], Above(l, t, k) \union Part(l, f))
        BY <3>4, <4>4, <4>6, ReleasesBoth
      <4> QED BY <4>3, <4>7
    <3> QED BY <3>8, <3>9
  <2> QED BY <2>2, <2>3
<1>4. Releases(u, g[len], Above(l, t, len))
  BY <1>3
<1>5. Above(l, t, len) = UnderAt(l + 1, t)
  BY <1>1, UnderIs DEF Above
<1> QED BY <1>2, <1>4, <1>5

(* All the loops together                                                  *)
LEMMA FreesAll ==
    ASSUME NEW place, Placing(place)
    PROVE  Tidy(place, 4) /\ Frees(place, 4)
<1>1. Tidy(place, 1) /\ Frees(place, 1)
  BY Tidy0, TidyUp, FreesUp, 0 + 1 = 1
<1>2. Tidy(place, 2) /\ Frees(place, 2)
  BY <1>1, TidyUp, FreesUp, 1 + 1 = 2
<1>3. Tidy(place, 3) /\ Frees(place, 3)
  BY <1>2, TidyUp, FreesUp, 2 + 1 = 3
<1> QED BY <1>3, TidyUp, FreesUp, 3 + 1 = 4

(* What paging_destroy_address_space frees is everything below the user    *)
(* half.                                                                   *)
LEMMA UnderBelow ==
    ASSUME NEW t
    PROVE  Under4(t) = Below(t, UserIndices)
  BY DEF Under1, Under2, Under3, Under4, Below

(* The frames of an address space are in its space, and destroying it      *)
(* frees them.                                                             *)
LEMMA DestroyReleases ==
    ASSUME NEW place, Owned(place, allocator, memory, kernel, processes),
           NEW s, NEW r, IsRoot(place, r, s)
    PROVE  /\ \A x \in {r} \union Below(r, UserIndices) :
                 x \in DOMAIN place /\ place[x].space = s
           /\ Releases(allocator, FreeSpace(allocator, r), {r} \union Below(r, UserIndices))
<1>1. Placing(place) /\ DOMAIN place \subseteq Busy(allocator) /\ AllocGood(allocator)
  BY DEF Placing, Owned
<1>2. Tidy(place, 4) /\ Frees(place, 4)
  BY <1>1, FreesAll
<1>3. PICK U : U = Below(r, UserIndices) /\ U = UnderAt(4, r)
  BY UnderBelow DEF UnderAt
<1>4. r \in DOMAIN place /\ place[r].space = s /\ place[r].level = 4 /\ At(place, r, 4)
  BY DEF IsRoot, At
<1>5. \A x \in U : x \in DOMAIN place /\ place[x].space = s /\ place[x].level < 4
  BY <1>2, <1>3, <1>4 DEF Tidy
<1>6. U \subseteq Busy(allocator) /\ r \in Busy(allocator) /\ r \notin U
  BY <1>1, <1>4, <1>5
<1>7. PICK d : d = DeeperAt(4, allocator, r)
  OBVIOUS
<1>8. Releases(allocator, d, U)
  BY <1>1, <1>2, <1>3, <1>4, <1>6, <1>7 DEF Frees
<1>9. FreeSpace(allocator, r) = FrameFree(d, r)
  BY <1>7 DEF FreeSpace, DeeperAt, FreeSpaceBelow
<1>10. AllocGood(d) /\ r \in Busy(d)
  BY <1>6, <1>8 DEF Releases
<1>11. Releases(d, FreeSpace(allocator, r), {r})
  BY <1>9, <1>10, FreeReleases
<1>12. Releases(allocator, FreeSpace(allocator, r), U \union {r})
  BY <1>1, <1>6, <1>8, <1>11, ReleasesBoth
<1>13. U \union {r} = {r} \union Below(r, UserIndices)
  BY <1>3
<1> QED BY <1>3, <1>4, <1>5, <1>12, <1>13

(* The slot of the process that is killed                                  *)
Dies(s) ==
    /\ s \in Slots
    /\ processes' = [processes EXCEPT ![s].state = "EXITED", ![s].pml4 = 0]
    /\ kernel' = kernel /\ next_pid' = next_pid
    /\ IF processes[s].pml4 = 0
       THEN allocator' = allocator /\ memory' = memory
       ELSE /\ allocator' = FreeSpace(allocator, processes[s].pml4)
            /\ memory' = ClearedBy(processes[s].pml4)

(* process_kill is about one slot.                                         *)
LEMMA KillDies ==
    ASSUME NEW pid, Kill(pid)
    PROVE  \E s : Dies(s)
<1> DEFINE named == {s \in Slots : processes[s].pid = pid /\ processes[s].state # "UNUSED"}
<1>1. PICK s : s = CHOOSE q \in named : \A r \in named : q <= r
  OBVIOUS
<1>2. named # {} /\ named \subseteq Slots /\ named \subseteq Nat
  BY DEF Kill, Slots
<1>3. s \in Slots
  <2> HIDE DEF named
  <2>1. \E x \in named : \A r \in named : x <= r
    BY <1>2, LeastNumber
  <2> QED BY <1>1, <1>2, <2>1
<1>4. Dies(s)
  BY <1>1, <1>3 DEF Kill, Dies
<1> QED BY <1>4

(* The process table after it                                              *)
LEMMA DiesProcesses ==
    ASSUME NEW s, Dies(s), processes \in [Slots -> ProcessSet], NEW ps, ps = processes'
    PROVE  /\ s \in Slots /\ ps \in [Slots -> ProcessSet] /\ ps[s].pml4 = 0
           /\ \A r \in Slots : r # s => ps[r] = processes[r]
<1>1. PICK P : P = ProcessSet
  OBVIOUS
<1>2. s \in Slots /\ processes[s] \in ProcessSet
  BY DEF Dies
<1>3. PICK q : q = [processes[s] EXCEPT !.state = "EXITED"]
  OBVIOUS
<1>4. PICK t : t = [q EXCEPT !.pml4 = 0]
  OBVIOUS
<1>5. q \in ProcessSet
  BY <1>2, <1>3 DEF ProcessSet
<1>6. t \in ProcessSet /\ t.pml4 = 0
  BY <1>4, <1>5 DEF ProcessSet
<1>7. ps = [processes EXCEPT ![s] = t]
  BY <1>2, <1>3, <1>4 DEF Dies
<1>8. processes \in [Slots -> P] /\ t \in P
  BY <1>1, <1>6
<1>9. ps \in [Slots -> P] /\ ps[s] = t /\ \A r \in Slots : r # s => ps[r] = processes[r]
  BY <1>2, <1>7, <1>8
<1> QED BY <1>1, <1>2, <1>6, <1>9

(* The tables after it: those of the dead process are empty.               *)
LEMMA ClearedIs ==
    ASSUME memory \in MemorySet, NEW r, NEW m, m = ClearedBy(r)
    PROVE  /\ m \in MemorySet
           /\ \A h \in PhysicalFrames :
                 h # r /\ h \notin Below(r, UserIndices) => m[h] = memory[h]
<1>1. DOMAIN memory = PhysicalFrames /\ \A h \in PhysicalFrames : memory[h] \in TableSet
  BY DEF MemorySet
<1>2. PICK B : B = Below(r, UserIndices)
  OBVIOUS
<1>3. PICK c : c = [i \in Indices |-> IF i \in UserIndices THEN 0 ELSE memory[r][i]]
  OBVIOUS
<1>4. m = [f \in PhysicalFrames |->
             IF f = r THEN c ELSE IF f \in B THEN EmptyTable ELSE memory[f]]
  BY <1>1, <1>2, <1>3 DEF ClearedBy
<1>5. r \in PhysicalFrames => c \in TableSet
  <2>1. ASSUME r \in PhysicalFrames, NEW i \in Indices PROVE memory[r][i] \in UsableFrames \union {0}
    <3>1. memory[r] \in TableSet
      BY <1>1, <2>1
    <3> QED BY <3>1 DEF TableSet
  <2> QED BY <1>3, <2>1 DEF TableSet
<1>6. \A h \in PhysicalFrames : m[h] \in TableSet
  BY <1>1, <1>4, <1>5, EmptyIs
<1>7. m \in MemorySet
  BY <1>4, <1>6 DEF MemorySet
<1> QED BY <1>2, <1>4, <1>7

(* The placing without the space of a dead process still fits.             *)
LEMMA DiesKeeps ==
    ASSUME SpacesInv, NEW s, Dies(s)
    PROVE  SpacesInv'
<1>1. PICK place : Owned(place, allocator, memory, kernel, processes)
  BY DEF SpacesInv
<1>2. /\ AllocGood(allocator) /\ memory \in MemorySet /\ processes \in [Slots -> ProcessSet]
      /\ place \in [DOMAIN place -> PlaceSet] /\ DOMAIN place \subseteq Busy(allocator)
      /\ Tree(place, memory) /\ SharedIn(memory, kernel, processes)
      /\ BootedIn(memory, kernel, processes)
  BY <1>1 DEF Owned
<1>3. /\ IsRoot(place, kernel, 0)
      /\ \A q \in Slots : processes[q].pml4 # 0 => IsRoot(place, processes[q].pml4, q)
  BY <1>1 DEF Owned, Roots
<1>4. PICK ps : ps = processes'
  OBVIOUS
<1>5. /\ s \in Slots /\ ps \in [Slots -> ProcessSet] /\ ps[s].pml4 = 0
      /\ \A q \in Slots : q # s => ps[q] = processes[q]
  BY <1>2, <1>4, DiesProcesses
<1>6. \A q \in Slots : ps[q].pml4 # 0 => q # s /\ ps[q].pml4 = processes[q].pml4
  BY <1>5
<1>7. kernel' = kernel /\ next_pid' = next_pid /\ next_pid \in Nat
  BY DEF Dies, SpacesInv
<1>8. CASE processes[s].pml4 = 0
  <2>1. allocator' = allocator /\ memory' = memory
    BY <1>8 DEF Dies
  <2>2. Roots(place, kernel, ps)
    BY <1>3, <1>6 DEF Roots
  <2>3. SharedIn(memory, kernel, ps) /\ BootedIn(memory, kernel, ps)
    BY <1>2, <1>6 DEF SharedIn, BootedIn
  <2>4. Owned(place, allocator, memory, kernel, ps)
    BY <1>2, <1>5, <2>2, <2>3 DEF Owned
  <2> QED BY <1>4, <1>7, <2>1, <2>4 DEF SpacesInv
<1>9. CASE processes[s].pml4 # 0
  <2>1. PICK r : r = processes[s].pml4
    OBVIOUS
  <2>2. PICK S : S = {r} \union Below(r, UserIndices)
    OBVIOUS
  <2>3. PICK b : b = FreeSpace(allocator, r)
    OBVIOUS
  <2>4. PICK m : m = ClearedBy(r)
    OBVIOUS
  <2>5. allocator' = b /\ memory' = m
    BY <1>9, <2>1, <2>3, <2>4 DEF Dies
  <2>6. IsRoot(place, r, s)
    BY <1>3, <1>5, <1>9, <2>1
  <2>7. /\ \A x \in S : x \in DOMAIN place /\ place[x].space = s
        /\ Releases(allocator, b, S)
    BY <1>1, <2>2, <2>3, <2>6, DestroyReleases
  <2>8. m \in MemorySet /\ \A h \in PhysicalFrames : h \notin S => m[h] = memory[h]
    BY <1>2, <2>2, <2>4, ClearedIs
  <2>9. PICK p : p = [h \in {h \in DOMAIN place : place[h].space # s} |-> place[h]]
    OBVIOUS
  <2>10. /\ DOMAIN p = {h \in DOMAIN place : place[h].space # s}
         /\ p \in [DOMAIN p -> PlaceSet] /\ \A h \in DOMAIN p : p[h] = place[h]
    BY <1>2, <2>9
  <2>11. ASSUME NEW h \in DOMAIN p
         PROVE  h \in DOMAIN place /\ place[h].space # s /\ m[h] = memory[h] /\ h \in Busy(b)
    <3>1. h \in DOMAIN place /\ place[h].space # s
      BY <2>10
    <3>2. h \notin S /\ h \in Busy(allocator)
      BY <1>2, <2>7, <3>1
    <3>3. h \in PhysicalFrames
      BY <3>2, BusyFrames
    <3>4. h \in Busy(b)
      BY <2>7, <3>2 DEF Releases
    <3> QED BY <2>8, <3>1, <3>2, <3>3, <3>4
  <2>12. ASSUME NEW h, NEW q, q # s, IsRoot(place, h, q)
         PROVE  IsRoot(p, h, q) /\ m[h] = memory[h]
    <3>1. h \in DOMAIN p
      BY <2>10, <2>12 DEF IsRoot
    <3> QED BY <2>10, <2>11, <2>12, <3>1 DEF IsRoot
  <2>13. s # 0
    BY <1>5 DEF Slots
  <2>14. Roots(p, kernel, ps)
    BY <1>3, <1>6, <2>12, <2>13 DEF Roots
  <2>15. Tree(p, m)
    <3>1. ASSUME NEW h \in DOMAIN p, p[h].level # 0, NEW j \in Followed(p[h]), m[h][j] # 0
          PROVE  IsChild(p, h, j, m[h][j])
      <4>1. h \in DOMAIN place /\ place[h].space # s /\ m[h] = memory[h] /\ p[h] = place[h]
        BY <2>10, <2>11
      <4>2. IsChild(place, h, j, memory[h][j])
        BY <1>2, <3>1, <4>1 DEF Tree
      <4> QED BY <2>10, <4>1, <4>2 DEF IsChild
    <3> QED BY <3>1 DEF Tree
  <2>16. m[kernel] = memory[kernel]
    BY <1>3, <2>12, <2>13
  <2>17. SharedIn(m, kernel, ps)
    <3>1. ASSUME NEW q \in Slots, ps[q].pml4 # 0, NEW i \in KernelIndices
          PROVE  m[ps[q].pml4][i] = m[kernel][i]
      <4>1. q # s /\ ps[q].pml4 = processes[q].pml4 /\ processes[q].pml4 # 0
        BY <1>6, <3>1
      <4>2. m[processes[q].pml4] = memory[processes[q].pml4]
        BY <1>3, <2>12, <4>1
      <4> QED BY <1>2, <2>16, <4>1, <4>2 DEF SharedIn
    <3> QED BY <3>1 DEF SharedIn
  <2>18. BootedIn(m, kernel, ps)
    BY <1>2, <1>6, <2>16 DEF BootedIn
  <2>19. DOMAIN p \subseteq Busy(b) /\ AllocGood(b)
    BY <2>7, <2>11 DEF Releases
  <2>20. Owned(p, b, m, kernel, ps)
    BY <1>5, <2>8, <2>10, <2>14, <2>15, <2>17, <2>18, <2>19 DEF Owned
  <2>21. Owned(p, allocator', memory', kernel', processes')
    BY <1>4, <1>7, <2>5, <2>20
  <2> QED BY <1>7, <2>21 DEF SpacesInv
<1> QED BY <1>8, <1>9

-----------------------------------------------------------------------------
(* The theorems                                                            *)

(* The placing exists in every state.                                      *)
LEMMA SpacesInvariant == SpacesSpec => []SpacesInv
<1>1. SpacesInit => SpacesInv
  BY SpacesInitInv
<1>2. ASSUME SpacesInv, [SpacesNext]_spaceVars PROVE SpacesInv'
  <2>1. CASE Create
    BY <1>2, <2>1, CreateKeeps
  <2>2. ASSUME NEW s \in Slots, Kill(processes[s].pid) PROVE SpacesInv'
    BY <1>2, <2>2, KillDies, DiesKeeps
  <2>3. ASSUME NEW s \in Slots, NEW va \in UserPages, MapUserPage(s, va) PROVE SpacesInv'
    BY <1>2, <2>3, MapUserKeeps
  <2>4. ASSUME NEW va \in KernelPages, MapKernelPage(va) PROVE SpacesInv'
    BY <1>2, <2>4, MapKernelKeeps
  <2>5. CASE UNCHANGED spaceVars
    <3>1. /\ allocator' = allocator /\ memory' = memory /\ kernel' = kernel
          /\ processes' = processes /\ next_pid' = next_pid
      BY <2>5 DEF spaceVars
    <3> QED BY <1>2, <3>1 DEF SpacesInv
  <2> QED BY <1>2, <2>1, <2>2, <2>3, <2>4, <2>5 DEF SpacesNext
<1> QED BY <1>1, <1>2, PTL DEF SpacesSpec

(* A frame named by a frame of a space is of that space.                   *)
LEMMA NamedPlaced ==
    ASSUME NEW place, Placing(place), NEW f \in DOMAIN place, place[f].level # 0,
           NEW I, I \subseteq Followed(place[f]), NEW x \in Named(f, I)
    PROVE  /\ x \in DOMAIN place /\ place[x].space = place[f].space
           /\ place[x].level = place[f].level - 1
<1>1. PICK i \in I : x = memory[f][i] /\ x # 0
  BY DEF Named
<1>2. IsChild(place, f, i, x)
  BY <1>1 DEF Placing, Tree
<1> QED BY <1>1, <1>2 DEF IsChild

(* So everything below a PML4 is.                                          *)
LEMMA BelowPlaced ==
    ASSUME NEW place, Placing(place), NEW r, NEW s, IsRoot(place, r, s),
           NEW I, I \subseteq Followed(place[r]), NEW x \in {r} \union Below(r, I)
    PROVE  x \in DOMAIN place /\ place[x].space = s
<1> DEFINE Of(l) == {y \in DOMAIN place : place[y].space = s /\ place[y].level = l}
<1>1. r \in Of(4) /\ Of(4) \subseteq DOMAIN place
  BY DEF IsRoot
<1>2. Named(r, I) \subseteq Of(3)
  <2>1. ASSUME NEW y \in Named(r, I) PROVE y \in Of(3)
    <3>1. place[r].level = 4 /\ place[r].space = s /\ r \in DOMAIN place /\ 4 # 0 /\ 4 - 1 = 3
      BY DEF IsRoot
    <3>2. /\ y \in DOMAIN place /\ place[y].space = place[r].space
          /\ place[y].level = place[r].level - 1
      BY <3>1, NamedPlaced
    <3> QED BY <3>1, <3>2
  <2> QED BY <2>1
<1>3. ASSUME NEW l \in 1 .. 3, NEW f \in Of(l) PROVE Named(f, TableIndices) \subseteq Of(l - 1)
  <2>1. f \in DOMAIN place /\ place[f].level = l /\ place[f].space = s /\ l # 0
    OBVIOUS
  <2>2. Followed(place[f]) = TableIndices
    BY <2>1 DEF Followed
  <2>3. ASSUME NEW y \in Named(f, TableIndices) PROVE y \in Of(l - 1)
    BY <2>1, <2>2, NamedPlaced
  <2> QED BY <2>3
<1>4. \A f \in Of(3) : Named(f, TableIndices) \subseteq Of(2)
  BY <1>3, 3 - 1 = 2
<1>5. \A f \in Of(2) : Named(f, TableIndices) \subseteq Of(1)
  BY <1>3, 2 - 1 = 1
<1>6. \A f \in Of(1) : Named(f, TableIndices) \subseteq Of(0)
  BY <1>3, 1 - 1 = 0
<1>7. \A l, y : y \in Of(l) => y \in DOMAIN place /\ place[y].space = s
  OBVIOUS
<1> HIDE DEF Of
<1>8. x \in Of(4) \/ x \in Of(3) \/ x \in Of(2) \/ x \in Of(1) \/ x \in Of(0)
  BY <1>1, <1>2, <1>4, <1>5, <1>6 DEF Below
<1> QED BY <1>7, <1>8

(* The frames of a process are placed in its space, the kernel's in space  *)
(* 0, and all of them are busy.                                            *)
LEMMA FramesPlaced ==
    ASSUME NEW place, Owned(place, allocator, memory, kernel, processes)
    PROVE  /\ \A s \in Live : \A x \in UserFrames(s) :
                 x \in DOMAIN place /\ place[x].space = s
           /\ \A x \in KernelFrames : x \in DOMAIN place /\ place[x].space = 0
           /\ DOMAIN place \subseteq Busy(allocator)
<1>1. Placing(place) /\ Roots(place, kernel, processes) /\ DOMAIN place \subseteq Busy(allocator)
  BY DEF Owned, Placing
<1>2. ASSUME NEW s \in Live, NEW x \in UserFrames(s)
      PROVE  x \in DOMAIN place /\ place[x].space = s
  <2>1. PICK r : r = processes[s].pml4
    OBVIOUS
  <2>2. IsRoot(place, r, s)
    BY <1>1, <2>1 DEF Live, Roots
  <2>3. UserIndices \subseteq Followed(place[r])
    BY <2>2, IndicesAre DEF Followed, IsRoot
  <2>4. x \in {r} \union Below(r, UserIndices)
    BY <2>1 DEF UserFrames
  <2> QED BY <1>1, <2>2, <2>3, <2>4, BelowPlaced
<1>3. ASSUME NEW x \in KernelFrames PROVE x \in DOMAIN place /\ place[x].space = 0
  <2>1. IsRoot(place, kernel, 0)
    BY <1>1 DEF Roots
  <2>2. RootIndices \subseteq Followed(place[kernel])
    BY <2>1 DEF Followed, IsRoot
  <2>3. x \in {kernel} \union Below(kernel, RootIndices)
    BY DEF KernelFrames
  <2> QED BY <1>1, <2>1, <2>2, <2>3, BelowPlaced
<1> QED BY <1>1, <1>2, <1>3

(* The range of a free list                                                *)
LEMMA RangeListed ==
    ASSUME NEW S, NEW list \in Seq(S)
    PROVE  Range(list) = Listed(list)
  BY DEF Range, Listed

(* The invariant says what the properties say.                             *)
LEMMA SpacesFollow ==
    ASSUME SpacesInv
    PROVE  SpacesSeparate /\ AccountingExact
<1>1. PICK place : Owned(place, allocator, memory, kernel, processes)
  BY DEF SpacesInv
<1>2. /\ AllocGood(allocator) /\ memory \in MemorySet /\ processes \in [Slots -> ProcessSet]
      /\ SharedIn(memory, kernel, processes) /\ IsRoot(place, kernel, 0)
  BY <1>1 DEF Owned, Roots
<1>3. /\ \A s \in Live : \A x \in UserFrames(s) : x \in DOMAIN place /\ place[x].space = s
      /\ \A x \in KernelFrames : x \in DOMAIN place /\ place[x].space = 0
      /\ DOMAIN place \subseteq Busy(allocator)
  BY <1>1, FramesPlaced
<1>4. PICK list \in Seq(UsableFrames) : list = allocator.free_list
  BY <1>2 DEF AllocGood, AllocatorSet
<1>5. Range(list) = Listed(list)
  BY <1>4, RangeListed
<1>6. SpacesTypeOK
  <2>1. /\ allocator.descriptor_index \in 0 .. Len(MemoryMap)
        /\ allocator.remaining_pages \in Nat /\ allocator.allocated_pages \in Nat
        /\ allocator.free_list \in Seq(UsableFrames)
    BY <1>2 DEF AllocGood, AllocatorSet
  <2>2. kernel \in UsableFrames
    BY <1>1, <1>2, OwnedParts DEF IsRoot
  <2> QED BY <1>2, <2>1, <2>2 DEF SpacesTypeOK, MemorySet, TableSet, ProcessSet
<1>7. FreeFramesUnused
  <2>1. Cardinality(Listed(list)) = Len(list)
    BY <1>2, <1>4, ListCounts DEF AllocGood, GoodList
  <2>2. Listed(list) \intersect Busy(allocator) = {}
    BY <1>4 DEF Busy
  <2>3. Listed(list) \intersect KernelFrames = {}
    BY <1>3, <2>2
  <2>4. \A s \in Live : Listed(list) \intersect UserFrames(s) = {}
    BY <1>3, <2>2
  <2> QED BY <1>4, <1>5, <2>1, <2>3, <2>4 DEF FreeFramesUnused
<1>8. Isolated
  <2>1. \A s \in Live : s # 0
    BY DEF Live, Slots
  <2> QED BY <1>3, <2>1 DEF Isolated
<1>9. KernelHalfShared
  BY <1>2 DEF KernelHalfShared, SharedIn, Live
<1>10. AccountingExact
  BY <1>2 DEF AccountingExact, AllocGood, Counted
<1> QED BY <1>6, <1>7, <1>8, <1>9, <1>10 DEF SpacesSeparate

(* For every memory map and size of the tables: no frame has two owners,   *)
(* whichever way processes are created, grown and killed and wherever      *)
(* map_page fails, and the kernel half of every process is the kernel's.   *)
THEOREM SpacesCorrect == SpacesSpec => []SpacesSeparate
<1>1. SpacesInv => SpacesSeparate
  BY SpacesFollow
<1> QED BY <1>1, SpacesInvariant, PTL

(* frame_allocator_allocated_pages is the number of frames handed out and  *)
(* not given back, also after failures and when the free list overflows.   *)
THEOREM AccountingCorrect == SpacesSpec => []AccountingExact
<1>1. SpacesInv => AccountingExact
  BY SpacesFollow
<1> QED BY <1>1, SpacesInvariant, PTL

(* What one step does to the frames of a process that dies                 *)
DeathReleases ==
    \A s \in Live : s \notin Live' =>
        \/ UserFrames(s) \subseteq Range(allocator'.free_list)
        \/ Len(allocator'.free_list) = FreeListCapacity

(* Only process_kill ends an address space, and it frees all of it.        *)
LEMMA DiesReleases ==
    ASSUME SpacesInv, NEW s, Dies(s)
    PROVE  DeathReleases
<1>1. PICK place : Owned(place, allocator, memory, kernel, processes)
  BY DEF SpacesInv
<1>2. processes \in [Slots -> ProcessSet] /\ Roots(place, kernel, processes)
  BY <1>1 DEF Owned
<1>3. PICK ps : ps = processes'
  OBVIOUS
<1>4. s \in Slots /\ \A q \in Slots : q # s => ps[q] = processes[q]
  BY <1>2, <1>3, DiesProcesses
<1>5. ASSUME NEW q \in Live, q \notin Live' PROVE q = s /\ processes[s].pml4 # 0
  BY <1>3, <1>4, <1>5 DEF Live
<1>6. ASSUME processes[s].pml4 # 0
      PROVE  \/ UserFrames(s) \subseteq Range(allocator'.free_list)
             \/ Len(allocator'.free_list) = FreeListCapacity
  <2>1. PICK r : r = processes[s].pml4
    OBVIOUS
  <2>2. PICK S : S = {r} \union Below(r, UserIndices) /\ S = UserFrames(s)
    BY <2>1 DEF UserFrames
  <2>3. PICK b : b = FreeSpace(allocator, r) /\ b = allocator'
    BY <1>6, <2>1 DEF Dies
  <2>4. IsRoot(place, r, s)
    BY <1>2, <1>4, <1>6, <2>1 DEF Roots
  <2>5. /\ \A x \in S : x \in DOMAIN place
        /\ Releases(allocator, b, S)
    BY <1>1, <2>2, <2>3, <2>4, DestroyReleases
  <2>6. S \subseteq Issued(b)
    <3>1. S \subseteq Busy(allocator)
      BY <1>1, <2>5, OwnedParts
    <3> QED BY <2>5, <3>1 DEF Releases, Busy
  <2>7. PICK list \in Seq(UsableFrames) : list = b.free_list
    BY <2>5 DEF Releases, AllocGood, AllocatorSet
  <2>8. S \intersect Busy(b) = {} => S \subseteq Listed(list)
    BY <2>6, <2>7 DEF Busy
  <2>9. Range(list) = Listed(list)
    BY <2>7, RangeListed
  <2>10. S \intersect Busy(b) = {} \/ Len(b.free_list) = FreeListCapacity
    BY <2>5 DEF Releases
  <2> QED BY <2>2, <2>3, <2>7, <2>8, <2>9, <2>10
<1> QED BY <1>5, <1>6 DEF DeathReleases

(* process_create ends no address space.                                   *)
LEMMA CreateKeepsLive ==
    ASSUME SpacesInv, Create, NEW q \in Live
    PROVE  q \in Live'
<1>1. processes \in [Slots -> ProcessSet]
  BY DEF SpacesInv, Owned
<1>2. PICK x : x = FrameAllocate(allocator).frame
  OBVIOUS
<1>3. CASE x = 0
  <2>1. processes' = processes
    BY <1>2, <1>3 DEF Create
  <2> QED BY <2>1 DEF Live
<1>4. CASE x # 0
  <2>1. PICK s, proc : /\ proc = [pid |-> next_pid, state |-> "READY", pml4 |-> x]
                       /\ processes' = [processes EXCEPT ![s] = proc]
    BY <1>2, <1>4 DEF Create
  <2>2. proc.pml4 # 0
    BY <1>4, <2>1
  <2>3. PICK ps : ps = processes'
    OBVIOUS
  <2>4. q \in Slots /\ processes[q].pml4 # 0
    BY DEF Live
  <2>5. ps[q] = processes[q] \/ ps[q] = proc
    BY <1>1, <2>1, <2>3, <2>4
  <2>6. ps[q].pml4 # 0
    BY <2>2, <2>4, <2>5
  <2> QED BY <2>3, <2>4, <2>6 DEF Live
<1> QED BY <1>3, <1>4

(* When a process exits, each of its frames goes to the free list, unless  *)
(* the list has no room left.                                              *)
THEOREM KillCorrect == SpacesSpec => KillReleases
<1>1. ASSUME SpacesInv, [SpacesNext]_spaceVars PROVE [DeathReleases]_spaceVars
  <2>1. CASE Create
    BY <1>1, <2>1, CreateKeepsLive DEF DeathReleases
  <2>2. ASSUME NEW s \in Slots, Kill(processes[s].pid) PROVE DeathReleases
    BY <1>1, <2>2, KillDies, DiesReleases
  <2>3. ASSUME processes' = processes PROVE DeathReleases
    BY <2>3 DEF DeathReleases, Live
  <2>4. ASSUME NEW s \in Slots, NEW va \in UserPages, MapUserPage(s, va) PROVE DeathReleases
    BY <2>3, <2>4 DEF MapUserPage, MapNewFrame
  <2>5. ASSUME NEW va \in KernelPages, MapKernelPage(va) PROVE DeathReleases
    BY <2>3, <2>5 DEF MapKernelPage, MapNewFrame
  <2> QED BY <1>1, <2>1, <2>2, <2>4, <2>5 DEF SpacesNext
<1>2. KillReleases <=> [][DeathReleases]_spaceVars
  BY PTL DEF KillReleases, DeathReleases
<1> QED BY <1>1, <1>2, SpacesInvariant, PTL DEF SpacesSpec
=============================================================================

----------------------------- MODULE DiskProofs -----------------------------
(***************************************************************************)
(* What is proved of the block device layer and of the partition tables.   *)
(*                                                                         *)
(* Of the block cache: for any disk, partition, size of the cache and      *)
(* requests, a cache hit returns what is on the medium, but for the blocks *)
(* of a failed write and of writes beside the partition.  The argument:    *)
(* every call is a chain of changes of one slot each.  While a read-ahead  *)
(* is in progress its slot, x below, holds no data yet; while a write      *)
(* brings the cache up to date, the blocks it has not come to are excused, *)
(* for each device on its own.                                             *)
(*                                                                         *)
(* Of partition_gpt_commit: for tables of any size and any edits, a loss   *)
(* of power at any moment leaves a disk on which the scan finds the table  *)
(* before the edit or the one after it.  The argument: at every moment of  *)
(* an edit, and of its undo on a disk without a write cache, one of the    *)
(* two copies stands: it is whole on the medium and nothing is on its way  *)
(* to it.  The other one may hold any mixture of old and new sectors, but  *)
(* its header belongs to one of the two tables, so that its checksum fits  *)
(* only one of those.                                                      *)
(*                                                                         *)
(* Of old tables: whatever a disk comes with, the scan finds partitions on *)
(* the disk and apart; and the check that scan_mbr makes agrees with the   *)
(* one of partition_mbr_commit: what an edit leaves, the scan finds.       *)
(***************************************************************************)
EXTENDS MCDisk, FiniteSetTheorems, SequenceTheorems, WellFoundedInduction, TLAPS


-----------------------------------------------------------------------------
(* The slots of the cache, seen one by one                                 *)

Slots == 0 .. CacheSize - 1

EntrySet == [valid : {TRUE}, device : Devices, lba : Blocks,
             data : Contents \union {"stale"}]

CacheSet == [entries : [Slots -> {NoCacheEntry} \union EntrySet], next : Slots]

Used(c, k) == c.entries[k].valid
Of(c, k) == c.entries[k].device
At(c, k) == c.entries[k].lba
Held(c, k) == c.entries[k].data

(* Slot k is used for block lba of device dev and holds v.                 *)
Holds(c, k, dev, lba, v) ==
    Used(c, k) /\ Of(c, k) = dev /\ At(c, k) = lba /\ Held(c, k) = v

OthersKept(c, d, k) == \A j \in Slots : j # k => d.entries[j] = c.entries[j]

(* What a slot holds is on the medium m, or its block is excused.          *)
IsCurrent(c, k, m, ex) ==
    /\ Held(c, k) \in Contents
    /\ \/ Held(c, k) = m[Physical(Of(c, k), At(c, k))]
       \/ Physical(Of(c, k), At(c, k)) \in ex[Of(c, k)]

(* The invariant of a cache, but for the data of slot x                    *)
GoodCache(c, m, ex, x) ==
    /\ c \in CacheSet
    /\ \A k \in Slots : Used(c, k) => At(c, k) < DeviceBlocks(Of(c, k))
    /\ \A k, j \in Slots : /\ Used(c, k) /\ Used(c, j)
                           /\ Of(c, k) = Of(c, j) /\ At(c, k) = At(c, j)
                           => k = j
    /\ \A k \in Slots : k # x /\ Used(c, k) => IsCurrent(c, k, m, ex)

(* The sizes, and a used slot                                              *)
LEMMA Sizes ==
    /\ BlockCount \in Nat \ {0} /\ PartitionStart \in Nat /\ PartitionCount \in Nat \ {0}
    /\ PartitionStart + PartitionCount <= BlockCount
    /\ CacheSize \in Nat /\ CacheSize >= 3 /\ CacheSize \notin Slots
    /\ LbaWord \in Nat /\ BlockCount < LbaWord
  BY BlockCacheAssumption DEF Slots

(* A slot is unused, or holds data of a block of a device.                 *)
LEMMA SlotTypes ==
    ASSUME NEW c \in CacheSet, NEW k \in Slots
    PROVE  /\ Used(c, k) \in BOOLEAN
           /\ ~Used(c, k) => c.entries[k] = NoCacheEntry
           /\ Used(c, k) => /\ c.entries[k] \in EntrySet
                            /\ Of(c, k) \in Devices /\ At(c, k) \in Blocks
                            /\ Held(c, k) \in Contents \union {"stale"}
<1>1. c.entries[k] \in {NoCacheEntry} \union EntrySet
  BY DEF CacheSet
<1>2. CASE c.entries[k] = NoCacheEntry
  BY <1>2 DEF NoCacheEntry, Used
<1>3. CASE c.entries[k] \in EntrySet
  BY <1>3 DEF EntrySet, Used, Of, At, Held
<1> QED BY <1>1, <1>2, <1>3

(* cache_allocate gives the next slot to a block.                          *)
LEMMA AllocateIs ==
    ASSUME NEW c \in CacheSet, NEW dev \in Devices, NEW lba \in Blocks,
           NEW v \in Contents \union {"stale"},
           NEW d, d = CacheAllocate(c, dev, lba, v)
    PROVE  /\ d \in CacheSet /\ c.next \in Slots /\ OthersKept(c, d, c.next)
           /\ Holds(d, c.next, dev, lba, v)
           /\ d.next = (c.next + 1) % CacheSize
<1>1. PICK e : e = CacheEntry(dev, lba, v)
  OBVIOUS
<1>2. e \in EntrySet /\ e.valid /\ e.device = dev /\ e.lba = lba /\ e.data = v
  BY <1>1 DEF CacheEntry, EntrySet
<1>3. PICK es, n : es = c.entries /\ n = c.next
  OBVIOUS
<1>4. es \in [Slots -> {NoCacheEntry} \union EntrySet] /\ n \in Slots
  BY <1>3 DEF CacheSet
<1>5. PICK fs : fs = [es EXCEPT ![n] = e]
  OBVIOUS
<1>6. /\ fs \in [Slots -> {NoCacheEntry} \union EntrySet] /\ fs[n] = e
      /\ \A j \in Slots : j # n => fs[j] = es[j]
  BY <1>2, <1>4, <1>5
<1>7. (n + 1) % CacheSize \in Slots
  BY <1>4, Sizes DEF Slots
<1>8. d.entries = fs /\ d.next = (n + 1) % CacheSize /\ d \in CacheSet
  <2>1. d = [entries |-> fs, next |-> (n + 1) % CacheSize]
    BY <1>1, <1>3, <1>5 DEF CacheAllocate
  <2> HIDE DEF EntrySet, NoCacheEntry
  <2> QED BY <1>6, <1>7, <2>1 DEF CacheSet
<1> QED BY <1>2, <1>3, <1>4, <1>6, <1>8 DEF OthersKept, Holds, Used, Of, At, Held

(* Filling in the data of a used slot                                      *)
LEMMA FillIs ==
    ASSUME NEW c \in CacheSet, NEW k \in Slots, Used(c, k),
           NEW v \in Contents \union {"stale"},
           NEW d, d = [c EXCEPT !.entries[k].data = v]
    PROVE  /\ d \in CacheSet /\ OthersKept(c, d, k) /\ d.next = c.next
           /\ Holds(d, k, Of(c, k), At(c, k), v)
<1>1. PICK es, n : es = c.entries /\ n = c.next
  OBVIOUS
<1>2. /\ es \in [Slots -> {NoCacheEntry} \union EntrySet] /\ n \in Slots
      /\ es[k] \in EntrySet
  BY <1>1, SlotTypes DEF CacheSet
<1>3. PICK e : e = [es[k] EXCEPT !.data = v]
  OBVIOUS
<1>4. /\ e \in EntrySet /\ e.valid /\ e.data = v
      /\ e.device = es[k].device /\ e.lba = es[k].lba
  BY <1>2, <1>3 DEF EntrySet
<1>5. PICK fs : fs = [es EXCEPT ![k] = e]
  OBVIOUS
<1>6. /\ fs \in [Slots -> {NoCacheEntry} \union EntrySet] /\ fs[k] = e
      /\ \A j \in Slots : j # k => fs[j] = es[j]
  BY <1>2, <1>4, <1>5
<1>7. d = [c EXCEPT !.entries = fs]
  <2>1. fs = [es EXCEPT ![k].data = v]
    BY <1>3, <1>5
  <2> QED BY <1>1, <2>1
<1>8. d.entries = fs /\ d.next = n /\ d \in CacheSet
  BY <1>1, <1>2, <1>6, <1>7 DEF CacheSet
<1> QED BY <1>1, <1>4, <1>6, <1>8 DEF OthersKept, Holds, Used, Of, At, Held

(* Giving up a slot                                                        *)
LEMMA DropIs ==
    ASSUME NEW c \in CacheSet, NEW k \in Slots,
           NEW d, d = [c EXCEPT !.entries[k] = NoCacheEntry]
    PROVE  /\ d \in CacheSet /\ OthersKept(c, d, k) /\ d.next = c.next
           /\ ~Used(d, k)
<1>1. PICK es, n : es = c.entries /\ n = c.next
  OBVIOUS
<1>2. es \in [Slots -> {NoCacheEntry} \union EntrySet] /\ n \in Slots
  BY <1>1 DEF CacheSet
<1>3. PICK fs : fs = [es EXCEPT ![k] = NoCacheEntry]
  OBVIOUS
<1>4. /\ fs \in [Slots -> {NoCacheEntry} \union EntrySet] /\ fs[k] = NoCacheEntry
      /\ \A j \in Slots : j # k => fs[j] = es[j]
  BY <1>2, <1>3
<1>5. d = [c EXCEPT !.entries = fs]
  BY <1>1, <1>3
<1>6. d.entries = fs /\ d.next = n /\ d \in CacheSet
  BY <1>1, <1>2, <1>4, <1>5 DEF CacheSet
<1> QED BY <1>1, <1>4, <1>6 DEF OthersKept, Used, NoCacheEntry

-----------------------------------------------------------------------------
(* One slot changes                                                        *)

(* Two blocks of a device are at different places.                         *)
LEMMA PlacesDiffer ==
    ASSUME NEW dev \in Devices, NEW l \in Blocks, NEW n \in Blocks,
           Physical(dev, l) = Physical(dev, n)
    PROVE  l = n
  BY Sizes DEF Physical, Blocks

(* Excuses dropped only for block lba of device dev                        *)
ExcusedBut(ex, fx, dev, lba) ==
    \A v \in Devices : \A b \in ex[v] : b \in fx[v] \/ (v = dev /\ b = Physical(dev, lba))

(* Putting a block into a slot keeps a cache good, when the block is in no *)
(* other slot; y is the slot without data afterwards.                      *)
LEMMA PutKeepsGood ==
    ASSUME NEW c, NEW m, NEW ex, NEW x, GoodCache(c, m, ex, x),
           NEW d \in CacheSet, NEW k \in Slots, OthersKept(c, d, k),
           NEW dev \in Devices, NEW lba \in Blocks, lba < DeviceBlocks(dev),
           NEW v, Holds(d, k, dev, lba, v),
           \A j \in Slots : Used(c, j) /\ Of(c, j) = dev /\ At(c, j) = lba => j = k,
           NEW fx, ExcusedBut(ex, fx, dev, lba),
           NEW y, x = y \/ x = k \/ x \notin Slots,
           \/ k = y
           \/ v \in Contents /\ (v = m[Physical(dev, lba)] \/ Physical(dev, lba) \in fx[dev])
    PROVE  GoodCache(d, m, fx, y)
<1>1. \A j \in Slots : j # k => /\ Used(d, j) <=> Used(c, j)
                               /\ Of(d, j) = Of(c, j) /\ At(d, j) = At(c, j)
                               /\ Held(d, j) = Held(c, j)
  BY DEF OthersKept, Used, Of, At, Held
<1>2. Used(d, k) /\ Of(d, k) = dev /\ At(d, k) = lba /\ Held(d, k) = v
  BY DEF Holds
<1>3. c \in CacheSet
  BY DEF GoodCache
<1>4. ASSUME NEW j \in Slots, Used(d, j)
      PROVE  At(d, j) < DeviceBlocks(Of(d, j))
  BY <1>1, <1>2, <1>4 DEF GoodCache
<1>5. ASSUME NEW i \in Slots, NEW j \in Slots, Used(d, i), Used(d, j),
             Of(d, i) = Of(d, j), At(d, i) = At(d, j)
      PROVE  i = j
  BY <1>1, <1>2, <1>5 DEF GoodCache
<1>6. ASSUME NEW j \in Slots, j # y, Used(d, j)
      PROVE  IsCurrent(d, j, m, fx)
  <2>1. CASE j = k
    BY <1>2, <1>6, <2>1 DEF IsCurrent
  <2>2. CASE j # k
    <3>1. Used(c, j) /\ IsCurrent(c, j, m, ex)
      BY <1>1, <1>6, <2>2 DEF GoodCache
    <3>2. Of(c, j) \in Devices /\ At(c, j) \in Blocks
      BY <1>3, <3>1, SlotTypes
    <3>3. ASSUME Physical(Of(c, j), At(c, j)) \in ex[Of(c, j)]
          PROVE  Physical(Of(c, j), At(c, j)) \in fx[Of(c, j)]
      <4> SUFFICES ASSUME Of(c, j) = dev, Physical(Of(c, j), At(c, j)) = Physical(dev, lba)
                   PROVE  FALSE
        BY <3>2, <3>3 DEF ExcusedBut
      <4>1. At(c, j) = lba
        BY <3>2, PlacesDiffer
      <4> QED BY <2>2, <3>1, <4>1
    <3> QED BY <1>1, <2>2, <3>1, <3>3 DEF IsCurrent
  <2> QED BY <2>1, <2>2
<1> QED BY <1>4, <1>5, <1>6 DEF GoodCache

(* Giving up a slot keeps a cache good.                                    *)
LEMMA DropKeepsGood ==
    ASSUME NEW c, NEW m, NEW ex, NEW x, GoodCache(c, m, ex, x),
           NEW d \in CacheSet, NEW k \in Slots, OthersKept(c, d, k), ~Used(d, k),
           NEW y, x = y \/ x = k \/ x \notin Slots
    PROVE  GoodCache(d, m, ex, y)
<1>1. \A j \in Slots : j # k => /\ Used(d, j) <=> Used(c, j)
                               /\ Of(d, j) = Of(c, j) /\ At(d, j) = At(c, j)
                               /\ Held(d, j) = Held(c, j)
  BY DEF OthersKept, Used, Of, At, Held
<1>2. ASSUME NEW j \in Slots, Used(d, j)
      PROVE  At(d, j) < DeviceBlocks(Of(d, j))
  BY <1>1, <1>2 DEF GoodCache
<1>3. ASSUME NEW i \in Slots, NEW j \in Slots, Used(d, i), Used(d, j),
             Of(d, i) = Of(d, j), At(d, i) = At(d, j)
      PROVE  i = j
  BY <1>1, <1>3 DEF GoodCache
<1>4. ASSUME NEW j \in Slots, j # y, Used(d, j)
      PROVE  IsCurrent(d, j, m, ex)
  BY <1>1, <1>4 DEF GoodCache, IsCurrent
<1> QED BY <1>2, <1>3, <1>4 DEF GoodCache

(* cache_find: in a good cache the slot of a block is the only one.        *)
LEMMA FindIs ==
    ASSUME NEW c, NEW m, NEW ex, NEW x, GoodCache(c, m, ex, x),
           NEW dev \in Devices, NEW lba \in Blocks,
           Hits(c, dev, lba) # {}
    PROVE  /\ CacheFind(c, dev, lba) \in Slots
           /\ Used(c, CacheFind(c, dev, lba))
           /\ Of(c, CacheFind(c, dev, lba)) = dev
           /\ At(c, CacheFind(c, dev, lba)) = lba
<1>1. DOMAIN c.entries = Slots
  BY DEF GoodCache, CacheSet
<1>2. \A k : k \in Hits(c, dev, lba) <=> /\ k \in Slots /\ Used(c, k)
                                         /\ Of(c, k) = dev /\ At(c, k) = lba
  BY <1>1 DEF Hits, Used, Of, At
<1>3. PICK k : k \in Hits(c, dev, lba)
  OBVIOUS
<1>4. \A j \in Hits(c, dev, lba) : j = k
  BY <1>2, <1>3 DEF GoodCache
<1>5. \A j \in Hits(c, dev, lba) : k <= j
  <2>1. k \in Int /\ k <= k
    BY <1>2, <1>3, Sizes DEF Slots
  <2> QED BY <1>4, <2>1
<1>6. CacheFind(c, dev, lba) \in Hits(c, dev, lba)
  BY <1>3, <1>5 DEF CacheFind
<1> QED BY <1>2, <1>6

(* A block without a hit is in no slot.                                    *)
LEMMA MissIs ==
    ASSUME NEW c \in CacheSet, NEW dev, NEW lba, Hits(c, dev, lba) = {}
    PROVE  \A j \in Slots : ~(Used(c, j) /\ Of(c, j) = dev /\ At(c, j) = lba)
  BY DEF Hits, CacheSet, Used, Of, At

(* The next slot moves on by at most n.                                    *)
MovesOn(c, d, n) == \E i \in 0 .. n : d.next = (c.next + i) % CacheSize

(* cache_store of what is on the medium, or of an excused block            *)
LEMMA StoreKeepsGood ==
    ASSUME NEW c, NEW m, NEW ex, NEW x, GoodCache(c, m, ex, x), x # c.next,
           NEW dev \in Devices, NEW lba \in Blocks, lba < DeviceBlocks(dev),
           NEW v \in Contents,
           NEW fx, ExcusedBut(ex, fx, dev, lba),
           v = m[Physical(dev, lba)] \/ Physical(dev, lba) \in fx[dev],
           x \in Slots => Of(c, x) # dev,
           NEW d, d = CacheStore(c, dev, lba, v)
    PROVE  /\ GoodCache(d, m, fx, x) /\ MovesOn(c, d, 1)
           /\ x \in Slots => d.entries[x] = c.entries[x]
<1>1. c \in CacheSet /\ c.next \in Slots /\ c.next \in Nat /\ c.next < CacheSize
  BY Sizes DEF GoodCache, CacheSet, Slots
<1>2. CASE Hits(c, dev, lba) # {}
  <2>1. PICK k : k = CacheFind(c, dev, lba)
    OBVIOUS
  <2>2. k \in Slots /\ Used(c, k) /\ Of(c, k) = dev /\ At(c, k) = lba
    BY <1>2, <2>1, FindIs
  <2>3. d = [c EXCEPT !.entries[k].data = v]
    BY <1>2, <2>1 DEF CacheStore
  <2>4. /\ d \in CacheSet /\ OthersKept(c, d, k) /\ d.next = c.next
        /\ Holds(d, k, dev, lba, v)
    BY <1>1, <2>2, <2>3, FillIs
  <2>5. \A j \in Slots : Used(c, j) /\ Of(c, j) = dev /\ At(c, j) = lba => j = k
    BY <2>2 DEF GoodCache
  <2>6. GoodCache(d, m, fx, x)
    BY <2>2, <2>4, <2>5, PutKeepsGood
  <2>7. MovesOn(c, d, 1)
    <3>1. c.next = (c.next + 0) % CacheSize
      BY <1>1, Sizes
    <3> QED BY <2>4, <3>1 DEF MovesOn
  <2> QED BY <2>2, <2>4, <2>6, <2>7 DEF OthersKept
<1>3. CASE Hits(c, dev, lba) = {}
  <2>1. d = CacheAllocate(c, dev, lba, v)
    BY <1>3 DEF CacheStore
  <2>2. /\ d \in CacheSet /\ OthersKept(c, d, c.next) /\ Holds(d, c.next, dev, lba, v)
        /\ d.next = (c.next + 1) % CacheSize
    BY <1>1, <2>1, AllocateIs
  <2>3. \A j \in Slots : ~(Used(c, j) /\ Of(c, j) = dev /\ At(c, j) = lba)
    BY <1>1, <1>3, MissIs
  <2>4. GoodCache(d, m, fx, x)
    BY <1>1, <2>2, <2>3, PutKeepsGood
  <2> QED BY <1>1, <2>2, <2>4 DEF OthersKept, MovesOn
<1> QED BY <1>2, <1>3

-----------------------------------------------------------------------------
(* Reading from the disk                                                   *)

(* A result of a read: a good cache that has moved on by at most n slots   *)
(* and left slot x alone, and data that is on the medium or excused.       *)
GoodRead(c, r, ex, x, n, dev, lba) ==
    /\ GoodCache(r.cache, medium, ex, x) /\ MovesOn(c, r.cache, n)
    /\ x \in Slots => r.cache.entries[x] = c.entries[x]
    /\ r.ok => /\ r.data = << r.data[1] >> /\ r.data[1] \in Contents
               /\ \/ r.data[1] = medium[Physical(dev, lba)]
                  \/ Physical(dev, lba) \in ex[dev]

(* Nothing moves on by nothing.                                            *)
LEMMA StaysPut ==
    ASSUME NEW c \in CacheSet, NEW n \in Nat
    PROVE  MovesOn(c, c, n) /\ c.next \in Slots /\ c.next \in 0 .. CacheSize - 1
<1>1. c.next \in 0 .. CacheSize - 1
  BY DEF CacheSet, Slots
<1>2. c.next = (c.next + 0) % CacheSize
  BY <1>1, Sizes
<1> QED BY <1>1, <1>2 DEF MovesOn, Slots

(* The driver's own read                                                   *)
LEMMA RawDiskIs ==
    ASSUME NEW readable, NEW c, NEW lba
    PROVE  /\ RawDisk(readable, c, lba).cache = c
           /\ RawDisk(readable, c, lba).ok <=> lba \in readable
           /\ lba \in readable => RawDisk(readable, c, lba).data = << medium[lba] >>
  BY DEF RawDisk, Result

DiskReadBlock(readable, c, lba) ==
    ReadBlock(LAMBDA d, l : RawDisk(readable, d, l), "disk", c, lba)

DiskReadAhead(readable, c, lba) ==
    ReadAhead(LAMBDA d, l : RawDisk(readable, d, l), "disk", c, lba)

(* One block of the disk                                                   *)
LEMMA DiskBlockRead ==
    ASSUME medium \in [Blocks -> Contents],
           NEW c, NEW ex, NEW x, GoodCache(c, medium, ex, x), x # c.next,
           x \in Slots => Of(c, x) = "partition",
           NEW readable \in SUBSET Blocks, NEW lba \in Blocks,
           NEW r, r = DiskReadBlock(readable, c, lba)
    PROVE  GoodRead(c, r, ex, x, 1, "disk", lba)
<1>1. /\ "disk" \in Devices /\ "disk" # "partition" /\ lba < DeviceBlocks("disk")
      /\ Physical("disk", lba) = lba
  BY Sizes DEF Devices, DeviceBlocks, Physical, Blocks
<1>2. c \in CacheSet
  BY DEF GoodCache
<1>3. CASE Hits(c, "disk", lba) # {}
  <2>1. PICK k : k = CacheFind(c, "disk", lba)
    OBVIOUS
  <2>2. k \in Slots /\ Used(c, k) /\ Of(c, k) = "disk" /\ At(c, k) = lba
    BY <1>1, <1>3, <2>1, FindIs
  <2>3. PICK v : v = c.entries[k].data
    OBVIOUS
  <2>4. r.cache = c /\ r.data = << v >>
    BY <1>3, <2>1, <2>3 DEF DiskReadBlock, ReadBlock, Result
  <2>5. v \in Contents /\ (v = medium[lba] \/ lba \in ex["disk"])
    <3>1. IsCurrent(c, k, medium, ex)
      BY <1>1, <2>2 DEF GoodCache
    <3> QED BY <1>1, <2>2, <2>3, <3>1 DEF IsCurrent, Held
  <2> QED BY <1>1, <1>2, <2>4, <2>5, StaysPut DEF GoodRead
<1>4. CASE Hits(c, "disk", lba) = {} /\ lba \in readable
  <2>1. PICK v : v = medium[lba] /\ v \in Contents
    OBVIOUS
  <2>2. PICK raw : raw = RawDisk(readable, c, lba)
    OBVIOUS
  <2>3. raw.cache = c /\ raw.ok /\ raw.data = << v >>
    BY <1>4, <2>1, <2>2, RawDiskIs
  <2>4. r.cache = CacheStore(c, "disk", lba, v) /\ r.data = << v >>
    <3>1. r = Result(CacheStore(raw.cache, "disk", lba, raw.data[1]), TRUE, raw.data)
      BY <1>4, <2>2, <2>3 DEF DiskReadBlock, ReadBlock
    <3> QED BY <2>3, <3>1 DEF Result
  <2>5. ExcusedBut(ex, ex, "disk", lba)
    BY DEF ExcusedBut
  <2>6. /\ GoodCache(r.cache, medium, ex, x) /\ MovesOn(c, r.cache, 1)
        /\ x \in Slots => r.cache.entries[x] = c.entries[x]
    <3>1. PICK d : d = r.cache
      OBVIOUS
    <3>2. /\ GoodCache(d, medium, ex, x) /\ MovesOn(c, d, 1)
          /\ x \in Slots => d.entries[x] = c.entries[x]
      BY <1>1, <2>1, <2>4, <2>5, <3>1, StoreKeepsGood
    <3> QED BY <3>1, <3>2
  <2> QED BY <1>1, <2>1, <2>4, <2>6 DEF GoodRead
<1>5. CASE Hits(c, "disk", lba) = {} /\ lba \notin readable
  <2>1. PICK raw : raw = RawDisk(readable, c, lba)
    OBVIOUS
  <2>2. raw.cache = c /\ ~raw.ok
    BY <1>5, <2>1, RawDiskIs
  <2>3. r = raw
    BY <1>5, <2>1, <2>2 DEF DiskReadBlock, ReadBlock
  <2> QED BY <1>2, <2>2, <2>3, StaysPut DEF GoodRead
<1> QED BY <1>3, <1>4, <1>5

(* The block after it                                                      *)
LEMMA DiskAhead ==
    ASSUME medium \in [Blocks -> Contents],
           NEW c, NEW ex, NEW x, GoodCache(c, medium, ex, x), x # c.next,
           NEW readable \in SUBSET Blocks, NEW lba \in Nat,
           NEW d, d = DiskReadAhead(readable, c, lba)
    PROVE  /\ GoodCache(d, medium, ex, x)
           /\ x \in Slots => d.entries[x] = c.entries[x]
<1>1. "disk" \in Devices /\ Physical("disk", lba) = lba /\ c \in CacheSet
  BY DEF Devices, Physical, GoodCache
<1>2. CASE ~RequestInBounds("disk", lba, 1) \/ Hits(c, "disk", lba) # {}
  <2>1. d = c
    BY <1>2 DEF DiskReadAhead, ReadAhead
  <2> QED BY <2>1
<1>3. CASE RequestInBounds("disk", lba, 1) /\ Hits(c, "disk", lba) = {}
  <2>1. lba \in Blocks /\ lba < DeviceBlocks("disk")
    BY <1>3, Sizes DEF RequestInBounds, DeviceBlocks, Blocks
  <2>2. PICK a, k : a = CacheAllocate(c, "disk", lba, "stale") /\ k = c.next
    OBVIOUS
  <2>3. /\ a \in CacheSet /\ k \in Slots /\ OthersKept(c, a, k)
        /\ Holds(a, k, "disk", lba, "stale")
    BY <1>1, <2>1, <2>2, AllocateIs
  <2>4. \A j \in Slots : ~(Used(c, j) /\ Of(c, j) = "disk" /\ At(c, j) = lba)
    BY <1>1, <1>3, MissIs
  <2>5. PICK raw : raw = RawDisk(readable, a, lba)
    OBVIOUS
  <2>6. CASE lba \in readable
    <3>1. PICK v : v = medium[lba] /\ v \in Contents
      BY <2>1
    <3>2. raw.cache = a /\ raw.ok /\ raw.data = << v >>
      BY <2>5, <2>6, <3>1, RawDiskIs
    <3>3. d = [a EXCEPT !.entries[k].data = v]
      <4>1. d = [raw.cache EXCEPT !.entries[k].data = raw.data[1]]
        BY <1>3, <2>2, <2>5, <3>2 DEF DiskReadAhead, ReadAhead
      <4>2. raw.data[1] = v
        BY <3>2
      <4> QED BY <3>2, <4>1, <4>2
    <3>4. d \in CacheSet /\ OthersKept(a, d, k) /\ Holds(d, k, "disk", lba, v)
      <4>1. Used(a, k) /\ Of(a, k) = "disk" /\ At(a, k) = lba
        BY <2>3 DEF Holds
      <4> QED BY <2>3, <3>1, <3>3, <4>1, FillIs
    <3>5. OthersKept(c, d, k)
      BY <2>3, <3>4 DEF OthersKept
    <3>6. ExcusedBut(ex, ex, "disk", lba)
      BY DEF ExcusedBut
    <3>7. GoodCache(d, medium, ex, x)
      BY <1>1, <2>1, <2>3, <2>4, <3>1, <3>4, <3>5, <3>6, PutKeepsGood
    <3> QED BY <2>2, <3>5, <3>7 DEF OthersKept
  <2>7. CASE lba \notin readable
    <3>1. raw.cache = a /\ ~raw.ok
      BY <2>5, <2>7, RawDiskIs
    <3>2. d = [a EXCEPT !.entries[k] = NoCacheEntry]
      BY <1>3, <2>2, <2>5, <3>1 DEF DiskReadAhead, ReadAhead
    <3>3. d \in CacheSet /\ OthersKept(a, d, k) /\ ~Used(d, k)
      BY <2>3, <3>2, DropIs
    <3>4. OthersKept(c, d, k)
      BY <2>3, <3>3 DEF OthersKept
    <3>5. GoodCache(d, medium, ex, x)
      BY <2>3, <3>3, <3>4, DropKeepsGood
    <3> QED BY <2>2, <3>4, <3>5 DEF OthersKept
  <2> QED BY <2>6, <2>7
<1> QED BY <1>2, <1>3 DEF RequestInBounds

-----------------------------------------------------------------------------
(* The loops over the blocks of a request                                  *)

(* One round of the loop of block_device_read                              *)
ReadRound(r, b) == IF ~r.ok THEN r ELSE Result(b.cache, b.ok, r.data \o b.data)

PartitionReadBlock(readable, c, lba) ==
    ReadBlock(LAMBDA d, l : RawPartition(readable, d, l), "partition", c, lba)

PartitionReadAhead(readable, c, lba) ==
    ReadAhead(LAMBDA d, l : RawPartition(readable, d, l), "partition", c, lba)

(* Round n of a loop that reads or stores: of a read, a is the readable    *)
(* blocks; of a store, a is the device and data what is stored.            *)
Round(kind, a, data, lba, r, n) ==
    CASE kind = "disk" -> ReadRound(r, DiskReadBlock(a, r.cache, lba + n - 1))
      [] kind = "partition" -> ReadRound(r, PartitionReadBlock(a, r.cache, lba + n - 1))
      [] kind = "store" -> CacheStore(r, a, lba + n - 1, data[n])

(* g[n] is what n rounds make of s.                                        *)
LoopIs(g, kind, a, data, lba, s, n) ==
    /\ g = [k \in 0 .. n |-> g[k]] /\ g[0] = s
    /\ \A k \in 1 .. n : g[k] = Round(kind, a, data, lba, g[k - 1], k)

(* A set of numbers has a least one.                                       *)
LEMMA LeastNumber ==
    ASSUME NEW T, T \subseteq Nat, T # {}
    PROVE  \E n \in T : \A m \in T : n <= m
<1>1. PICK n \in T : \A m \in T : ~ (<<m, n>> \in OpToRel(<, Nat))
  BY NatLessThanWellFounded, WFMin
<1>2. \A m \in T : ~ (m < n)
  BY <1>1 DEF OpToRel
<1> QED BY <1>2

(* The loop exists for every number of rounds.                             *)
LEMMA LoopExists ==
    ASSUME NEW kind, NEW a, NEW data, NEW lba, NEW s, NEW len \in Nat
    PROVE  \E g : LoopIs(g, kind, a, data, lba, s, len)
<1> DEFINE Stuck == {n \in Nat : ~\E g : LoopIs(g, kind, a, data, lba, s, n)}
<1>1. Stuck = {}
  <2> SUFFICES ASSUME Stuck # {} PROVE FALSE
    OBVIOUS
  <2>1. PICK n \in Stuck : \A m \in Stuck : n <= m
    <3>1. Stuck \subseteq Nat
      OBVIOUS
    <3> HIDE DEF Stuck
    <3> QED BY <3>1, LeastNumber
  <2>2. CASE n = 0
    <3>1. PICK g : g = [k \in 0 .. 0 |-> s]
      OBVIOUS
    <3>2. LoopIs(g, kind, a, data, lba, s, 0)
      BY <3>1 DEF LoopIs
    <3> QED BY <2>2, <3>2
  <2>3. CASE n # 0
    <3>1. n \in Nat /\ n - 1 \in Nat /\ n - 1 \notin Stuck
      <4>1. n \in Nat
        OBVIOUS
      <4> HIDE DEF Stuck
      <4> QED BY <2>1, <2>3, <4>1
    <3>2. PICK g : LoopIs(g, kind, a, data, lba, s, n - 1)
      BY <3>1
    <3>3. PICK e : e = Round(kind, a, data, lba, g[n - 1], n)
      OBVIOUS
    <3>4. PICK h : h = [k \in 0 .. n |-> IF k = n THEN e ELSE g[k]]
      OBVIOUS
    <3>5. h[n] = e /\ h[0] = s /\ \A k \in 0 .. n - 1 : h[k] = g[k]
      BY <2>3, <3>1, <3>2, <3>4 DEF LoopIs
    <3>6. ASSUME NEW k \in 1 .. n
          PROVE  h[k] = Round(kind, a, data, lba, h[k - 1], k)
      <4>1. CASE k = n
        BY <3>1, <3>3, <3>5, <4>1
      <4>2. CASE k # n
        <5>1. k \in 1 .. n - 1 /\ k \in 0 .. n - 1 /\ k - 1 \in 0 .. n - 1
          BY <3>1, <4>2
        <5>2. h[k] = g[k] /\ h[k - 1] = g[k - 1]
          BY <3>5, <5>1
        <5> QED BY <3>2, <5>1, <5>2 DEF LoopIs
      <4> QED BY <4>1, <4>2
    <3>7. h = [k \in 0 .. n |-> h[k]]
      BY <3>4
    <3>8. LoopIs(h, kind, a, data, lba, s, n)
      BY <3>5, <3>6, <3>7 DEF LoopIs
    <3> QED BY <3>8
  <2> QED BY <2>2, <2>3
<1> QED BY <1>1

DiskRead(readable, c, lba, count) ==
    ReadBlocks(LAMBDA d, l : RawDisk(readable, d, l), "disk", c, lba, count)

PartitionRead(readable, c, lba, count) ==
    ReadBlocks(LAMBDA d, l : RawPartition(readable, d, l), "partition", c, lba, count)

NothingRead(c) == Result(c, TRUE, << >>)

(* block_device_read of the disk is its loop and the read-ahead.           *)
LEMMA DiskLoop ==
    ASSUME NEW readable, NEW c, NEW lba, NEW count \in Nat
    PROVE  \E g : /\ LoopIs(g, "disk", readable, 0, lba, NothingRead(c), count)
                  /\ DiskRead(readable, c, lba, count) =
                        IF g[count].ok
                        THEN [g[count] EXCEPT !.cache =
                                DiskReadAhead(readable, g[count].cache, lba + count)]
                        ELSE g[count]
<1> DEFINE Loop(g) ==
      g = [n \in 0 .. count |->
             IF n = 0 THEN NothingRead(c)
             ELSE ReadRound(g[n - 1], DiskReadBlock(readable, g[n - 1].cache, lba + n - 1))]
<1> DEFINE Ends(g) ==
      IF g[count].ok
      THEN [g[count] EXCEPT !.cache = DiskReadAhead(readable, g[count].cache, lba + count)]
      ELSE g[count]
<1>1. DiskRead(readable, c, lba, count) = Ends(CHOOSE g : Loop(g))
  BY DEF NothingRead, DiskRead, ReadBlocks, ReadRound, DiskReadBlock, DiskReadAhead
<1>2. ASSUME NEW g
      PROVE  Loop(g) <=> LoopIs(g, "disk", readable, 0, lba, NothingRead(c), count)
  <2>1. \A r, n : Round("disk", readable, 0, lba, r, n)
                    = ReadRound(r, DiskReadBlock(readable, r.cache, lba + n - 1))
    BY DEF Round
  <2>2. \A n \in 0 .. count : n # 0 <=> n \in 1 .. count
    OBVIOUS
  <2>3. ASSUME Loop(g)
        PROVE  LoopIs(g, "disk", readable, 0, lba, NothingRead(c), count)
    <3>1. DOMAIN g = 0 .. count /\ g = [k \in DOMAIN g |-> g[k]]
      BY <2>3
    <3>2. g[0] = NothingRead(c)
      BY <2>3
    <3>3. ASSUME NEW k \in 1 .. count
          PROVE  g[k] = ReadRound(g[k - 1], DiskReadBlock(readable, g[k - 1].cache, lba + k - 1))
      <4>1. k \in 0 .. count /\ k # 0
        OBVIOUS
      <4> QED BY <2>3, <4>1
    <3> HIDE DEF Loop
    <3> QED BY <2>1, <3>1, <3>2, <3>3 DEF LoopIs
  <2>4. ASSUME LoopIs(g, "disk", readable, 0, lba, NothingRead(c), count)
        PROVE  Loop(g)
    BY <2>1, <2>2, <2>4 DEF LoopIs
  <2> QED BY <2>3, <2>4
<1>3. \E g : Loop(g)
  <2> HIDE DEF Loop
  <2> QED BY <1>2, LoopExists
<1>4. PICK g : g = CHOOSE h : Loop(h)
  OBVIOUS
<1> HIDE DEF Loop
<1>5. Loop(g)
  BY <1>3, <1>4
<1>6. DiskRead(readable, c, lba, count) = Ends(g)
  BY <1>1, <1>4
<1> QED BY <1>2, <1>5, <1>6

(* block_device_read of a partition likewise                              *)
LEMMA PartitionLoop ==
    ASSUME NEW readable, NEW c, NEW lba, NEW count \in Nat
    PROVE  \E g : /\ LoopIs(g, "partition", readable, 0, lba, NothingRead(c), count)
                  /\ PartitionRead(readable, c, lba, count) =
                        IF g[count].ok
                        THEN [g[count] EXCEPT !.cache =
                                PartitionReadAhead(readable, g[count].cache, lba + count)]
                        ELSE g[count]
<1> DEFINE Loop(g) ==
      g = [n \in 0 .. count |->
             IF n = 0 THEN NothingRead(c)
             ELSE ReadRound(g[n - 1], PartitionReadBlock(readable, g[n - 1].cache, lba + n - 1))]
<1> DEFINE Ends(g) ==
      IF g[count].ok
      THEN [g[count] EXCEPT !.cache = PartitionReadAhead(readable, g[count].cache, lba + count)]
      ELSE g[count]
<1>1. PartitionRead(readable, c, lba, count) = Ends(CHOOSE g : Loop(g))
  BY DEF NothingRead, PartitionRead, ReadBlocks, ReadRound, PartitionReadBlock, PartitionReadAhead
<1>2. ASSUME NEW g
      PROVE  Loop(g) <=> LoopIs(g, "partition", readable, 0, lba, NothingRead(c), count)
  <2>1. \A r, n : Round("partition", readable, 0, lba, r, n)
                    = ReadRound(r, PartitionReadBlock(readable, r.cache, lba + n - 1))
    BY DEF Round
  <2>2. \A n \in 0 .. count : n # 0 <=> n \in 1 .. count
    OBVIOUS
  <2>3. ASSUME Loop(g)
        PROVE  LoopIs(g, "partition", readable, 0, lba, NothingRead(c), count)
    <3>1. DOMAIN g = 0 .. count /\ g = [k \in DOMAIN g |-> g[k]]
      BY <2>3
    <3>2. g[0] = NothingRead(c)
      BY <2>3
    <3>3. ASSUME NEW k \in 1 .. count
          PROVE  g[k] = ReadRound(g[k - 1], PartitionReadBlock(readable, g[k - 1].cache, lba + k - 1))
      <4>1. k \in 0 .. count /\ k # 0
        OBVIOUS
      <4> QED BY <2>3, <4>1
    <3> HIDE DEF Loop
    <3> QED BY <2>1, <3>1, <3>2, <3>3 DEF LoopIs
  <2>4. ASSUME LoopIs(g, "partition", readable, 0, lba, NothingRead(c), count)
        PROVE  Loop(g)
    BY <2>1, <2>2, <2>4 DEF LoopIs
  <2> QED BY <2>3, <2>4
<1>3. \E g : Loop(g)
  <2> HIDE DEF Loop
  <2> QED BY <1>2, LoopExists
<1>4. PICK g : g = CHOOSE h : Loop(h)
  OBVIOUS
<1> HIDE DEF Loop
<1>5. Loop(g)
  BY <1>3, <1>4
<1>6. PartitionRead(readable, c, lba, count) = Ends(g)
  BY <1>1, <1>4
<1> QED BY <1>2, <1>5, <1>6

(* Storing all the blocks of a request takes count rounds.                 *)
StoredIn(c, dev, lba, data, count) ==
    \E g : /\ LoopIs(g, "store", dev, data, lba, c, count)
           /\ StoreAll(c, dev, lba, data) = g[count]

(* The loop of block_device_write over the cache                           *)
LEMMA StoreLoop ==
    ASSUME NEW c, NEW dev, NEW lba, NEW data, NEW count \in Nat, Len(data) = count
    PROVE  StoredIn(c, dev, lba, data, count)
<1> DEFINE Loop(g) ==
      g = [n \in 0 .. count |->
             IF n = 0 THEN c ELSE CacheStore(g[n - 1], dev, lba + n - 1, data[n])]
<1>1. StoreAll(c, dev, lba, data) = (CHOOSE g : Loop(g))[count]
  BY DEF StoreAll
<1>2. ASSUME NEW g
      PROVE  Loop(g) <=> LoopIs(g, "store", dev, data, lba, c, count)
  <2>1. \A r, n : Round("store", dev, data, lba, r, n) = CacheStore(r, dev, lba + n - 1, data[n])
    BY DEF Round
  <2>2. \A n \in 0 .. count : n # 0 <=> n \in 1 .. count
    OBVIOUS
  <2>3. ASSUME Loop(g)
        PROVE  LoopIs(g, "store", dev, data, lba, c, count)
    <3>1. DOMAIN g = 0 .. count /\ g = [k \in DOMAIN g |-> g[k]]
      BY <2>3
    <3>2. g[0] = c
      BY <2>3
    <3>3. ASSUME NEW k \in 1 .. count
          PROVE  g[k] = CacheStore(g[k - 1], dev, lba + k - 1, data[k])
      <4>1. k \in 0 .. count /\ k # 0
        OBVIOUS
      <4> QED BY <2>3, <4>1
    <3> HIDE DEF Loop
    <3> QED BY <2>1, <3>1, <3>2, <3>3 DEF LoopIs
  <2>4. ASSUME LoopIs(g, "store", dev, data, lba, c, count)
        PROVE  Loop(g)
    BY <2>1, <2>2, <2>4 DEF LoopIs
  <2> QED BY <2>3, <2>4
<1>3. \E g : Loop(g)
  <2> HIDE DEF Loop
  <2> QED BY <1>2, LoopExists
<1>4. PICK g : g = CHOOSE h : Loop(h)
  OBVIOUS
<1> HIDE DEF Loop
<1>5. Loop(g)
  BY <1>3, <1>4
<1> QED BY <1>1, <1>2, <1>4, <1>5 DEF StoredIn

-----------------------------------------------------------------------------
(* Reading through the partition                                           *)

(* partition_read: one block through the parent, which may take two slots. *)
LEMMA RawPartitionRead ==
    ASSUME medium \in [Blocks -> Contents],
           NEW c, NEW ex, NEW x, GoodCache(c, medium, ex, x),
           x # c.next, x # (c.next + 1) % CacheSize,
           x \in Slots => Of(c, x) = "partition",
           NEW readable \in SUBSET Blocks, NEW lba \in Nat, lba < PartitionCount,
           NEW r, r = RawPartition(readable, c, lba)
    PROVE  /\ GoodCache(r.cache, medium, ex, x)
           /\ x \in Slots => r.cache.entries[x] = c.entries[x]
           /\ r.ok => /\ r.data[1] \in Contents
                      /\ \/ r.data[1] = medium[PartitionStart + lba]
                         \/ PartitionStart + lba \in ex["disk"]
<1>1. PICK p : p = PartitionStart + lba
  OBVIOUS
<1>2. p \in Blocks /\ p \in Nat /\ p + 1 \in Nat /\ p + 1 - 1 = p /\ Physical("disk", p) = p
  BY <1>1, Sizes DEF Blocks, Physical
<1>3. r = DiskRead(readable, c, p, 1)
  BY <1>1 DEF RawPartition, DiskRead
<1>4. PICK g : /\ LoopIs(g, "disk", readable, 0, p, NothingRead(c), 1)
               /\ r = IF g[1].ok
                      THEN [g[1] EXCEPT !.cache = DiskReadAhead(readable, g[1].cache, p + 1)]
                      ELSE g[1]
  BY <1>3, DiskLoop
<1>5. PICK b : b = DiskReadBlock(readable, c, p)
  OBVIOUS
<1>6. GoodRead(c, b, ex, x, 1, "disk", p)
  BY <1>2, <1>5, DiskBlockRead
<1>7. PICK d : d = b.cache
  OBVIOUS
<1>8. /\ GoodCache(d, medium, ex, x) /\ x # d.next
      /\ x \in Slots => d.entries[x] = c.entries[x]
  <2>1. PICK i \in 0 .. 1 : d.next = (c.next + i) % CacheSize
    BY <1>6, <1>7 DEF GoodRead, MovesOn
  <2>2. c.next = (c.next + 0) % CacheSize
    <3>1. c.next \in 0 .. CacheSize - 1
      BY DEF GoodCache, CacheSet, Slots
    <3> QED BY <3>1, Sizes
  <2> QED BY <1>6, <1>7, <2>1, <2>2 DEF GoodRead
<1>9. g[1] = Result(d, b.ok, << >> \o b.data)
  <2>1. g[0] = NothingRead(c) /\ g[1] = Round("disk", readable, 0, p, g[0], 1)
    <3>1. 1 \in 1 .. 1 /\ 1 - 1 = 0
      OBVIOUS
    <3> QED BY <1>4, <3>1 DEF LoopIs
  <2>2. g[1] = ReadRound(g[0], DiskReadBlock(readable, g[0].cache, p + 1 - 1))
    BY <2>1 DEF Round
  <2>3. g[0].cache = c /\ g[0].ok /\ g[0].data = << >>
    BY <2>1 DEF NothingRead, Result
  <2> QED BY <1>2, <1>5, <1>7, <2>2, <2>3 DEF ReadRound
<1>10. CASE ~b.ok
  <2>1. r = g[1] /\ r.cache = d /\ r.ok = b.ok
    BY <1>4, <1>9, <1>10 DEF Result
  <2> QED BY <1>8, <1>10, <2>1
<1>11. CASE b.ok
  <2>1. PICK e : e = DiskReadAhead(readable, d, p + 1)
    OBVIOUS
  <2>2. GoodCache(e, medium, ex, x) /\ (x \in Slots => e.entries[x] = c.entries[x])
    BY <1>2, <1>8, <2>1, DiskAhead
  <2>3. r.cache = e /\ r.data = << >> \o b.data
    <3>1. PICK t : t = << >> \o b.data
      OBVIOUS
    <3>2. g[1] = Result(d, b.ok, t)
      BY <1>9, <3>1
    <3>3. g[1].ok /\ g[1].cache = d /\ g[1].data = t
      BY <1>11, <3>2 DEF Result
    <3>4. r = [g[1] EXCEPT !.cache = e]
      BY <1>4, <2>1, <3>3
    <3>5. r.cache = e /\ r.data = t
      BY <3>2, <3>4 DEF Result
    <3> QED BY <3>1, <3>5
  <2>4. /\ b.data = << b.data[1] >> /\ b.data[1] \in Contents
        /\ b.data[1] = medium[p] \/ p \in ex["disk"]
    BY <1>2, <1>6, <1>11 DEF GoodRead
  <2>5. r.data = << b.data[1] >>
    <3>1. PICK v : v = b.data[1]
      OBVIOUS
    <3>2. << >> \o << v >> = << v >>
      OBVIOUS
    <3> QED BY <2>3, <2>4, <3>1, <3>2
  <2>6. r.data[1] = b.data[1]
    BY <2>5
  <2> QED BY <1>1, <2>2, <2>3, <2>4, <2>6
<1> QED BY <1>10, <1>11

(* One block of the partition: what is excused for the disk has to be      *)
(* excused for the partition.                                              *)
LEMMA PartitionBlockRead ==
    ASSUME medium \in [Blocks -> Contents],
           NEW c, NEW ex, GoodCache(c, medium, ex, CacheSize),
           ex["disk"] \subseteq ex["partition"],
           NEW readable \in SUBSET Blocks, NEW lba \in Nat, lba < PartitionCount,
           NEW r, r = PartitionReadBlock(readable, c, lba)
    PROVE  GoodCache(r.cache, medium, ex, CacheSize)
<1>1. /\ "partition" \in Devices /\ lba < DeviceBlocks("partition") /\ lba \in Blocks
      /\ Physical("partition", lba) = PartitionStart + lba
  BY Sizes DEF Devices, DeviceBlocks, Physical, Blocks
<1>2. c \in CacheSet
  BY DEF GoodCache
<1>3. CASE Hits(c, "partition", lba) # {}
  <2>1. r.cache = c
    BY <1>3 DEF PartitionReadBlock, ReadBlock, Result
  <2> QED BY <2>1
<1>4. CASE Hits(c, "partition", lba) = {}
  <2>1. PICK raw : raw = RawPartition(readable, c, lba)
    OBVIOUS
  <2>2. CacheSize # c.next /\ CacheSize # (c.next + 1) % CacheSize /\ CacheSize \notin Slots
    <3>1. c.next \in 0 .. CacheSize - 1
      BY <1>2 DEF CacheSet, Slots
    <3> QED BY <3>1, Sizes
  <2>3. /\ GoodCache(raw.cache, medium, ex, CacheSize)
        /\ raw.ok => /\ raw.data[1] \in Contents
                     /\ \/ raw.data[1] = medium[PartitionStart + lba]
                        \/ PartitionStart + lba \in ex["disk"]
    BY <2>1, <2>2, RawPartitionRead
  <2>4. CASE ~raw.ok
    <3>1. r = raw
      BY <1>4, <2>1, <2>4 DEF PartitionReadBlock, ReadBlock
    <3> QED BY <2>3, <3>1
  <2>5. CASE raw.ok
    <3>1. PICK d, v : d = raw.cache /\ v = raw.data[1]
      OBVIOUS
    <3>2. r.cache = CacheStore(d, "partition", lba, v)
      <4>1. r = Result(CacheStore(raw.cache, "partition", lba, raw.data[1]), TRUE, raw.data)
        BY <1>4, <2>1, <2>5 DEF PartitionReadBlock, ReadBlock
      <4> QED BY <3>1, <4>1 DEF Result
    <3>3. GoodCache(d, medium, ex, CacheSize) /\ CacheSize # d.next
      BY <2>2, <2>3, <3>1 DEF GoodCache, CacheSet
    <3>4. v \in Contents /\ (v = medium[PartitionStart + lba] \/ PartitionStart + lba \in ex["partition"])
      BY <2>3, <2>5, <3>1
    <3>5. ExcusedBut(ex, ex, "partition", lba)
      BY DEF ExcusedBut
    <3>6. PICK e : e = r.cache
      OBVIOUS
    <3>7. GoodCache(e, medium, ex, CacheSize)
      BY <1>1, <2>2, <3>2, <3>3, <3>4, <3>5, <3>6, StoreKeepsGood
    <3> QED BY <3>6, <3>7
  <2> QED BY <2>4, <2>5
<1> QED BY <1>3, <1>4

(* The block after it: the slot given to it first is still there when the  *)
(* parent has taken its two.                                               *)
LEMMA PartitionAhead ==
    ASSUME medium \in [Blocks -> Contents],
           NEW c, NEW ex, GoodCache(c, medium, ex, CacheSize),
           ex["disk"] \subseteq ex["partition"],
           NEW readable \in SUBSET Blocks, NEW lba \in Nat,
           NEW d, d = PartitionReadAhead(readable, c, lba)
    PROVE  GoodCache(d, medium, ex, CacheSize)
<1>1. c \in CacheSet /\ CacheSize \notin Slots
  BY Sizes DEF GoodCache
<1>2. CASE ~RequestInBounds("partition", lba, 1) \/ Hits(c, "partition", lba) # {}
  <2>1. d = c
    BY <1>2 DEF PartitionReadAhead, ReadAhead
  <2> QED BY <2>1
<1>3. CASE RequestInBounds("partition", lba, 1) /\ Hits(c, "partition", lba) = {}
  <2>1. /\ lba \in Blocks /\ lba < DeviceBlocks("partition") /\ lba < PartitionCount
        /\ "partition" \in Devices /\ Physical("partition", lba) = PartitionStart + lba
    BY <1>3, Sizes DEF RequestInBounds, DeviceBlocks, Blocks, Physical, Devices
  <2>2. PICK a, k : a = CacheAllocate(c, "partition", lba, "stale") /\ k = c.next
    OBVIOUS
  <2>3. /\ a \in CacheSet /\ k \in Slots /\ OthersKept(c, a, k)
        /\ Holds(a, k, "partition", lba, "stale")
        /\ a.next = (k + 1) % CacheSize
    BY <1>1, <2>1, <2>2, AllocateIs
  <2>4. \A j \in Slots : ~(Used(c, j) /\ Of(c, j) = "partition" /\ At(c, j) = lba)
    BY <1>1, <1>3, MissIs
  <2>5. ExcusedBut(ex, ex, "partition", lba)
    BY DEF ExcusedBut
  <2>6. GoodCache(a, medium, ex, k)
    BY <1>1, <2>1, <2>3, <2>4, <2>5, PutKeepsGood
  <2>7. k # a.next /\ k # (a.next + 1) % CacheSize
    <3>1. k \in 0 .. CacheSize - 1
      BY <2>3 DEF Slots
    <3>2. CASE k + 2 < CacheSize
      BY <2>3, <3>1, <3>2, Sizes
    <3>3. CASE k + 2 = CacheSize
      BY <2>3, <3>1, <3>3, Sizes
    <3>4. CASE k + 1 = CacheSize
      BY <2>3, <3>1, <3>4, Sizes
    <3> QED BY <3>1, <3>2, <3>3, <3>4, Sizes
  <2>8. PICK raw : raw = RawPartition(readable, a, lba)
    OBVIOUS
  <2>9. Of(a, k) = "partition"
    BY <2>3 DEF Holds
  <2>10. PICK b : b = raw.cache
    OBVIOUS
  <2>11. /\ GoodCache(b, medium, ex, k) /\ b.entries[k] = a.entries[k]
         /\ raw.ok => /\ raw.data[1] \in Contents
                      /\ \/ raw.data[1] = medium[PartitionStart + lba]
                         \/ PartitionStart + lba \in ex["disk"]
    BY <2>1, <2>3, <2>6, <2>7, <2>8, <2>9, <2>10, RawPartitionRead
  <2>12. b \in CacheSet /\ Used(b, k) /\ Of(b, k) = "partition" /\ At(b, k) = lba
    BY <2>3, <2>11 DEF GoodCache, Holds, Used, Of, At
  <2>13. CASE raw.ok
    <3>1. PICK v : v = raw.data[1]
      OBVIOUS
    <3>2. d = [b EXCEPT !.entries[k].data = v]
      <4>1. d = [raw.cache EXCEPT !.entries[k].data = raw.data[1]]
        BY <1>3, <2>2, <2>8, <2>13 DEF PartitionReadAhead, ReadAhead
      <4> QED BY <2>10, <3>1, <4>1
    <3>3. v \in Contents /\ (v = medium[PartitionStart + lba] \/ PartitionStart + lba \in ex["partition"])
      BY <2>11, <2>13, <3>1
    <3>4. d \in CacheSet /\ OthersKept(b, d, k) /\ Holds(d, k, "partition", lba, v)
      BY <2>3, <2>12, <3>2, <3>3, FillIs
    <3>5. \A j \in Slots : Used(b, j) /\ Of(b, j) = "partition" /\ At(b, j) = lba => j = k
      BY <2>3, <2>11, <2>12 DEF GoodCache
    <3> QED BY <2>1, <2>3, <2>5, <2>11, <3>3, <3>4, <3>5, PutKeepsGood
  <2>14. CASE ~raw.ok
    <3>1. d = [b EXCEPT !.entries[k] = NoCacheEntry]
      BY <1>3, <2>2, <2>8, <2>10, <2>14 DEF PartitionReadAhead, ReadAhead
    <3>2. d \in CacheSet /\ OthersKept(b, d, k) /\ ~Used(d, k)
      BY <2>3, <2>12, <3>1, DropIs
    <3> QED BY <2>3, <2>11, <3>2, DropKeepsGood
  <2> QED BY <2>13, <2>14
<1> QED BY <1>2, <1>3 DEF RequestInBounds

-----------------------------------------------------------------------------
(* Whole requests                                                          *)

(* The blocks whose entries may be out of date, for each device            *)
Excused == [dev \in Devices |-> IF dev = "disk" THEN torn ELSE torn \union shadowed]

(* The invariant                                                           *)
CacheInv ==
    /\ medium \in [Blocks -> Contents]
    /\ torn \subseteq Blocks /\ shadowed \subseteq InPartition
    /\ GoodCache(cache, medium, Excused, CacheSize)

(* A request in bounds ends inside its device, which ends inside the disk. *)
LEMMA InBounds ==
    ASSUME NEW dev \in Devices, NEW lba \in Nat, NEW count \in Nat,
           RequestInBounds(dev, lba, count)
    PROVE  /\ count \in Nat \ {0} /\ lba + count <= DeviceBlocks(dev)
           /\ DeviceBlocks(dev) \in Nat
           /\ Physical(dev, lba) \in Nat
           /\ Physical(dev, lba) + DeviceBlocks(dev) - lba <= BlockCount
  BY Sizes DEF RequestInBounds, DeviceBlocks, Devices, Physical

(* No slot is the one after the last.                                      *)
LEMMA NoSlot ==
    ASSUME NEW c \in CacheSet
    PROVE  CacheSize # c.next /\ CacheSize \notin Slots
  BY Sizes DEF CacheSet

(* A result with a good cache                                              *)
IsRead(r, ex) == GoodCache(r.cache, medium, ex, CacheSize) /\ "cache" \in DOMAIN r

(* The loop of a read keeps the cache good.                                *)
LEMMA ReadLoopKeepsGood ==
    ASSUME medium \in [Blocks -> Contents],
           NEW c, NEW ex, GoodCache(c, medium, ex, CacheSize),
           ex["disk"] \subseteq ex["partition"],
           NEW readable \in SUBSET Blocks, NEW dev \in Devices,
           NEW lba \in Nat, NEW count \in Nat, lba + count <= DeviceBlocks(dev),
           NEW g, LoopIs(g, dev, readable, 0, lba, NothingRead(c), count)
    PROVE  IsRead(g[count], ex)
<1> DEFINE Bad == {n \in 0 .. count : ~IsRead(g[n], ex)}
<1>1. Bad = {}
  <2> SUFFICES ASSUME Bad # {} PROVE FALSE
    OBVIOUS
  <2>1. PICK n \in Bad : \A m \in Bad : n <= m
    <3>1. Bad \subseteq Nat
      OBVIOUS
    <3> HIDE DEF Bad
    <3> QED BY <3>1, LeastNumber
  <2>2. n \in 0 .. count /\ ~IsRead(g[n], ex)
    OBVIOUS
  <2>3. IsRead(g[0], ex)
    <3>1. g[0] = NothingRead(c)
      BY DEF LoopIs
    <3>2. g[0].cache = c /\ "cache" \in DOMAIN g[0]
      BY <3>1 DEF NothingRead, Result
    <3> QED BY <3>2 DEF IsRead
  <2>4. n # 0
    BY <2>2, <2>3
  <2>5. n - 1 \in 0 .. count /\ n \in 1 .. count /\ n - 1 \notin Bad
    <3>1. n - 1 \in 0 .. count /\ n \in 1 .. count
      BY <2>2, <2>4
    <3> HIDE DEF Bad
    <3> QED BY <2>1, <2>2, <3>1
  <2>6. PICK d : d = g[n - 1].cache
    OBVIOUS
  <2>7. IsRead(g[n - 1], ex) /\ GoodCache(d, medium, ex, CacheSize)
    BY <2>5, <2>6 DEF IsRead
  <2>8. PICK l : l = lba + n - 1
    OBVIOUS
  <2>9. l \in Nat /\ l < DeviceBlocks(dev)
    <3>1. DeviceBlocks(dev) \in Nat
      BY Sizes DEF DeviceBlocks
    <3> QED BY <2>5, <2>8, <3>1
  <2>10. PICK r : r = g[n - 1]
    OBVIOUS
  <2>11. g[n] = Round(dev, readable, 0, lba, r, n)
    BY <2>5, <2>10 DEF LoopIs
  <2>12. ASSUME NEW b, GoodCache(b.cache, medium, ex, CacheSize), g[n] = ReadRound(r, b)
         PROVE  FALSE
    <3>1. CASE r.ok
      <4>1. PICK s : s = r.data \o b.data
        OBVIOUS
      <4>2. g[n] = Result(b.cache, b.ok, s)
        BY <2>12, <3>1, <4>1 DEF ReadRound
      <4>3. g[n].cache = b.cache /\ "cache" \in DOMAIN g[n]
        BY <4>2 DEF Result
      <4> QED BY <2>2, <2>12, <4>3 DEF IsRead
    <3>2. CASE ~r.ok
      <4>1. g[n] = r
        BY <2>12, <3>2 DEF ReadRound
      <4> QED BY <2>2, <2>7, <2>10, <4>1
    <3> QED BY <3>1, <3>2
  <2>13. CASE dev = "disk"
    <3>1. PICK b : b = DiskReadBlock(readable, d, l)
      OBVIOUS
    <3>2. l \in Blocks
      BY <2>9, <2>13, Sizes DEF DeviceBlocks, Blocks
    <3>3. CacheSize # d.next /\ CacheSize \notin Slots
      BY <2>7, NoSlot DEF GoodCache
    <3>4. GoodRead(d, b, ex, CacheSize, 1, "disk", l)
      BY <2>7, <3>1, <3>2, <3>3, DiskBlockRead
    <3>5. g[n] = ReadRound(r, b)
      BY <2>6, <2>8, <2>10, <2>11, <2>13, <3>1 DEF Round
    <3> QED BY <2>12, <3>4, <3>5 DEF GoodRead
  <2>14. CASE dev = "partition"
    <3>1. PICK b : b = PartitionReadBlock(readable, d, l)
      OBVIOUS
    <3>2. l < PartitionCount
      BY <2>9, <2>14 DEF DeviceBlocks
    <3>3. GoodCache(b.cache, medium, ex, CacheSize)
      BY <2>7, <2>9, <3>1, <3>2, PartitionBlockRead
    <3>4. g[n] = ReadRound(r, b)
      BY <2>6, <2>8, <2>10, <2>11, <2>14, <3>1 DEF Round
    <3> QED BY <2>12, <3>3, <3>4
  <2> QED BY <2>13, <2>14 DEF Devices
<1>2. count \in 0 .. count
  OBVIOUS
<1> QED BY <1>1, <1>2

(* block_device_read keeps the cache good.                                 *)
LEMMA ReadKeepsGood ==
    ASSUME CacheInv, NEW readable \in SUBSET Blocks, NEW dev \in Devices,
           NEW lba \in Nat, NEW count \in Nat, lba + count <= DeviceBlocks(dev)
    PROVE  GoodCache(BlockDeviceRead(dev, lba, count, readable).cache, medium, Excused, CacheSize)
<1>1. /\ medium \in [Blocks -> Contents] /\ GoodCache(cache, medium, Excused, CacheSize)
      /\ Excused["disk"] \subseteq Excused["partition"]
  BY DEF CacheInv, Excused, Devices
<1>2. PICK r : r = BlockDeviceRead(dev, lba, count, readable)
  OBVIOUS
<1>3. CASE dev = "disk"
  <2>1. r = DiskRead(readable, cache, lba, count)
    BY <1>2, <1>3 DEF BlockDeviceRead, DiskRead
  <2>2. PICK g : /\ LoopIs(g, "disk", readable, 0, lba, NothingRead(cache), count)
                 /\ r = IF g[count].ok
                        THEN [g[count] EXCEPT !.cache =
                                DiskReadAhead(readable, g[count].cache, lba + count)]
                        ELSE g[count]
    BY <2>1, DiskLoop
  <2>3. PICK d, e : d = g[count].cache /\ e = DiskReadAhead(readable, d, lba + count)
    OBVIOUS
  <2>4. GoodCache(d, medium, Excused, CacheSize) /\ "cache" \in DOMAIN g[count]
    BY <1>1, <1>3, <2>2, <2>3, ReadLoopKeepsGood DEF IsRead
  <2>5. CacheSize # d.next /\ CacheSize \notin Slots
    BY <2>4, NoSlot DEF GoodCache
  <2>6. GoodCache(e, medium, Excused, CacheSize)
    BY <1>1, <2>3, <2>4, <2>5, DiskAhead
  <2>7. r.cache = d \/ r.cache = e
    BY <2>2, <2>3, <2>4
  <2> QED BY <1>2, <2>4, <2>6, <2>7
<1>4. CASE dev = "partition"
  <2>1. r = PartitionRead(readable, cache, lba, count)
    BY <1>2, <1>4 DEF BlockDeviceRead, PartitionRead
  <2>2. PICK g : /\ LoopIs(g, "partition", readable, 0, lba, NothingRead(cache), count)
                 /\ r = IF g[count].ok
                        THEN [g[count] EXCEPT !.cache =
                                PartitionReadAhead(readable, g[count].cache, lba + count)]
                        ELSE g[count]
    BY <2>1, PartitionLoop
  <2>3. PICK d, e : d = g[count].cache /\ e = PartitionReadAhead(readable, d, lba + count)
    OBVIOUS
  <2>4. GoodCache(d, medium, Excused, CacheSize) /\ "cache" \in DOMAIN g[count]
    BY <1>1, <1>4, <2>2, <2>3, ReadLoopKeepsGood DEF IsRead
  <2>5. GoodCache(e, medium, Excused, CacheSize)
    BY <1>1, <2>3, <2>4, PartitionAhead
  <2>6. r.cache = d \/ r.cache = e
    BY <2>2, <2>3, <2>4
  <2> QED BY <1>2, <2>4, <2>5, <2>6
<1> QED BY <1>3, <1>4 DEF Devices

(* What is excused may grow, and the medium may change where it does.      *)
LEMMA ChangeKeepsGood ==
    ASSUME NEW c, NEW m, NEW ex, NEW x, GoodCache(c, m, ex, x), NEW n, NEW fx,
           \A dev \in Devices : \A l \in Blocks : l < DeviceBlocks(dev) =>
               \/ Physical(dev, l) \in fx[dev]
               \/ Physical(dev, l) \notin ex[dev] /\ n[Physical(dev, l)] = m[Physical(dev, l)]
    PROVE  GoodCache(c, n, fx, x)
<1>1. ASSUME NEW k \in Slots, k # x, Used(c, k)
      PROVE  IsCurrent(c, k, n, fx)
  <2>1. /\ IsCurrent(c, k, m, ex) /\ At(c, k) < DeviceBlocks(Of(c, k))
        /\ Of(c, k) \in Devices /\ At(c, k) \in Blocks
    BY <1>1, SlotTypes DEF GoodCache
  <2>2. PICK dev \in Devices, l \in Blocks : dev = Of(c, k) /\ l = At(c, k)
    BY <2>1
  <2> QED BY <2>1, <2>2 DEF IsCurrent
<1> QED BY <1>1 DEF GoodCache

(* The excuses of a device without those for n blocks from p on            *)
Without(ex, dev, p, n) ==
    [v \in Devices |-> IF v = dev THEN ex[v] \ (p .. p + n - 1) ELSE ex[v]]

(* The loop of a write brings the entries of its blocks up to date.        *)
LEMMA StoreAllKeepsGood ==
    ASSUME NEW c, NEW m, NEW ex, GoodCache(c, m, ex, CacheSize),
           NEW dev \in Devices, NEW lba \in Nat, NEW count \in Nat,
           lba + count <= DeviceBlocks(dev),
           NEW data \in [1 .. count -> Contents], Len(data) = count,
           NEW p \in Nat, p = Physical(dev, lba),
           \A n \in 1 .. count : data[n] = m[p + n - 1]
    PROVE  GoodCache(StoreAll(c, dev, lba, data), m, Without(ex, dev, p, count), CacheSize)
<1>1. PICK g : /\ LoopIs(g, "store", dev, data, lba, c, count)
               /\ StoreAll(c, dev, lba, data) = g[count]
  <2>1. StoredIn(c, dev, lba, data, count)
    BY StoreLoop
  <2> QED BY <2>1 DEF StoredIn
<1> DEFINE Bad == {n \in 0 .. count : ~GoodCache(g[n], m, Without(ex, dev, p, n), CacheSize)}
<1>2. Bad = {}
  <2> SUFFICES ASSUME Bad # {} PROVE FALSE
    OBVIOUS
  <2>1. PICK n \in Bad : \A k \in Bad : n <= k
    <3>1. Bad \subseteq Nat
      OBVIOUS
    <3> HIDE DEF Bad
    <3> QED BY <3>1, LeastNumber
  <2>2. n \in 0 .. count /\ ~GoodCache(g[n], m, Without(ex, dev, p, n), CacheSize)
    OBVIOUS
  <2>3. n # 0
    <3> SUFFICES ASSUME n = 0 PROVE FALSE
      OBVIOUS
    <3>1. g[0] = c
      BY <1>1 DEF LoopIs
    <3>2. p .. p + 0 - 1 = {}
      OBVIOUS
    <3>3. \A v \in Devices : \A b \in ex[v] : b \in Without(ex, dev, p, 0)[v]
      BY <3>2 DEF Without
    <3>4. GoodCache(c, m, Without(ex, dev, p, 0), CacheSize)
      BY <3>3, ChangeKeepsGood
    <3> QED BY <2>2, <3>1, <3>4
  <2>4. n - 1 \in 0 .. count /\ n \in 1 .. count /\ n - 1 \notin Bad
    <3>1. n - 1 \in 0 .. count /\ n \in 1 .. count
      BY <2>2, <2>3
    <3> HIDE DEF Bad
    <3> QED BY <2>1, <2>2, <3>1
  <2>5. PICK d, l, v : d = g[n - 1] /\ l = lba + n - 1 /\ v = data[n]
    OBVIOUS
  <2>6. GoodCache(d, m, Without(ex, dev, p, n - 1), CacheSize)
    BY <2>4, <2>5
  <2>7. /\ DeviceBlocks(dev) \in Nat /\ DeviceBlocks(dev) <= BlockCount
        /\ Physical(dev, lba + n - 1) = p + n - 1
    BY <2>4, Sizes DEF DeviceBlocks, Physical
  <2>8. l \in Blocks /\ l < DeviceBlocks(dev) /\ Physical(dev, l) = p + n - 1
    BY <2>4, <2>5, <2>7, Sizes, SMTT(30) DEF Blocks
  <2>9. v \in Contents /\ v = m[Physical(dev, l)]
    BY <2>4, <2>5, <2>8
  <2>10. ExcusedBut(Without(ex, dev, p, n - 1), Without(ex, dev, p, n), dev, l)
    <3>1. ASSUME NEW b, b \in p .. p + n - 1, b \notin p .. p + (n - 1) - 1
          PROVE  b = p + n - 1
      BY <2>4, <3>1, SMTT(30)
    <3> QED BY <2>8, <3>1 DEF ExcusedBut, Without
  <2>11. CacheSize # d.next /\ CacheSize \notin Slots
    BY <2>6, NoSlot DEF GoodCache
  <2>12. PICK e : e = CacheStore(d, dev, l, v)
    OBVIOUS
  <2>13. GoodCache(e, m, Without(ex, dev, p, n), CacheSize)
    BY <2>6, <2>8, <2>9, <2>10, <2>11, <2>12, StoreKeepsGood
  <2>14. g[n] = e
    BY <1>1, <2>4, <2>5, <2>12 DEF LoopIs, Round
  <2> QED BY <2>2, <2>13, <2>14
<1>3. count \in 0 .. count
  OBVIOUS
<1> QED BY <1>1, <1>2, <1>3

(* What a write leaves on the medium                                       *)
LEMMA OverwrittenIs ==
    ASSUME medium \in [Blocks -> Contents], NEW dev \in Devices, NEW lba \in Nat,
           NEW n \in Nat, NEW data \in [1 .. n -> Contents],
           NEW p \in Nat, p = Physical(dev, lba), p + n <= BlockCount,
           NEW m, m = Overwritten(dev, lba, data, n)
    PROVE  /\ m \in [Blocks -> Contents]
           /\ \A k \in 1 .. n : data[k] = m[p + k - 1]
           /\ \A b \in Blocks : b \notin p .. p + n - 1 => m[b] = medium[b]
<1>1. \A b \in Blocks : m[b] = IF b + 1 > p /\ b + 1 - p <= n THEN data[b + 1 - p] ELSE medium[b]
  BY DEF Overwritten
<1>2. ASSUME NEW b \in Blocks
      PROVE  b \in Nat /\ (b \in p .. p + n - 1 <=> b + 1 > p /\ b + 1 - p <= n)
  BY Sizes, SMTT(30) DEF Blocks
<1>3. ASSUME NEW b \in Blocks
      PROVE  m[b] \in Contents
  <2>1. CASE b + 1 > p /\ b + 1 - p <= n
    <3>1. b + 1 - p \in 1 .. n
      BY <1>2, <2>1
    <3> QED BY <1>1, <2>1, <3>1
  <2>2. CASE ~(b + 1 > p /\ b + 1 - p <= n)
    BY <1>1, <2>2
  <2> QED BY <2>1, <2>2
<1>4. m \in [Blocks -> Contents]
  <2>1. DOMAIN m = Blocks /\ m = [b \in DOMAIN m |-> m[b]]
    BY DEF Overwritten
  <2> QED BY <1>3, <2>1
<1>5. ASSUME NEW k \in 1 .. n
      PROVE  data[k] = m[p + k - 1]
  <2>1. p + k - 1 \in Blocks /\ p + k - 1 + 1 > p /\ p + k - 1 + 1 - p = k /\ k <= n
    BY Sizes DEF Blocks
  <2> QED BY <1>1, <2>1
<1> QED BY <1>1, <1>2, <1>4, <1>5

-----------------------------------------------------------------------------
(* The calls                                                               *)

(* A read changes the cache only.                                          *)
LEMMA ReadKeepsInv ==
    ASSUME CacheInv, NEW dev \in Devices, NEW lba \in Nat, NEW count \in Nat,
           Read(dev, lba, count)
    PROVE  CacheInv'
<1>1. lba + count <= DeviceBlocks(dev)
  BY InBounds DEF Read
<1>2. PICK n \in 0 .. count + 1 :
        cache' = BlockDeviceRead(dev, lba, count,
                   Blocks \intersect (Physical(dev, lba) .. Physical(dev, lba) + n - 1)).cache
  BY DEF Read
<1>3. PICK readable \in SUBSET Blocks : cache' = BlockDeviceRead(dev, lba, count, readable).cache
  BY <1>2
<1>4. GoodCache(cache', medium, Excused, CacheSize)
  BY <1>1, <1>3, ReadKeepsGood
<1>5. medium' = medium /\ torn' = torn /\ shadowed' = shadowed
  BY DEF Read
<1>6. Excused' = Excused
  BY <1>5 DEF Excused
<1>7. GoodCache(cache', medium', Excused', CacheSize)
  BY <1>4, <1>5, <1>6
<1> QED BY <1>5, <1>7 DEF CacheInv, GoodCache, IsCurrent, Used, Of, At, Held

(* A block of a device is at its place on the disk.                        *)
LEMMA PlaceOf ==
    ASSUME NEW dev \in Devices, NEW l \in Blocks, l < DeviceBlocks(dev)
    PROVE  /\ Physical(dev, l) \in Blocks
           /\ dev = "partition" => Physical(dev, l) \in InPartition
  BY Sizes DEF Devices, Blocks, DeviceBlocks, Physical, InPartition

(* A write that succeeds leaves its blocks current for the device it was   *)
(* made through, and a write through the partition for the disk as well.   *)
LEMMA WriteKeepsInv ==
    ASSUME CacheInv, NEW dev \in Devices, NEW lba \in Nat, NEW count \in Nat,
           NEW data \in [1 .. count -> Contents], WriteSucceeds(dev, lba, data)
    PROVE  CacheInv'
<1>1. Len(data) = count
  <2>1. data \in Seq(Contents)
    BY SeqDef
  <2>2. Len(data) \in Nat /\ DOMAIN data = 1 .. Len(data)
    BY <2>1, LenProperties
  <2>3. DOMAIN data = 1 .. count
    OBVIOUS
  <2> QED BY <2>2, <2>3
<1>2. PICK p \in Nat : p = Physical(dev, lba)
  BY Sizes DEF Physical
<1>3. PICK target : target = p .. p + count - 1
  OBVIOUS
<1>4. PICK m : m = medium'
  OBVIOUS
<1>5. /\ RequestInBounds(dev, lba, count)
      /\ m = Overwritten(dev, lba, data, count)
      /\ cache' = IF dev = "disk" THEN StoreAll(cache, dev, lba, data)
                  ELSE StoreAll(StoreAll(cache, "disk", p, data), dev, lba, data)
      /\ torn' = torn \ target
      /\ shadowed' = IF dev = "disk" THEN shadowed \union (target \intersect InPartition)
                                     ELSE shadowed \ target
  BY <1>1, <1>2, <1>3, <1>4 DEF WriteSucceeds
<1>6. lba + count <= DeviceBlocks(dev) /\ p + count <= BlockCount
  <2>1. /\ lba + count <= DeviceBlocks(dev) /\ DeviceBlocks(dev) \in Nat
        /\ Physical(dev, lba) + DeviceBlocks(dev) - lba <= BlockCount
    <3>1. RequestInBounds(dev, lba, count)
      BY <1>5
    <3> QED BY <3>1, InBounds
  <2> QED BY <1>2, <2>1, Sizes
<1>7. /\ medium \in [Blocks -> Contents] /\ torn \subseteq Blocks /\ shadowed \subseteq InPartition
      /\ GoodCache(cache, medium, Excused, CacheSize)
  BY DEF CacheInv
<1>8. /\ m \in [Blocks -> Contents]
      /\ \A k \in 1 .. count : data[k] = m[p + k - 1]
      /\ \A b \in Blocks : b \notin target => m[b] = medium[b]
  BY <1>2, <1>3, <1>5, <1>6, <1>7, OverwrittenIs, SMTT(30)
<1>9. PICK ex : ex = [v \in Devices |-> Excused[v] \union target]
  OBVIOUS
<1>10. GoodCache(cache, m, ex, CacheSize)
  <2>1. ASSUME NEW v \in Devices, NEW l \in Blocks, l < DeviceBlocks(v)
        PROVE  \/ Physical(v, l) \in ex[v]
               \/ /\ Physical(v, l) \notin Excused[v]
                  /\ m[Physical(v, l)] = medium[Physical(v, l)]
    BY <1>8, <1>9, <2>1, PlaceOf
  <2> QED BY <1>7, <2>1, ChangeKeepsGood
<1>11. PICK fx : fx = Without(ex, "disk", p, count)
  OBVIOUS
<1>12. "disk" \in Devices /\ "partition" \in Devices /\ "partition" # "disk"
  BY DEF Devices
<1>13. /\ fx["disk"] = torn \ target
       /\ fx["partition"] = torn \union shadowed \union target
  <2>1. Excused["disk"] = torn /\ Excused["partition"] = torn \union shadowed
    BY <1>12 DEF Excused
  <2>2. /\ fx["disk"] = ex["disk"] \ target /\ fx["partition"] = ex["partition"]
    BY <1>3, <1>11, <1>12 DEF Without
  <2>3. ex["disk"] = torn \union target /\ ex["partition"] = torn \union shadowed \union target
    BY <1>9, <1>12, <2>1
  <2> QED BY <2>2, <2>3
<1>14. PICK a : a = StoreAll(cache, "disk", p, data)
  OBVIOUS
<1>15. GoodCache(a, m, fx, CacheSize)
  <2>1. p = Physical("disk", p) /\ p + count <= DeviceBlocks("disk")
    BY <1>6 DEF Physical, DeviceBlocks
  <2> QED BY <1>1, <1>8, <1>10, <1>11, <1>12, <1>14, <2>1, StoreAllKeepsGood
<1>16. PICK hx : hx = [v \in Devices |-> IF v = "disk" THEN torn' ELSE torn' \union shadowed']
  OBVIOUS
<1>17. GoodCache(cache', m, hx, CacheSize)
  <2>1. CASE dev = "disk"
    <3>1. cache' = a
      BY <1>2, <1>5, <1>14, <2>1 DEF Physical
    <3>2. ASSUME NEW v \in Devices, NEW l \in Blocks, l < DeviceBlocks(v)
          PROVE  Physical(v, l) \in hx[v] \/ Physical(v, l) \notin fx[v]
      <4>1. CASE v = "disk"
        BY <1>5, <1>12, <1>13, <1>16, <4>1
      <4>2. CASE v = "partition"
        BY <1>5, <1>12, <1>13, <1>16, <2>1, <3>2, <4>2, PlaceOf
      <4> QED BY <4>1, <4>2 DEF Devices
    <3> QED BY <1>15, <3>1, <3>2, ChangeKeepsGood
  <2>2. CASE dev = "partition"
    <3>1. cache' = StoreAll(a, "partition", lba, data)
      BY <1>5, <1>12, <1>14, <2>2
    <3>2. PICK kx : kx = Without(fx, "partition", p, count)
      OBVIOUS
    <3>3. GoodCache(cache', m, kx, CacheSize)
      BY <1>1, <1>2, <1>6, <1>8, <1>12, <1>15, <2>2, <3>1, <3>2, StoreAllKeepsGood
    <3>4. kx["disk"] = fx["disk"] /\ kx["partition"] = fx["partition"] \ target
      BY <1>3, <1>12, <3>2 DEF Without
    <3>5. ASSUME NEW v \in Devices
          PROVE  kx[v] \subseteq hx[v]
      <4>1. CASE v = "disk"
        BY <1>5, <1>12, <1>13, <1>16, <3>4, <4>1
      <4>2. CASE v = "partition"
        BY <1>5, <1>12, <1>13, <1>16, <2>2, <3>4, <4>2
      <4> QED BY <4>1, <4>2 DEF Devices
    <3> QED BY <3>3, <3>5, ChangeKeepsGood
  <2> QED BY <2>1, <2>2 DEF Devices
<1>18. torn' \subseteq Blocks /\ shadowed' \subseteq InPartition
  BY <1>5, <1>7
<1>19. hx = Excused'
  BY <1>16 DEF Excused
<1>20. GoodCache(cache', medium', Excused', CacheSize)
  BY <1>4, <1>17, <1>19
<1> QED BY <1>4, <1>8, <1>18, <1>20 DEF CacheInv, GoodCache, IsCurrent, Used, Of, At, Held

(* A write that fails touches only blocks that are torn afterwards.        *)
LEMMA WriteFailsKeepsInv ==
    ASSUME CacheInv, NEW dev \in Devices, NEW lba \in Nat, NEW count \in Nat,
           DeviceWriteFails(dev, lba, count)
    PROVE  CacheInv'
<1>1. PICK n \in 0 .. count : \E data \in [1 .. n -> Contents] :
          /\ medium' = Overwritten(dev, lba, data, n)
          /\ torn' = torn \union (Physical(dev, lba) .. Physical(dev, lba) + n - 1)
  BY DEF DeviceWriteFails
<1>2. PICK data \in [1 .. n -> Contents] :
          /\ medium' = Overwritten(dev, lba, data, n)
          /\ torn' = torn \union (Physical(dev, lba) .. Physical(dev, lba) + n - 1)
  BY <1>1
<1>3. PICK p \in Nat : p = Physical(dev, lba)
  BY Sizes DEF Physical
<1>4. PICK target : target = p .. p + n - 1
  OBVIOUS
<1>5. PICK m : m = medium'
  OBVIOUS
<1>6. /\ RequestInBounds(dev, lba, count) /\ cache' = cache /\ shadowed' = shadowed
      /\ torn' = torn \union target /\ n \in Nat /\ n <= count
  BY <1>2, <1>3, <1>4 DEF DeviceWriteFails
<1>7. p + n <= BlockCount
  BY <1>3, <1>6, InBounds, Sizes
<1>8. /\ medium \in [Blocks -> Contents] /\ torn \subseteq Blocks /\ shadowed \subseteq InPartition
      /\ GoodCache(cache, medium, Excused, CacheSize)
  BY DEF CacheInv
<1>9. /\ m \in [Blocks -> Contents]
      /\ \A b \in Blocks : b \notin target => m[b] = medium[b]
  BY <1>2, <1>3, <1>4, <1>5, <1>6, <1>7, <1>8, OverwrittenIs
<1>10. target \subseteq Blocks
  BY <1>4, <1>6, <1>7, Sizes DEF Blocks
<1>11. PICK hx : hx = [v \in Devices |-> IF v = "disk" THEN torn' ELSE torn' \union shadowed']
  OBVIOUS
<1>12. ASSUME NEW v \in Devices, NEW l \in Blocks, l < DeviceBlocks(v)
       PROVE  \/ Physical(v, l) \in hx[v]
              \/ /\ Physical(v, l) \notin Excused[v]
                 /\ m[Physical(v, l)] = medium[Physical(v, l)]
  <2>1. Physical(v, l) \in Blocks
    BY <1>12, PlaceOf
  <2>2. Excused[v] \union target \subseteq hx[v]
    BY <1>6, <1>11 DEF Excused
  <2> QED BY <1>9, <2>1, <2>2
<1>13. GoodCache(cache, m, hx, CacheSize)
  BY <1>8, <1>12, ChangeKeepsGood
<1>14. hx = Excused'
  BY <1>11 DEF Excused
<1>15. GoodCache(cache', medium', Excused', CacheSize)
  BY <1>5, <1>6, <1>13, <1>14
<1>16. torn' \subseteq Blocks /\ shadowed' \subseteq InPartition
  BY <1>6, <1>8, <1>10
<1> QED BY <1>5, <1>9, <1>15, <1>16 DEF CacheInv, GoodCache, IsCurrent, Used, Of, At, Held

(* A barrier drops the entries it no longer excuses.                       *)
LEMMA BarrierKeepsInv ==
    ASSUME CacheInv, NEW dev \in Devices, FlushBarrier(dev)
    PROVE  CacheInv'
<1>1. PICK d : d = CacheInvalidate(cache, {dev, "disk"})
  OBVIOUS
<1>2. /\ cache' = d /\ medium' = medium /\ torn' = {}
      /\ shadowed' = IF dev = "disk" THEN shadowed \union (torn \intersect InPartition) ELSE {}
  BY <1>1 DEF FlushBarrier
<1>3. /\ medium \in [Blocks -> Contents] /\ torn \subseteq Blocks /\ shadowed \subseteq InPartition
      /\ GoodCache(cache, medium, Excused, CacheSize) /\ cache \in CacheSet
  BY DEF CacheInv, GoodCache
<1>4. /\ d \in CacheSet
      /\ \A k \in Slots : Used(d, k) => /\ d.entries[k] = cache.entries[k]
                                        /\ Used(cache, k) /\ Of(cache, k) \notin {dev, "disk"}
  <2>1. PICK es, n : es = cache.entries /\ n = cache.next
    OBVIOUS
  <2>2. es \in [Slots -> {NoCacheEntry} \union EntrySet] /\ n \in Slots
    BY <1>3, <2>1 DEF CacheSet
  <2>3. PICK fs : fs = [k \in DOMAIN es |-> IF es[k].valid /\ es[k].device \in {dev, "disk"}
                                            THEN NoCacheEntry ELSE es[k]]
    OBVIOUS
  <2>4. fs \in [Slots -> {NoCacheEntry} \union EntrySet]
    BY <2>2, <2>3
  <2>5. d = [cache EXCEPT !.entries = fs]
    BY <1>1, <2>1, <2>3 DEF CacheInvalidate
  <2>6. d.entries = fs /\ d.next = n /\ d \in CacheSet
    BY <1>3, <2>1, <2>2, <2>4, <2>5 DEF CacheSet
  <2>7. ASSUME NEW k \in Slots, fs[k].valid
        PROVE  fs[k] = es[k] /\ es[k].device \notin {dev, "disk"}
    <3>1. fs[k] # NoCacheEntry
      BY <2>7 DEF NoCacheEntry
    <3>2. ~(es[k].valid /\ es[k].device \in {dev, "disk"}) /\ fs[k] = es[k]
      BY <2>2, <2>3, <3>1
    <3> QED BY <2>7, <3>2
  <2> QED BY <2>1, <2>6, <2>7 DEF Used, Of
<1>5. PICK hx : hx = [v \in Devices |-> IF v = "disk" THEN torn' ELSE torn' \union shadowed']
  OBVIOUS
<1>6. ASSUME NEW k \in Slots, Used(d, k)
      PROVE  /\ At(d, k) < DeviceBlocks(Of(d, k)) /\ IsCurrent(d, k, medium, hx)
             /\ Of(d, k) = Of(cache, k) /\ At(d, k) = At(cache, k) /\ Used(cache, k)
  <2>1. /\ Used(cache, k) /\ Of(d, k) = Of(cache, k) /\ At(d, k) = At(cache, k)
        /\ Held(d, k) = Held(cache, k) /\ Of(cache, k) \notin {dev, "disk"}
    BY <1>4, <1>6 DEF Of, At, Held
  <2>2. /\ Of(cache, k) \in Devices /\ At(cache, k) \in Blocks
        /\ At(cache, k) < DeviceBlocks(Of(cache, k)) /\ IsCurrent(cache, k, medium, Excused)
    BY <1>3, <2>1, SlotTypes, Sizes DEF GoodCache
  <2>3. Of(cache, k) = "partition" /\ dev = "disk"
    BY <2>1, <2>2 DEF Devices
  <2>4. hx["partition"] = shadowed \union (torn \intersect InPartition)
    BY <1>2, <1>5, <2>3 DEF Devices
  <2>5. Physical("partition", At(cache, k)) \in InPartition
    BY <2>2, <2>3, PlaceOf
  <2>6. Excused["partition"] = torn \union shadowed
    BY DEF Excused, Devices
  <2> QED BY <2>1, <2>2, <2>3, <2>4, <2>5, <2>6 DEF IsCurrent
<1>7. GoodCache(d, medium, hx, CacheSize)
  <2>1. \A k, j \in Slots : /\ Used(d, k) /\ Used(d, j)
                            /\ Of(d, k) = Of(d, j) /\ At(d, k) = At(d, j)
                            => k = j
    BY <1>3, <1>6 DEF GoodCache
  <2> QED BY <1>4, <1>6, <2>1 DEF GoodCache
<1>8. hx = Excused'
  BY <1>5 DEF Excused
<1>9. GoodCache(cache', medium', Excused', CacheSize)
  BY <1>2, <1>7, <1>8
<1>10. torn' \subseteq Blocks /\ shadowed' \subseteq InPartition
  BY <1>2, <1>3
<1> QED BY <1>2, <1>3, <1>9, <1>10 DEF CacheInv, GoodCache, IsCurrent, Used, Of, At, Held

-----------------------------------------------------------------------------
(* The invariant                                                           *)

(* An empty cache is good.                                                 *)
LEMMA CacheInvInit == CacheInit => CacheInv
<1> SUFFICES ASSUME CacheInit PROVE CacheInv
  OBVIOUS
<1>1. medium \in [Blocks -> Contents] /\ torn \subseteq Blocks /\ shadowed \subseteq InPartition
  BY DEF CacheInit
<1>2. cache \in CacheSet /\ \A k \in Slots : ~Used(cache, k)
  <2>1. 0 \in Slots
    BY Sizes DEF Slots
  <2>2. PICK es : es = [k \in Slots |-> NoCacheEntry]
    OBVIOUS
  <2>3. es \in [Slots -> {NoCacheEntry} \union EntrySet] /\ \A k \in Slots : es[k] = NoCacheEntry
    BY <2>2
  <2>4. cache = [entries |-> es, next |-> 0]
    BY <2>2 DEF CacheInit, Slots
  <2> QED BY <2>1, <2>3, <2>4 DEF CacheSet, Used, NoCacheEntry
<1>3. GoodCache(cache, medium, Excused, CacheSize)
  BY <1>2 DEF GoodCache
<1> QED BY <1>1, <1>3 DEF CacheInv

(* Every call of the block layer keeps it.                                 *)
LEMMA CacheInvNext == CacheInv /\ [CacheNext]_cacheVars => CacheInv'
<1> SUFFICES ASSUME CacheInv, [CacheNext]_cacheVars PROVE CacheInv'
  OBVIOUS
<1>1. Lbas \subseteq Nat /\ CacheCounts \subseteq Nat
  BY BlockCacheAssumption
<1>2. CASE UNCHANGED cacheVars
  BY <1>2 DEF cacheVars, CacheInv, Excused, GoodCache, IsCurrent, Used, Of, At, Held
<1>3. ASSUME NEW dev \in Devices, NEW lba \in Lbas, NEW count \in CacheCounts, Refuse(dev, lba, count)
      PROVE  CacheInv'
  <2>1. UNCHANGED cacheVars
    BY <1>3 DEF Refuse
  <2> QED BY <1>2, <2>1
<1>4. CASE CacheNext
  BY <1>1, <1>3, <1>4, ReadKeepsInv, WriteKeepsInv, WriteFailsKeepsInv, BarrierKeepsInv
     DEF CacheNext
<1> QED BY <1>2, <1>4

(* What the invariant says of a used slot is CacheSound.                   *)
LEMMA CacheInvImplies == CacheInv => CacheSound
<1> SUFFICES ASSUME CacheInv PROVE CacheSound
  OBVIOUS
<1>1. /\ medium \in [Blocks -> Contents] /\ torn \subseteq Blocks /\ shadowed \subseteq InPartition
      /\ GoodCache(cache, medium, Excused, CacheSize) /\ cache \in CacheSet
  BY DEF CacheInv, GoodCache
<1>2. cache.next \in 0 .. CacheSize - 1
  BY <1>1 DEF CacheSet, Slots
<1>3. ASSUME NEW k \in Slots, Used(cache, k)
      PROVE  /\ cache.entries[k] \in [valid : {TRUE}, device : Devices, lba : Blocks, data : Contents]
             /\ \/ Held(cache, k) = medium[Physical(Of(cache, k), At(cache, k))]
                \/ Physical(Of(cache, k), At(cache, k)) \in torn
                \/ /\ Of(cache, k) = "partition"
                   /\ Physical(Of(cache, k), At(cache, k)) \in shadowed
             /\ At(cache, k) < DeviceBlocks(Of(cache, k))
  <2>1. /\ IsCurrent(cache, k, medium, Excused) /\ At(cache, k) < DeviceBlocks(Of(cache, k))
        /\ cache.entries[k] \in EntrySet /\ Of(cache, k) \in Devices
    BY <1>1, <1>3, SlotTypes, Sizes DEF GoodCache
  <2>2. cache.entries[k] \in [valid : {TRUE}, device : Devices, lba : Blocks, data : Contents]
    BY <2>1 DEF EntrySet, IsCurrent, Held
  <2>3. Excused[Of(cache, k)] = IF Of(cache, k) = "disk" THEN torn ELSE torn \union shadowed
    BY <2>1 DEF Excused
  <2> QED BY <2>1, <2>2, <2>3 DEF IsCurrent, Devices
<1>4. CacheTypeOK
  <2>1. ASSUME NEW k \in 0 .. CacheSize - 1
        PROVE  \/ cache.entries[k] = NoCacheEntry
               \/ cache.entries[k] \in [valid : {TRUE}, device : Devices,
                                        lba : Blocks, data : Contents]
    BY <1>1, <1>3, SlotTypes DEF Slots
  <2> QED BY <1>1, <1>2, <2>1 DEF CacheTypeOK
<1>5. \A k \in Valid : k \in Slots /\ Used(cache, k)
  BY DEF Valid, Slots, Used
<1>6. HitsAreCurrent
  BY <1>3, <1>5 DEF HitsAreCurrent, EntryBlock, Of, At, Held
<1>7. EntriesUnique
  BY <1>1, <1>5 DEF EntriesUnique, GoodCache, Of, At
<1>8. CachedInBounds
  BY <1>3, <1>5 DEF CachedInBounds, Of, At
<1> QED BY <1>4, <1>6, <1>7, <1>8 DEF CacheSound

(* For any disk, partition, requests and size of the cache of at least     *)
(* three slots, with failing reads and writes: what block_device_read      *)
(* returns from the cache is on the medium, but for the blocks of a failed *)
(* write and of writes beside the partition, until they are written again  *)
(* or a barrier is made; no block is cached twice for a device, and none   *)
(* beyond its end.                                                         *)
THEOREM CacheCorrect == CacheSpec => []CacheSound
BY CacheInvInit, CacheInvNext, CacheInvImplies, PTL DEF CacheSpec


-----------------------------------------------------------------------------
(* Tables and their images                                                 *)

Tables == [TableSlots -> {NoEntry} \union [used : {TRUE}, first : Nat, last : Nat]]

(* The tables an edit may write                                            *)
GoodTables == {t \in Tables : EntriesValid(t) /\ UsedSlots(t) \subseteq EditSlots}

(* A sector of entries is not a header.                                    *)
LEMMA SectorOfSlot ==
    ASSUME NEW slot \in TableSlots
    PROVE  SectorOf(slot) \in Nat \ {0} /\ SectorOf(slot) \in EntrySectors
<1>1. slot \in Nat /\ PerSector \in Nat \ {0}
  BY GptAssumption DEF TableSlots
<1>2. slot \div PerSector \in Nat
  BY <1>1
<1> QED BY <1>2 DEF SectorOf, EntrySectors

(* The header and the entries of each copy are sectors of the disk.        *)
LEMMA HeadersAreSectors ==
    ASSUME NEW c \in Copies
    PROVE  /\ <<c, 0>> \in Sectors
           /\ \A slot \in TableSlots : <<c, SectorOf(slot)>> \in Sectors
  BY SectorOfSlot DEF Sectors

(* A copy of an image is whole when all its sectors are those of a table.  *)
Whole(image, c, t) == \A s \in Sectors : s[1] = c => image[s] = Image(t)[s]

(* The table read from a whole copy is the one written, and its checksum   *)
(* fits.                                                                   *)
LEMMA WholeCopy ==
    ASSUME NEW t \in Tables, NEW image, NEW c \in Copies, Whole(image, c, t)
    PROVE  image[<<c, 0>>] = t /\ TableIn(image, c) = t /\ ChecksumFits(image, c)
<1>1. image[<<c, 0>>] = t
  BY HeadersAreSectors DEF Whole, Image
<1>2. ASSUME NEW slot \in TableSlots PROVE image[<<c, SectorOf(slot)>>][slot] = t[slot]
  <2>1. image[<<c, SectorOf(slot)>>] = SectorEntries(t, SectorOf(slot))
    BY HeadersAreSectors, SectorOfSlot DEF Whole, Image
  <2> QED BY <2>1 DEF SectorEntries
<1>3. TableIn(image, c) = t
  BY <1>2 DEF TableIn, Tables
<1> QED BY <1>1, <1>3 DEF ChecksumFits

(* A table without entries is the empty one.                               *)
LEMMA NoneUsed ==
    /\ EmptyGpt \in Tables /\ UsedSlots(EmptyGpt) = {}
    /\ \A t \in Tables : UsedSlots(t) = {} => t = EmptyGpt
  BY DEF EmptyGpt, Tables, UsedSlots, NoEntry

(* The tables of the edits are small enough for a scan.                    *)
LEMMA FewUsed ==
    ASSUME NEW t \in GoodTables
    PROVE  Cardinality(UsedSlots(t)) <= MaxPerDisk
<1>1. MaxPerDisk \in Nat \ {0} /\ EntryCount \in Nat
  BY GptAssumption
<1>2. UsedSlots(t) \subseteq 0 .. (MaxPerDisk - 1)
  BY <1>1 DEF GoodTables, EditSlots, TableSlots
<1>3. IsFiniteSet(0 .. (MaxPerDisk - 1)) /\ Cardinality(0 .. (MaxPerDisk - 1)) = MaxPerDisk
  <2>1. 0 \in Int /\ MaxPerDisk - 1 \in Int
    BY <1>1
  <2> QED BY <1>1, <2>1, FS_Interval
<1> QED BY <1>2, <1>3, FS_Subset

(* What a scan finds in a copy that is whole, and in any other one whose   *)
(* header is that of a table                                               *)
LEMMA ScanOfCopy ==
    ASSUME NEW image, NEW c \in Copies
    PROVE  /\ \A t \in GoodTables : Whole(image, c, t) => ScanAt(image, c) = t
           /\ ScanAt(image, c) \in {image[<<c, 0>>], EmptyGpt}
<1>1. ASSUME NEW t \in GoodTables, Whole(image, c, t) PROVE ScanAt(image, c) = t
  <2>1. t \in Tables
    BY DEF GoodTables
  <2>2. TableIn(image, c) = t /\ ChecksumFits(image, c)
    BY <1>1, <2>1, WholeCopy
  <2>3. EntriesValid(t) /\ Cardinality(UsedSlots(t)) <= MaxPerDisk
    BY FewUsed DEF GoodTables
  <2> QED BY <2>2, <2>3 DEF ScanAt
<1>2. ScanAt(image, c) \in {image[<<c, 0>>], EmptyGpt}
  BY DEF ScanAt, ChecksumFits
<1> QED BY <1>1, <1>2

(* With one copy whole, and the header of the other one that of the old or *)
(* the new table, a scan finds one of the two.                             *)
LEMMA OneWholeCopySuffices ==
    ASSUME NEW image, NEW old \in GoodTables, NEW new \in GoodTables,
           \A c \in Copies : image[<<c, 0>>] \in {old, new},
           \E c \in Copies, t \in {old, new} : Whole(image, c, t)
    PROVE  Scan(image) \in {old, new}
<1>1. "primary" \in Copies /\ "backup" \in Copies
  BY DEF Copies
<1>2. old \in Tables /\ new \in Tables
  BY DEF GoodTables
<1>3. CASE \E t \in {old, new} : Whole(image, "primary", t)
  <2>1. ScanAt(image, "primary") \in {old, new}
    BY <1>1, <1>3, ScanOfCopy
  <2>2. ScanAt(image, "backup") \in {old, new, EmptyGpt}
    BY <1>1, ScanOfCopy
  <2> QED BY <1>2, <2>1, <2>2, NoneUsed DEF Scan
<1>4. CASE \E t \in {old, new} : Whole(image, "backup", t)
  <2>1. ScanAt(image, "backup") \in {old, new}
    BY <1>1, <1>4, ScanOfCopy
  <2>2. ScanAt(image, "primary") \in {old, new, EmptyGpt}
    BY <1>1, ScanOfCopy
  <2> QED BY <2>1, <2>2, NoneUsed DEF Scan
<1> QED BY <1>3, <1>4 DEF Copies

-----------------------------------------------------------------------------
(* The invariant                                                           *)

Phases == {"commit", "undo_backup", "undo_both"}
LastStep(phase) == CASE phase = "commit" -> 6 [] phase = "undo_backup" -> 3 [] phase = "undo_both" -> 5

(* What does not depend on how many calls have failed: the shapes, and     *)
(* that a header is a table wherever it is.                                *)
InEdit ==
    /\ edit \in [phase : Phases, step : Nat \ {0}, old : GoodTables, new : GoodTables]
    /\ edit.step <= LastStep(edit.phase) + 1

(* The value of a function constructor                                     *)
IsFcn(f) == f = [x \in DOMAIN f |-> f[x]]

SectorGood(s, v) ==
    IF s[2] = 0 THEN v \in GoodTables
    ELSE IsFcn(v) /\ DOMAIN v = {slot \in TableSlots : SectorOf(slot) = s[2]}

SectorsGood ==
    \A s \in Sectors :
        /\ SectorGood(s, disk[s]) /\ SectorGood(s, cached[s])
        /\ s \in DOMAIN pending => SectorGood(s, pending[s])

GptShape ==
    /\ IsFcn(disk) /\ DOMAIN disk = Sectors
    /\ IsFcn(cached) /\ DOMAIN cached = Sectors
    /\ IsFcn(pending) /\ DOMAIN pending \subseteq Sectors
    /\ write_cache \in BOOLEAN /\ split \in BOOLEAN
    /\ failures \in Nat
    /\ edit = Idle \/ InEdit
    /\ SectorsGood

(* The table a phase writes, and the sectors it has done with: those it    *)
(* has written, and the primary copy when only the backup is undone.       *)
Goal == IF edit.phase = "commit" THEN edit.new ELSE edit.old

(* A sector of copy c before the given step: its entries are written by    *)
(* the call of that number, its header by the next one.                    *)
By(s, c, step, entries) == s[1] = c /\ (step > entries + 1 \/ (step = entries + 1 /\ s[2] # 0))

Settles(phase, step) ==
    {s \in Sectors :
        CASE phase = "commit" -> By(s, "backup", step, 1) \/ By(s, "primary", step, 4)
          [] phase = "undo_backup" -> By(s, "backup", step, 1) \/ s[1] = "primary"
          [] phase = "undo_both" -> By(s, "primary", step, 1) \/ By(s, "backup", step, 3)}

Finished == Settles(edit.phase, edit.step)

(* A copy stands: it is whole on the medium and nothing is on its way.     *)
StandsIn(waiting, image, c, t) ==
    \A s \in Sectors : s[1] = c => s \notin DOMAIN waiting /\ image[s] = Image(t)[s]

Stands(c, t) == StandsIn(pending, disk, c, t)

(* Every sector is one of the old or one of the new table.                 *)
OldOrNew ==
    \A s \in Sectors :
        /\ disk[s] \in {Image(edit.old)[s], Image(edit.new)[s]}
        /\ s \in DOMAIN pending => pending[s] \in {Image(edit.old)[s], Image(edit.new)[s]}

(* What the phase is done with has the goal's sectors, for the disk and    *)
(* for the block cache.                                                    *)
DoneRight ==
    \A s \in Finished :
        /\ cached[s] = Image(Goal)[s]
        /\ s \in DOMAIN pending => pending[s] = Image(Goal)[s]
        /\ s \notin DOMAIN pending => disk[s] = Image(Goal)[s]

(* And a commit has not touched the rest.                                  *)
RestOld ==
    edit.phase = "commit" =>
        \A s \in Sectors \ Finished :
            s \notin DOMAIN pending /\ disk[s] = Image(edit.old)[s] /\ cached[s] = Image(edit.old)[s]

(* The copy that stands, in each phase                                     *)
OneStands ==
    /\ edit.phase = "commit" =>
          IF edit.step <= 3 THEN Stands("primary", edit.old) ELSE Stands("backup", edit.new)
    /\ edit.phase = "undo_backup" => Stands("primary", edit.old)
    /\ edit.phase = "undo_both" /\ ~write_cache =>
          IF edit.step <= 3 THEN Stands("backup", edit.new) ELSE Stands("primary", edit.old)

(* An edit with at most one failing call so far                            *)
EditSafe ==
    /\ failures = 0 <=> edit.phase = "commit"
    /\ {edit.old, edit.new} \subseteq expected
    /\ OldOrNew /\ DoneRight /\ RestOld /\ OneStands
    /\ edit.step > LastStep(edit.phase) => DOMAIN pending = {}

(* Between edits: nothing is on its way, the block cache is right and the  *)
(* scan finds what it should; without a crash in an edit, both copies are  *)
(* whole.                                                                  *)
RestSafe ==
    /\ failures # 1
    /\ failures = 0 =>
          /\ DOMAIN pending = {} /\ cached = disk
          /\ Scan(disk) \in expected
          /\ ~split => \E t \in expected : t \in GoodTables /\ disk = Image(t)

GptInv ==
    /\ GptShape
    /\ edit = Idle => RestSafe
    /\ edit # Idle /\ failures <= 1 => EditSafe

-----------------------------------------------------------------------------
(* The calls of the phases                                                 *)

(* The calls of the commit and of the two undos, one by one.               *)
LEMMA CallsAre ==
    /\ Calls("commit") = << EntriesTo("backup"), HeaderTo("backup"), Flushing,
                            EntriesTo("primary"), HeaderTo("primary"), Flushing >>
    /\ Calls("undo_backup") = << EntriesTo("backup"), HeaderTo("backup"), Flushing >>
    /\ Calls("undo_both") = << EntriesTo("primary"), HeaderTo("primary"),
                               EntriesTo("backup"), HeaderTo("backup"), Flushing >>
  BY DEF Calls

(* Each phase has that many calls.                                         *)
LEMMA CallsEnd ==
    ASSUME NEW phase \in Phases
    PROVE  Len(Calls(phase)) = LastStep(phase) /\ LastStep(phase) \in Nat
  BY CallsAre DEF Phases, LastStep

(* Which call is made at a step: the flushes, and the copy and part of the *)
(* writes                                                                  *)
FlushAt(phase, step) ==
    \/ phase = "commit" /\ step \in {3, 6}
    \/ phase = "undo_backup" /\ step = 3
    \/ phase = "undo_both" /\ step = 5

(* What each call adds to the sectors the phase is done with.              *)
LEMMA CallAt ==
    ASSUME NEW phase \in Phases, NEW step \in 1 .. LastStep(phase)
    PROVE  /\ Calls(phase)[step] = Flushing <=> FlushAt(phase, step)
           /\ FlushAt(phase, step) => Settles(phase, step + 1) = Settles(phase, step)
           /\ ~FlushAt(phase, step) =>
                 /\ Calls(phase)[step].copy \in Copies
                 /\ Calls(phase)[step].part \in {"entries", "header"}
                 /\ Settles(phase, step + 1) = Settles(phase, step) \union
                       {s \in Sectors : /\ s[1] = Calls(phase)[step].copy
                                        /\ s[2] = 0 <=> Calls(phase)[step].part = "header"}
<1>1. \A c \in Copies :
         /\ EntriesTo(c) # Flushing /\ HeaderTo(c) # Flushing
         /\ EntriesTo(c).copy = c /\ EntriesTo(c).part = "entries"
         /\ HeaderTo(c).copy = c /\ HeaderTo(c).part = "header"
  BY DEF EntriesTo, HeaderTo, Flushing
<1>2. CASE phase = "commit"
  <2>1. step \in {1, 2, 3, 4, 5, 6}
    BY <1>2 DEF LastStep
  <2> QED BY <1>1, <1>2, <2>1, CallsAre DEF FlushAt, Settles, By, Copies
<1>3. CASE phase = "undo_backup"
  <2>1. step \in {1, 2, 3}
    BY <1>3 DEF LastStep
  <2> QED BY <1>1, <1>3, <2>1, CallsAre DEF FlushAt, Settles, By, Copies
<1>4. CASE phase = "undo_both"
  <2>1. step \in {1, 2, 3, 4, 5}
    BY <1>4 DEF LastStep
  <2> QED BY <1>1, <1>4, <2>1, CallsAre DEF FlushAt, Settles, By, Copies
<1> QED BY <1>2, <1>3, <1>4 DEF Phases

-----------------------------------------------------------------------------
(* What the steps do to the sectors                                        *)

(* Nothing waits when no sector does.                                      *)
LEMMA NothingIsEmpty ==
    /\ DOMAIN Nothing = {} /\ IsFcn(Nothing)
    /\ \A f : IsFcn(f) /\ DOMAIN f = {} => f = Nothing
  BY DEF Nothing, Only, IsFcn

(* The write cache is empty when no sector waits in it.                    *)
LEMMA NoneWaiting ==
    ASSUME GptShape
    PROVE  pending = Nothing <=> DOMAIN pending = {}
  BY NothingIsEmpty DEF GptShape

(* A call that is made is one of its phase.                                *)
LEMMA RunningIs ==
    ASSUME GptShape, Running
    PROVE  /\ InEdit /\ edit # Idle
           /\ edit.phase \in Phases /\ edit.step \in 1 .. LastStep(edit.phase)
           /\ ~write_cache => DOMAIN pending = {}
<1>1. InEdit /\ edit # Idle
  BY DEF GptShape, Running
<1>2. edit.phase \in Phases /\ edit.step \in Nat \ {0} /\ edit.step <= Len(Calls(edit.phase))
  BY <1>1 DEF InEdit, Running
<1>3. Len(Calls(edit.phase)) = LastStep(edit.phase) /\ LastStep(edit.phase) \in Nat
  BY <1>2, CallsEnd
<1>4. ~write_cache => DOMAIN pending = {}
  BY NoneWaiting DEF Running, Settled
<1> QED BY <1>1, <1>2, <1>3, <1>4

(* An edit in progress is not the absence of one.                          *)
LEMMA EditsAreNotIdle == InEdit => edit # Idle
  BY DEF InEdit, Idle, Phases

(* A write is a call on one copy, and adds its sectors to those done with. *)
LEMMA WritesAre ==
    ASSUME GptShape, Running, NextCall # Flushing
    PROVE  /\ ~FlushAt(edit.phase, edit.step)
           /\ Settles(edit.phase, edit.step + 1) = Finished \union CallSectors
           /\ CallSectors \subseteq Sectors
           /\ NextCall.copy \in Copies
<1>1. edit.phase \in Phases /\ edit.step \in 1 .. LastStep(edit.phase)
  BY RunningIs
<1> QED BY <1>1, CallAt DEF NextCall, CallSectors, Finished

(* A flush writes no sector of its own.                                    *)
LEMMA FlushesAre ==
    ASSUME GptShape, Running, NextCall = Flushing
    PROVE  /\ FlushAt(edit.phase, edit.step)
           /\ Settles(edit.phase, edit.step + 1) = Finished
<1>1. edit.phase \in Phases /\ edit.step \in 1 .. LastStep(edit.phase)
  BY RunningIs
<1> QED BY <1>1, CallAt DEF NextCall, Finished

(* What a phase writes are sectors of its goal.                            *)
LEMMA DataIs ==
    /\ DOMAIN Data = CallSectors
    /\ \A s \in CallSectors : Data[s] = Image(Goal)[s]
  BY DEF Data, Only, Goal

(* A function laid over another one.                                       *)
LEMMA OverIs ==
    ASSUME NEW new, NEW old
    PROVE  /\ DOMAIN Over(new, old) = DOMAIN new \union DOMAIN old
           /\ \A s \in DOMAIN new : Over(new, old)[s] = new[s]
           /\ \A s \in DOMAIN old \ DOMAIN new : Over(new, old)[s] = old[s]
           /\ IsFcn(Over(new, old))
  BY DEF Over, IsFcn

(* Some of the sectors of a call get into the write cache.                 *)
Arrive(S) ==
    /\ DOMAIN pending' = S \union DOMAIN pending
    /\ IsFcn(pending')
    /\ \A s \in S : pending'[s] = Image(Goal)[s]
    /\ \A s \in DOMAIN pending \ S : pending'[s] = pending[s]

(* A write that succeeds brings all its sectors into the write cache and   *)
(* the block cache.                                                        *)
LEMMA WriteArrives ==
    ASSUME GptShape, Write
    PROVE  /\ Arrive(CallSectors)
           /\ IsFcn(cached') /\ DOMAIN cached' = Sectors
           /\ \A s \in CallSectors : cached'[s] = Image(Goal)[s]
           /\ \A s \in Sectors \ CallSectors : cached'[s] = cached[s]
<1>1. PICK data : data = Data
  OBVIOUS
<1>2. /\ DOMAIN data = CallSectors /\ CallSectors \subseteq Sectors
      /\ \A s \in CallSectors : data[s] = Image(Goal)[s]
  BY <1>1, DataIs DEF CallSectors
<1>3. pending' = Over(data, pending) /\ cached' = Over(data, cached)
  BY <1>1 DEF Write
<1>4. /\ DOMAIN cached' = Sectors /\ IsFcn(cached')
      /\ DOMAIN pending' = CallSectors \union DOMAIN pending /\ IsFcn(pending')
  BY <1>2, <1>3, OverIs DEF GptShape
<1>5. /\ \A s \in CallSectors : cached'[s] = Image(Goal)[s]
      /\ \A s \in Sectors \ CallSectors : cached'[s] = cached[s]
  BY <1>2, <1>3 DEF Over, GptShape
<1>6. /\ \A s \in CallSectors : pending'[s] = Image(Goal)[s]
      /\ \A s \in DOMAIN pending \ CallSectors : pending'[s] = pending[s]
  BY <1>2, <1>3 DEF Over, GptShape
<1> QED BY <1>4, <1>5, <1>6 DEF Arrive

(* One that fails may have brought any of them into the write cache.       *)
LEMMA FailingWriteArrives ==
    ASSUME GptShape, WriteFails
    PROVE  \E S \in SUBSET CallSectors : Arrive(S)
<1>1. PICK S \in SUBSET CallSectors : pending' = Over(Only(Data, S), pending)
  BY DEF WriteFails
<1>2. DOMAIN Only(Data, S) = S /\ \A s \in S : Only(Data, S)[s] = Image(Goal)[s]
  BY DataIs DEF Only
<1>3. Arrive(S)
  BY <1>1, <1>2, OverIs DEF Arrive
<1> QED BY <1>3

(* A flush writes all that waits.                                          *)
LEMMA FlushWrites ==
    ASSUME GptShape, Flush
    PROVE  /\ DOMAIN pending' = {}
           /\ IsFcn(pending')
           /\ IsFcn(disk') /\ DOMAIN disk' = Sectors
           /\ \A s \in DOMAIN pending : disk'[s] = pending[s]
           /\ \A s \in Sectors \ DOMAIN pending : disk'[s] = disk[s]
<1>1. disk' = Over(pending, disk) /\ pending' = Nothing
  BY DEF Flush, View
<1>2. DOMAIN disk = Sectors /\ DOMAIN pending \subseteq Sectors
  BY DEF GptShape
<1>3. DOMAIN disk' = Sectors /\ IsFcn(disk')
  BY <1>1, <1>2, OverIs
<1>4. /\ \A s \in DOMAIN pending : disk'[s] = pending[s]
      /\ \A s \in Sectors \ DOMAIN pending : disk'[s] = disk[s]
  BY <1>1, <1>2 DEF Over
<1> QED BY <1>1, <1>3, <1>4, NothingIsEmpty

-----------------------------------------------------------------------------
(* The shapes are kept, however many calls have failed.                    *)

(* The empty table is one an edit may leave behind.                        *)
LEMMA EmptyIsGood == EmptyGpt \in GoodTables
  BY NoneUsed DEF GoodTables, EntriesValid

(* What the operations make of a table an edit may write is another one.   *)
LEMMA EditsAreGood ==
    ASSUME NEW old \in GoodTables, NEW new \in Edits(old), EntriesValid(new)
    PROVE  new \in GoodTables
<1>1. old \in Tables /\ UsedSlots(old) \subseteq EditSlots
  BY DEF GoodTables
<1>2. CASE \E slot \in UsedSlots(old) \intersect EditSlots : new = [old EXCEPT ![slot] = NoEntry]
  <2>1. PICK slot \in UsedSlots(old) \intersect EditSlots : new = [old EXCEPT ![slot] = NoEntry]
    BY <1>2
  <2>2. new \in Tables
    BY <1>1, <2>1 DEF Tables
  <2>3. UsedSlots(new) \subseteq UsedSlots(old)
    BY <1>1, <2>1 DEF UsedSlots, NoEntry, Tables
  <2> QED BY <1>1, <2>2, <2>3 DEF GoodTables
<1>3. CASE \E slot \in EditSlots, p \in {q \in Starts \X GptCounts : ExtentFits(q[1], q[2])} :
              new = [old EXCEPT ![slot] = Extent(p[1], p[2])]
  <2>1. PICK slot \in EditSlots, p \in {q \in Starts \X GptCounts : ExtentFits(q[1], q[2])} :
              new = [old EXCEPT ![slot] = Extent(p[1], p[2])]
    BY <1>3
  <2>2. p[1] \in 0 .. GptWord - 1 /\ p[2] \in 0 .. GptWord - 1 /\ p[2] # 0
    BY <2>1, GptAssumption DEF ExtentFits
  <2>3. GptWord \in Nat \ {0} /\ p[1] + p[2] - 1 \in Nat
    BY <2>2, GptAssumption
  <2>4. (p[1] + p[2] - 1) % GptWord \in Nat
    BY <2>3
  <2>5. Extent(p[1], p[2]) \in [used : {TRUE}, first : Nat, last : Nat]
    BY <2>2, <2>4 DEF Extent, Entry
  <2>6. slot \in TableSlots
    BY DEF EditSlots
  <2>7. new \in Tables
    BY <1>1, <2>1, <2>5, <2>6 DEF Tables
  <2>8. UsedSlots(new) \subseteq UsedSlots(old) \union {slot}
    BY <1>1, <2>1 DEF UsedSlots, Tables
  <2> QED BY <1>1, <2>7, <2>8 DEF GoodTables
<1> QED BY <1>2, <1>3 DEF Edits

(* The sectors of a table                                                  *)
LEMMA ImageIsGood ==
    ASSUME NEW t \in GoodTables, NEW s \in Sectors
    PROVE  SectorGood(s, Image(t)[s])
  BY DEF SectorGood, Image, SectorEntries, IsFcn

(* A header is good when it is the checksum of a table.                    *)
LEMMA GoodHeader ==
    ASSUME NEW c \in Copies, NEW v
    PROVE  SectorGood(<<c, 0>>, v) <=> v \in GoodTables
  BY DEF SectorGood

(* What a read of the disk returns.                                        *)
LEMMA ViewIs ==
    ASSUME GptShape
    PROVE  /\ DOMAIN View = Sectors
           /\ \A s \in Sectors : View[s] = IF s \in DOMAIN pending THEN pending[s] ELSE disk[s]
  BY DEF GptShape, View, Over

(* The copies an edit begins with: both are whole, and their table is one  *)
(* that an edit may write.                                                 *)
LEMMA BeginReads ==
    ASSUME GptShape, NEW image \in Images, Begin(image)
    PROVE  /\ IsFcn(image) /\ DOMAIN image = Sectors
           /\ \A s \in Sectors : image[s] \in {cached[s], View[s]}
           /\ \A c \in Copies : image[<<c, 0>>] = TableIn(image, "primary")
           /\ TableIn(image, "primary") \in GoodTables
<1>1. IsFcn(image) /\ DOMAIN image = Sectors
  BY DEF Images, IsFcn
<1>2. \A s \in Sectors : image[s] \in {cached[s], View[s]}
  BY DEF Begin
<1>3. \A c \in Copies : image[<<c, 0>>] = TableIn(image, "primary")
  BY DEF Begin, ChecksumFits, Copies
<1>4. \A c \in Copies : image[<<c, 0>>] \in GoodTables
  BY <1>2, HeadersAreSectors, GoodHeader, ViewIs DEF GptShape, SectorsGood
<1>5. TableIn(image, "primary") \in GoodTables
  BY <1>3, <1>4 DEF Copies
<1> QED BY <1>1, <1>2, <1>3, <1>5

(* An edit that begins has an old and a new table.                         *)
LEMMA BeginKeepsShape ==
    ASSUME GptShape, NEW image \in Images, Begin(image)
    PROVE  GptShape' /\ InEdit'
<1>1. PICK old \in GoodTables : old = TableIn(image, "primary")
  BY BeginReads
<1>2. PICK new \in Edits(old) :
         /\ EntriesValid(new)
         /\ edit' = [phase |-> "commit", step |-> 1, old |-> old, new |-> new]
  BY <1>1 DEF Begin
<1>3. new \in GoodTables
  BY <1>2, EditsAreGood
<1>4. InEdit'
  BY <1>2, <1>3 DEF InEdit, Phases, LastStep
<1>5. SectorsGood'
  BY BeginReads, ViewIs DEF Begin, GptShape, SectorsGood
<1>6. cached' = image /\ UNCHANGED <<disk, write_cache, pending, failures, split>>
  BY DEF Begin
<1> QED BY <1>4, <1>5, <1>6, BeginReads DEF GptShape

(* A write, whether it fails or not                                        *)
LEMMA ArrivalKeepsGood ==
    ASSUME GptShape, Running, NEW S \in SUBSET CallSectors, Arrive(S)
    PROVE  /\ DOMAIN pending' \subseteq Sectors
           /\ \A s \in DOMAIN pending' : SectorGood(s, pending'[s])
<1>1. Goal \in GoodTables
  BY RunningIs DEF InEdit, Goal
<1>2. CallSectors \subseteq Sectors
  BY DEF CallSectors
<1> QED BY <1>1, <1>2, ImageIsGood DEF Arrive, GptShape, SectorsGood

(* The next step of the phase                                              *)
LEMMA NextStepIs ==
    ASSUME GptShape, Running, edit' = [edit EXCEPT !.step = @ + 1]
    PROVE  /\ InEdit'
           /\ edit'.phase = edit.phase /\ edit'.old = edit.old /\ edit'.new = edit.new
           /\ edit'.step = edit.step + 1
<1>1. InEdit /\ edit.step <= LastStep(edit.phase) /\ LastStep(edit.phase) \in Nat
  BY RunningIs, CallsEnd
<1>2. /\ edit'.phase = edit.phase /\ edit'.old = edit.old /\ edit'.new = edit.new
      /\ edit'.step = edit.step + 1
      /\ edit' \in [phase : Phases, step : Nat \ {0}, old : GoodTables, new : GoodTables]
  BY <1>1 DEF InEdit
<1> QED BY <1>1, <1>2 DEF InEdit

(* An edit with another phase and step                                     *)
LEMMA OtherPhase ==
    ASSUME NEW A, NEW B, NEW C, NEW e \in [phase : A, step : B, old : C, new : C],
           NEW p \in A, NEW n \in B
    PROVE  LET f == [e EXCEPT !.phase = p, !.step = n]
           IN /\ f \in [phase : A, step : B, old : C, new : C]
              /\ f.phase = p /\ f.step = n /\ f.old = e.old /\ f.new = e.new
<1> DEFINE d == [e EXCEPT !.phase = p]
           f == [d EXCEPT !.step = n]
<1>1. /\ d \in [phase : A, step : B, old : C, new : C]
      /\ d.phase = p /\ d.step = e.step /\ d.old = e.old /\ d.new = e.new
  OBVIOUS
<1> HIDE DEF d
<1>2. /\ f \in [phase : A, step : B, old : C, new : C]
      /\ f.phase = p /\ f.step = n /\ f.old = e.old /\ f.new = e.new
  BY <1>1
<1>3. [e EXCEPT !.phase = p, !.step = n] = f
  BY DEF d
<1> HIDE DEF f
<1> QED BY <1>2, <1>3

(* What follows a failing call                                             *)
LEMMA AfterFailureIs ==
    ASSUME GptShape, Running, edit' = AfterFailure
    PROVE  /\ InEdit'
           /\ edit'.old = edit.old /\ edit'.new = edit.new
           /\ edit.phase = "commit" =>
                 /\ edit'.step = 1
                 /\ edit'.phase = IF edit.step <= 3 THEN "undo_backup" ELSE "undo_both"
<1>1. CASE edit.phase = "commit"
  <2>1. InEdit
    BY RunningIs
  <2>2. PICK phase \in {"undo_backup", "undo_both"} :
           phase = IF edit.step <= 3 THEN "undo_backup" ELSE "undo_both"
    OBVIOUS
  <2>3. edit' = [edit EXCEPT !.phase = phase, !.step = 1]
    BY <1>1, <2>2 DEF AfterFailure
  <2>4. phase \in Phases
    BY DEF Phases
  <2>5. /\ edit'.old = edit.old /\ edit'.new = edit.new /\ edit'.step = 1 /\ edit'.phase = phase
        /\ edit' \in [phase : Phases, step : Nat \ {0}, old : GoodTables, new : GoodTables]
    <3>1. edit \in [phase : Phases, step : Nat \ {0}, old : GoodTables, new : GoodTables]
      BY <2>1 DEF InEdit
    <3>2. 1 \in Nat \ {0}
      OBVIOUS
    <3>3. LET f == [edit EXCEPT !.phase = phase, !.step = 1]
          IN /\ f \in [phase : Phases, step : Nat \ {0}, old : GoodTables, new : GoodTables]
             /\ f.phase = phase /\ f.step = 1 /\ f.old = edit.old /\ f.new = edit.new
      BY <2>4, <3>1, <3>2, OtherPhase
    <3> QED BY <2>3, <3>3
  <2>6. edit'.step <= LastStep(edit'.phase) + 1
    BY <2>5 DEF LastStep
  <2> QED BY <2>2, <2>5, <2>6 DEF InEdit
<1>2. CASE edit.phase # "commit"
  BY <1>2, NextStepIs DEF AfterFailure
<1> QED BY <1>1, <1>2

(* Every step keeps the shapes.                                            *)
LEMMA StepKeepsShape ==
    ASSUME GptShape, [GptNext]_gptVars
    PROVE  GptShape'
<1>1. CASE \E image \in Images : Begin(image)
  BY <1>1, BeginKeepsShape
<1>2. CASE Write
  <2>1. /\ Running /\ edit' = [edit EXCEPT !.step = @ + 1]
        /\ UNCHANGED <<disk, write_cache, failures, split>>
    BY <1>2 DEF Write
  <2>2. Arrive(CallSectors) /\ IsFcn(cached') /\ DOMAIN cached' = Sectors
    BY <1>2, WriteArrives
  <2>3. \A s \in Sectors : SectorGood(s, cached'[s])
    <3>1. Goal \in GoodTables
      BY <2>1, RunningIs DEF InEdit, Goal
    <3> QED BY <1>2, <3>1, WriteArrives, ImageIsGood DEF GptShape, SectorsGood
  <2>4. SectorsGood'
    BY <2>1, <2>2, <2>3, ArrivalKeepsGood DEF GptShape, SectorsGood
  <2>5. InEdit' /\ DOMAIN pending' \subseteq Sectors /\ IsFcn(pending')
    BY <2>1, <2>2, NextStepIs, ArrivalKeepsGood DEF Arrive
  <2> QED BY <2>1, <2>2, <2>4, <2>5 DEF GptShape
<1>3. CASE Flush
  <2>1. /\ Running /\ edit' = [edit EXCEPT !.step = @ + 1]
        /\ UNCHANGED <<cached, write_cache, failures, split>>
    BY <1>3 DEF Flush
  <2>2. InEdit'
    BY <2>1, NextStepIs
  <2>3. SectorsGood'
    BY <1>3, <2>1, FlushWrites DEF GptShape, SectorsGood
  <2> QED BY <1>3, <2>1, <2>2, <2>3, FlushWrites DEF GptShape
<1>4. CASE WriteFails
  <2>1. /\ Running /\ edit' = AfterFailure /\ failures' = failures + 1
        /\ UNCHANGED <<disk, cached, write_cache, split>>
    BY <1>4 DEF WriteFails
  <2>2. PICK S \in SUBSET CallSectors : Arrive(S)
    BY <1>4, FailingWriteArrives
  <2>3. SectorsGood'
    BY <2>1, <2>2, ArrivalKeepsGood DEF GptShape, SectorsGood
  <2>4. InEdit' /\ DOMAIN pending' \subseteq Sectors /\ IsFcn(pending')
    BY <2>1, <2>2, AfterFailureIs, ArrivalKeepsGood DEF Arrive
  <2> QED BY <2>1, <2>3, <2>4 DEF GptShape
<1>5. CASE FlushFails
  <2>1. /\ Running /\ edit' = AfterFailure /\ failures' = failures + 1
        /\ UNCHANGED <<disk, cached, pending, write_cache, split>>
    BY <1>5 DEF FlushFails
  <2>2. SectorsGood' /\ InEdit'
    BY <2>1, AfterFailureIs DEF GptShape, SectorsGood
  <2> QED BY <2>1, <2>2 DEF GptShape
<1>6. CASE Done
  <2>1. /\ edit' = Idle /\ failures' \in {0, failures}
        /\ UNCHANGED <<disk, cached, pending, write_cache, split>>
    BY <1>6 DEF Done
  <2> QED BY <2>1 DEF GptShape, SectorsGood, Idle
<1>7. CASE Destage
  <2>1. PICK s \in DOMAIN pending :
           /\ disk' = [disk EXCEPT ![s] = pending[s]]
           /\ pending' = Only(pending, DOMAIN pending \ {s})
    BY <1>7 DEF Destage
  <2>2. UNCHANGED <<write_cache, cached, edit, failures, split>>
    BY <1>7 DEF Destage
  <2>3. /\ IsFcn(disk') /\ DOMAIN disk' = Sectors
        /\ IsFcn(pending') /\ DOMAIN pending' = DOMAIN pending \ {s}
    BY <2>1 DEF GptShape, IsFcn, Only
  <2>4. SectorsGood'
    <3>1. /\ \A x \in Sectors : disk'[x] = IF x = s THEN pending[s] ELSE disk[x]
          /\ \A x \in DOMAIN pending \ {s} : pending'[x] = pending[x]
      BY <2>1 DEF GptShape, Only
    <3> QED BY <2>2, <2>3, <3>1 DEF GptShape, SectorsGood
  <2>5. edit' = Idle \/ InEdit'
    BY <2>2 DEF GptShape, InEdit
  <2> QED BY <2>2, <2>3, <2>4, <2>5 DEF GptShape, Idle
<1>8. CASE Crash
  <2>1. /\ cached' = disk /\ pending' = Nothing /\ edit' = Idle /\ failures' = 0
        /\ split' \in BOOLEAN /\ UNCHANGED <<disk, write_cache>>
    BY <1>8 DEF Crash, GptShape
  <2>2. SectorsGood'
    BY <2>1, NothingIsEmpty DEF GptShape, SectorsGood
  <2> QED BY <2>1, <2>2, NothingIsEmpty DEF GptShape, Idle
<1>9. ASSUME UNCHANGED <<disk, write_cache, pending, cached, edit, failures, split>>
      PROVE  GptShape'
  <2>1. SectorsGood' /\ (edit' = Idle \/ InEdit')
    BY <1>9 DEF GptShape, SectorsGood, InEdit
  <2> QED BY <1>9, <2>1 DEF GptShape, Idle
<1>10. CASE MountOrUnmount \/ UNCHANGED gptVars
  BY <1>9, <1>10 DEF MountOrUnmount, gptVars
<1> QED BY <1>1, <1>2, <1>3, <1>4, <1>5, <1>6, <1>7, <1>8, <1>10 DEF GptNext

-----------------------------------------------------------------------------
(* An edit with at most one failing call                                   *)

(* The copy that a call writes                                             *)
LEMMA CopyAt ==
    ASSUME NEW phase \in Phases, NEW step \in 1 .. LastStep(phase), ~FlushAt(phase, step)
    PROVE  /\ phase = "commit" => Calls(phase)[step].copy = IF step <= 3 THEN "backup" ELSE "primary"
           /\ phase = "undo_backup" => Calls(phase)[step].copy = "backup"
           /\ phase = "undo_both" => Calls(phase)[step].copy = IF step <= 2 THEN "primary" ELSE "backup"
<1>1. \A c \in Copies : EntriesTo(c).copy = c /\ HeaderTo(c).copy = c
  BY DEF EntriesTo, HeaderTo
<1>2. CASE phase = "commit"
  <2>1. step \in {1, 2, 4, 5}
    BY <1>2 DEF LastStep, FlushAt
  <2> QED BY <1>1, <1>2, <2>1, CallsAre DEF Copies
<1>3. CASE phase = "undo_backup"
  <2>1. step \in {1, 2}
    BY <1>3 DEF LastStep, FlushAt
  <2> QED BY <1>1, <1>3, <2>1, CallsAre DEF Copies
<1>4. CASE phase = "undo_both"
  <2>1. step \in {1, 2, 3, 4}
    BY <1>4 DEF LastStep, FlushAt
  <2> QED BY <1>1, <1>4, <2>1, CallsAre DEF Copies
<1> QED BY <1>2, <1>3, <1>4 DEF Phases

(* What the phases are done with, where it matters                         *)
LEMMA SettledAt ==
    /\ \A s \in Sectors : s[1] \in Copies
    /\ \A step \in Nat : step <= 3 =>
          \A s \in Sectors : s[1] = "primary" => s \notin Settles("commit", step)
    /\ \A s \in Sectors : s[1] = "backup" => s \in Settles("commit", 3)
    /\ \A s \in Settles("undo_backup", 1) : s[1] = "primary"
    /\ Settles("undo_both", 1) = {}
    /\ \A s \in Sectors : s[1] = "primary" => s \in Settles("undo_both", 3)
    /\ \A phase \in Phases : \A s \in Sectors : s \in Settles(phase, LastStep(phase) + 1)
<1>1. \A s \in Sectors : s[1] \in Copies
  BY DEF Sectors
<1>2. ASSUME NEW phase \in Phases, NEW s \in Sectors PROVE s \in Settles(phase, LastStep(phase) + 1)
  <2>1. s[1] \in {"primary", "backup"}
    BY <1>1 DEF Copies
  <2>2. CASE phase = "commit"
    BY <2>1, <2>2 DEF Settles, By, LastStep
  <2>3. CASE phase = "undo_backup"
    BY <2>1, <2>3 DEF Settles, By, LastStep
  <2>4. CASE phase = "undo_both"
    BY <2>1, <2>4 DEF Settles, By, LastStep
  <2> QED BY <2>2, <2>3, <2>4 DEF Phases
<1>3. \A step \in Nat : step <= 3 =>
         \A s \in Sectors : s[1] = "primary" => s \notin Settles("commit", step)
  BY DEF Settles, By
<1>4. \A s \in Sectors : s[1] = "backup" => s \in Settles("commit", 3)
  BY DEF Settles, By
<1>5. \A s \in Settles("undo_backup", 1) : s[1] = "primary"
  BY DEF Settles, By
<1>6. Settles("undo_both", 1) = {}
  BY DEF Settles, By
<1>7. \A s \in Sectors : s[1] = "primary" => s \in Settles("undo_both", 3)
  BY DEF Settles, By
<1> QED BY <1>1, <1>2, <1>3, <1>4, <1>5, <1>6, <1>7

(* A step that leaves the edit where it was, but for the step              *)
LEMMA SameGoal ==
    ASSUME edit'.phase = edit.phase, edit'.old = edit.old, edit'.new = edit.new
    PROVE  Goal' = Goal
  BY DEF Goal

(* A write of the commit or the undo leaves the copy it does not write     *)
(* standing.                                                               *)
LEMMA WriteKeepsSafe ==
    ASSUME GptShape, EditSafe, Write
    PROVE  EditSafe'
<1> USE DEF EditSafe
<1>1. /\ Running /\ NextCall # Flushing /\ edit' = [edit EXCEPT !.step = @ + 1]
      /\ UNCHANGED <<disk, write_cache, expected, failures>>
  BY DEF Write
<1>2. /\ edit'.phase = edit.phase /\ edit'.old = edit.old /\ edit'.new = edit.new
      /\ edit'.step = edit.step + 1 /\ Goal' = Goal
  BY <1>1, NextStepIs, SameGoal
<1>3. /\ ~FlushAt(edit.phase, edit.step) /\ Finished' = Finished \union CallSectors
      /\ CallSectors \subseteq Sectors
  BY <1>1, <1>2, WritesAre DEF Finished
<1>4. /\ Arrive(CallSectors)
      /\ \A s \in CallSectors : cached'[s] = Image(Goal)[s]
      /\ \A s \in Sectors \ CallSectors : cached'[s] = cached[s]
  BY WriteArrives
<1>5. edit.phase \in Phases /\ edit.step \in 1 .. LastStep(edit.phase)
      /\ (~write_cache => DOMAIN pending = {})
  BY <1>1, RunningIs
<1>6. OldOrNew'
  BY <1>1, <1>2, <1>3, <1>4 DEF OldOrNew, Arrive, Goal
<1>7. Finished \subseteq Sectors
  BY DEF Finished, Settles
<1>8. DoneRight'
  BY <1>1, <1>2, <1>3, <1>4, <1>7 DEF DoneRight, Arrive
<1>9. RestOld'
  BY <1>1, <1>2, <1>3, <1>4 DEF RestOld, Arrive
<1>10. \A s \in CallSectors : s[1] = NextCall.copy
  BY DEF CallSectors
<1>11. OneStands'
  <2>1. ASSUME NEW c, NEW t, Stands(c, t), NextCall.copy # c
        PROVE  StandsIn(pending', disk', c, t)
    BY <1>1, <1>4, <1>10, <2>1 DEF Stands, StandsIn, Arrive
  <2>2. CASE edit.phase = "commit"
    <3>1. edit.step \in {1, 2, 4, 5}
      BY <1>3, <1>5, <2>2 DEF FlushAt, LastStep
    <3>2. NextCall.copy = IF edit.step <= 3 THEN "backup" ELSE "primary"
      BY <1>3, <1>5, <2>2, CopyAt DEF NextCall
    <3> QED BY <1>2, <2>1, <2>2, <3>1, <3>2 DEF OneStands, Stands
  <2>3. CASE edit.phase = "undo_backup"
    <3>1. NextCall.copy = "backup"
      BY <1>3, <1>5, <2>3, CopyAt DEF NextCall
    <3> QED BY <1>2, <2>1, <2>3, <3>1 DEF OneStands, Stands
  <2>4. CASE edit.phase = "undo_both"
    <3>1. edit.step \in {1, 2, 3, 4}
      BY <1>3, <1>5, <2>4 DEF FlushAt, LastStep
    <3>2. NextCall.copy = IF edit.step <= 2 THEN "primary" ELSE "backup"
      BY <1>3, <1>5, <2>4, CopyAt DEF NextCall
    <3>3. edit.step = 3 /\ ~write_cache => Stands("primary", edit.old)
      <4> SUFFICES ASSUME edit.step = 3, ~write_cache, NEW s \in Sectors, s[1] = "primary"
                   PROVE  s \notin DOMAIN pending /\ disk[s] = Image(edit.old)[s]
        BY DEF Stands, StandsIn
      <4>1. s \in Finished
        BY <2>4, SettledAt DEF Finished
      <4> QED BY <1>5, <2>4, <4>1 DEF DoneRight, Goal
    <3> QED BY <1>1, <1>2, <2>1, <2>4, <3>1, <3>2, <3>3 DEF OneStands, Stands
  <2> QED BY <1>5, <2>2, <2>3, <2>4 DEF Phases
<1>12. edit'.step <= LastStep(edit'.phase)
  BY <1>2, <1>3, <1>5 DEF FlushAt, LastStep, Phases
<1>13. LastStep(edit'.phase) \in Nat /\ edit'.step \in Nat
  BY <1>2, <1>5, CallsEnd
<1> QED BY <1>1, <1>2, <1>6, <1>8, <1>9, <1>11, <1>12, <1>13

(* A flush makes what the phase has written whole.                         *)
LEMMA FlushKeepsSafe ==
    ASSUME GptShape, EditSafe, Flush
    PROVE  EditSafe'
<1> USE DEF EditSafe
<1>1. /\ Running /\ NextCall = Flushing /\ edit' = [edit EXCEPT !.step = @ + 1]
      /\ UNCHANGED <<cached, write_cache, expected, failures>>
  BY DEF Flush
<1>2. /\ edit'.phase = edit.phase /\ edit'.old = edit.old /\ edit'.new = edit.new
      /\ edit'.step = edit.step + 1 /\ Goal' = Goal
  BY <1>1, NextStepIs, SameGoal
<1>3. FlushAt(edit.phase, edit.step) /\ Finished' = Finished
  BY <1>1, <1>2, FlushesAre DEF Finished
<1>4. /\ DOMAIN pending' = {}
      /\ \A s \in DOMAIN pending : disk'[s] = pending[s]
      /\ \A s \in Sectors \ DOMAIN pending : disk'[s] = disk[s]
  BY FlushWrites
<1>5. edit.phase \in Phases /\ edit.step \in 1 .. LastStep(edit.phase)
  BY <1>1, RunningIs
<1>6. Finished \subseteq Sectors
  BY DEF Finished, Settles
<1>7. OldOrNew'
  BY <1>2, <1>4 DEF OldOrNew
<1>8. \A s \in Finished : disk'[s] = Image(Goal)[s]
  BY <1>4, <1>6 DEF DoneRight
<1>9. DoneRight'
  BY <1>1, <1>2, <1>3, <1>4, <1>8 DEF DoneRight
<1>10. RestOld'
  BY <1>1, <1>2, <1>3, <1>4 DEF RestOld
<1>11. OneStands'
  <2>1. ASSUME NEW c, NEW t, Stands(c, t)
        PROVE  StandsIn(pending', disk', c, t)
    BY <1>4, <2>1 DEF Stands, StandsIn
  <2>2. CASE edit.phase = "commit"
    <3>1. edit.step \in {3, 6}
      BY <1>3, <2>2 DEF FlushAt
    <3>2. edit.step = 3 => StandsIn(pending', disk', "backup", edit.new)
      <4> SUFFICES ASSUME edit.step = 3, NEW s \in Sectors, s[1] = "backup"
                   PROVE  s \notin DOMAIN pending' /\ disk'[s] = Image(edit.new)[s]
        BY DEF StandsIn
      <4>1. s \in Finished
        BY <2>2, SettledAt DEF Finished
      <4> QED BY <1>4, <1>8, <2>2, <4>1 DEF Goal
    <3> QED BY <1>2, <2>1, <2>2, <3>1, <3>2 DEF OneStands, Stands
  <2>3. CASE edit.phase = "undo_backup"
    BY <1>2, <2>1, <2>3 DEF OneStands, Stands
  <2>4. CASE edit.phase = "undo_both"
    <3>1. edit.step = 5
      BY <1>3, <2>4 DEF FlushAt
    <3> QED BY <1>1, <1>2, <2>1, <2>4, <3>1 DEF OneStands, Stands
  <2> QED BY <1>5, <2>2, <2>3, <2>4 DEF Phases
<1> QED BY <1>1, <1>2, <1>4, <1>7, <1>9, <1>10, <1>11

(* The first failing call: whatever it has written, the undo finds the     *)
(* copy it does not write next standing.                                   *)
LEMMA FailureKeepsSafe ==
    ASSUME GptShape, EditSafe, failures = 0, Running, edit' = AfterFailure, failures' = 1,
           UNCHANGED <<disk, write_cache, cached, expected>>,
           NEW S \in SUBSET Sectors, Arrive(S),
           \A s \in S : s[1] = IF edit.step <= 3 THEN "backup" ELSE "primary"
    PROVE  EditSafe'
<1> USE DEF EditSafe
<1>1. edit.phase = "commit" /\ edit.step \in Nat
  BY RunningIs DEF InEdit
<1>2. /\ edit'.old = edit.old /\ edit'.new = edit.new /\ edit'.step = 1
      /\ edit'.phase = IF edit.step <= 3 THEN "undo_backup" ELSE "undo_both"
  BY <1>1, AfterFailureIs
<1>3. Goal = edit.new /\ Goal' = edit.old
  BY <1>1, <1>2 DEF Goal
<1>4. OldOrNew'
  BY <1>2, <1>3 DEF OldOrNew, Arrive
<1>5. ASSUME NEW c, NEW t, Stands(c, t), \A s \in S : s[1] # c
      PROVE  StandsIn(pending', disk', c, t)
  BY <1>5 DEF Stands, StandsIn, Arrive
<1>6. ~(edit'.step > LastStep(edit'.phase))
  <2>1. LastStep("undo_backup") = 3 /\ LastStep("undo_both") = 5
    BY DEF LastStep
  <2> QED BY <1>2, <2>1
<1>7. CASE edit.step <= 3
  <2>1. edit'.phase = "undo_backup"
    BY <1>2, <1>7
  <2>2. StandsIn(pending', disk', "primary", edit.old)
    BY <1>1, <1>5, <1>7 DEF OneStands
  <2>3. OneStands' /\ RestOld'
    BY <1>2, <2>1, <2>2 DEF OneStands, Stands, RestOld
  <2>4. DoneRight'
    <3>1. \A s \in Finished' : s \in Sectors /\ s[1] = "primary"
      BY <1>2, <2>1, SettledAt DEF Finished, Settles
    <3>2. ASSUME NEW s \in Sectors, s[1] = "primary" PROVE cached[s] = Image(edit.old)[s]
      <4>1. s \notin Finished
        BY <1>1, <1>7, <3>2, SettledAt DEF Finished
      <4> QED BY <1>1, <3>2, <4>1 DEF RestOld
    <3> QED BY <1>3, <2>2, <3>1, <3>2 DEF DoneRight, StandsIn
  <2> QED BY <1>2, <1>4, <1>6, <2>1, <2>3, <2>4
<1>8. CASE ~(edit.step <= 3)
  <2>1. edit'.phase = "undo_both"
    BY <1>2, <1>8
  <2>2. StandsIn(pending', disk', "backup", edit.new)
    BY <1>1, <1>5, <1>8 DEF OneStands
  <2>3. OneStands' /\ RestOld'
    BY <1>2, <2>1, <2>2 DEF OneStands, Stands, RestOld
  <2>4. DoneRight'
    BY <1>2, <2>1, SettledAt DEF DoneRight, Finished
  <2> QED BY <1>2, <1>4, <1>6, <2>1, <2>3, <2>4
<1> QED BY <1>7, <1>8

(* A sector on its way reaches the medium.                                 *)
LEMMA DestageKeepsSafe ==
    ASSUME GptShape, EditSafe, Destage
    PROVE  EditSafe'
<1> USE DEF EditSafe
<1>1. PICK x \in DOMAIN pending :
         /\ disk' = [disk EXCEPT ![x] = pending[x]]
         /\ pending' = Only(pending, DOMAIN pending \ {x})
  BY DEF Destage
<1>2. UNCHANGED <<write_cache, cached, edit, expected, failures>>
  BY DEF Destage
<1>3. /\ DOMAIN pending' = DOMAIN pending \ {x}
      /\ \A s \in DOMAIN pending \ {x} : pending'[s] = pending[s]
      /\ x \in Sectors /\ disk'[x] = pending[x]
      /\ \A s \in Sectors \ {x} : disk'[s] = disk[s]
  BY <1>1 DEF GptShape, Only
<1>4. Finished' = Finished /\ Goal' = Goal /\ Finished \subseteq Sectors
  BY <1>2 DEF Finished, Goal, Settles
<1>5. OldOrNew'
  BY <1>2, <1>3 DEF OldOrNew
<1>6. DoneRight'
  BY <1>2, <1>3, <1>4 DEF DoneRight
<1>7. RestOld'
  BY <1>2, <1>3, <1>4 DEF RestOld
<1>8. ASSUME NEW c, NEW t, Stands(c, t) PROVE StandsIn(pending', disk', c, t)
  BY <1>3, <1>8 DEF Stands, StandsIn
<1>9. OneStands'
  BY <1>2, <1>8 DEF OneStands, Stands
<1> QED BY <1>2, <1>3, <1>5, <1>6, <1>7, <1>9

(* An image of good sectors whose copies fit their checksums and agree is  *)
(* that of their table.                                                    *)
LEMMA AgreeingCopies ==
    ASSUME NEW image, NEW t \in GoodTables,
           \A s \in Sectors : SectorGood(s, image[s]),
           \A c \in Copies : image[<<c, 0>>] = t /\ TableIn(image, c) = t
    PROVE  \A s \in Sectors : image[s] = Image(t)[s]
<1> SUFFICES ASSUME NEW s \in Sectors PROVE image[s] = Image(t)[s]
  OBVIOUS
<1>1. PICK c \in Copies, k \in {0} \union EntrySectors : s = <<c, k>>
  <2>1. s = <<s[1], s[2]>> /\ s[1] \in Copies /\ s[2] \in {0} \union EntrySectors
    BY DEF Sectors
  <2> QED BY <2>1
<1>2. CASE k = 0
  BY <1>1, <1>2 DEF Image
<1>3. CASE k # 0
  <2>1. Image(t)[s] = SectorEntries(t, k)
    BY <1>1, <1>3 DEF Image
  <2>2. /\ IsFcn(image[s])
        /\ DOMAIN image[s] = {slot \in TableSlots : SectorOf(slot) = k}
    BY <1>1, <1>3 DEF SectorGood
  <2>3. ASSUME NEW slot \in TableSlots, SectorOf(slot) = k
        PROVE  image[s][slot] = t[slot]
    <3>1. TableIn(image, c)[slot] = image[<<c, SectorOf(slot)>>][slot]
      BY DEF TableIn
    <3> QED BY <1>1, <2>3, <3>1
  <2> QED BY <2>1, <2>2, <2>3 DEF IsFcn, SectorEntries
<1> QED BY <1>2, <1>3

(* A disk with both copies whole is scanned right.                         *)
LEMMA WholeDiskScans ==
    ASSUME NEW image, NEW t \in GoodTables, \A s \in Sectors : image[s] = Image(t)[s]
    PROVE  Scan(image) = t
<1>1. \A c \in Copies : Whole(image, c, t)
  BY DEF Whole
<1>2. t \in Tables /\ "primary" \in Copies
  BY DEF GoodTables, Copies
<1>3. \A c \in Copies : image[<<c, 0>>] \in {t, t}
  BY <1>1, <1>2, WholeCopy
<1>4. Scan(image) \in {t, t}
  BY <1>1, <1>2, <1>3, OneWholeCopySuffices
<1> QED BY <1>4

(* An edit begins with both copies of the table the scan found.            *)
LEMMA BeginKeepsSafe ==
    ASSUME GptShape, RestSafe, failures <= 1, NEW image \in Images, Begin(image)
    PROVE  EditSafe'
<1>1. PICK old \in GoodTables : old = TableIn(image, "primary")
  BY BeginReads
<1>2. PICK new \in Edits(old) :
         /\ EntriesValid(new)
         /\ edit' = [phase |-> "commit", step |-> 1, old |-> old, new |-> new]
         /\ expected' = expected \union {new}
  BY <1>1 DEF Begin
<1>3. /\ edit'.phase = "commit" /\ edit'.step = 1 /\ edit'.old = old /\ edit'.new = new
      /\ cached' = image /\ UNCHANGED <<disk, pending, write_cache, failures>>
  BY <1>2 DEF Begin
<1>4. failures = 0 /\ DOMAIN pending = {} /\ cached = disk /\ Scan(disk) \in expected
  BY DEF RestSafe, GptShape
<1>5. \A s \in Sectors : image[s] = disk[s]
  BY <1>4, BeginReads, ViewIs
<1>6. \A s \in Sectors : disk[s] = Image(old)[s]
  <2>1. \A s \in Sectors : SectorGood(s, image[s])
    BY <1>5 DEF GptShape, SectorsGood
  <2>2. \A c \in Copies : image[<<c, 0>>] = old /\ TableIn(image, c) = old
    BY <1>1, BeginReads DEF Begin, Copies
  <2>3. \A s \in Sectors : image[s] = Image(old)[s]
    BY <2>1, <2>2, AgreeingCopies
  <2> QED BY <1>5, <2>3
<1>7. old \in expected
  BY <1>4, <1>6, WholeDiskScans
<1>8. Finished' = {}
  BY <1>3 DEF Finished, Settles, By
<1>9. OldOrNew' /\ DoneRight' /\ RestOld'
  BY <1>3, <1>4, <1>5, <1>6, <1>8 DEF OldOrNew, DoneRight, RestOld
<1>10. OneStands'
  BY <1>3, <1>4, <1>6 DEF OneStands, Stands, StandsIn
<1>11. ~(edit'.step > LastStep(edit'.phase))
  BY <1>3 DEF LastStep
<1> QED BY <1>2, <1>3, <1>4, <1>7, <1>9, <1>10, <1>11 DEF EditSafe

(* The end of an edit, or of its undo: everything is on the medium.        *)
LEMMA DoneKeepsSafe ==
    ASSUME GptShape, failures <= 1 => EditSafe, Done
    PROVE  RestSafe'
<1>1. InEdit /\ edit.step > Len(Calls(edit.phase)) /\ edit' = Idle
      /\ UNCHANGED <<disk, pending, cached>>
  BY DEF Done, GptShape
<1>2. failures \in Nat /\ failures' = IF failures = 1 THEN 0 ELSE failures
  BY DEF Done, GptShape
<1>3. CASE failures <= 1
  <2> USE <1>3 DEF EditSafe
  <2>1. edit.phase \in Phases /\ edit.step > LastStep(edit.phase)
        /\ edit.step <= LastStep(edit.phase) + 1 /\ edit.step \in Nat /\ LastStep(edit.phase) \in Nat
    BY <1>1, CallsEnd DEF InEdit
  <2>2. edit.step = LastStep(edit.phase) + 1 /\ DOMAIN pending = {}
    BY <2>1
  <2>3. \A s \in Sectors : s \in Finished
    BY <2>1, <2>2, SettledAt DEF Finished
  <2>4. \A s \in Sectors : disk[s] = Image(Goal)[s] /\ cached[s] = Image(Goal)[s]
    BY <2>2, <2>3 DEF DoneRight
  <2>5. Goal \in GoodTables
    BY <1>1 DEF Goal, InEdit
  <2>6. Scan(disk) = Goal
    BY <2>4, <2>5, WholeDiskScans
  <2>7. disk = Image(Goal) /\ cached = disk
    <3>1. DOMAIN Image(Goal) = Sectors /\ IsFcn(Image(Goal))
      BY DEF Image, IsFcn
    <3> QED BY <2>4, <3>1 DEF GptShape, IsFcn
  <2>8. expected' = {Goal}
    BY <1>2 DEF Done, Goal
  <2> QED BY <1>1, <1>2, <2>2, <2>5, <2>6, <2>7, <2>8 DEF RestSafe
<1>4. CASE ~(failures <= 1)
  BY <1>2, <1>4 DEF RestSafe
<1> QED BY <1>3, <1>4

(* After a loss of power the expected table is the one the scan finds.     *)
LEMMA CrashKeepsSafe ==
    ASSUME GptInv, Crash
    PROVE  RestSafe'
<1>1. /\ cached' = disk /\ expected' = {Scan(disk)} /\ failures' = 0 /\ disk' = disk
      /\ pending' = Nothing /\ split' = (split \/ edit # Idle \/ failures > 0)
  BY DEF Crash
<1>2. DOMAIN pending' = {}
  BY <1>1, NothingIsEmpty
<1>3. ASSUME ~split' PROVE \E t \in expected' : t \in GoodTables /\ disk' = Image(t)
  <2>1. ~split /\ edit = Idle /\ failures = 0
    <3>1. ~(split \/ edit # Idle \/ failures > 0)
      BY <1>1, <1>3, Zenon
    <3> QED BY <3>1 DEF GptInv, GptShape
  <2>2. PICK t \in GoodTables : disk = Image(t)
    BY <2>1 DEF GptInv, RestSafe
  <2>3. Scan(disk) = t
    BY <2>2, WholeDiskScans
  <2> QED BY <1>1, <2>2, <2>3
<1> QED BY <1>1, <1>2, <1>3 DEF RestSafe

-----------------------------------------------------------------------------
(* The theorems                                                            *)

(* The disk starts with both copies of one table.                          *)
LEMMA GptInitInv == GptInit => GptInv
<1> SUFFICES ASSUME GptInit PROVE GptInv
  OBVIOUS
<1>1. PICK t \in {EmptyGpt} \union Edits(EmptyGpt) :
         EntriesValid(t) /\ disk = Image(t) /\ cached = Image(t) /\ expected = {t}
  BY DEF GptInit
<1>2. /\ write_cache \in BOOLEAN /\ pending = Nothing /\ edit = Idle /\ failures = 0
      /\ split = FALSE
  BY DEF GptInit
<1>3. t \in GoodTables
  BY <1>1, EmptyIsGood, EditsAreGood
<1>4. DOMAIN pending = {} /\ IsFcn(pending)
  BY <1>2, NothingIsEmpty
<1>5. DOMAIN Image(t) = Sectors /\ IsFcn(Image(t))
  BY DEF Image, IsFcn
<1>6. SectorsGood
  BY <1>1, <1>3, <1>4, ImageIsGood DEF SectorsGood
<1>7. GptShape
  BY <1>1, <1>2, <1>4, <1>5, <1>6 DEF GptShape
<1>8. Scan(disk) = t
  BY <1>1, <1>3, WholeDiskScans
<1>9. RestSafe
  BY <1>1, <1>2, <1>3, <1>4, <1>8 DEF RestSafe
<1> QED BY <1>2, <1>7, <1>9 DEF GptInv

(* Every step keeps the invariant.                                         *)
LEMMA GptStep ==
    ASSUME GptInv, [GptNext]_gptVars
    PROVE  GptInv'
<1>1. GptShape /\ GptShape'
  BY StepKeepsShape DEF GptInv
<1>2. failures \in Nat /\ failures' \in Nat
  BY <1>1 DEF GptShape
<1>3. /\ edit = Idle => RestSafe
      /\ edit # Idle /\ failures <= 1 => EditSafe
  BY DEF GptInv
<1>4. CASE \E image \in Images : Begin(image)
  <2>1. PICK image \in Images : Begin(image)
    BY <1>4
  <2>2. edit = Idle /\ failures' = failures /\ edit' # Idle
    <3>1. InEdit'
      BY <1>1, <2>1, BeginKeepsShape
    <3> QED BY <2>1, <3>1 DEF Begin, InEdit, Idle, Phases
  <2>3. failures <= 1 => EditSafe'
    BY <1>1, <1>3, <2>1, <2>2, BeginKeepsSafe
  <2> QED BY <1>1, <2>2, <2>3 DEF GptInv
<1>5. ASSUME Running, Write \/ Flush PROVE GptInv'
  <2>1. edit # Idle /\ InEdit' /\ failures' = failures
    BY <1>1, <1>5, RunningIs, NextStepIs DEF Write, Flush
  <2>2. edit' # Idle
    BY <2>1 DEF InEdit, Idle, Phases
  <2>3. failures <= 1 => EditSafe'
    BY <1>1, <1>3, <1>5, <2>1, WriteKeepsSafe, FlushKeepsSafe
  <2> QED BY <1>1, <2>1, <2>2, <2>3 DEF GptInv
<1>6. ASSUME Running, edit' = AfterFailure, failures' = failures + 1,
             failures = 0 /\ EditSafe => EditSafe'
      PROVE  GptInv'
  <2>1. edit # Idle /\ InEdit'
    BY <1>1, <1>6, RunningIs, AfterFailureIs
  <2>2. edit' # Idle
    BY <2>1 DEF InEdit, Idle, Phases
  <2>3. failures' <= 1 => failures = 0
    BY <1>2, <1>6
  <2> QED BY <1>1, <1>3, <1>6, <2>1, <2>2, <2>3 DEF GptInv
<1>7. CASE WriteFails
  <2>1. /\ Running /\ NextCall # Flushing /\ edit' = AfterFailure /\ failures' = failures + 1
        /\ UNCHANGED <<disk, write_cache, cached, expected>>
    BY <1>7 DEF WriteFails
  <2>2. PICK S \in SUBSET CallSectors : Arrive(S)
    BY <1>1, <1>7, FailingWriteArrives
  <2>3. ASSUME failures = 0, EditSafe PROVE EditSafe'
    <3>1. edit.phase = "commit" /\ "commit" \in Phases /\ edit.step \in 1 .. LastStep("commit")
      BY <1>1, <2>1, <2>3, RunningIs DEF EditSafe
    <3>2. ~FlushAt("commit", edit.step) /\ CallSectors \subseteq Sectors
      BY <1>1, <2>1, <3>1, WritesAre
    <3>3. NextCall.copy = IF edit.step <= 3 THEN "backup" ELSE "primary"
      BY <3>1, <3>2, CopyAt DEF NextCall
    <3>4. \A s \in S : s[1] = IF edit.step <= 3 THEN "backup" ELSE "primary"
      BY <3>3 DEF CallSectors
    <3>5. S \in SUBSET Sectors /\ failures' = 1
      BY <2>1, <2>3, <3>2
    <3> QED BY <1>1, <2>1, <2>2, <2>3, <3>4, <3>5, FailureKeepsSafe
  <2> QED BY <1>6, <2>1, <2>3
<1>8. CASE FlushFails
  <2>1. /\ Running /\ edit' = AfterFailure /\ failures' = failures + 1
        /\ UNCHANGED <<disk, write_cache, cached, expected, pending>>
    BY <1>8 DEF FlushFails
  <2>2. Arrive({})
    BY <1>1, <2>1 DEF Arrive, GptShape
  <2>3. ASSUME failures = 0, EditSafe PROVE EditSafe'
    <3>1. {} \in SUBSET Sectors /\ failures' = 1
      BY <2>1, <2>3
    <3> QED BY <1>1, <2>1, <2>2, <2>3, <3>1, FailureKeepsSafe
  <2> QED BY <1>6, <2>1, <2>3
<1>9. CASE Done
  <2>1. edit # Idle /\ edit' = Idle
    BY <1>9 DEF Done
  <2>2. RestSafe'
    BY <1>1, <1>3, <1>9, <2>1, DoneKeepsSafe
  <2> QED BY <1>1, <2>1, <2>2 DEF GptInv, Idle
<1>10. CASE Destage
  <2>1. UNCHANGED <<edit, failures>> /\ DOMAIN pending # {}
    BY <1>10 DEF Destage
  <2>2. edit # Idle /\ failures <= 1 => EditSafe'
    BY <1>1, <1>3, <1>10, DestageKeepsSafe
  <2>3. edit = Idle => failures # 0 /\ failures # 1
    BY <1>3, <2>1 DEF RestSafe
  <2>4. edit' = Idle => RestSafe'
    BY <2>1, <2>3 DEF RestSafe, Idle
  <2> QED BY <1>1, <2>1, <2>2, <2>4 DEF GptInv, Idle
<1>11. CASE Crash
  <2>1. edit' = Idle /\ RestSafe'
    BY <1>11, CrashKeepsSafe DEF Crash
  <2> QED BY <1>1, <2>1 DEF GptInv, Idle
<1>12. CASE MountOrUnmount \/ UNCHANGED gptVars
  <2>1. UNCHANGED <<disk, write_cache, pending, cached, edit, expected, failures, split>>
    BY <1>12 DEF MountOrUnmount, gptVars
  <2>2. RestSafe => RestSafe'
    BY <2>1 DEF RestSafe
  <2>3. EditSafe => EditSafe'
    BY <2>1 DEF EditSafe, OldOrNew, DoneRight, RestOld, OneStands, Stands, Finished, Goal
  <2> QED BY <1>1, <1>3, <2>1, <2>2, <2>3 DEF GptInv, Idle
<1> QED BY <1>4, <1>5, <1>7, <1>8, <1>9, <1>10, <1>11, <1>12 DEF GptNext, Write, Flush

(* In a state of the invariant, a scan finds an expected table.            *)
LEMMA InvIsSafe == GptInv => GptCrashSafe
<1> SUFFICES ASSUME GptInv, failures = 0 \/ (failures = 1 /\ ~write_cache)
             PROVE  Scan(disk) \in expected
  BY DEF GptCrashSafe
<1>1. CASE edit = Idle
  BY <1>1 DEF GptInv, RestSafe
<1>2. CASE edit # Idle
  <2>1. InEdit /\ EditSafe /\ GptShape
    BY <1>2 DEF GptInv, GptShape
  <2>2. edit.old \in GoodTables /\ edit.new \in GoodTables /\ edit.phase \in Phases
    BY <2>1 DEF InEdit
  <2>3. {edit.old, edit.new} \subseteq expected
    BY <2>1 DEF EditSafe
  <2>4. \A c \in Copies : disk[<<c, 0>>] \in {edit.old, edit.new}
    <3> SUFFICES ASSUME NEW c \in Copies PROVE disk[<<c, 0>>] \in {edit.old, edit.new}
      OBVIOUS
    <3>1. <<c, 0>> \in Sectors
      BY HeadersAreSectors
    <3>2. Image(edit.old)[<<c, 0>>] = edit.old /\ Image(edit.new)[<<c, 0>>] = edit.new
      BY <3>1 DEF Image
    <3> QED BY <2>1, <3>1, <3>2 DEF EditSafe, OldOrNew
  <2>5. \A c, t : Stands(c, t) => Whole(disk, c, t)
    BY DEF Stands, StandsIn, Whole
  <2>6. edit.phase = "undo_both" => ~write_cache
    BY <2>1 DEF EditSafe
  <2>7. \E c \in Copies, t \in {edit.old, edit.new} : Stands(c, t)
    <3>1. \/ Stands("primary", edit.old)
          \/ Stands("backup", edit.new)
      BY <2>1, <2>2, <2>6 DEF EditSafe, OneStands, Phases
    <3> QED BY <3>1 DEF Copies
  <2>8. Scan(disk) \in {edit.old, edit.new}
    BY <2>2, <2>4, <2>5, <2>7, OneWholeCopySuffices
  <2> QED BY <2>3, <2>8
<1> QED BY <1>1, <1>2

(* Whenever the power fails during partition_gpt_commit, and after one     *)
(* failing call on a disk without a write cache, the scan at the next      *)
(* start finds the table before the edit or the one after it.              *)
THEOREM GptEditsCorrect == GptSpec => []GptCrashSafe
<1>1. GptInv /\ [GptNext]_gptVars => GptInv'
  BY GptStep
<1> QED BY <1>1, GptInitInv, InvIsSafe, PTL DEF GptSpec

(* Whenever the invariant holds, the two copies agree between edits.       *)
LEMMA GptInvAgrees == GptInv => CopiesAgree
<1> SUFFICES ASSUME GptInv, edit = Idle, failures = 0, ~split PROVE CopiesAgree
  BY DEF CopiesAgree
<1>1. GptShape /\ RestSafe
  BY DEF GptInv
<1>2. pending = Nothing
  BY <1>1, NoneWaiting DEF RestSafe
<1> QED BY <1>1, <1>2 DEF CopiesAgree, RestSafe

(* Between edits the two copies agree, nothing waits in the write cache    *)
(* and the block cache shows what is on the disk, unless a crash has cut   *)
(* an edit short or more than one call has failed.                         *)
THEOREM GptCopiesAgree == GptSpec => []CopiesAgree
<1>1. GptInv /\ [GptNext]_gptVars => GptInv'
  BY GptStep
<1> QED BY <1>1, GptInvAgrees, GptInitInv, PTL DEF GptSpec

-----------------------------------------------------------------------------
-----------------------------------------------------------------------------
(* The scan of an old table                                                *)

(* What the scan has found; and how far it has come                        *)
FoundParts == [number : Nat, first : Nat, count : Nat]
ScanStates == [ok : BOOLEAN, found : Seq(FoundParts), ext : MbrEntries, at : Nat,
               visited : SUBSET Nat]
MbrDisks == [entries : [PrimaryNumbers -> MbrEntries],
             records : [0 .. MbrBlocks - 1 -> MbrRecords]]

FirstState == [ok |-> TRUE, found |-> << >>, ext |-> EmptyEntry, at |-> 0, visited |-> {}]

(* Turn n of the loop over the entries makes after what before was.        *)
PrimaryLoop(g, entries) ==
    /\ g[0] = FirstState
    /\ \A n \in 1 .. PrimarySlots : g[n] = ScanPrimary(g[n - 1], n, entries[n])

(* The loop over the entries of sector 0 does what its turns do.           *)
LEMMA PrimariesLoop ==
    ASSUME NEW entries
    PROVE  \E g : PrimaryLoop(g, entries) /\ ScanPrimaries(entries) = g[PrimarySlots]
<1> DEFINE Loop(g, n) ==
      g = [k \in 0 .. n |-> IF k = 0 THEN FirstState ELSE ScanPrimary(g[k - 1], k, entries[k])]
           Stuck == {n \in Nat : ~\E g : Loop(g, n)}
<1>1. Stuck = {}
  <2> SUFFICES ASSUME Stuck # {} PROVE FALSE
    OBVIOUS
  <2>1. PICK n \in Stuck : \A m \in Stuck : n <= m
    <3>1. Stuck \subseteq Nat
      OBVIOUS
    <3> HIDE DEF Stuck
    <3> QED BY <3>1, LeastNumber
  <2>2. CASE n = 0
    <3> DEFINE g == [k \in 0 .. 0 |-> FirstState]
    <3>1. Loop(g, 0)
      BY SMT
    <3> QED BY <2>2, <3>1
  <2>3. CASE n # 0
    <3>1. n \in Nat /\ n - 1 \in Nat /\ n - 1 \notin Stuck
      BY <2>1, <2>3
    <3>2. PICK g : Loop(g, n - 1)
      BY <3>1
    <3> DEFINE h == [k \in 0 .. n |-> IF k = n THEN ScanPrimary(g[n - 1], n, entries[n]) ELSE g[k]]
    <3>3. ASSUME NEW k \in 0 .. n
          PROVE  h[k] = IF k = 0 THEN FirstState ELSE ScanPrimary(h[k - 1], k, entries[k])
      BY <2>3, <3>1, <3>2
    <3>4. Loop(h, n)
      <4>1. h = [k \in 0 .. n |-> h[k]]
        OBVIOUS
      <4> HIDE DEF h
      <4> QED BY <3>3, <4>1
    <3> QED BY <3>4
  <2> QED BY <2>2, <2>3
<1>2. PrimarySlots \in Nat /\ \E g : Loop(g, PrimarySlots)
  BY <1>1, MbrAssumption
<1>3. ScanPrimaries(entries) = (CHOOSE g : Loop(g, PrimarySlots))[PrimarySlots]
  BY DEF ScanPrimaries, FirstState
<1>4. PICK g : g = CHOOSE h : Loop(h, PrimarySlots)
  OBVIOUS
<1>5. Loop(g, PrimarySlots)
  BY <1>2, <1>4
<1>6. g[0] = FirstState
  BY <1>2, <1>5
<1>7. ASSUME NEW n \in 1 .. PrimarySlots
      PROVE  g[n] = ScanPrimary(g[n - 1], n, entries[n])
  <2>1. n \in 0 .. PrimarySlots /\ n # 0
    OBVIOUS
  <2> QED BY <1>5, <2>1
<1> HIDE DEF Loop
<1> QED BY <1>3, <1>4, <1>6, <1>7 DEF PrimaryLoop

(* Turn n of the loop over the extended records likewise                   *)
ChainLoop(g, p, records) ==
    /\ g[0] = [p EXCEPT !.at = p.ext.first]
    /\ \A n \in 1 .. MaxCandidates + 1 : g[n] = ScanRecord(g[n - 1], records, PrimarySlots + n)

(* The loop over the chain does what its turns do.                         *)
LEMMA ChainIsLoop ==
    ASSUME NEW p, NEW records
    PROVE  \E g : ChainLoop(g, p, records) /\ ScanChain(p, records) = g[MaxCandidates + 1]
<1> DEFINE start == [p EXCEPT !.at = p.ext.first]
           Loop(g, n) ==
      g = [k \in 0 .. n |-> IF k = 0 THEN start ELSE ScanRecord(g[k - 1], records, PrimarySlots + k)]
           Stuck == {n \in Nat : ~\E g : Loop(g, n)}
<1>1. Stuck = {}
  <2> SUFFICES ASSUME Stuck # {} PROVE FALSE
    OBVIOUS
  <2> HIDE DEF start
  <2>1. PICK n \in Stuck : \A m \in Stuck : n <= m
    <3>1. Stuck \subseteq Nat
      OBVIOUS
    <3> HIDE DEF Stuck
    <3> QED BY <3>1, LeastNumber
  <2>2. CASE n = 0
    <3> DEFINE g == [k \in 0 .. 0 |-> start]
    <3>1. Loop(g, 0)
      BY SMT
    <3> QED BY <2>2, <3>1
  <2>3. CASE n # 0
    <3>1. n \in Nat /\ n - 1 \in Nat /\ n - 1 \notin Stuck
      <4>1. Stuck \subseteq Nat
        OBVIOUS
      <4> HIDE DEF Stuck
      <4> QED BY <2>1, <2>3, <4>1
    <3>2. PICK g : Loop(g, n - 1)
      BY <3>1
    <3> DEFINE h == [k \in 0 .. n |->
                       IF k = n THEN ScanRecord(g[n - 1], records, PrimarySlots + n) ELSE g[k]]
    <3>3. ASSUME NEW k \in 0 .. n
          PROVE  h[k] = IF k = 0 THEN start ELSE ScanRecord(h[k - 1], records, PrimarySlots + k)
      BY <2>3, <3>1, <3>2
    <3>4. Loop(h, n)
      <4>1. h = [k \in 0 .. n |-> h[k]]
        OBVIOUS
      <4> HIDE DEF h
      <4> QED BY <3>3, <4>1
    <3> QED BY <3>4
  <2> QED BY <2>2, <2>3
<1> DEFINE last == MaxCandidates + 1
<1>2. last \in Nat /\ \E g : Loop(g, last)
  BY <1>1, MbrAssumption
<1>3. ScanChain(p, records) = (CHOOSE g : Loop(g, last))[last]
  BY DEF ScanChain
<1>4. PICK g : g = CHOOSE h : Loop(h, last)
  OBVIOUS
<1>5. Loop(g, last)
  BY <1>2, <1>4
<1> HIDE DEF start, last
<1>6. g[0] = start
  BY <1>2, <1>5
<1>7. ASSUME NEW n \in 1 .. last
      PROVE  g[n] = ScanRecord(g[n - 1], records, PrimarySlots + n)
  <2>1. n \in 0 .. last /\ n # 0
    BY <1>2
  <2> QED BY <1>5, <2>1
<1> HIDE DEF Loop
<1> QED BY <1>3, <1>4, <1>6, <1>7 DEF ChainLoop, start, last

(* What the scan has found is on the disk and apart, and it was met in the *)
(* order of the numbers, none of them above n.                             *)
FoundRight(found, n) ==
    /\ found \in Seq(FoundParts)
    /\ \A i \in 1 .. Len(found) : InDisk(found[i].first, found[i].count) /\ found[i].number <= n
    /\ \A i, j \in 1 .. Len(found) :
          i < j => found[i].number < found[j].number /\ ~Overlap(found[j], found[i])

(* A found partition as the entries, or the chain of a table with an       *)
(* extended entry, gave it                                                 *)
IsPrimary(entries, p) ==
    /\ p.number \in PrimaryNumbers
    /\ entries[p.number].type \notin {"none", "protective", "extended"}
    /\ entries[p.number].first = p.first /\ entries[p.number].count = p.count
    /\ p.count # 0
IsLogical(entries, p) ==
    /\ p.number > PrimarySlots
    /\ \E k \in PrimaryNumbers : entries[k].type = "extended"
PartRight(entries, p) == IsPrimary(entries, p) \/ IsLogical(entries, p)

(* mbr_candidate_add puts a candidate on the disk and apart behind those   *)
(* there are, or fails.                                                    *)
LEMMA CandidateIs ==
    ASSUME NEW s \in ScanStates, NEW p \in FoundParts, NEW t,
           t = CandidateAdd(s, p.number, p.first, p.count)
    PROVE  /\ t \in ScanStates /\ t.ext = s.ext /\ t.at = s.at /\ t.visited = s.visited
           /\ t.ok <=> /\ s.ok /\ Len(s.found) < MaxCandidates /\ InDisk(p.first, p.count)
                       /\ \A i \in 1 .. Len(s.found) : ~Overlap(p, s.found[i])
           /\ t.found = IF t.ok THEN Append(s.found, p) ELSE s.found
<1> DEFINE fits == /\ s.ok /\ Len(s.found) < MaxCandidates /\ InDisk(p.first, p.count)
                   /\ \A i \in 1 .. Len(s.found) : ~Overlap(p, s.found[i])
<1>1. p = [number |-> p.number, first |-> p.first, count |-> p.count]
  BY DEF FoundParts
<1>2. s.found \in Seq(FoundParts) /\ DOMAIN s.found = 1 .. Len(s.found)
  BY DEF ScanStates
<1>3. t = IF fits THEN [s EXCEPT !.found = Append(@, p)] ELSE [s EXCEPT !.ok = FALSE]
  BY <1>1, <1>2, Zenon DEF CandidateAdd
<1>4. Append(s.found, p) \in Seq(FoundParts)
  BY <1>2, AppendProperties
<1>5. fits \in BOOLEAN
  OBVIOUS
<1> HIDE DEF fits
<1>6. CASE fits
  <2>1. PICK f \in Seq(FoundParts) : f = Append(s.found, p)
    BY <1>4
  <2>2. t = [s EXCEPT !.found = f]
    BY <1>3, <1>6, <2>1
  <2>3. s.ok
    BY <1>6 DEF fits
  <2>4. /\ t \in ScanStates /\ t.ext = s.ext /\ t.at = s.at /\ t.visited = s.visited
        /\ t.ok = s.ok /\ t.found = f
    BY <2>2 DEF ScanStates
  <2> QED BY <1>6, <2>1, <2>3, <2>4, Zenon DEF fits
<1>7. CASE ~fits
  <2>1. t = [s EXCEPT !.ok = FALSE]
    BY <1>3, <1>7
  <2>2. /\ t \in ScanStates /\ t.ext = s.ext /\ t.at = s.at /\ t.visited = s.visited
        /\ t.ok = FALSE /\ t.found = s.found
    BY <2>1 DEF ScanStates
  <2> QED BY <1>7, <2>2, Zenon DEF fits
<1> QED BY <1>5, <1>6, <1>7

(* A candidate that fits keeps what was found right.                       *)
LEMMA AppendRight ==
    ASSUME NEW found, NEW m \in Nat, FoundRight(found, m), NEW p \in FoundParts,
           m < p.number, InDisk(p.first, p.count),
           \A i \in 1 .. Len(found) : ~Overlap(p, found[i]),
           NEW n \in Nat, p.number <= n
    PROVE  FoundRight(Append(found, p), n)
<1>1. PICK f : f = Append(found, p)
  OBVIOUS
<1>2. PICK k \in Nat : k = Len(found)
  BY DEF FoundRight
<1>3. /\ f \in Seq(FoundParts) /\ Len(f) = k + 1 /\ f[k + 1] = p
      /\ \A i \in 1 .. k : f[i] = found[i]
  BY <1>1, <1>2, AppendProperties DEF FoundRight
<1>4. \A i \in 1 .. k : InDisk(found[i].first, found[i].count) /\ found[i].number <= m
                        /\ found[i].number \in Nat
  <2>1. found \in Seq(FoundParts)
    BY DEF FoundRight
  <2>2. \A i \in 1 .. k : found[i] \in FoundParts
    BY <1>2, <2>1
  <2>3. \A i \in 1 .. k : InDisk(found[i].first, found[i].count) /\ found[i].number <= m
    BY <1>2, Zenon DEF FoundRight
  <2> QED BY <2>2, <2>3 DEF FoundParts
<1>5. p.number \in Nat
  BY DEF FoundParts
<1>6. \A i \in 1 .. k + 1 : InDisk(f[i].first, f[i].count) /\ f[i].number <= n
  <2> TAKE i \in 1 .. k + 1
  <2>1. CASE i = k + 1
    BY <1>3, <2>1
  <2>2. CASE i # k + 1
    <3>1. i \in 1 .. k
      BY <1>2, <2>2
    <3> QED BY <1>3, <1>4, <1>5, <3>1
  <2> QED BY <2>1, <2>2
<1>7. ASSUME NEW i \in 1 .. k + 1, NEW j \in 1 .. k + 1, i < j
      PROVE  f[i].number < f[j].number /\ ~Overlap(f[j], f[i])
  <2>1. i \in 1 .. k
    BY <1>2, <1>7
  <2>2. CASE j = k + 1
    BY <1>2, <1>3, <1>4, <1>5, <2>1, <2>2
  <2>3. CASE j # k + 1
    <3>1. j \in 1 .. k
      BY <1>2, <2>3
    <3> QED BY <1>2, <1>3, <1>7, <2>1, <3>1 DEF FoundRight
  <2> QED BY <2>2, <2>3
<1>8. FoundRight(f, n)
  BY <1>2, <1>3, <1>6, <1>7 DEF FoundRight
<1> QED BY <1>1, <1>8

(* Where the scan stands when it has looked at n entries                   *)
PrimariesRight(entries, s, n) ==
    /\ s \in ScanStates /\ s.at = 0 /\ FoundRight(s.found, n)
    /\ \A i \in 1 .. Len(s.found) : IsPrimary(entries, s.found[i])
    /\ s.ext # EmptyEntry => /\ InDisk(s.ext.first, s.ext.count)
                             /\ \E k \in PrimaryNumbers : entries[k].type = "extended"

(* Nothing has been found yet.                                             *)
LEMMA FirstIsRight ==
    ASSUME NEW entries
    PROVE  PrimariesRight(entries, FirstState, 0)
<1>1. EmptyEntry \in MbrEntries
  BY DEF EmptyEntry, MbrEntry, MbrEntries
<1>2. << >> \in Seq(FoundParts) /\ Len(<< >>) = 0
  BY EmptySeq
<1>3. FirstState \in ScanStates /\ FirstState.at = 0 /\ FirstState.ext = EmptyEntry
      /\ FirstState.found = << >>
  BY <1>1, <1>2 DEF FirstState, ScanStates
<1>4. FoundRight(<< >>, 0)
  BY <1>2 DEF FoundRight
<1> QED BY <1>2, <1>3, <1>4 DEF PrimariesRight

(* The same with a higher bound                                            *)
LEMMA FoundLater ==
    ASSUME NEW found, NEW m \in Nat, FoundRight(found, m), NEW n \in Nat, m <= n
    PROVE  FoundRight(found, n)
<1>1. PICK k \in Nat : k = Len(found)
  BY DEF FoundRight
<1>2. found \in Seq(FoundParts)
  BY DEF FoundRight
<1>3. \A i \in 1 .. k : found[i] \in FoundParts
  BY <1>1, <1>2
<1>4. \A i \in 1 .. k : InDisk(found[i].first, found[i].count) /\ found[i].number <= m
  BY <1>1, Zenon DEF FoundRight
<1>5. \A i \in 1 .. k : InDisk(found[i].first, found[i].count) /\ found[i].number <= n
  BY <1>3, <1>4 DEF FoundParts
<1> QED BY <1>1, <1>5, Zenon DEF FoundRight

(* What scan_mbr makes of one entry of sector 0: it passes over it, takes  *)
(* it for the extended partition, adds it, or fails.                       *)
PrimaryOutcome(s, t, n, e) ==
    \/ t = s
    \/ /\ e.type = "extended" /\ s.ext = EmptyEntry /\ InDisk(e.first, e.count)
       /\ t = [s EXCEPT !.ext = e]
    \/ t = [s EXCEPT !.ok = FALSE]
    \/ /\ e.type \notin {"none", "protective", "extended"} /\ e.count # 0
       /\ t = CandidateAdd(s, n, e.first, e.count)

(* These are the outcomes.                                                 *)
LEMMA PrimaryOutcomes ==
    ASSUME NEW s, NEW n, NEW e, NEW t, t = ScanPrimary(s, n, e)
    PROVE  PrimaryOutcome(s, t, n, e)
<1>1. CASE e.type \in {"none", "protective"} \/ e.count = 0
  <2>1. t = s
    BY <1>1 DEF ScanPrimary
  <2> QED BY <2>1 DEF PrimaryOutcome
<1>2. CASE ~(e.type \in {"none", "protective"} \/ e.count = 0) /\ e.type = "extended"
  <2>1. t = IF s.ext = EmptyEntry /\ InDisk(e.first, e.count) THEN [s EXCEPT !.ext = e]
            ELSE [s EXCEPT !.ok = FALSE]
    BY <1>2 DEF ScanPrimary
  <2> QED BY <1>2, <2>1, Zenon DEF PrimaryOutcome
<1>3. CASE ~(e.type \in {"none", "protective"} \/ e.count = 0) /\ e.type # "extended"
  <2>1. t = CandidateAdd(s, n, e.first, e.count)
    BY <1>3 DEF ScanPrimary
  <2> QED BY <1>3, <2>1 DEF PrimaryOutcome
<1> QED BY <1>1, <1>2, <1>3

(* Each entry keeps the scan right.                                        *)
LEMMA PrimaryKeepsRight ==
    ASSUME NEW entries \in [PrimaryNumbers -> MbrEntries], NEW n \in PrimaryNumbers, NEW s,
           PrimariesRight(entries, s, n - 1)
    PROVE  PrimariesRight(entries, ScanPrimary(s, n, entries[n]), n)
<1>1. n \in Nat /\ n - 1 \in Nat /\ n - 1 < n
  BY MbrAssumption DEF PrimaryNumbers
<1>2. PICK e \in MbrEntries : e = entries[n]
  OBVIOUS
<1>3. e.first \in Nat /\ e.count \in Nat
  BY DEF MbrEntries
<1>4. PICK t : t = ScanPrimary(s, n, e)
  OBVIOUS
<1> SUFFICES PrimariesRight(entries, t, n)
  BY <1>2, <1>4
<1>5. s \in ScanStates /\ s.at = 0 /\ FoundRight(s.found, n - 1)
      /\ \A i \in 1 .. Len(s.found) : IsPrimary(entries, s.found[i])
  BY DEF PrimariesRight
<1>6. FoundRight(s.found, n)
  BY <1>1, <1>5, FoundLater
<1>7. CASE t = s
  BY <1>5, <1>6, <1>7, Zenon DEF PrimariesRight
<1>8. CASE e.type = "extended" /\ InDisk(e.first, e.count) /\ t = [s EXCEPT !.ext = e]
  <2>1. t \in ScanStates /\ t.at = s.at /\ t.found = s.found /\ t.ext = e
    BY <1>5, <1>8 DEF ScanStates
  <2>2. InDisk(t.ext.first, t.ext.count) /\ entries[n].type = "extended"
    BY <1>2, <1>8, <2>1
  <2> QED BY <1>5, <1>6, <2>1, <2>2, Zenon DEF PrimariesRight
<1>9. CASE t = [s EXCEPT !.ok = FALSE]
  <2>1. t \in ScanStates /\ t.at = s.at /\ t.found = s.found /\ t.ext = s.ext
    BY <1>5, <1>9 DEF ScanStates
  <2> QED BY <1>5, <1>6, <2>1, Zenon DEF PrimariesRight
<1>10. CASE /\ e.type \notin {"none", "protective", "extended"} /\ e.count # 0
            /\ t = CandidateAdd(s, n, e.first, e.count)
  <2>1. PICK p \in FoundParts : p.number = n /\ p.first = e.first /\ p.count = e.count
    <3>1. [number |-> n, first |-> e.first, count |-> e.count] \in FoundParts
      BY <1>1, <1>3 DEF FoundParts
    <3> QED BY <3>1
  <2>2. t = CandidateAdd(s, p.number, p.first, p.count)
    BY <1>10, <2>1
  <2>3. /\ t \in ScanStates /\ t.ext = s.ext /\ t.at = s.at /\ t.visited = s.visited
        /\ t.ok <=> /\ s.ok /\ Len(s.found) < MaxCandidates /\ InDisk(p.first, p.count)
                    /\ \A i \in 1 .. Len(s.found) : ~Overlap(p, s.found[i])
        /\ t.found = IF t.ok THEN Append(s.found, p) ELSE s.found
    <3>1. s \in ScanStates
      BY <1>5
    <3> QED BY <2>1, <2>2, <3>1, CandidateIs
  <2>4. CASE t.ok
    <3>1. FoundRight(t.found, n)
      <4>1. n - 1 < p.number /\ p.number <= n
        BY <1>1, <2>1
      <4> QED BY <1>1, <1>5, <2>3, <2>4, <4>1, AppendRight
    <3>2. IsPrimary(entries, p)
      BY <1>2, <1>10, <2>1 DEF IsPrimary
    <3>3. \A i \in 1 .. Len(t.found) : IsPrimary(entries, t.found[i])
      <4>1. PICK k \in Nat : k = Len(s.found)
        BY <1>5 DEF FoundRight
      <4>2. s.found \in Seq(FoundParts)
        BY <1>5 DEF FoundRight
      <4>3. Len(t.found) = k + 1 /\ t.found[k + 1] = p /\ \A i \in 1 .. k : t.found[i] = s.found[i]
        BY <2>3, <2>4, <4>1, <4>2, AppendProperties
      <4> TAKE i \in 1 .. Len(t.found)
      <4>4. CASE i = k + 1
        BY <3>2, <4>3, <4>4
      <4>5. CASE i # k + 1
        <5>1. i \in 1 .. k
          BY <4>1, <4>3, <4>5
        <5>2. t.found[i] = s.found[i] /\ IsPrimary(entries, s.found[i])
          BY <1>5, <4>1, <4>3, <5>1
        <5> QED BY <5>2
      <4> QED BY <4>4, <4>5
    <3> QED BY <1>5, <2>3, <3>1, <3>3, Zenon DEF PrimariesRight
  <2>5. CASE ~t.ok
    <3>1. t.found = s.found
      BY <2>3, <2>5
    <3> QED BY <1>5, <1>6, <2>3, <3>1, Zenon DEF PrimariesRight
  <2> QED BY <2>4, <2>5
<1>11. PrimaryOutcome(s, t, n, e)
  BY <1>4, PrimaryOutcomes
<1> QED BY <1>7, <1>8, <1>9, <1>10, <1>11 DEF PrimaryOutcome

(* So what the loop over the entries finds is right.                       *)
LEMMA PrimariesAreRight ==
    ASSUME NEW entries \in [PrimaryNumbers -> MbrEntries]
    PROVE  PrimariesRight(entries, ScanPrimaries(entries), PrimarySlots)
<1>1. PICK g : PrimaryLoop(g, entries) /\ ScanPrimaries(entries) = g[PrimarySlots]
  BY PrimariesLoop
<1> DEFINE Wrong == {n \in 0 .. PrimarySlots : ~PrimariesRight(entries, g[n], n)}
<1>2. Wrong = {}
  <2> SUFFICES ASSUME Wrong # {} PROVE FALSE
    OBVIOUS
  <2>1. PICK n \in Wrong : \A m \in Wrong : n <= m
    <3>1. Wrong \subseteq Nat
      BY MbrAssumption
    <3> HIDE DEF Wrong
    <3> QED BY <3>1, LeastNumber
  <2>2. n # 0
    <3>1. g[0] = FirstState
      BY <1>1 DEF PrimaryLoop
    <3> QED BY <2>1, <3>1, FirstIsRight
  <2>3. n \in PrimaryNumbers /\ n - 1 \in 0 .. PrimarySlots /\ n - 1 < n
    BY <2>1, <2>2, MbrAssumption DEF PrimaryNumbers
  <2>4. n - 1 \notin Wrong
    <3>1. n \in Nat /\ n - 1 \in Nat
      BY <2>3, MbrAssumption
    <3> HIDE DEF Wrong
    <3> QED BY <2>1, <2>3, <3>1
  <2>5. PrimariesRight(entries, g[n - 1], n - 1)
    BY <2>3, <2>4
  <2>6. g[n] = ScanPrimary(g[n - 1], n, entries[n])
    BY <1>1, <2>3 DEF PrimaryLoop, PrimaryNumbers
  <2>7. PrimariesRight(entries, g[n], n)
    BY <2>3, <2>5, <2>6, PrimaryKeepsRight
  <2> QED BY <2>1, <2>7
<1>3. PrimarySlots \in 0 .. PrimarySlots
  BY MbrAssumption
<1> QED BY <1>1, <1>2, <1>3

(* Where the scan stands when it has followed the chain for n turns        *)
ChainRight(entries, s, n) ==
    /\ s \in ScanStates /\ FoundRight(s.found, PrimarySlots + n)
    /\ \A i \in 1 .. Len(s.found) : PartRight(entries, s.found[i])
    /\ s.ext # EmptyEntry => /\ InDisk(s.ext.first, s.ext.count)
                             /\ \E k \in PrimaryNumbers : entries[k].type = "extended"

(* The logical partition of the record at s.at                             *)
LogicalPart(s, records, number) ==
    [number |-> number, first |-> s.at + records[s.at].entry.first,
     count |-> records[s.at].entry.count]

(* What scan_mbr makes of one turn of the loop over the chain: nothing     *)
(* when the chain has ended, a failure, or one more candidate.             *)
RecordOutcome(s, t, records, number) ==
    \/ t = s
    \/ t = [s EXCEPT !.ok = FALSE]
    \/ /\ s.at \in s.ext.first .. s.ext.first + s.ext.count - 1 /\ records[s.at].signed
       /\ LET p == LogicalPart(s, records, number)
          IN \E visited \in {s.visited \union {s.at}},
                at \in {0, s.ext.first + records[s.at].next.first} :
                t = [CandidateAdd(s, p.number, p.first, p.count)
                        EXCEPT !.visited = visited, !.at = at]

(* These are the outcomes.                                                 *)
LEMMA RecordOutcomes ==
    ASSUME NEW s \in ScanStates, NEW records, NEW number, NEW t,
           t = ScanRecord(s, records, number)
    PROVE  RecordOutcome(s, t, records, number)
<1> DEFINE p == LogicalPart(s, records, number)
           added == CandidateAdd(s, p.number, p.first, p.count)
           next == s.ext.first + records[s.at].next.first
           end == s.ext.first + s.ext.count - 1
<1>1. p.number = number /\ p.first = s.at + records[s.at].entry.first
      /\ p.count = records[s.at].entry.count
  BY DEF LogicalPart
<1>2. CASE ~s.ok \/ s.at = 0
  BY <1>2, Zenon DEF ScanRecord, RecordOutcome
<1>3. CASE ~(~s.ok \/ s.at = 0)
  <2>1. \/ t = [s EXCEPT !.ok = FALSE]
        \/ /\ s.at \in s.ext.first .. end /\ records[s.at].signed
           /\ \E at \in {0, next} :
                 t = [CandidateAdd(s, number, s.at + records[s.at].entry.first,
                                   records[s.at].entry.count)
                        EXCEPT !.visited = @ \union {s.at}, !.at = at]
    BY <1>3, Zenon DEF ScanRecord
  <2>2. CASE t = [s EXCEPT !.ok = FALSE]
    BY <2>2 DEF RecordOutcome
  <2>3. CASE /\ s.at \in s.ext.first .. end /\ records[s.at].signed
             /\ \E at \in {0, next} : t = [added EXCEPT !.visited = @ \union {s.at}, !.at = at]
    <3>1. PICK at \in {0, next} : t = [added EXCEPT !.visited = @ \union {s.at}, !.at = at]
      BY <2>3
    <3>2. added.visited = s.visited
      BY Zenon DEF CandidateAdd, ScanStates
    <3>3. t = [added EXCEPT !.visited = s.visited \union {s.at}, !.at = at]
      BY <3>1, <3>2
    <3> QED BY <2>3, <3>1, <3>3, Zenon DEF RecordOutcome
  <2> QED BY <1>1, <2>1, <2>2, <2>3
<1> QED BY <1>2, <1>3

(* The last block of a piece of a disk is on the disk.                     *)
LEMMA LastWithin ==
    ASSUME NEW b \in Nat, NEW f \in Nat, NEW c \in Nat, NEW a \in Nat,
           f < b, c <= b - f, a <= f + c - 1
    PROVE  a \in 0 .. b - 1
  OBVIOUS

(* A turn keeps the scan right.                                            *)
LEMMA RecordKeepsRight ==
    ASSUME NEW entries, NEW records \in [0 .. MbrBlocks - 1 -> MbrRecords],
           NEW n \in Nat \ {0}, NEW s, ChainRight(entries, s, n - 1)
    PROVE  ChainRight(entries, ScanRecord(s, records, PrimarySlots + n), n)
<1>1. /\ n \in Nat /\ n - 1 \in Nat /\ PrimarySlots \in Nat
      /\ PrimarySlots + n \in Nat /\ PrimarySlots + (n - 1) \in Nat
      /\ PrimarySlots + (n - 1) < PrimarySlots + n /\ PrimarySlots + n > PrimarySlots
  BY MbrAssumption
<1>2. PICK number \in Nat : number = PrimarySlots + n
  BY <1>1
<1>3. PICK before \in Nat : before = PrimarySlots + (n - 1)
  BY <1>1
<1>4. PICK t : t = ScanRecord(s, records, number)
  OBVIOUS
<1> SUFFICES ChainRight(entries, t, n)
  BY <1>2, <1>4
<1>5. s \in ScanStates /\ FoundRight(s.found, before)
      /\ \A i \in 1 .. Len(s.found) : PartRight(entries, s.found[i])
  BY <1>3 DEF ChainRight
<1>6. FoundRight(s.found, number)
  BY <1>1, <1>2, <1>3, <1>5, FoundLater
<1>7. s.ext # EmptyEntry => /\ InDisk(s.ext.first, s.ext.count)
                            /\ \E k \in PrimaryNumbers : entries[k].type = "extended"
  BY Zenon DEF ChainRight
<1>8. CASE t = s
  BY <1>2, <1>5, <1>6, <1>7, <1>8, Zenon DEF ChainRight
<1>9. CASE t = [s EXCEPT !.ok = FALSE]
  <2>1. t \in ScanStates /\ t.found = s.found /\ t.ext = s.ext
    BY <1>5, <1>9 DEF ScanStates
  <2> QED BY <1>2, <1>5, <1>6, <1>7, <2>1, Zenon DEF ChainRight
<1>10. ASSUME s.at \in s.ext.first .. s.ext.first + s.ext.count - 1, records[s.at].signed,
              NEW p, p = LogicalPart(s, records, number),
              NEW visited, visited = s.visited \union {s.at},
              NEW at \in {0, s.ext.first + records[s.at].next.first},
              t = [CandidateAdd(s, p.number, p.first, p.count) EXCEPT !.visited = visited, !.at = at]
       PROVE  ChainRight(entries, t, n)
  <2>1. s.ext \in MbrEntries /\ s.at \in Nat /\ s.visited \subseteq Nat
    BY <1>5 DEF ScanStates
  <2>2. s.ext.first \in Nat /\ s.ext.count \in Nat
    BY <2>1 DEF MbrEntries
  <2>3. s.ext # EmptyEntry
    <3>1. s.ext.first # 0 \/ s.ext.count # 0
      BY <1>10, <2>1, <2>2
    <3>2. EmptyEntry.first = 0 /\ EmptyEntry.count = 0
      BY DEF EmptyEntry, MbrEntry
    <3> QED BY <3>1, <3>2
  <2>4. s.at \in 0 .. MbrBlocks - 1
    <3>1. MbrBlocks \in Nat /\ s.ext.first < MbrBlocks /\ s.ext.count <= MbrBlocks - s.ext.first
      BY <1>7, <2>3, MbrAssumption DEF InDisk
    <3>2. s.ext.first <= s.at /\ s.at <= s.ext.first + s.ext.count - 1
      BY <1>10, <2>1, <2>2
    <3> QED BY <2>1, <2>2, <3>1, <3>2, LastWithin
  <2>5. PICK r \in [signed : {TRUE}, entry : MbrEntries, next : MbrEntries] : r = records[s.at]
    <3>1. records[s.at] \in MbrRecords
      BY <2>4
    <3>2. NoRecord.signed = FALSE
      BY DEF NoRecord
    <3>3. records[s.at] # NoRecord
      BY <1>10, <3>2
    <3> QED BY <3>1, <3>3 DEF MbrRecords
  <2>6. r.entry.first \in Nat /\ r.entry.count \in Nat /\ r.next.first \in Nat
    BY <2>5 DEF MbrEntries
  <2>7. p \in FoundParts /\ p.number = number
    <3>1. p = [number |-> number, first |-> s.at + r.entry.first, count |-> r.entry.count]
      BY <1>10, <2>5 DEF LogicalPart
    <3>2. s.at + r.entry.first \in Nat
      BY <2>1, <2>6
    <3> QED BY <2>6, <3>1, <3>2 DEF FoundParts
  <2>8. at \in Nat
    <3>1. PICK x \in Nat : x = s.ext.first + records[s.at].next.first
      BY <2>2, <2>5, <2>6
    <3>2. at = 0 \/ at = x
      BY <1>10, <3>1
    <3> QED BY <3>1, <3>2
  <2>9. PICK a : a = CandidateAdd(s, p.number, p.first, p.count)
    OBVIOUS
  <2>10. /\ a \in ScanStates /\ a.ext = s.ext /\ a.at = s.at /\ a.visited = s.visited
         /\ a.ok <=> /\ s.ok /\ Len(s.found) < MaxCandidates /\ InDisk(p.first, p.count)
                     /\ \A i \in 1 .. Len(s.found) : ~Overlap(p, s.found[i])
         /\ a.found = IF a.ok THEN Append(s.found, p) ELSE s.found
    <3>1. s \in ScanStates
      BY <1>5
    <3> QED BY <2>7, <2>9, <3>1, CandidateIs
  <2>11. t \in ScanStates /\ t.found = a.found /\ t.ext = s.ext
    <3>1. t = [a EXCEPT !.visited = visited, !.at = at]
      BY <1>10, <2>9
    <3>2. visited \in SUBSET Nat
      BY <1>10, <2>1
    <3> QED BY <2>8, <2>10, <3>1, <3>2 DEF ScanStates
  <2>12. CASE a.ok
    <3>1. FoundRight(a.found, number)
      <4>1. before < p.number /\ p.number <= number
        BY <1>1, <1>2, <1>3, <2>7
      <4> QED BY <1>5, <2>7, <2>10, <2>12, <4>1, AppendRight
    <3>2. PartRight(entries, p)
      BY <1>1, <1>2, <1>7, <2>3, <2>7 DEF PartRight, IsLogical
    <3>3. \A i \in 1 .. Len(a.found) : PartRight(entries, a.found[i])
      <4>1. PICK k \in Nat : k = Len(s.found)
        BY <1>5 DEF FoundRight
      <4>2. s.found \in Seq(FoundParts)
        BY <1>5 DEF FoundRight
      <4>3. Len(a.found) = k + 1 /\ a.found[k + 1] = p /\ \A i \in 1 .. k : a.found[i] = s.found[i]
        BY <2>7, <2>10, <2>12, <4>1, <4>2, AppendProperties
      <4> TAKE i \in 1 .. Len(a.found)
      <4>4. CASE i = k + 1
        BY <3>2, <4>3, <4>4
      <4>5. CASE i # k + 1
        <5>1. i \in 1 .. k
          BY <4>1, <4>3, <4>5
        <5>2. a.found[i] = s.found[i] /\ PartRight(entries, s.found[i])
          BY <1>5, <4>1, <4>3, <5>1
        <5> QED BY <5>2
      <4> QED BY <4>4, <4>5
    <3> QED BY <1>2, <1>7, <2>11, <3>1, <3>3, Zenon DEF ChainRight
  <2>13. CASE ~a.ok
    <3>1. a.found = s.found
      BY <2>10, <2>13
    <3> QED BY <1>2, <1>5, <1>6, <1>7, <2>11, <3>1, Zenon DEF ChainRight
  <2> QED BY <2>12, <2>13
<1>11. RecordOutcome(s, t, records, number)
  BY <1>4, <1>5, RecordOutcomes
<1>12. CASE /\ s.at \in s.ext.first .. s.ext.first + s.ext.count - 1 /\ records[s.at].signed
            /\ LET p == LogicalPart(s, records, number)
               IN \E visited \in {s.visited \union {s.at}},
                     at \in {0, s.ext.first + records[s.at].next.first} :
                     t = [CandidateAdd(s, p.number, p.first, p.count)
                             EXCEPT !.visited = visited, !.at = at]
  BY <1>10, <1>12
<1> QED BY <1>8, <1>9, <1>11, <1>12, Zenon DEF RecordOutcome

(* So what the whole scan finds is right.                                  *)
LEMMA ScanIsRight ==
    ASSUME NEW d \in MbrDisks
    PROVE  LET found == ScanMbr(d).found
           IN \E n \in Nat : /\ FoundRight(found, n)
                             /\ \A i \in 1 .. Len(found) : PartRight(d.entries, found[i])
<1>1. d.entries \in [PrimaryNumbers -> MbrEntries]
      /\ d.records \in [0 .. MbrBlocks - 1 -> MbrRecords]
  BY DEF MbrDisks
<1>2. PICK p : p = ScanPrimaries(d.entries)
  OBVIOUS
<1>3. PrimariesRight(d.entries, p, PrimarySlots)
  BY <1>1, <1>2, PrimariesAreRight
<1>4. PICK clear \in BOOLEAN :
         clear = (\A i \in DOMAIN p.found : p.ext = EmptyEntry \/ ~Overlap(p.ext, p.found[i]))
  OBVIOUS
<1>5. PICK q : q = [p EXCEPT !.ok = @ /\ clear]
  OBVIOUS
<1>6. PICK all : all = ScanChain(q, d.records)
  OBVIOUS
<1>7. \/ ScanMbr(d) = [ok |-> TRUE, found |-> all.found]
      \/ ScanMbr(d) = NothingFound
  BY <1>2, <1>4, <1>5, <1>6, Zenon DEF ScanMbr
<1>8. PICK g : ChainLoop(g, q, d.records) /\ all = g[MaxCandidates + 1]
  BY <1>6, ChainIsLoop
<1>9. ChainRight(d.entries, g[0], 0)
  <2>1. PICK o : o = g[0]
    OBVIOUS
  <2>2. o = [q EXCEPT !.at = q.ext.first]
    BY <1>8, <2>1 DEF ChainLoop
  <2>3. p \in ScanStates /\ FoundRight(p.found, PrimarySlots)
        /\ (\A i \in 1 .. Len(p.found) : IsPrimary(d.entries, p.found[i]))
        /\ (p.ext # EmptyEntry => /\ InDisk(p.ext.first, p.ext.count)
                             /\ \E k \in PrimaryNumbers : d.entries[k].type = "extended")
    BY <1>3, Zenon DEF PrimariesRight
  <2>4. q \in ScanStates /\ q.found = p.found /\ q.ext = p.ext /\ q.ext.first \in Nat
    BY <1>5, <2>3 DEF ScanStates, MbrEntries
  <2>5. o \in ScanStates /\ o.found = p.found /\ o.ext = p.ext
    BY <2>2, <2>4 DEF ScanStates
  <2>6. PrimarySlots + 0 = PrimarySlots
    BY MbrAssumption
  <2> QED BY <2>1, <2>3, <2>5, <2>6, Zenon DEF ChainRight, PartRight
<1> DEFINE Wrong == {n \in 0 .. MaxCandidates + 1 : ~ChainRight(d.entries, g[n], n)}
<1>10. Wrong = {}
  <2> SUFFICES ASSUME Wrong # {} PROVE FALSE
    OBVIOUS
  <2>1. PICK n \in Wrong : \A m \in Wrong : n <= m
    <3>1. Wrong \subseteq Nat
      BY MbrAssumption
    <3> HIDE DEF Wrong
    <3> QED BY <3>1, LeastNumber
  <2>2. n # 0
    BY <1>9, <2>1
  <2>3. n \in 1 .. MaxCandidates + 1 /\ n - 1 \in 0 .. MaxCandidates + 1 /\ n - 1 < n
        /\ n \in Nat \ {0} /\ n - 1 \in Nat
    BY <2>1, <2>2, MbrAssumption
  <2>4. n - 1 \notin Wrong
    <3> HIDE DEF Wrong
    <3> QED BY <2>1, <2>3
  <2>5. ChainRight(d.entries, g[n - 1], n - 1)
    BY <2>3, <2>4
  <2>6. g[n] = ScanRecord(g[n - 1], d.records, PrimarySlots + n)
    BY <1>8, <2>3 DEF ChainLoop
  <2>7. ChainRight(d.entries, g[n], n)
    BY <1>1, <2>3, <2>5, <2>6, RecordKeepsRight
  <2> QED BY <2>1, <2>7
<1>11. ChainRight(d.entries, all, MaxCandidates + 1)
  <2>1. MaxCandidates + 1 \in 0 .. MaxCandidates + 1
    BY MbrAssumption
  <2> QED BY <1>8, <1>10, <2>1
<1>12. CASE ScanMbr(d) = [ok |-> TRUE, found |-> all.found]
  <2>1. ScanMbr(d).found = all.found
    BY <1>12
  <2>2. PrimarySlots + (MaxCandidates + 1) \in Nat
    BY MbrAssumption
  <2>3. FoundRight(all.found, PrimarySlots + (MaxCandidates + 1))
        /\ \A i \in 1 .. Len(all.found) : PartRight(d.entries, all.found[i])
    BY <1>11 DEF ChainRight
  <2> QED BY <2>1, <2>2, <2>3
<1>13. CASE ScanMbr(d) = NothingFound
  <2>1. ScanMbr(d).found = << >>
    BY <1>13 DEF NothingFound
  <2>2. << >> \in Seq(FoundParts) /\ Len(<< >>) = 0
    BY EmptySeq
  <2>3. FoundRight(<< >>, 0)
    BY <2>2 DEF FoundRight
  <2> QED BY <2>1, <2>2, <2>3
<1> QED BY <1>7, <1>12, <1>13

(* ScanSound of any disk                                                   *)
LEMMA FoundIsSound ==
    ASSUME NEW d \in MbrDisks, NEW p \in Found(d), NEW q \in Found(d)
    PROVE  /\ Span(p) \subseteq 1 .. MbrBlocks - 1
           /\ p # q => Span(p) \intersect Span(q) = {} /\ p.number # q.number
<1>1. PICK found : found = ScanMbr(d).found
  OBVIOUS
<1>2. PICK n \in Nat : FoundRight(found, n)
  BY <1>1, ScanIsRight
<1>3. PICK l \in Nat : l = Len(found)
  BY <1>2 DEF FoundRight
<1>4. found \in Seq(FoundParts) /\ DOMAIN found = 1 .. l
  BY <1>2, <1>3 DEF FoundRight
<1>5. Found(d) = {found[i] : i \in 1 .. l}
  BY <1>1, <1>4 DEF Found
<1>6. PICK i \in 1 .. l, j \in 1 .. l : p = found[i] /\ q = found[j]
  BY <1>5
<1>7. p \in FoundParts /\ q \in FoundParts
  BY <1>3, <1>4, <1>6
<1>8. PICK a \in Nat, b \in Nat, c \in Nat, e \in Nat :
         a = p.first /\ b = p.count /\ c = q.first /\ e = q.count
  BY <1>7 DEF FoundParts
<1>9. p.number \in Nat /\ q.number \in Nat
  BY <1>7 DEF FoundParts
<1>10. InDisk(a, b) /\ InDisk(c, e)
  BY <1>2, <1>3, <1>6, <1>8 DEF FoundRight
<1>11. a # 0 /\ b # 0 /\ a < MbrBlocks /\ b <= MbrBlocks - a
  BY <1>10 DEF InDisk
<1>12. Span(p) = a .. a + b - 1 /\ Span(q) = c .. c + e - 1
  BY <1>8 DEF Span
<1>13. a .. a + b - 1 \subseteq 1 .. MbrBlocks - 1
  <2> SUFFICES ASSUME NEW x \in a .. a + b - 1 PROVE x \in 1 .. MbrBlocks - 1
    OBVIOUS
  <2>1. x \in Nat /\ a <= x /\ x <= a + b - 1
    BY <1>8
  <2>2. MbrBlocks \in Nat
    BY MbrAssumption
  <2>3. x \in 0 .. MbrBlocks - 1
    BY <1>8, <1>11, <2>1, <2>2, LastWithin
  <2>4. x # 0
    BY <1>8, <1>11, <2>1
  <2> QED BY <2>2, <2>3, <2>4
<1>14. ASSUME i # j
       PROVE  Span(p) \intersect Span(q) = {} /\ p.number # q.number
  <2>1. CASE i < j
    <3>1. p.number < q.number /\ ~Overlap(q, p)
      BY <1>2, <1>3, <1>6, <2>1 DEF FoundRight
    <3>2. ~(c <= a + b - 1 /\ a <= c + e - 1)
      BY <1>8, <3>1 DEF Overlap
    <3>3. (a .. a + b - 1) \intersect (c .. c + e - 1) = {}
      BY <1>8, <3>2
    <3>4. p.number # q.number
      BY <1>9, <3>1
    <3> QED BY <1>12, <3>3, <3>4
  <2>2. CASE j < i
    <3>1. q.number < p.number /\ ~Overlap(p, q)
      BY <1>2, <1>3, <1>6, <2>2 DEF FoundRight
    <3>2. ~(a <= c + e - 1 /\ c <= a + b - 1)
      BY <1>8, <3>1 DEF Overlap
    <3>3. (a .. a + b - 1) \intersect (c .. c + e - 1) = {}
      BY <1>8, <3>2
    <3>4. p.number # q.number
      BY <1>9, <3>1
    <3> QED BY <1>12, <3>3, <3>4
  <2> QED BY <1>3, <1>14, <2>1, <2>2
<1> QED BY <1>6, <1>12, <1>13, <1>14

-----------------------------------------------------------------------------
(* The edits of an old table                                               *)

(* The first n entries that are in use, and an entry as the scan names it  *)
UsedUpTo(entries, n) == {k \in 1 .. n : entries[k].type # "none"}
EntryPart(entries, k) == [number |-> k, first |-> entries[k].first, count |-> entries[k].count]

(* A table that passes the checks of partition_mbr_commit                  *)
EditableTable(entries) ==
    /\ entries \in [PrimaryNumbers -> MbrEntries]
    /\ MbrTableValid(entries)

(* Each entry of such a table is empty, or a partition on the disk, apart  *)
(* from the others; and there are not too many.                            *)
LEMMA EditableMeans ==
    ASSUME NEW entries, EditableTable(entries)
    PROVE  /\ \A k \in PrimaryNumbers : entries[k].type \in {"none", "data"}
           /\ \A k \in UsedUpTo(entries, PrimarySlots) : InDisk(entries[k].first, entries[k].count)
           /\ \A k, l \in UsedUpTo(entries, PrimarySlots) :
                 k # l => ~Overlap(entries[k], entries[l])
           /\ \A k \in PrimaryNumbers : entries[k].type = "none" => entries[k].count = 0
           /\ Cardinality(UsedUpTo(entries, PrimarySlots)) <= MaxCandidates
<1> DEFINE used == {n \in PrimaryNumbers : entries[n].type # "none" \/ entries[n].count # 0}
<1>1. /\ \A n \in used : /\ entries[n].type \notin {"none", "protective", "extended"}
                         /\ InDisk(entries[n].first, entries[n].count)
      /\ \A n, k \in used : n # k => ~Overlap(entries[n], entries[k])
      /\ Cardinality(used) <= MaxCandidates
  BY DEF EditableTable, MbrTableValid
<1>2. \A k \in PrimaryNumbers : entries[k].type \in {"none", "data", "extended", "protective"}
  BY DEF EditableTable, MbrEntries
<1>3. used = UsedUpTo(entries, PrimarySlots)
  <2>1. \A n \in used : n \in UsedUpTo(entries, PrimarySlots)
    BY <1>1 DEF UsedUpTo, PrimaryNumbers
  <2>2. \A n \in UsedUpTo(entries, PrimarySlots) : n \in used
    BY DEF UsedUpTo, PrimaryNumbers
  <2> QED BY <2>1, <2>2
<1>4. \A k \in PrimaryNumbers : k \notin used => entries[k].type = "none" /\ entries[k].count = 0
  OBVIOUS
<1>5. \A k \in PrimaryNumbers : entries[k].type \in {"none", "data"}
  BY <1>1, <1>2, <1>4
<1>6. \A k \in PrimaryNumbers : entries[k].type = "none" => entries[k].count = 0
  BY <1>1
<1> HIDE DEF used
<1> QED BY <1>1, <1>3, <1>5, <1>6

(* What the scan has made of the first n entries of such a table           *)
AllFound(entries, s, n) ==
    /\ s \in ScanStates /\ s.ok /\ s.ext = EmptyEntry /\ s.at = 0
    /\ Len(s.found) = Cardinality(UsedUpTo(entries, n))
    /\ {s.found[i] : i \in 1 .. Len(s.found)} = {EntryPart(entries, k) : k \in UsedUpTo(entries, n)}

(* The scan finds every entry of such a table.                             *)
LEMMA EntryIsFound ==
    ASSUME NEW entries, EditableTable(entries), NEW n \in PrimaryNumbers, NEW s,
           AllFound(entries, s, n - 1)
    PROVE  AllFound(entries, ScanPrimary(s, n, entries[n]), n)
<1>1. n \in Nat /\ n - 1 \in Nat /\ PrimarySlots \in Nat /\ n <= PrimarySlots
      /\ 1 .. n - 1 \subseteq PrimaryNumbers /\ n \notin 1 .. n - 1
      /\ 1 .. n = (1 .. n - 1) \union {n}
  BY MbrAssumption DEF PrimaryNumbers
<1>2. PICK e \in MbrEntries : e = entries[n]
  BY DEF EditableTable
<1>3. e.first \in Nat /\ e.count \in Nat
  BY DEF MbrEntries
<1>4. PICK t : t = ScanPrimary(s, n, e)
  OBVIOUS
<1> SUFFICES AllFound(entries, t, n)
  BY <1>2, <1>4
<1>5. /\ s \in ScanStates /\ s.ok /\ s.ext = EmptyEntry /\ s.at = 0
      /\ Len(s.found) = Cardinality(UsedUpTo(entries, n - 1))
      /\ {s.found[i] : i \in 1 .. Len(s.found)}
            = {EntryPart(entries, k) : k \in UsedUpTo(entries, n - 1)}
  BY Zenon DEF AllFound
<1>6. e.type \in {"none", "data"} /\ (e.type = "none" => e.count = 0)
  BY <1>2, EditableMeans
<1>7. CASE e.type = "none"
  <2>1. t = s
    BY <1>4, <1>7 DEF ScanPrimary
  <2>2. UsedUpTo(entries, n) = UsedUpTo(entries, n - 1)
    BY <1>1, <1>2, <1>7 DEF UsedUpTo
  <2> QED BY <1>5, <2>1, <2>2, Zenon DEF AllFound
<1>8. CASE e.type = "data"
  <2>1. UsedUpTo(entries, n) = UsedUpTo(entries, n - 1) \union {n}
        /\ n \notin UsedUpTo(entries, n - 1)
    BY <1>1, <1>2, <1>8 DEF UsedUpTo
  <2>2. UsedUpTo(entries, n) \subseteq UsedUpTo(entries, PrimarySlots)
    BY <1>1 DEF UsedUpTo
  <2>3. IsFiniteSet(UsedUpTo(entries, PrimarySlots)) /\ IsFiniteSet(UsedUpTo(entries, n))
        /\ IsFiniteSet(UsedUpTo(entries, n - 1))
    <3>1. IsFiniteSet(1 .. PrimarySlots) /\ IsFiniteSet(1 .. n) /\ IsFiniteSet(1 .. n - 1)
      BY <1>1, FS_Interval
    <3> QED BY <3>1, FS_Subset DEF UsedUpTo
  <2>4. Cardinality(UsedUpTo(entries, n)) = Cardinality(UsedUpTo(entries, n - 1)) + 1
    BY <2>1, <2>3, FS_AddElement
  <2>5. Cardinality(UsedUpTo(entries, n)) <= Cardinality(UsedUpTo(entries, PrimarySlots))
    BY <2>2, <2>3, FS_Subset
  <2>6. Cardinality(UsedUpTo(entries, PrimarySlots)) <= MaxCandidates
    BY EditableMeans
  <2>7. PICK l \in Nat : l = Len(s.found)
    BY <1>5 DEF ScanStates
  <2>8. l < MaxCandidates
    <3>1. /\ Cardinality(UsedUpTo(entries, n)) \in Nat
          /\ Cardinality(UsedUpTo(entries, PrimarySlots)) \in Nat
      BY <2>3, FS_CardinalityType
    <3> QED BY <1>5, <2>4, <2>5, <2>6, <2>7, <3>1, MbrAssumption
  <2>9. n \in UsedUpTo(entries, PrimarySlots)
    BY <2>1, <2>2
  <2>10. InDisk(e.first, e.count)
    BY <1>2, <2>9, EditableMeans
  <2>11. PICK p \in FoundParts :
            p = EntryPart(entries, n) /\ p.number = n /\ p.first = e.first /\ p.count = e.count
    <3>1. EntryPart(entries, n) = [number |-> n, first |-> e.first, count |-> e.count]
      BY <1>2 DEF EntryPart
    <3>2. EntryPart(entries, n) \in FoundParts
      BY <1>1, <1>3, <3>1 DEF FoundParts
    <3> QED BY <3>1, <3>2
  <2>12. ASSUME NEW i \in 1 .. l
         PROVE  ~Overlap(p, s.found[i])
    <3>1. PICK k \in UsedUpTo(entries, n - 1) : s.found[i] = EntryPart(entries, k)
      BY <1>5, <2>7
    <3>2. k \in UsedUpTo(entries, PrimarySlots) /\ k # n
      BY <2>1, <2>2, <3>1
    <3>3. ~Overlap(entries[n], entries[k])
      BY <2>9, <3>2, EditableMeans
    <3>4. s.found[i].first = entries[k].first /\ s.found[i].count = entries[k].count
      BY <3>1 DEF EntryPart
    <3> QED BY <1>2, <2>11, <3>3, <3>4 DEF Overlap
  <2>13. t = CandidateAdd(s, p.number, p.first, p.count)
    <3>1. e.count # 0
      BY <2>10 DEF InDisk
    <3>2. t = CandidateAdd(s, n, e.first, e.count)
      BY <1>4, <1>8, <3>1 DEF ScanPrimary
    <3> QED BY <2>11, <3>2
  <2>14. /\ t \in ScanStates /\ t.ext = s.ext /\ t.at = s.at /\ t.visited = s.visited
         /\ t.ok <=> /\ s.ok /\ Len(s.found) < MaxCandidates /\ InDisk(p.first, p.count)
                     /\ \A i \in 1 .. Len(s.found) : ~Overlap(p, s.found[i])
         /\ t.found = IF t.ok THEN Append(s.found, p) ELSE s.found
    <3>1. s \in ScanStates
      BY <1>5
    <3> QED BY <2>11, <2>13, <3>1, CandidateIs
  <2>15. InDisk(p.first, p.count)
    BY <2>10, <2>11
  <2>16. t.ok /\ t.found = Append(s.found, p)
    BY <1>5, <2>7, <2>8, <2>12, <2>14, <2>15
  <2>17. s.found \in Seq(FoundParts)
    BY <1>5 DEF ScanStates
  <2>18. Len(t.found) = l + 1 /\ t.found[l + 1] = p /\ \A i \in 1 .. l : t.found[i] = s.found[i]
    BY <2>7, <2>11, <2>16, <2>17, AppendProperties
  <2>19. {t.found[i] : i \in 1 .. l + 1} = {s.found[i] : i \in 1 .. l} \union {p}
    <3>1. 1 .. l + 1 = (1 .. l) \union {l + 1}
      BY <2>7
    <3> QED BY <2>18, <3>1
  <2>20. {EntryPart(entries, k) : k \in UsedUpTo(entries, n)}
            = {EntryPart(entries, k) : k \in UsedUpTo(entries, n - 1)} \union {p}
    BY <2>1, <2>11
  <2>21. Len(t.found) = Cardinality(UsedUpTo(entries, n))
    BY <1>5, <2>4, <2>7, <2>18
  <2> QED BY <1>5, <2>7, <2>14, <2>16, <2>18, <2>19, <2>20, <2>21, Zenon DEF AllFound
<1> QED BY <1>6, <1>7, <1>8

(* All of them, when the loop over the entries has ended                   *)
LEMMA EntriesAreFound ==
    ASSUME NEW entries, EditableTable(entries)
    PROVE  AllFound(entries, ScanPrimaries(entries), PrimarySlots)
<1>1. PICK g : PrimaryLoop(g, entries) /\ ScanPrimaries(entries) = g[PrimarySlots]
  BY PrimariesLoop
<1> DEFINE Wrong == {n \in 0 .. PrimarySlots : ~AllFound(entries, g[n], n)}
<1>2. AllFound(entries, g[0], 0)
  <2>1. g[0] = FirstState
    BY <1>1 DEF PrimaryLoop
  <2>2. FirstState \in ScanStates
    BY FirstIsRight DEF PrimariesRight
  <2>3. UsedUpTo(entries, 0) = {}
    BY DEF UsedUpTo
  <2>4. Cardinality(UsedUpTo(entries, 0)) = 0
    BY <2>3, FS_EmptySet
  <2>5. FirstState.ok /\ FirstState.ext = EmptyEntry /\ FirstState.at = 0 /\ FirstState.found = << >>
    BY DEF FirstState
  <2>6. Len(<< >>) = 0
    BY EmptySeq
  <2>7. {FirstState.found[i] : i \in 1 .. Len(FirstState.found)} = {}
    BY <2>5, <2>6
  <2>8. {EntryPart(entries, k) : k \in UsedUpTo(entries, 0)} = {}
    BY <2>3
  <2> QED BY <2>1, <2>2, <2>4, <2>5, <2>6, <2>7, <2>8 DEF AllFound
<1>3. Wrong = {}
  <2> SUFFICES ASSUME Wrong # {} PROVE FALSE
    OBVIOUS
  <2>1. PICK n \in Wrong : \A m \in Wrong : n <= m
    <3>1. Wrong \subseteq Nat
      BY MbrAssumption
    <3> HIDE DEF Wrong
    <3> QED BY <3>1, LeastNumber
  <2>2. n # 0
    BY <1>2, <2>1
  <2>3. n \in PrimaryNumbers /\ n - 1 \in 0 .. PrimarySlots /\ n - 1 < n /\ n \in Nat
    BY <2>1, <2>2, MbrAssumption DEF PrimaryNumbers
  <2>4. n - 1 \notin Wrong
    <3>1. n - 1 \in Nat
      BY <2>3, MbrAssumption
    <3> HIDE DEF Wrong
    <3> QED BY <2>1, <2>3, <3>1
  <2>5. AllFound(entries, g[n - 1], n - 1)
    BY <2>3, <2>4
  <2>6. g[n] = ScanPrimary(g[n - 1], n, entries[n])
    BY <1>1, <2>3 DEF PrimaryLoop, PrimaryNumbers
  <2>7. AllFound(entries, g[n], n)
    BY <2>3, <2>5, <2>6, EntryIsFound
  <2> QED BY <2>1, <2>7
<1>4. PrimarySlots \in 0 .. PrimarySlots
  BY MbrAssumption
<1> QED BY <1>1, <1>3, <1>4

(* Without an extended partition there is no chain.                        *)
LEMMA NoChain ==
    ASSUME NEW s, NEW records, s.at = 0, s.ext = EmptyEntry, s \in ScanStates
    PROVE  ScanChain(s, records) = s
<1>1. PICK g : ChainLoop(g, s, records) /\ ScanChain(s, records) = g[MaxCandidates + 1]
  BY ChainIsLoop
<1>2. g[0] = s
  <2>1. g[0] = [s EXCEPT !.at = s.ext.first]
    BY <1>1 DEF ChainLoop
  <2>2. s.ext.first = 0
    BY DEF EmptyEntry, MbrEntry
  <2>3. [s EXCEPT !.at = 0] = s
    BY DEF ScanStates
  <2> QED BY <2>1, <2>2, <2>3
<1> DEFINE Wrong == {n \in 0 .. MaxCandidates + 1 : g[n] # s}
<1>3. Wrong = {}
  <2> SUFFICES ASSUME Wrong # {} PROVE FALSE
    OBVIOUS
  <2>1. PICK n \in Wrong : \A m \in Wrong : n <= m
    <3>1. Wrong \subseteq Nat
      BY MbrAssumption
    <3> HIDE DEF Wrong
    <3> QED BY <3>1, LeastNumber
  <2>2. n # 0
    BY <1>2, <2>1
  <2>3. n \in 1 .. MaxCandidates + 1 /\ n - 1 \in 0 .. MaxCandidates + 1 /\ n - 1 < n
        /\ n \in Nat /\ n - 1 \in Nat
    BY <2>1, <2>2, MbrAssumption
  <2>4. n - 1 \notin Wrong
    <3> HIDE DEF Wrong
    <3> QED BY <2>1, <2>3
  <2>5. g[n - 1] = s
    BY <2>3, <2>4
  <2>6. g[n] = ScanRecord(s, records, PrimarySlots + n)
    BY <1>1, <2>3, <2>5 DEF ChainLoop
  <2>7. g[n] = s
    BY <2>6, Zenon DEF ScanRecord
  <2> QED BY <2>1, <2>7
<1>4. MaxCandidates + 1 \in 0 .. MaxCandidates + 1
  BY MbrAssumption
<1> QED BY <1>1, <1>3, <1>4

(* What the scan finds on a disk with a table that passes the checks       *)
LEMMA EditableIsFound ==
    ASSUME NEW d \in MbrDisks, EditableTable(d.entries)
    PROVE  Found(d) = {EntryPart(d.entries, k) : k \in UsedUpTo(d.entries, PrimarySlots)}
<1>1. PICK p : p = ScanPrimaries(d.entries)
  OBVIOUS
<1>2. AllFound(d.entries, p, PrimarySlots)
  BY <1>1, EntriesAreFound
<1>3. /\ p \in ScanStates /\ p.ok /\ p.ext = EmptyEntry /\ p.at = 0
      /\ {p.found[i] : i \in 1 .. Len(p.found)}
            = {EntryPart(d.entries, k) : k \in UsedUpTo(d.entries, PrimarySlots)}
  BY <1>2, Zenon DEF AllFound
<1>4. DOMAIN p.found = 1 .. Len(p.found)
  BY <1>3 DEF ScanStates
<1> DEFINE clear == \A i \in DOMAIN p.found : p.ext = EmptyEntry \/ ~Overlap(p.ext, p.found[i])
<1>5. clear
  BY <1>3
<1>6. PICK q : q = [p EXCEPT !.ok = @ /\ clear]
  OBVIOUS
<1>7. q \in ScanStates /\ q.ok /\ q.ext = EmptyEntry /\ q.at = 0 /\ q.found = p.found
  <2>1. q = [p EXCEPT !.ok = TRUE]
    <3>1. (p.ok /\ clear) = TRUE
      BY <1>3, <1>5, Zenon
    <3> HIDE DEF clear
    <3> QED BY <1>6, <3>1
  <2> QED BY <1>3, <2>1 DEF ScanStates
<1>8. ScanChain(q, d.records) = q
  BY <1>7, NoChain
<1>9. \A i \in PrimaryNumbers : d.entries[i].type # "protective"
  BY EditableMeans
<1>10. ScanMbr(d) = [ok |-> TRUE, found |-> q.found]
  <2>1. ScanMbr(d) = LET all == ScanChain(q, d.records)
                     IN IF all.ok /\ \A i \in PrimaryNumbers : d.entries[i].type # "protective"
                        THEN [ok |-> TRUE, found |-> all.found] ELSE NothingFound
    BY <1>1, <1>6, Zenon DEF ScanMbr
  <2> QED BY <1>7, <1>8, <1>9, <2>1, Zenon
<1>11. ScanMbr(d).found = p.found
  BY <1>7, <1>10
<1> QED BY <1>3, <1>4, <1>11 DEF Found

(* What an edit that reaches the disk leaves to find: all entries there    *)
(* are now; of those there were, all but the one edited, and but the chain *)
(* of an extended partition that has been deleted.                         *)
LEMMA EditLeaves ==
    ASSUME NEW d \in MbrDisks, NEW slot \in PrimaryNumbers, NEW edited, EditableTable(edited),
           \A n \in PrimaryNumbers : n # slot => edited[n] = d.entries[n],
           NEW e, e = [d EXCEPT !.entries = edited]
    PROVE  /\ e \in MbrDisks
           /\ Found(e) = {EntryPart(edited, k) : k \in UsedUpTo(edited, PrimarySlots)}
           /\ \A p \in Found(d) : \/ p \in Found(e) \/ p.number = slot
                                  \/ d.entries[slot].type = "extended" /\ p.number > PrimarySlots
<1>1. edited \in [PrimaryNumbers -> MbrEntries]
  BY DEF EditableTable
<1>2. e \in MbrDisks /\ e.entries = edited
  BY <1>1 DEF MbrDisks
<1>3. Found(e) = {EntryPart(edited, k) : k \in UsedUpTo(edited, PrimarySlots)}
  BY <1>2, EditableIsFound
<1>4. ASSUME NEW p \in Found(d)
      PROVE  \/ p \in Found(e) \/ p.number = slot
             \/ d.entries[slot].type = "extended" /\ p.number > PrimarySlots
  <2>1. PICK found : found = ScanMbr(d).found
    OBVIOUS
  <2>2. PICK m \in Nat : FoundRight(found, m)
                         /\ \A i \in 1 .. Len(found) : PartRight(d.entries, found[i])
    BY <2>1, ScanIsRight
  <2>3. found \in Seq(FoundParts)
    BY <2>2 DEF FoundRight
  <2>4. PICK i \in 1 .. Len(found) : p = found[i]
    BY <2>1, <2>3 DEF Found
  <2>5. p \in FoundParts
    BY <2>3, <2>4
  <2>6. PartRight(d.entries, p)
    BY <2>2, <2>4
  <2>7. CASE IsPrimary(d.entries, p) /\ p.number # slot
    <3>1. PICK n \in PrimaryNumbers : n = p.number
      BY <2>7 DEF IsPrimary
    <3>2. edited[n] = d.entries[n]
      BY <2>7, <3>1
    <3>3. /\ edited[n].type # "none"
          /\ edited[n].first = p.first /\ edited[n].count = p.count
      BY <2>7, <3>1, <3>2 DEF IsPrimary
    <3>4. p = EntryPart(edited, n)
      BY <2>5, <3>1, <3>3 DEF FoundParts, EntryPart
    <3>5. n \in UsedUpTo(edited, PrimarySlots)
      BY <3>1, <3>3 DEF UsedUpTo, PrimaryNumbers
    <3> QED BY <1>3, <3>4, <3>5
  <2>8. CASE IsLogical(d.entries, p)
    <3>1. PICK k \in PrimaryNumbers : d.entries[k].type = "extended"
      BY <2>8 DEF IsLogical
    <3>2. k = slot
      <4>1. edited[k].type # "extended"
        BY EditableMeans
      <4> QED BY <3>1, <4>1
    <3> QED BY <2>8, <3>1, <3>2 DEF IsLogical
  <2> QED BY <2>6, <2>7, <2>8 DEF PartRight
<1> QED BY <1>2, <1>3, <1>4

(* The inductive invariant: the disk holds a table, and EditsFound holds   *)
(* of the last edit                                                        *)
MbrInv == m_disk \in MbrDisks /\ EditsFound

(* partition_mbr_commit makes it hold.                                     *)
LEMMA CommitFinds ==
    ASSUME m_disk \in MbrDisks, NEW slot \in PrimaryNumbers, NEW entry \in MbrEntries,
           entry.first < MbrWord, entry.count < MbrWord, MbrCommit(slot, entry)
    PROVE  MbrInv'
<1>1. PICK d \in MbrDisks : d = m_disk
  OBVIOUS
<1>2. PICK edited : edited = [d.entries EXCEPT ![slot] = entry]
  OBVIOUS
<1>3. MbrEntry(entry.type, entry.first % MbrWord, entry.count % MbrWord) = entry
  <2>1. entry.first \in Nat /\ entry.count \in Nat /\ MbrWord \in Nat \ {0}
    BY MbrAssumption DEF MbrEntries
  <2>2. entry.first % MbrWord = entry.first /\ entry.count % MbrWord = entry.count
    BY <2>1
  <2> QED BY <2>2 DEF MbrEntry, MbrEntries
<1>4. PICK ok \in BOOLEAN, written \in BOOLEAN :
         /\ ok => written
         /\ m_disk' = IF written THEN [d EXCEPT !.entries = edited] ELSE d
         /\ m_edit' = [ok |-> ok, slot |-> slot, asked |-> entry, before |-> d]
  BY <1>1, <1>2, <1>3, Zenon DEF MbrCommit
<1>5. MbrTableValid(edited)
  BY <1>1, <1>2, <1>3, Zenon DEF MbrCommit
<1>6. d.entries \in [PrimaryNumbers -> MbrEntries]
  BY DEF MbrDisks
<1>7. edited \in [PrimaryNumbers -> MbrEntries]
      /\ \A n \in PrimaryNumbers : n # slot => edited[n] = d.entries[n]
  BY <1>2, <1>6
<1>8. EditableTable(edited)
  BY <1>5, <1>7 DEF EditableTable
<1>9. PICK e : e = [d EXCEPT !.entries = edited]
  OBVIOUS
<1>10. /\ e \in MbrDisks
       /\ Found(e) = {EntryPart(edited, k) : k \in UsedUpTo(edited, PrimarySlots)}
       /\ \A p \in Found(d) : \/ p \in Found(e) \/ p.number = slot
                              \/ d.entries[slot].type = "extended" /\ p.number > PrimarySlots
  BY <1>7, <1>8, <1>9, EditLeaves
<1>11. PICK now : now = IF written THEN e ELSE d
  OBVIOUS
<1>12. m_disk' = now
  BY <1>4, <1>9, <1>11
<1>13. now \in MbrDisks
  BY <1>10, <1>11
<1>14. ok => Found(now) = {[number |-> n, first |-> edited[n].first, count |-> edited[n].count] :
                              n \in {k \in PrimaryNumbers : edited[k].type # "none"}}
  <2>1. UsedUpTo(edited, PrimarySlots) = {k \in PrimaryNumbers : edited[k].type # "none"}
    BY DEF UsedUpTo, PrimaryNumbers
  <2> QED BY <1>4, <1>10, <1>11, <2>1 DEF EntryPart
<1>15. \A p \in Found(d) : \/ p \in Found(now) \/ p.number = slot
                           \/ d.entries[slot].type = "extended" /\ p.number > PrimarySlots
  BY <1>10, <1>11
<1>16. PICK last : last = [ok |-> ok, slot |-> slot, asked |-> entry, before |-> d]
  OBVIOUS
<1>17. /\ last.ok = ok /\ last.before = d /\ last.slot = slot
       /\ [last.before.entries EXCEPT ![last.slot] = last.asked] = edited
  BY <1>2, <1>16
<1>18. m_edit' = last
  BY <1>4, <1>16
<1>19. (last.ok =>
          LET left == [last.before.entries EXCEPT ![last.slot] = last.asked] IN
          Found(now) = {[number |-> n, first |-> left[n].first, count |-> left[n].count] :
                              n \in {k \in PrimaryNumbers : left[k].type # "none"}})
  BY <1>14, <1>17
<1>20. last.slot # 0 =>
          \A p \in Found(last.before) :
              p \in Found(now) \/ p.number = last.slot
              \/ (last.before.entries[last.slot].type = "extended" /\ p.number > PrimarySlots)
  BY <1>15, <1>17
<1>21. EditsFound'
  <2> SUFFICES (m_edit.ok =>
          LET left == [m_edit.before.entries EXCEPT ![m_edit.slot] = m_edit.asked] IN
          Found(m_disk) = {[number |-> n, first |-> left[n].first, count |-> left[n].count] :
                              n \in {k \in PrimaryNumbers : left[k].type # "none"}})'
      /\ (m_edit.slot # 0 =>
          \A p \in Found(m_edit.before) :
              p \in Found(m_disk) \/ p.number = m_edit.slot
              \/ (m_edit.before.entries[m_edit.slot].type = "extended" /\ p.number > PrimarySlots))'
    BY Zenon DEF EditsFound
  <2> QED BY <1>12, <1>18, <1>19, <1>20
<1> QED BY <1>12, <1>13, <1>21, Zenon DEF MbrInv

(* The edits keep the invariant.                                           *)
LEMMA MbrStep == MbrInv /\ [MbrNext]_mbrVars => MbrInv'
<1> SUFFICES ASSUME MbrInv, [MbrNext]_mbrVars PROVE MbrInv'
  OBVIOUS
<1>1. m_disk \in MbrDisks
  BY DEF MbrInv
<1>2. m_disk.entries \in [PrimaryNumbers -> MbrEntries]
  BY <1>1 DEF MbrDisks
<1>3. ASSUME NEW slot \in PrimaryNumbers, NEW first \in MbrStarts, NEW count \in MbrCounts,
             PartitionMbrCreate(slot, first, count)
      PROVE  MbrInv'
  <2>1. MbrEntry("data", first, count) \in MbrEntries
    BY MbrAssumption DEF MbrEntry, MbrEntries
  <2>2. MbrEntry("data", first, count).first = first /\ MbrEntry("data", first, count).count = count
    BY DEF MbrEntry
  <2>3. first < MbrWord /\ count < MbrWord /\ MbrCommit(slot, MbrEntry("data", first, count))
    BY <1>3, Zenon DEF PartitionMbrCreate, Representable
  <2>4. PICK entry \in MbrEntries : entry = MbrEntry("data", first, count)
    BY <2>1
  <2> QED BY <1>1, <2>2, <2>3, <2>4, CommitFinds
<1>4. ASSUME NEW slot \in PrimaryNumbers, NEW first \in MbrStarts, NEW count \in MbrCounts,
             PartitionMbrResize(slot, first, count)
      PROVE  MbrInv'
  <2>1. PICK type \in {"none", "data", "extended", "protective"} : type = m_disk.entries[slot].type
    BY <1>2 DEF MbrEntries
  <2>2. PICK entry \in MbrEntries : entry = MbrEntry(type, first, count)
    BY MbrAssumption DEF MbrEntry, MbrEntries
  <2>3. entry.first = first /\ entry.count = count
    BY <2>2 DEF MbrEntry
  <2>4. first < MbrWord /\ count < MbrWord /\ MbrCommit(slot, entry)
    BY <1>4, <2>1, <2>2, Zenon DEF PartitionMbrResize, Representable
  <2> QED BY <1>1, <2>3, <2>4, CommitFinds
<1>5. ASSUME NEW slot \in PrimaryNumbers, PartitionMbrDelete(slot)
      PROVE  MbrInv'
  <2>1. PICK entry \in MbrEntries : entry = EmptyEntry
    BY DEF EmptyEntry, MbrEntry, MbrEntries
  <2>2. entry.first < MbrWord /\ entry.count < MbrWord
    BY <2>1, MbrAssumption DEF EmptyEntry, MbrEntry
  <2>3. MbrCommit(slot, entry)
    BY <1>5, <2>1, Zenon DEF PartitionMbrDelete
  <2> QED BY <1>1, <2>2, <2>3, CommitFinds
<1>6. CASE UNCHANGED mbrVars
  BY <1>6 DEF mbrVars, MbrInv, EditsFound
<1> QED BY <1>3, <1>4, <1>5, <1>6, Zenon DEF MbrNext

(* It holds at the beginning.                                              *)
LEMMA MbrInitInv == MbrInit => MbrInv
  BY MbrAssumption DEF MbrInit, MbrInv, MbrDisks, EditsFound, PrimaryNumbers

(* And it says what is wanted.                                             *)
LEMMA MbrInvIsSound == MbrInv => MbrSound
  BY FoundIsSound, Zenon DEF MbrInv, MbrSound, ScanSound
-----------------------------------------------------------------------------
(* For every disk and every sequence of edits: the two copies of a GPT     *)
(* agree between edits; what the scan finds in an old table is on the disk *)
(* and apart; and once an edit of one has succeeded the scan finds every   *)
(* entry there is, while one that has failed costs no other partition.     *)
THEOREM TablesCorrect == DiskSpec => []TablesSound
<1> DEFINE Inv == GptInv /\ MbrInv
<1>1. DiskInit => Inv
  BY GptInitInv, MbrInitInv DEF DiskInit
<1>2. Inv /\ [DiskNext]_<<part, cacheVars, gptVars, mbrVars>> => Inv'
  <2> SUFFICES ASSUME Inv, [DiskNext]_<<part, cacheVars, gptVars, mbrVars>> PROVE Inv'
    OBVIOUS
  <2>1. [GptNext]_gptVars
    BY DEF DiskNext
  <2>2. [MbrNext]_mbrVars
    BY DEF DiskNext
  <2> QED BY <2>1, <2>2, GptStep, MbrStep
<1>3. Inv => TablesSound
  BY GptInvAgrees, MbrInvIsSound DEF TablesSound
<1> QED BY <1>1, <1>2, <1>3, PTL DEF DiskSpec

=============================================================================

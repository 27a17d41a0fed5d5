----------------------------- MODULE BlockCache -----------------------------
(***************************************************************************)
(* The block device layer, src/kernel/block_device.c: bounds checks, the   *)
(* shared write-through block cache with one block of read-ahead, retries, *)
(* and a partition whose requests are translated and passed to its parent  *)
(* disk, which caches the same blocks again under its own identifier.      *)
(*                                                                         *)
(* One disk and one partition on it, both of known size, writable and with *)
(* caching allowed.  A driver call may fail; what counts is its outcome    *)
(* after the retries.  A write of several blocks that fails may have       *)
(* reached the medium in part (legacy_write stops at the first sector that *)
(* fails).  A read-ahead on the partition uses three cache slots, so the   *)
(* cache has at least three.                                               *)
(***************************************************************************)
EXTENDS Naturals, Sequences, SequencesExt

CONSTANTS
    BlockCount,      \* block_count of the disk
    PartitionStart,  \* start_lba of the partition
    PartitionCount,  \* block_count of the partition
    CacheSize,       \* BLOCK_CACHE_ENTRY_COUNT
    Contents,        \* what a block may hold
    LbaWord,        \* 2 ^ 64, the modulus of UINT64 arithmetic
    Lbas,            \* addresses the callers use, in and out of bounds
    CacheCounts           \* block counts the callers use

ASSUME BlockCacheAssumption ==
    /\ BlockCount \in Nat /\ PartitionStart \in Nat /\ PartitionCount \in Nat \ {0}
    /\ PartitionStart + PartitionCount <= BlockCount
    /\ CacheSize \in Nat /\ CacheSize >= 3
    /\ LbaWord \in Nat /\ BlockCount < LbaWord
    /\ Lbas \subseteq 0 .. LbaWord - 1
    /\ CacheCounts \subseteq Nat

VARIABLES
    medium,          \* medium[b]: what block b of the disk really holds
    cache,           \* the cache entries and next_cache_slot
    torn,            \* blocks a failed write may have changed
    shadowed         \* partition blocks written through the disk

cacheVars == <<medium, cache, torn, shadowed>>

Blocks == 0 .. BlockCount - 1
Devices == {"disk", "partition"}

DeviceBlocks(dev) == IF dev = "disk" THEN BlockCount ELSE PartitionCount

(* Where block lba of a device is on the medium.                           *)
Physical(dev, lba) == IF dev = "disk" THEN lba ELSE PartitionStart + lba

InPartition == PartitionStart .. PartitionStart + PartitionCount - 1

NoCacheEntry == [valid |-> FALSE]
CacheEntry(dev, lba, data) ==
    [valid |-> TRUE, device |-> dev, lba |-> lba, data |-> data]

-----------------------------------------------------------------------------
(* The cache.  c is [entries, next]; the slots are taken in turn.          *)

(* request_in_bounds, in the arithmetic of the machine.                    *)
RequestInBounds(dev, lba, count) ==
    /\ count # 0
    /\ count - 1 <= LbaWord - 1 - lba
    /\ lba < DeviceBlocks(dev)
    /\ count <= DeviceBlocks(dev) - lba

Hits(c, dev, lba) ==
    {k \in DOMAIN c.entries : /\ c.entries[k].valid
                              /\ c.entries[k].device = dev
                              /\ c.entries[k].lba = lba}

(* cache_find returns the first entry that matches.                        *)
CacheFind(c, dev, lba) ==
    CHOOSE k \in Hits(c, dev, lba) : \A j \in Hits(c, dev, lba) : k <= j

(* cache_allocate: the next slot is taken, whatever it holds.              *)
CacheAllocate(c, dev, lba, data) ==
    [entries |-> [c.entries EXCEPT ![c.next] = CacheEntry(dev, lba, data)],
     next |-> (c.next + 1) % CacheSize]

CacheStore(c, dev, lba, data) ==
    IF Hits(c, dev, lba) # {}
    THEN [c EXCEPT !.entries[CacheFind(c, dev, lba)].data = data]
    ELSE CacheAllocate(c, dev, lba, data)

(* cache_invalidate_device                                                 *)
CacheInvalidate(c, devs) ==
    [c EXCEPT !.entries =
        [k \in DOMAIN @ |-> IF @[k].valid /\ @[k].device \in devs
                            THEN NoCacheEntry ELSE @[k]]]

-----------------------------------------------------------------------------
(* block_device_read.  A result is the cache, whether the call succeeded,  *)
(* and the data.  readable is the set of disk blocks the driver can read   *)
(* during the call, after its retries; Raw is the device's read_blocks.    *)

Result(c, ok, data) == [cache |-> c, ok |-> ok, data |-> data]

ReadBlock(Raw(_, _), dev, c, lba) ==
    LET raw == Raw(c, lba) IN
    IF Hits(c, dev, lba) # {}
    THEN Result(c, TRUE, << c.entries[CacheFind(c, dev, lba)].data >>)
    ELSE IF raw.ok
    THEN Result(CacheStore(raw.cache, dev, lba, raw.data[1]), TRUE, raw.data)
    ELSE raw

(* The entry is marked valid first and filled, or given up, afterwards.    *)
ReadAhead(Raw(_, _), dev, c, lba) ==
    LET slot == c.next
        raw == Raw(CacheAllocate(c, dev, lba, "stale"), lba) IN
    IF ~RequestInBounds(dev, lba, 1) \/ Hits(c, dev, lba) # {} THEN c
    ELSE IF raw.ok
    THEN [raw.cache EXCEPT !.entries[slot].data = raw.data[1]]
    ELSE [raw.cache EXCEPT !.entries[slot] = NoCacheEntry]

ReadBlocks(Raw(_, _), dev, c, lba, count) ==
    LET One(r, l) ==
            LET b == ReadBlock(Raw, dev, r.cache, l) IN
            IF ~r.ok THEN r ELSE Result(b.cache, b.ok, r.data \o b.data)
        after[n \in 0 .. count] ==
            IF n = 0 THEN Result(c, TRUE, << >>) ELSE One(after[n - 1], lba + n - 1)
        all == after[count]
    IN  IF all.ok
        THEN [all EXCEPT !.cache = ReadAhead(Raw, dev, all.cache, lba + count)]
        ELSE all

RawDisk(readable, c, lba) ==
    Result(c, lba \in readable, IF lba \in readable THEN << medium[lba] >> ELSE << >>)

(* partition_read                                                          *)
RawPartition(readable, c, lba) ==
    ReadBlocks(LAMBDA d, l : RawDisk(readable, d, l),
               "disk", c, PartitionStart + lba, 1)

BlockDeviceRead(dev, lba, count, readable) ==
    IF dev = "disk"
    THEN ReadBlocks(LAMBDA d, l : RawDisk(readable, d, l), dev, cache, lba, count)
    ELSE ReadBlocks(LAMBDA d, l : RawPartition(readable, d, l), dev, cache, lba, count)

(* The first block that the driver cannot read ends the call.              *)
Read(dev, lba, count) ==
    /\ RequestInBounds(dev, lba, count)
    /\ \E n \in 0 .. count + 1 :
          LET readable == Blocks \intersect (Physical(dev, lba) .. Physical(dev, lba) + n - 1) IN
          cache' = BlockDeviceRead(dev, lba, count, readable).cache
    /\ UNCHANGED <<medium, torn, shadowed>>

-----------------------------------------------------------------------------
(* block_device_write                                                      *)

(* Faulty variant: only the first block of a request is brought up to date. *)
StoreFirst(c, dev, lba, data) == CacheStore(c, dev, lba, data[1])

StoreAll(c, dev, lba, data) ==
    LET after[n \in 0 .. Len(data)] ==
            IF n = 0 THEN c ELSE CacheStore(after[n - 1], dev, lba + n - 1, data[n])
    IN  after[Len(data)]

Overwritten(dev, lba, data, n) ==
    [b \in Blocks |->
        LET i == b + 1 - Physical(dev, lba) IN
        IF b + 1 > Physical(dev, lba) /\ i <= n THEN data[i] ELSE medium[b]]

(* The driver has written every block; the parent's cache is updated by    *)
(* its own block_device_write before the partition's is.                   *)
WriteSucceeds(dev, lba, data) ==
    LET target == Physical(dev, lba) .. Physical(dev, lba) + Len(data) - 1 IN
    /\ RequestInBounds(dev, lba, Len(data))
    /\ medium' = Overwritten(dev, lba, data, Len(data))
    /\ cache' = IF dev = "disk" THEN StoreAll(cache, dev, lba, data)
                ELSE StoreAll(StoreAll(cache, "disk", Physical(dev, lba), data),
                              dev, lba, data)
    /\ torn' = torn \ target
    /\ shadowed' = IF dev = "disk" THEN shadowed \union (target \intersect InPartition)
                                   ELSE shadowed \ target

(* The retries are used up; the first n blocks have reached the medium,    *)
(* perhaps all of them (the device answered too late, or with an error).   *)
DeviceWriteFails(dev, lba, count) ==
    /\ RequestInBounds(dev, lba, count)
    /\ \E n \in 0 .. count : \E data \in [1 .. n -> Contents] :
          /\ medium' = Overwritten(dev, lba, data, n)
          /\ torn' = torn \union (Physical(dev, lba) .. Physical(dev, lba) + n - 1)
    /\ UNCHANGED <<cache, shadowed>>

(* A request out of bounds is refused before anything is touched.          *)
Refuse(dev, lba, count) ==
    /\ ~RequestInBounds(dev, lba, count)
    /\ UNCHANGED cacheVars

(* block_device_flush_barrier: the device's entries and its parent's are   *)
(* dropped; the flush itself has no effect on what is stored.              *)
FlushBarrier(dev) ==
    /\ cache' = CacheInvalidate(cache, {dev, "disk"})
    /\ torn' = {}
    /\ shadowed' = IF dev = "disk" THEN shadowed \union (torn \intersect InPartition)
                                   ELSE {}
    /\ UNCHANGED medium

(* Every block holds the same at first; writes make them differ.           *)
CacheInit ==
    /\ \E c \in Contents : medium = [b \in Blocks |-> c]
    /\ cache = [entries |-> [k \in 0 .. CacheSize - 1 |-> NoCacheEntry], next |-> 0]
    /\ torn = {}
    /\ shadowed = {}

CacheNext ==
    \/ \E dev \in Devices :
          \/ \E lba \in Lbas, count \in CacheCounts :
                \/ Read(dev, lba, count) \/ Refuse(dev, lba, count)
                \/ \E data \in [1 .. count -> Contents] : WriteSucceeds(dev, lba, data)
                \/ DeviceWriteFails(dev, lba, count)
          \/ FlushBarrier(dev)

CacheSpec == CacheInit /\ [][CacheNext]_cacheVars

-----------------------------------------------------------------------------
(* Properties.                                                             *)

(* Type correctness.                                                       *)
CacheTypeOK ==
    /\ medium \in [Blocks -> Contents]
    /\ cache.next \in 0 .. CacheSize - 1
    /\ \A k \in 0 .. CacheSize - 1 :
          \/ cache.entries[k] = NoCacheEntry
          \/ cache.entries[k] \in [valid : {TRUE}, device : Devices,
                                   lba : Blocks, data : Contents]
    /\ torn \subseteq Blocks /\ shadowed \subseteq InPartition

Valid == {k \in 0 .. CacheSize - 1 : cache.entries[k].valid}

EntryBlock(k) == Physical(cache.entries[k].device, cache.entries[k].lba)

(* What a cache hit returns is what is on the medium, for the disk and for *)
(* the partition, across read-ahead, eviction, failed reads and barriers.  *)
(* The exceptions are exactly these: after a failed write the blocks it    *)
(* may have changed, until they are written again or a barrier drops the   *)
(* entries; and the partition's entry for a block written through the      *)
(* disk, until it is written or a barrier is made through the partition.   *)
HitsAreCurrent ==
    \A k \in Valid :
        \/ cache.entries[k].data = medium[EntryBlock(k)]
        \/ EntryBlock(k) \in torn
        \/ cache.entries[k].device = "partition" /\ EntryBlock(k) \in shadowed

(* A block has at most one valid entry per device: cache_store updates and *)
(* cache_find returns only the first match, so a second one would come     *)
(* back stale later.                                                       *)
EntriesUnique ==
    \A k, j \in Valid :
        /\ cache.entries[k].device = cache.entries[j].device
        /\ cache.entries[k].lba = cache.entries[j].lba
        => k = j

(* Nothing beyond the end of a device is ever cached, read-ahead from the  *)
(* last block included: the partition never sees the blocks after it.      *)
CachedInBounds ==
    \A k \in Valid : cache.entries[k].lba < DeviceBlocks(cache.entries[k].device)

(* A hit is current, there is one entry to hit, and it is of the device.   *)
CacheSound == CacheTypeOK /\ HitsAreCurrent /\ EntriesUnique /\ CachedInBounds
=============================================================================

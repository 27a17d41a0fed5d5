------------------------------- MODULE MCDisk -------------------------------
(* The block cache and the partition tables of both kinds, one at a time.  *)
(* Old tables: every choice of entries that are empty, right, out of the   *)
(* disk, overlapping, extended or protective; and every chain of extended  *)
(* records in three sectors that ends, goes on, loops or leads away.       *)
EXTENDS BlockCache, Gpt, Mbr

VARIABLE part

CONSTANTS zeros, ones

(* What a block holds is only ever copied and compared, so the contents    *)
(* are symmetric.                                                          *)
ContentSymmetry == Permutations(Contents)

MCNoRecords == [b \in 0 .. MbrBlocks - 1 |-> NoRecord]
MCEntries == {EmptyEntry, MbrEntry("none", 1, 1), MbrEntry("data", 1, 1), MbrEntry("data", 2, 2),
              MbrEntry("data", 9, 2), MbrEntry("extended", 3, 4), MbrEntry("protective", 1, 9)}
MCNexts == {EmptyEntry, MbrEntry("data", 1, 1)}
           \union {MbrEntry("extended", n, 1) : n \in {0, 1, 2, 9}}
MCRecords == {NoRecord} \union
             {Record(e, n) : e \in {MbrEntry("data", 0, 1), MbrEntry("data", 1, 2),
                                    MbrEntry("extended", 1, 1)}, n \in MCNexts}
MCMbrTables ==
    {[entries |-> e, records |-> MCNoRecords] : e \in [1 .. 3 -> MCEntries]}
    \union {[entries |-> << MbrEntry("extended", 3, 4), e, MbrEntry("data", 7, 1) >>,
             records |-> [MCNoRecords EXCEPT ![3] = r, ![4] = s,
                                             ![5] = Record(MbrEntry("data", 1, 1), t)]] :
              e \in {EmptyEntry, MbrEntry("data", 2, 2)}, r \in MCRecords, s \in MCRecords,
              t \in {EmptyEntry, MbrEntry("extended", 1, 1)}}

DiskInit ==
    /\ part \in {"cache", "gpt", "mbr"}
    /\ GptInit /\ (part # "gpt" => write_cache /\ expected = {EmptyGpt})
    /\ CacheInit /\ MbrInit
    /\ part # "mbr" => \A n \in PrimaryNumbers : m_disk.entries[n] = EmptyEntry

DiskNext ==
    /\ UNCHANGED part
    /\ \/ part = "cache" /\ CacheNext /\ UNCHANGED <<gptVars, mbrVars>>
       \/ part = "gpt" /\ GptNext /\ UNCHANGED <<cacheVars, mbrVars>>
       \/ part = "mbr" /\ MbrNext /\ UNCHANGED <<cacheVars, gptVars>>

DiskSpec == DiskInit /\ [][DiskNext]_<<part, cacheVars, gptVars, mbrVars>>

(* What an edit of a partition table leaves behind is what the next scan   *)
(* finds: in both copies of a GPT, and in an old table by a scan with a    *)
(* check of its own.                                                       *)
TablesSound == IF part = "mbr" THEN MbrSound ELSE CopiesAgree

=============================================================================

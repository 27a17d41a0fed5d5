------------------------------ MODULE NtfsRuns ------------------------------
(***************************************************************************)
(* Where the bytes of an NTFS stream are, src/kernel/ntfs.c: the runs of a *)
(* stream are packed into lists of bytes, of which a file record holds     *)
(* one; a stream whose list does not fit is spread over extension records. *)
(* To read or write it the lists are unpacked and put together again.      *)
(*                                                                         *)
(* A byte has ByteValues values here, so that the numbers of a few         *)
(* clusters take one, two or three bytes and differences of both signs.    *)
(* The sectors of a cluster are written as one.                            *)
(***************************************************************************)
EXTENDS Integers, Sequences, FiniteSets, SequencesExt

CONSTANTS
    ByteValues,     \* values of a byte, 256
    MaxBytes,       \* bytes of the longest number, 8
    RecordRoom,     \* bytes for the list of runs in the record of the file
    ExtentRoom,     \* bytes for the list of runs in an extension record
    MaxStreamRuns,  \* NTFS_MAX_STREAM_RUNS
    LastCluster,    \* clusters of the volume are numbered from 0
    ClusterBytes,   \* bytes_per_cluster
    RunShapes,      \* the lists of runs of the streams looked at
    MaxStreamWrites \* bound on the writes of a behaviour

ASSUME RunsAssumption ==
    /\ ByteValues \in Nat \ {0, 1} /\ ByteValues % 2 = 0
    /\ MaxBytes \in Nat \ {0} /\ RecordRoom \in Nat /\ ExtentRoom \in Nat
    /\ MaxStreamRuns \in Nat \ {0} /\ LastCluster \in Nat
    /\ ClusterBytes \in Nat \ {0} /\ MaxStreamWrites \in Nat

VARIABLES
    extents,       \* the parts of the attribute, in the order of the attribute list
    stored,        \* stored[c]: the bytes of cluster c
    expected,      \* the bytes of the stream as written
    stream_writes  \* writes so far

runsVars == <<extents, stored, expected, stream_writes>>

-----------------------------------------------------------------------------
(* Packing                                                                 *)

(* ntfs_unsigned_bytes, ntfs_signed_bytes                                  *)
UnsignedBytes(n) ==
    CHOOSE b \in 1 .. MaxBytes :
        /\ n < ByteValues ^ b \/ b = MaxBytes
        /\ \A a \in 1 .. b - 1 : n >= ByteValues ^ a
SignedBytesWide(n) ==
    LET fits(b) == -((ByteValues ^ b) \div 2) <= n /\ n <= (ByteValues ^ b) \div 2 IN
    CHOOSE b \in 1 .. MaxBytes :
        (fits(b) \/ b = MaxBytes) /\ \A a \in 1 .. b - 1 : ~fits(a)

SignedBytes(n) ==
    LET fits(b) == -((ByteValues ^ b) \div 2) <= n /\ n <= (ByteValues ^ b) \div 2 - 1 IN
    CHOOSE b \in 1 .. MaxBytes :
        (fits(b) \/ b = MaxBytes) /\ \A a \in 1 .. b - 1 : ~fits(a)

(* The low bytes of a number, the lowest first; a negative one in two's    *)
(* complement                                                              *)
BytesOf(n, count) == [i \in 1 .. count |-> (n \div ByteValues ^ (i - 1)) % ByteValues]

(* The cluster that a run is counted from: where the last run that is not  *)
(* sparse began                                                            *)
PreviousLcn(runs, i) ==
    LET before == {j \in 1 .. i - 1 : ~runs[j].sparse} IN
    IF before = {} THEN 0 ELSE runs[CHOOSE j \in before : \A k \in before : k <= j].lcn

PackedRun(runs, i) ==
    LET delta == runs[i].lcn - PreviousLcn(runs, i)
        length_bytes == UnsignedBytes(runs[i].len)
        offset_bytes == IF runs[i].sparse THEN 0 ELSE SignedBytes(delta)
    IN << length_bytes + 16 * offset_bytes >>
          \o BytesOf(runs[i].len, length_bytes) \o BytesOf(delta, offset_bytes)

(* ntfs_encode_runs: nothing when the list and its end do not fit.         *)
EncodeRuns(runs, capacity) ==
    LET packed == FlattenSeq([i \in DOMAIN runs |-> PackedRun(runs, i)]) \o << 0 >> IN
    IF Len(packed) > capacity THEN << >> ELSE packed

(* The runs of a list of clusters, as ntfs_encode_cluster_runlist has it   *)
RunBegins(lcns) == {i \in DOMAIN lcns : i = 1 \/ lcns[i] # lcns[i - 1] + 1}
ClusterRuns(lcns) ==
    LET starts == SetToSortSeq(RunBegins(lcns), LAMBDA a, b : a < b)
        next(k) == IF k = Len(starts) THEN Len(lcns) + 1 ELSE starts[k + 1]
    IN [k \in DOMAIN starts |->
           [lcn |-> lcns[starts[k]], len |-> next(k) - starts[k], sparse |-> FALSE]]

-----------------------------------------------------------------------------
(* Unpacking                                                               *)

NumberAt(bytes, from, count) ==
    LET value[i \in 0 .. count] ==
            IF i = 0 THEN 0 ELSE value[i - 1] + bytes[from + i - 1] * ByteValues ^ (i - 1)
    IN value[count]

SignExtended(n, count) ==
    IF count > 0 /\ 2 * n >= ByteValues ^ count THEN n - ByteValues ^ count ELSE n

NoRuns == << >>
NotAList == << [step |-> 0, len |-> 0, sparse |-> FALSE] >>

(* decode_runlist: a list that is cut short, ends without a zero or has an *)
(* empty run gives nothing.                                                *)
Steps(bytes) ==
    LET from[at \in 1 .. Len(bytes) + 1] ==
            IF at > Len(bytes) THEN NotAList
            ELSE IF bytes[at] = 0 THEN NoRuns
            ELSE LET len_size == bytes[at] % 16
                     off_size == bytes[at] \div 16
                     next == at + 1 + len_size + off_size
                 IN IF len_size = 0 \/ len_size > MaxBytes \/ off_size > MaxBytes
                          \/ next > Len(bytes) + 1 THEN NotAList
                    ELSE LET len == NumberAt(bytes, at + 1, len_size)
                             step == SignExtended(NumberAt(bytes, at + 1 + len_size, off_size),
                                                  off_size)
                         IN IF len = 0 \/ from[next] = NotAList THEN NotAList
                            ELSE << [step |-> step, len |-> len, sparse |-> off_size = 0] >>
                                    \o from[next]
    IN from[1]

DecodeRunlist(bytes) ==
    LET steps == Steps(bytes)
        lcn[i \in 0 .. Len(steps)] == IF i = 0 THEN 0 ELSE lcn[i - 1] + steps[i].step
    IN IF steps = NotAList \/ Len(steps) > MaxStreamRuns THEN NoRuns
       ELSE [i \in DOMAIN steps |->
                [lcn |-> lcn[i], len |-> steps[i].len, sparse |-> steps[i].sparse]]

(* decode_writable_runlist                                                 *)
DecodeWritableRunlist(bytes) ==
    LET runs == DecodeRunlist(bytes) IN
    IF \E i \in DOMAIN runs : runs[i].sparse THEN NoRuns ELSE runs

RunClusters(runs) ==
    LET sum[i \in 0 .. Len(runs)] == IF i = 0 THEN 0 ELSE sum[i - 1] + runs[i].len
    IN sum[Len(runs)]

-----------------------------------------------------------------------------
(* Extents                                                                 *)

(* ntfs_append_nonresident_extent                                          *)
Extent(bytes, lowest, clusters) ==
    [bytes |-> bytes, lowest |-> lowest, highest |-> lowest + clusters - 1]

(* ntfs_write_split_nonresident_file: as many runs as fit into each record *)
SplitRuns(runs) ==
    LET from[at \in 1 .. Len(runs) + 1] ==
            IF at > Len(runs) THEN << >>
            ELSE LET fits(n) == EncodeRuns(SubSeq(runs, at, at + n - 1), ExtentRoom) # << >>
                     count == CHOOSE n \in 1 .. Len(runs) - at + 1 :
                                 /\ n = Len(runs) - at + 1 \/ ~fits(n + 1)
                                 /\ \A m \in 2 .. n : fits(m)
                     part == SubSeq(runs, at, at + count - 1)
                     vcn == RunClusters(SubSeq(runs, 1, at - 1))
                 IN << Extent(EncodeRuns(part, ExtentRoom), vcn, RunClusters(part)) >>
                       \o from[at + count]
    IN from[1]

(* A stream in one record or, when its list does not fit, in several       *)
Extents(runs) ==
    LET whole == EncodeRuns(runs, RecordRoom) IN
    IF whole # << >> THEN << Extent(whole, 0, RunClusters(runs)) >> ELSE SplitRuns(runs)

(* append_stream_extent, for each extent as collect_attribute_stream finds *)
(* them: an extent must begin where the one before it ends, and be as long *)
(* as it says.                                                             *)
CollectStream(parts) ==
    LET upTo[k \in 0 .. Len(parts)] ==
            IF k = 0 THEN [ok |-> TRUE, runs |-> NoRuns, next_vcn |-> 0]
            ELSE LET before == upTo[k - 1]
                     decoded == DecodeRunlist(parts[k].bytes)
                 IN [ok |-> /\ before.ok /\ parts[k].highest >= parts[k].lowest
                            /\ parts[k].lowest = before.next_vcn /\ decoded # NoRuns
                            /\ Len(before.runs) + Len(decoded) <= MaxStreamRuns
                            /\ RunClusters(decoded) = parts[k].highest - parts[k].lowest + 1,
                     runs |-> before.runs \o decoded,
                     next_vcn |-> parts[k].highest + 1]
    IN upTo[Len(parts)]

-----------------------------------------------------------------------------
(* Bytes                                                                   *)

(* The runs of a stream, each with the number of its first byte            *)
FirstByte(runs, i) == RunClusters(SubSeq(runs, 1, i - 1)) * ClusterBytes
RunWithByte(runs, at) ==
    CHOOSE i \in DOMAIN runs :
        /\ FirstByte(runs, i) <= at
        /\ at < FirstByte(runs, i) + runs[i].len * ClusterBytes

(* Where byte `at` of a stream is: the cluster, and the byte of it         *)
ByteAt(runs, at) ==
    LET i == RunWithByte(runs, at)
        within == at - FirstByte(runs, i)
    IN <<runs[i].lcn + within \div ClusterBytes, 1 + (within % ClusterBytes)>>

(* ntfs_read_sector fails outside the volume.                              *)
OnVolume(runs, at) ==
    runs[RunWithByte(runs, at)].sparse \/ ByteAt(runs, at)[1] \in 0 .. LastCluster

(* read_from_runs: up to the first byte that cannot be read                *)
ReadFromRuns(runs, data_size, offset, count) ==
    LET wanted == IF offset >= data_size THEN 0
                  ELSE IF count > data_size - offset THEN data_size - offset ELSE count
        bad == {k \in 1 .. wanted : ~OnVolume(runs, offset + k - 1)}
        total == IF bad = {} THEN wanted ELSE (CHOOSE k \in bad : \A j \in bad : k <= j) - 1
    IN [k \in 1 .. total |->
           LET at == offset + k - 1 IN
           IF runs[RunWithByte(runs, at)].sparse THEN 0
           ELSE stored[ByteAt(runs, at)[1]][ByteAt(runs, at)[2]]]

(* write_to_runs_at, and write_to_runs from the first byte on: refused     *)
(* beyond what is allocated, and where a run is sparse                     *)
MayWrite(runs, offset, count) ==
    /\ offset + count <= RunClusters(runs) * ClusterBytes
    /\ \A at \in offset .. offset + count - 1 :
          ~runs[RunWithByte(runs, at)].sparse /\ OnVolume(runs, at)

Written(runs, offset, bytes) ==
    LET places == [k \in DOMAIN bytes |-> ByteAt(runs, offset + k - 1)] IN
    [c \in DOMAIN stored |->
        [b \in 1 .. ClusterBytes |->
            IF \E k \in DOMAIN bytes : places[k] = <<c, b>>
            THEN bytes[CHOOSE k \in DOMAIN bytes : places[k] = <<c, b>>]
            ELSE stored[c][b]]]

-----------------------------------------------------------------------------
(* Streams                                                                 *)

NoStream == << >>

RunsInit ==
    /\ extents = NoStream
    /\ stored = [c \in 0 .. LastCluster |-> [b \in 1 .. ClusterBytes |-> 0]]
    /\ expected = << >>
    /\ stream_writes = 0

(* A stream gets its clusters, which have been filled with zeros.          *)
CreateStream(runs) ==
    /\ extents = NoStream
    /\ extents' = Extents(runs)
    /\ expected' = [at \in 1 .. RunClusters(runs) * ClusterBytes |-> 0]
    /\ UNCHANGED <<stored, stream_writes>>

PutBytes(runs, offset, bytes) ==
    /\ stream_writes < MaxStreamWrites
    /\ MayWrite(runs, offset, Len(bytes))
    /\ stored' = Written(runs, offset, bytes)
    /\ expected' = [at \in DOMAIN expected |->
                       IF at \in offset + 1 .. offset + Len(bytes) THEN bytes[at - offset]
                       ELSE expected[at]]
    /\ stream_writes' = stream_writes + 1
    /\ UNCHANGED extents

(* write_to_runs_at on a stream that has been put together                 *)
WriteStreamAt(offset, bytes) ==
    LET stream == CollectStream(extents) IN
    extents # NoStream /\ stream.ok /\ PutBytes(stream.runs, offset, bytes)

(* ntfs_write_existing_file, in place: write_to_runs on the runs of the    *)
(* one extent                                                              *)
OverwriteStream(bytes) ==
    /\ Len(extents) = 1
    /\ \E runs \in {DecodeWritableRunlist(extents[1].bytes)} :
          runs # NoRuns /\ PutBytes(runs, 0, bytes)

StreamBytes(count) == [i \in 1 .. count |-> stream_writes + 1]

RunsNext ==
    \/ \E runs \in RunShapes : CreateStream(runs)
    \/ \E offset \in 0 .. Len(expected) : \E count \in 1 .. ClusterBytes + 1 :
          WriteStreamAt(offset, StreamBytes(count))
    \/ \E count \in 1 .. Len(expected) : OverwriteStream(StreamBytes(count))

RunsSpec == RunsInit /\ [][RunsNext]_runsVars

-----------------------------------------------------------------------------
(* Whatever the runs of a stream are, and over however many records their  *)
(* packed lists are spread, the stream can be put together again, and      *)
(* reading any part of it gives the bytes last written there, the zeros of *)
(* its sparse runs included: ntfs_encode_runs, decode_runlist,             *)
(* append_stream_extent, read_from_runs and write_to_runs_at agree.        *)
StreamsReadBack ==
    LET stream == CollectStream(extents) IN
    extents # NoStream =>
    /\ stream.ok
    /\ \A offset \in 0 .. Len(expected) : \A count \in 1 .. Len(expected) :
          ReadFromRuns(stream.runs, Len(expected), offset, count)
             = SubSeq(expected, offset + 1,
                      IF offset + count > Len(expected) THEN Len(expected)
                      ELSE offset + count)

=============================================================================

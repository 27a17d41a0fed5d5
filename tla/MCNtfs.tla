------------------------------- MODULE MCNtfs -------------------------------
(* The two drivers with transactions, one part at a time: of NTFS the      *)
(* transactions, the indexes of directories, and the runs of streams; and  *)
(* exFAT.                                                                  *)
(*                                                                         *)
(* Transactions: two names and three contents, one that fits into a file   *)
(* record, one of one cluster, one of two; the bitmaps have one bit more   *)
(* each than the volume has room for.  Indexes: four names, one of them    *)
(* with a longer entry, in directories that convert at the third and split *)
(* at the fourth.  Runs: every list of up to three of six clusters, and    *)
(* streams with a sparse run; the numbers take one to three bytes.  exFAT: *)
(* the volume another system has written, where a directory must grow; a   *)
(* journal that the growth fits into, but not every move as well; or an    *)
(* empty volume, and a directory d that a second path spells D.            *)
EXTENDS Ntfs, NtfsIndex, NtfsRuns, Exfat

CONSTANT Parts     \* the parts looked at

VARIABLE part

MCSize == [c \in Contents |-> CASE c = "small" -> 1 [] c = "medium" -> 3 [] c = "large" -> 4]

MCEntryLength == [n \in EntryNames |-> IF n = 2 THEN 3 ELSE 2]

Lists == {s \in UNION {[1 .. n -> {0, 1, 2, 7, 8, 12}] : n \in 1 .. 3} : IsInjective(s)}

SparseRun(lcn, len) == [lcn |-> lcn, len |-> len, sparse |-> TRUE]

MCRunShapes ==
    {ClusterRuns(lcns) : lcns \in Lists}
    \union {ClusterRuns(<<a, a + 1>>) \o << SparseRun(a, n) >> \o ClusterRuns(<<b>>) :
               a \in {3, 9}, b \in {0, 6, 12}, n \in {1, 4}}

MCUpCase == [n \in {"d", "D", "f"} |-> IF n = "d" THEN "D" ELSE n]
MCSetSize == [n \in {"d", "D", "f"} |-> IF n = "f" THEN 2 ELSE 1]
MCExfatPaths == {<< >>, <<"d">>, <<"d", "d">>, <<"d", "f">>, <<"D", "f">>, <<"f">>}
MCFormats == {ForeignVolume}

MCMovePaths == {<<"d">>, <<"d", "f">>, <<"D", "f">>, <<"f">>}
MCEmptyFormats == {EmptyVolume}

(* No exFAT volume is looked at.                                           *)
NoExfatVolume ==
    /\ x_disk = << >> /\ x_older = << >> /\ x_tree = << >> /\ x_cache = FALSE
    /\ x_op = NoOperation /\ x_failures = 0 /\ x_operations = 0
    /\ x_flaws = {"not mounted"}

PartsInit ==
    /\ Init /\ IndexInit /\ RunsInit /\ part \in Parts
    /\ \/ part \in {"transactions", "indexes", "runs"} /\ NoExfatVolume
       \/ part = "exfat" /\ ExfatInit
    /\ part # "transactions" => ~write_cache

PartsNext ==
    /\ UNCHANGED part
    /\ \/ part = "transactions" /\ Next /\ UNCHANGED <<indexVars, runsVars, exfatVars>>
       \/ part = "indexes" /\ IndexNext /\ UNCHANGED <<vars, runsVars, exfatVars>>
       \/ part = "runs" /\ RunsNext /\ UNCHANGED <<vars, indexVars, exfatVars>>
       \/ part = "exfat" /\ ExfatNext /\ UNCHANGED <<vars, indexVars, runsVars>>

PartsSpec == PartsInit /\ [][PartsNext]_<<part, vars, indexVars, runsVars, exfatVars>>

=============================================================================

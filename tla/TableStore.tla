----------------------------- MODULE TableStore -----------------------------
(***************************************************************************)
(* The table cache of the stock pipeline, rl_common.py and rl_data.py:     *)
(* raw tables that are fetched once and kept, processed tables that every  *)
(* run saves and reads back, each as a pickle, a CSV and a parquet file,   *)
(* and the result directory a run allocates. Runs of the pipeline share    *)
(* the data directory, one after the other or at the same time, and may be *)
(* killed between any two steps.                                           *)
(*                                                                         *)
(* A table is the answer of the data service it was made from.             *)
(***************************************************************************)
EXTENDS Naturals, Sequences, FiniteSets

CONSTANTS
    Runs,        \* runs of the pipeline, each a process of its own
    Raw,         \* the raw tables, in the order in which a run fetches them
    Core,        \* those of them a run cannot do without
    Dates,       \* the dates each run is configured for
    Undated,     \* raw tables whose file is the same for all dates
    MaxNames,    \* the names one second has for result directories, 999
    Answers,     \* the answers the service gives, one or another over time
    MaxActive,   \* bound: the runs at the same time
    MaxKills     \* bound: the runs that are killed

ASSUME BoundsAssumption ==
    MaxNames \in Nat /\ MaxActive \in Nat /\ MaxKills \in Nat

\* The file of the i-th raw table of a run, its suffix aside. Its name ends in
\* the dates, but with_suffix drops what follows the last dot: the dates of an
\* index, whose code has a dot, are lost. stock_basic_L has none to lose.
Stem(r, i) == IF Raw[i] \in Undated THEN <<Raw[i]>> ELSE <<Raw[i], Dates[r]>>

StemsOf(r) == {Stem(r, i) : i \in 1..Len(Raw)}
RawNames == UNION {StemsOf(r) : r \in Runs}

\* The processed tables stand for one, made from the raw tables of the run.
Processed == <<"processed">>
Names == RawNames \cup {Processed}

ASSUME TablesAssumption ==
    /\ Len(Raw) \in Nat
    /\ Processed \notin RawNames

VARIABLES
    files,    \* disk: for each table and format, its state and contents
    made,     \* disk: the result directories
    kills,    \* counter of the bound MaxKills
    pc,       \* where each run is
    refresh,  \* the run was started with force_refresh
    dir,      \* the result directory a run has chosen
    at,       \* the table it is at: an index of Raw, past it the processed one
    hand,     \* the table it is about to save
    fmt,      \* the format being written, an index of SaveOrder
    used,     \* the raw tables it works with
    earlier,  \* history: the runs that were over when this one started
    refused   \* history: tables saved without their parquet, over an older one

disk == <<files, made>>
own == <<refresh, earlier>>
vars == <<disk, kills, pc, own, dir, at, hand, fmt, used, refused>>

-----------------------------------------------------------------------------
\* Contents: no table, a table with no row, a table cut short, an answer of the
\* service, or what a run has made from its raw tables.
NoTable == <<"none">>
Empty == <<"empty">>
Truncated == <<"truncated">>
Answer(a) == <<"answer", a>>
MadeBy(r) == <<"made", r>>

Formats == {"pkl", "csv", "parquet"}

Absent == [state |-> "absent", holds |-> NoTable]
Torn == [state |-> "torn", holds |-> NoTable]
Whole(x) == [state |-> "whole", holds |-> x]

\* Mutant: the CSV is written before the pickle.
SaveOrderCsvFirst == <<"csv", "pkl", "parquet">>

SaveOrder == <<"pkl", "csv", "parquet">>

ReadOrder == <<"parquet", "pkl", "csv">>

OnDisk(t, f) == files[t][f].state # "absent"

\* The file that is read: of the formats on disk, the first in ReadOrder.
ReadFormat(t) ==
    ReadOrder[CHOOSE i \in 1..Len(ReadOrder) :
                 /\ OnDisk(t, ReadOrder[i])
                 /\ \A j \in 1..(i - 1) : ~OnDisk(t, ReadOrder[j])]

Present(t) == \E f \in Formats : OnDisk(t, f)

\* A torn pickle or parquet file raises; a CSV that was cut short parses, with
\* fewer rows.
ReadRaises(t) ==
    /\ Present(t) /\ ReadFormat(t) # "csv"
    /\ files[t][ReadFormat(t)].state = "torn"

ReadTable(t) ==
    LET file == files[t][ReadFormat(t)]
    IN  IF file.state = "torn" THEN Truncated ELSE file.holds

At(r) == IF at[r] <= Len(Raw) THEN Stem(r, at[r]) ELSE Processed

Init ==
    /\ files = [t \in Names |-> [f \in Formats |-> Absent]]
    /\ made = {}
    /\ kills = 0
    /\ pc = [r \in Runs |-> "new"]
    /\ refresh = [r \in Runs |-> FALSE]
    /\ dir = [r \in Runs |-> 0]
    /\ at = [r \in Runs |-> 1]
    /\ hand = [r \in Runs |-> NoTable]
    /\ fmt = [r \in Runs |-> 1]
    /\ used = [r \in Runs |-> [t \in RawNames |-> NoTable]]
    /\ earlier = [r \in Runs |-> {}]
    /\ refused = {}

Goto(r, place) == pc' = [pc EXCEPT ![r] = place]

\* The run ends without being done, and what it had in memory is gone.
Dies(r) ==
    /\ Goto(r, "failed")
    /\ dir' = [dir EXCEPT ![r] = 0]
    /\ at' = [at EXCEPT ![r] = 1]
    /\ hand' = [hand EXCEPT ![r] = NoTable]
    /\ fmt' = [fmt EXCEPT ![r] = 1]
    /\ used' = [used EXCEPT ![r] = [t \in RawNames |-> NoTable]]

-----------------------------------------------------------------------------
(* A run allocates its result directory: it looks for a name that is free,  *)
(* and creates the directory later, without minding that it exists by then. *)

Over(r) == pc[r] \in {"done", "failed"}
Active == {r \in Runs : pc[r] # "new" /\ ~Over(r)}

\* Mutant: the name is not checked against the directories that exist.
RunDirUnchecked == 1

\* The names stem, stem_2, stem_3, ... that do not exist. The stem is the time
\* in seconds: all runs of the model are started in the same one, as two runs of
\* different seconds have different names.
FreeNames == {k \in 1..MaxNames : k \notin made}

RunDir == CHOOSE k \in FreeNames : \A j \in FreeNames : k <= j

MakeTimestampRunDir(r) ==
    /\ pc[r] = "new" /\ Cardinality(Active) < MaxActive
    /\ FreeNames # {}
    /\ \E force \in BOOLEAN : refresh' = [refresh EXCEPT ![r] = force]
    /\ dir' = [dir EXCEPT ![r] = RunDir]
    /\ earlier' = [earlier EXCEPT ![r] = {s \in Runs : Over(s)}]
    /\ Goto(r, "mkdir")
    /\ UNCHANGED <<disk, kills, at, hand, fmt, used, refused>>

\* Every name of this second is taken: the run ends before it starts.
NoRunDir(r) ==
    /\ pc[r] = "new" /\ Cardinality(Active) < MaxActive
    /\ FreeNames = {}
    /\ Dies(r)
    /\ UNCHANGED <<disk, kills, own, refused>>

EnsureDirs(r) ==
    /\ pc[r] = "mkdir"
    /\ made' = made \cup {dir[r]}
    /\ Goto(r, IF Len(Raw) = 0 THEN "process" ELSE "table")
    /\ UNCHANGED <<files, kills, own, dir, at, hand, fmt, used, refused>>

-----------------------------------------------------------------------------
(* Raw tables: fetch_or_cache.                                              *)

\* The run has the raw table t, and goes on to the next table.
Uses(r, t, x) ==
    /\ used' = [used EXCEPT ![r][t] = x]
    /\ at' = [at EXCEPT ![r] = @ + 1]
    /\ Goto(r, IF at[r] = Len(Raw) THEN "process" ELSE "table")

\* Mutant: a cached table with no row counts as a miss.
MissesEmpty(r) ==
    \/ refresh[r] \/ ~Present(At(r))
    \/ /\ Present(At(r)) /\ ~ReadRaises(At(r))
       /\ ReadTable(At(r)) = Empty

Misses(r) == refresh[r] \/ ~Present(At(r))

\* A cache hit: some file is there, and force_refresh is off.
CacheHit(r) ==
    /\ pc[r] = "table" /\ ~Misses(r) /\ ~ReadRaises(At(r))
    /\ Uses(r, At(r), ReadTable(At(r)))
    /\ UNCHANGED <<disk, kills, own, dir, hand, fmt, refused>>

\* An exception other than FileNotFoundError ends the run.
CacheRaises(r) ==
    /\ pc[r] = "table" /\ ~Misses(r) /\ ReadRaises(At(r))
    /\ Dies(r)
    /\ UNCHANGED <<disk, kills, own, refused>>

\* The service answers, with newer data than before or not; an answer of None
\* stands for a table with no row.
Fetch(r) ==
    /\ pc[r] = "table" /\ Misses(r)
    /\ \E x \in {Answer(a) : a \in Answers} \cup {Empty} : hand' = [hand EXCEPT ![r] = x]
    /\ Goto(r, "open")
    /\ UNCHANGED <<disk, kills, own, dir, at, fmt, used, refused>>

\* Every retry failed: a core table ends the run, an optional one is empty.
FetchFails(r) ==
    /\ pc[r] = "table" /\ Misses(r)
    /\ IF Raw[at[r]] \in Core THEN Dies(r)
       ELSE /\ hand' = [hand EXCEPT ![r] = Empty]
            /\ Goto(r, "open")
            /\ UNCHANGED <<dir, at, fmt, used>>
    /\ UNCHANGED <<disk, kills, own, refused>>

-----------------------------------------------------------------------------
(* The processed table: save_table, then read_table by the next function.   *)

\* Mutant: a processed table that is on disk is used as it is.
ProcessCached(r) ==
    /\ pc[r] = "process"
    /\ hand' = [hand EXCEPT ![r] = MadeBy(r)]
    /\ Goto(r, IF ~Present(Processed) THEN "open" ELSE "read")
    /\ UNCHANGED <<disk, kills, own, dir, at, fmt, used, refused>>

Process(r) ==
    /\ pc[r] = "process"
    /\ hand' = [hand EXCEPT ![r] = MadeBy(r)]
    /\ Goto(r, "open")
    /\ UNCHANGED <<disk, kills, own, dir, at, fmt, used, refused>>

ReadBack(r) ==
    /\ pc[r] = "read" /\ ~ReadRaises(Processed)
    /\ Goto(r, "done")
    /\ UNCHANGED <<disk, kills, own, dir, at, hand, fmt, used, refused>>

ReadBackRaises(r) ==
    /\ pc[r] = "read" /\ ReadRaises(Processed)
    /\ Dies(r)
    /\ UNCHANGED <<disk, kills, own, refused>>

-----------------------------------------------------------------------------
(* save_table: the formats one after the other, each opened and completed.  *)

Write(r, file) == files' = [files EXCEPT ![At(r)][SaveOrder[fmt[r]]] = file]

\* The formats are through: the caller goes on with the table in hand.
Saved(r) ==
    /\ fmt' = [fmt EXCEPT ![r] = 1]
    /\ hand' = [hand EXCEPT ![r] = NoTable]
    /\ IF At(r) = Processed THEN Goto(r, "read") /\ UNCHANGED <<used, at>>
       ELSE Uses(r, At(r), hand[r])

OpenFile(r) ==
    /\ pc[r] = "open"
    /\ Write(r, Torn)
    /\ Goto(r, "close")
    /\ UNCHANGED <<made, kills, own, dir, at, hand, fmt, used, refused>>

CloseFile(r) ==
    /\ pc[r] = "close"
    /\ Write(r, Whole(hand[r]))
    /\ IF fmt[r] < Len(SaveOrder)
         THEN /\ fmt' = [fmt EXCEPT ![r] = @ + 1]
              /\ Goto(r, "open")
              /\ UNCHANGED <<used, at, hand>>
         ELSE Saved(r)
    /\ refused' = IF SaveOrder[fmt[r]] = "parquet" THEN refused \ {At(r)} ELSE refused
    /\ UNCHANGED <<made, kills, own, dir>>

\* The parquet engine refuses the table before it touches the file: the
\* exception is caught, and an older parquet file stays as it is.
ParquetRefused(r) ==
    /\ pc[r] = "open" /\ SaveOrder[fmt[r]] = "parquet"
    /\ Saved(r)
    /\ refused' = IF files[At(r)]["parquet"] = Absent
                    THEN refused ELSE refused \cup {At(r)}
    /\ UNCHANGED <<disk, kills, own, dir>>

-----------------------------------------------------------------------------
(* A run is killed, or an error not modelled above ends it.                 *)

Crash(r) ==
    /\ r \in Active /\ kills < MaxKills
    /\ kills' = kills + 1
    /\ Dies(r)
    /\ UNCHANGED <<disk, own, refused>>

Next ==
    \E r \in Runs :
          \/ MakeTimestampRunDir(r) \/ NoRunDir(r) \/ EnsureDirs(r)
          \/ CacheHit(r) \/ CacheRaises(r) \/ Fetch(r) \/ FetchFails(r)
          \/ Process(r) \/ ReadBack(r) \/ ReadBackRaises(r)
          \/ OpenFile(r) \/ CloseFile(r) \/ ParquetRefused(r)
          \/ Crash(r)

Spec == Init /\ [][Next]_vars

-----------------------------------------------------------------------------
(* What the cache is worth.                                                 *)

Started(r) == pc[r] # "new"

Overlap(r, s) == Started(r) /\ Started(s) /\ r \notin earlier[s] /\ s \notin earlier[r]

Alone(r) == \A s \in Runs \ {r} : ~Overlap(r, s)

\* rl_common.py:117-119, 128-136. No run ever works with a table that was cut
\* short by a crash or is being written by another run. Nobody would notice
\* that of a CSV; it holds because a pickle is opened before any CSV exists and
\* is preferred to it.
NeverTruncated ==
    \A r \in Runs :
        /\ \A t \in RawNames : used[r][t] # Truncated
        /\ pc[r] = "read" => ReadRaises(Processed) \/ ReadTable(Processed) # Truncated

\* rl_data.py:71-83. The cache makes runs reproducible: once a run that nobody
\* disturbed is done, every later one works with the same raw tables, whatever
\* the service answers by then and wherever runs were killed, until a run is
\* told to refresh them. So does one of other dates, with the tables of which
\* the file is the same for all dates, and they keep the dates of the first.
Reproducible ==
    \A r, s \in Runs :
        /\ pc[r] = "done" /\ ~refresh[r] /\ Alone(r) /\ r \in earlier[s]
        /\ \A q \in Runs : refresh[q] => q \in earlier[r]
        => \A t \in StemsOf(r) : used[s][t] \in {NoTable, used[r][t]}

\* rl_common.py:114-136, rl_data.py:294-310. The processed table that a run
\* reads back is not left over from a run that was over before it: it is its
\* own, or that of a run at the same time, unless its parquet was refused while
\* an older one lay there.
ReadsOwnBuild ==
    \A r \in Runs :
        pc[r] = "read" /\ ~ReadRaises(Processed) /\ Processed \notin refused =>
            \E s \in Runs \ earlier[r] : ReadTable(Processed) = MadeBy(s)

\* rl_common.py:73-107. The directory of a run that is done is never handed to
\* a run started after it, though the name only counts seconds and is checked
\* and created in two steps: only runs at the same time can come to share one.
OwnDirectory ==
    \A r, s \in Runs :
        pc[r] = "done" /\ Started(s) /\ r \in earlier[s] => dir[r] # dir[s]
=============================================================================

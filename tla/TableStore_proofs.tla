-------------------------- MODULE TableStore_proofs --------------------------
(***************************************************************************)
(* Proofs about TableStore: for any number of runs and raw tables, any     *)
(* number of them at the same time and killed, no run works with a table   *)
(* that was cut short, an undisturbed run is reproduced by all later ones, *)
(* a run reads back a processed table of its own time, and no directory    *)
(* is handed out twice.                                                    *)
(***************************************************************************)
EXTENDS TableStore, FunctionTheorems, NaturalsInduction, WellFoundedInduction, TLAPS

-----------------------------------------------------------------------------
(* The inductive invariant.                                                 *)

\* What a file, a hand or a run's memory can hold. Truncated is not among them.
Tables ==
    {NoTable, Empty} \cup {Answer(a) : a \in Answers} \cup {MadeBy(r) : r \in Runs}

Files == {Absent, Torn} \cup {Whole(x) : x \in Tables}

Places == {"new", "mkdir", "table", "open", "close", "process", "read", "done", "failed"}

TypeOK ==
    /\ files \in [Names -> [Formats -> Files]]
    /\ made \subseteq 1..MaxNames
    /\ pc \in [Runs -> Places]
    /\ refresh \in [Runs -> BOOLEAN]
    /\ dir \in [Runs -> 0..MaxNames]
    /\ at \in [Runs -> 1..(Len(Raw) + 1)]
    /\ hand \in [Runs -> Tables]
    /\ fmt \in [Runs -> 1..3]
    /\ used \in [Runs -> [RawNames -> Tables]]
    /\ earlier \in [Runs -> SUBSET Runs]

\* A run is at the table its place is about.
Stages ==
    \A r \in Runs :
        /\ pc[r] \notin {"open", "close"} => fmt[r] = 1
        /\ pc[r] = "table" => at[r] <= Len(Raw)
        /\ pc[r] \in {"process", "read", "done"} => at[r] = Len(Raw) + 1
        /\ pc[r] \in {"new", "mkdir", "failed"} =>
              at[r] = 1 /\ used[r] = [t \in RawNames |-> NoTable]
        /\ pc[r] = "new" => ~refresh[r] /\ earlier[r] = {}

\* A pickle is opened before any CSV exists.
PickleFirst ==
    /\ \A t \in Names : OnDisk(t, "csv") => OnDisk(t, "pkl")
    /\ \A r \in Runs :
          pc[r] \in {"close", "read"} \/ fmt[r] >= 2 => OnDisk(At(r), "pkl")

\* Every run past its start has made the directory it was given, and only
\* runs that are over are earlier than another.
Directories ==
    \A r \in Runs :
        /\ pc[r] \notin {"new", "failed"} => dir[r] \in 1..MaxNames
        /\ pc[r] \notin {"new", "mkdir", "failed"} => dir[r] \in made
        /\ pc[r] = "failed" => dir[r] = 0
        /\ \A q \in earlier[r] : Over(q)

\* The processed table in format f is being written, or was made by a run that
\* was not over when r started.
Fresh(r, f) ==
    \/ files[Processed][f].state = "torn"
    \/ \E s \in Runs \ earlier[r] : files[Processed][f] = Whole(MadeBy(s))

\* What a run has opened of the processed table stays fresh for it.
Building ==
    \A r \in Runs :
        /\ pc[r] \in {"open", "close"} /\ At(r) = Processed => hand[r] = MadeBy(r)
        /\ At(r) = Processed /\ (pc[r] \in {"close", "read"} \/ fmt[r] >= 2) => Fresh(r, "pkl")
        /\ pc[r] = "read" =>
              \/ Processed \in refused
              \/ files[Processed]["parquet"] = Absent
              \/ Fresh(r, "parquet")

\* A run that was told nothing of refreshing, that no other run overlaps, and
\* that came after every run told to refresh.
Undisturbed(r) ==
    /\ ~refresh[r] /\ Alone(r)
    /\ \A q \in Runs : refresh[q] => q \in earlier[r]

\* A reader of t finds x.
Kept(t, x) ==
    IF OnDisk(t, "parquet") THEN files[t]["parquet"] = Whole(x)
                            ELSE files[t]["pkl"] = Whole(x)

\* The file in the k-th format of the raw table that r is saving.
Saving(r, k) ==
    IF k < fmt[r] THEN Whole(hand[r])
    ELSE IF k = fmt[r] /\ pc[r] = "close" THEN Torn
    ELSE Absent

\* An undisturbed run at work finds on disk what it has used so far, and saves
\* a raw table only where there was none.
Keeping ==
    \A r \in Runs : Undisturbed(r) /\ r \in Active =>
        /\ \A i \in 1..(at[r] - 1) : Kept(Stem(r, i), used[r][Stem(r, i)])
        /\ pc[r] \in {"open", "close"} /\ at[r] <= Len(Raw) =>
              /\ \A i \in 1..(at[r] - 1) : Stem(r, i) # Stem(r, at[r])
              /\ \A k \in 1..3 : files[Stem(r, at[r])][SaveOrder[k]] = Saving(r, k)

\* An undisturbed run that is done leaves its raw tables to all later ones,
\* which save none of them again.
Kepts ==
    \A r \in Runs : Undisturbed(r) /\ pc[r] = "done" =>
        /\ \A t \in StemsOf(r) : Kept(t, used[r][t])
        /\ \A s \in Runs : pc[s] \in {"open", "close"} => At(s) \notin StemsOf(r)
        /\ \A s \in Runs : r \in earlier[s] =>
              \A t \in StemsOf(r) : used[s][t] \in {NoTable, used[r][t]}

IInv ==
    /\ TypeOK /\ Stages /\ PickleFirst /\ Directories /\ OwnDirectory
    /\ Building /\ Keeping /\ Kepts

-----------------------------------------------------------------------------
(* What the reader of a table finds.                                        *)

LEMMA NoTruncatedTable == Truncated \notin Tables
  BY DEF Truncated, Tables, NoTable, Empty, Answer, MadeBy

LEMMA MadeTable == \A r \in Runs : MadeBy(r) \in Tables
  BY DEF Tables

LEMMA FileKinds ==
    /\ Torn \in Files /\ Absent \in Files
    /\ \A x \in Tables : Whole(x) \in Files
    /\ \A file \in Files :
          /\ file.state = "absent" => file = Absent
          /\ file.state \notin {"absent", "torn"} =>
                file = Whole(file.holds) /\ file.holds \in Tables
PROOF
<1>1. /\ Torn \in Files /\ Absent \in Files /\ \A x \in Tables : Whole(x) \in Files
      /\ Torn.state = "torn" /\ Absent.state = "absent"
      /\ \A x : Whole(x).state = "whole" /\ Whole(x).holds = x
  BY DEF Torn, Absent, Whole, Files
<1> QED  BY <1>1 DEF Files

LEMMA Orders ==
    /\ Len(SaveOrder) = 3 /\ Len(ReadOrder) = 3
    /\ SaveOrder[1] = "pkl" /\ SaveOrder[2] = "csv" /\ SaveOrder[3] = "parquet"
    /\ ReadOrder[1] = "parquet" /\ ReadOrder[2] = "pkl" /\ ReadOrder[3] = "csv"
    /\ \A k \in 1..3 : SaveOrder[k] \in Formats
  BY DEF SaveOrder, ReadOrder, Formats

\* A table on disk is read as parquet if there is one, else as a pickle: never
\* as a CSV.
LEMMA ReadFormatIs ==
  ASSUME PickleFirst, NEW t \in Names, Present(t)
  PROVE  /\ ReadFormat(t) = IF OnDisk(t, "parquet") THEN "parquet" ELSE "pkl"
         /\ OnDisk(t, ReadFormat(t))
PROOF
<1> DEFINE First(i) == /\ OnDisk(t, ReadOrder[i])
                       /\ \A j \in 1..(i - 1) : ~OnDisk(t, ReadOrder[j])
<1>1. OnDisk(t, "parquet") \/ OnDisk(t, "pkl")
  BY DEF PickleFirst, Present, Formats
<1>2. CASE OnDisk(t, "parquet")
  <2>1. \A i \in 1..3 : First(i) <=> i = 1
    BY <1>2, Orders
  <2>2. (CHOOSE i \in 1..3 : First(i)) = 1
    BY <2>1
  <2> QED  BY <1>2, <2>2, Orders DEF ReadFormat
<1>3. CASE ~OnDisk(t, "parquet") /\ OnDisk(t, "pkl")
  <2>1. \A i \in 1..3 : First(i) <=> i = 2
    BY <1>3, Orders
  <2>2. (CHOOSE i \in 1..3 : First(i)) = 2
    BY <2>1
  <2> QED  BY <1>3, <2>2, Orders DEF ReadFormat
<1> QED  BY <1>1, <1>2, <1>3

LEMMA ReadGives ==
  ASSUME TypeOK, PickleFirst, NEW t \in Names, Present(t), ~ReadRaises(t)
  PROVE  ReadTable(t) \in Tables /\ Kept(t, ReadTable(t))
PROOF
<1> DEFINE f == ReadFormat(t)
<1>1. /\ f = IF OnDisk(t, "parquet") THEN "parquet" ELSE "pkl"
      /\ OnDisk(t, f)
  BY ReadFormatIs
<1>2. files[t][f] \in Files
  BY <1>1 DEF TypeOK, Formats
<1>3. files[t][f].state \notin {"absent", "torn"}
  BY <1>1 DEF ReadRaises, OnDisk
<1>4. ReadTable(t) = files[t][f].holds
  BY <1>3 DEF ReadTable
<1>5. files[t][f] = Whole(ReadTable(t)) /\ ReadTable(t) \in Tables
  BY <1>2, <1>3, <1>4, FileKinds
<1> QED  BY <1>1, <1>5 DEF Kept

LEMMA KeptGives ==
  ASSUME PickleFirst, NEW t \in Names, NEW x, Kept(t, x)
  PROVE  Present(t) /\ ~ReadRaises(t) /\ ReadTable(t) = x
PROOF
<1>1. CASE OnDisk(t, "parquet")
  <2>1. Present(t)
    BY <1>1 DEF Present, Formats
  <2> QED  BY <1>1, <2>1, ReadFormatIs DEF Kept, ReadRaises, ReadTable, Whole
<1>2. CASE ~OnDisk(t, "parquet")
  <2>1. OnDisk(t, "pkl")
    BY <1>2 DEF Kept, OnDisk, Whole
  <2>2. Present(t)
    BY <2>1 DEF Present, Formats
  <2> QED  BY <1>2, <2>2, ReadFormatIs DEF Kept, ReadRaises, ReadTable, Whole
<1> QED  BY <1>1, <1>2

-----------------------------------------------------------------------------
(* The steps of the actions, function by function.                          *)

LEMMA AtName ==
  ASSUME TypeOK, NEW r \in Runs
  PROVE  /\ At(r) \in Names
         /\ At(r) = Processed <=> at[r] > Len(Raw)
         /\ at[r] <= Len(Raw) => At(r) = Stem(r, at[r]) /\ At(r) \in RawNames
PROOF
<1>1. at[r] \in 1..(Len(Raw) + 1)
  BY DEF TypeOK
<1> QED  BY <1>1, TablesAssumption DEF At, Names, RawNames, StemsOf

\* Only the file being written changes.
LEMMA WriteStep ==
  ASSUME TypeOK, NEW r \in Runs, NEW file \in Files, Write(r, file)
  PROVE  /\ files' \in [Names -> [Formats -> Files]]
         /\ \A t \in Names, f \in Formats :
               files'[t][f] = IF t = At(r) /\ f = SaveOrder[fmt[r]]
                                THEN file ELSE files[t][f]
PROOF
<1>1. At(r) \in Names /\ SaveOrder[fmt[r]] \in Formats
  BY AtName, Orders DEF TypeOK
<1>2. files' = [files EXCEPT ![At(r)] = [files[At(r)] EXCEPT ![SaveOrder[fmt[r]]] = file]]
  BY <1>1 DEF Write, TypeOK
<1> QED  BY <1>1, <1>2 DEF TypeOK

LEMMA TableKinds ==
    /\ NoTable \in Tables /\ Empty \in Tables
    /\ \A a \in Answers : Answer(a) \in Tables
  BY DEF Tables

\* The directory a run is given is a free one, the first.
LEMMA RunDirFree == FreeNames # {} => RunDir \in FreeNames
PROOF
<1> SUFFICES ASSUME FreeNames # {}
             PROVE  RunDir \in FreeNames
  OBVIOUS
<1>1. FreeNames \subseteq Nat
  BY BoundsAssumption DEF FreeNames
<1>2. PICK k \in FreeNames : \A j \in FreeNames : ~ (<<j, k>> \in OpToRel(<, Nat))
  BY <1>1, NatLessThanWellFounded, WFMin
<1>3. \A j \in FreeNames : ~ (j < k)
  BY <1>1, <1>2 DEF OpToRel
<1>4. \A j \in FreeNames : k <= j
  BY <1>1, <1>3
<1> QED  BY <1>4 DEF RunDir

LEMMA DiesType ==
  ASSUME TypeOK, NEW r \in Runs, Dies(r)
  PROVE  /\ pc' \in [Runs -> Places] /\ dir' \in [Runs -> 0..MaxNames]
         /\ at' \in [Runs -> 1..(Len(Raw) + 1)] /\ hand' \in [Runs -> Tables]
         /\ fmt' \in [Runs -> 1..3] /\ used' \in [Runs -> [RawNames -> Tables]]
PROOF
<1>1. 1 \in 1..(Len(Raw) + 1) /\ 0 \in 0..MaxNames /\ 1 \in 1..3 /\ "failed" \in Places
  BY TablesAssumption, BoundsAssumption DEF Places
<1>2. [t \in RawNames |-> NoTable] \in [RawNames -> Tables]
  BY TableKinds
<1> QED  BY <1>1, <1>2, TableKinds DEF TypeOK, Dies, Goto

LEMMA UsesType ==
  ASSUME TypeOK, NEW r \in Runs, at[r] <= Len(Raw), NEW x \in Tables, Uses(r, At(r), x)
  PROVE  /\ pc' \in [Runs -> Places] /\ at' \in [Runs -> 1..(Len(Raw) + 1)]
         /\ used' \in [Runs -> [RawNames -> Tables]]
PROOF
<1>1. at[r] + 1 \in 1..(Len(Raw) + 1)
  BY TablesAssumption DEF TypeOK
<1>2. [used[r] EXCEPT ![At(r)] = x] \in [RawNames -> Tables]
  BY AtName DEF TypeOK
<1>3. used' = [used EXCEPT ![r] = [used[r] EXCEPT ![At(r)] = x]]
  BY DEF Uses, TypeOK
<1>4. pc' \in [Runs -> Places]
  BY DEF Uses, Goto, TypeOK, Places
<1> QED  BY <1>1, <1>2, <1>3, <1>4 DEF TypeOK, Uses

LEMMA SavedType ==
  ASSUME TypeOK, NEW r \in Runs, Saved(r)
  PROVE  /\ pc' \in [Runs -> Places] /\ at' \in [Runs -> 1..(Len(Raw) + 1)]
         /\ hand' \in [Runs -> Tables] /\ fmt' \in [Runs -> 1..3]
         /\ used' \in [Runs -> [RawNames -> Tables]]
PROOF
<1>1. hand' \in [Runs -> Tables] /\ fmt' \in [Runs -> 1..3]
  BY TableKinds DEF Saved, TypeOK
<1>2. CASE At(r) = Processed
  BY <1>1, <1>2 DEF Saved, TypeOK, Goto, Places
<1>3. CASE At(r) # Processed
  <2>1. at[r] <= Len(Raw) /\ hand[r] \in Tables
    BY <1>3, AtName, TablesAssumption DEF TypeOK
  <2> QED  BY <1>1, <1>3, <2>1, UsesType DEF Saved
<1> QED  BY <1>2, <1>3

LEMMA TypeStep ==
  ASSUME TypeOK, Stages, PickleFirst, Directories, [Next]_vars
  PROVE  TypeOK'
PROOF
<1>1. CASE UNCHANGED vars
  BY <1>1 DEF TypeOK, vars, disk, own
<1>2. ASSUME NEW r \in Runs, MakeTimestampRunDir(r)
      PROVE  TypeOK'
  <2>1. RunDir \in 0..MaxNames
    BY <1>2, RunDirFree, BoundsAssumption DEF MakeTimestampRunDir, FreeNames
  <2>2. {s \in Runs : Over(s)} \in SUBSET Runs
    OBVIOUS
  <2>3. refresh' \in [Runs -> BOOLEAN] /\ earlier' \in [Runs -> SUBSET Runs]
    BY <1>2, <2>2 DEF MakeTimestampRunDir, TypeOK
  <2>4. dir' \in [Runs -> 0..MaxNames] /\ pc' \in [Runs -> Places]
    BY <1>2, <2>1 DEF MakeTimestampRunDir, TypeOK, Goto, Places
  <2> QED  BY <1>2, <2>3, <2>4 DEF MakeTimestampRunDir, TypeOK, disk
<1>3. ASSUME NEW r \in Runs, NoRunDir(r) \/ CacheRaises(r) \/ ReadBackRaises(r) \/ Crash(r)
      PROVE  TypeOK'
  <2>1. Dies(r) /\ UNCHANGED <<disk, own>>
    BY <1>3 DEF NoRunDir, CacheRaises, ReadBackRaises, Crash, own, disk
  <2> QED  BY <2>1, DiesType DEF TypeOK, disk, own
<1>4. ASSUME NEW r \in Runs, EnsureDirs(r)
      PROVE  TypeOK'
  <2>1. made' \subseteq 1..MaxNames /\ pc' \in [Runs -> Places]
    BY <1>4 DEF EnsureDirs, Goto, TypeOK, Places, Directories
  <2> QED  BY <1>4, <2>1 DEF EnsureDirs, TypeOK, own
<1>5. ASSUME NEW r \in Runs, CacheHit(r)
      PROVE  TypeOK'
  <2>1. at[r] <= Len(Raw) /\ Present(At(r)) /\ ~ReadRaises(At(r))
    BY <1>5 DEF CacheHit, Misses, Stages
  <2>2. ReadTable(At(r)) \in Tables
    BY <2>1, AtName, ReadGives
  <2> QED  BY <1>5, <2>1, <2>2, UsesType DEF CacheHit, TypeOK, disk, own
<1>6. ASSUME NEW r \in Runs, Fetch(r)
      PROVE  TypeOK'
  <2>1. hand' \in [Runs -> Tables]
    BY <1>6, TableKinds DEF Fetch, TypeOK
  <2>2. pc' \in [Runs -> Places]
    BY <1>6 DEF Fetch, TypeOK, Goto, Places
  <2> QED  BY <1>6, <2>1, <2>2 DEF Fetch, TypeOK, disk, own
<1>7. ASSUME NEW r \in Runs, FetchFails(r)
      PROVE  TypeOK'
  <2>1. CASE Raw[at[r]] \in Core
    BY <1>7, <2>1, DiesType DEF FetchFails, TypeOK, disk, own
  <2>2. CASE Raw[at[r]] \notin Core
    <3>1. hand' \in [Runs -> Tables] /\ pc' \in [Runs -> Places]
      BY <1>7, <2>2, TableKinds DEF FetchFails, TypeOK, Goto, Places
    <3> QED  BY <1>7, <2>2, <3>1 DEF FetchFails, TypeOK, disk, own
  <2> QED  BY <2>1, <2>2
<1>8. ASSUME NEW r \in Runs, Process(r)
      PROVE  TypeOK'
  <2>1. hand' \in [Runs -> Tables] /\ pc' \in [Runs -> Places]
    BY <1>8, MadeTable DEF Process, TypeOK, Goto, Places
  <2> QED  BY <1>8, <2>1 DEF Process, TypeOK, disk, own
<1>9. ASSUME NEW r \in Runs, ReadBack(r)
      PROVE  TypeOK'
  BY <1>9 DEF ReadBack, TypeOK, Goto, Places, disk, own
<1>10. ASSUME NEW r \in Runs, OpenFile(r)
       PROVE  TypeOK'
  <2>1. files' \in [Names -> [Formats -> Files]]
    BY <1>10, WriteStep, FileKinds DEF OpenFile
  <2>2. pc' \in [Runs -> Places]
    BY <1>10 DEF OpenFile, TypeOK, Goto, Places
  <2> QED  BY <1>10, <2>1, <2>2 DEF OpenFile, TypeOK, own
<1>11. ASSUME NEW r \in Runs, CloseFile(r)
       PROVE  TypeOK'
  <2>1. files' \in [Names -> [Formats -> Files]]
    BY <1>11, WriteStep, FileKinds DEF CloseFile, TypeOK
  <2>2. CASE fmt[r] < Len(SaveOrder)
    <3>1. fmt' = [fmt EXCEPT ![r] = @ + 1] /\ fmt[r] + 1 \in 1..3
      BY <1>11, <2>2, Orders DEF CloseFile, TypeOK
    <3>2. fmt' \in [Runs -> 1..3]
      BY <3>1 DEF TypeOK
    <3>3. pc' \in [Runs -> Places]
      BY <1>11, <2>2 DEF CloseFile, TypeOK, Goto, Places
    <3> QED  BY <1>11, <2>1, <2>2, <3>2, <3>3 DEF CloseFile, TypeOK, own
  <2>3. CASE ~(fmt[r] < Len(SaveOrder))
    BY <1>11, <2>1, <2>3, SavedType DEF CloseFile, TypeOK, own
  <2> QED  BY <2>2, <2>3
<1>12. ASSUME NEW r \in Runs, ParquetRefused(r)
       PROVE  TypeOK'
  BY <1>12, SavedType DEF ParquetRefused, TypeOK, disk, own
<1> QED
  BY <1>1, <1>2, <1>3, <1>4, <1>5, <1>6, <1>7, <1>8, <1>9, <1>10, <1>11, <1>12 DEF Next

-----------------------------------------------------------------------------
(* A step of one run: what it does to that run, to the others and the disk. *)

Step(r) ==
    \/ MakeTimestampRunDir(r) \/ NoRunDir(r) \/ EnsureDirs(r)
    \/ CacheHit(r) \/ CacheRaises(r) \/ Fetch(r) \/ FetchFails(r)
    \/ Process(r) \/ ReadBack(r) \/ ReadBackRaises(r)
    \/ OpenFile(r) \/ CloseFile(r) \/ ParquetRefused(r)
    \/ Crash(r)

LEMMA DiesIs ==
  ASSUME TypeOK, NEW r \in Runs, Dies(r)
  PROVE  /\ pc'[r] = "failed" /\ dir'[r] = 0 /\ at'[r] = 1 /\ fmt'[r] = 1
         /\ used'[r] = [t \in RawNames |-> NoTable]
         /\ \A q \in Runs \ {r} :
               /\ pc'[q] = pc[q] /\ dir'[q] = dir[q] /\ at'[q] = at[q]
               /\ hand'[q] = hand[q] /\ fmt'[q] = fmt[q] /\ used'[q] = used[q]
  BY DEF Dies, Goto, TypeOK

LEMMA UsesIs ==
  ASSUME TypeOK, NEW r \in Runs, at[r] <= Len(Raw), NEW x \in Tables, Uses(r, At(r), x)
  PROVE  /\ pc'[r] = IF at[r] = Len(Raw) THEN "process" ELSE "table"
         /\ at'[r] = at[r] + 1
         /\ used'[r][At(r)] = x
         /\ \A t \in RawNames \ {At(r)} : used'[r][t] = used[r][t]
         /\ \A q \in Runs \ {r} : pc'[q] = pc[q] /\ at'[q] = at[q] /\ used'[q] = used[q]
PROOF
<1>1. used' = [used EXCEPT ![r] = [used[r] EXCEPT ![At(r)] = x]]
  BY DEF Uses, TypeOK
<1>2. used'[r] = [used[r] EXCEPT ![At(r)] = x] /\ \A q \in Runs \ {r} : used'[q] = used[q]
  BY <1>1 DEF TypeOK
<1>3. used'[r][At(r)] = x /\ \A t \in RawNames \ {At(r)} : used'[r][t] = used[r][t]
  BY <1>2, AtName DEF TypeOK
<1> QED  BY <1>2, <1>3 DEF Uses, Goto, TypeOK

LEMMA SavedIs ==
  ASSUME TypeOK, NEW r \in Runs, Saved(r)
  PROVE  /\ fmt'[r] = 1
         /\ IF at[r] > Len(Raw)
              THEN pc'[r] = "read" /\ at'[r] = at[r] /\ used'[r] = used[r]
              ELSE /\ pc'[r] = IF at[r] = Len(Raw) THEN "process" ELSE "table"
                   /\ at'[r] = at[r] + 1
                   /\ used'[r][At(r)] = hand[r]
                   /\ \A t \in RawNames \ {At(r)} : used'[r][t] = used[r][t]
         /\ \A q \in Runs \ {r} :
               /\ pc'[q] = pc[q] /\ at'[q] = at[q] /\ hand'[q] = hand[q]
               /\ fmt'[q] = fmt[q] /\ used'[q] = used[q]
PROOF
<1>1. /\ fmt'[r] = 1
      /\ \A q \in Runs \ {r} : fmt'[q] = fmt[q] /\ hand'[q] = hand[q]
  BY DEF Saved, TypeOK
<1>2. CASE at[r] > Len(Raw)
  BY <1>1, <1>2, AtName DEF Saved, Goto, TypeOK
<1>3. CASE at[r] <= Len(Raw)
  <2>1. At(r) # Processed /\ hand[r] \in Tables
    BY <1>3, AtName, TablesAssumption DEF TypeOK
  <2>2. Uses(r, At(r), hand[r])
    BY <2>1 DEF Saved
  <2> QED  BY <1>1, <1>3, <2>1, <2>2, UsesIs, TablesAssumption DEF TypeOK
<1>4. at[r] > Len(Raw) \/ at[r] <= Len(Raw)
  BY TablesAssumption DEF TypeOK
<1> QED  BY <1>2, <1>3, <1>4

\* A step of r leaves all that belongs to another run as it was.
LEMMA OthersStay ==
  ASSUME TypeOK, Stages, PickleFirst, NEW r \in Runs, Step(r), NEW q \in Runs, q # r
  PROVE  /\ pc'[q] = pc[q] /\ dir'[q] = dir[q] /\ at'[q] = at[q] /\ hand'[q] = hand[q]
         /\ fmt'[q] = fmt[q] /\ used'[q] = used[q]
         /\ refresh'[q] = refresh[q] /\ earlier'[q] = earlier[q]
PROOF
<1>1. CASE MakeTimestampRunDir(r)
  BY <1>1 DEF MakeTimestampRunDir, TypeOK, Goto
<1>2. CASE NoRunDir(r) \/ CacheRaises(r) \/ ReadBackRaises(r) \/ Crash(r)
  BY <1>2, DiesIs DEF NoRunDir, CacheRaises, ReadBackRaises, Crash, own
<1>3. CASE EnsureDirs(r)
  BY <1>3 DEF EnsureDirs, TypeOK, Goto, own
<1>4. CASE CacheHit(r)
  <2>1. at[r] <= Len(Raw) /\ Present(At(r)) /\ ~ReadRaises(At(r))
    BY <1>4 DEF CacheHit, Misses, Stages
  <2>2. ReadTable(At(r)) \in Tables
    BY <2>1, AtName, ReadGives
  <2> QED  BY <1>4, <2>1, <2>2, UsesIs DEF CacheHit, own
<1>5. CASE Fetch(r)
  BY <1>5 DEF Fetch, TypeOK, Goto, own
<1>6. CASE FetchFails(r)
  <2>1. CASE Raw[at[r]] \in Core
    BY <1>6, <2>1, DiesIs DEF FetchFails, own
  <2>2. CASE Raw[at[r]] \notin Core
    BY <1>6, <2>2 DEF FetchFails, TypeOK, Goto, own
  <2> QED  BY <2>1, <2>2
<1>7. CASE Process(r)
  BY <1>7 DEF Process, TypeOK, Goto, own
<1>8. CASE ReadBack(r)
  BY <1>8 DEF ReadBack, TypeOK, Goto, own
<1>9. CASE OpenFile(r)
  BY <1>9 DEF OpenFile, TypeOK, Goto, own
<1>10. CASE CloseFile(r)
  <2>1. CASE fmt[r] < Len(SaveOrder)
    BY <1>10, <2>1 DEF CloseFile, TypeOK, Goto, own
  <2>2. CASE ~(fmt[r] < Len(SaveOrder))
    BY <1>10, <2>2, SavedIs DEF CloseFile, own
  <2> QED  BY <2>1, <2>2
<1>11. CASE ParquetRefused(r)
  BY <1>11, SavedIs DEF ParquetRefused, own
<1> QED
  BY <1>1, <1>2, <1>3, <1>4, <1>5, <1>6, <1>7, <1>8, <1>9, <1>10, <1>11 DEF Step

\* The disk changes only where the run that steps is writing.
LEMMA DiskStep ==
  ASSUME TypeOK, NEW r \in Runs, Step(r)
  PROVE  \/ files' = files
         \/ OpenFile(r) /\ Write(r, Torn)
         \/ CloseFile(r) /\ Write(r, Whole(hand[r]))
PROOF
<1>1. CASE OpenFile(r)
  BY <1>1 DEF OpenFile
<1>2. CASE CloseFile(r)
  BY <1>2 DEF CloseFile
<1> QED
  BY <1>1, <1>2 DEF Step, MakeTimestampRunDir, NoRunDir, EnsureDirs, CacheHit, CacheRaises,
     Fetch, FetchFails, Process, ReadBack, ReadBackRaises, ParquetRefused, Crash, disk

\* No file is ever deleted.
LEMMA StaysOnDisk ==
  ASSUME TypeOK, NEW r \in Runs, Step(r), NEW t \in Names, NEW f \in Formats, OnDisk(t, f)
  PROVE  OnDisk(t, f)'
PROOF
<1>1. Torn \in Files /\ Whole(hand[r]) \in Files
  BY FileKinds DEF TypeOK
<1>2. CASE files' = files
  BY <1>2 DEF OnDisk
<1>3. CASE Write(r, Torn)
  BY <1>1, <1>3, WriteStep DEF OnDisk, Torn
<1>4. CASE Write(r, Whole(hand[r]))
  BY <1>1, <1>4, WriteStep DEF OnDisk, Whole
<1> QED  BY <1>2, <1>3, <1>4, DiskStep

-----------------------------------------------------------------------------
(* Each part of the invariant is kept by every step.                        *)

StageOf(q) ==
    /\ pc[q] \notin {"open", "close"} => fmt[q] = 1
    /\ pc[q] = "table" => at[q] <= Len(Raw)
    /\ pc[q] \in {"process", "read", "done"} => at[q] = Len(Raw) + 1
    /\ pc[q] \in {"new", "mkdir", "failed"} =>
          at[q] = 1 /\ used[q] = [t \in RawNames |-> NoTable]
    /\ pc[q] = "new" => ~refresh[q] /\ earlier[q] = {}

LEMMA StagesStep ==
  ASSUME TypeOK, Stages, PickleFirst, NEW r \in Runs, Step(r)
  PROVE  Stages'
PROOF
<1>1. \A q \in Runs : StageOf(q)
  BY DEF Stages, StageOf
<1>2. ASSUME NEW q \in Runs, q # r
      PROVE  StageOf(q)'
  BY <1>1, <1>2, OthersStay DEF StageOf
<1>3. StageOf(r)'
  <2> USE <1>1 DEF StageOf
  <2>1. CASE MakeTimestampRunDir(r)
    BY <2>1 DEF MakeTimestampRunDir, TypeOK, Goto
  <2>2. CASE NoRunDir(r) \/ CacheRaises(r) \/ ReadBackRaises(r) \/ Crash(r)
    BY <2>2, DiesIs DEF NoRunDir, CacheRaises, ReadBackRaises, Crash
  <2>3. CASE EnsureDirs(r)
    <3>1. pc'[r] = (IF Len(Raw) = 0 THEN "process" ELSE "table")
      BY <2>3 DEF EnsureDirs, TypeOK, Goto
    <3> QED  BY <2>3, <3>1, TablesAssumption DEF EnsureDirs
  <2>4. CASE CacheHit(r)
    <3>1. at[r] <= Len(Raw) /\ Present(At(r)) /\ ~ReadRaises(At(r))
      BY <2>4 DEF CacheHit, Misses
    <3>2. ReadTable(At(r)) \in Tables
      BY <3>1, AtName, ReadGives
    <3>3. /\ pc'[r] = IF at[r] = Len(Raw) THEN "process" ELSE "table"
          /\ at'[r] = at[r] + 1
      BY <2>4, <3>1, <3>2, UsesIs DEF CacheHit
    <3>4. pc[r] = "table" /\ fmt'[r] = fmt[r] /\ StageOf(r)
      BY <1>1, <2>4 DEF CacheHit
    <3>5. at'[r] \in Nat /\ at'[r] <= Len(Raw) + 1 /\ (at[r] # Len(Raw) => at'[r] <= Len(Raw))
      BY <3>1, <3>3, TablesAssumption DEF TypeOK
    <3> QED  BY <3>3, <3>4, <3>5, TablesAssumption
  <2>5. CASE Fetch(r)
    BY <2>5 DEF Fetch, TypeOK, Goto
  <2>6. CASE FetchFails(r)
    <3>1. CASE Raw[at[r]] \in Core
      BY <2>6, <3>1, DiesIs DEF FetchFails
    <3>2. CASE Raw[at[r]] \notin Core
      BY <2>6, <3>2 DEF FetchFails, TypeOK, Goto
    <3> QED  BY <3>1, <3>2
  <2>7. CASE Process(r)
    BY <2>7 DEF Process, TypeOK, Goto
  <2>8. CASE ReadBack(r)
    BY <2>8 DEF ReadBack, TypeOK, Goto
  <2>9. CASE OpenFile(r)
    BY <2>9 DEF OpenFile, TypeOK, Goto
  <2>10. CASE (CloseFile(r) /\ ~(fmt[r] < Len(SaveOrder))) \/ ParquetRefused(r)
    <3>1. Saved(r) /\ pc[r] \in {"open", "close"} /\ UNCHANGED own
      BY <2>10 DEF CloseFile, ParquetRefused
    <3>2. CASE at[r] > Len(Raw)
      BY <3>1, <3>2, SavedIs, TablesAssumption DEF TypeOK
    <3>3. CASE ~(at[r] > Len(Raw))
      <4>1. /\ fmt'[r] = 1 /\ at'[r] = at[r] + 1
            /\ pc'[r] = IF at[r] = Len(Raw) THEN "process" ELSE "table"
        BY <3>1, <3>3, SavedIs
      <4>2. at[r] \in Nat /\ Len(Raw) \in Nat /\ at[r] <= Len(Raw)
        BY <3>3, TablesAssumption DEF TypeOK
      <4> QED  BY <4>1, <4>2
    <3> QED  BY <3>2, <3>3
  <2>11. CASE CloseFile(r) /\ fmt[r] < Len(SaveOrder)
    BY <2>11 DEF CloseFile, TypeOK, Goto
  <2> QED
    BY <2>1, <2>2, <2>3, <2>4, <2>5, <2>6, <2>7, <2>8, <2>9, <2>10, <2>11 DEF Step
<1> QED  BY <1>2, <1>3 DEF Stages, StageOf

\* Only a run that writes comes to be past the first format, or to read back.
LEMMA QuietStep ==
  ASSUME TypeOK, Stages, NEW r \in Runs, Step(r),
         ~OpenFile(r), ~CloseFile(r), ~ParquetRefused(r)
  PROVE  fmt'[r] = 1 /\ pc'[r] \notin {"close", "read"} /\ files' = files
PROOF
<1>1. pc[r] \notin {"open", "close"} \/ Crash(r)
  BY DEF Step, MakeTimestampRunDir, NoRunDir, EnsureDirs, CacheHit, CacheRaises,
     Fetch, FetchFails, Process, ReadBack, ReadBackRaises
<1>2. fmt'[r] = 1
  <2>1. CASE Crash(r)
    BY <2>1, DiesIs DEF Crash
  <2>2. CASE pc[r] \notin {"open", "close"}
    BY <2>2, DiesIs DEF Stages, Step, MakeTimestampRunDir, NoRunDir, EnsureDirs,
       CacheHit, CacheRaises, Fetch, FetchFails, Process, ReadBack, ReadBackRaises, Crash
  <2> QED  BY <1>1, <2>1, <2>2
<1>3. pc'[r] \notin {"close", "read"}
  <2>1. CASE MakeTimestampRunDir(r) \/ EnsureDirs(r) \/ Fetch(r) \/ Process(r) \/ ReadBack(r)
    BY <2>1 DEF MakeTimestampRunDir, EnsureDirs, Fetch, Process, ReadBack, Goto, TypeOK
  <2>2. CASE NoRunDir(r) \/ CacheRaises(r) \/ ReadBackRaises(r) \/ Crash(r)
    BY <2>2, DiesIs DEF NoRunDir, CacheRaises, ReadBackRaises, Crash
  <2>3. CASE CacheHit(r)
    BY <2>3 DEF CacheHit, Uses, Goto, TypeOK
  <2>4. CASE FetchFails(r)
    BY <2>4, DiesIs DEF FetchFails, Goto, TypeOK
  <2> QED  BY <2>1, <2>2, <2>3, <2>4 DEF Step
<1>4. files' = files
  BY DiskStep
<1> QED  BY <1>2, <1>3, <1>4

LEMMA PickleFirstStep ==
  ASSUME TypeOK, Stages, PickleFirst, NEW r \in Runs, Step(r), TypeOK'
  PROVE  PickleFirst'
PROOF
<1>1. ASSUME NEW t \in Names, OnDisk(t, "csv")'
      PROVE  OnDisk(t, "pkl")'
  <2>1. "csv" \in Formats /\ "pkl" \in Formats
    BY DEF Formats
  <2>2. CASE OnDisk(t, "csv")
    BY <2>1, <2>2, StaysOnDisk DEF PickleFirst
  <2>3. CASE ~OnDisk(t, "csv")
    <3>1. files' # files
      BY <1>1, <2>3 DEF OnDisk
    <3>2. PICK file \in Files : Write(r, file)
      BY <3>1, DiskStep, FileKinds DEF TypeOK
    <3>3. t = At(r) /\ SaveOrder[fmt[r]] = "csv"
      BY <1>1, <2>1, <2>3, <3>2, WriteStep DEF OnDisk
    <3>4. fmt[r] = 2
      BY <3>3, Orders DEF TypeOK
    <3> QED  BY <2>1, <3>3, <3>4, StaysOnDisk DEF PickleFirst
  <2> QED  BY <2>2, <2>3
<1>2. ASSUME NEW q \in Runs, q # r, pc'[q] \in {"close", "read"} \/ fmt'[q] >= 2
      PROVE  OnDisk(At(q), "pkl")'
  <2>1. pc'[q] = pc[q] /\ fmt'[q] = fmt[q] /\ at'[q] = at[q]
    BY <1>2, OthersStay
  <2>2. OnDisk(At(q), "pkl") /\ At(q)' = At(q) /\ At(q) \in Names
    BY <1>2, <2>1, AtName DEF PickleFirst, At
  <2> QED  BY <2>2, StaysOnDisk DEF Formats, OnDisk
<1>3. ASSUME pc'[r] \in {"close", "read"} \/ fmt'[r] >= 2
      PROVE  OnDisk(At(r), "pkl")'
  <2>1. At(r) \in Names /\ "pkl" \in Formats
    BY AtName DEF Formats
  <2>2. CASE OpenFile(r)
    <3>1. at' = at /\ fmt' = fmt /\ Write(r, Torn)
      BY <2>2 DEF OpenFile
    <3>2. CASE fmt[r] = 1
      BY <2>1, <3>1, <3>2, WriteStep, FileKinds, Orders DEF OnDisk, At, Torn
    <3>3. CASE fmt[r] # 1
      <4>1. fmt[r] \in 1..3
        BY DEF TypeOK
      <4>2. fmt[r] >= 2
        BY <3>3, <4>1
      <4>3. OnDisk(At(r), "pkl") /\ At(r)' = At(r)
        BY <3>1, <4>2 DEF PickleFirst, At
      <4> QED  BY <2>1, <4>3, StaysOnDisk DEF OnDisk
    <3> QED  BY <3>2, <3>3
  <2>3. CASE CloseFile(r) /\ fmt[r] < Len(SaveOrder)
    <3>1. at' = at /\ OnDisk(At(r), "pkl")
      BY <2>3 DEF CloseFile, PickleFirst
    <3> QED  BY <2>1, <3>1, StaysOnDisk DEF OnDisk, At
  <2>4. CASE (CloseFile(r) /\ ~(fmt[r] < Len(SaveOrder))) \/ ParquetRefused(r)
    <3>1. Saved(r) /\ fmt[r] = 3
      BY <2>4, Orders DEF CloseFile, ParquetRefused, TypeOK
    <3>2. at[r] > Len(Raw) /\ at'[r] = at[r]
      BY <1>3, <3>1, SavedIs
    <3>3. OnDisk(At(r), "pkl") /\ At(r)' = At(r)
      BY <3>1, <3>2 DEF PickleFirst, At
    <3> QED  BY <2>1, <3>3, StaysOnDisk DEF OnDisk
  <2>5. CASE ~OpenFile(r) /\ ~CloseFile(r) /\ ~ParquetRefused(r)
    BY <1>3, <2>5, QuietStep
  <2> QED  BY <2>2, <2>3, <2>4, <2>5
<1> QED  BY <1>1, <1>2, <1>3 DEF PickleFirst

\* The kinds of steps, as far as starting, ending and directories go.
LEMMA StepKinds ==
  ASSUME TypeOK, Stages, PickleFirst, NEW r \in Runs, Step(r)
  PROVE  \/ MakeTimestampRunDir(r)
         \/ /\ Dies(r) /\ ~Over(r) /\ UNCHANGED <<disk, own>>
         \/ EnsureDirs(r)
         \/ /\ pc[r] \in {"table", "open", "close", "process", "read"}
            /\ pc'[r] \in {"table", "open", "close", "process", "read", "done"}
            /\ pc'[r] = "done" => pc[r] = "read"
            /\ UNCHANGED <<made, dir, own>>
PROOF
<1>1. CASE NoRunDir(r) \/ CacheRaises(r) \/ ReadBackRaises(r) \/ Crash(r)
  BY <1>1 DEF NoRunDir, CacheRaises, ReadBackRaises, Crash, Over, Active, disk, own
<1>2. CASE Fetch(r) \/ Process(r) \/ ReadBack(r) \/ OpenFile(r)
  BY <1>2 DEF Fetch, Process, ReadBack, OpenFile, Goto, TypeOK, disk, own
<1>3. CASE CacheHit(r)
  BY <1>3 DEF CacheHit, Uses, Goto, TypeOK, disk, own
<1>4. CASE FetchFails(r)
  BY <1>4 DEF FetchFails, Goto, TypeOK, Over, disk, own
<1>5. CASE CloseFile(r) /\ fmt[r] < Len(SaveOrder)
  BY <1>5 DEF CloseFile, Goto, TypeOK, own
<1>6. CASE (CloseFile(r) /\ ~(fmt[r] < Len(SaveOrder))) \/ ParquetRefused(r)
  <2>1. Saved(r) /\ pc[r] \in {"open", "close"} /\ UNCHANGED <<made, dir, own>>
    BY <1>6 DEF CloseFile, ParquetRefused, disk
  <2>2. pc'[r] \in {"table", "process", "read"}
    BY <2>1, SavedIs
  <2> QED  BY <2>1, <2>2
<1> QED  BY <1>1, <1>2, <1>3, <1>4, <1>5, <1>6 DEF Step

\* A run that is over takes no step, and stays over.
LEMMA OverStays ==
  ASSUME TypeOK, Stages, PickleFirst, NEW r \in Runs, Step(r), NEW q \in Runs, Over(q)
  PROVE  q # r /\ pc'[q] = pc[q] /\ Over(q)'
PROOF
<1>1. ~Over(r)
  BY StepKinds DEF MakeTimestampRunDir, EnsureDirs, Over
<1> QED  BY <1>1, OthersStay DEF Over

LEMMA DirectoriesStep ==
  ASSUME TypeOK, Stages, PickleFirst, Directories, NEW r \in Runs, Step(r)
  PROVE  Directories'
PROOF
<1>1. made \subseteq made'
  BY StepKinds DEF MakeTimestampRunDir, EnsureDirs, disk
<1>2. \A q \in Runs : Over(q) => Over(q)'
  BY OverStays
<1>3. ASSUME NEW q \in Runs
      PROVE  /\ pc'[q] \notin {"new", "failed"} => dir'[q] \in 1..MaxNames
             /\ pc'[q] \notin {"new", "mkdir", "failed"} => dir'[q] \in made'
             /\ pc'[q] = "failed" => dir'[q] = 0
             /\ \A x \in earlier'[q] : Over(x)'
  <2>1. CASE q # r
    BY <1>1, <1>2, <2>1, OthersStay DEF Directories, TypeOK
  <2>2. CASE q = r /\ MakeTimestampRunDir(r)
    <3>1. /\ pc'[r] = "mkdir" /\ dir'[r] = RunDir
          /\ earlier'[r] = {s \in Runs : Over(s)}
      BY <2>2 DEF MakeTimestampRunDir, Goto, TypeOK
    <3>2. RunDir \in 1..MaxNames
      BY <2>2, RunDirFree DEF MakeTimestampRunDir, FreeNames
    <3> QED  BY <1>2, <2>2, <3>1, <3>2
  <2>3. CASE q = r /\ Dies(r) /\ UNCHANGED <<disk, own>>
    BY <1>2, <2>3, DiesIs DEF Directories, own, TypeOK
  <2>4. CASE q = r /\ EnsureDirs(r)
    <3>1. pc[r] = "mkdir" /\ dir' = dir /\ earlier' = earlier /\ dir[r] \in made'
      BY <2>4 DEF EnsureDirs, own
    <3>2. pc'[r] \in {"process", "table"}
      BY <2>4 DEF EnsureDirs, Goto, TypeOK
    <3> QED  BY <1>2, <2>4, <3>1, <3>2 DEF Directories, TypeOK
  <2>5. CASE /\ q = r
             /\ pc[r] \in {"table", "open", "close", "process", "read"}
             /\ pc'[r] \in {"table", "open", "close", "process", "read", "done"}
             /\ UNCHANGED <<made, dir, own>>
    BY <1>2, <2>5 DEF Directories, own, TypeOK
  <2> QED  BY <2>1, <2>2, <2>3, <2>4, <2>5, StepKinds
<1> QED  BY <1>3 DEF Directories

LEMMA OwnDirectoryStep ==
  ASSUME TypeOK, Stages, PickleFirst, Directories, OwnDirectory, NEW r \in Runs, Step(r)
  PROVE  OwnDirectory'
PROOF
<1> SUFFICES ASSUME NEW a \in Runs, NEW b \in Runs,
                    pc'[a] = "done", pc'[b] # "new", a \in earlier'[b]
             PROVE  dir'[a] # dir'[b]
  BY DEF OwnDirectory, Started
<1>1. pc[a] = "done" /\ a # r
  <2>1. CASE a # r
    BY <2>1, OthersStay
  <2>2. CASE a = r
    <3>1. pc[r] = "read" /\ UNCHANGED own
      BY <2>2, StepKinds, DiesIs DEF MakeTimestampRunDir, EnsureDirs, Goto, TypeOK
    <3> QED  BY <2>2, <3>1 DEF own, Directories, Over
  <2> QED  BY <2>1, <2>2
<1>2. dir'[a] = dir[a] /\ dir[a] \in made /\ dir[a] \in 1..MaxNames
  BY <1>1, OthersStay DEF Directories
<1>3. CASE b # r
  BY <1>1, <1>2, <1>3, OthersStay DEF OwnDirectory, Started
<1>4. CASE b = r /\ MakeTimestampRunDir(r)
  <2>1. dir'[r] = RunDir /\ RunDir \notin made
    BY <1>4, RunDirFree DEF MakeTimestampRunDir, FreeNames, TypeOK
  <2> QED  BY <1>2, <1>4, <2>1
<1>5. CASE b = r /\ Dies(r)
  BY <1>2, <1>5, DiesIs
<1>6. CASE b = r /\ (EnsureDirs(r) \/ (pc[r] # "new" /\ UNCHANGED <<dir, own>>))
  BY <1>1, <1>6 DEF OwnDirectory, Started, EnsureDirs, own
<1> QED  BY <1>3, <1>4, <1>5, <1>6, StepKinds

\* What is fresh for a run stays so: only runs that are not over write.
LEMMA FreshStays ==
  ASSUME TypeOK, Stages, PickleFirst, Directories, Building, NEW r \in Runs, Step(r),
         NEW q \in Runs, earlier'[q] = earlier[q], NEW f \in Formats,
         \/ Fresh(q, f)
         \/ files'[Processed][f] # files[Processed][f]
  PROVE  Fresh(q, f)'
PROOF
<1>1. CASE files'[Processed][f] = files[Processed][f]
  BY <1>1 DEF Fresh
<1>2. CASE files'[Processed][f] # files[Processed][f]
  <2>1. Processed \in Names
    BY DEF Names
  <2>2. CASE OpenFile(r) /\ Write(r, Torn)
    <3>1. files'[Processed][f] = Torn
      BY <1>2, <2>1, <2>2, WriteStep, FileKinds
    <3> QED  BY <3>1 DEF Fresh, Torn
  <2>3. CASE CloseFile(r) /\ Write(r, Whole(hand[r]))
    <3>1. Whole(hand[r]) \in Files
      BY FileKinds DEF TypeOK
    <3>2. At(r) = Processed /\ files'[Processed][f] = Whole(hand[r])
      BY <1>2, <2>1, <2>3, <3>1, WriteStep
    <3>3. pc[r] = "close" /\ hand[r] = MadeBy(r)
      BY <2>3, <3>2 DEF CloseFile, Building
    <3>4. r \notin earlier[q]
      BY <3>3 DEF Directories, Over
    <3> QED  BY <3>2, <3>3, <3>4 DEF Fresh
  <2> QED  BY <1>2, <2>2, <2>3, DiskStep
<1> QED  BY <1>1, <1>2

BuiltBy(q) ==
    /\ pc[q] \in {"open", "close"} /\ At(q) = Processed => hand[q] = MadeBy(q)
    /\ At(q) = Processed /\ (pc[q] \in {"close", "read"} \/ fmt[q] >= 2) => Fresh(q, "pkl")
    /\ pc[q] = "read" =>
          \/ Processed \in refused
          \/ files[Processed]["parquet"] = Absent
          \/ Fresh(q, "parquet")

LEMMA BuildingStep ==
  ASSUME TypeOK, Stages, PickleFirst, Directories, Building, NEW r \in Runs, Step(r)
  PROVE  Building'
PROOF
<1> USE DEF Formats
<1>1. \A q \in Runs : BuiltBy(q)
  BY DEF Building, BuiltBy
\* The parquet that r completes is fresh for every run.
<1>2. ASSUME NEW q \in Runs, earlier'[q] = earlier[q], CloseFile(r), fmt[r] = 3,
             At(r) = Processed
      PROVE  Fresh(q, "parquet")'
  <2>1. Processed \in Names /\ Whole(hand[r]) \in Files /\ SaveOrder[fmt[r]] = "parquet"
    BY <1>2, FileKinds, Orders DEF Names, TypeOK
  <2>2. files'[Processed]["parquet"] = Whole(hand[r])
    BY <1>2, <2>1, WriteStep DEF CloseFile
  <2>3. hand[r] = MadeBy(r) /\ r \notin earlier[q]
    BY <1>2 DEF CloseFile, Building, Directories, Over
  <2> QED  BY <1>2, <2>2, <2>3 DEF Fresh
<1>3. ASSUME NEW q \in Runs, q # r
      PROVE  BuiltBy(q)'
  <2>1. /\ pc'[q] = pc[q] /\ at'[q] = at[q] /\ hand'[q] = hand[q] /\ fmt'[q] = fmt[q]
        /\ earlier'[q] = earlier[q] /\ At(q)' = At(q)
    BY <1>3, OthersStay DEF At
  <2>2. Fresh(q, "pkl") => Fresh(q, "pkl")'
    BY <2>1, FreshStays
  <2>3. ASSUME pc[q] = "read"
        PROVE  \/ Processed \in refused'
               \/ files'[Processed]["parquet"] = Absent
               \/ Fresh(q, "parquet")'
    <3>1. CASE Processed \in refused
      <4>1. CASE refused' = refused \/ Processed \in refused'
        BY <3>1, <4>1
      <4>2. CASE refused' # refused /\ Processed \notin refused'
        <5>1. CloseFile(r) /\ SaveOrder[fmt[r]] = "parquet" /\ At(r) = Processed
          BY <3>1, <4>2 DEF Step, MakeTimestampRunDir, NoRunDir, EnsureDirs, CacheHit,
             CacheRaises, Fetch, FetchFails, Process, ReadBack, ReadBackRaises, OpenFile,
             CloseFile, ParquetRefused, Crash
        <5>2. fmt[r] = 3
          BY <5>1, Orders DEF TypeOK
        <5> QED  BY <1>2, <2>1, <5>1, <5>2
      <4> QED  BY <4>1, <4>2
    <3>2. CASE Processed \notin refused
      <4>1. files[Processed]["parquet"] = Absent \/ Fresh(q, "parquet")
        BY <2>3, <3>2 DEF Building
      <4> QED  BY <2>1, <4>1, FreshStays
    <3> QED  BY <3>1, <3>2
  <2> QED  BY <1>1, <2>1, <2>2, <2>3 DEF BuiltBy
<1>4. BuiltBy(r)'
  <2>1. CASE OpenFile(r)
    <3>1. /\ at' = at /\ fmt' = fmt /\ hand' = hand /\ earlier' = earlier
          /\ pc[r] = "open" /\ pc'[r] = "close" /\ At(r)' = At(r)
      BY <2>1 DEF OpenFile, Goto, TypeOK, At, own
    <3>2. ASSUME At(r) = Processed
          PROVE  Fresh(r, "pkl")'
      <4>1. CASE fmt[r] = 1
        <5>1. files'[Processed]["pkl"] = Torn
          BY <2>1, <3>2, <4>1, AtName, WriteStep, FileKinds, Orders DEF OpenFile
        <5> QED  BY <5>1 DEF Fresh, Torn
      <4>2. CASE fmt[r] # 1
        <5>1. fmt[r] \in 1..3
          BY DEF TypeOK
        <5>2. fmt[r] >= 2
          BY <4>2, <5>1
        <5> QED  BY <3>1, <3>2, <5>2, FreshStays DEF Building
      <4> QED  BY <4>1, <4>2
    <3> QED  BY <1>1, <3>1, <3>2 DEF BuiltBy
  <2>2. CASE CloseFile(r) /\ fmt[r] < Len(SaveOrder)
    <3>1. /\ at' = at /\ hand' = hand /\ earlier' = earlier
          /\ pc[r] = "close" /\ pc'[r] = "open" /\ At(r)' = At(r)
      BY <2>2 DEF CloseFile, Goto, TypeOK, At, own
    <3> QED  BY <1>1, <3>1, FreshStays DEF BuiltBy
  <2>3. CASE (CloseFile(r) /\ ~(fmt[r] < Len(SaveOrder))) \/ ParquetRefused(r)
    <3>1. /\ Saved(r) /\ fmt[r] = 3 /\ earlier' = earlier
          /\ pc[r] \in {"open", "close"}
      BY <2>3, Orders DEF CloseFile, ParquetRefused, TypeOK, own
    <3>2. CASE at[r] > Len(Raw)
      <4>1. pc'[r] = "read" /\ At(r)' = At(r) /\ At(r) = Processed
        BY <3>1, <3>2, SavedIs, AtName DEF At
      <4>2. Fresh(r, "pkl")'
        BY <3>1, <4>1, FreshStays DEF Building
      <4>3. CASE CloseFile(r)
        BY <1>2, <3>1, <4>1, <4>2, <4>3 DEF BuiltBy
      <4>4. CASE ParquetRefused(r)
        BY <4>1, <4>2, <4>4 DEF BuiltBy, ParquetRefused, disk
      <4> QED  BY <2>3, <4>1, <4>2, <4>3, <4>4
    <3>3. CASE ~(at[r] > Len(Raw))
      <4>1. pc'[r] \in {"process", "table"} /\ fmt'[r] = 1
        BY <3>1, <3>3, SavedIs
      <4> QED  BY <4>1 DEF BuiltBy
    <3> QED  BY <3>2, <3>3
  <2>4. CASE ~OpenFile(r) /\ ~CloseFile(r) /\ ~ParquetRefused(r)
    <3>1. fmt'[r] = 1 /\ pc'[r] \notin {"close", "read"}
      BY <2>4, QuietStep
    <3>2. ASSUME pc'[r] = "open"
          PROVE  hand'[r] = MadeBy(r) \/ At(r)' # Processed
      <4>1. CASE Process(r)
        BY <4>1 DEF Process, TypeOK
      <4>2. CASE Fetch(r) \/ FetchFails(r)
        <5>1. pc[r] = "table" /\ at'[r] = at[r]
          BY <3>2, <4>2, DiesIs DEF Fetch, FetchFails
        <5> QED  BY <5>1, AtName, TablesAssumption DEF Stages, At, TypeOK
      <4>3. CASE MakeTimestampRunDir(r) \/ EnsureDirs(r) \/ ReadBack(r)
        BY <3>2, <4>3 DEF MakeTimestampRunDir, EnsureDirs, ReadBack, Goto, TypeOK
      <4>4. CASE NoRunDir(r) \/ CacheRaises(r) \/ ReadBackRaises(r) \/ Crash(r)
        BY <3>2, <4>4, DiesIs DEF NoRunDir, CacheRaises, ReadBackRaises, Crash
      <4>5. CASE CacheHit(r)
        BY <3>2, <4>5 DEF CacheHit, Uses, Goto, TypeOK
      <4> QED  BY <2>4, <4>1, <4>2, <4>3, <4>4, <4>5 DEF Step
    <3> QED  BY <3>1, <3>2 DEF BuiltBy
  <2> QED  BY <2>1, <2>2, <2>3, <2>4
<1> QED  BY <1>3, <1>4 DEF Building, BuiltBy

-----------------------------------------------------------------------------
(* Reproducibility.                                                         *)

LEMMA StepStarts ==
  ASSUME TypeOK, Stages, PickleFirst, NEW r \in Runs, Step(r)
  PROVE  pc'[r] # "new"
PROOF
<1>1. CASE MakeTimestampRunDir(r)
  BY <1>1 DEF MakeTimestampRunDir, Goto, TypeOK
<1>2. CASE EnsureDirs(r)
  BY <1>2 DEF EnsureDirs, Goto, TypeOK
<1> QED  BY <1>1, <1>2, StepKinds, DiesIs

\* A run that has started is not undisturbed again once it has been disturbed.
LEMMA UndisturbedBefore ==
  ASSUME TypeOK, Stages, PickleFirst, NEW r \in Runs, Step(r),
         NEW q \in Runs, Undisturbed(q)', pc[q] # "new"
  PROVE  Undisturbed(q)
PROOF
<1>1. \A s \in Runs : pc[s] # "new" => pc'[s] # "new"
  BY OthersStay, StepStarts
<1>2. \A s \in Runs : pc[s] # "new" => refresh'[s] = refresh[s] /\ earlier'[s] = earlier[s]
  BY OthersStay, StepKinds DEF MakeTimestampRunDir, EnsureDirs, own
<1>3. \A s \in Runs : pc[s] = "new" => ~refresh[s] /\ earlier[s] = {}
  BY DEF Stages
<1>4. ~refresh[q] /\ \A x \in Runs : refresh[x] => x \in earlier[q]
  BY <1>2, <1>3 DEF Undisturbed
<1>5. ASSUME NEW s \in Runs \ {q}
      PROVE  ~Overlap(q, s)
  <2>1. ~Overlap(q, s)'
    BY DEF Undisturbed, Alone
  <2> QED  BY <1>1, <1>2, <2>1 DEF Overlap, Started
<1> QED  BY <1>4, <1>5 DEF Undisturbed, Alone

\* While an undisturbed run is at work, every other run that has started is over.
LEMMA Solitary ==
  ASSUME Directories, NEW q \in Runs, Undisturbed(q), q \in Active,
         NEW s \in Runs, s # q, Started(s)
  PROVE  s \in earlier[q] /\ Over(s)
PROOF
<1>1. s \in earlier[q] \/ q \in earlier[s]
  BY DEF Undisturbed, Alone, Overlap, Active, Started
<1> QED  BY <1>1 DEF Directories, Active

\* So only that run itself takes steps.
LEMMA OnlyIt ==
  ASSUME TypeOK, Stages, PickleFirst, Directories, Directories', NEW r \in Runs, Step(r),
         NEW q \in Runs, Undisturbed(q)', q \in Active', pc[q] # "new"
  PROVE  q = r /\ q \in Active /\ Undisturbed(q)
PROOF
<1>1. q \in Active /\ Undisturbed(q)
  BY UndisturbedBefore, OverStays DEF Active
<1>2. SUFFICES ASSUME q # r PROVE FALSE
  BY <1>1
<1>3. ~Over(r)
  BY OverStays
<1>4. pc'[r] # "new" /\ earlier'[q] = earlier[q]
  BY <1>2, OthersStay, StepStarts
<1>5. r \in earlier'[q]
  <2>1. ~Overlap(q, r)'
    BY <1>2 DEF Undisturbed, Alone
  <2>2. q \notin earlier'[r]
    BY DEF Directories, Active
  <2> QED  BY <1>4, <2>1, <2>2 DEF Overlap, Started, Active
<1> QED  BY <1>3, <1>4, <1>5 DEF Directories

\* Kept(t, x) in the next state.
KeptAfter(t, x) ==
    IF files'[t]["parquet"].state # "absent" THEN files'[t]["parquet"] = Whole(x)
                                             ELSE files'[t]["pkl"] = Whole(x)

LEMMA KeptSame ==
  ASSUME NEW t, NEW x, files'[t] = files[t], Kept(t, x)
  PROVE  KeptAfter(t, x)
  BY DEF Kept, KeptAfter, OnDisk

\* A step of r leaves the files of a table other than the one it is at.
LEMMA OtherTables ==
  ASSUME TypeOK, NEW r \in Runs, Step(r), NEW t \in Names,
         t # At(r) \/ pc[r] \notin {"open", "close"}
  PROVE  files'[t] = files[t]
PROOF
<1>1. ASSUME NEW file \in Files, Write(r, file), t # At(r)
      PROVE  files'[t] = files[t]
  <2>1. files' = [files EXCEPT ![At(r)] = [files[At(r)] EXCEPT ![SaveOrder[fmt[r]]] = file]]
    BY <1>1 DEF Write, TypeOK
  <2> QED  BY <1>1, <2>1 DEF TypeOK
<1>2. Torn \in Files /\ Whole(hand[r]) \in Files
  BY FileKinds DEF TypeOK
<1> QED  BY <1>1, <1>2, DiskStep DEF OpenFile, CloseFile

\* What a run at work has found, and what it is saving.
Found(q) == \A i \in 1..(at[q] - 1) : Kept(Stem(q, i), used[q][Stem(q, i)])

Saves(q) ==
    pc[q] \in {"open", "close"} /\ at[q] <= Len(Raw) =>
        /\ \A i \in 1..(at[q] - 1) : Stem(q, i) # Stem(q, at[q])
        /\ \A k \in 1..3 : files[Stem(q, at[q])][SaveOrder[k]] = Saving(q, k)

\* A step that changes neither what r has used nor the files of what it used.
LEMMA FoundSame ==
  ASSUME TypeOK, NEW r \in Runs, Found(r), at'[r] = at[r], used'[r] = used[r],
         \A i \in 1..(at[r] - 1) : files'[Stem(r, i)] = files[Stem(r, i)]
  PROVE  Found(r)'
PROOF
<1>1. ASSUME NEW i \in 1..(at'[r] - 1)
      PROVE  Kept(Stem(r, i), used[r][Stem(r, i)])'
  <2>1. files'[Stem(r, i)] = files[Stem(r, i)] /\ Kept(Stem(r, i), used[r][Stem(r, i)])
    BY <1>1 DEF Found
  <2>2. KeptAfter(Stem(r, i), used[r][Stem(r, i)])
    BY <2>1, KeptSame
  <2> QED  BY <2>2 DEF Kept, KeptAfter, OnDisk
<1> QED  BY <1>1 DEF Found

\* A step that completes the raw table r is at: the run finds what it kept.
LEMMA FoundNext ==
  ASSUME TypeOK, NEW r \in Runs, Found(r), at[r] <= Len(Raw), at'[r] = at[r] + 1,
         \A t \in RawNames \ {At(r)} : used'[r][t] = used[r][t],
         \A i \in 1..(at[r] - 1) : Stem(r, i) # At(r) => files'[Stem(r, i)] = files[Stem(r, i)],
         KeptAfter(At(r), used'[r][At(r)])
  PROVE  Found(r)'
PROOF
<1>1. At(r) = Stem(r, at[r]) /\ at[r] \in 1..Len(Raw)
  BY AtName, TablesAssumption DEF TypeOK
<1>2. ASSUME NEW i \in 1..(at'[r] - 1)
      PROVE  KeptAfter(Stem(r, i), used'[r][Stem(r, i)])
  <2>1. CASE Stem(r, i) = At(r)
    BY <2>1
  <2>2. CASE Stem(r, i) # At(r)
    <3>1. i \in 1..(at[r] - 1) /\ Stem(r, i) \in RawNames
      BY <1>1, <1>2, <2>2, TablesAssumption DEF RawNames, StemsOf
    <3>2. /\ used'[r][Stem(r, i)] = used[r][Stem(r, i)] /\ files'[Stem(r, i)] = files[Stem(r, i)]
          /\ Kept(Stem(r, i), used[r][Stem(r, i)])
      BY <2>2, <3>1 DEF Found
    <3> QED  BY <3>2, KeptSame
  <2> QED  BY <2>1, <2>2
<1> QED  BY <1>2 DEF Found, Kept, KeptAfter, OnDisk

LEMMA KeepingStep ==
  ASSUME TypeOK, Stages, PickleFirst, Directories, Keeping,
         TypeOK', Directories', NEW r \in Runs, Step(r)
  PROVE  Keeping'
PROOF
<1> SUFFICES ASSUME NEW q \in Runs, Undisturbed(q)', q \in Active'
             PROVE  Found(q)' /\ Saves(q)'
  BY DEF Keeping, Found, Saves
<1>1. CASE pc[q] = "new"
  <2>1. q = r /\ MakeTimestampRunDir(r)
    BY <1>1, OthersStay, StepKinds, DiesIs DEF Active, EnsureDirs, Over
  <2>2. at'[q] = 1 /\ pc'[q] = "mkdir"
    BY <1>1, <2>1 DEF MakeTimestampRunDir, Goto, TypeOK, Stages
  <2> QED  BY <2>2 DEF Found, Saves
<1>2. CASE pc[q] # "new"
  <2>1. q = r /\ r \in Active /\ Undisturbed(r)
    BY <1>2, OnlyIt
  <2>2. Found(r) /\ Saves(r)
    BY <2>1 DEF Keeping, Found, Saves
  <2>3. \A i \in 1..(at[r] - 1) : i \in 1..Len(Raw) /\ Stem(r, i) \in RawNames /\ Stem(r, i) \in Names
    BY TablesAssumption DEF TypeOK, RawNames, StemsOf, Names
  <2>4. pc'[r] # "failed" /\ pc'[r] # "done"
    BY <2>1 DEF Active, Over
  <2>5. CASE MakeTimestampRunDir(r) \/ NoRunDir(r) \/ CacheRaises(r) \/ ReadBackRaises(r) \/ Crash(r)
    BY <1>2, <2>1, <2>4, <2>5, DiesIs
       DEF MakeTimestampRunDir, NoRunDir, CacheRaises, ReadBackRaises, Crash
  <2>6. CASE EnsureDirs(r)
    <3>1. at'[r] = 1 /\ pc'[r] \in {"process", "table"}
      BY <2>6 DEF EnsureDirs, Goto, TypeOK, Stages
    <3> QED  BY <2>1, <3>1 DEF Found, Saves
  <2>7. CASE CacheHit(r)
    <3>1. /\ at[r] <= Len(Raw) /\ Present(At(r)) /\ ~ReadRaises(At(r))
          /\ Uses(r, At(r), ReadTable(At(r))) /\ files' = files
      BY <2>7 DEF CacheHit, Misses, Stages, disk
    <3>2. ReadTable(At(r)) \in Tables /\ Kept(At(r), ReadTable(At(r)))
      BY <3>1, AtName, ReadGives
    <3>3. /\ pc'[r] \in {"process", "table"} /\ at'[r] = at[r] + 1
          /\ used'[r][At(r)] = ReadTable(At(r))
          /\ \A t \in RawNames \ {At(r)} : used'[r][t] = used[r][t]
      BY <3>1, <3>2, UsesIs
    <3>4. KeptAfter(At(r), used'[r][At(r)])
      BY <3>1, <3>2, <3>3, KeptSame
    <3>5. Found(r)'
      BY <2>2, <3>1, <3>3, <3>4, FoundNext
    <3> QED  BY <2>1, <3>3, <3>5 DEF Saves
  <2>8. CASE Fetch(r) \/ FetchFails(r)
    <3>1. /\ pc[r] = "table" /\ Misses(r) /\ files' = files /\ at' = at /\ fmt' = fmt
          /\ used' = used /\ at[r] <= Len(Raw) /\ fmt[r] = 1 /\ pc'[r] = "open"
      BY <2>4, <2>8, DiesIs DEF Fetch, FetchFails, Goto, TypeOK, Stages, disk
    <3>2. ~Present(At(r))
      BY <2>1, <3>1 DEF Misses, Undisturbed
    <3>3. At(r) = Stem(r, at[r]) /\ At(r) \in Names
      BY <3>1, AtName
    <3>4. \A i \in 1..(at[r] - 1) : Stem(r, i) # Stem(r, at[r])
      BY <2>2, <2>3, <3>2, <3>3, KeptGives DEF Found
    <3>5. ASSUME NEW k \in 1..3
          PROVE  files[Stem(r, at[r])][SaveOrder[k]] = Absent
      <4>1. SaveOrder[k] \in Formats
        BY Orders
      <4>2. files[At(r)][SaveOrder[k]] \in Files /\ ~OnDisk(At(r), SaveOrder[k])
        BY <3>2, <3>3, <4>1 DEF TypeOK, Present
      <4> QED  BY <3>3, <4>2, FileKinds DEF OnDisk
    <3>6. \A k \in 1..3 : files'[Stem(r, at'[r])][SaveOrder[k]] = Saving(r, k)'
      BY <3>1, <3>5 DEF Saving
    <3> QED  BY <2>1, <2>2, <3>1, <3>4, <3>6, FoundSame DEF Saves
  <2>9. CASE Process(r)
    <3>1. at' = at /\ used' = used /\ files' = files /\ at[r] = Len(Raw) + 1
      BY <2>9 DEF Process, Stages, disk
    <3> QED  BY <2>1, <2>2, <3>1, FoundSame, TablesAssumption DEF Saves
  <2>10. CASE ReadBack(r)
    BY <2>4, <2>10 DEF ReadBack, Goto, TypeOK
  <2>11. CASE OpenFile(r) \/ (CloseFile(r) /\ fmt[r] < Len(SaveOrder))
    <3>1. /\ at' = at /\ used' = used /\ hand' = hand /\ pc[r] \in {"open", "close"}
      BY <2>11 DEF OpenFile, CloseFile
    <3>2. \A i \in 1..(at[r] - 1) : Stem(r, i) # At(r)
      <4>1. CASE at[r] <= Len(Raw)
        BY <2>2, <3>1, <4>1, AtName DEF Saves
      <4>2. CASE at[r] > Len(Raw)
        <5>1. \A i \in 1..Len(Raw) : Stem(r, i) \in RawNames /\ Stem(r, i) # Processed
          BY TablesAssumption DEF RawNames, StemsOf
        <5>2. at[r] - 1 \in 0..Len(Raw) /\ At(r) = Processed
          BY <4>2, AtName, TablesAssumption DEF TypeOK
        <5> QED  BY <5>1, <5>2
      <4> QED  BY <4>1, <4>2, TablesAssumption DEF TypeOK
    <3>3. \A i \in 1..(at[r] - 1) : files'[Stem(r, i)] = files[Stem(r, i)]
      BY <2>3, <3>2, OtherTables
    <3>4. ASSUME at[r] <= Len(Raw), NEW k \in 1..3
          PROVE  files'[Stem(r, at[r])][SaveOrder[k]] = Saving(r, k)'
      <4>1. /\ At(r) = Stem(r, at[r]) /\ At(r) \in Names /\ SaveOrder[k] \in Formats
            /\ SaveOrder[k] = SaveOrder[fmt[r]] <=> k = fmt[r]
            /\ fmt[r] \in 1..3
        BY <3>4, AtName, Orders DEF TypeOK
      <4>2. files[Stem(r, at[r])][SaveOrder[k]] = Saving(r, k)
        BY <2>2, <3>1, <3>4 DEF Saves
      <4>3. CASE OpenFile(r)
        <5>1. pc[r] = "open" /\ pc'[r] = "close" /\ fmt' = fmt /\ Write(r, Torn)
          BY <4>3 DEF OpenFile, Goto, TypeOK
        <5>2. files'[At(r)][SaveOrder[k]] =
                IF k = fmt[r] THEN Torn ELSE files[At(r)][SaveOrder[k]]
          BY <4>1, <5>1, WriteStep, FileKinds
        <5> QED  BY <3>1, <4>1, <4>2, <5>1, <5>2 DEF Saving
      <4>4. CASE CloseFile(r) /\ fmt[r] < Len(SaveOrder)
        <5>1. /\ pc[r] = "close" /\ pc'[r] = "open" /\ fmt'[r] = fmt[r] + 1
              /\ Write(r, Whole(hand[r])) /\ Whole(hand[r]) \in Files
          BY <4>4, FileKinds DEF CloseFile, Goto, TypeOK
        <5>2. files'[At(r)][SaveOrder[k]] =
                IF k = fmt[r] THEN Whole(hand[r]) ELSE files[At(r)][SaveOrder[k]]
          BY <4>1, <5>1, WriteStep
        <5> QED  BY <3>1, <4>1, <4>2, <5>1, <5>2 DEF Saving
      <4> QED  BY <2>11, <4>3, <4>4
    <3>5. Found(r)'
      BY <2>2, <3>1, <3>3, FoundSame
    <3>6. Saves(r)'
      BY <2>2, <3>1, <3>4 DEF Saves
    <3> QED  BY <2>1, <3>5, <3>6
  <2>12. CASE (CloseFile(r) /\ ~(fmt[r] < Len(SaveOrder))) \/ ParquetRefused(r)
    <3>1. Saved(r) /\ fmt[r] = 3 /\ pc[r] \in {"open", "close"}
      BY <2>12, Orders DEF CloseFile, ParquetRefused, TypeOK
    <3>2. \A i \in 1..(at[r] - 1) : Stem(r, i) # At(r)
      <4>1. CASE at[r] <= Len(Raw)
        BY <2>2, <3>1, <4>1, AtName DEF Saves
      <4>2. CASE at[r] > Len(Raw)
        <5>1. \A i \in 1..Len(Raw) : Stem(r, i) \in RawNames /\ Stem(r, i) # Processed
          BY TablesAssumption DEF RawNames, StemsOf
        <5>2. at[r] - 1 \in 0..Len(Raw) /\ At(r) = Processed
          BY <4>2, AtName, TablesAssumption DEF TypeOK
        <5> QED  BY <5>1, <5>2
      <4> QED  BY <4>1, <4>2, TablesAssumption DEF TypeOK
    <3>3. \A i \in 1..(at[r] - 1) : files'[Stem(r, i)] = files[Stem(r, i)]
      BY <2>3, <3>2, OtherTables
    <3>4. CASE at[r] > Len(Raw)
      <4>1. pc'[r] = "read" /\ at'[r] = at[r] /\ used'[r] = used[r]
        BY <3>1, <3>4, SavedIs
      <4> QED  BY <2>1, <2>2, <3>3, <4>1, FoundSame DEF Saves
    <3>5. CASE ~(at[r] > Len(Raw))
      <4>1. /\ pc'[r] \in {"process", "table"} /\ at'[r] = at[r] + 1
            /\ used'[r][At(r)] = hand[r]
            /\ \A t \in RawNames \ {At(r)} : used'[r][t] = used[r][t]
        BY <3>1, <3>5, SavedIs
      <4>2. at[r] <= Len(Raw) /\ At(r) = Stem(r, at[r]) /\ At(r) \in Names
        BY <3>5, AtName, TablesAssumption DEF TypeOK
      <4>3. \A k \in 1..3 : files[At(r)][SaveOrder[k]] = Saving(r, k)
        BY <2>2, <3>1, <4>2 DEF Saves
      <4>4. KeptAfter(At(r), hand[r])
        <5>1. CASE CloseFile(r)
          <6>1. Write(r, Whole(hand[r])) /\ Whole(hand[r]) \in Files
            BY <5>1, FileKinds DEF CloseFile, TypeOK
          <6>2. files'[At(r)]["parquet"] = Whole(hand[r])
            BY <3>1, <4>2, <6>1, WriteStep, Orders
          <6> QED  BY <6>2 DEF KeptAfter, Whole
        <5>2. CASE ParquetRefused(r)
          <6>1. files' = files /\ pc[r] = "open"
            BY <5>2 DEF ParquetRefused, disk
          <6>2. files[At(r)]["parquet"] = Absent /\ files[At(r)]["pkl"] = Whole(hand[r])
            BY <3>1, <4>3, <6>1, Orders DEF Saving
          <6> QED  BY <6>1, <6>2 DEF KeptAfter, Absent
        <5> QED  BY <2>12, <5>1, <5>2
      <4>5. Found(r)'
        BY <2>2, <3>3, <4>1, <4>2, <4>4, FoundNext
      <4> QED  BY <2>1, <4>1, <4>5 DEF Saves
    <3> QED  BY <3>4, <3>5
  <2> QED
    BY <2>5, <2>6, <2>7, <2>8, <2>9, <2>10, <2>11, <2>12 DEF Step
<1> QED  BY <1>1, <1>2

\* What an undisturbed run that is done has left to the later ones.
Left(q) ==
    /\ \A t \in StemsOf(q) : Kept(t, used[q][t])
    /\ \A s \in Runs : pc[s] \in {"open", "close"} => At(s) \notin StemsOf(q)
    /\ \A s \in Runs : q \in earlier[s] =>
          \A t \in StemsOf(q) : used[s][t] \in {NoTable, used[q][t]}

LEMMA KeptsStep ==
  ASSUME TypeOK, Stages, PickleFirst, Directories, Keeping, Kepts,
         TypeOK', Directories', NEW r \in Runs, Step(r)
  PROVE  Kepts'
PROOF
<1> SUFFICES ASSUME NEW q \in Runs, Undisturbed(q)', pc'[q] = "done"
             PROVE  Left(q)'
  BY DEF Kepts, Left
<1>1. pc[q] # "new"
  <2>1. CASE q # r
    BY <2>1, OthersStay
  <2>2. CASE q = r
    BY <2>2, StepKinds, DiesIs DEF MakeTimestampRunDir, EnsureDirs, Goto, TypeOK
  <2> QED  BY <2>1, <2>2
<1>2. Undisturbed(q)
  BY <1>1, UndisturbedBefore
<1>3. CASE q = r
  <2>1. ReadBack(r)
    <3>1. pc[r] = "read"
      BY <1>3, StepKinds, DiesIs DEF MakeTimestampRunDir, EnsureDirs, Goto, TypeOK
    <3> QED
      BY <1>3, <3>1, DiesIs DEF Step, MakeTimestampRunDir, NoRunDir, EnsureDirs, CacheHit,
         CacheRaises, Fetch, FetchFails, Process, ReadBack, ReadBackRaises, OpenFile,
         CloseFile, ParquetRefused, Crash
  <2>2. /\ files' = files /\ used' = used /\ earlier' = earlier /\ at' = at
        /\ pc[r] = "read" /\ at[r] = Len(Raw) + 1
    BY <2>1 DEF ReadBack, disk, own, Stages
  <2>3. r \in Active
    BY <2>2 DEF Active, Over
  <2>4. ASSUME NEW t \in StemsOf(r)
        PROVE  Kept(t, used[r][t])
    <3>1. PICK i \in 1..Len(Raw) : t = Stem(r, i)
      BY DEF StemsOf
    <3>2. i \in 1..(at[r] - 1)
      BY <2>2, <3>1, TablesAssumption
    <3> QED  BY <1>2, <1>3, <2>3, <3>1, <3>2 DEF Keeping
  <2>5. ASSUME NEW s \in Runs, pc'[s] \in {"open", "close"}
        PROVE  FALSE
    <3>1. s # r /\ pc[s] = pc'[s]
      BY <1>3, <2>5, OthersStay
    <3> QED  BY <1>2, <1>3, <2>3, <2>5, <3>1, Solitary DEF Started, Over
  <2>6. \A s \in Runs : r \notin earlier[s]
    BY <2>3 DEF Directories, Active
  <2>7. \A t \in StemsOf(r) : Kept(t, used[r][t])'
    BY <2>2, <2>4 DEF Kept, OnDisk
  <2> QED  BY <1>3, <2>2, <2>5, <2>6, <2>7 DEF Left
<1>4. CASE q # r
  <2>1. pc[q] = "done" /\ used'[q] = used[q]
    BY <1>4, OthersStay
  <2>2. Left(q)
    BY <1>2, <2>1 DEF Kepts, Left
  <2>0. StemsOf(q) \subseteq RawNames /\ RawNames \subseteq Names /\ Processed \notin StemsOf(q)
    BY TablesAssumption DEF RawNames, Names
  <2>3. \A t \in StemsOf(q) : t \in Names /\ files'[t] = files[t]
    BY <2>0, <2>2, OtherTables DEF Left
  <2>4. \A t \in StemsOf(q) : Kept(t, used[q][t])'
    <3>1. \A t \in StemsOf(q) : KeptAfter(t, used[q][t])
      BY <2>2, <2>3, KeptSame DEF Left
    <3> QED  BY <2>1, <3>1 DEF Kept, KeptAfter, OnDisk
  <2>5. pc[r] = "table" /\ At(r) \in StemsOf(q) =>
           At(r) \in RawNames /\ Kept(At(r), used[q][At(r)]) /\ ~Misses(r)
    <3> SUFFICES ASSUME pc[r] = "table", At(r) \in StemsOf(q)
                 PROVE  At(r) \in RawNames /\ Kept(At(r), used[q][At(r)]) /\ ~Misses(r)
      OBVIOUS
    <3>1. At(r) \in RawNames /\ At(r) \in Names
      BY AtName DEF Stages
    <3>2. Kept(At(r), used[q][At(r)])
      BY <2>2, <3>1 DEF Left
    <3>3. Present(At(r))
      BY <3>1, <3>2, KeptGives
    <3>4. ~refresh[r]
      BY <1>2, OverStays DEF Undisturbed, Directories
    <3> QED  BY <3>1, <3>2, <3>3, <3>4 DEF Misses
  <2>6. ASSUME NEW s \in Runs, pc'[s] \in {"open", "close"}
        PROVE  At(s)' \notin StemsOf(q)
    <3>1. CASE s # r
      <4>1. pc[s] = pc'[s] /\ At(s)' = At(s)
        BY <3>1, OthersStay DEF At
      <4> QED  BY <2>2, <2>6, <4>1 DEF Left
    <3>2. CASE s = r
      <4>1. CASE OpenFile(r) \/ (CloseFile(r) /\ fmt[r] < Len(SaveOrder))
        <5>1. pc[r] \in {"open", "close"} /\ At(r)' = At(r)
          BY <4>1 DEF OpenFile, CloseFile, At
        <5> QED  BY <2>2, <3>2, <5>1 DEF Left
      <4>2. CASE (CloseFile(r) /\ ~(fmt[r] < Len(SaveOrder))) \/ ParquetRefused(r)
        BY <2>6, <3>2, <4>2, SavedIs DEF CloseFile, ParquetRefused
      <4>3. CASE Process(r)
        <5>1. at'[r] = Len(Raw) + 1
          BY <4>3 DEF Process, Stages
        <5> QED  BY <2>0, <3>2, <5>1, TablesAssumption DEF At
      <4>4. CASE Fetch(r) \/ FetchFails(r)
        <5>1. CASE Dies(r)
          BY <2>6, <3>2, <5>1, DiesIs
        <5>2. CASE ~Dies(r)
          <6>1. pc[r] = "table" /\ Misses(r) /\ At(r)' = At(r)
            BY <4>4, <5>2 DEF Fetch, FetchFails, At
          <6> QED  BY <2>5, <3>2, <6>1
        <5> QED  BY <5>1, <5>2
      <4>5. CASE MakeTimestampRunDir(r) \/ EnsureDirs(r) \/ ReadBack(r)
        BY <2>6, <3>2, <4>5 DEF MakeTimestampRunDir, EnsureDirs, ReadBack, Goto, TypeOK
      <4>6. CASE NoRunDir(r) \/ CacheRaises(r) \/ ReadBackRaises(r) \/ Crash(r)
        BY <2>6, <3>2, <4>6, DiesIs DEF NoRunDir, CacheRaises, ReadBackRaises, Crash
      <4>7. CASE CacheHit(r)
        BY <2>6, <3>2, <4>7 DEF CacheHit, Uses, Goto, TypeOK
      <4> QED  BY <4>1, <4>2, <4>3, <4>4, <4>5, <4>6, <4>7 DEF Step
    <3> QED  BY <3>1, <3>2
  <2>7. ASSUME NEW s \in Runs, q \in earlier'[s], NEW t \in StemsOf(q)
        PROVE  used'[s][t] \in {NoTable, used[q][t]}
    <3>1. CASE s # r
      BY <2>2, <2>7, <3>1, OthersStay DEF Left
    <3>2. CASE s = r /\ MakeTimestampRunDir(r)
      BY <2>0, <2>7, <3>2 DEF MakeTimestampRunDir, Stages
    <3>3. CASE s = r /\ Dies(r)
      BY <2>0, <2>7, <3>3, DiesIs
    <3>4. CASE s = r /\ CacheHit(r)
      <4>1. /\ pc[r] = "table" /\ earlier' = earlier /\ at[r] <= Len(Raw)
            /\ Uses(r, At(r), ReadTable(At(r)))
        BY <3>4 DEF CacheHit, Stages, own
      <4>2. At(r) \in Names /\ Present(At(r)) /\ ~ReadRaises(At(r))
        BY <3>4, <4>1, AtName DEF CacheHit, Misses
      <4>3. ReadTable(At(r)) \in Tables
        BY <4>2, ReadGives
      <4>4. /\ used'[r][At(r)] = ReadTable(At(r))
            /\ \A x \in RawNames \ {At(r)} : used'[r][x] = used[r][x]
        BY <4>1, <4>3, UsesIs
      <4>5. At(r) \in StemsOf(q) => ReadTable(At(r)) = used[q][At(r)]
        BY <2>5, <4>1, <4>2, KeptGives DEF TypeOK
      <4> QED  BY <2>0, <2>2, <2>7, <3>4, <4>1, <4>4, <4>5 DEF Left
    <3>5. CASE s = r /\ ((CloseFile(r) /\ ~(fmt[r] < Len(SaveOrder))) \/ ParquetRefused(r))
      <4>1. Saved(r) /\ pc[r] \in {"open", "close"} /\ earlier' = earlier
        BY <3>5 DEF CloseFile, ParquetRefused, own
      <4>2. At(r) \notin StemsOf(q)
        BY <2>2, <4>1 DEF Left
      <4>3. \A x \in RawNames \ {At(r)} : used'[r][x] = used[r][x]
        BY <4>1, SavedIs
      <4> QED  BY <2>0, <2>2, <2>7, <3>5, <4>1, <4>2, <4>3 DEF Left
    <3>6. CASE s = r /\ used' = used /\ earlier' = earlier
      BY <2>2, <2>7, <3>6 DEF Left
    <3> QED
      BY <3>1, <3>2, <3>3, <3>4, <3>5, <3>6 DEF Step, NoRunDir, EnsureDirs, CacheRaises, Fetch,
         FetchFails, Process, ReadBack, ReadBackRaises, OpenFile, CloseFile, Crash, own
  <2> QED  BY <2>1, <2>4, <2>6, <2>7 DEF Left
<1> QED  BY <1>3, <1>4

-----------------------------------------------------------------------------
(* The theorems.                                                            *)

LEMMA InitInvariant == Init => IInv
PROOF
<1> SUFFICES ASSUME Init PROVE IInv
  OBVIOUS
<1> USE DEF Init
<1>1. TypeOK
  <2>1. /\ 1 \in 1..(Len(Raw) + 1) /\ 0 \in 0..MaxNames /\ 1 \in 1..3
    BY TablesAssumption, BoundsAssumption
  <2> QED  BY <2>1, FileKinds, TableKinds DEF TypeOK, Places
<1>2. Stages /\ Directories /\ OwnDirectory
  BY DEF Stages, Directories, OwnDirectory
<1>3. PickleFirst
  <2>1. \A t \in Names, f \in Formats : ~OnDisk(t, f)
    BY DEF OnDisk, Absent
  <2> QED  BY <2>1 DEF PickleFirst, Formats
<1>4. Building /\ Keeping /\ Kepts
  BY DEF Building, Keeping, Kepts, Active
<1> QED  BY <1>1, <1>2, <1>3, <1>4 DEF IInv

LEMMA NextInvariant == IInv /\ [Next]_vars => IInv'
PROOF
<1> SUFFICES ASSUME IInv, [Next]_vars PROVE IInv'
  OBVIOUS
<1>1. CASE UNCHANGED vars
  BY <1>1 DEF IInv, vars, disk, own, TypeOK, Stages, PickleFirst, OnDisk, At, Directories, Over,
     OwnDirectory, Started, Building, Fresh, Keeping, Kepts, Undisturbed, Alone, Overlap,
     Active, Kept, Saving
<1>2. ASSUME NEW r \in Runs, Step(r)
      PROVE  IInv'
  <2>1. TypeOK'
    BY TypeStep DEF IInv
  <2>2. Stages' /\ PickleFirst' /\ Directories' /\ OwnDirectory' /\ Building'
    BY <1>2, <2>1, StagesStep, PickleFirstStep, DirectoriesStep, OwnDirectoryStep, BuildingStep
       DEF IInv
  <2>3. Keeping' /\ Kepts'
    BY <1>2, <2>1, <2>2, KeepingStep, KeptsStep DEF IInv
  <2> QED  BY <2>1, <2>2, <2>3 DEF IInv
<1> QED  BY <1>1, <1>2 DEF Next, Step

\* The parts of the invariant hold in every reachable state.
THEOREM Invariant == Spec => []IInv
  BY InitInvariant, NextInvariant, PTL DEF Spec

\* rl_common.py:117-136. No run works with a table cut short, by a crash or by
\* another run still writing it: whatever number of runs share the directory.
THEOREM NoneTruncated == Spec => []NeverTruncated
PROOF
<1>1. IInv => NeverTruncated
  <2> SUFFICES ASSUME IInv, NEW r \in Runs
               PROVE  /\ \A t \in RawNames : used[r][t] # Truncated
                      /\ pc[r] = "read" =>
                            ReadRaises(Processed) \/ ReadTable(Processed) # Truncated
    BY DEF NeverTruncated
  <2>1. \A t \in RawNames : used[r][t] # Truncated
    BY NoTruncatedTable DEF IInv, TypeOK
  <2>2. ASSUME pc[r] = "read", ~ReadRaises(Processed)
        PROVE  ReadTable(Processed) # Truncated
    <3>1. At(r) = Processed
      BY <2>2, AtName, TablesAssumption DEF IInv, Stages, TypeOK
    <3>2. Processed \in Names /\ OnDisk(Processed, "pkl")
      BY <2>2, <3>1 DEF IInv, PickleFirst, Names
    <3>3. Present(Processed)
      BY <3>2 DEF Present, Formats
    <3> QED  BY <2>2, <3>2, <3>3, ReadGives, NoTruncatedTable DEF IInv
  <2> QED  BY <2>1, <2>2
<1> QED  BY <1>1, Invariant, PTL

\* rl_data.py:71-83. A run that nobody disturbed is reproduced by every later
\* one, whatever the service answers by then and whoever is killed.
THEOREM RunsReproducible == Spec => []Reproducible
PROOF
<1>1. IInv => Reproducible
  BY DEF IInv, Kepts, Reproducible, Undisturbed
<1> QED  BY <1>1, Invariant, PTL

\* rl_data.py:294-310. The processed table a run reads back was made by itself
\* or by a run of its own time.
THEOREM OwnBuildRead == Spec => []ReadsOwnBuild
PROOF
<1>1. IInv => ReadsOwnBuild
  <2> SUFFICES ASSUME IInv, NEW r \in Runs,
                      pc[r] = "read", ~ReadRaises(Processed), Processed \notin refused
               PROVE  \E s \in Runs \ earlier[r] : ReadTable(Processed) = MadeBy(s)
    BY DEF ReadsOwnBuild
  <2>1. At(r) = Processed
    BY AtName, TablesAssumption DEF IInv, Stages, TypeOK
  <2>2. Processed \in Names /\ OnDisk(Processed, "pkl")
    BY <2>1 DEF IInv, PickleFirst, Names
  <2>3. Present(Processed)
    BY <2>2 DEF Present, Formats
  <2> DEFINE f == ReadFormat(Processed)
  <2>4. f = IF OnDisk(Processed, "parquet") THEN "parquet" ELSE "pkl"
    BY <2>2, <2>3, ReadFormatIs DEF IInv
  <2>5. Fresh(r, f)
    <3>1. Fresh(r, "pkl") /\ (files[Processed]["parquet"] = Absent \/ Fresh(r, "parquet"))
      BY <2>1 DEF IInv, Building
    <3> QED  BY <2>4, <3>1 DEF OnDisk, Absent
  <2>6. files[Processed][f].state # "torn"
    BY <2>3, <2>4 DEF ReadRaises
  <2>7. PICK s \in Runs \ earlier[r] : files[Processed][f] = Whole(MadeBy(s))
    BY <2>5, <2>6 DEF Fresh
  <2> QED  BY <2>6, <2>7 DEF ReadTable, Whole
<1> QED  BY <1>1, Invariant, PTL

\* rl_common.py:73-107. The directory of a run that is done is not given to a
\* later run.
THEOREM DirectoriesOwn == Spec => []OwnDirectory
  BY Invariant, PTL DEF IInv
=============================================================================

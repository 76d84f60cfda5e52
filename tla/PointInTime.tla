------------------------------ MODULE PointInTime ------------------------------
(***************************************************************************)
(* The point-in-time search environment of the stock agent: build_data     *)
(* writes the processed tables (rl_data.py), the exported dataset turns    *)
(* tasks into training and validation rows (rl_dataset.py), and the seven  *)
(* tools answer from tables each training process loads once               *)
(* (rl_tools.py).                                                          *)
(*                                                                         *)
(* Prices, texts and scores are left out. What a row keeps is when: its    *)
(* date, the time it claims to be visible from, and the time of the newest *)
(* data it was computed from. One stock and its industry stand for all.    *)
(***************************************************************************)
EXTENDS Integers, Sequences, FiniteSets

CONSTANTS
    TradingDays,    \* days with prices
    Announced,      \* days with an announcement of the stock
    Reported,       \* days on which a financial report was announced
    Configs,        \* the settings build_data is run with
    Horizon,        \* MVPConfig.horizon, in trading days
    Warmup,         \* trading days before the factors are defined
    AskedDays,      \* bound: the days an agent names
    AskAhead,       \* bound: how far beyond its task they lie
    MaxLoaded,      \* bound: tables one training process asks for
    MaxBuilds       \* bound: runs of build_data

ASSUME CalendarAssumption ==
    /\ TradingDays \subseteq Nat \ {0} /\ IsFiniteSet(TradingDays)
    /\ Announced \subseteq Nat \ {0} /\ Reported \subseteq Nat \ {0}
    /\ Horizon \in Nat \ {0} /\ Warmup \in Nat
    /\ AskedDays \subseteq Nat
    /\ AskAhead \in Nat /\ MaxLoaded \in Nat /\ MaxBuilds \in Nat

ASSUME ConfigsAssumption ==
    Configs \subseteq [end_date : Nat \ {0}, sample_stride : Nat \ {0},
                       max_tasks : Nat, train_end_date : Nat, valid_end_date : Nat]

\* Mutant: tasks and labels are built before the tables the tools read.
OrderTasksFirst ==
    <<"tasks", "labels", "factor_snapshot", "market_context", "industry_context",
      "peer_context", "fundamental_snapshot", "announcements", "news">>

\* The processed tables in the order in which build_data saves them; the label
\* table is written last and is read by no tool.
Order == <<"factor_snapshot", "market_context", "industry_context", "peer_context",
           "fundamental_snapshot", "announcements", "news", "tasks", "labels">>
Tables == {Order[i] : i \in 1..Len(Order)}

VARIABLES
    store,      \* the settings each table on disk was built with, or NoBuild
    building,   \* the settings of the build that is running, or NoBuild
    step,       \* the table it writes next
    builds,     \* builds started
    dataset,    \* the merged rows and the two files exported from them
    cache,      \* _TOOL_TABLE_CACHE of the training process, as store
    task,       \* the task of the current rollout, or NoTask
    answer      \* the last tool result with rows in it, or NoAnswer

vars == <<store, building, step, builds, dataset, cache, task, answer>>

NoBuild == [end_date |-> 0, sample_stride |-> 0, max_tasks |-> 0,
            train_end_date |-> 0, valid_end_date |-> 0]
NoTask == [day |-> 0, entry |-> 0, exit |-> 0, split |-> "none"]
NoAnswer == [table |-> "none", asked |-> 0, rows |-> {}]
NoDataset == [rows |-> {}, train |-> {}, valid |-> {}]

-----------------------------------------------------------------------------
\* Times: five moments of a day. Prices are known at the close; a task is dated
\* 15:30, derived news 15:35, valuation notes 15:40, announcements 18:00.
Close == 0
AsOf == 1
NewsTime == 2
NoteTime == 3
AnnounceTime == 4
At(day, moment) == 5 * day + moment
DayOf(time) == time \div 5

Latest(S) == CHOOSE x \in S : \A y \in S : y <= x
Least(a, b) == IF a <= b THEN a ELSE b
Greatest(a, b) == IF a >= b THEN a ELSE b

\* The trading days a build has prices for, and shift(-n) over them.
Days(c) == {d \in TradingDays : d <= c.end_date}
Shifts(c, day, n) ==
    {e \in Days(c) : e > day /\ Cardinality({x \in Days(c) : day < x /\ x <= e}) = n}

Row(day, time, newest) == [day |-> day, time |-> time, newest |-> newest]

\* Rolling windows, shifts back and ranks within a date: a factor or market row
\* knows the prices up to its own close.
DailyRows(c) == {Row(d, At(d, AsOf), At(d, Close)) : d \in Days(c)}

\* A rank over the whole table: each industry row's percentiles, and each peer
\* score, depend on every date of the table.
RankedRows(c) ==
    {Row(d, At(d, AsOf), At(Latest(Days(c)), Close)) : d \in Days(c)}

\* Mutant: merge_asof takes the first report, not the last.
ReportFirst(c, day) ==
    {r \in Reported : /\ r <= day /\ r <= c.end_date
                      /\ \A q \in Reported : r <= q}

\* merge_asof(direction="backward"): the last report fetched and announced by
\* the day, if there is one.
Report(c, day) ==
    {r \in Reported : /\ r <= day /\ r <= c.end_date
                      /\ \A q \in Reported : q <= day /\ q <= c.end_date => q <= r}

\* One row per factor row, published when its report was, if it has one.
FundamentalRows(c) ==
    {Row(d, At(d, AsOf), At(d, Close)) : d \in {x \in Days(c) : Report(c, x) = {}}}
    \cup UNION {{Row(d, At(r, AsOf), Greatest(At(d, Close), At(r, AsOf))) :
                    r \in Report(c, d)} : d \in Days(c)}

\* Announcements of the service, and a valuation note per factor row.
AnnouncementRows(c) ==
    {Row(a, At(a, AnnounceTime), At(a, AnnounceTime)) :
        a \in {x \in Announced : x <= c.end_date}}
    \cup {Row(d, At(d, NoteTime), At(d, Close)) : d \in Days(c)}

NewsRows(c) == {Row(d, At(d, NewsTime), At(d, Close)) : d \in Days(c)}

Content(table, c) ==
    CASE table \in {"factor_snapshot", "market_context"} -> DailyRows(c)
      [] table \in {"industry_context", "peer_context"} -> RankedRows(c)
      [] table = "fundamental_snapshot" -> FundamentalRows(c)
      [] table = "announcements" -> AnnouncementRows(c)
      [] table = "news" -> NewsRows(c)

-----------------------------------------------------------------------------
\* Mutant: the position is entered at the day's own close.
EntrySameDay(c, day) == {day}

\* The price the label's return starts from, and the one it ends at.
Entry(c, day) == Shifts(c, day, 1)
Exit(c, day) == Shifts(c, day, 1 + Horizon)

\* Days whose factors are defined and whose label is known; every
\* sample_stride-th of them is sampled.
LabelledDays(c) ==
    {d \in Days(c) : /\ Cardinality({x \in Days(c) : x < d}) >= Warmup
                     /\ Exit(c, d) # {}}
SampledDays(c) ==
    {d \in LabelledDays(c) :
        Cardinality({x \in LabelledDays(c) : x < d}) % c.sample_stride = 0}

\* More than max_tasks of them are thinned out by a whole step, then cut off.
KeptDays(c) ==
    LET n == Cardinality(SampledDays(c))
        apart == Greatest(1, n \div c.max_tasks)
        Position(d) == Cardinality({x \in SampledDays(c) : x < d})
    IN  IF c.max_tasks = 0 \/ n <= c.max_tasks THEN SampledDays(c)
        ELSE {d \in SampledDays(c) : /\ Position(d) % apart = 0
                                     /\ Position(d) < apart * c.max_tasks}

SplitOf(c, day) ==
    IF day <= c.train_end_date THEN "train"
    ELSE IF day <= c.valid_end_date THEN "valid" ELSE "test"

\* tasks and labels have a row for the same days.
Tasks(c) ==
    {[day |-> d, entry |-> Latest(Entry(c, d)), exit |-> Latest(Exit(c, d)),
      split |-> SplitOf(c, d)] : d \in KeptDays(c)}

\* The inner merge of tasks with labels, which may be of another build.
Merged(c, labels) ==
    {t \in Tasks(c) : \E l \in Tasks(labels) :
        l.day = t.day /\ l.entry = t.entry /\ l.exit = t.exit}

OfSplit(rows, split) == {t \in rows : t.split = split}
TenthOf(rows) == Greatest(1, Cardinality(rows) \div 10)
SomeOf(rows, n) == {S \in SUBSET rows : Cardinality(S) = Least(n, Cardinality(rows))}

\* Mutant: without a validation split any row may validate.
ValidRowsAny(rows) ==
    IF OfSplit(rows, "valid") # {} THEN {OfSplit(rows, "valid")}
    ELSE SomeOf(rows, TenthOf(rows))

\* The validation rows, with the fallbacks: some of the test rows (the rows are
\* shuffled), or, without any, some of the training rows.
ValidRows(rows) ==
    IF OfSplit(rows, "valid") # {} THEN {OfSplit(rows, "valid")}
    ELSE IF OfSplit(rows, "test") # {} THEN SomeOf(OfSplit(rows, "test"), TenthOf(rows))
    ELSE SomeOf(OfSplit(rows, "train"), TenthOf(rows))

TrainRows(rows) ==
    IF OfSplit(rows, "train") # {} THEN OfSplit(rows, "train") ELSE rows

-----------------------------------------------------------------------------
Init ==
    /\ store = [t \in Tables |-> NoBuild]
    /\ building = NoBuild /\ step = 1 /\ builds = 0
    /\ dataset = NoDataset
    /\ cache = [t \in Tables |-> NoBuild]
    /\ task = NoTask /\ answer = NoAnswer

training == <<dataset, cache, task, answer>>

\* build_data starts, or a build that was interrupted is followed by another.
StartBuild(c) ==
    /\ builds < MaxBuilds
    /\ building' = c /\ step' = 1 /\ builds' = builds + 1
    /\ UNCHANGED <<store, training>>

\* Mutant: the build ends one table early.
WriteTableShort ==
    /\ building # NoBuild
    /\ store' = [store EXCEPT ![Order[step]] = building]
    /\ IF step = Len(Order) - 1 THEN building' = NoBuild /\ step' = 1
                                ELSE UNCHANGED building /\ step' = step + 1
    /\ UNCHANGED <<builds, training>>

\* The build saves its next table, computed from those it has just saved.
WriteTable ==
    /\ building # NoBuild
    /\ store' = [store EXCEPT ![Order[step]] = building]
    /\ IF step = Len(Order) THEN building' = NoBuild /\ step' = 1
                            ELSE UNCHANGED building /\ step' = step + 1
    /\ UNCHANGED <<builds, training>>

\* export_verl_dataset and the training launched on it, whose processes start
\* with empty caches.
Train ==
    /\ store["tasks"] # NoBuild /\ store["labels"] # NoBuild
    /\ LET rows == Merged(store["tasks"], store["labels"])
       IN  \E valid \in ValidRows(rows) :
              dataset' = [rows |-> rows, train |-> TrainRows(rows), valid |-> valid]
    /\ cache' = [t \in Tables |-> NoBuild]
    /\ task' = NoTask /\ answer' = NoAnswer
    /\ UNCHANGED <<store, building, step, builds>>

\* A rollout of some row of the dataset begins.
StartRollout(t) ==
    /\ t \in dataset.train \cup dataset.valid
    /\ task' = t /\ answer' = NoAnswer
    /\ UNCHANGED <<store, building, step, builds, dataset, cache>>

\* _load_tool_table: the cached table, or the one on disk, which is then kept.
Loaded(table) == IF cache[table] # NoBuild THEN cache[table] ELSE store[table]

Result(table, asked, rows) ==
    /\ cache' = [cache EXCEPT ![table] = Loaded(table)]
    /\ answer' = [table |-> table, asked |-> asked, rows |-> rows]
    /\ UNCHANGED <<store, building, step, builds, dataset, task>>

\* The agent fills in the dates; nothing ties as_of_date to its task. A table
\* that does not exist gives an error, or for a search no result.
Asks(table, asked) ==
    /\ task # NoTask /\ Loaded(table) # NoBuild
    /\ asked \in (task.day - 1)..(task.day + AskAhead)
    /\ Cardinality({t \in Tables : cache[t] # NoBuild} \cup {table}) <= MaxLoaded

\* get_price_factors, get_market_context, get_industry_context and
\* get_peer_context answer for one date; without a row they return an error.
GetRow(table, asked) ==
    /\ Asks(table, asked)
    /\ Result(table, asked, {r \in Content(table, Loaded(table)) : r.day = asked})

\* get_fundamental_snapshot: the last row dated on or before the date.
GetFundamentalSnapshot(asked) ==
    /\ Asks("fundamental_snapshot", asked)
    /\ LET rows == {r \in Content("fundamental_snapshot", Loaded("fundamental_snapshot")) :
                       r.day <= asked}
       IN  Result("fundamental_snapshot", asked,
                  {r \in rows : \A q \in rows : q.day <= r.day})

\* Mutant: an end beyond the date is believed.
ClippedNever(end, asked) == end

Clipped(end, asked) == IF end > asked THEN asked ELSE end

\* search_announcements and search_news: of the documents dated from start to
\* the clipped end, those that rank highest for the query (top_k is 1).
Search(table, asked, start, end) ==
    /\ Asks(table, asked)
    /\ LET found == {r \in Content(table, Loaded(table)) :
                         /\ DayOf(r.time) >= start
                         /\ DayOf(r.time) <= Clipped(end, asked)}
       IN  \/ Result(table, asked, {})
           \/ \E r \in found : Result(table, asked, {r})

GetRowTables == {"factor_snapshot", "market_context", "industry_context", "peer_context"}

Next ==
    \/ \E c \in Configs : StartBuild(c)
    \/ WriteTable
    \/ Train
    \/ \E t \in dataset.train \cup dataset.valid : StartRollout(t)
    \/ \E asked \in AskedDays :
          \/ \E table \in GetRowTables : GetRow(table, asked)
          \/ GetFundamentalSnapshot(asked)
          \/ \E table \in {"announcements", "news"}, end \in {asked - 1, asked, asked + 1} :
                 Search(table, asked, asked - 1, end)

Spec == Init /\ [][Next]_vars

-----------------------------------------------------------------------------
\* Types, and a build writes no table beyond the last.
TypeOK ==
    /\ store \in [Tables -> Configs \cup {NoBuild}]
    /\ cache \in [Tables -> Configs \cup {NoBuild}]
    /\ building \in Configs \cup {NoBuild}
    /\ step \in 1..Len(Order)
    /\ builds \in 0..MaxBuilds
    /\ answer.table \in Tables \cup {"none"} /\ answer.asked \in Nat

\* When a build has run to its end all tables, the first as the last, are its own.
ConsistentStore ==
    building = NoBuild => \A t \in Tables : store[t] = store["factor_snapshot"]

\* What a training run can ask for is on disk.
TablesExist ==
    dataset # NoDataset \/ task # NoTask => \A t \in Tables : store[t] # NoBuild

\* Whatever builds were interrupted, build_data never leaves a mixture when it
\* has run to its end; and while one is interrupted, a dataset exported or a
\* task rolled out meanwhile finds every table the tools read.
WholeBuilds == ConsistentStore /\ TablesExist

\* No tool shows a row dated after the date it was asked for, nor, leaving aside
\* the tables ranked over all dates, one computed from later data, even if
\* tables of different builds are cached and the search window ends later.
Ranked == {"industry_context", "peer_context"}
PointInTimeAnswers ==
    \A r \in answer.rows :
        /\ DayOf(r.time) <= answer.asked
        /\ answer.table \notin Ranked => DayOf(r.newest) <= answer.asked

\* The return a task is rewarded for starts after everything shown about it: at
\* its own date nothing shown was computed from the price it is entered at.
LabelBeyondShown ==
    answer.asked = task.day /\ answer.table \notin Ranked =>
        \A r \in answer.rows : r.newest < At(task.entry, Close)

\* The fundamentals shown are those of the last trading day of the table, and
\* of the last report announced by then.
LatestReport ==
    answer.table = "fundamental_snapshot" =>
        \A r \in answer.rows :
            /\ \A d \in Days(cache[answer.table]) : d <= answer.asked => d <= r.day
            /\ \A q \in Reported : q <= r.day => q <= DayOf(r.time)

\* Validation is on rows that are not trained on, whenever the merge has rows of
\* the training split and of another, and tasks and labels may be of
\* different builds.
HeldOut ==
    LET forTraining == OfSplit(dataset.rows, "train")
    IN  forTraining # {} /\ dataset.rows # forTraining =>
            dataset.train \cap dataset.valid = {}

\* The plan's rule for factors: only data up to the date asked for. The ranked
\* tables break it.
FactorsFromPast ==
    answer.table \in GetRowTables =>
        \A r \in answer.rows : DayOf(r.newest) <= answer.asked

\* The plan's rule for documents: at a task's own date, no announcement that
\* takes effect after its as_of of 15:30. Comparing dates only breaks it.
EffectiveByAsOf ==
    answer.table = "announcements" /\ answer.asked = task.day =>
        \A r \in answer.rows : r.time <= At(task.day, AsOf)
=============================================================================

-------------------------- MODULE PointInTime_proofs --------------------------
(***************************************************************************)
(* The tools answer from the past and as currently as the tables allow,    *)
(* labels are kept apart from what is shown and validation rows from those *)
(* trained on, and what a training run asks for is on disk: for every      *)
(* calendar, every settings of the builds, however many are interrupted.   *)
(***************************************************************************)
EXTENDS PointInTime, FiniteSetTheorems, WellFoundedInduction, TLAPS

Moments == {Close, AsOf, NewsTime, NoteTime, AnnounceTime}

\* A moment of a day lies in that day.
LEMMA DayOfAt ==
    ASSUME NEW d \in Nat, NEW m \in Moments
    PROVE  DayOf(At(d, m)) = d
<1>1. m \in Nat /\ m < 5
  BY DEF Moments, Close, AsOf, NewsTime, NoteTime, AnnounceTime
<1>2. (5 * d + m) \div 5 = d
  BY <1>1
<1> QED BY <1>2 DEF DayOf, At

\* The settings of a build are never those of no build.
LEMMA ConfigIsBuild ==
    ASSUME NEW c \in Configs
    PROVE  c # NoBuild
BY ConfigsAssumption DEF NoBuild

\* The build order lists every table once.
LEMMA OrderLength == Len(Order) = 9
BY DEF Order

LEMMA OrderOnce ==
    ASSUME NEW i \in 1..Len(Order), NEW j \in 1..Len(Order), Order[i] = Order[j]
    PROVE  i = j
<1>1. i \in 1..9 /\ j \in 1..9
  BY OrderLength
<1> QED BY <1>1 DEF Order

LEMMA OrderTables ==
    /\ \A i \in 1..Len(Order) : Order[i] \in Tables
    /\ \A t \in Tables : \E i \in 1..Len(Order) : t = Order[i]
BY DEF Tables

LEMMA OrderEnds ==
    /\ Order[1] = "factor_snapshot" /\ Order[8] = "tasks" /\ Order[9] = "labels"
BY DEF Order

-----------------------------------------------------------------------------
\* Price, market, industry and peer rows are visible on their own date, and the
\* first two were computed from nothing later.
LEMMA RowsDated ==
    ASSUME NEW c, NEW t \in GetRowTables, NEW r \in Content(t, c)
    PROVE  /\ DayOf(r.time) = r.day
           /\ t \notin Ranked => DayOf(r.newest) = r.day
<1>1. CASE t \in {"factor_snapshot", "market_context"}
  <2>1. r \in DailyRows(c)
    BY <1>1 DEF Content
  <2>2. PICK d \in Days(c) : r = Row(d, At(d, AsOf), At(d, Close))
    BY <2>1 DEF DailyRows
  <2>3. d \in Nat
    BY CalendarAssumption DEF Days
  <2>4. r.day = d /\ r.time = At(d, AsOf) /\ r.newest = At(d, Close)
    BY <2>2 DEF Row
  <2> QED BY <2>3, <2>4, DayOfAt DEF Moments
<1>2. CASE t \in Ranked
  <2>1. r \in RankedRows(c)
    BY <1>2 DEF Content, Ranked
  <2>2. PICK d \in Days(c) :
               r = Row(d, At(d, AsOf), At(Latest(Days(c)), Close))
    BY <2>1 DEF RankedRows
  <2>3. d \in Nat
    BY CalendarAssumption DEF Days
  <2>4. r.day = d /\ r.time = At(d, AsOf)
    BY <2>2 DEF Row
  <2> QED BY <1>2, <2>3, <2>4, DayOfAt DEF Moments
<1> QED BY <1>1, <1>2 DEF GetRowTables, Ranked

\* A fundamental row shows no report announced after its date.
LEMMA FundamentalsDated ==
    ASSUME NEW c, NEW r \in Content("fundamental_snapshot", c)
    PROVE  /\ r.day \in Nat /\ DayOf(r.time) \in Nat /\ DayOf(r.newest) \in Nat
           /\ DayOf(r.time) <= r.day /\ DayOf(r.newest) <= r.day
<1>1. r \in FundamentalRows(c)
  BY DEF Content
<1>2. CASE \E d \in Days(c) : r = Row(d, At(d, AsOf), At(d, Close))
  <2>1. PICK d \in Days(c) : r = Row(d, At(d, AsOf), At(d, Close))
    BY <1>2
  <2>2. d \in Nat
    BY CalendarAssumption DEF Days
  <2>3. r.day = d /\ r.time = At(d, AsOf) /\ r.newest = At(d, Close)
    BY <2>1 DEF Row
  <2>4. DayOf(At(d, AsOf)) = d /\ DayOf(At(d, Close)) = d
    BY <2>2, DayOfAt DEF Moments
  <2> QED BY <2>2, <2>3, <2>4
<1>3. CASE \E d \in Days(c) : \E q \in Report(c, d) :
              r = Row(d, At(q, AsOf), Greatest(At(d, Close), At(q, AsOf)))
  <2>0. PICK d \in Days(c) : \E q \in Report(c, d) :
               r = Row(d, At(q, AsOf), Greatest(At(d, Close), At(q, AsOf)))
    BY <1>3
  <2>1. PICK q \in Report(c, d) :
               r = Row(d, At(q, AsOf), Greatest(At(d, Close), At(q, AsOf)))
    BY <2>0
  <2>2. d \in Nat /\ q \in Nat /\ q <= d
    BY CalendarAssumption DEF Days, Report
  <2>3. /\ r.day = d /\ r.time = At(q, AsOf)
        /\ r.newest = Greatest(At(d, Close), At(q, AsOf))
    BY <2>1 DEF Row
  <2>4. r.newest \in {At(d, Close), At(q, AsOf)}
    BY <2>3 DEF Greatest
  <2>5. DayOf(At(d, Close)) = d /\ DayOf(At(q, AsOf)) = q
    BY <2>2, DayOfAt DEF Moments
  <2>6. DayOf(r.newest) \in {d, q}
    BY <2>4, <2>5
  <2> QED BY <2>2, <2>3, <2>5, <2>6
<1> QED BY <1>1, <1>2, <1>3 DEF FundamentalRows

\* A document was written from what was known on the day it takes effect.
LEMMA DocumentsDated ==
    ASSUME NEW c, NEW t \in {"announcements", "news"}, NEW r \in Content(t, c)
    PROVE  DayOf(r.time) \in Nat /\ DayOf(r.newest) = DayOf(r.time)
<1>1. \E d \in Nat, m \in Moments, n \in Moments : r = Row(d, At(d, m), At(d, n))
  <2>1. CASE r \in AnnouncementRows(c)
    <3>1. CASE \E a \in Announced :
                  r = Row(a, At(a, AnnounceTime), At(a, AnnounceTime))
      BY <3>1, CalendarAssumption DEF Moments
    <3>2. CASE \E d \in Days(c) : r = Row(d, At(d, NoteTime), At(d, Close))
      BY <3>2, CalendarAssumption DEF Moments, Days
    <3> QED BY <2>1, <3>1, <3>2 DEF AnnouncementRows
  <2>2. CASE r \in NewsRows(c)
    BY <2>2, CalendarAssumption DEF Moments, Days, NewsRows
  <2> QED BY <2>1, <2>2 DEF Content
<1>2. PICK d \in Nat, m \in Moments, n \in Moments : r = Row(d, At(d, m), At(d, n))
  BY <1>1
<1>3. r.time = At(d, m) /\ r.newest = At(d, n)
  BY <1>2 DEF Row
<1> QED BY <1>3, DayOfAt

-----------------------------------------------------------------------------
\* The tables of the running build are the first step - 1, and a table is only
\* there when all before it are.
Progress ==
    /\ building = NoBuild => step = 1
    /\ building # NoBuild =>
          \A i \in 1..Len(Order) : i < step => store[Order[i]] = building
Prefix ==
    \A i, j \in 1..Len(Order) :
        i <= j /\ store[Order[j]] # NoBuild => store[Order[i]] # NoBuild

Inv == TypeOK /\ Progress /\ Prefix /\ ConsistentStore /\ TablesExist

\* Once the last table is there, all are.
LEMMA LastTableLast ==
    ASSUME Prefix, store["labels"] # NoBuild
    PROVE  \A t \in Tables : store[t] # NoBuild
<1>1. 9 \in 1..Len(Order) /\ Order[9] = "labels"
  BY OrderLength, OrderEnds
<1>2. \A i \in 1..Len(Order) : store[Order[i]] # NoBuild
  BY <1>1, OrderLength DEF Prefix
<1> QED BY <1>2, OrderTables

\* A step of the build keeps the invariant.
LEMMA WriteTableInv ==
    ASSUME Inv, WriteTable
    PROVE  Inv'
<1> USE DEF Inv
<1>1. step \in 1..9 /\ Len(Order) = 9 /\ building \in Configs /\ building # NoBuild
  BY OrderLength DEF WriteTable, TypeOK
<1>2. Order[step] \in Tables
  BY <1>1, OrderTables
<1>3. \A i \in 1..9 : store'[Order[i]] = IF i = step THEN building ELSE store[Order[i]]
  <2> TAKE i \in 1..9
  <2>1. Order[i] \in Tables
    BY <1>1, OrderTables
  <2>2. Order[i] = Order[step] => i = step
    BY <1>1, OrderOnce
  <2> QED BY <1>2, <2>1, <2>2 DEF WriteTable, TypeOK
<1>4. TypeOK'
  <2>1. store' \in [Tables -> Configs \cup {NoBuild}]
    BY <1>1, <1>2 DEF WriteTable, TypeOK
  <2>2. building' \in Configs \cup {NoBuild} /\ step' \in 1..Len(Order)
    BY <1>1 DEF WriteTable, TypeOK
  <2> QED BY <2>1, <2>2 DEF WriteTable, TypeOK, training
<1>5. \A i \in 1..9 : i <= step => store'[Order[i]] = building
  BY <1>1, <1>3 DEF Progress
<1>6. Progress'
  BY <1>1, <1>5 DEF WriteTable, Progress
<1>7. Prefix'
  <2> SUFFICES ASSUME NEW i \in 1..9, NEW j \in 1..9, i <= j,
                      store'[Order[j]] # NoBuild
               PROVE  store'[Order[i]] # NoBuild
    BY <1>1 DEF Prefix
  <2>1. CASE i <= step
    BY <2>1, <1>1, <1>5
  <2>2. CASE i > step
    <3>1. store'[Order[j]] = store[Order[j]] /\ store'[Order[i]] = store[Order[i]]
      BY <2>2, <1>1, <1>3
    <3> QED BY <3>1, <1>1 DEF Prefix
  <2> QED BY <2>1, <2>2, <1>1
<1>8. ConsistentStore'
  <2> SUFFICES ASSUME building' = NoBuild, NEW t \in Tables
               PROVE  store'[t] = store'["factor_snapshot"]
    BY DEF ConsistentStore
  <2>1. step = 9
    BY <1>1 DEF WriteTable
  <2>2. \A i \in 1..9 : store'[Order[i]] = building
    BY <2>1, <1>5
  <2>3. Order[1] = "factor_snapshot"
    BY OrderEnds
  <2>4. store'["factor_snapshot"] = building
    BY <2>2, <2>3
  <2>5. PICK i \in 1..9 : t = Order[i]
    BY <1>1, OrderTables
  <2> QED BY <2>2, <2>4, <2>5
<1>9. TablesExist'
  <2>1. \A t \in Tables : store[t] # NoBuild => store'[t] # NoBuild
    BY <1>1, <1>2 DEF WriteTable, TypeOK
  <2> QED BY <2>1 DEF WriteTable, training, TablesExist
<1> QED BY <1>4, <1>6, <1>7, <1>8, <1>9

\* A tool call touches only the cache and the answer.
LEMMA ResultInv ==
    ASSUME Inv, NEW table \in Tables, NEW asked \in Nat, NEW rows,
           Result(table, asked, rows)
    PROVE  Inv'
<1>1. Loaded(table) \in Configs \cup {NoBuild}
  BY DEF Inv, TypeOK, Loaded
<1>2. TypeOK'
  <2>1. cache' \in [Tables -> Configs \cup {NoBuild}]
    BY <1>1 DEF Inv, TypeOK, Result
  <2>2. answer'.table = table /\ answer'.asked = asked
    BY DEF Result
  <2> QED BY <2>1, <2>2 DEF Inv, TypeOK, Result
<1>3. (Progress /\ Prefix /\ ConsistentStore)'
  BY DEF Inv, Result, Progress, Prefix, ConsistentStore
<1>4. TablesExist'
  BY DEF Inv, Result, TablesExist
<1> QED BY <1>2, <1>3, <1>4 DEF Inv

\* However builds and training runs interleave: types, the tables of the running
\* build, and the order in which tables come to exist.
THEOREM Invariance == Spec => []Inv
<1>1. Init => Inv
  <2> SUFFICES ASSUME Init PROVE Inv
    OBVIOUS
  <2>1. TypeOK
    BY OrderLength, CalendarAssumption DEF Init, TypeOK, NoAnswer
  <2>2. Progress /\ Prefix
    <3>1. \A i \in 1..Len(Order) : store[Order[i]] = NoBuild
      BY OrderTables DEF Init
    <3> QED BY <3>1 DEF Init, Progress, Prefix
  <2>3. ConsistentStore
    <3>1. "factor_snapshot" \in Tables
      BY OrderTables, OrderEnds, OrderLength
    <3> QED BY <3>1 DEF Init, ConsistentStore
  <2> QED BY <2>1, <2>2, <2>3 DEF Init, Inv, TablesExist
<1>2. Inv /\ [Next]_vars => Inv'
  <2> SUFFICES ASSUME Inv, [Next]_vars PROVE Inv'
    OBVIOUS
  <2>1. ASSUME NEW c \in Configs, StartBuild(c) PROVE Inv'
    <3>1. TypeOK'
      BY <2>1, OrderLength, CalendarAssumption DEF Inv, StartBuild, TypeOK, training
    <3>2. building' # NoBuild /\ step' = 1
      BY <2>1, ConfigIsBuild DEF StartBuild
    <3>3. Progress' /\ ConsistentStore'
      BY <3>2, OrderLength DEF Progress, ConsistentStore
    <3>4. Prefix' /\ TablesExist'
      BY <2>1 DEF Inv, StartBuild, training, Prefix, TablesExist
    <3> QED BY <3>1, <3>3, <3>4 DEF Inv
  <2>2. ASSUME WriteTable PROVE Inv'
    BY <2>2, WriteTableInv
  <2>3. ASSUME Train PROVE Inv'
    <3>1. \A t \in Tables : store[t] # NoBuild
      BY <2>3, LastTableLast DEF Train, Inv
    <3>2. TypeOK'
      BY <2>3 DEF Inv, Train, TypeOK, NoAnswer
    <3>3. (Progress /\ Prefix /\ ConsistentStore)'
      BY <2>3 DEF Inv, Train, Progress, Prefix, ConsistentStore
    <3>4. TablesExist'
      BY <2>3, <3>1 DEF Train, TablesExist
    <3> QED BY <3>2, <3>3, <3>4 DEF Inv
  <2>4. ASSUME NEW t \in dataset.train \cup dataset.valid, StartRollout(t) PROVE Inv'
    <3>1. dataset # NoDataset
      BY DEF NoDataset
    <3>2. TypeOK'
      BY <2>4 DEF Inv, StartRollout, TypeOK, NoAnswer
    <3>3. (Progress /\ Prefix /\ ConsistentStore)'
      BY <2>4 DEF Inv, StartRollout, Progress, Prefix, ConsistentStore
    <3>4. TablesExist'
      BY <2>4, <3>1 DEF Inv, StartRollout, TablesExist
    <3> QED BY <3>2, <3>3, <3>4 DEF Inv
  <2>5. ASSUME NEW asked \in AskedDays, NEW table \in GetRowTables, GetRow(table, asked)
        PROVE  Inv'
    <3>1. table \in Tables /\ asked \in Nat
      BY CalendarAssumption DEF GetRowTables, Tables, Order
    <3> QED BY <2>5, <3>1, ResultInv DEF GetRow
  <2>6. ASSUME NEW asked \in AskedDays, GetFundamentalSnapshot(asked) PROVE Inv'
    <3>1. "fundamental_snapshot" \in Tables /\ asked \in Nat
      BY CalendarAssumption DEF Tables, Order
    <3> QED BY <2>6, <3>1, ResultInv DEF GetFundamentalSnapshot
  <2>7. ASSUME NEW asked \in AskedDays, NEW table \in {"announcements", "news"},
               NEW start, NEW end, Search(table, asked, start, end)
        PROVE  Inv'
    <3>1. table \in Tables /\ asked \in Nat
      BY CalendarAssumption DEF Tables, Order
    <3>2. \E rows : Result(table, asked, rows)
      BY <2>7 DEF Search
    <3> QED BY <3>1, <3>2, ResultInv
  <2>8. CASE UNCHANGED vars
    BY <2>8 DEF vars, Inv, TypeOK, Progress, Prefix, ConsistentStore, TablesExist
  <2> QED BY <2>1, <2>2, <2>3, <2>4, <2>5, <2>6, <2>7, <2>8 DEF Next
<1> QED BY <1>1, <1>2, PTL DEF Spec

\* Whatever builds were interrupted, one that has run to its end leaves only its
\* own tables, and no rollout asks for a table that has never been written.
THEOREM BuildsWhole == Spec => []WholeBuilds
<1>1. Inv => WholeBuilds
  BY DEF Inv, WholeBuilds
<1> QED BY <1>1, Invariance, PTL

-----------------------------------------------------------------------------
\* No tool answers with a row of a later date or, the ranked tables aside, with
\* one computed from later data, for any calendar, settings and cached tables.
THEOREM NothingFromTheFuture == Spec => []PointInTimeAnswers
<1>1. Init => PointInTimeAnswers
  BY DEF Init, NoAnswer, PointInTimeAnswers
<1>2. PointInTimeAnswers /\ [Next]_vars => PointInTimeAnswers'
  <2> SUFFICES ASSUME PointInTimeAnswers, [Next]_vars PROVE PointInTimeAnswers'
    OBVIOUS
  <2>1. CASE UNCHANGED answer
    BY <2>1 DEF PointInTimeAnswers
  <2>2. CASE answer' = NoAnswer
    BY <2>2 DEF NoAnswer, PointInTimeAnswers
  <2>3. ASSUME NEW asked \in AskedDays, NEW table \in GetRowTables, GetRow(table, asked)
        PROVE  PointInTimeAnswers'
    <3>1. asked \in Nat
      BY CalendarAssumption
    <3>2. /\ answer'.table = table /\ answer'.asked = asked
          /\ \A r \in answer'.rows : r \in Content(table, Loaded(table)) /\ r.day = asked
      BY <2>3 DEF GetRow, Result
    <3>3. \A r \in answer'.rows : /\ DayOf(r.time) = asked
                                  /\ table \notin Ranked => DayOf(r.newest) = asked
      BY <3>2, RowsDated
    <3> QED BY <3>1, <3>2, <3>3 DEF PointInTimeAnswers
  <2>4. ASSUME NEW asked \in AskedDays, GetFundamentalSnapshot(asked)
        PROVE  PointInTimeAnswers'
    <3> DEFINE c == Loaded("fundamental_snapshot")
    <3>1. asked \in Nat
      BY CalendarAssumption
    <3>2. /\ answer'.asked = asked
          /\ \A r \in answer'.rows :
                r \in Content("fundamental_snapshot", c) /\ r.day <= asked
      BY <2>4 DEF GetFundamentalSnapshot, Result
    <3>3. ASSUME NEW r \in answer'.rows
          PROVE  DayOf(r.time) <= asked /\ DayOf(r.newest) <= asked
      <4>1. /\ r.day \in Nat /\ DayOf(r.time) \in Nat /\ DayOf(r.newest) \in Nat
            /\ DayOf(r.time) <= r.day /\ DayOf(r.newest) <= r.day
        BY <3>2, FundamentalsDated
      <4> QED BY <3>1, <3>2, <4>1
    <3> QED BY <3>2, <3>3 DEF PointInTimeAnswers
  <2>5. ASSUME NEW asked \in AskedDays, NEW table \in {"announcements", "news"},
               NEW start, NEW end \in Int, Search(table, asked, start, end)
        PROVE  PointInTimeAnswers'
    <3>1. asked \in Nat
      BY CalendarAssumption
    <3>2. Clipped(end, asked) \in Int /\ Clipped(end, asked) <= asked
      BY <3>1 DEF Clipped
    <3>3. /\ answer'.asked = asked
          /\ \A r \in answer'.rows : /\ r \in Content(table, Loaded(table))
                                     /\ DayOf(r.time) <= Clipped(end, asked)
      BY <2>5 DEF Search, Result
    <3>4. ASSUME NEW r \in answer'.rows
          PROVE  DayOf(r.time) <= asked /\ DayOf(r.newest) <= asked
      <4>1. DayOf(r.time) \in Nat /\ DayOf(r.newest) = DayOf(r.time)
        BY <3>3, DocumentsDated
      <4> QED BY <3>1, <3>2, <3>3, <4>1
    <3> QED BY <3>3, <3>4 DEF PointInTimeAnswers
  <2>6. ASSUME NEW asked \in AskedDays
        PROVE  asked - 1 \in Int /\ asked \in Int /\ asked + 1 \in Int
    BY CalendarAssumption
  <2>7. \/ UNCHANGED answer
        \/ answer' = NoAnswer
        \/ \E asked \in AskedDays :
              \/ \E table \in GetRowTables : GetRow(table, asked)
              \/ GetFundamentalSnapshot(asked)
              \/ \E table \in {"announcements", "news"},
                    end \in {asked - 1, asked, asked + 1} :
                    Search(table, asked, asked - 1, end)
    BY DEF Next, StartBuild, WriteTable, Train, StartRollout, training, vars
  <2> QED BY <2>1, <2>2, <2>3, <2>4, <2>5, <2>6, <2>7
<1> QED BY <1>1, <1>2, PTL DEF Spec

-----------------------------------------------------------------------------
\* A fundamental row shows the last report announced by its day.
LEMMA FundamentalsCurrent ==
    ASSUME NEW c \in Configs, NEW r \in FundamentalRows(c)
    PROVE  /\ r.day \in Nat
           /\ \A q \in Reported : q <= r.day => q <= DayOf(r.time)
<1>0. c.end_date \in Nat
  BY ConfigsAssumption
<1>1. CASE \E d \in Days(c) : r = Row(d, At(d, AsOf), At(d, Close))
  <2>1. PICK d \in Days(c) : r = Row(d, At(d, AsOf), At(d, Close))
    BY <1>1
  <2>2. d \in Nat /\ r.day = d /\ r.time = At(d, AsOf)
    BY <2>1, CalendarAssumption DEF Days, Row
  <2>3. DayOf(At(d, AsOf)) = d
    BY <2>2, DayOfAt DEF Moments
  <2> QED BY <2>2, <2>3
<1>2. CASE \E d \in Days(c) : \E p \in Report(c, d) :
              r = Row(d, At(p, AsOf), Greatest(At(d, Close), At(p, AsOf)))
  <2>0. PICK d \in Days(c) : \E p \in Report(c, d) :
               r = Row(d, At(p, AsOf), Greatest(At(d, Close), At(p, AsOf)))
    BY <1>2
  <2>1. PICK p \in Report(c, d) :
               r = Row(d, At(p, AsOf), Greatest(At(d, Close), At(p, AsOf)))
    BY <2>0
  <2>2. d \in Nat /\ p \in Nat /\ r.day = d /\ r.time = At(p, AsOf)
    BY <2>1, CalendarAssumption DEF Days, Report, Row
  <2>3. DayOf(At(p, AsOf)) = p
    BY <2>2, DayOfAt DEF Moments
  <2>4. ASSUME NEW q \in Reported, q <= d PROVE q <= p
    <3>1. q \in Nat /\ d <= c.end_date
      BY CalendarAssumption DEF Days
    <3>2. q <= c.end_date
      BY <1>0, <2>2, <2>4, <3>1
    <3> QED BY <2>4, <3>2 DEF Report
  <2> QED BY <2>2, <2>3, <2>4
<1> QED BY <1>1, <1>2 DEF FundamentalRows

\* Every day with prices has a fundamental row.
LEMMA FundamentalsEveryDay ==
    ASSUME NEW c, NEW d \in Days(c)
    PROVE  \E r \in FundamentalRows(c) : r.day = d
<1>1. CASE Report(c, d) = {}
  <2>1. Row(d, At(d, AsOf), At(d, Close)) \in FundamentalRows(c)
    BY <1>1 DEF FundamentalRows
  <2> QED BY <2>1 DEF Row
<1>2. CASE Report(c, d) # {}
  <2>1. PICK q \in Report(c, d) : TRUE
    BY <1>2
  <2>2. Row(d, At(q, AsOf), Greatest(At(d, Close), At(q, AsOf))) \in FundamentalRows(c)
    BY <2>1 DEF FundamentalRows
  <2> QED BY <2>2 DEF Row
<1> QED BY <1>1, <1>2

\* The fundamentals shown are the last rows, up to the date asked for, of the
\* table the process has cached.
ShownFundamentals ==
    answer.table = "fundamental_snapshot" =>
        /\ cache["fundamental_snapshot"] \in Configs
        /\ \A r \in answer.rows :
              /\ r \in FundamentalRows(cache["fundamental_snapshot"])
              /\ \A q \in FundamentalRows(cache["fundamental_snapshot"]) :
                    q.day <= answer.asked => q.day <= r.day

\* The fundamentals shown are of the last trading day with prices and the last
\* report announced by then, whatever builds the cached tables are from.
THEOREM ReportsCurrent == Spec => []LatestReport
<1>1. Init => ShownFundamentals
  BY DEF Init, NoAnswer, ShownFundamentals
<1>2. Inv /\ ShownFundamentals /\ [Next]_vars => ShownFundamentals'
  <2> SUFFICES ASSUME Inv, ShownFundamentals, [Next]_vars PROVE ShownFundamentals'
    OBVIOUS
  <2>1. CASE UNCHANGED <<cache, answer>>
    BY <2>1 DEF ShownFundamentals
  <2>2. CASE answer' = NoAnswer
    BY <2>2 DEF NoAnswer, ShownFundamentals
  <2>3. ASSUME NEW asked, NEW table \in GetRowTables, GetRow(table, asked)
        PROVE  ShownFundamentals'
    BY <2>3 DEF GetRowTables, GetRow, Result, ShownFundamentals
  <2>4. ASSUME NEW asked, GetFundamentalSnapshot(asked) PROVE ShownFundamentals'
    <3> DEFINE t == "fundamental_snapshot"
               c == Loaded("fundamental_snapshot")
    <3>1. t \in Tables
      BY DEF Tables, Order
    <3>2. c # NoBuild /\ c \in Configs
      BY <2>4, <3>1 DEF GetFundamentalSnapshot, Asks, Inv, TypeOK, Loaded
    <3>3. cache'[t] = c /\ answer'.asked = asked
      BY <2>4, <3>1 DEF GetFundamentalSnapshot, Result, Inv, TypeOK
    <3>4. \A r \in answer'.rows :
             /\ r \in FundamentalRows(c)
             /\ \A q \in FundamentalRows(c) : q.day <= asked => q.day <= r.day
      BY <2>4 DEF GetFundamentalSnapshot, Result, Content
    <3> QED BY <3>2, <3>3, <3>4 DEF ShownFundamentals
  <2>5. ASSUME NEW asked, NEW table \in {"announcements", "news"}, NEW start, NEW end,
               Search(table, asked, start, end)
        PROVE  ShownFundamentals'
    BY <2>5 DEF Search, Result, ShownFundamentals
  <2>6. \/ UNCHANGED <<cache, answer>>
        \/ answer' = NoAnswer
        \/ \E asked \in AskedDays :
              \/ \E table \in GetRowTables : GetRow(table, asked)
              \/ GetFundamentalSnapshot(asked)
              \/ \E table \in {"announcements", "news"},
                    end \in {asked - 1, asked, asked + 1} :
                    Search(table, asked, asked - 1, end)
    BY DEF Next, StartBuild, WriteTable, Train, StartRollout, training, vars
  <2> QED BY <2>1, <2>2, <2>3, <2>4, <2>5, <2>6
<1>3. ShownFundamentals => LatestReport
  <2> SUFFICES ASSUME ShownFundamentals, answer.table = "fundamental_snapshot",
                      NEW r \in answer.rows
               PROVE  /\ \A d \in Days(cache[answer.table]) :
                            d <= answer.asked => d <= r.day
                      /\ \A q \in Reported : q <= r.day => q <= DayOf(r.time)
    BY DEF LatestReport
  <2> DEFINE c == cache["fundamental_snapshot"]
  <2>1. c \in Configs /\ r \in FundamentalRows(c)
    BY DEF ShownFundamentals
  <2>2. ASSUME NEW d \in Days(c), d <= answer.asked PROVE d <= r.day
    BY <2>2, FundamentalsEveryDay DEF ShownFundamentals
  <2> QED BY <2>1, <2>2, FundamentalsCurrent
<1> QED BY <1>1, <1>2, <1>3, Invariance, PTL DEF Spec

-----------------------------------------------------------------------------
\* The exported files are the split of the merge, which has the rows of a build.
Exported ==
    dataset # NoDataset =>
        /\ \E c \in Configs : dataset.rows \subseteq Tasks(c)
        /\ dataset.train = TrainRows(dataset.rows)
        /\ dataset.valid \in ValidRows(dataset.rows)

\* A task of a build is of one of three splits.
LEMMA ThreeSplits ==
    ASSUME NEW c, NEW t \in Tasks(c)
    PROVE  t.split \in {"train", "valid", "test"}
BY DEF Tasks, SplitOf

\* With rows of the training split and of another, no fallback mixes them.
LEMMA SplitsApart ==
    ASSUME NEW c, NEW rows \in SUBSET Tasks(c), NEW valid \in ValidRows(rows),
           OfSplit(rows, "train") # {}, rows # OfSplit(rows, "train")
    PROVE  TrainRows(rows) \cap valid = {}
<1>1. TrainRows(rows) = OfSplit(rows, "train")
  BY DEF TrainRows
<1>2. OfSplit(rows, "valid") # {} \/ OfSplit(rows, "test") # {}
  <2>1. PICK t \in rows : t.split # "train"
    BY DEF OfSplit
  <2> QED BY <2>1, ThreeSplits DEF OfSplit
<1>3. valid \subseteq OfSplit(rows, "valid") \/ valid \subseteq OfSplit(rows, "test")
  BY <1>2 DEF ValidRows, SomeOf
<1> QED BY <1>1, <1>3 DEF OfSplit

\* The files on disk are always those of one export.
LEMMA ExportedAlways == Spec => []Exported
<1>1. Init => Exported
  BY DEF Init, Exported
<1>2. Inv /\ Exported /\ [Next]_vars => Exported'
  <2> SUFFICES ASSUME Inv, Exported, [Next]_vars PROVE Exported'
    OBVIOUS
  <2>1. CASE UNCHANGED dataset
    BY <2>1 DEF Exported
  <2>2. CASE Train
    <3> DEFINE rows == Merged(store["tasks"], store["labels"])
    <3>1. "tasks" \in Tables
      BY DEF Tables, Order
    <3>2. store["tasks"] \in Configs
      BY <2>2, <3>1 DEF Train, Inv, TypeOK
    <3>3. PICK valid \in ValidRows(rows) :
                 dataset' = [rows |-> rows, train |-> TrainRows(rows), valid |-> valid]
      BY <2>2 DEF Train
    <3>4. rows \subseteq Tasks(store["tasks"])
      BY DEF Merged
    <3> HIDE DEF rows
    <3>5. /\ dataset'.rows = rows /\ dataset'.train = TrainRows(rows)
          /\ dataset'.valid = valid
      BY <3>3
    <3> QED BY <3>2, <3>4, <3>5 DEF Exported
  <2>3. UNCHANGED dataset \/ Train
    BY DEF Next, StartBuild, WriteTable, StartRollout, GetRow, GetFundamentalSnapshot,
           Search, Result, training, vars
  <2> QED BY <2>1, <2>2, <2>3
<1> QED BY <1>1, <1>2, Invariance, PTL DEF Spec

\* Validation rows are held out, whatever builds tasks and labels are from and
\* whichever rows the fallbacks choose.
THEOREM ValidationHeldOut == Spec => []HeldOut
<1>1. Exported => HeldOut
  <2> SUFFICES ASSUME Exported, OfSplit(dataset.rows, "train") # {},
                      dataset.rows # OfSplit(dataset.rows, "train")
               PROVE  dataset.train \cap dataset.valid = {}
    BY DEF HeldOut
  <2>1. dataset # NoDataset
    BY DEF NoDataset, OfSplit
  <2>2. PICK c \in Configs : dataset.rows \subseteq Tasks(c)
    BY <2>1 DEF Exported
  <2>3. dataset.train = TrainRows(dataset.rows) /\ dataset.valid \in ValidRows(dataset.rows)
    BY <2>1 DEF Exported
  <2> QED BY <2>2, <2>3, SplitsApart
<1> QED BY <1>1, ExportedAlways, PTL

-----------------------------------------------------------------------------
\* A non-empty set of naturals has a least element.
LEMMA SmallestOf ==
    ASSUME NEW S \in SUBSET Nat, S # {}
    PROVE  \E m \in S : \A x \in S : m <= x
<1>1. PICK m \in S : \A x \in S : ~ (<<x, m>> \in OpToRel(<, Nat))
  BY WFMin, NatLessThanWellFounded
<1>2. \A x \in S : ~ (x < m)
  BY <1>1 DEF OpToRel
<1> QED BY <1>2

\* A day with another day behind it has one entry day, the next trading day.
LEMMA EntryNext ==
    ASSUME NEW c, NEW d \in Days(c), NEW later \in Days(c), d < later
    PROVE  Latest(Entry(c, d)) \in Nat /\ d < Latest(Entry(c, d))
<1> DEFINE After == {x \in Days(c) : d < x}
           UpTo(e) == {x \in Days(c) : d < x /\ x <= e}
<1>1. Days(c) \subseteq Nat /\ IsFiniteSet(Days(c))
  BY CalendarAssumption, FS_Subset DEF Days
<1>2. PICK m \in After : \A x \in After : m <= x
  <2>1. After \in SUBSET Nat /\ After # {}
    BY <1>1
  <2> QED BY <2>1, SmallestOf
<1>3. UpTo(m) = {m}
  BY <1>1, <1>2
<1>4. m \in Entry(c, d)
  BY <1>1, <1>2, <1>3, FS_Singleton DEF Entry, Shifts
<1>5. ASSUME NEW e \in Entry(c, d) PROVE e = m
  <2>1. e \in Days(c) /\ d < e /\ Cardinality(UpTo(e)) = 1
    BY <1>1 DEF Entry, Shifts
  <2>2. IsFiniteSet(UpTo(e))
    BY <1>1, FS_Subset
  <2>3. PICK x : UpTo(e) = {x}
    BY <2>1, <2>2, FS_Singleton
  <2>4. m <= e /\ m \in UpTo(e) /\ e \in UpTo(e)
    BY <1>1, <1>2, <2>1
  <2> HIDE DEF UpTo
  <2> QED BY <2>3, <2>4
<1>6. Entry(c, d) = {m}
  BY <1>4, <1>5
<1>7. m \in Nat /\ d < m
  BY <1>1, <1>2
<1>8. Latest({m}) = m
  BY <1>7 DEF Latest
<1> QED BY <1>6, <1>7, <1>8

EnteredLater(t) == t.day \in Nat /\ t.entry \in Nat /\ t.day < t.entry

\* A task is entered on a later day than its own.
LEMMA TasksEnteredLater ==
    ASSUME NEW c, NEW t \in Tasks(c)
    PROVE  EnteredLater(t)
<1>1. PICK d \in KeptDays(c) : t.day = d /\ t.entry = Latest(Entry(c, d))
  BY DEF Tasks
<1>2. d \in LabelledDays(c)
  BY <1>1 DEF KeptDays, SampledDays
<1>3. d \in Days(c) /\ Exit(c, d) # {}
  BY <1>2 DEF LabelledDays
<1>4. PICK e \in Days(c) : d < e
  BY <1>3, CalendarAssumption DEF Exit, Shifts, Days
<1>5. d \in Nat
  BY <1>3, CalendarAssumption DEF Days
<1> QED BY <1>1, <1>3, <1>4, <1>5, EntryNext DEF EnteredLater

\* The rows of all but the ranked tables say when they were computed from.
LEMMA NewestKnown ==
    ASSUME NEW c, NEW t \in Tables \ (Ranked \cup {"tasks", "labels"}),
           NEW r \in Content(t, c)
    PROVE  r.newest \in Nat
<1>1. ASSUME NEW d \in Nat, NEW m \in Moments PROVE At(d, m) \in Nat
  BY DEF At, Moments, Close, AsOf, NewsTime, NoteTime, AnnounceTime
<1>2. Days(c) \subseteq Nat /\ Announced \subseteq Nat
  BY CalendarAssumption DEF Days
<1>3. CASE t \in {"factor_snapshot", "market_context"}
  BY <1>1, <1>2, <1>3 DEF Content, DailyRows, Row, Moments
<1>4. CASE t = "fundamental_snapshot"
  <2>1. ASSUME NEW d \in Days(c), r = Row(d, At(d, AsOf), At(d, Close))
        PROVE  r.newest \in Nat
    BY <1>1, <1>2, <2>1 DEF Row, Moments
  <2>2. ASSUME NEW d \in Days(c), NEW q \in Report(c, d),
               r = Row(d, At(q, AsOf), Greatest(At(d, Close), At(q, AsOf)))
        PROVE  r.newest \in Nat
    <3>1. q \in Nat
      BY CalendarAssumption DEF Report
    <3> QED BY <1>1, <1>2, <2>2, <3>1 DEF Row, Moments, Greatest
  <2> QED BY <1>4, <2>1, <2>2 DEF Content, FundamentalRows
<1>5. CASE t = "announcements"
  BY <1>1, <1>2, <1>5 DEF Content, AnnouncementRows, Row, Moments
<1>6. CASE t = "news"
  BY <1>1, <1>2, <1>6 DEF Content, NewsRows, Row, Moments
<1> QED BY <1>3, <1>4, <1>5, <1>6 DEF Tables, Order, Ranked

\* A rollout is of a task that is entered later, only a rollout has answers, and
\* the ranked tables aside their rows were computed from some day's data.
Rollout ==
    /\ task # NoTask => EnteredLater(task)
    /\ answer.rows # {} => task # NoTask
    /\ answer.table \notin Ranked => \A r \in answer.rows : r.newest \in Nat

LEMMA ResultRollout ==
    ASSUME Rollout, NEW table \in Tables \ {"tasks", "labels"}, NEW asked, NEW rows,
           Asks(table, asked), \A r \in rows : r \in Content(table, Loaded(table)),
           Result(table, asked, rows)
    PROVE  Rollout'
<1>1. answer'.table = table /\ answer'.rows = rows /\ task' = task /\ task # NoTask
  BY DEF Result, Asks
<1>2. table \notin Ranked => \A r \in rows : r.newest \in Nat
  BY NewestKnown
<1> QED BY <1>1, <1>2 DEF Rollout

\* Nothing a tool shows about a task at its own date was computed from the price
\* its return starts from, or from a later one, for any calendar and settings.
THEOREM LabelsUnseen == Spec => []LabelBeyondShown
<1>1. Init => Rollout
  BY DEF Init, NoAnswer, Rollout
<1>2. Exported /\ Rollout /\ [Next]_vars => Rollout'
  <2> SUFFICES ASSUME Exported, Rollout, [Next]_vars PROVE Rollout'
    OBVIOUS
  <2>1. CASE UNCHANGED <<task, answer>>
    BY <2>1 DEF Rollout
  <2>2. CASE Train
    BY <2>2 DEF Train, NoAnswer, Rollout
  <2>3. ASSUME NEW t \in dataset.train \cup dataset.valid, StartRollout(t) PROVE Rollout'
    <3>1. dataset # NoDataset
      BY DEF NoDataset
    <3>2. PICK c \in Configs : dataset.rows \subseteq Tasks(c)
      BY <3>1 DEF Exported
    <3>3. dataset.train \subseteq dataset.rows /\ dataset.valid \subseteq dataset.rows
      <4>1. dataset.train = TrainRows(dataset.rows) /\ dataset.valid \in ValidRows(dataset.rows)
        BY <3>1 DEF Exported
      <4> QED BY <4>1 DEF TrainRows, ValidRows, SomeOf, OfSplit
    <3>4. EnteredLater(t)
      BY <3>2, <3>3, TasksEnteredLater
    <3> QED BY <2>3, <3>4 DEF StartRollout, NoAnswer, Rollout
  <2>4. ASSUME NEW asked, NEW table \in GetRowTables, GetRow(table, asked)
        PROVE  Rollout'
    <3>1. table \in Tables \ {"tasks", "labels"}
      BY DEF GetRowTables, Tables, Order
    <3> QED BY <2>4, <3>1, ResultRollout DEF GetRow
  <2>5. ASSUME NEW asked, GetFundamentalSnapshot(asked) PROVE Rollout'
    <3>1. "fundamental_snapshot" \in Tables \ {"tasks", "labels"}
      BY DEF Tables, Order
    <3> QED BY <2>5, <3>1, ResultRollout DEF GetFundamentalSnapshot
  <2>6. ASSUME NEW asked, NEW table \in {"announcements", "news"}, NEW start, NEW end,
               Search(table, asked, start, end)
        PROVE  Rollout'
    <3>1. table \in Tables \ {"tasks", "labels"}
      BY DEF Tables, Order
    <3>2. Asks(table, asked)
      BY <2>6 DEF Search
    <3>3. CASE Result(table, asked, {})
      BY <3>1, <3>2, <3>3, ResultRollout
    <3>4. CASE \E r \in Content(table, Loaded(table)) : Result(table, asked, {r})
      <4>1. PICK r \in Content(table, Loaded(table)) : Result(table, asked, {r})
        BY <3>4
      <4> QED BY <3>1, <3>2, <4>1, ResultRollout
    <3> QED BY <2>6, <3>3, <3>4 DEF Search
  <2>7. \/ UNCHANGED <<task, answer>>
        \/ Train
        \/ \E t \in dataset.train \cup dataset.valid : StartRollout(t)
        \/ \E asked \in AskedDays :
              \/ \E table \in GetRowTables : GetRow(table, asked)
              \/ GetFundamentalSnapshot(asked)
              \/ \E table \in {"announcements", "news"},
                    end \in {asked - 1, asked, asked + 1} :
                    Search(table, asked, asked - 1, end)
    BY DEF Next, StartBuild, WriteTable, training, vars
  <2> QED BY <2>1, <2>2, <2>3, <2>4, <2>5, <2>6, <2>7
<1>3. Rollout /\ PointInTimeAnswers => LabelBeyondShown
  <2> SUFFICES ASSUME Rollout, PointInTimeAnswers, answer.asked = task.day,
                      answer.table \notin Ranked, NEW r \in answer.rows
               PROVE  r.newest < At(task.entry, Close)
    BY DEF LabelBeyondShown
  <2>1. task.day \in Nat /\ task.entry \in Nat /\ task.day < task.entry /\ r.newest \in Nat
    BY DEF Rollout, EnteredLater
  <2>2. r.newest \div 5 <= task.day
    BY DEF PointInTimeAnswers, DayOf
  <2> QED BY <2>1, <2>2 DEF At, Close
<1> QED BY <1>1, <1>2, <1>3, ExportedAlways, NothingFromTheFuture, PTL DEF Spec
=============================================================================

-------------------------- MODULE FinalAnswer_proofs --------------------------
(***************************************************************************)
(* Proofs about FinalAnswer and StockReward: for probabilities of any      *)
(* granularity, any returns and tool settings, what the score rewards; and *)
(* for transcripts of any length, that the answer scored is the one the    *)
(* model wrote last.                                                       *)
(***************************************************************************)
EXTENDS FinalAnswer, WellFoundedInduction, TLAPS

-----------------------------------------------------------------------------
(* Arithmetic of scores.                                                    *)

Probabilities == [up : Nat, neutral : Nat, down : Nat]

LEMMA Products ==
    /\ \A a, b \in Int : a * b \in Int
    /\ \A a, b \in Nat : a * b \in Nat
    /\ \A a, b \in Int, c \in Nat : a <= b => c * a <= c * b
    /\ \A a, b \in Int, c \in Nat \ {0} : a < b => c * a < c * b
    /\ \A a, b \in Nat : a <= b => a * a <= b * b
  OBVIOUS

LEMMA ClipMonotone ==
  ASSUME NEW low \in Int, NEW high \in Int, low <= high, NEW x \in Int, NEW y \in Int
  PROVE  /\ Clip(x, low, high) \in low..high
         /\ x <= y => Clip(x, low, high) <= Clip(y, low, high)
         /\ low <= x => (Clip(x, low, high) >= x \/ Clip(x, low, high) = high)
         /\ x < y /\ low < high =>
               \/ Clip(x, low, high) < Clip(y, low, high)
               \/ Clip(y, low, high) = low \/ Clip(x, low, high) = high
  BY DEF Clip, Greater, Lesser

LEMMA Scales ==
  ASSUME NEW p \in Probabilities
  PROVE  /\ \A c \in Classes : p[c] \in Nat /\ p[c] <= Total(p)
         /\ Total(p) = p.up + p.neutral + p.down /\ Total(p) \in Nat
         /\ Scale(p) = 2 * (Total(p) * Total(p)) /\ Scale(p) \in Nat
         /\ PredLabel(p) \in Classes
PROOF
<1>1. p.up \in Nat /\ p.neutral \in Nat /\ p.down \in Nat
  BY DEF Probabilities
<1>2. \A c \in Classes : p[c] \in Nat /\ p[c] <= Total(p)
  BY <1>1 DEF Classes, Total
<1>3. Total(p) = p.up + p.neutral + p.down /\ Total(p) \in Nat
  BY <1>1 DEF Total
<1>4. Scale(p) = 2 * (Total(p) * Total(p)) /\ Total(p) * Total(p) \in Nat
  BY <1>3, Products DEF Scale
<1>5. PredLabel(p) \in Classes
  BY DEF PredLabel, Classes
<1> QED  BY <1>2, <1>3, <1>4, <1>5

\* The squared distance is at most that of a forecast that is all wrong.
LEMMA BrierBounded ==
  ASSUME NEW p \in Probabilities, NEW label \in Classes
  PROVE  BrierError(p, label) \in Int /\ BrierError(p, label) <= Scale(p)
PROOF
<1> DEFINE T == Total(p)
<1>1. \A a, b, c \in Nat :
         /\ (a - (a + b + c)) * (a - (a + b + c)) = (b + c) * (b + c)
         /\ b * b + c * c <= (b + c) * (b + c)
         /\ (b + c) * (b + c) <= (a + b + c) * (a + b + c)
         /\ (b + c) * (b + c) \in Nat /\ b * b \in Nat /\ c * c \in Nat
  <2> SUFFICES ASSUME NEW a \in Nat, NEW b \in Nat, NEW c \in Nat
               PROVE  /\ (a - (a + b + c)) * (a - (a + b + c)) = (b + c) * (b + c)
                      /\ b * b + c * c <= (b + c) * (b + c)
                      /\ (b + c) * (b + c) <= (a + b + c) * (a + b + c)
                      /\ (b + c) * (b + c) \in Nat /\ b * b \in Nat /\ c * c \in Nat
    OBVIOUS
  <2>1. a - (a + b + c) = -(b + c) /\ (-(b + c)) * (-(b + c)) = (b + c) * (b + c)
    OBVIOUS
  <2>2. (b + c) * (b + c) = b * b + c * c + 2 * (b * c) /\ b * c \in Nat
    BY Products
  <2>3. b + c <= a + b + c /\ b + c \in Nat /\ a + b + c \in Nat
    OBVIOUS
  <2> QED  BY <2>1, <2>2, <2>3, Products
<1>2. \A a, b, c \in Nat :
         (a - (a + b + c)) * (a - (a + b + c)) + b * b + c * c
           <= 2 * ((a + b + c) * (a + b + c))
  BY <1>1
<1>3. p.up \in Nat /\ p.neutral \in Nat /\ p.down \in Nat /\ T = p.up + p.neutral + p.down
  BY Scales DEF Classes, Probabilities
<1>4. CASE label = "up"
  <2>1. BrierError(p, label) = (p.up - T) * (p.up - T) + p.neutral * p.neutral + p.down * p.down
    BY <1>3, <1>4 DEF BrierError
  <2> QED  BY <1>1, <1>2, <1>3, <2>1, Scales
<1>5. CASE label = "neutral"
  <2>1. BrierError(p, label) = p.up * p.up + (p.neutral - T) * (p.neutral - T) + p.down * p.down
    BY <1>3, <1>5 DEF BrierError
  <2>2. T = p.neutral + p.up + p.down
    BY <1>3
  <2> QED  BY <1>1, <1>2, <1>3, <2>1, <2>2, Scales
<1>6. CASE label = "down"
  <2>1. BrierError(p, label) = p.up * p.up + p.neutral * p.neutral + (p.down - T) * (p.down - T)
    BY <1>3, <1>6 DEF BrierError
  <2>2. T = p.down + p.up + p.neutral
    BY <1>3
  <2> QED  BY <1>1, <1>2, <1>3, <2>1, <2>2, Scales
<1> QED  BY <1>4, <1>5, <1>6 DEF Classes

\* The valid forecast that is most wrong earns -600 Points.
LEMMA ForecastBounded ==
  ASSUME NEW t \in Tasks, NEW p \in Probabilities
  PROVE  Forecast(t, p) \in Int /\ Forecast(t, p) >= -600 * Scale(p)
PROOF
<1> DEFINE T == Total(p)
           S == Scale(p)
           x == (p.up - p.down) * t.future_return
           direction == Fraction(IF PredLabel(p) = t.label THEN 400 ELSE -200, p)
           likelihood == 500 * p[t.label] * 2 * T
           brier == 500 * (S - BrierError(p, t.label))
           profit == 400 * T * Clip(x, -2 * T, 2 * T)
<1>1. T \in Nat /\ S \in Nat /\ S = 2 * (T * T) /\ T * T \in Nat /\ t.label \in Classes
      /\ p[t.label] \in Nat
  BY Scales, Products, TasksAssumption
<1>2. direction \in Int /\ direction >= -200 * S
  BY <1>1 DEF Fraction
<1>3. likelihood \in Nat
  <2>1. 500 * p[t.label] * 2 \in Nat
    BY <1>1
  <2> QED  BY <1>1, <2>1, Products
<1>4. brier \in Nat
  BY <1>1, BrierBounded
<1>5. profit \in Int /\ profit >= -400 * S
  <2>1. x \in Int
    <3>1. p.up - p.down \in Int /\ t.future_return \in Int
      BY TasksAssumption DEF Probabilities
    <3> QED  BY <3>1, Products
  <2> DEFINE C == Clip(x, -2 * T, 2 * T)
  <2> HIDE DEF x, T
  <2>2. C \in (-2 * T)..(2 * T)
    <3>1. -2 * T \in Int /\ 2 * T \in Int /\ -2 * T <= 2 * T
      BY <1>1
    <3> QED  BY <2>1, <3>1, ClipMonotone
  <2> HIDE DEF C
  <2>3. 400 * T \in Nat /\ -2 * T <= C /\ C \in Int /\ -2 * T \in Int
    BY <1>1, <2>2
  <2>4. (400 * T) * (-2 * T) <= (400 * T) * C /\ (400 * T) * C \in Int
    BY <2>3, Products
  <2>5. (400 * T) * (-2 * T) = -800 * (T * T)
    BY <1>1
  <2> QED  BY <1>1, <2>4, <2>5 DEF C, T
<1>6. Forecast(t, p) = direction + likelihood + brier + profit
  BY DEF Forecast
<1> HIDE DEF direction, likelihood, brier, profit, S
<1> QED  BY <1>1, <1>2, <1>3, <1>4, <1>5, <1>6 DEF S

\* The penalty for missing calls is an even share for each of them.
LEMMA PenaltyShared ==
  ASSUME NEW t \in Tasks, t.min_tool_calls > 0
  PROVE  \E k \in Nat : /\ k * t.min_tool_calls = t.missing_tool_penalty
                        /\ \A n \in Nat : n < t.min_tool_calls =>
                              MissingTool(t, n) = k * (t.min_tool_calls - n)
PROOF
<1> DEFINE m == t.min_tool_calls
           penalty == t.missing_tool_penalty
           k == penalty \div m
<1>1. m \in Nat \ {0} /\ penalty \in Nat /\ penalty % m = 0
  BY TasksAssumption
<1> HIDE DEF m, penalty
<1>2. k \in Nat /\ penalty = m * k
  BY <1>1
<1> HIDE DEF k
<1>3. ASSUME NEW n \in Nat, n < m
      PROVE  (penalty * (m - n)) \div m = k * (m - n)
  <2>1. penalty * (m - n) = m * (k * (m - n))
    BY <1>1, <1>2, <1>3
  <2>2. k * (m - n) \in Nat
    BY <1>1, <1>2, <1>3, Products
  <2>3. \A q \in Nat : (m * q) \div m = q
    BY <1>1
  <2> QED  BY <2>1, <2>2, <2>3
<1>4. k * m = penalty
  BY <1>1, <1>2
<1> QED  BY <1>2, <1>3, <1>4 DEF MissingTool, m, penalty

\* What calls are worth: an integer; at least the penalty or the price of the
\* budget is left, within the budget.
LEMMA ToolsBounded ==
  ASSUME NEW t \in Tasks, NEW n \in Nat
  PROVE  /\ Tools(t, n) \in Int
         /\ n <= t.max_tool_calls => Tools(t, n) > -1120
PROOF
<1> DEFINE m == t.min_tool_calls
           b == t.max_tool_calls
<1>1. m \in Nat /\ b \in Nat /\ m <= b /\ t.missing_tool_penalty \in Nat /\ t.tool_use_bonus \in Nat
  BY TasksAssumption
<1>2. ToolUse(t, n) \in Nat
  <2>1. Lesser(n, Greater(1, m)) \in Nat
    BY <1>1 DEF Lesser, Greater
  <2> QED  BY <1>1, <2>1, Products DEF ToolUse
<1>3. SearchCost(t, n) \in Nat
  BY <1>1 DEF SearchCost, Greater
<1>4. n <= b => SearchCost(t, n) <= SearchCost(t, b)
  BY <1>1 DEF SearchCost, Greater
<1>5. SearchCost(t, b) < 1120 /\ t.missing_tool_penalty < 1120
  BY SettingsAssumption
<1>6. CASE n < m
  <2>1. PICK k \in Nat : /\ k * m = t.missing_tool_penalty
                         /\ MissingTool(t, n) = k * (m - n)
    BY <1>1, <1>6, PenaltyShared
  <2>2. k * (m - n) <= k * m /\ k * (m - n) \in Nat
    BY <1>1, <1>6, Products
  <2>3. n <= b => SearchCost(t, n) = 0
    BY <1>1, <1>6 DEF SearchCost, Greater
  <2> QED  BY <1>1, <1>2, <1>3, <1>5, <2>1, <2>2, <2>3 DEF Tools
<1>7. CASE ~(n < m)
  <2>1. MissingTool(t, n) = 0
    BY <1>7 DEF MissingTool
  <2>2. SearchCost(t, b) \in Nat
    BY <1>1 DEF SearchCost, Greater
  <2> QED  BY <1>1, <1>2, <1>3, <1>4, <1>5, <2>1, <2>2 DEF Tools
<1> QED  BY <1>6, <1>7

\* One more call: worth it while calls are required, and then never again.
LEMMA OneMoreCall ==
  ASSUME NEW t \in Tasks, NEW n \in Nat
  PROVE  /\ n < t.min_tool_calls => Tools(t, n) <= Tools(t, n + 1)
         /\ n >= Greater(1, t.min_tool_calls) => Tools(t, n + 1) < Tools(t, n)
PROOF
<1> DEFINE m == t.min_tool_calls
<1>1. /\ m \in Nat /\ t.max_tool_calls \in Nat /\ m <= t.max_tool_calls
      /\ t.tool_use_bonus \in Nat
  BY TasksAssumption
<1>2. /\ ToolUse(t, n) \in Int /\ ToolUse(t, n) <= ToolUse(t, n + 1)
      /\ ToolUse(t, n + 1) \in Int
  <2>1. /\ Lesser(n, Greater(1, m)) \in Nat /\ Lesser(n + 1, Greater(1, m)) \in Nat
        /\ Lesser(n, Greater(1, m)) <= Lesser(n + 1, Greater(1, m))
    BY <1>1 DEF Lesser, Greater
  <2> QED  BY <1>1, <2>1, Products DEF ToolUse
<1>3. SearchCost(t, n) \in Nat /\ SearchCost(t, n + 1) \in Nat
  BY <1>1 DEF SearchCost, Greater
<1>4. CASE n < m
  <2>1. PICK k \in Nat : \A j \in Nat : j < m => MissingTool(t, j) = k * (m - j)
    BY <1>1, <1>4, PenaltyShared
  <2>2. MissingTool(t, n) = k * (m - n) /\ k * (m - n) \in Nat
    BY <1>1, <1>4, <2>1, Products
  <2>3. MissingTool(t, n + 1) \in Nat /\ MissingTool(t, n + 1) <= MissingTool(t, n)
    <3>1. CASE n + 1 < m
      <4>1. m - (n + 1) \in Nat /\ m - n \in Nat /\ m - (n + 1) <= m - n
        BY <1>1, <3>1
      <4>2. k * (m - (n + 1)) <= k * (m - n) /\ k * (m - (n + 1)) \in Nat
        BY <4>1, Products
      <4> QED  BY <2>1, <2>2, <3>1, <4>2
    <3>2. CASE ~(n + 1 < m)
      BY <2>2, <3>2 DEF MissingTool
    <3> QED  BY <3>1, <3>2
  <2>4. SearchCost(t, n) = 0 /\ SearchCost(t, n + 1) = 0
    BY <1>1, <1>4 DEF SearchCost, Greater
  <2>5. ~(n >= Greater(1, m))
    BY <1>1, <1>4 DEF Greater
  <2> QED  BY <1>2, <2>2, <2>3, <2>4, <2>5 DEF Tools
<1>5. CASE n >= Greater(1, m)
  <2>1. ~(n < m) /\ ~(n + 1 < m)
    BY <1>1, <1>5 DEF Greater
  <2>2. MissingTool(t, n) = 0 /\ MissingTool(t, n + 1) = 0
    BY <2>1 DEF MissingTool
  <2>3. ToolUse(t, n + 1) = ToolUse(t, n)
    <3>1. Lesser(n, Greater(1, m)) = Lesser(n + 1, Greater(1, m))
      BY <1>1, <1>5 DEF Lesser, Greater
    <3> QED  BY <3>1 DEF ToolUse
  <2>4. SearchCost(t, n) < SearchCost(t, n + 1)
    <3> DEFINE b == t.max_tool_calls
    <3>1. n >= m /\ n >= 1
      BY <1>1, <1>5 DEF Greater
    <3>2. /\ Greater(0, n - m) = n - m /\ Greater(0, (n + 1) - m) = (n + 1) - m
          /\ Greater(0, n - b) \in Nat /\ Greater(0, (n + 1) - b) \in Nat
          /\ Greater(0, n - b) <= Greater(0, (n + 1) - b)
      BY <1>1, <3>1 DEF Greater
    <3>3. SearchCost(t, n) = (IF m > 0 THEN 20 * (n - m) ELSE 40 * n) + 400 * Greater(0, n - b)
      BY <3>2 DEF SearchCost
    <3>4. SearchCost(t, n + 1) =
            (IF m > 0 THEN 20 * ((n + 1) - m) ELSE 40 * (n + 1)) + 400 * Greater(0, (n + 1) - b)
      BY <3>2 DEF SearchCost
    <3> HIDE DEF b, m
    <3> QED  BY <1>1, <3>1, <3>2, <3>3, <3>4
  <2> QED  BY <1>2, <1>3, <2>1, <2>2, <2>3, <2>4 DEF Tools
<1> QED  BY <1>4, <1>5

\* What an answer may say.
Answerable(f) ==
    /\ f.p \in Probabilities /\ Total(f.p) > 0
    /\ f.alpha_ok \in BOOLEAN /\ f.evidence \in 0..25

\* The score before it is clipped.
Unclipped(t, f, n) == Forecast(t, f.p) + Fraction(FormatReward(f) + Tools(t, n), f.p)

LEMMA Clipping ==
  ASSUME NEW t \in Tasks, NEW f, Answerable(f), NEW n \in Nat
  PROVE  /\ Unclipped(t, f, n) \in Int /\ Scale(f.p) \in Nat \ {0}
         /\ Score(t, f, n) = Clip(Unclipped(t, f, n), Floor(f), Ceiling(f))
         /\ Floor(f) = -2000 * Scale(f.p) /\ Ceiling(f) = 3000 * Scale(f.p)
         /\ FormatReward(f) \in 120..205
PROOF
<1>1. FormatReward(f) \in 120..205
  BY DEF FormatReward, Answerable
<1>2. Scale(f.p) \in Nat \ {0}
  <2>1. Total(f.p) \in Nat \ {0} /\ Scale(f.p) = 2 * (Total(f.p) * Total(f.p))
    BY Scales DEF Answerable
  <2> QED  BY <2>1, Products
<1>3. Unclipped(t, f, n) \in Int
  BY <1>1, <1>2, ForecastBounded, ToolsBounded, Products DEF Unclipped, Fraction, Answerable
<1>4. Floor(f) = -2000 * Scale(f.p) /\ Ceiling(f) = 3000 * Scale(f.p)
  <2>1. Floor(f) = (-2000) * Scale(f.p) /\ Ceiling(f) = (3 * (2000 \div 2)) * Scale(f.p)
    BY DEF Floor, Ceiling, Fraction, Point
  <2> QED  BY <1>2, <2>1
<1> QED  BY <1>1, <1>2, <1>3, <1>4 DEF Score, Unclipped

-----------------------------------------------------------------------------
(* What is scored.                                                          *)

\* A rollout that is scored is scored on a task, with what its answer says.
Scored ==
    /\ rounds \in Nat
    /\ phase = "done" => task \in Tasks /\ forecast \in Forecasts \cup {Missing}

LEMMA ScoredInvariant == Spec => []Scored
PROOF
<1>1. Init => Scored
  BY DEF Init, Scored
<1>2. Scored /\ [Next]_vars => Scored'
  BY DEF Scored, Next, ToolRound, EndRollout, Scan, ComputeScore, AtChar, InString, OpenString,
     OpenBrace, CloseBrace, OtherChar, vars, rollout, scan, result
<1> QED  BY <1>1, <1>2, PTL DEF Spec

LEMMA AnsweredIs ==
  ASSUME Scored, Answered
  PROVE  task \in Tasks /\ Answerable(forecast) /\ Calls \in Nat
PROOF
<1>1. task \in Tasks /\ forecast \in Forecasts \ {Missing} /\ Valid(forecast.p)
  BY DEF Scored, Answered
<1>2. forecast.p \in Probabilities /\ forecast.alpha_ok \in BOOLEAN /\ forecast.evidence \in 0..25
  BY <1>1, ForecastsAssumption DEF Probabilities
<1>3. Total(forecast.p) > 0
  <2>1. Unit \in Nat \ {0} /\ Total(forecast.p) \in Nat
    BY <1>2, Scales, TasksAssumption
  <2> QED  BY <1>1, <2>1 DEF Valid, Distance, Greater
<1>4. Calls \in Nat
  BY DEF Scored, Calls, NumToolCalls, Greater
<1> QED  BY <1>1, <1>2, <1>3, <1>4 DEF Answerable

\* rl_reward.py:113-138, 201-227. Whatever the answer says, keeping the format
\* earns more than breaking it, for probabilities of any granularity.
THEOREM FormatAlwaysPays == Spec => []FormatPays
PROOF
<1>1. Scored => FormatPays
  <2> SUFFICES ASSUME Scored, Answered, NEW n \in 0..task.max_tool_calls
               PROVE  Score(task, forecast, n) > Fraction(InvalidAnswer, forecast.p)
    BY DEF FormatPays, InvalidAnswer, NoAnswer, Point
  <2>1. task \in Tasks /\ Answerable(forecast)
    BY AnsweredIs
  <2>2. n \in Nat /\ n <= task.max_tool_calls
    BY <2>1, TasksAssumption
  <2> DEFINE S == Scale(forecast.p)
             F == Forecast(task, forecast.p)
             e == FormatReward(forecast) + Tools(task, n)
             raw == Unclipped(task, forecast, n)
  <2>3. e \in Int /\ e >= -999 /\ S \in Nat \ {0} /\ raw \in Int
    BY <2>1, <2>2, Clipping, ToolsBounded
  <2>4. F \in Int /\ F >= -600 * S
    BY <2>1, ForecastBounded DEF Answerable
  <2>5. raw = F + e * S
    BY DEF Unclipped, Fraction
  <2> HIDE DEF S, F, e, raw
  <2>6. S * (-999) <= S * e /\ S * e \in Int
    BY <2>3, Products
  <2>7. raw >= -1599 * S
    BY <2>3, <2>4, <2>5, <2>6
  <2>8. /\ Score(task, forecast, n) \in Int
        /\ Score(task, forecast, n) >= raw \/ Score(task, forecast, n) = 3000 * S
    <3>1. Score(task, forecast, n) = Clip(raw, -2000 * S, 3000 * S)
      BY <2>1, <2>2, Clipping DEF raw, S
    <3>2. -2000 * S \in Int /\ 3000 * S \in Int /\ -2000 * S <= 3000 * S /\ -2000 * S <= raw
      BY <2>3, <2>7
    <3> QED  BY <2>3, <3>1, <3>2, ClipMonotone
  <2>9. Fraction(InvalidAnswer, forecast.p) = -1600 * S
    <3>1. Fraction(InvalidAnswer, forecast.p) = (-1600) * S
      BY DEF Fraction, InvalidAnswer, S
    <3> QED  BY <2>3, <3>1
  <2> QED  BY <2>3, <2>7, <2>8, <2>9
<1> QED  BY <1>1, ScoredInvariant, PTL

\* rl_reward.py:189-204. A required call never lowers the score, and one that
\* is not required never raises it, for all tool settings.
THEOREM CallsAlwaysPay == Spec => []CallsPayAsAsked
PROOF
<1>1. Scored => CallsPayAsAsked
  <2> SUFFICES ASSUME Scored, Answered, NEW n \in 0..MaxCalls
               PROVE  LET before == Score(task, forecast, n)
                          after == Score(task, forecast, n + 1)
                      IN  /\ n < task.min_tool_calls => after >= before
                          /\ n >= Greater(1, task.min_tool_calls) =>
                               \/ after < before
                               \/ before = Floor(forecast) \/ after = Ceiling(forecast)
    BY DEF CallsPayAsAsked
  <2>1. task \in Tasks /\ Answerable(forecast) /\ n \in Nat /\ n + 1 \in Nat
    BY AnsweredIs, BoundsAssumption
  <2> DEFINE S == Scale(forecast.p)
             F == Forecast(task, forecast.p)
             e == FormatReward(forecast)
             now == Tools(task, n)
             next == Tools(task, n + 1)
             raw == Unclipped(task, forecast, n)
             more == Unclipped(task, forecast, n + 1)
  <2>2. /\ S \in Nat \ {0} /\ raw \in Int /\ more \in Int /\ e \in Int
        /\ now \in Int /\ next \in Int /\ F \in Int
    BY <2>1, Clipping, ToolsBounded, ForecastBounded DEF Answerable
  <2>3. raw = F + (e + now) * S /\ more = F + (e + next) * S
    BY DEF Unclipped, Fraction
  <2>4. /\ n < task.min_tool_calls => now <= next
        /\ n >= Greater(1, task.min_tool_calls) => next < now
    BY <2>1, OneMoreCall
  <2>5. /\ Score(task, forecast, n) = Clip(raw, Floor(forecast), Ceiling(forecast))
        /\ Score(task, forecast, n + 1) = Clip(more, Floor(forecast), Ceiling(forecast))
        /\ Floor(forecast) \in Int /\ Ceiling(forecast) \in Int
        /\ Floor(forecast) < Ceiling(forecast)
    BY <2>1, <2>2, Clipping
  <2> HIDE DEF S, F, e, now, next, raw, more
  <2>6. now <= next => raw <= more
    <3>1. now <= next => S * (e + now) <= S * (e + next)
      BY <2>2, Products
    <3>2. S * (e + now) = (e + now) * S /\ S * (e + next) = (e + next) * S
          /\ S * (e + now) \in Int /\ S * (e + next) \in Int
      BY <2>2, Products
    <3> QED  BY <2>2, <2>3, <3>1, <3>2
  <2>7. next < now => more < raw
    <3>1. next < now => S * (e + next) < S * (e + now)
      BY <2>2, Products
    <3>2. S * (e + now) = (e + now) * S /\ S * (e + next) = (e + next) * S
          /\ S * (e + now) \in Int /\ S * (e + next) \in Int
      BY <2>2, Products
    <3> QED  BY <2>2, <2>3, <3>1, <3>2
  <2> QED  BY <2>2, <2>4, <2>5, <2>6, <2>7, ClipMonotone
<1> QED  BY <1>1, ScoredInvariant, PTL

-----------------------------------------------------------------------------
(* Believing in the truth.                                                  *)

LEMMA MoreTrueIs ==
  ASSUME NEW p \in Probabilities, task.label \in Classes,
         NEW c \in Classes, c # task.label, p[c] > 0
  PROVE  /\ MoreTrue(p, c) \in Probabilities
         /\ Total(MoreTrue(p, c)) = Total(p)
         /\ MoreTrue(p, c)[task.label] = p[task.label] + 1
         /\ PredLabel(p) = task.label => PredLabel(MoreTrue(p, c)) = task.label
PROOF
<1> DEFINE q == MoreTrue(p, c)
<1>1. p.up \in Nat /\ p.neutral \in Nat /\ p.down \in Nat /\ q \in Probabilities
  BY DEF Probabilities, Classes, MoreTrue
<1>2. q[task.label] = p[task.label] + 1 /\ q[c] = p[c] - 1
      /\ \A x \in Classes : x # c /\ x # task.label => q[x] = p[x]
  BY DEF MoreTrue
<1>3. Total(q) = Total(p)
  BY <1>1, <1>2 DEF Total, Classes
<1>4. PredLabel(p) = task.label => PredLabel(q) = task.label
  BY <1>1, <1>2 DEF PredLabel, Classes
<1> QED  BY <1>1, <1>2, <1>3, <1>4

\* The Brier error falls.
LEMMA BrierFalls ==
  ASSUME NEW p \in Probabilities, task.label \in Classes,
         NEW c \in Classes, c # task.label, p[c] > 0
  PROVE  BrierError(MoreTrue(p, c), task.label) <= BrierError(p, task.label)
PROOF
<1> DEFINE q == MoreTrue(p, c)
           T == Total(p)
           l == task.label
           miss(r, x) == r[x] - (IF x = l THEN T ELSE 0)
           square(r, x) == miss(r, x) * miss(r, x)
<1>1. /\ \A x \in Classes : p[x] \in Nat
      /\ T \in Nat /\ p[l] + p[c] <= T
  BY Scales DEF Total, Classes
<1>2. q[l] = p[l] + 1 /\ q[c] = p[c] - 1 /\ \A x \in Classes : x # c /\ x # l => q[x] = p[x]
  BY DEF MoreTrue
<1>3. BrierError(p, l) = square(p, "up") + square(p, "neutral") + square(p, "down")
  BY DEF BrierError, Classes
<1>4. BrierError(q, l) = square(q, "up") + square(q, "neutral") + square(q, "down")
  BY MoreTrueIs DEF BrierError, Classes
<1>5. square(q, l) = square(p, l) + 2 * (p[l] - T) + 1 /\ square(p, l) \in Int
  <2>1. square(p, l) = (p[l] - T) * (p[l] - T)
    BY <1>1
  <2>2. square(q, l) = ((p[l] - T) + 1) * ((p[l] - T) + 1)
    <3>1. q[l] - T = (p[l] - T) + 1
      BY <1>1, <1>2
    <3> QED  BY <3>1
  <2>3. \A a \in Int : (a + 1) * (a + 1) = a * a + 2 * a + 1 /\ a * a \in Int
    OBVIOUS
  <2>4. p[l] - T \in Int
    BY <1>1
  <2> QED  BY <2>1, <2>2, <2>3, <2>4
<1>6. square(q, c) = square(p, c) - 2 * p[c] + 1 /\ square(p, c) \in Int
  <2>1. square(p, c) = p[c] * p[c] /\ square(q, c) = (p[c] - 1) * (p[c] - 1)
    BY <1>1, <1>2
  <2>2. \A a \in Int : (a - 1) * (a - 1) = a * a - 2 * a + 1
    OBVIOUS
  <2> QED  BY <1>1, <2>1, <2>2, Products
<1>7. \A x \in Classes : x # c /\ x # l => square(q, x) = square(p, x) /\ square(p, x) \in Int
  BY <1>1, <1>2, Products
<1>8. PICK x \in Classes : x # c /\ x # l
  BY DEF Classes
<1>9. /\ BrierError(p, l) = square(p, l) + square(p, c) + square(p, x)
      /\ BrierError(q, l) = square(q, l) + square(q, c) + square(q, x)
  <2>1. \A y \in Classes : square(p, y) \in Int /\ square(q, y) \in Int
    BY <1>1, <1>5, <1>6, <1>7
  <2> HIDE DEF square, l
  <2> QED  BY <1>3, <1>4, <1>8, <2>1 DEF Classes, l
<1>10. p[l] - T <= -p[c] /\ p[l] - T \in Int /\ p[c] \in Nat /\ p[c] > 0
  BY <1>1
<1> HIDE DEF T, square
<1> QED  BY <1>5, <1>6, <1>7, <1>8, <1>9, <1>10

\* The profit falls by no more than 2 / Total(p), and only where nothing is won
\* or lost by it.
LEMMA ProfitKept ==
  ASSUME NEW p \in Probabilities, task \in Tasks, Agrees(task),
         NEW c \in Classes, c # task.label, p[c] > 0
  PROVE  LET q == MoreTrue(p, c)
         IN  /\ (p.up - p.down) * task.future_return \in Int
             /\ (q.up - q.down) * task.future_return \in Int
             /\ (p.up - p.down) * task.future_return - 2 <= (q.up - q.down) * task.future_return
PROOF
<1> DEFINE q == MoreTrue(p, c)
           R == task.future_return
           d == p.up - p.down
           e == q.up - q.down
<1>1. R \in Int /\ task.label \in Classes
  BY TasksAssumption
<1>2. /\ p.up \in Nat /\ p.neutral \in Nat /\ p.down \in Nat
      /\ q.up \in Int /\ q.down \in Int
      /\ q[task.label] = p[task.label] + 1 /\ q[c] = p[c] - 1
      /\ \A x \in Classes : x # c /\ x # task.label => q[x] = p[x]
  BY <1>1 DEF MoreTrue, Probabilities, Classes
<1>3. d \in Int /\ e \in Int
  BY <1>2
<1>4. CASE task.label = "up"
  <2>1. e \in d..(d + 2) /\ R >= 0
    BY <1>1, <1>2, <1>4 DEF Classes, Agrees
  <2>2. R * d <= R * e
    BY <1>1, <1>3, <2>1, Products
  <2> QED  BY <1>1, <1>3, <2>2, Products
<1>5. CASE task.label = "down"
  <2>1. e \in (d - 2)..d /\ R <= 0
    BY <1>1, <1>2, <1>5 DEF Classes, Agrees
  <2>2. (-R) * e <= (-R) * d
    BY <1>1, <1>3, <2>1, Products
  <2>3. (-R) * e = -(R * e) /\ (-R) * d = -(R * d)
    BY <1>1, <1>3
  <2> QED  BY <1>1, <1>3, <2>2, <2>3, Products
<1>6. CASE task.label = "neutral"
  <2>1. (e = d - 1 \/ e = d + 1) /\ R \in -2..2
    BY <1>1, <1>2, <1>6 DEF Classes, Agrees
  <2>2. (d - 1) * R = d * R - R /\ (d + 1) * R = d * R + R /\ d * R \in Int
    BY <1>1, <1>3, Products
  <2> QED  BY <1>1, <1>3, <2>1, <2>2
<1> QED  BY <1>1, <1>4, <1>5, <1>6 DEF Classes

\* Direction, probability, Brier score and profit together do not fall.
LEMMA ForecastRises ==
  ASSUME NEW p \in Probabilities, task \in Tasks, Agrees(task),
         NEW c \in Classes, c # task.label, p[c] > 0
  PROVE  Forecast(task, p) <= Forecast(task, MoreTrue(p, c))
PROOF
<1> DEFINE q == MoreTrue(p, c)
           T == Total(p)
           S == Scale(p)
           clipped(r) == Clip((r.up - r.down) * task.future_return, -2 * T, 2 * T)
           direction(r) == (IF PredLabel(r) = task.label THEN 400 ELSE -200) * S
           likelihood(r) == 500 * r[task.label] * 2 * T
           brier(r) == 500 * (S - BrierError(r, task.label))
           profit(r) == 400 * T * clipped(r)
<1>1. /\ task.label \in Classes /\ q \in Probabilities
      /\ Total(q) = T /\ Scale(q) = S /\ T \in Nat /\ S \in Nat
  BY MoreTrueIs, Scales, TasksAssumption DEF Scale
<1>2. /\ Forecast(task, p) = direction(p) + likelihood(p) + brier(p) + profit(p)
      /\ Forecast(task, q) = direction(q) + likelihood(q) + brier(q) + profit(q)
  BY <1>1 DEF Forecast, Fraction
<1>3. direction(p) <= direction(q) /\ direction(p) \in Int /\ direction(q) \in Int
  BY <1>1, MoreTrueIs
<1>4. likelihood(q) = likelihood(p) + 1000 * T /\ likelihood(p) \in Nat
  <2>1. q[task.label] = p[task.label] + 1 /\ p[task.label] \in Nat
    BY <1>1, MoreTrueIs, Scales
  <2>2. \A a, b \in Nat : /\ 500 * (a + 1) * 2 * b = 500 * a * 2 * b + 1000 * b
                          /\ 500 * a * 2 * b \in Nat
    OBVIOUS
  <2> QED  BY <1>1, <2>1, <2>2
<1>5. brier(p) <= brier(q) /\ brier(p) \in Int /\ brier(q) \in Int
  <2>1. /\ BrierError(p, task.label) \in Int /\ BrierError(q, task.label) \in Int
        /\ BrierError(q, task.label) <= BrierError(p, task.label)
    BY <1>1, BrierBounded, BrierFalls
  <2> QED  BY <1>1, <2>1
<1>6. profit(p) - 800 * T <= profit(q) /\ profit(p) \in Int /\ profit(q) \in Int
  <2> DEFINE x == (p.up - p.down) * task.future_return
             y == (q.up - q.down) * task.future_return
  <2>1. x \in Int /\ y \in Int /\ x - 2 <= y
    BY ProfitKept
  <2>2. clipped(p) = Clip(x, -2 * T, 2 * T) /\ clipped(q) = Clip(y, -2 * T, 2 * T)
    OBVIOUS
  <2> HIDE DEF x, y, T
  <2>3. /\ Clip(x, -2 * T, 2 * T) \in Int /\ Clip(y, -2 * T, 2 * T) \in Int
        /\ Clip(x, -2 * T, 2 * T) - 2 <= Clip(y, -2 * T, 2 * T)
    BY <1>1, <2>1 DEF Clip, Greater, Lesser
  <2> DEFINE a == clipped(p)
             b == clipped(q)
  <2>4. a \in Int /\ b \in Int /\ a - 2 <= b
    BY <2>2, <2>3
  <2> HIDE DEF a, b
  <2>5. 400 * T \in Nat /\ (400 * T) * (a - 2) <= (400 * T) * b
        /\ (400 * T) * a \in Int /\ (400 * T) * b \in Int
    BY <1>1, <2>4, Products
  <2>6. (400 * T) * (a - 2) = (400 * T) * a - 800 * T
    BY <1>1, <2>4
  <2> QED  BY <1>1, <2>5, <2>6 DEF a, b
<1> HIDE DEF direction, likelihood, brier, profit, q, T
<1> QED  BY <1>1, <1>2, <1>3, <1>4, <1>5, <1>6 DEF q

\* rl_reward.py:101-163, 226. The score rewards the truth: whatever else the
\* answer says, moving probability to the class that came true never lowers it.
THEOREM TruthAlwaysPays == Spec => []TruthPays
PROOF
<1>1. Scored => TruthPays
  <2> SUFFICES ASSUME Scored, Answered, Agrees(task),
                      NEW c \in Classes, c # task.label, forecast.p[c] > 0
               PROVE  Score(task, Believing(c), Calls) >= Score(task, forecast, Calls)
    BY DEF TruthPays
  <2> DEFINE f == forecast
             g == Believing(c)
             S == Scale(f.p)
             tools == Tools(task, Calls)
  <2>1. task \in Tasks /\ Answerable(f) /\ Calls \in Nat /\ task.label \in Classes
    BY AnsweredIs, TasksAssumption
  <2>2. /\ g.p = MoreTrue(f.p, c) /\ g.alpha_ok = f.alpha_ok /\ g.evidence = f.evidence
        /\ f.prediction = PredLabel(f.p) => g.prediction = PredLabel(g.p)
    BY DEF Believing
  <2>3. g.p \in Probabilities /\ Total(g.p) = Total(f.p) /\ Scale(g.p) = S
    BY <2>1, <2>2, MoreTrueIs DEF Answerable, Scale
  <2>4. Answerable(g)
    BY <2>1, <2>2, <2>3 DEF Answerable
  <2>5. FormatReward(f) <= FormatReward(g)
    BY <2>1, <2>2 DEF FormatReward, Answerable
  <2>6. Forecast(task, f.p) <= Forecast(task, g.p)
    BY <2>1, <2>2, ForecastRises DEF Answerable
  <2>7. Unclipped(task, f, Calls) <= Unclipped(task, g, Calls)
    <3> DEFINE a == FormatReward(f) + tools
               b == FormatReward(g) + tools
    <3>1. a \in Int /\ b \in Int /\ a <= b /\ S \in Nat
      BY <2>1, <2>4, <2>5, Clipping, ToolsBounded
    <3>2. Forecast(task, f.p) \in Int /\ Forecast(task, g.p) \in Int
      BY <2>1, <2>3, ForecastBounded DEF Answerable
    <3>3. /\ Unclipped(task, f, Calls) = Forecast(task, f.p) + a * S
          /\ Unclipped(task, g, Calls) = Forecast(task, g.p) + b * S
      BY <2>3 DEF Unclipped, Fraction
    <3> HIDE DEF a, b, S
    <3>4. S * a <= S * b /\ S * a = a * S /\ S * b = b * S /\ S * a \in Int /\ S * b \in Int
      BY <3>1, Products
    <3> QED  BY <2>6, <3>2, <3>3, <3>4
  <2>8. /\ Score(task, f, Calls) = Clip(Unclipped(task, f, Calls), Floor(f), Ceiling(f))
        /\ Score(task, g, Calls) = Clip(Unclipped(task, g, Calls), Floor(f), Ceiling(f))
        /\ Floor(f) \in Int /\ Ceiling(f) \in Int /\ Floor(f) <= Ceiling(f)
        /\ Unclipped(task, f, Calls) \in Int /\ Unclipped(task, g, Calls) \in Int
    BY <2>1, <2>3, <2>4, Clipping
  <2> QED  BY <2>7, <2>8, ClipMonotone
<1> QED  BY <1>1, ScoredInvariant, PTL

-----------------------------------------------------------------------------
(* Scans of texts, and of the pieces they are made of.                      *)

\* The state of the scan after a character, field by field.
LEMMA AfterIs ==
  ASSUME NEW at \in ScanStates, NEW char
  PROVE  /\ at.in_str =>
               After(at, char) = [stack |-> at.stack,
                                  in_str |-> (at.escape \/ char # Quote),
                                  escape |-> (~at.escape /\ char = Backslash)]
         /\ ~at.in_str =>
               After(at, char) = [stack |-> IF char = Open THEN at.stack + 1
                                            ELSE IF char = Close /\ at.stack > 0
                                            THEN at.stack - 1 ELSE at.stack,
                                  in_str |-> (char = Quote),
                                  escape |-> at.escape]
PROOF
<1>1. CASE at.in_str
  BY <1>1 DEF After, ScanStates
<1>2. CASE ~at.in_str
  BY <1>2 DEF After, ScanStates
<1> QED  BY <1>1, <1>2

LEMMA Joined ==
  ASSUME NEW t \in Seq(Chars), NEW s \in Seq(Chars)
  PROVE  /\ t \o s \in Seq(Chars) /\ Len(t \o s) = Len(t) + Len(s)
         /\ \A k \in 1..Len(t) : (t \o s)[k] = t[k]
         /\ \A k \in 1..Len(s) : (t \o s)[Len(t) + k] = s[k]
         /\ \A k \in (Len(t) + 1)..Len(t \o s) :
               k - Len(t) \in 1..Len(s) /\ (t \o s)[k] = s[k - Len(t)]
  OBVIOUS

\* The scan of a text that leaves nothing open goes on as that of what follows.
Continued(at, t, of, s) ==
    [k \in 0..Len(t \o s) |-> IF k <= Len(t) THEN at[k] ELSE of[k - Len(t)]]

LEMMA ScanContinues ==
  ASSUME NEW t \in Seq(Chars), NEW at, IsScanOf(at, t), at[Len(t)] = Outside,
         NEW s \in Seq(Chars), NEW of, IsScanOf(of, s)
  PROVE  /\ IsScanOf(Continued(at, t, of, s), t \o s)
         /\ \A k \in 0..Len(t) : Continued(at, t, of, s)[k] = at[k]
         /\ \A k \in 0..Len(s) : Continued(at, t, of, s)[Len(t) + k] = of[k]
PROOF
<1> DEFINE both == Continued(at, t, of, s)
           n == Len(t)
<1>1. /\ n \in Nat /\ Len(s) \in Nat /\ Len(t \o s) = n + Len(s)
      /\ at \in [0..n -> ScanStates] /\ of \in [0..Len(s) -> ScanStates]
  BY Joined DEF IsScanOf
<1>2. both \in [0..Len(t \o s) -> ScanStates]
  <2> SUFFICES ASSUME NEW k \in 0..Len(t \o s)
               PROVE  (IF k <= n THEN at[k] ELSE of[k - n]) \in ScanStates
    BY DEF Continued
  <2>1. k <= n => k \in 0..n
    BY <1>1
  <2>2. ~(k <= n) => k - n \in 0..Len(s)
    BY <1>1
  <2> QED  BY <1>1, <2>1, <2>2
<1>3. \A k \in 0..n : both[k] = at[k]
  BY <1>1 DEF Continued
<1>4. \A k \in 0..Len(s) : both[n + k] = of[k]
  <2> SUFFICES ASSUME NEW k \in 0..Len(s)
               PROVE  both[n + k] = of[k]
    OBVIOUS
  <2>1. CASE k = 0
    BY <1>1, <1>3, <2>1 DEF IsScanOf
  <2>2. CASE k > 0
    <3>1. n + k \in 0..Len(t \o s) /\ ~(n + k <= n) /\ (n + k) - n = k
      BY <1>1, <2>2
    <3> QED  BY <3>1 DEF Continued
  <2> QED  BY <2>1, <2>2
<1>5. \A k \in 1..Len(t \o s) : both[k] = After(both[k - 1], (t \o s)[k])
  <2> SUFFICES ASSUME NEW k \in 1..Len(t \o s)
               PROVE  both[k] = After(both[k - 1], (t \o s)[k])
    OBVIOUS
  <2>1. CASE k <= n
    <3>1. k \in 1..n /\ k \in 0..n /\ k - 1 \in 0..n
      BY <1>1, <2>1
    <3> QED  BY <1>3, <3>1, Joined DEF IsScanOf
  <2>2. CASE k > n
    <3> DEFINE j == k - n
    <3>1. j \in 1..Len(s) /\ j \in 0..Len(s) /\ j - 1 \in 0..Len(s) /\ k = n + j
          /\ k - 1 = n + (j - 1)
      BY <1>1, <2>2
    <3> HIDE DEF j
    <3>2. both[k] = of[j] /\ both[k - 1] = of[j - 1] /\ (t \o s)[k] = s[j]
      BY <1>4, <3>1, Joined
    <3> QED  BY <3>1, <3>2 DEF IsScanOf
  <2> QED  BY <1>1, <2>1, <2>2
<1>6. both[0] = Outside
  BY <1>1, <1>3 DEF IsScanOf
<1> QED  BY <1>2, <1>3, <1>4, <1>5, <1>6 DEF IsScanOf

\* Answer a is the object of t from x to y, and no other answer follows it.
Place(t, at, a, x, y) ==
    /\ x \in 1..Len(t) /\ y \in x..Len(t) /\ SubSeq(t, x, y) = a
    /\ at[x - 1] = Outside /\ at[y] = Outside
    /\ \A k \in x..(y - 1) : at[k].stack > 0
    /\ \A k \in (y + 1)..Len(t), b \in Answers : t[k] \notin Marks(b)

\* A text whose last answer is a, and that, if closed, leaves nothing open.
Kept(t, a, closed) ==
    \E at : /\ IsScanOf(at, t) /\ (closed => at[Len(t)] = Outside)
            /\ a # None => \E x, y \in Nat : Place(t, at, a, x, y)

LEMMA PieceIs ==
  ASSUME NEW s \in Pieces
  PROVE  /\ s \in Seq(Chars) /\ IsScanOf(ScanOf(s), s)
         /\ \A b \in Answers : s # b => \A k \in 1..Len(s) : s[k] \notin Marks(b)
  BY TextsAssumption DEF Marks, CharsOf

\* Whatever piece is written next keeps the text so.
LEMMA PieceKept ==
  ASSUME NEW t \in Seq(Chars), NEW a, Kept(t, a, TRUE), NEW s \in Pieces
  PROVE  Kept(t \o s, IF s \in Answers THEN s ELSE a, Balanced(s))
PROOF
<1> DEFINE n == Len(t)
           of == ScanOf(s)
<1>1. PICK at : /\ IsScanOf(at, t) /\ at[n] = Outside
                /\ a # None => \E x, y \in Nat : Place(t, at, a, x, y)
  BY DEF Kept
<1> DEFINE both == Continued(at, t, of, s)
<1>2. /\ s \in Seq(Chars) /\ IsScanOf(of, s) /\ (Balanced(s) => of[Len(s)] = Outside)
      /\ n \in Nat /\ Len(s) \in Nat /\ Len(t \o s) = n + Len(s)
  BY PieceIs, Joined DEF Balanced
<1>3. /\ IsScanOf(both, t \o s) /\ \A k \in 0..n : both[k] = at[k]
      /\ \A k \in 0..Len(s) : both[n + k] = of[k]
  BY <1>1, <1>2, ScanContinues
<1>4. Balanced(s) => both[Len(t \o s)] = Outside
  BY <1>2, <1>3
<1> HIDE DEF both, of
<1>5. CASE s \in Answers
  <2>1. Len(s) >= 2 /\ \A k \in 1..(Len(s) - 1) : of[k].stack > 0
    BY <1>5, TextsAssumption DEF of
  <2>3. Balanced(s)
    BY <1>5, TextsAssumption
  <2>2. Place(t \o s, both, s, n + 1, n + Len(s))
    <3>1. SubSeq(t \o s, n + 1, n + Len(s)) = s
      BY <1>2
    <3>2. both[(n + 1) - 1] = Outside /\ both[n + Len(s)] = Outside
      BY <1>1, <1>2, <1>3, <2>3
    <3>3. ASSUME NEW k \in (n + 1)..((n + Len(s)) - 1)
          PROVE  both[k].stack > 0
      <4>1. k - n \in 1..(Len(s) - 1) /\ k - n \in 0..Len(s) /\ n + (k - n) = k
        BY <1>2
      <4> QED  BY <1>3, <2>1, <4>1
    <3> QED  BY <1>2, <2>1, <3>1, <3>2, <3>3 DEF Place
  <2>4. \E x, y \in Nat : Place(t \o s, both, s, x, y)
    <3>1. n + 1 \in Nat /\ n + Len(s) \in Nat
      BY <1>2
    <3> QED  BY <2>2, <3>1
  <2>5. /\ IsScanOf(both, t \o s) /\ (Balanced(s) => both[Len(t \o s)] = Outside)
        /\ s # None => \E x, y \in Nat : Place(t \o s, both, s, x, y)
    BY <1>3, <1>4, <2>4
  <2>6. Kept(t \o s, s, Balanced(s))
    BY <2>5 DEF Kept
  <2> QED  BY <1>5, <2>6
<1>6. CASE s \notin Answers
  <2>1. ASSUME NEW x \in Nat, NEW y \in Nat, Place(t, at, a, x, y)
        PROVE  Place(t \o s, both, a, x, y)
    <3>1. x \in 1..n /\ y \in x..n
      BY <2>1 DEF Place
    <3>2. SubSeq(t \o s, x, y) = a
      <4>1. SubSeq(t \o s, x, y) = SubSeq(t, x, y)
        BY <1>2, <3>1
      <4> QED  BY <2>1, <4>1 DEF Place
    <3>3. /\ both[x - 1] = Outside /\ both[y] = Outside
          /\ \A k \in x..(y - 1) : both[k].stack > 0
      <4>1. x - 1 \in 0..n /\ y \in 0..n /\ \A k \in x..(y - 1) : k \in 0..n
        BY <1>2, <3>1
      <4>2. both[x - 1] = at[x - 1] /\ both[y] = at[y] /\ \A k \in x..(y - 1) : both[k] = at[k]
        BY <1>3, <4>1
      <4> QED  BY <2>1, <4>2 DEF Place
    <3>4. ASSUME NEW k \in (y + 1)..Len(t \o s), NEW b \in Answers
          PROVE  (t \o s)[k] \notin Marks(b)
      <4>1. CASE k <= n
        <5>1. k \in (y + 1)..n /\ k \in 1..n
          BY <1>2, <3>1, <4>1
        <5> QED  BY <1>2, <2>1, <5>1, Joined DEF Place
      <4>2. CASE k > n
        <5>1. k \in (n + 1)..Len(t \o s)
          BY <1>2, <4>2
        <5>2. k - n \in 1..Len(s) /\ (t \o s)[k] = s[k - n]
          BY <1>2, <5>1, Joined
        <5> QED  BY <1>6, <5>2, PieceIs
      <4> QED  BY <1>2, <3>1, <4>1, <4>2
    <3> QED  BY <1>2, <3>1, <3>2, <3>3, <3>4 DEF Place
  <2> QED  BY <1>1, <1>3, <1>4, <1>6, <2>1 DEF Kept
<1> QED  BY <1>5, <1>6

\* A tool response is what the tool returned, or a part of it and dots.
LEMMA ResponseIs ==
  ASSUME NEW found \in Results, setting \in Cuts
  PROVE  /\ ToolResponse(found) \in Seq(Chars)
         /\ \A b \in Answers : \A k \in 1..Len(ToolResponse(found)) :
               ToolResponse(found)[k] \notin Marks(b)
         /\ ~(Len(found) > setting.limit) => ToolResponse(found) = found
PROOF
<1> DEFINE n == setting.limit
           Plain == {c \in Chars : \A b \in Answers : c \notin Marks(b)}
<1>1. n \in Nat /\ setting.side \in {"left", "right", "middle"}
  BY BoundsAssumption
<1>2. found \in Seq(Plain) /\ <<Dots>> \in Seq(Plain)
  <2>1. found \in Pieces /\ \A b \in Answers : found # b
    BY TextsAssumption DEF Pieces
  <2>2. \A k \in 1..Len(found) : found[k] \in Plain
    BY <2>1, PieceIs
  <2>3. Dots \in Plain
    BY DEF Chars, Marks
  <2> HIDE DEF Plain
  <2> QED  BY <2>1, <2>2, <2>3, PieceIs
<1> HIDE DEF Plain, n
<1>3. \A m \in Nat : m <= Len(found) =>
         SubSeq(found, 1, m) \in Seq(Plain) /\ LastPart(found, m) \in Seq(Plain)
  <2> SUFFICES ASSUME NEW m \in Nat, m <= Len(found)
               PROVE  SubSeq(found, 1, m) \in Seq(Plain) /\ LastPart(found, m) \in Seq(Plain)
    OBVIOUS
  <2>1. SubSeq(found, 1, m) \in Seq(Plain)
    BY <1>2
  <2>2. SubSeq(found, Len(found) - m + 1, Len(found)) \in Seq(Plain)
    BY <1>2
  <2> QED  BY <1>2, <2>1, <2>2 DEF LastPart
<1>4. ~(Len(found) > n) => ToolResponse(found) = found
  BY <1>1, <1>2 DEF ToolResponse, n
<1>5. ToolResponse(found) \in Seq(Plain)
  <2>1. CASE Len(found) <= n
    BY <1>2, <2>1 DEF ToolResponse, n
  <2>2. CASE ~(Len(found) <= n)
    <3>1. n <= Len(found) /\ n \div 2 \in Nat /\ n \div 2 <= Len(found)
      BY <1>1, <1>2, <2>2
    <3>2. SubSeq(found, 1, n) \in Seq(Plain) /\ LastPart(found, n) \in Seq(Plain)
          /\ SubSeq(found, 1, n \div 2) \in Seq(Plain) /\ LastPart(found, n \div 2) \in Seq(Plain)
      BY <1>1, <1>3, <3>1
    <3>3. \A u, v \in Seq(Plain) : u \o v \in Seq(Plain)
      OBVIOUS
    <3>4. ToolResponse(found) = <<Dots>> \o LastPart(found, n)
          \/ ToolResponse(found) = SubSeq(found, 1, n) \o <<Dots>>
          \/ ToolResponse(found) = (SubSeq(found, 1, n \div 2) \o <<Dots>>) \o LastPart(found, n \div 2)
      BY <1>1, <2>2 DEF ToolResponse, n
    <3>5. (SubSeq(found, 1, n \div 2) \o <<Dots>>) \o LastPart(found, n \div 2) \in Seq(Plain)
      <4>1. SubSeq(found, 1, n \div 2) \o <<Dots>> \in Seq(Plain)
        BY <1>2, <3>2, <3>3
      <4> QED  BY <3>2, <3>3, <4>1
    <3>6. /\ <<Dots>> \o LastPart(found, n) \in Seq(Plain)
          /\ SubSeq(found, 1, n) \o <<Dots>> \in Seq(Plain)
      BY <1>2, <3>2, <3>3
    <3> QED  BY <3>4, <3>5, <3>6
  <2> QED  BY <2>1, <2>2
<1>6. Plain \subseteq Chars /\ \A c \in Plain, b \in Answers : c \notin Marks(b)
  BY DEF Plain
<1> QED  BY <1>4, <1>5, <1>6 DEF n

-----------------------------------------------------------------------------
(* The inductive invariant of the transcript and its scan.                  *)

Holds(w, b) == \E j \in 1..Len(w) : w[j] = b

\* What tells an answer is in the text only where the answer was written.
Marked(t, w) ==
    \A b \in Answers : \A k \in 1..Len(t) : t[k] \in Marks(b) => Holds(w, b)

Texts ==
    /\ setting \in Cuts /\ intact \in BOOLEAN
    /\ text \in Seq(Chars) /\ written \in Seq(Answers)
    /\ Marked(text, written)

Here == [stack |-> stack, in_str |-> in_str, escape |-> escape]

\* Places of a text, one after the other.
InOrder(cs) ==
    \A k \in 1..Len(cs) : /\ cs[k][1] <= cs[k][2]
                          /\ \A j \in 1..(k - 1) : cs[j][2] < cs[k][1]

Behind(cs, at) == \A k \in 1..Len(cs) : cs[k][2] < at

\* Candidates are places of the text before i, and before an open object.
Candidates ==
    /\ Here \in ScanStates
    /\ i \in 1..(Len(text) + 1) /\ start \in 0..(i - 1)
    /\ candidates \in Seq((1..(i - 1)) \X (1..(i - 1))) /\ InOrder(candidates)
    /\ stack > 0 => start > 0 /\ Behind(candidates, start)

\* The scan is where that of an uncut text is, and has met its last answer if
\* it is behind it.
Follows ==
    intact => \E at : /\ IsScanOf(at, text)
                      /\ (phase = "rollout" => at[Len(text)] = Outside)
                      /\ Here = at[i - 1]
                      /\ LastWritten # None =>
                            \E x, y \in Nat :
                               /\ Place(text, at, LastWritten, x, y)
                               /\ x < i /\ i <= y => start = x
                               /\ y < i => \E k \in 1..Len(candidates) : candidates[k] = <<x, y>>

Phases ==
    /\ phase \in {"rollout", "scan", "done"}
    /\ phase = "rollout" => i = 1 /\ candidates = <<>> /\ Here = Outside
    /\ phase = "done" => i > Len(text) /\ answer = Picked

IInv == Texts /\ Candidates /\ Follows /\ Phases

\* What a piece does to the answers written, and to the last of them.
Wrote(w, s) == IF s \in Answers THEN Append(w, s) ELSE w

Last(w) == IF w = <<>> THEN None ELSE w[Len(w)]

LEMMA WroteIs ==
  ASSUME NEW w \in Seq(Answers), NEW s
  PROVE  /\ Wrote(w, s) \in Seq(Answers)
         /\ Last(Wrote(w, s)) = IF s \in Answers THEN s ELSE Last(w)
         /\ \A b : Holds(w, b) => Holds(Wrote(w, s), b)
         /\ s \in Answers => Holds(Wrote(w, s), s)
PROOF
<1>1. CASE s \in Answers
  <2>1. /\ Append(w, s) \in Seq(Answers) /\ Len(Append(w, s)) = Len(w) + 1
        /\ Append(w, s)[Len(w) + 1] = s /\ \A j \in 1..Len(w) : Append(w, s)[j] = w[j]
        /\ Len(w) \in Nat /\ Append(w, s) # <<>>
    BY <1>1
  <2>2. /\ Len(w) + 1 \in 1..Len(Append(w, s))
        /\ \A j \in 1..Len(w) : j \in 1..Len(Append(w, s))
    BY <2>1
  <2> QED  BY <1>1, <2>1, <2>2 DEF Wrote, Last, Holds
<1>2. CASE s \notin Answers
  BY <1>2 DEF Wrote
<1> QED  BY <1>1, <1>2

\* A piece joins a text with the answers it writes.
LEMMA PieceJoins ==
  ASSUME NEW t \in Seq(Chars), NEW w \in Seq(Answers), Marked(t, w), NEW s \in Pieces
  PROVE  /\ t \o s \in Seq(Chars) /\ Marked(t \o s, Wrote(w, s))
         /\ Kept(t, Last(w), TRUE) => Kept(t \o s, Last(Wrote(w, s)), Balanced(s))
PROOF
<1>1. s \in Seq(Chars)
  BY PieceIs
<1>2. Marked(t \o s, Wrote(w, s))
  <2> SUFFICES ASSUME NEW b \in Answers, NEW k \in 1..Len(t \o s), (t \o s)[k] \in Marks(b)
               PROVE  Holds(Wrote(w, s), b)
    BY DEF Marked
  <2>1. CASE k <= Len(t)
    <3>1. k \in 1..Len(t) /\ (t \o s)[k] = t[k]
      BY <1>1, <2>1, Joined
    <3> QED  BY <3>1, WroteIs DEF Marked
  <2>2. CASE k > Len(t)
    <3>1. k \in (Len(t) + 1)..Len(t \o s)
      BY <1>1, <2>2
    <3>2. k - Len(t) \in 1..Len(s) /\ (t \o s)[k] = s[k - Len(t)]
      BY <1>1, <3>1, Joined
    <3>3. s = b
      BY <3>2, PieceIs
    <3> QED  BY <3>3, WroteIs
  <2> QED  BY <1>1, <2>1, <2>2
<1>3. Kept(t, Last(w), TRUE) => Kept(t \o s, Last(Wrote(w, s)), Balanced(s))
  <2> SUFFICES ASSUME Kept(t, Last(w), TRUE)
               PROVE  Kept(t \o s, Last(Wrote(w, s)), Balanced(s))
    OBVIOUS
  <2>1. Kept(t \o s, IF s \in Answers THEN s ELSE Last(w), Balanced(s))
    BY PieceKept
  <2>2. Last(Wrote(w, s)) = IF s \in Answers THEN s ELSE Last(w)
    BY WroteIs
  <2> QED  BY <2>1, <2>2
<1> QED  BY <1>1, <1>2, <1>3, Joined

\* So does a tool response, which writes none.
LEMMA ResponseJoins ==
  ASSUME NEW t \in Seq(Chars), NEW w \in Seq(Answers), Marked(t, w),
         NEW found \in Results, setting \in Cuts
  PROVE  /\ t \o ToolResponse(found) \in Seq(Chars)
         /\ Marked(t \o ToolResponse(found), w)
         /\ Kept(t, Last(w), TRUE) /\ ~(Len(found) > setting.limit) =>
               Kept(t \o ToolResponse(found), Last(w), TRUE)
PROOF
<1> DEFINE s == ToolResponse(found)
<1>1. s \in Seq(Chars) /\ \A b \in Answers : \A k \in 1..Len(s) : s[k] \notin Marks(b)
  BY ResponseIs
<1>2. ~(Len(found) > setting.limit) => s = found
  BY ResponseIs
<1> HIDE DEF s
<1>3. Marked(t \o s, w)
  <2> SUFFICES ASSUME NEW b \in Answers, NEW k \in 1..Len(t \o s), (t \o s)[k] \in Marks(b)
               PROVE  Holds(w, b)
    BY DEF Marked
  <2>1. CASE k <= Len(t)
    <3>1. k \in 1..Len(t) /\ (t \o s)[k] = t[k]
      BY <1>1, <2>1, Joined
    <3> QED  BY <3>1 DEF Marked
  <2>2. CASE k > Len(t)
    <3>1. k \in (Len(t) + 1)..Len(t \o s)
      BY <1>1, <2>2
    <3> QED  BY <1>1, <3>1, Joined
  <2> QED  BY <1>1, <2>1, <2>2
<1>4. found \in Pieces /\ found \notin Answers /\ Balanced(found)
  BY TextsAssumption DEF Pieces
<1>5. Kept(t, Last(w), TRUE) => Kept(t \o found, Last(w), TRUE)
  <2>1. Balanced(found) = TRUE
    BY <1>4 DEF Balanced
  <2> QED  BY <1>4, <2>1, PieceKept
<1> QED  BY <1>1, <1>2, <1>3, <1>5, Joined DEF s

-----------------------------------------------------------------------------
LEMMA InitInvariant == Init => IInv
PROOF
<1> SUFFICES ASSUME Init
             PROVE  IInv
  OBVIOUS
<1>1. /\ setting \in Cuts /\ text = <<>> /\ intact = TRUE /\ written = <<>> /\ phase = "rollout"
      /\ i = 1 /\ start = 0 /\ candidates = <<>> /\ stack = 0 /\ Here = Outside
  BY DEF Init, Here, Outside
<1>2. Texts
  <2>1. text \in Seq(Chars) /\ written \in Seq(Answers) /\ \A k \in 1..Len(text) : FALSE
    BY <1>1
  <2>2. Marked(text, written)
    BY <2>1 DEF Marked
  <2> QED  BY <1>1, <2>1, <2>2 DEF Texts
<1>3. Candidates
  <2>1. Here \in ScanStates /\ Len(text) = 0
    BY <1>1 DEF Outside, ScanStates
  <2>2. candidates \in Seq((1..(i - 1)) \X (1..(i - 1))) /\ InOrder(candidates)
    BY <1>1 DEF InOrder
  <2> QED  BY <1>1, <2>1, <2>2 DEF Candidates
<1>4. Follows
  <2> DEFINE at == [k \in 0..0 |-> Outside]
  <2>1. IsScanOf(at, text) /\ at[Len(text)] = Outside /\ Here = at[i - 1]
    BY <1>1 DEF IsScanOf, Outside, ScanStates
  <2>2. LastWritten = None
    BY <1>1 DEF LastWritten
  <2> HIDE DEF at
  <2> QED  BY <2>1, <2>2 DEF Follows
<1>5. Phases
  BY <1>1 DEF Phases
<1> QED  BY <1>2, <1>3, <1>4, <1>5 DEF IInv

\* Before the scan there is nothing to follow but the text.
LEMMA BeforeScan ==
  ASSUME IInv, phase = "rollout"
  PROVE  intact => Kept(text, Last(written), TRUE)
  BY DEF IInv, Follows, Kept, Last, LastWritten

LEMMA TranscriptGrows ==
  ASSUME IInv, phase = "rollout", phase' \in {"rollout", "scan"}, UNCHANGED <<setting, scan>>,
         intact' \in BOOLEAN,
         text' \in Seq(Chars), written' \in Seq(Answers), Marked(text', written'),
         intact' => Kept(text', Last(written'), phase' = "rollout")
  PROVE  IInv'
PROOF
<1>1. /\ i = 1 /\ i' = 1 /\ candidates = <<>> /\ candidates' = <<>> /\ start' = start
      /\ Here = Outside /\ Here' = Outside /\ stack' = stack /\ setting \in Cuts
      /\ setting' = setting
  BY DEF IInv, Phases, Texts, Here, scan
<1>2. Texts'
  BY <1>1 DEF Texts
<1>3. Candidates'
  <2>1. Here' \in ScanStates /\ start \in 0..0 /\ stack' = 0
    BY <1>1 DEF IInv, Candidates, Here, Outside
  <2>2. i' \in 1..(Len(text') + 1) /\ start' \in 0..(i' - 1)
        /\ candidates' \in Seq((1..(i' - 1)) \X (1..(i' - 1)))
    BY <1>1, <2>1
  <2>3. InOrder(candidates')
    BY <1>1 DEF InOrder
  <2>4. stack' > 0 => start' > 0 /\ Behind(candidates', start')
    BY <2>1
  <2> HIDE DEF Here
  <2> QED  BY <2>1, <2>2, <2>3, <2>4 DEF Candidates
<1>4. Follows'
  <2> SUFFICES ASSUME intact'
               PROVE  Follows'
    BY DEF Follows
  <2>1. PICK at : /\ IsScanOf(at, text') /\ (phase' = "rollout" => at[Len(text')] = Outside)
                  /\ Last(written') # None =>
                        \E x, y \in Nat : Place(text', at, Last(written'), x, y)
    BY DEF Kept
  <2>2. LastWritten' = Last(written')
    BY DEF LastWritten, Last
  <2>3. Here' = at[i' - 1]
    BY <1>1, <2>1 DEF IsScanOf
  <2>4. \A x, y \in Nat : Place(text', at, Last(written'), x, y) => ~(x < i') /\ ~(y < i')
    <3>1. Len(text') \in Nat
      BY DEF IInv
    <3> QED  BY <1>1, <3>1 DEF Place
  <2> QED  BY <2>1, <2>2, <2>3, <2>4 DEF Follows
<1>5. Phases'
  BY <1>1 DEF Phases
<1> QED  BY <1>2, <1>3, <1>4, <1>5 DEF IInv

LEMMA ToolRoundStep == IInv /\ ToolRound => IInv'
PROOF
<1> SUFFICES ASSUME IInv, ToolRound
             PROVE  IInv'
  OBVIOUS
<1>1. PICK said \in Prose \cup Answers, found \in Results :
         /\ text' = (text \o said) \o ToolResponse(found)
         /\ written' = IF said \in Answers THEN Append(written, said) ELSE written
         /\ intact' = (intact /\ Balanced(said) /\ Len(found) <= setting.limit)
  BY DEF ToolRound
<1>2. /\ setting \in Cuts /\ intact \in BOOLEAN /\ text \in Seq(Chars) /\ written \in Seq(Answers)
      /\ Marked(text, written) /\ said \in Pieces /\ written' = Wrote(written, said)
  BY <1>1 DEF IInv, Texts, Pieces, Wrote
<1>3. /\ text \o said \in Seq(Chars) /\ Marked(text \o said, written')
      /\ Kept(text, Last(written), TRUE) =>
            Kept(text \o said, Last(written'), Balanced(said))
  BY <1>2, PieceJoins
<1>4. written' \in Seq(Answers)
  BY <1>2, WroteIs
<1>5. /\ text' \in Seq(Chars) /\ Marked(text', written')
      /\ Kept(text \o said, Last(written'), TRUE) /\ ~(Len(found) > setting.limit) =>
            Kept(text', Last(written'), TRUE)
  BY <1>1, <1>2, <1>3, <1>4, ResponseJoins
<1>6. phase = "rollout" /\ phase' = "rollout" /\ UNCHANGED <<setting, scan>>
  BY DEF ToolRound
<1>7. intact' \in BOOLEAN
  BY <1>1, <1>2
<1>9. intact' => intact /\ Balanced(said) /\ ~(Len(found) > setting.limit)
  <2>1. Len(found) \in Nat
    <3>1. found \in Pieces
      BY <1>1 DEF Pieces
    <3> QED  BY <3>1, PieceIs
  <2>2. setting.limit \in Nat
    BY <1>2, BoundsAssumption
  <2>3. Len(found) <= setting.limit => ~(Len(found) > setting.limit)
    BY <2>1, <2>2
  <2> QED  BY <1>1, <2>3
<1>8. intact' => Kept(text', Last(written'), TRUE)
  <2>1. Balanced(said) => Balanced(said) = TRUE
    BY DEF Balanced
  <2> QED  BY <1>3, <1>5, <1>6, <1>9, <2>1, BeforeScan
<1> QED  BY <1>4, <1>5, <1>6, <1>7, <1>8, TranscriptGrows

LEMMA EndRolloutStep == IInv /\ EndRollout => IInv'
PROOF
<1> SUFFICES ASSUME IInv, EndRollout
             PROVE  IInv'
  OBVIOUS
<1>1. PICK before \in Prose \cup {None}, said \in Answers \cup {None}, after \in Prose :
         /\ text' = ((text \o before) \o said) \o after
         /\ written' = IF said = None THEN written ELSE Append(written, said)
         /\ intact' = (intact /\ Balanced(before))
  BY DEF EndRollout
<1>2. None \notin Answers /\ before \notin Answers /\ after \notin Answers
  BY TextsAssumption DEF None
<1>3. /\ setting \in Cuts /\ intact \in BOOLEAN /\ text \in Seq(Chars) /\ written \in Seq(Answers)
      /\ Marked(text, written) /\ before \in Pieces /\ said \in Pieces /\ after \in Pieces
      /\ written = Wrote(written, before)
      /\ written' = Wrote(written, said) /\ written' = Wrote(written', after)
  BY <1>1, <1>2 DEF IInv, Texts, Pieces, Wrote
<1> DEFINE head == text \o before
<1>4. /\ head \in Seq(Chars) /\ Marked(head, written)
      /\ Kept(text, Last(written), TRUE) => Kept(head, Last(written), Balanced(before))
  BY <1>3, PieceJoins
<1> HIDE DEF head
<1>5. /\ head \o said \in Seq(Chars) /\ Marked(head \o said, written')
      /\ Kept(head, Last(written), TRUE) => Kept(head \o said, Last(written'), Balanced(said))
  BY <1>3, <1>4, PieceJoins
<1>6. written' \in Seq(Answers)
  BY <1>3, WroteIs
<1>7. /\ text' \in Seq(Chars) /\ Marked(text', written')
      /\ Kept(head \o said, Last(written'), TRUE) =>
            Kept(text', Last(written'), Balanced(after))
  BY <1>1, <1>3, <1>5, <1>6, PieceJoins DEF head
<1>8. /\ phase = "rollout" /\ phase' = "scan" /\ UNCHANGED <<setting, scan>>
  BY DEF EndRollout
<1>9. intact' => Kept(text', Last(written'), FALSE)
  <2> SUFFICES ASSUME intact'
               PROVE  Kept(text', Last(written'), FALSE)
    OBVIOUS
  <2>1. Balanced(before) = TRUE
    BY <1>1 DEF Balanced
  <2>2. Balanced(said) = TRUE
    <3>1. CASE said \in Answers
      BY <3>1, TextsAssumption DEF Balanced
    <3>2. CASE said = None
      <4>1. ScanOf(None)[0] = Outside /\ Len(None) = 0
        BY PieceIs DEF Pieces, IsScanOf, None
      <4> QED  BY <3>2, <4>1 DEF Balanced
    <3> QED  BY <1>1, <3>1, <3>2
  <2>3. Kept(text', Last(written'), Balanced(after))
    BY <1>1, <1>4, <1>5, <1>7, <1>8, <2>1, <2>2, BeforeScan
  <2> QED  BY <2>3 DEF Kept
<1>10. (phase' = "rollout") = FALSE
  BY <1>8
<1> QED  BY <1>1, <1>3, <1>6, <1>7, <1>8, <1>9, <1>10, TranscriptGrows

\* What a step of the scan does, whichever of the five it is.
LEMMA ScanIs ==
  ASSUME IInv, Scan
  PROVE  /\ phase = "scan" /\ i \in 1..Len(text) /\ i' = i + 1
         /\ Here' = After(Here, text[i]) /\ Here' \in ScanStates
         /\ ~in_str /\ text[i] = Open /\ stack = 0 => start' = i
         /\ ~(~in_str /\ text[i] = Open /\ stack = 0) => start' = start
         /\ ~in_str /\ text[i] = Close /\ stack = 1 =>
               candidates' = Append(candidates, <<start, i>>)
         /\ ~(~in_str /\ text[i] = Close /\ stack = 1) => candidates' = candidates
PROOF
<1>1. phase = "scan" /\ i \in 1..Len(text) /\ i' = i + 1
  <2>1. i \in 1..(Len(text) + 1) /\ text \in Seq(Chars)
    BY DEF IInv, Candidates, Texts
  <2> QED  BY <2>1 DEF Scan, AtChar, InString, OpenString, OpenBrace, CloseBrace, OtherChar
<1>2. /\ Here \in ScanStates /\ stack \in Nat /\ in_str \in BOOLEAN /\ escape \in BOOLEAN
      /\ Here.stack = stack /\ Here.in_str = in_str /\ Here.escape = escape
  BY DEF IInv, Candidates, ScanStates, Here
<1>3. Open # Close /\ Quote # Open /\ Quote # Close
  BY TextsAssumption
<1>4. CASE InString
  <2>1. in_str /\ After(Here, text[i]) = [stack |-> stack, in_str |-> (escape \/ text[i] # Quote),
                                         escape |-> (~escape /\ text[i] = Backslash)]
    BY <1>2, <1>4, AfterIs DEF InString
  <2>2. Here' = After(Here, text[i])
    BY <1>4, <2>1 DEF InString, Here
  <2> QED  BY <1>1, <1>2, <1>4, <2>1, <2>2 DEF InString, ScanStates
<1>5. CASE OpenString
  <2>1. ~in_str /\ text[i] = Quote /\ After(Here, text[i]) = [stack |-> stack, in_str |-> TRUE,
                                                             escape |-> escape]
    BY <1>2, <1>3, <1>5, AfterIs DEF OpenString
  <2>2. Here' = After(Here, text[i])
    BY <1>5, <2>1 DEF OpenString, Here
  <2> QED  BY <1>1, <1>2, <1>3, <1>5, <2>1, <2>2 DEF OpenString, ScanStates
<1>6. CASE OpenBrace
  <2>1. ~in_str /\ text[i] = Open /\ After(Here, text[i]) = [stack |-> stack + 1, in_str |-> FALSE,
                                                            escape |-> escape]
    BY <1>2, <1>3, <1>6, AfterIs DEF OpenBrace
  <2>2. Here' = After(Here, text[i])
    BY <1>2, <1>6, <2>1 DEF OpenBrace, Here
  <2> QED  BY <1>1, <1>2, <1>3, <1>6, <2>1, <2>2 DEF OpenBrace, ScanStates
<1>7. CASE CloseBrace
  <2>1. ~in_str /\ text[i] = Close
        /\ After(Here, text[i]) = [stack |-> IF stack > 0 THEN stack - 1 ELSE stack,
                                   in_str |-> FALSE, escape |-> escape]
    BY <1>2, <1>3, <1>7, AfterIs DEF CloseBrace
  <2>2. Here' = After(Here, text[i])
    <3>1. stack' = IF stack > 0 THEN stack - 1 ELSE stack
      BY <1>2, <1>7 DEF CloseBrace
    <3>2. in_str' = FALSE /\ escape' = escape
      BY <1>2, <1>7 DEF CloseBrace
    <3> QED  BY <2>1, <3>1, <3>2 DEF Here
  <2> QED  BY <1>1, <1>2, <1>3, <1>7, <2>1, <2>2 DEF CloseBrace, ScanStates
<1>8. CASE OtherChar
  <2>1. ~in_str /\ text[i] \notin {Quote, Open, Close}
        /\ After(Here, text[i]) = [stack |-> stack, in_str |-> FALSE, escape |-> escape]
    BY <1>2, <1>8, AfterIs DEF OtherChar
  <2>2. Here' = After(Here, text[i])
    BY <1>2, <1>8, <2>1 DEF OtherChar, Here
  <2> QED  BY <1>1, <1>2, <1>8, <2>1, <2>2 DEF OtherChar, ScanStates
<1> QED  BY <1>4, <1>5, <1>6, <1>7, <1>8 DEF Scan

\* The number of open braces changes by braces outside strings.
LEMMA BracesCount ==
  ASSUME IInv, Scan
  PROVE  /\ stack \in Nat /\ stack' \in Nat
         /\ stack' > stack => ~in_str /\ text[i] = Open
         /\ stack' < stack => ~in_str /\ text[i] = Close /\ stack = stack' + 1
         /\ ~in_str /\ text[i] = Close /\ stack = 1 => stack' = 0
PROOF
<1>1. /\ Here \in ScanStates /\ Here.stack = stack /\ Here.in_str = in_str
      /\ Here' = After(Here, text[i]) /\ Here'.stack = stack' /\ stack \in Nat
  BY ScanIs DEF IInv, Candidates, ScanStates, Here
<1>2. Open # Close
  BY TextsAssumption
<1>3. CASE in_str
  <2>1. stack' = stack
    <3>1. Here.in_str
      BY <1>1, <1>3
    <3>2. After(Here, text[i]).stack = Here.stack
      BY <1>1, <3>1, AfterIs
    <3> QED  BY <1>1, <3>2
  <2> QED  BY <1>1, <1>3, <2>1
<1>4. CASE ~in_str
  <2>1. stack' = IF text[i] = Open THEN stack + 1
                 ELSE IF text[i] = Close /\ stack > 0 THEN stack - 1 ELSE stack
    BY <1>1, <1>4, AfterIs
  <2> QED  BY <1>1, <1>2, <1>4, <2>1
<1> QED  BY <1>3, <1>4

LEMMA PlacesAppended ==
  ASSUME NEW n \in Nat, NEW cs \in Seq((1..(n - 1)) \X (1..(n - 1))), InOrder(cs),
         NEW at \in 1..n, Behind(cs, at)
  PROVE  /\ Append(cs, <<at, n>>) \in Seq((1..n) \X (1..n)) /\ InOrder(Append(cs, <<at, n>>))
         /\ Len(Append(cs, <<at, n>>)) = Len(cs) + 1 /\ Len(cs) \in Nat
         /\ \A k \in 1..Len(cs) : Append(cs, <<at, n>>)[k] = cs[k]
         /\ Append(cs, <<at, n>>)[Len(cs) + 1] = <<at, n>>
PROOF
<1> DEFINE more == Append(cs, <<at, n>>)
           Pairs == (1..n) \X (1..n)
<1>1. /\ Len(more) = Len(cs) + 1 /\ Len(cs) \in Nat /\ more[Len(cs) + 1] = <<at, n>>
      /\ \A k \in 1..Len(cs) : more[k] = cs[k]
  OBVIOUS
<1>2. more \in Seq(Pairs)
  <2>1. (1..(n - 1)) \X (1..(n - 1)) \subseteq Pairs /\ <<at, n>> \in Pairs
    OBVIOUS
  <2> HIDE DEF Pairs
  <2>2. cs \in Seq(Pairs)
    BY <2>1
  <2> QED  BY <2>1, <2>2
<1>3. InOrder(more)
  <2> SUFFICES ASSUME NEW k \in 1..Len(more)
               PROVE  more[k][1] <= more[k][2] /\ \A j \in 1..(k - 1) : more[j][2] < more[k][1]
    BY DEF InOrder
  <2> HIDE DEF more
  <2>1. CASE k = Len(cs) + 1
    <3>1. more[k][1] = at /\ more[k][2] = n
      BY <1>1, <2>1
    <3>2. \A j \in 1..(k - 1) : j \in 1..Len(cs)
      BY <1>1, <2>1
    <3>3. \A j \in 1..Len(cs) : more[j][2] < at
      BY <1>1 DEF Behind
    <3> QED  BY <3>1, <3>2, <3>3
  <2>2. CASE k # Len(cs) + 1
    <3>1. k \in 1..Len(cs) /\ \A j \in 1..(k - 1) : j \in 1..Len(cs)
      BY <1>1, <2>2
    <3> QED  BY <1>1, <3>1 DEF InOrder
  <2> QED  BY <2>1, <2>2
<1> QED  BY <1>1, <1>2, <1>3

LEMMA ScanStep == IInv /\ Scan => IInv'
PROOF
<1> SUFFICES ASSUME IInv, Scan
             PROVE  IInv'
  OBVIOUS
<1>1. /\ phase = "scan" /\ i \in 1..Len(text) /\ i' = i + 1 /\ Len(text) \in Nat
      /\ UNCHANGED <<rollout, phase, result>>
  BY ScanIs DEF Scan, IInv, Texts
<1>2. /\ text' = text /\ written' = written /\ setting' = setting /\ intact' = intact /\ phase' = phase
  BY <1>1 DEF rollout
<1>3. Texts'
  BY <1>2 DEF IInv, Texts
<1>4. /\ start \in 0..(i - 1) /\ candidates \in Seq((1..(i - 1)) \X (1..(i - 1)))
      /\ InOrder(candidates)
      /\ stack > 0 => start > 0 /\ Behind(candidates, start)
  BY DEF IInv, Candidates
<1> DEFINE opens == ~in_str /\ text[i] = Open /\ stack = 0
           closes == ~in_str /\ text[i] = Close /\ stack = 1
<1>5. /\ opens => start' = i
      /\ ~opens => start' = start
      /\ closes => candidates' = Append(candidates, <<start, i>>)
      /\ ~closes => candidates' = candidates
  BY ScanIs
<1>6. /\ stack \in Nat /\ stack' \in Nat
      /\ stack' > stack => ~in_str /\ text[i] = Open
      /\ stack' < stack => ~in_str /\ text[i] = Close /\ stack = stack' + 1
      /\ closes => stack' = 0 /\ stack = 1
  BY BracesCount
<1>7. \A k \in 1..Len(candidates) : candidates[k] \in (1..(i - 1)) \X (1..(i - 1))
  BY <1>4
<1>8. Candidates'
  <2>1. i' \in 1..(Len(text') + 1) /\ start' \in 0..(i' - 1)
    BY <1>1, <1>2, <1>4, <1>5
  <2>2. candidates' \in Seq((1..(i' - 1)) \X (1..(i' - 1))) /\ InOrder(candidates')
    <3>1. i' - 1 = i /\ i \in Nat
      BY <1>1
    <3>2. CASE closes
      <4>1. start \in 1..i /\ Behind(candidates, start)
        BY <1>1, <1>4, <1>6, <3>2
      <4>2. /\ Append(candidates, <<start, i>>) \in Seq((1..i) \X (1..i))
            /\ InOrder(Append(candidates, <<start, i>>))
        BY <1>4, <3>1, <4>1, PlacesAppended
      <4> QED  BY <1>5, <3>1, <3>2, <4>2
    <3>3. CASE ~closes
      <4>1. (1..(i - 1)) \X (1..(i - 1)) \subseteq (1..i) \X (1..i)
        BY <3>1
      <4>2. candidates \in Seq((1..i) \X (1..i))
        BY <1>4, <4>1
      <4> QED  BY <1>4, <1>5, <3>1, <3>3, <4>2
    <3> QED  BY <3>2, <3>3
  <2>3. stack' > 0 => start' > 0 /\ Behind(candidates', start')
    <3> SUFFICES ASSUME stack' > 0
                 PROVE  start' > 0 /\ Behind(candidates', start')
      OBVIOUS
    <3>1. candidates' = candidates
      BY <1>5, <1>6
    <3>2. CASE stack = 0
      <4>1. start' = i
        BY <1>5, <1>6, <3>2
      <4> QED  BY <1>1, <1>7, <3>1, <4>1 DEF Behind
    <3>3. CASE stack > 0
      BY <1>4, <1>5, <3>1, <3>3
    <3> QED  BY <1>6, <3>2, <3>3
  <2>4. Here' \in ScanStates
    BY ScanIs
  <2> HIDE DEF Here
  <2> QED  BY <2>1, <2>2, <2>3, <2>4 DEF Candidates
<1>9. Follows'
  <2> SUFFICES ASSUME intact
               PROVE  Follows'
    BY <1>2 DEF Follows
  <2>1. PICK at :
           /\ IsScanOf(at, text) /\ Here = at[i - 1]
           /\ LastWritten # None =>
                 \E x, y \in Nat :
                    /\ Place(text, at, LastWritten, x, y)
                    /\ x < i /\ i <= y => start = x
                    /\ y < i => \E k \in 1..Len(candidates) : candidates[k] = <<x, y>>
    BY DEF IInv, Follows
  <2>2. Here' = at[i] /\ at[i].stack = stack' /\ at[i - 1].stack = stack
    <3>1. Here' = at[i]
      BY <1>1, <2>1, ScanIs DEF IsScanOf
    <3> QED  BY <2>1, <3>1 DEF Here
  <2>3. ASSUME NEW x \in Nat, NEW y \in Nat, LastWritten # None,
               Place(text, at, LastWritten, x, y),
               x < i /\ i <= y => start = x,
               y < i => \E k \in 1..Len(candidates) : candidates[k] = <<x, y>>
        PROVE  /\ x < i' /\ i' <= y => start' = x
               /\ y < i' => \E k \in 1..Len(candidates') : candidates'[k] = <<x, y>>
    <3>1. /\ x \in 1..Len(text) /\ y \in x..Len(text) /\ at[x - 1] = Outside /\ at[y] = Outside
          /\ \A k \in x..(y - 1) : at[k].stack > 0
      BY <2>3 DEF Place
    <3>2. x < y
      <4>1. LastWritten \in Answers /\ Len(LastWritten) >= 2
        BY <2>3, TextsAssumption DEF IInv, Texts, LastWritten
      <4>2. Len(SubSeq(text, x, y)) = y - x + 1
        <5>1. text \in Seq(Chars)
          BY DEF IInv, Texts
        <5> QED  BY <3>1, <5>1
      <4> QED  BY <2>3, <3>1, <4>1, <4>2 DEF Place
    <3>3. Outside.stack = 0
      BY DEF Outside
    <3>4. CASE i < x
      BY <1>1, <3>2, <3>4
    <3>5. CASE i = x
      <4>1. stack = 0 /\ stack' > 0
        BY <1>1, <2>2, <3>1, <3>2, <3>3, <3>5
      <4>2. start' = i
        BY <1>5, <1>6, <4>1
      <4> QED  BY <1>1, <3>2, <3>5, <4>2
    <3>6. CASE x < i /\ i < y
      <4>1. stack > 0 /\ start = x
        BY <1>1, <2>2, <2>3, <3>1, <3>6
      <4> QED  BY <1>1, <1>5, <3>6, <4>1
    <3>7. CASE i = y
      <4>1. stack > 0 /\ stack' = 0 /\ start = x
        BY <1>1, <2>2, <2>3, <3>1, <3>2, <3>3, <3>7
      <4>2. closes
        BY <1>6, <4>1
      <4>3. start \in 1..i /\ Behind(candidates, start) /\ i \in Nat
        BY <1>1, <1>4, <4>1
      <4>4. /\ candidates' = Append(candidates, <<start, i>>)
            /\ Len(candidates') = Len(candidates) + 1 /\ Len(candidates) \in Nat
            /\ candidates'[Len(candidates) + 1] = <<start, i>>
        BY <1>4, <1>5, <4>2, <4>3, PlacesAppended
      <4>5. Len(candidates) + 1 \in 1..Len(candidates')
        BY <4>4
      <4> QED  BY <1>1, <3>7, <4>1, <4>4, <4>5
    <3>8. CASE y < i
      <4>1. PICK k \in 1..Len(candidates) : candidates[k] = <<x, y>>
        BY <2>3, <3>8
      <4>2. k \in 1..Len(candidates') /\ candidates'[k] = candidates[k]
        <5>1. CASE closes
          <6>1. start \in 1..i /\ Behind(candidates, start) /\ i \in Nat
            BY <1>1, <1>4, <1>6, <5>1
          <6> QED  BY <1>4, <1>5, <5>1, <6>1, PlacesAppended
        <5>2. CASE ~closes
          BY <1>5, <5>2
        <5> QED  BY <5>1, <5>2
      <4> QED  BY <1>1, <3>2, <3>8, <4>1, <4>2
    <3> QED  BY <1>1, <3>1, <3>4, <3>5, <3>6, <3>7, <3>8
  <2>4. LastWritten' = LastWritten /\ i' - 1 = i
    BY <1>1, <1>2 DEF LastWritten
  <2>5. LastWritten' # None =>
           \E x, y \in Nat :
              /\ Place(text', at, LastWritten', x, y)
              /\ x < i' /\ i' <= y => start' = x
              /\ y < i' => \E k \in 1..Len(candidates') : candidates'[k] = <<x, y>>
    <3> SUFFICES ASSUME LastWritten # None
                 PROVE  \E x, y \in Nat :
                           /\ Place(text, at, LastWritten, x, y)
                           /\ x < i' /\ i' <= y => start' = x
                           /\ y < i' => \E k \in 1..Len(candidates') : candidates'[k] = <<x, y>>
      BY <1>2, <2>4
    <3>1. PICK x \in Nat, y \in Nat :
             /\ Place(text, at, LastWritten, x, y)
             /\ x < i /\ i <= y => start = x
             /\ y < i => \E k \in 1..Len(candidates) : candidates[k] = <<x, y>>
      BY <2>1
    <3>2. /\ x < i' /\ i' <= y => start' = x
          /\ y < i' => \E k \in 1..Len(candidates') : candidates'[k] = <<x, y>>
      BY <2>3, <3>1
    <3> QED  BY <3>1, <3>2
  <2>6. IsScanOf(at, text') /\ phase' # "rollout" /\ Here' = at[i' - 1]
    BY <1>1, <1>2, <2>1, <2>2, <2>4
  <2> HIDE DEF Here
  <2> QED  BY <2>5, <2>6 DEF Follows
<1>10. Phases'
  BY <1>1, <1>2 DEF Phases
<1> QED  BY <1>3, <1>8, <1>9, <1>10 DEF IInv

LEMMA ComputeScoreStep == IInv /\ ComputeScore => IInv'
PROOF
<1> SUFFICES ASSUME IInv, ComputeScore
             PROVE  IInv'
  OBVIOUS
<1>1. phase' = "done" /\ i > Len(text) /\ answer' = Picked /\ UNCHANGED <<rollout, scan>>
  BY DEF ComputeScore
<1>2. /\ text' = text /\ written' = written /\ setting' = setting /\ intact' = intact
      /\ i' = i /\ stack' = stack /\ start' = start /\ in_str' = in_str /\ escape' = escape
      /\ candidates' = candidates
  BY <1>1 DEF rollout, scan
<1>3. Texts' /\ Candidates'
  BY <1>2 DEF IInv, Texts, Candidates, Here
<1>4. Follows'
  <2> SUFFICES ASSUME intact
               PROVE  Follows'
    BY <1>2 DEF Follows
  <2>1. PICK at : /\ IsScanOf(at, text) /\ Here = at[i - 1]
                  /\ LastWritten # None =>
                        \E x, y \in Nat :
                           /\ Place(text, at, LastWritten, x, y)
                           /\ x < i /\ i <= y => start = x
                           /\ y < i => \E k \in 1..Len(candidates) : candidates[k] = <<x, y>>
    BY DEF IInv, Follows
  <2>2. Here' = Here /\ LastWritten' = LastWritten
    BY <1>2 DEF Here, LastWritten
  <2>3. phase' # "rollout"
    BY <1>1
  <2> QED  BY <1>2, <2>1, <2>2, <2>3 DEF Follows
<1>5. Phases'
  BY <1>1, <1>2 DEF Phases, Picked, Object
<1> QED  BY <1>3, <1>4, <1>5 DEF IInv

THEOREM Invariant == Spec => []IInv
PROOF
<1>1. IInv /\ [Next]_vars => IInv'
  <2> SUFFICES ASSUME IInv, [Next]_vars
               PROVE  IInv'
    OBVIOUS
  <2>1. CASE UNCHANGED vars
    BY <2>1 DEF vars, rollout, scan, result, IInv, Texts, Candidates, Follows, Phases, Here,
       LastWritten, Picked, Object
  <2> QED  BY <2>1, ToolRoundStep, EndRolloutStep, ScanStep, ComputeScoreStep DEF Next
<1> QED  BY <1>1, InitInvariant, PTL DEF Spec

-----------------------------------------------------------------------------
(* The answer that is scored.                                               *)

LEMMA LargestOf ==
  ASSUME NEW n \in Nat, NEW S \in SUBSET (1..n), S # {}
  PROVE  \E k \in S : \A j \in S : j <= k
PROOF
<1> DEFINE T == {n - j : j \in S}
<1>1. T \subseteq Nat /\ T # {}
  <2>1. \A j \in S : n - j \in Nat
    OBVIOUS
  <2> QED  BY <2>1
<1>2. PICK m \in T : \A y \in T : ~ (<<y, m>> \in OpToRel(<, Nat))
  BY <1>1, NatLessThanWellFounded, WFMin
<1>3. PICK k \in S : m = n - k
  OBVIOUS
<1>4. ASSUME NEW j \in S
      PROVE  j <= k
  <2>1. n - j \in T /\ n - j \in Nat /\ m \in Nat
    BY <1>1
  <2>2. ~(n - j < m)
    BY <1>2, <2>1 DEF OpToRel
  <2> QED  BY <1>3, <2>1, <2>2
<1> QED  BY <1>4

Found == {k \in 1..Len(candidates) : Object(candidates[k]) \in Answers}

\* The choice of the answer, by which object is its last.
LEMMA PickedIs ==
  ASSUME IInv
  PROVE  /\ Found = {} => Picked = None
         /\ \A k \in Found : (\A j \in Found : j <= k) => Picked = Object(candidates[k])
         /\ Picked # None => \E k \in Found : Picked = Object(candidates[k])
PROOF
<1>1. Picked = IF Found = {} THEN None
               ELSE Object(candidates[CHOOSE k \in Found : \A j \in Found : j <= k])
  BY DEF Picked, Found
<1>2. Found \in SUBSET (1..Len(candidates)) /\ Len(candidates) \in Nat
  BY DEF Found, IInv, Candidates
<1>3. \A k, m \in Found : (\A j \in Found : j <= k) /\ (\A j \in Found : j <= m) => k = m
  BY <1>2
<1>4. Found # {} => \E k \in Found : \A j \in Found : j <= k
  BY <1>2, LargestOf
<1> HIDE DEF Found
<1> QED  BY <1>1, <1>3, <1>4

\* An object that is an answer was written, and has its mark.
LEMMA FoundWritten ==
  ASSUME IInv, NEW k \in Found
  PROVE  /\ Object(candidates[k]) \in Answers /\ Holds(written, Object(candidates[k]))
         /\ candidates[k][1] \in 1..Len(text) /\ candidates[k][2] \in 1..Len(text)
         /\ \E p \in candidates[k][1]..candidates[k][2] :
               text[p] \in Marks(Object(candidates[k]))
PROOF
<1> DEFINE x == candidates[k][1]
           y == candidates[k][2]
           a == Object(candidates[k])
<1>1. k \in 1..Len(candidates) /\ a \in Answers
  BY DEF Found
<1>2. x \in 1..Len(text) /\ y \in x..Len(text) /\ text \in Seq(Chars)
  <2>1. /\ i \in 1..(Len(text) + 1) /\ candidates \in Seq((1..(i - 1)) \X (1..(i - 1)))
        /\ InOrder(candidates) /\ text \in Seq(Chars)
    BY DEF IInv, Candidates, Texts
  <2>2. candidates[k] \in (1..(i - 1)) \X (1..(i - 1)) /\ x <= y
    BY <1>1, <2>1 DEF InOrder
  <2> QED  BY <2>1, <2>2
<1>3. PICK m \in 1..Len(a) : a[m] \in Marks(a)
  BY <1>1, TextsAssumption DEF Marks, CharsOf
<1>4. a = SubSeq(text, x, y)
  BY DEF Object
<1> HIDE DEF a, x, y
<1>5. Len(a) = y - x + 1 /\ a[m] = text[x + m - 1]
  BY <1>2, <1>3, <1>4
<1>6. x + m - 1 \in x..y /\ x + m - 1 \in 1..Len(text)
  BY <1>2, <1>3, <1>5
<1>7. Holds(written, a)
  BY <1>1, <1>3, <1>5, <1>6 DEF IInv, Texts, Marked
<1>8. y \in 1..Len(text)
  BY <1>2
<1>9. \E p \in x..y : text[p] \in Marks(a)
  BY <1>3, <1>5, <1>6
<1> QED  BY <1>1, <1>2, <1>7, <1>8, <1>9 DEF a, x, y

\* rl_reward.py:47-82. However long a transcript is, and whatever strings, braces
\* and drafts it has, its last answer is scored if no tool response was cut and
\* the prose of no tool round left a string or a brace open; and whatever was cut
\* or left open, no answer is scored that was not written.
THEOREM LastAnswerScored == Spec => []AnswerScored
PROOF
<1>1. IInv => AnswerScored
  <2> SUFFICES ASSUME IInv, phase = "done"
               PROVE  /\ intact => answer = LastWritten
                      /\ answer # None => \E k \in 1..Len(written) : written[k] = answer
    BY DEF AnswerScored
  <2>1. answer = Picked /\ i > Len(text) /\ written \in Seq(Answers)
    BY DEF IInv, Phases, Texts
  <2>2. ASSUME intact
        PROVE  answer = LastWritten
    <3>1. CASE LastWritten = None
      <4>1. written = <<>>
        <5>1. None \notin Answers
          BY TextsAssumption DEF None
        <5> QED  BY <2>1, <3>1, <5>1 DEF LastWritten
      <4>2. Found = {}
        BY <4>1, FoundWritten DEF Holds
      <4> QED  BY <2>1, <3>1, <4>2, PickedIs
    <3>2. CASE LastWritten # None
      <4>0. PICK at : \E x, y \in Nat :
               /\ Place(text, at, LastWritten, x, y)
               /\ y < i => \E k \in 1..Len(candidates) : candidates[k] = <<x, y>>
        <5>1. PICK at : LastWritten # None =>
                          \E x, y \in Nat :
                             /\ Place(text, at, LastWritten, x, y)
                             /\ x < i /\ i <= y => start = x
                             /\ y < i => \E k \in 1..Len(candidates) : candidates[k] = <<x, y>>
          BY <2>2 DEF IInv, Follows
        <5> QED  BY <3>2, <5>1
      <4>1. PICK x \in Nat, y \in Nat :
               /\ Place(text, at, LastWritten, x, y)
               /\ y < i => \E k \in 1..Len(candidates) : candidates[k] = <<x, y>>
        BY <4>0
      <4>2. /\ x \in 1..Len(text) /\ y \in x..Len(text) /\ SubSeq(text, x, y) = LastWritten
            /\ \A p \in (y + 1)..Len(text), b \in Answers : text[p] \notin Marks(b)
        BY <4>1 DEF Place
      <4>3. PICK k \in 1..Len(candidates) : candidates[k] = <<x, y>>
        BY <2>1, <4>1, <4>2 DEF IInv, Candidates
      <4>4. Object(candidates[k]) = LastWritten
        BY <4>2, <4>3 DEF Object
      <4>5. LastWritten \in Answers
        BY <2>1, <3>2 DEF LastWritten
      <4>6. k \in Found
        BY <4>4, <4>5 DEF Found
      <4>7. ASSUME NEW j \in Found
            PROVE  j <= k
        <5> SUFFICES ASSUME k < j
                     PROVE  FALSE
          BY DEF Found
        <5>1. y < candidates[j][1]
          <6>1. j \in 1..Len(candidates) /\ k \in 1..(j - 1)
            BY DEF Found
          <6>2. InOrder(candidates)
            BY DEF IInv, Candidates
          <6> QED  BY <4>3, <6>1, <6>2 DEF InOrder
        <5>2. PICK p \in candidates[j][1]..candidates[j][2] :
                 text[p] \in Marks(Object(candidates[j]))
          BY FoundWritten
        <5>3. Object(candidates[j]) \in Answers
              /\ candidates[j][1] \in 1..Len(text) /\ candidates[j][2] \in 1..Len(text)
          BY FoundWritten
        <5>4. p \in (y + 1)..Len(text)
          BY <4>2, <5>1, <5>2, <5>3
        <5> QED  BY <4>2, <5>2, <5>3, <5>4
      <4> QED  BY <2>1, <4>4, <4>6, <4>7, PickedIs
    <3> QED  BY <3>1, <3>2
  <2>3. ASSUME answer # None
        PROVE  \E k \in 1..Len(written) : written[k] = answer
    <3>1. PICK k \in Found : Picked = Object(candidates[k])
      BY <2>1, <2>3, PickedIs
    <3> QED  BY <2>1, <3>1, FoundWritten DEF Holds
  <2> QED  BY <2>2, <2>3
<1> QED  BY <1>1, Invariant, PTL
=============================================================================

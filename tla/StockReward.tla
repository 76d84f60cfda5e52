---------------------------- MODULE StockReward ----------------------------
(***************************************************************************)
(* The score of an answer: compute_stock_reward of rl_reward.py as         *)
(* operators.                                                              *)
(*                                                                         *)
(* Probabilities are multiples of 1 / Unit, the weights of the code        *)
(* multiples of 1 / Point, and a score is a numerator over Scale(p), which *)
(* clears the fractions of normalising by the sum. Of a task, label and    *)
(* settings matter: future_return is in halves of pnl_scale, the bonus and *)
(* the penalty are in Points. Of a forecast, the text of an answer: p has  *)
(* p_up, p_neutral and p_down, prediction the class it names, alpha_ok     *)
(* says that alpha_score is left out or near enough, and evidence is what  *)
(* evidence_summary earns, in Points.                                      *)
(***************************************************************************)
EXTENDS Integers

CONSTANTS
    Unit,       \* a probability of 1
    Tasks       \* the tasks that are scored

Classes == {"up", "neutral", "down"}
Point == 2000

\* The penalty divides evenly by the calls it is spread over, and the calls
\* required fit into the budget, which the code does not check.
ASSUME TasksAssumption ==
    /\ Unit \in Nat \ {0}
    /\ \A t \in Tasks :
         /\ t.label \in Classes /\ t.future_return \in Int
         /\ t.max_tool_calls \in Nat \ {0} /\ t.min_tool_calls \in 0..t.max_tool_calls
         /\ t.tool_use_bonus \in Nat /\ t.missing_tool_penalty \in Nat
         /\ t.min_tool_calls > 0 => t.missing_tool_penalty % t.min_tool_calls = 0

-----------------------------------------------------------------------------
Lesser(a, b) == IF a <= b THEN a ELSE b
Greater(a, b) == IF a >= b THEN a ELSE b
Clip(x, low, high) == Greater(low, Lesser(high, x))
Distance(a, b) == Greater(a - b, b - a)

Total(p) == p.up + p.neutral + p.down

\* Every probability is in range and they sum to 1 within 0.08.
Valid(p) ==
    /\ \A c \in Classes : p[c] <= Unit
    /\ 100 * Distance(Total(p), Unit) <= 8 * Unit

Scale(p) == 2 * Total(p) * Total(p)
Fraction(points, p) == points * Scale(p)

\* The class with the largest probability, the first of up, neutral, down.
PredLabel(p) ==
    IF p.up >= p.neutral /\ p.up >= p.down THEN "up"
    ELSE IF p.neutral >= p.down THEN "neutral" ELSE "down"

\* The squared distance of the answer from the truth, times Total(p) squared.
BrierError(p, label) ==
    LET miss(c) == p[c] - (IF c = label THEN Total(p) ELSE 0)
    IN  miss("up") * miss("up") + miss("neutral") * miss("neutral")
          + miss("down") * miss("down")

\* Mutant: the position is short where the answer is optimistic.
ForecastReversed(t, p) ==
    Fraction(IF PredLabel(p) = t.label THEN 400 ELSE -200, p)
      + 500 * p[t.label] * 2 * Total(p)
      + 500 * (Scale(p) - BrierError(p, t.label))
      + 400 * Total(p) * Clip((p.down - p.up) * t.future_return,
                              -2 * Total(p), 2 * Total(p))

\* Direction, probability of the true class, Brier score and clipped profit,
\* weighted, as a numerator over Scale(p).
Forecast(t, p) ==
    Fraction(IF PredLabel(p) = t.label THEN 400 ELSE -200, p)
      + 500 * p[t.label] * 2 * Total(p)
      + 500 * (Scale(p) - BrierError(p, t.label))
      + 400 * Total(p) * Clip((p.up - p.down) * t.future_return,
                              -2 * Total(p), 2 * Total(p))

\* format_reward and 0.05 of evidence_reward, in Points.
FormatReward(f) ==
    120 + (IF f.prediction = PredLabel(f.p) THEN 40 ELSE 0)
        + (IF f.alpha_ok THEN 20 ELSE 0) + f.evidence

\* The number of tool calls the reward charges for, read from num_turns.
NumToolCalls(n) == Greater(0, (n - 2) \div 2)

\* What calls cost: free up to the required number, dear beyond the budget.
SearchCost(t, n) ==
    (IF t.min_tool_calls > 0 THEN 20 * Greater(0, n - t.min_tool_calls) ELSE 40 * n)
      + 400 * Greater(0, n - t.max_tool_calls)

\* The valid forecast that is most wrong earns -480 Points, InvalidAnswer 1120
\* less: calls that are missing, or a budget that is used up, cost less than
\* that. The settings of the scripts stay below 600, the code checks none.
ASSUME SettingsAssumption ==
    \A t \in Tasks :
       t.missing_tool_penalty < 1120 /\ SearchCost(t, t.max_tool_calls) < 1120

\* Mutant: every call earns the bonus.
ToolUseEach(t, n) == t.tool_use_bonus * n

\* The bonus for calls, up to the required number or one.
ToolUse(t, n) == t.tool_use_bonus * Lesser(n, Greater(1, t.min_tool_calls))

\* Mutant: the penalty is due in full for every call that is missing.
MissingToolEach(t, n) == t.missing_tool_penalty * Greater(0, t.min_tool_calls - n)

\* The penalty for required calls that were not made.
MissingTool(t, n) ==
    IF n < t.min_tool_calls
    THEN (t.missing_tool_penalty * (t.min_tool_calls - n)) \div t.min_tool_calls
    ELSE 0

Tools(t, n) == ToolUse(t, n) - MissingTool(t, n) - SearchCost(t, n)

Floor(f) == Fraction(-Point, f.p)
Ceiling(f) == Fraction(3 * (Point \div 2), f.p)

\* The score of a valid forecast after n calls, a numerator over Scale(f.p).
Score(t, f, n) ==
    Clip(Forecast(t, f.p) + Fraction(FormatReward(f) + Tools(t, n), f.p),
         Floor(f), Ceiling(f))

\* What the other outcomes score, in Points: no answer or a missing
\* probability, and probabilities that are none.
NoAnswer == -Point
InvalidAnswer == -1600
=============================================================================

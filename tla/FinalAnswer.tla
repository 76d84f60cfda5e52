----------------------------- MODULE FinalAnswer -----------------------------
(***************************************************************************)
(* From a rollout to its reward: the response is decoded as one text, tool *)
(* responses and all; parse_final_answer scans it character by character   *)
(* for JSON objects and takes the last one that has the keys of an answer; *)
(* compute_stock_reward scores it (rl_reward.py). Before that, a tool      *)
(* result longer than max_tool_response_length was cut                     *)
(* (tool_agent_loop.py).                                                   *)
(*                                                                         *)
(* A text is a sequence of classes of characters: braces, quotes, the      *)
(* backslash, and everything else. json.loads and the test for the keys    *)
(* accept exactly the texts in Answers; the numbers in them are chosen     *)
(* when they are scored.                                                   *)
(***************************************************************************)
EXTENDS StockReward, Sequences

CONSTANTS
    Open, Close, Quote, Backslash,   \* the characters that matter
    Dots,       \* what replaces the part of a tool response that is cut
    Prose,      \* what the model writes around an answer, calls of tools included
    Results,    \* JSON texts the tools return
    Answers,    \* objects with p_up or prediction that json.loads accepts
    Cuts,       \* max_tool_response_length and tool_response_truncate_side
    Forecasts,  \* what an answer may say, or Missing
    Missing,    \* an answer without one of the probabilities
    MaxRounds,  \* bound: tool rounds of a rollout
    MaxCalls    \* bound: calls the properties compare

ASSUME BoundsAssumption ==
    /\ \A c \in Cuts : c.limit \in Nat /\ c.side \in {"left", "right", "middle"}
    /\ MaxRounds \in Nat /\ MaxCalls \in Nat

ASSUME ForecastsAssumption ==
    \A f \in Forecasts \ {Missing} :
       /\ f.p \in [up : Nat, neutral : Nat, down : Nat]
       /\ f.alpha_ok \in BOOLEAN /\ f.evidence \in 0..25

None == <<>>

-----------------------------------------------------------------------------
Outside == [stack |-> 0, in_str |-> FALSE, escape |-> FALSE]

\* What a character does to the state of the scan.
After(at, char) ==
    IF at.in_str
    THEN [at EXCEPT !.in_str = at.escape \/ char # Quote,
                    !.escape = ~at.escape /\ char = Backslash]
    ELSE [at EXCEPT !.in_str = (char = Quote),
                    !.stack = IF char = Open THEN at.stack + 1
                              ELSE IF char = Close /\ at.stack > 0 THEN at.stack - 1
                              ELSE at.stack]

\* The states of a scan of s alone, the k-th after k characters.
ScanOf(s) ==
    LET at[k \in 0..Len(s)] == IF k = 0 THEN Outside ELSE After(at[k - 1], s[k])
    IN  at

ScanStates == [stack : Nat, in_str : BOOLEAN, escape : BOOLEAN]

IsScanOf(at, s) ==
    /\ at \in [0..Len(s) -> ScanStates]
    /\ at[0] = Outside
    /\ \A k \in 1..Len(s) : at[k] = After(at[k - 1], s[k])

Pieces == Prose \cup Results \cup Answers \cup {None}
CharsOf(s) == {s[k] : k \in 1..Len(s)}
Chars == {Dots} \cup UNION {CharsOf(s) : s \in Pieces}

\* A character that tells an answer from everything else that is written.
Marks(a) == {m \in CharsOf(a) \ {Dots} : \A s \in Pieces \ {a} : m \notin CharsOf(s)}

\* A text that leaves no string and no brace open.
Balanced(s) == ScanOf(s)[Len(s)] = Outside

\* What a transcript is made of. What the tools return is balanced, and so is an
\* answer, which is one object and can be told from the rest by what it says;
\* what the model writes around an answer may leave strings and braces open.
ASSUME TextsAssumption ==
    /\ Open # Close /\ Quote \notin {Open, Close}
    /\ Answers \cap (Prose \cup Results) = {}
    /\ \A s \in Pieces : s \in Seq(Chars) /\ IsScanOf(ScanOf(s), s)
    /\ \A s \in Results \cup Answers : Balanced(s)
    /\ \A a \in Answers : /\ Len(a) >= 2 /\ Marks(a) # {}
                          /\ \A k \in 1..(Len(a) - 1) : ScanOf(a)[k].stack > 0

-----------------------------------------------------------------------------
VARIABLES
    setting,     \* how tool responses are cut
    text,        \* the decoded response
    rounds,      \* tool rounds so far, of one call each
    intact,      \* history: no tool response was cut, no prose before one or
                 \* before the final answer left a string or a brace open
    written,     \* the answers the model wrote, in order
    phase,       \* the rollout, the scan of its text, or done
    i,           \* the position of the scan
    stack,       \* braces open at i
    start,       \* where the outermost open brace is
    in_str,
    escape,
    candidates,  \* the objects found
    answer,      \* what parse_final_answer returned, None before
    forecast,    \* what it says
    task         \* label and settings: ground_truth and extra_info

rollout == <<setting, text, rounds, intact, written>>
scan == <<i, stack, start, in_str, escape, candidates>>
result == <<answer, forecast, task>>
vars == <<rollout, phase, scan, result>>

-----------------------------------------------------------------------------
\* Python's s[-n:], the whole of s when n is 0.
LastPart(s, n) == IF n = 0 THEN s ELSE SubSeq(s, Len(s) - n + 1, Len(s))

\* What the model sees, and the reward reads, of a tool's result.
ToolResponse(whole) ==
    LET n == setting.limit
    IN  IF Len(whole) <= n THEN whole
        ELSE CASE setting.side = "left"   -> <<Dots>> \o LastPart(whole, n)
               [] setting.side = "right"  -> SubSeq(whole, 1, n) \o <<Dots>>
               [] setting.side = "middle" -> SubSeq(whole, 1, n \div 2) \o <<Dots>>
                                               \o LastPart(whole, n \div 2)

Init ==
    /\ setting \in Cuts
    /\ text = <<>> /\ rounds = 0 /\ intact = TRUE
    /\ written = <<>> /\ phase = "rollout"
    /\ i = 1 /\ stack = 0 /\ start = 0
    /\ in_str = FALSE /\ escape = FALSE
    /\ candidates = <<>>
    /\ answer = None /\ forecast = Missing /\ task = None

\* The model writes something, perhaps already an answer, and calls a tool.
ToolRound ==
    /\ phase = "rollout" /\ rounds < MaxRounds
    /\ \E said \in Prose \cup Answers, found \in Results :
          /\ text' = text \o said \o ToolResponse(found)
          /\ written' = IF said \in Answers THEN Append(written, said) ELSE written
          /\ intact' = (intact /\ Balanced(said) /\ Len(found) <= setting.limit)
    /\ rounds' = rounds + 1
    /\ UNCHANGED <<setting, phase, scan, result>>

\* The model ends with an answer, or without one: out of turns or of tokens.
EndRollout ==
    /\ phase = "rollout" /\ phase' = "scan"
    /\ \E before \in Prose \cup {None}, said \in Answers \cup {None}, after \in Prose :
          /\ text' = text \o before \o said \o after
          /\ written' = IF said = None THEN written ELSE Append(written, said)
          /\ intact' = (intact /\ Balanced(before))
    /\ UNCHANGED <<setting, rounds, scan, result>>

-----------------------------------------------------------------------------
AtChar == phase = "scan" /\ i <= Len(text)

\* Mutant: an escaped quote ends the string.
InStringUnescaped ==
    /\ AtChar /\ in_str
    /\ escape' = FALSE
    /\ in_str' = (text[i] # Quote)
    /\ UNCHANGED <<stack, start, candidates>>

\* Inside a string only the quote that ends it counts, and not an escaped one.
InString ==
    /\ AtChar /\ in_str
    /\ escape' = (~escape /\ text[i] = Backslash)
    /\ in_str' = (escape \/ text[i] # Quote)
    /\ UNCHANGED <<stack, start, candidates>>

OpenString ==
    /\ AtChar /\ ~in_str /\ text[i] = Quote
    /\ in_str' = TRUE
    /\ UNCHANGED <<stack, start, escape, candidates>>

OpenBrace ==
    /\ AtChar /\ ~in_str /\ text[i] = Open
    /\ stack' = stack + 1
    /\ start' = IF stack = 0 THEN i ELSE start
    /\ UNCHANGED <<in_str, escape, candidates>>

\* A closing brace ends the outermost object, an inner one, or nothing.
CloseBrace ==
    /\ AtChar /\ ~in_str /\ text[i] = Close
    /\ stack' = IF stack > 0 THEN stack - 1 ELSE 0
    /\ candidates' = IF stack = 1 THEN Append(candidates, <<start, i>>)
                                  ELSE candidates
    /\ UNCHANGED <<start, in_str, escape>>

OtherChar ==
    /\ AtChar /\ ~in_str
    /\ text[i] \notin {Quote, Open, Close}
    /\ UNCHANGED <<stack, start, in_str, escape, candidates>>

Scan ==
    /\ InString \/ OpenString \/ OpenBrace \/ CloseBrace \/ OtherChar
    /\ i' = i + 1
    /\ UNCHANGED <<rollout, phase, result>>

Object(c) == SubSeq(text, c[1], c[2])

\* The last object that parses and has the keys of an answer.
Picked ==
    LET found == {k \in 1..Len(candidates) : Object(candidates[k]) \in Answers}
    IN  IF found = {} THEN None
        ELSE Object(candidates[CHOOSE k \in found : \A j \in found : j <= k])

\* The text is scanned to its end: its last answer is scored, with the label
\* and settings of the task.
ComputeScore ==
    /\ phase = "scan" /\ i > Len(text)
    /\ phase' = "done" /\ answer' = Picked
    /\ forecast' \in (IF Picked = None THEN {Missing} ELSE Forecasts)
    /\ task' \in Tasks
    /\ UNCHANGED <<rollout, scan>>

Next == ToolRound \/ EndRollout \/ Scan \/ ComputeScore

Spec == Init /\ [][Next]_vars

-----------------------------------------------------------------------------
LastWritten == IF written = <<>> THEN None ELSE written[Len(written)]

\* The answer scored is the one the model wrote last, whatever strings, braces
\* and earlier drafts the transcript has and whatever follows it, provided that
\* no tool response was cut and no prose before one, or before the answer, left
\* a string or a brace open. Without that the answer may be lost, or a draft be taken for it,
\* but nothing is scored that the model did not write.
AnswerScored ==
    phase = "done" =>
       /\ intact => answer = LastWritten
       /\ answer # None => \E k \in 1..Len(written) : written[k] = answer

\* parse_final_answer extracts the final answer of every response.
FinalAnswerExtracted == phase = "done" => answer = LastWritten

\* The model ended with an answer whose probabilities are valid.
Answered == phase = "done" /\ forecast # Missing /\ Valid(forecast.p)

Calls == NumToolCalls(2 * rounds + 2)

\* With any number of calls within the budget, a valid answer scores more than
\* one whose probabilities are not valid, and that more than none: however
\* wrong the forecast and however many required calls are missing, it never
\* pays to break the format.
FormatPays ==
    Answered => /\ \A n \in 0..task.max_tool_calls :
                     Score(task, forecast, n) > Fraction(InvalidAnswer, forecast.p)
                /\ InvalidAnswer > NoAnswer

\* Bonus, penalty and cost of calls agree on what the prompt asks for: the same
\* forecast never scores less after one more call that is required, and less
\* after one more that is not, the first one aside, unless it is clipped.
CallsPayAsAsked ==
    Answered =>
    \A n \in 0..MaxCalls :
       LET before == Score(task, forecast, n)
           after == Score(task, forecast, n + 1)
       IN  /\ n < task.min_tool_calls => after >= before
           /\ n >= Greater(1, task.min_tool_calls) =>
                after < before \/ before = Floor(forecast) \/ after = Ceiling(forecast)

\* The return of a task is on the side its label says. Labels are quantiles of
\* a day's relative returns, so the code does not guarantee it.
Agrees(t) ==
    CASE t.label = "up" -> t.future_return >= 0
      [] t.label = "down" -> t.future_return <= 0
      [] t.label = "neutral" -> t.future_return \in -2..2

\* A little of class c's probability given to the truth.
MoreTrue(p, c) ==
    [x \in Classes |-> IF x = task.label THEN p[x] + 1
                       ELSE IF x = c THEN p[x] - 1 ELSE p[x]]

\* The forecast with that, its prediction still the likeliest class if it was.
Believing(c) ==
    LET f == forecast
        p == MoreTrue(f.p, c)
    IN  [p |-> p, alpha_ok |-> f.alpha_ok, evidence |-> f.evidence,
         prediction |-> IF f.prediction = PredLabel(f.p) THEN PredLabel(p)
                                                         ELSE f.prediction]

\* Believing more in the true class never lowers the score, ties, mismatched
\* predictions and clipped profits included, where label and return agree.
TruthPays ==
    Answered /\ forecast.alpha_ok /\ Agrees(task) =>
    \A c \in Classes \ {task.label} :
       forecast.p[c] > 0 /\ forecast.p[task.label] < Unit =>
          Score(task, Believing(c), Calls) >= Score(task, forecast, Calls)
=============================================================================

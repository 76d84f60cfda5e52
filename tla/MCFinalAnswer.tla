---------------------------- MODULE MCFinalAnswer ----------------------------
(***************************************************************************)
(* Transcripts of tool rounds with drafts. The model's prose may hold a    *)
(* stray closing brace and a string with a brace and an escaped quote in   *)
(* it, or leave a string or a brace open; results nest objects and have    *)
(* braces and quotes in their strings; the answers nest an object, as      *)
(* evidence_summary does, or hold a brace in a string. Where the question  *)
(* is what cutting a tool response does, all prose is balanced.            *)
(*                                                                         *)
(* The tool settings are those of the full runs (nothing required, no      *)
(* bonus), those of run_3090_small.sh (two calls required, bonus 0.08,     *)
(* penalty 0.30), and two calls required at no price, with returns that    *)
(* agree with the label and one that does not, below, at and beyond the    *)
(* scale of the profit.                                                    *)
(***************************************************************************)
EXTENDS FinalAnswer

String(s) == <<Quote>> \o s \o <<Quote>>
Braced(s) == <<Open>> \o s \o <<Close>>

MCBalancedProse == {<<>>, <<Close>> \o String(<<Open, Backslash, Quote>>)}
MCProse == MCBalancedProse \cup {<<Quote>>, <<Open>>}
MCResults == {Braced(String(<<"title">>)),
              Braced(String(<<Close>>) \o Braced(String(<<Backslash, Quote, "hit">>)))}
MCAnswers == {Braced(String(<<"p_up">>)),
              Braced(String(<<"prediction", Open>>) \o Braced(<<"evidence">>))}

\* The longer result is cut on the left, in the middle, inside a string, and
\* not at all.
MCCuts == [limit : {8}, side : {"left", "middle"}] \cup [limit : {12}, side : {"middle"}]
MCCutInMiddle == [limit : {8}, side : {"middle"}]

Task(label, return, min, bonus, penalty) ==
    [label |-> label, future_return |-> return, max_tool_calls |-> 4,
     min_tool_calls |-> min, tool_use_bonus |-> bonus,
     missing_tool_penalty |-> penalty]

MCTasks ==
    {Task("up", 1, 0, 0, 0), Task("down", -5, 2, 160, 600),
     Task("neutral", -2, 2, 0, 0), Task("up", -5, 2, 160, 600)}

\* A careful answer with probabilities that add up to 1, or just miss it, and leave
\* little or half for neutral; a careless one that is certain; and one whose
\* probabilities are not valid.
MCForecasts ==
    LET All == [up : 0..Unit, neutral : 0..Unit, down : 0..Unit]
        Near == {p \in All : /\ Total(p) \in (Unit - 1)..(Unit + 1)
                             /\ p.neutral \in {0, 1, Unit \div 2}}
        Certain == {p \in All : Total(p) = Unit /\ \E c \in Classes : p[c] = Unit}
        Double == {p \in All : \A c \in {"up", "down"} : p[c] = Unit}
    IN  [p : Near, prediction : {"up"}, alpha_ok : {TRUE}, evidence : {25}]
          \cup [p : Certain \cup Double, prediction : {"down"}, alpha_ok : {FALSE}, evidence : {0}]
          \cup {Missing}
MCTwoForecasts ==
    {[p |-> [up |-> Unit, neutral |-> 0, down |-> 0], prediction |-> "up",
      alpha_ok |-> TRUE, evidence |-> 25], Missing}
=============================================================================

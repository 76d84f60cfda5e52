---------------------------- MODULE MCTableStore ----------------------------
(***************************************************************************)
(* Three runs, two of them at the same time, with a core raw table: the    *)
(* service answers with rows or without. The table is one whose file is    *)
(* the same for all dates, and one of the runs has other dates.            *)
(***************************************************************************)
EXTENDS TableStore, TLC

CONSTANTS r1, r2, r3

MCRuns == {r1, r2, r3}
MCRaw == <<"index_weight">>
MCCore == {"index_weight"}
MCUndated == {"index_weight"}
MCDates == [r \in MCRuns |-> IF r = r3 THEN "later" ELSE "earlier"]
MCAnswers == {1}

\* Runs are interchangeable: their dates do not matter where every file is the
\* same for all dates.
Interchangeable == Permutations(MCRuns)
=============================================================================

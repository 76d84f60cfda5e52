----------------------------- MODULE MCPointInTime -----------------------------
(***************************************************************************)
(* A calendar of nine days with two weekends, an announcement and a report *)
(* on closed days, and settings under which the export has a validation    *)
(* split, falls back on the test split, and falls back on the training     *)
(* split.                                                                  *)
(***************************************************************************)
EXTENDS PointInTime

Setting(end, stride, tasks, train, valid) ==
    [end_date |-> end, sample_stride |-> stride, max_tasks |-> tasks,
     train_end_date |-> train, valid_end_date |-> valid]

MCTradingDays == {1, 2, 3, 5, 6, 8, 9}
MCAnnounced == {4, 6}
MCReported == {2, 4}
MCAskedDays == 0..10

\* In this order: all splits; thinned out, and no day between the ends of
\* training and validation; a shorter run, every second day, training days only.
MCConfigs ==
    {Setting(9, 1, 0, 3, 5), Setting(9, 1, 2, 2, 2), Setting(6, 2, 0, 8, 8)}
=============================================================================

----------------------------- MODULE MCSnapshots -----------------------------
(* The series of snapshots as it is written day by day, and the stored rows   *)
(* as they are rewritten afterwards, one of them in each behaviour: the       *)
(* first has the races of a generation, the second those of the rewriters.    *)
EXTENDS SnapshotSeries, SnapshotHistory

VARIABLE view

UpAndDown == {-1, 1}

SnapshotsInit ==
  /\ SeriesInit /\ HistoryInit /\ view \in {"series", "history"}
  /\ IF view = "series" THEN close = <<Min(Closes)>> ELSE price = Min(Prices)

SnapshotsNext ==
  \/ view = "series" /\ SeriesNext /\ UNCHANGED <<historyVars, view>>
  \/ view = "history" /\ HistoryNext /\ UNCHANGED <<seriesVars, view>>

SnapshotsSpec == SnapshotsInit /\ [][SnapshotsNext]_<<seriesVars, historyVars, view>>
=============================================================================

---------------------------- MODULE MCEvaluation ----------------------------
(* Decision memory and two of its readers, one of them in each behaviour:  *)
(* how its rows come to be, the comparison of portfolios, and the reports  *)
(* on decisions - their figures or the trades linked to them; or what is   *)
(* left of all rows as portfolios are deleted.                             *)
EXTENDS DecisionMemory, PaperComparison, DecisionReports, PortfolioRecords, TLC

VARIABLE part

CONSTANT a

(* Half of the portfolio, or more than all of it, in one symbol whose      *)
(* price moves each day.                                                   *)
MCAllocations == {a :> 1, a :> 3}
MCClosing == [d \in 0..MaxDay |-> [s \in Symbols |-> IF d = 1 THEN 2 ELSE IF d = 2 THEN 1 ELSE 4]]

(* One symbol has neither price nor amount, and one is not offered.        *)
Trade(s, deferred, funds, known) ==
  [symbol |-> s, deferred |-> deferred, funds |-> funds, priced |-> known, sized |-> known]
MCPlans ==
  {{Trade("x", FALSE, TRUE, TRUE), Trade("y", FALSE, FALSE, FALSE), Trade("z", TRUE, FALSE, TRUE)},
   {Trade("x", FALSE, TRUE, TRUE)}}

(* Two halves above and below the price, and all of it at once.            *)
Executed(shares, timing, amount) == [shares |-> shares, timing |-> timing, amount |-> amount]
MCExecutions == {Executed(1, 1, 50), Executed(1, -1, 50), Executed(2, 0, 100)}
UpAndDown == {-1, 1}
MCHorizonSettings == <<{1, 2}, {2}>>

(* Bounds on commands and faults together.                                 *)
Disturbances == [freezing |-> 2, memory |-> 1]

EvaluationInit ==
  /\ MemoryInit /\ ComparisonInit /\ ReportsInit /\ RecordsInit
  /\ part \in {"freezing", "memory", "comparison", "figures", "trades", "records", "models"}
  /\ part \notin {"freezing", "memory"} => history[0] = Closing[0]
  /\ part # "comparison" => snapshots = <<>>

(* Recommendations are frozen, by threads and by the command, while the    *)
(* portfolio may hold nothing on some days.                                *)
FreezingOnly ==
  /\ ActiveModels = {} /\ \A d \in decisions : d[2] = "EXPIRED"
  /\ \A t \in threads : t.work = "model" => t.read = <<>>

(* Models and approved plans, beside frozen ones if there are all prices.  *)
ModelsToo ==
  /\ \A d \in DOMAIN history \ {0} : history[d] = Closing[d]
  /\ \A t \in threads :
       /\ t.work # "backfill"
       /\ t.work = "frozen" /\ t.read # <<>> => history[0] = Closing[0]

(* Few rows without shadows, or one of a table for each portfolio and one  *)
(* shadow, the row that a request waits to write being about another.      *)
RecordsOnly == Cardinality(records) <= 3 /\ Of("shadows") = {} /\ \A w \in writers : w.row.table # "shadows"
ModelRecords ==
  /\ Of("transactions") = {} /\ Cardinality(Of("shadows")) <= 1
  /\ \A r, q \in records : r.table = q.table /\ r.born = q.born => r = q
  /\ \A w \in writers : w.row.about # 0

EvaluationNext ==
  \/ /\ part \in {"freezing", "memory"} /\ MemoryNext
     /\ IF part = "freezing" THEN FreezingOnly' ELSE ModelsToo'
     /\ commands' + faults' <= Disturbances[part]
     /\ UNCHANGED <<comparisonVars, reportVars, recordsVars, part>>
  \/ part = "comparison" /\ ComparisonNext /\ UNCHANGED <<memoryVars, reportVars, recordsVars, part>>
  \/ /\ \/ part = "figures" /\ (DecisionStep \/ FigureStep)
        \/ part = "trades" /\ (DecisionStep \/ TradeStep)
     /\ UNCHANGED <<memoryVars, comparisonVars, recordsVars, part>>
  \/ /\ part \in {"records", "models"} /\ RecordsNext
     /\ IF part = "records" THEN RecordsOnly' ELSE ModelRecords'
     /\ UNCHANGED <<memoryVars, comparisonVars, reportVars, part>>

EvaluationSpec ==
  EvaluationInit
    /\ [][EvaluationNext]_<<memoryVars, comparisonVars, reportVars, recordsVars, part>>
=============================================================================

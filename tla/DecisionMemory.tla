--------------------------- MODULE DecisionMemory ---------------------------
(***************************************************************************)
(* What happens to a recommendation after the optimizer has saved it: the  *)
(* paper portfolios ("shadows") that follow it, their daily valuations,    *)
(* the user's decision or its expiry, and the grades at fixed horizons.    *)
(* Shadows are made by daemon threads, by the decision handler and by      *)
(* commands; the daily job values them and runs the evaluation.  All of    *)
(* them know prices only from the portfolio snapshots of earlier jobs.     *)
(* One portfolio; weights are counted in halves.                           *)
(***************************************************************************)
EXTENDS Integers, Sequences, FiniteSets, FiniteSetsExt

CONSTANTS
  Symbols,
  Allocations,         \* plans: functions from Symbols to halves of the portfolio
  Closing,             \* the prices of each day, from day 0 on
  Value,               \* total_portfolio_value of the recommendations
  Horizons,            \* days after which a recommendation is graded
  MaxGap,              \* _MAX_VALUATION_GAP_DAYS
  FetchedRows,         \* snapshots that a price is looked for in
  ExpiryDays,
  MaxDay, MaxRecommendations, MaxDecisions, MaxCommands, MaxFaults   \* bounds

Unpriced == 0

ASSUME MemoryAssumption ==
  /\ IsFiniteSet(Symbols) /\ IsFiniteSet(Horizons)
  /\ \A a \in Allocations : DOMAIN a = Symbols /\ \A s \in Symbols : a[s] \in Nat
  /\ \A d \in 0..MaxDay : DOMAIN Closing[d] = Symbols
  /\ Horizons # {} /\ Horizons \subseteq Nat /\ MaxGap \in Nat /\ Value > 0
  /\ FetchedRows \in Nat \ {0}

VARIABLES
  day,
  worked,        \* the daily job has run today
  history,       \* days with snapshots and the prices they hold
  recs,          \* RecommendationSnapshot rows, oldest first
  decisions,     \* UserExecutionDecision rows: <<recommendation, decision>>
  shadows,       \* ShadowPortfolio rows
  values,        \* per shadow: its ShadowPortfolioSnapshot rows by day
  byJob,         \* shadows and days whose value the daily job has written
  grades,        \* RecommendationGrade rows
  threads,       \* daemon threads: <<work, recommendation, what it has read>>
  commands,      \* commands of an administrator so far
  faults         \* failures and crashes so far

memoryVars == <<day, worked, history, recs, decisions, shadows, values, byJob, grades, threads, commands, faults>>

MemoryInit ==
  /\ day = 1 /\ worked = FALSE
  /\ \E row \in {Closing[0], [s \in Symbols |-> Unpriced]} : history = [d \in {0} |-> row]
  /\ recs = <<>> /\ decisions = {} /\ shadows = <<>> /\ values = <<>>
  /\ byJob = {} /\ grades = {} /\ threads = {} /\ commands = 0 /\ faults = 0

Shadows == 1..Len(shadows)
Recs    == 1..Len(recs)

-----------------------------------------------------------------------------
(* Prices and paper values.                                                *)

LastPrices(rows, days) ==
  [s \in Symbols |->
     LET known == {e \in days : rows[e][s] # Unpriced}
     IN  IF known = {} THEN Unpriced ELSE rows[Max(known)][s]]

DaysUpTo(rows, d) == {e \in DOMAIN rows : e <= d}

(* The last price of each symbol as a replay of all days carries it along. *)
PricesOn(rows, d) == LastPrices(rows, DaysUpTo(rows, d))

(* The same as everybody else finds it: in the newest snapshots only.      *)
FetchedOn(rows, d) ==
  LastPrices(rows, {e \in DaysUpTo(rows, d) : Cardinality({f \in DaysUpTo(rows, d) : f > e}) < FetchedRows})

(* The carried price, or the first after the day (for repairs and replays).*)
PriceNear(rows, d, s) ==
  LET before == PricesOn(rows, d)[s]
      after  == {e \in DOMAIN rows : e > d /\ rows[e][s] # Unpriced}
  IN  IF before # Unpriced \/ after = {} THEN before ELSE rows[Min(after)][s]

CachedPrices == FetchedOn(history, day)

Weight(alloc) == MapThenSumSet(LAMBDA s : alloc[s], Symbols)

(* A symbol without a price is held as an amount of money at price one,    *)
(* what a plan leaves over is cash, and weights beyond the whole are kept. *)
Resolve(alloc, total, prices) ==
  LET money(s) == (alloc[s] * total) \div 2
  IN  [shares  |-> [s \in Symbols |-> IF prices[s] = Unpriced THEN money(s) ELSE money(s) \div prices[s]],
       cost    |-> [s \in Symbols |-> IF prices[s] = Unpriced THEN 1 ELSE prices[s]],
       frozen  |-> {s \in Symbols : alloc[s] > 0 /\ prices[s] = Unpriced},
       cash    |-> (Max({0, 2 - Weight(alloc)}) * total) \div 2]

PaperValue(h, prices) ==
  h.cash + MapThenSumSet(
    LAMBDA s : h.shares[s] * (IF s \in h.frozen \/ prices[s] = Unpriced THEN h.cost[s] ELSE prices[s]),
    Symbols)

(* assert_nav_conserved: a plan beyond the whole never becomes a shadow.   *)
Conserved(h, prices, total) == PaperValue(h, prices) = total

(* What value_shadow_portfolio writes today.                               *)
ValuedToday(v, h) == [d \in DOMAIN v \cup {day} |-> IF d = day THEN PaperValue(h, CachedPrices) ELSE v[d]]

(* Mutant: every day is valued at the prices known today.                  *)
RevaluedLate(h, from, rows, kept) ==
  [d \in {e \in DOMAIN rows \cup DOMAIN kept : e >= from} \cup DOMAIN kept |->
     IF d < from THEN kept[d] ELSE PaperValue(h, PricesOn(rows, day))]

(* The daily values of unchanged holdings, from the snapshots' prices.     *)
Revalued(h, from, rows, kept) ==
  [d \in {e \in DOMAIN rows \cup DOMAIN kept : e >= from} \cup DOMAIN kept |->
     IF d < from THEN kept[d] ELSE PaperValue(h, PricesOn(rows, d))]

-----------------------------------------------------------------------------
(* Shadows.                                                                *)

(* "known" is no column: the last day whose prices the holdings stand for. *)
Shadow(kind, r, h, from, known) ==
  [kind |-> kind, rec |-> r, holdings |-> h, from |-> from, start |-> Value, active |-> TRUE,
   made |-> day, known |-> known]

ShadowsOf(kind, r) == {i \in Shadows : shadows[i].kind = kind /\ shadows[i].rec = r}
ActiveModels       == {i \in Shadows : shadows[i].kind = "model" /\ shadows[i].active}
NoShadow           == 0
Latest(set)        == IF set = {} THEN NoShadow ELSE Max(set)

(* The rebalancing a caller is about to write, from what it reads now: the *)
(* model's own value, not the portfolio's, is spread over the new weights. *)
Rebalancing(r) ==
  LET i == Latest(ActiveModels)
      prices == CachedPrices
      total == IF i = NoShadow THEN Value ELSE PaperValue(shadows[i].holdings, prices)
      h == Resolve(recs[r].alloc, total, prices)
  IN  [shadow |-> i, holdings |-> h, conserved |-> Conserved(h, prices, total)]

Paper == [shadows |-> shadows, values |-> values]

Added(p, shadow, v) == [shadows |-> Append(p.shadows, shadow), values |-> Append(p.values, v)]

(* Writing it, which includes today's valuation.                           *)
ModelWritten(p, r, b) ==
  IF ~b.conserved THEN p
  ELSE IF b.shadow = NoShadow
  THEN Added(p, Shadow("model", r, b.holdings, day, day), ValuedToday(<<>>, b.holdings))
  ELSE [shadows |-> [p.shadows EXCEPT ![b.shadow].holdings = b.holdings, ![b.shadow].rec = r],
        values  |-> [p.values EXCEPT ![b.shadow] = ValuedToday(@, b.holdings)]]

PaperBecomes(p) == shadows' = p.shadows /\ values' = p.values

(* Prices of the day of a recommendation, else the latest.                 *)
InceptionPrices(r) ==
  [s \in Symbols |-> LET then == FetchedOn(history, recs[r].day)[s]
                     IN  IF then # Unpriced THEN then ELSE CachedPrices[s]]

FrozenPlan(r) == Resolve(recs[r].alloc, Value, InceptionPrices(r))

FreezesWell(r) == Conserved(FrozenPlan(r), InceptionPrices(r), Value)

KnownBy(d) == IF d \in DOMAIN history THEN d ELSE d - 1

(* What a caller who freezes a recommendation knows before it writes.      *)
Freezing(r) == [shadow |-> NoShadow, holdings |-> FrozenPlan(r), known |-> KnownBy(recs[r].day)]

(* The frozen shadow that the grader takes.  Nothing keeps two callers     *)
(* from making one each.                                                   *)
Counterfactual(r) ==
  IF ShadowsOf("frozen", r) = {} THEN NoShadow ELSE Min(ShadowsOf("frozen", r))

-----------------------------------------------------------------------------
(* Recommendations and the threads an optimizer run starts for them.       *)

Recommend(alloc) ==
  /\ Len(recs) < MaxRecommendations
  /\ recs' = Append(recs, [alloc |-> alloc, day |-> day])
  /\ threads' = threads \cup {[work |-> w, rec |-> Len(recs) + 1, read |-> <<>>] : w \in {"model", "frozen"}}
  /\ UNCHANGED <<day, worked, history, decisions, shadows, values, byJob, grades, commands, faults>>

ThreadReads(t) ==
  /\ t.work = "model" /\ t.read = <<>>
  /\ threads' = (threads \ {t}) \cup {[t EXCEPT !.read = <<Rebalancing(t.rec)>>]}
  /\ UNCHANGED <<day, worked, history, recs, decisions, shadows, values, byJob, grades, commands, faults>>

ThreadWrites(t) ==
  /\ t.work = "model" /\ t.read # <<>>
  /\ PaperBecomes(ModelWritten(Paper, t.rec, t.read[1]))
  /\ threads' = threads \ {t}
  /\ UNCHANGED <<day, worked, history, recs, decisions, byJob, grades, commands, faults>>

(* One shadow per recommendation: made if there is none, in one commit,    *)
(* and given the values of its past days in another.                       *)
FreezeReads(t) ==
  /\ t.work # "model" /\ t.read = <<>>
  /\ threads' = (threads \ {t}) \cup
       IF Counterfactual(t.rec) = NoShadow /\ FreezesWell(t.rec)
       THEN {[t EXCEPT !.read = <<Freezing(t.rec)>>]} ELSE {}
  /\ UNCHANGED <<day, worked, history, recs, decisions, shadows, values, byJob, grades, commands, faults>>

FreezeInserts(t) ==
  /\ t.work # "model" /\ t.read # <<>>
  /\ LET b == t.read[1]
         from == recs[t.rec].day
     IN  /\ b.shadow = NoShadow
         /\ PaperBecomes(Added(Paper, Shadow("frozen", t.rec, b.holdings, from, b.known), <<>>))
         /\ threads' = (threads \ {t}) \cup
              IF from < day THEN {[t EXCEPT !.read = <<[b EXCEPT !.shadow = Len(shadows) + 1]>>]} ELSE {}
  /\ UNCHANGED <<day, worked, history, recs, decisions, byJob, grades, commands, faults>>

FreezeFills(t) ==
  /\ t.work # "model" /\ t.read # <<>>
  /\ LET b == t.read[1]
     IN  /\ b.shadow # NoShadow
         /\ values' = [values EXCEPT ![b.shadow] = Revalued(b.holdings, recs[t.rec].day, history, @)]
         /\ byJob' = {x \in byJob : x[1] # b.shadow}
  /\ threads' = threads \ {t}
  /\ UNCHANGED <<day, worked, history, recs, decisions, shadows, grades, commands, faults>>

-----------------------------------------------------------------------------
(* The user's decision.                                                    *)

Decided(r) == \E d \in decisions : d[1] = r

UserMayDecide(r, what) ==
  /\ <<r, what>> \notin decisions
  /\ Cardinality({d \in decisions : d[2] # "EXPIRED"}) < MaxDecisions

(* The approved plan frozen at today's prices, and valued at once.         *)
ApprovedFrozen(r) ==
  LET h == Resolve(recs[r].alloc, Value, CachedPrices)
  IN  IF Conserved(h, CachedPrices, Value)
      THEN Added(Paper, Shadow("approved", r, h, day, day), ValuedToday(<<>>, h)) ELSE Paper

(* An approval also refreshes the model.  It may come after the            *)
(* recommendation has expired.                                             *)
Approve(r) ==
  /\ UserMayDecide(r, "APPROVED")
  /\ decisions' = decisions \cup {<<r, "APPROVED">>}
  /\ PaperBecomes(ModelWritten(ApprovedFrozen(r), r, Rebalancing(r)))
  /\ UNCHANGED <<day, worked, history, recs, byJob, grades, threads, commands, faults>>

Reject(r) ==
  /\ UserMayDecide(r, "REJECTED")
  /\ decisions' = decisions \cup {<<r, "REJECTED">>}
  /\ UNCHANGED <<day, worked, history, recs, shadows, values, byJob, grades, threads, commands, faults>>

-----------------------------------------------------------------------------
(* The evaluation pass: first expiry, then grades.                         *)

Aged(r) == day - recs[r].day >= ExpiryDays

(* Recommendations are walked from the newest on, so that one that expires *)
(* now supersedes the older ones in the same pass.                         *)
Expired(failing) ==
  LET expired[r \in 1..(Len(recs) + 1)] ==
        IF r > Len(recs) THEN {}
        ELSE LET newer == expired[r + 1]
                 superseded == \E q \in (r + 1)..Len(recs) : Decided(q) \/ q \in newer
             IN  IF ~Decided(r) /\ r \notin failing /\ (superseded \/ Aged(r))
                 THEN newer \cup {r} ELSE newer
  IN  expired[1]

Graded(r, kind) == \E g \in grades : g.rec = r /\ g.kind = kind

IsDue(r, h, v) ==
  /\ day - recs[r].day >= h
  /\ ~Graded(r, h)
  /\ Counterfactual(r) # NoShadow
  /\ \E d \in DOMAIN v[Counterfactual(r)] :
       d <= recs[r].day + h /\ recs[r].day + h - d <= MaxGap

Due(v) == {x \in Recs \X Horizons : IsDue(x[1], x[2], v)}

(* Mutant: a late pass grades with the latest valuation there is.          *)
GradeLatest(r, h, v) ==
  LET i == Counterfactual(r)
      end == Max(DOMAIN v[i])
  IN  [rec |-> r, kind |-> h, end |-> end, value |-> v[i][end]]

(* The valuation nearest to the horizon that does not lie after it.        *)
Grade(r, h, v) ==
  LET i == Counterfactual(r)
      end == Max({d \in DOMAIN v[i] : d <= recs[r].day + h})
  IN  [rec |-> r, kind |-> h, end |-> end, value |-> v[i][end]]

(* The shadow of a recommendation rests after the grade of the last        *)
(* horizon, unless the process dies between the two commits.               *)
EvaluationWith(v, failing, lost) ==
  LET due == {x \in Due(v) : x[1] \notin failing}
      rests(i) == /\ i = Counterfactual(shadows[i].rec)
                  /\ <<shadows[i].rec, Max(Horizons)>> \in due
                  /\ shadows[i].rec \notin lost
  IN  /\ decisions' = decisions \cup {<<r, "EXPIRED">> : r \in Expired(failing)}
      /\ grades' = grades \cup {Grade(x[1], x[2], v) : x \in due}
      /\ shadows' = [i \in Shadows |->
           IF rests(i) THEN [shadows[i] EXCEPT !.active = FALSE] ELSE shadows[i]]

FaultsNow(n) == faults + n <= MaxFaults /\ faults' = faults + n

(* A recommendation whose evaluation raises is skipped.                    *)
EvaluationPass(v) ==
  \E failing \in SUBSET Recs, lost \in SUBSET Recs :
    /\ FaultsNow(Cardinality(failing) + Cardinality(lost))
    /\ EvaluationWith(v, failing, lost)

(* A snapshot has the prices of what is held on the day.                   *)
TakeSnapshot ==
  \E held \in SUBSET Symbols :
    history' = [d \in DOMAIN history \cup {day} |->
      IF d = day THEN [s \in Symbols |-> IF s \in held THEN Closing[d][s] ELSE Unpriced] ELSE history[d]]

ValueShadows ==
  LET due == {i \in Shadows : shadows[i].active}
      worth(i) == PaperValue(shadows[i].holdings, FetchedOn(history', day))
  IN  /\ values' = [i \in Shadows |->
           IF i \in due THEN [d \in DOMAIN values[i] \cup {day} |-> IF d = day THEN worth(i) ELSE values[i][d]]
           ELSE values[i]]
      /\ byJob' = byJob \cup (due \X {day})

(* The daily job: snapshots, valuations, evaluation.  Any of the three may *)
(* fail and leaves the others to go on.                                    *)
RunJob ==
  /\ ~worked
  /\ worked' = TRUE
  /\ \/ TakeSnapshot /\ ValueShadows /\ EvaluationPass(values')
     \/ FaultsNow(1) /\ UNCHANGED history /\ ValueShadows /\ EvaluationWith(values', {}, {})
     \/ FaultsNow(1) /\ TakeSnapshot /\ UNCHANGED <<values, byJob>> /\ EvaluationWith(values, {}, {})
     \/ FaultsNow(1) /\ TakeSnapshot /\ ValueShadows /\ UNCHANGED <<decisions, grades, shadows>>
  /\ UNCHANGED <<day, recs, threads, commands>>

(* A day the job missed counts as a fault.                                 *)
NextDay ==
  /\ day < MaxDay
  /\ day' = day + 1 /\ worked' = FALSE
  /\ IF worked THEN UNCHANGED faults ELSE FaultsNow(1)
  /\ UNCHANGED <<history, recs, decisions, shadows, values, byJob, grades, threads, commands>>

(* A process dies: the server with its daemon threads, or a command.       *)
Crash ==
  /\ \E works \in {{"model", "frozen"}, {"backfill"}} :
       /\ \E t \in threads : t.work \in works
       /\ threads' = {t \in threads : t.work \notin works}
  /\ FaultsNow(1)
  /\ UNCHANGED <<day, worked, history, recs, decisions, shadows, values, byJob, grades, commands>>

-----------------------------------------------------------------------------
(* Commands of an administrator.                                           *)

Command == commands < MaxCommands /\ commands' = commands + 1

(* Shadows for recommendations whose thread was lost or is not done yet.   *)
BackfillShadow(r) ==
  /\ Command
  /\ Counterfactual(r) = NoShadow
  /\ \A t \in threads : t.work # "backfill"
  /\ threads' = threads \cup {[work |-> "backfill", rec |-> r, read |-> <<>>]}
  /\ UNCHANGED <<day, worked, history, recs, decisions, shadows, values, byJob, grades, faults>>

(* An evaluation, as at the end of that command.                           *)
BackfillGrades ==
  /\ Command
  /\ EvaluationPass(values)
  /\ UNCHANGED <<day, worked, history, recs, values, byJob, threads>>

(* The days of a model once more: its seed is the last recommendation up   *)
(* to its inception, and on later days the last recommendation of the day  *)
(* rebalances it at the prices of that day.  One plan that does not        *)
(* conserve the value fails the whole replay.                              *)
Replayed(i) ==
  LET from == shadows[i].from
      prices == [d \in from..day |-> [s \in Symbols |-> PriceNear(history, d, s)]]
      dates == {d \in DOMAIN history : d >= from /\ d <= day}
      plans == [d \in from..day |->
                  LET of == {r \in Recs : IF d = from THEN recs[r].day <= d ELSE recs[r].day = d}
                  IN  IF of = {} \/ d \notin dates \cup {from} THEN 0 ELSE Max(of)]
      held[d \in from..day] ==
        IF plans[d] = 0 THEN held[d - 1]
        ELSE Resolve(recs[plans[d]].alloc,
                     IF d = from THEN shadows[i].start ELSE PaperValue(held[d - 1], prices[d]), prices[d])
  IN  IF \/ plans[from] = 0 \/ dates = {}
         \/ \E d \in from..day : plans[d] # 0 /\ Weight(recs[plans[d]].alloc) > 2
      THEN [holdings |-> shadows[i].holdings, days |-> values[i]]
      ELSE [holdings |-> held[Max(dates)],
            days |-> [d \in dates \cup DOMAIN values[i] |->
                        IF d \in dates THEN PaperValue(held[d], prices[d]) ELSE values[i][d]]]

(* Only the latest model is replayed.                                      *)
RegeneratedModel(i) ==
  IF i = Latest(ActiveModels) THEN Replayed(i) ELSE [holdings |-> shadows[i].holdings, days |-> values[i]]

RegeneratedStatic(i) ==
  [holdings |-> shadows[i].holdings,
   days     |-> Revalued(shadows[i].holdings, shadows[i].from, history, values[i])]

Regenerated(i) == IF shadows[i].kind = "model" THEN RegeneratedModel(i) ELSE RegeneratedStatic(i)

(* regenerate_paper_portfolios with --commit; its checks come after the    *)
(* commits and change nothing.                                             *)
Regenerate ==
  /\ Command
  /\ shadows # <<>>
  /\ LET anew == [i \in Shadows |-> Regenerated(i)]
     IN  /\ values' = [i \in Shadows |-> anew[i].days]
         /\ shadows' = [i \in Shadows |-> [shadows[i] EXCEPT !.holdings = anew[i].holdings]]
  /\ UNCHANGED <<day, worked, history, recs, decisions, byJob, grades, threads, faults>>

(* Money held for want of a price becomes shares at the price nearest to   *)
(* the inception, which may lie after it.                                  *)
Unfrozen(h, from) ==
  LET found == {s \in h.frozen : PriceNear(history, from, s) # Unpriced}
  IN  [h EXCEPT !.shares = [s \in Symbols |-> IF s \in found THEN @[s] \div PriceNear(history, from, s) ELSE @[s]],
                !.cost   = [s \in Symbols |-> IF s \in found THEN PriceNear(history, from, s) ELSE @[s]],
                !.frozen = @ \ found]

Repair ==
  /\ Command
  /\ LET mended(i) == Unfrozen(shadows[i].holdings, shadows[i].from)
     IN  /\ shadows' = [i \in Shadows |->
              IF shadows[i].active THEN [shadows[i] EXCEPT !.holdings = mended(i)] ELSE shadows[i]]
         /\ values' = [i \in Shadows |->
              IF shadows[i].active /\ shadows[i].kind # "model"
              THEN Revalued(mended(i), shadows[i].from, history, values[i]) ELSE values[i]]
  /\ shadows' # shadows
  /\ UNCHANGED <<day, worked, history, recs, decisions, byJob, grades, threads, faults>>

(* A model's record starts anew today with the value it has today.         *)
ResetInception ==
  /\ Command
  /\ ActiveModels # {}
  /\ shadows' = [i \in Shadows |->
       IF i \in ActiveModels
       THEN [shadows[i] EXCEPT !.from = day, !.start = PaperValue(shadows[i].holdings, CachedPrices)]
       ELSE shadows[i]]
  /\ values' = [i \in Shadows |->
       IF i \in ActiveModels THEN ValuedToday(<<>>, shadows[i].holdings) ELSE values[i]]
  /\ UNCHANGED <<day, worked, history, recs, decisions, byJob, grades, threads, faults>>

MemoryNext ==
  \/ \E alloc \in Allocations : Recommend(alloc)
  \/ \E t \in threads : ThreadReads(t) \/ ThreadWrites(t) \/ FreezeReads(t) \/ FreezeInserts(t) \/ FreezeFills(t)
  \/ \E r \in Recs : Approve(r) \/ Reject(r) \/ BackfillShadow(r)
  \/ RunJob \/ NextDay \/ Crash
  \/ BackfillGrades \/ Regenerate \/ Repair \/ ResetInception

MemorySpec == MemoryInit /\ [][MemoryNext]_memoryVars

-----------------------------------------------------------------------------
FullyPriced(prices) == \A s \in Symbols : prices[s] # Unpriced

(* A horizon is graded once, and with nothing that was known only after    *)
(* it: neither a pass that runs days late, nor days that were backfilled,  *)
(* nor a second shadow made beside the first, bring in a later price.  The *)
(* value is that of the plan bought at the prices of the recommendation's  *)
(* day and sold at those of the last valued day up to the horizon.  The    *)
(* code keeps this only if it found every price, or wrote the shadow on    *)
(* the recommendation's own day and no command repaired it: else it takes  *)
(* the latest price there is for a symbol that had none.                   *)
GradesDoNotLookAhead ==
  \A g \in grades :
    LET from == recs[g.rec].day
        shadow == shadows[Counterfactual(g.rec)]
        bought == FetchedOn(history, shadow.known)
    IN  /\ \A f \in grades : f.rec = g.rec /\ f.kind = g.kind => f = g
        /\ from <= g.end /\ g.end <= from + g.kind /\ from + g.kind <= g.end + MaxGap
        /\ shadow.known <= from
        /\ FullyPriced(bought) \/ (commands = 0 /\ shadow.made = from) =>
             \E sold \in {FetchedOn(history, g.end), PricesOn(history, g.end)} :
               g.value = PaperValue(Resolve(recs[g.rec].alloc, Value, bought), sold)

(* Regenerating a paper portfolio whose holdings never change reproduces   *)
(* every value the daily job has written for it, unless a price was older  *)
(* than the snapshots the job looks at.                                    *)
RegenerationReproducesStatic ==
  [][Regenerate => \A x \in byJob :
       /\ shadows[x[1]].kind # "model" /\ x[2] \in DOMAIN values[x[1]]
       /\ FetchedOn(history, x[2]) = PricesOn(history, x[2])
       => values'[x[1]][x[2]] = values[x[1]][x[2]]]_memoryVars

=============================================================================

--------------------------- MODULE DecisionReports ---------------------------
(***************************************************************************)
(* What the evaluation screens say of the user's decisions.  Each screen   *)
(* computes its figures on request, from the same rows but with windows    *)
(* and choices of its own: the Scoreboard of human against AI, Opportunity *)
(* Cost, the Recommendations and the Execution Ledger, the Scorecard and   *)
(* the Trust Report.                                                       *)
(*                                                                         *)
(* Time is counted in half days.  Returns are whole numbers that add up    *)
(* (logarithms), prices and amounts whole percents of the plan's.  The     *)
(* paper portfolio of the model has been there before.                     *)
(***************************************************************************)
EXTENDS Integers, Sequences, FiniteSets, FiniteSetsExt

CONSTANTS
  Plans,               \* plans: sets of trades
  Decisions,           \* the decisions users make
  Returns,             \* returns of the portfolio in a day
  ModelReturns,        \* and of the model
  AdvisedReturns,      \* returns of a recommendation at a horizon
  Executions,          \* trades: shares, percent off the plan's price, percent of its amount
  HorizonSettings,     \* settings of horizons_days; the first is the default
  PeriodDays,
  EnoughDecisions,     \* min_n_win_rate
  TieBand,             \* tie_band_pct
  MaxGradeGap,         \* _MAX_VALUATION_GAP_DAYS
  Overdue,             \* expiry_days
  LastHalfDay, MaxAdvised, MaxDecided, MaxGrades, MaxFills   \* bounds

Unknown == 1000        \* a figure that is None

ASSUME ReportsAssumption ==
  /\ \A p \in Plans :
       IsFiniteSet(p) /\ \A t \in p : {t.deferred, t.funds, t.priced, t.sized} \subseteq BOOLEAN
  /\ Returns \cup ModelReturns \cup AdvisedReturns \subseteq Int
  /\ \A x \in Executions : x.shares \in Nat \ {0} /\ x.timing \in Int /\ x.amount \in Nat
  /\ \A i \in DOMAIN HorizonSettings : HorizonSettings[i] \subseteq Nat
  /\ 1 \in DOMAIN HorizonSettings /\ MaxGradeGap \in Nat
  /\ Decisions \subseteq {"APPROVED", "PARTIAL", "REJECTED", "OVERRIDE"}
  /\ {PeriodDays, EnoughDecisions} \subseteq Nat \ {0}

VARIABLES
  now,
  horizons,      \* the setting
  advised,       \* RecommendationSnapshot rows: day and plan
  decided,       \* UserExecutionDecision rows, in order: recommendation, kind, time
  horizonGrades, \* RecommendationGrade rows H...
  fills,         \* transactions linked to a decision, in order
  daily          \* per day with snapshots: return of the portfolio and the model

reportVars == <<now, horizons, advised, decided, horizonGrades, fills, daily>>

Day == now \div 2
DayOf(i) == decided[i].at \div 2
PlanOf(i) == advised[decided[i].rec].plan
DecisionIds == DOMAIN decided

ReportsInit ==
  /\ now = 0 /\ horizons = HorizonSettings[1]
  /\ advised = <<>> /\ decided = <<>> /\ horizonGrades = {} /\ fills = <<>> /\ daily = <<>>

-----------------------------------------------------------------------------
(* How the rows come to be.                                                *)

Advise(p) ==
  /\ Len(advised) < MaxAdvised
  /\ advised' = Append(advised, [day |-> Day, plan |-> p])
  /\ UNCHANGED <<now, horizons, decided, horizonGrades, fills, daily>>

(* A user may decide more than once, and after the recommendation expired. *)
Decide(r, kind) ==
  /\ Len(decided) < MaxDecided
  /\ decided' = Append(decided, [rec |-> r, kind |-> kind, at |-> now])
  /\ UNCHANGED <<now, horizons, advised, horizonGrades, fills, daily>>

Expire(r) ==
  /\ ~\E i \in DecisionIds : decided[i].rec = r
  /\ Day - advised[r].day >= Overdue
  /\ Decide(r, "EXPIRED")

(* What a recommendation has returned at the valuation before its horizon. *)
GradeHorizon(r, h, end, return) ==
  /\ h \in horizons /\ Day >= advised[r].day + h
  /\ end \in (advised[r].day + h - MaxGradeGap)..(advised[r].day + h) /\ end >= advised[r].day
  /\ ~\E g \in horizonGrades : g.rec = r /\ g.horizon = h
  /\ Cardinality(horizonGrades) < MaxGrades
  /\ horizonGrades' = horizonGrades \cup {[rec |-> r, horizon |-> h, end |-> end, return |-> return]}
  /\ UNCHANGED <<now, horizons, advised, decided, fills, daily>>

(* A trade that names a decision; a symbol may be traded in several.       *)
(* Nothing asks whether it is of the plan's side.                          *)
Fill(i, t, x) ==
  /\ decided[i].kind # "EXPIRED" /\ Len(fills) < MaxFills
  /\ fills' = Append(fills, [decision |-> i, symbol |-> t.symbol, shares |-> x.shares,
                             timing |-> x.timing, amount |-> x.amount])
  /\ UNCHANGED <<now, horizons, advised, decided, horizonGrades, daily>>

DailyRows(actual, model) ==
  /\ Day \notin DOMAIN daily
  /\ daily' = [d \in DOMAIN daily \cup {Day} |->
                 IF d = Day THEN [actual |-> actual, model |-> model] ELSE daily[d]]
  /\ UNCHANGED <<now, horizons, advised, decided, horizonGrades, fills>>

ChangeHorizons(H) ==
  /\ horizons' = H
  /\ UNCHANGED <<now, advised, decided, horizonGrades, fills, daily>>

HalfDay ==
  /\ now < LastHalfDay
  /\ now' = now + 1
  /\ UNCHANGED <<horizons, advised, decided, horizonGrades, fills, daily>>

(* Recommendations and what is decided about them.                         *)
DecisionStep ==
  \/ \E p \in Plans : Advise(p)
  \/ \E r \in DOMAIN advised :
       \/ \E kind \in Decisions : Decide(r, kind)
       \/ Expire(r)
  \/ HalfDay

FigureStep ==
  \/ \E r \in DOMAIN advised, h \in horizons, return \in AdvisedReturns :
       \E end \in 0..Day : GradeHorizon(r, h, end, return)
  \/ \E actual \in Returns, model \in ModelReturns : DailyRows(actual, model)
  \/ \E i \in DOMAIN HorizonSettings : horizons # HorizonSettings[i] /\ ChangeHorizons(HorizonSettings[i])

TradeStep ==
  \E i \in DecisionIds : \E t \in PlanOf(i), x \in Executions : Fill(i, t, x)

ReportsNext == DecisionStep \/ FigureStep \/ TradeStep

ReportsSpec == ReportsInit /\ [][ReportsNext]_reportVars

-----------------------------------------------------------------------------
(* Windows.  Some screens count from a date, others from this time of day. *)

InDays  == {i \in DecisionIds : DayOf(i) >= Day - PeriodDays}
InHours == {i \in DecisionIds : decided[i].at >= now - 2 * PeriodDays}

Total(S, f(_)) == SumFunctionOnSet([x \in S |-> f(x)], S)

ActualOf(S) == IF S = {} THEN Unknown ELSE Total(S, LAMBDA d : daily[d].actual)
ModelOf(S)  == IF S = {} THEN Unknown ELSE Total(S, LAMBDA d : daily[d].model)

SinceDay(d) == {e \in DOMAIN daily : e >= d}
ActualSince(d) == ActualOf(SinceDay(d))

-----------------------------------------------------------------------------
(* Which of a recommendation's grades a screen shows.                      *)

GradesFor(r) == {g \in horizonGrades : g.rec = r}
Largest(S)  == CHOOSE g \in S : \A o \in S : o.horizon <= g.horizon
Smallest(S) == CHOOSE g \in S : \A o \in S : o.horizon >= g.horizon

(* Mutant: the first grade that matured.                                   *)
FirstGraded(r) == IF GradesFor(r) = {} THEN {} ELSE {Smallest(GradesFor(r))}

(* The largest horizon within the period, else the smallest beyond it.     *)
NearestGraded(r) ==
  LET within == {g \in GradesFor(r) : g.horizon <= PeriodDays}
  IN  IF GradesFor(r) = {} THEN {}
      ELSE IF within # {} THEN {Largest(within)} ELSE {Smallest(GradesFor(r))}

(* The Execution Ledger takes the grade whose window ends last.            *)
LatestGraded(r) == {g \in GradesFor(r) : \A o \in GradesFor(r) : o.end <= g.end}

(* The Recommendations Ledger and the Report Card show the horizons of the *)
(* setting.                                                                *)
Strip(r) ==
  [h \in horizons |->
     IF \E g \in GradesFor(r) : g.horizon = h THEN "graded"
     ELSE IF Day - advised[r].day < h THEN "maturing" ELSE "pending_grading"]

Headline(r) ==
  LET shown == {g \in GradesFor(r) : g.horizon \in horizons}
  IN  IF shown = {} THEN {} ELSE {Largest(shown)}

-----------------------------------------------------------------------------
(* The Scoreboard: what following would have returned more than acting.    *)

Priced(i) == NearestGraded(decided[i].rec) # {} /\ ActualSince(DayOf(i)) # Unknown
Advice(i) == (CHOOSE g \in NearestGraded(decided[i].rec) : TRUE).return

OnBoard     == {i \in InDays : decided[i].kind # "EXPIRED"}
BoardDelta(i) == Advice(i) - ActualSince(DayOf(i))

-----------------------------------------------------------------------------
(* Opportunity Cost: what each divergence has brought.                     *)

Diverged(i) == decided[i].kind # "APPROVED"
OnCost      == {i \in InHours : Diverged(i)}

CostDelta(i) == ActualSince(DayOf(i)) - Advice(i)

NetCost == Total({i \in OnCost : Priced(i)}, CostDelta)

-----------------------------------------------------------------------------
(* Plan against execution.                                                 *)

Offered(i) == {t \in PlanOf(i) : ~t.deferred}
FillsOf(i) == {n \in DOMAIN fills : fills[n].decision = i}
FillsFor(i, t) == {n \in FillsOf(i) : fills[n].symbol = t.symbol}
Filled(i)  == {t \in Offered(i) : FillsFor(i, t) # {}}
Funders(S) == {t \in S : t.funds}

(* What was traded of a symbol, all its trades together: the distance of   *)
(* the average price from the plan's, and of the amount.  Without a price  *)
(* of the recommendation, or an amount planned, there is none.             *)
Shares(i, t)  == Total(FillsFor(i, t), LAMBDA n : fills[n].shares)
Slipped(i, t) == Total(FillsFor(i, t), LAMBDA n : fills[n].shares * fills[n].timing)
Rounded(n, d) == (2 * n + d) \div (2 * d)
TimingDelta(i, t) == Rounded(Slipped(i, t), Shares(i, t))
SizeDelta(i, t)   == Total(FillsFor(i, t), LAMBDA n : fills[n].amount) - 100

Timed(i) == {t \in Filled(i) : t.priced}
Sized(i) == {t \in Filled(i) : t.sized}

Size(x) == IF x < 0 THEN 0 - x ELSE x
Rated(penalty, n) == LET points == 100 * n - penalty IN IF points < 0 THEN 0 ELSE points \div n

CompletenessPct(i) ==
  IF Offered(i) = {} THEN 100 ELSE (100 * Cardinality(Filled(i))) \div Cardinality(Offered(i))

(* The components of the score that can be measured, weighted equally.     *)
Components(i) ==
  (IF Timed(i) = {} THEN {}
   ELSE {<<"timing", Rated(5 * Total(Timed(i), LAMBDA t : Size(TimingDelta(i, t))), Cardinality(Timed(i)))>>})
  \cup (IF Sized(i) = {} THEN {}
        ELSE {<<"size", Rated(Total(Sized(i), LAMBDA t : Size(SizeDelta(i, t))), Cardinality(Sized(i)))>>})
  \cup (IF Funders(Offered(i)) = {} THEN {}
        ELSE {<<"funding", (100 * Cardinality(Funders(Filled(i)))) \div Cardinality(Funders(Offered(i)))>>})
  \cup {<<"completeness", CompletenessPct(i)>>}

ExecutionScore(i) ==
  IF FillsOf(i) = {} THEN Unknown
  ELSE Total(Components(i), LAMBDA c : c[2]) \div Cardinality(Components(i))

-----------------------------------------------------------------------------
(* Scorecard and Trust Report.                                             *)

Compared == {i \in InDays : SinceDay(DayOf(i)) # {}}

Charted == SinceDay(Day - PeriodDays)

Gap == IF Charted = {} THEN Unknown ELSE ModelOf(Charted) - ActualOf(Charted)

GapBranch ==
  IF Gap = Unknown \/ Cardinality(Compared) < EnoughDecisions THEN "insufficient_evidence"
  ELSE IF Size(Gap) <= TieBand THEN "tie"
  ELSE IF Gap > 0 THEN "ai_ahead" ELSE "human_ahead"

ScorecardBranch == GapBranch

DecisionCount == Cardinality(InHours)

(* The same table once more, written out a second time.                    *)
TrustBranch ==
  IF DecisionCount = 0 THEN "no_decisions"
  ELSE IF Gap = Unknown \/ Cardinality(Compared) < EnoughDecisions THEN "insufficient_evidence"
  ELSE IF Size(Gap) <= TieBand THEN "tie"
  ELSE IF Gap > 0 THEN "ai_ahead" ELSE "human_ahead"

-----------------------------------------------------------------------------
(* A setting may have horizons that are closer than a valuation may be     *)
(* late: the later grade may end first then.                               *)
HorizonsApart(r) ==
  \A g, o \in GradesFor(r) : g.horizon < o.horizon => g.horizon + MaxGradeGap <= o.horizon

(* Every screen that says what the AI would have returned reads one grade  *)
(* (compute_scoreboard's promise): the Scoreboard and Opportunity Cost,    *)
(* the two ledgers and the Report Card agree, except about horizons beyond *)
(* the period or no longer in the setting, and, in the Execution Ledger,   *)
(* horizons next to each other and grades that end together.               *)
ScreensShowOneNumber ==
  \A i \in DecisionIds :
    LET r == decided[i].rec
    IN  (\A g \in GradesFor(r) : g.horizon <= PeriodDays /\ g.horizon \in horizons)
          => /\ NearestGraded(r) = Headline(r)
             /\ HorizonsApart(r) /\ Cardinality(LatestGraded(r)) = 1 => LatestGraded(r) = Headline(r)
             /\ Headline(r) # {} <=> \E h \in horizons : Strip(r)[h] = "graded"

(* Opportunity Cost is the Scoreboard seen from the other side: a          *)
(* divergence that is priced on both has the same figure with the other    *)
(* sign, and the net is that of the Scoreboard's divergences and of what   *)
(* expired - but for the decisions of the period's first morning, which    *)
(* only the Scoreboard counts.                                             *)
CostMirrorsBoard ==
  LET divergences == {i \in OnBoard \cap OnCost : Priced(i)}
      ignored     == {i \in OnCost : Priced(i) /\ decided[i].kind = "EXPIRED"}
  IN  /\ NetCost = Total(ignored, CostDelta) - Total(divergences, BoardDelta)
      /\ \A i \in OnBoard \ OnCost : Diverged(i) => DayOf(i) = Day - PeriodDays

(* The Scorecard and the Trust Report say the same of human against AI,    *)
(* unless the report counts no decision while the Scorecard still does.    *)
VerdictsAgree ==
  \/ TrustBranch = ScorecardBranch
  \/ TrustBranch = "no_decisions" /\ \A i \in InDays : DayOf(i) = Day - PeriodDays

(* An execution has full marks only when every trade that was offered was  *)
(* made, the plan's amount of it as far as the plan had one, and at the    *)
(* recommendation's price if that is known - on average, to the percent: a *)
(* trade above and one below it make up for each other.  Of a symbol with  *)
(* no price or no amount, full marks say only that it was traded.          *)
FullMarksMeanAsPlanned ==
  \A i \in DecisionIds :
    ExecutionScore(i) = 100 =>
      /\ Filled(i) = Offered(i)
      /\ \A t \in Offered(i) :
           /\ t.sized => Total(FillsFor(i, t), LAMBDA n : fills[n].amount) = 100
           /\ t.priced => 2 * Size(Slipped(i, t)) <= Shares(i, t)

(* Screens computed apart from each other tell one story, and full marks   *)
(* for an execution mean what they say.                                    *)
ScreensAgree == ScreensShowOneNumber /\ CostMirrorsBoard /\ VerdictsAgree /\ FullMarksMeanAsPlanned
=============================================================================

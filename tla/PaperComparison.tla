--------------------------- MODULE PaperComparison ---------------------------
(***************************************************************************)
(* The "Three Portfolios": what following every recommendation at once     *)
(* would have returned (Ideal), what the paper portfolio of the model      *)
(* returned (AI), and what the portfolio itself returned (Actual), with    *)
(* the gaps between them.  All are computed on request from the rows that  *)
(* optimizer runs and daily jobs have left.  One stock and cash; the       *)
(* portfolio itself holds the stock only, so that the price in a snapshot  *)
(* is also its value.  Returns are pairs <<end, beginning>>.               *)
(***************************************************************************)
EXTENDS Integers, FiniteSets, FiniteSetsExt

CONSTANTS
  Weights,             \* target weights of the stock, in halves of the portfolio
  Prices,
  Base,                \* total_portfolio_value of the first recommendation
  Period,              \* period_days
  LastDay, MaxAdvice, MaxResets   \* bounds

NoPrice == 0

ASSUME ComparisonAssumption ==
  /\ Weights \subseteq 0..2 /\ Prices \subseteq Nat \ {NoPrice}
  /\ Base \in Nat \ {0} /\ Period \in Nat \ {0}

VARIABLES
  currentDay,
  snapshots,     \* PortfolioSnapshot rows: the price of the stock by day
  advice,        \* RecommendationSnapshot rows: the target weight by day
  activeModel,   \* what the ACTIVE_MODEL shadow holds now
  modelRows,     \* its ShadowPortfolioSnapshot rows by day
  resets

comparisonVars == <<currentDay, snapshots, advice, activeModel, modelRows, resets>>

Empty == [shares |-> 0, cash |-> 0, frozen |-> FALSE]

(* The table with the value in the row of the day.                         *)
Noted(table, d, v) == [e \in DOMAIN table \cup {d} |-> IF e = d THEN v ELSE table[e]]

ComparisonInit ==
  /\ currentDay = 1
  /\ snapshots \in {<<>>} \cup [{0} -> Prices]
  /\ advice = <<>> /\ activeModel = Empty /\ modelRows = <<>> /\ resets = 0

-----------------------------------------------------------------------------
(* Prices and paper values.                                                *)

Before(set, d) == {e \in set : e < d}
UpTo(set, d)   == {e \in set : e <= d}
From(set, d)   == {e \in set : e >= d}

LastPrice(d) ==
  LET known == UpTo(DOMAIN snapshots, d) IN IF known = {} THEN NoPrice ELSE snapshots[Max(known)]

(* The last price up to the day, or the first one after it.                *)
NearestPrice(d) ==
  LET after == From(DOMAIN snapshots, d)
  IN  IF LastPrice(d) # NoPrice \/ after = {} THEN LastPrice(d) ELSE snapshots[Min(after)]

(* Mutant: what a plan leaves over is dropped.                             *)
SpreadWithoutCash(w, nav, price) ==
  [shares |-> IF price = NoPrice THEN (w * nav) \div 2 ELSE ((w * nav) \div 2) \div price,
   cash   |-> 0,
   frozen |-> price = NoPrice]

(* Without a price the stock is held as an amount of money for good; what  *)
(* the plan leaves over is cash.                                           *)
Spread(w, nav, price) ==
  [shares |-> IF price = NoPrice THEN (w * nav) \div 2 ELSE ((w * nav) \div 2) \div price,
   cash   |-> ((2 - w) * nav) \div 2,
   frozen |-> price = NoPrice]

Invested(h, price) == h.shares * (IF h.frozen THEN 1 ELSE price)
Worth(h, price)    == h.cash + Invested(h, price)

-----------------------------------------------------------------------------
(* What happens to the rows.                                               *)

(* The model's value today goes into today's row.  The column cash is not  *)
(* in the table: the row has holdings and value, the shadow has the cash.  *)
Valued(h, price) ==
  Noted(modelRows, currentDay, [holdings |-> h, value |-> Worth(h, price)])

(* An optimizer run: the model spreads the value it has at the last known  *)
(* price over the new weights.                                             *)
Advised(w) ==
  LET price == LastPrice(currentDay)
      nav   == IF advice = <<>> THEN Base ELSE Worth(activeModel, price)
  IN  /\ currentDay \notin DOMAIN advice /\ Cardinality(DOMAIN advice) < MaxAdvice
      /\ advice' = Noted(advice, currentDay, w)
      /\ activeModel' = Spread(w, nav, price)
      /\ modelRows' = Valued(activeModel', price)
      /\ UNCHANGED <<currentDay, snapshots, resets>>

(* The daily job: the snapshot, then the model's valuation at its price.   *)
DailyJob(price) ==
  /\ currentDay \notin DOMAIN snapshots
  /\ snapshots' = Noted(snapshots, currentDay, price)
  /\ modelRows' = IF advice = <<>> THEN modelRows ELSE Valued(activeModel, price)
  /\ UNCHANGED <<currentDay, advice, activeModel, resets>>

(* A day may pass without a job, as weekends do.                           *)
DayPasses ==
  /\ currentDay < LastDay
  /\ currentDay' = currentDay + 1
  /\ UNCHANGED <<snapshots, advice, activeModel, modelRows, resets>>

(* The administrator starts the model's record anew.                       *)
BeginAnew ==
  /\ advice # <<>> /\ resets < MaxResets
  /\ resets' = resets + 1
  /\ modelRows' = Noted(<<>>, currentDay, [holdings |-> activeModel, value |-> Worth(activeModel, LastPrice(currentDay))])
  /\ UNCHANGED <<currentDay, snapshots, advice, activeModel>>

ComparisonNext ==
  \/ \E w \in Weights : Advised(w)
  \/ \E p \in Prices : DailyJob(p)
  \/ DayPasses \/ BeginAnew

ComparisonSpec == ComparisonInit /\ [][ComparisonNext]_comparisonVars

-----------------------------------------------------------------------------
(* Ideal: the recommendations replayed without friction.                   *)

PeriodStart == currentDay - Period

(* The seed is the last recommendation up to the beginning of the period,  *)
(* else the first one in it.                                               *)
IdealStart ==
  LET seeds == UpTo(DOMAIN advice, PeriodStart)
  IN  IF seeds # {} THEN Max(seeds) ELSE Min(DOMAIN advice)

IdealDays == IF advice = <<>> THEN {} ELSE From(DOMAIN snapshots, IdealStart)

(* A recommendation takes effect on its day, if the day has prices.        *)
IdealHoldings ==
  LET seed == Spread(advice[IdealStart], Base, NearestPrice(IdealStart))
      held[d \in IdealDays] ==
        LET old == IF Before(IdealDays, d) = {} THEN seed ELSE held[Max(Before(IdealDays, d))]
        IN  IF d \in DOMAIN advice /\ d # IdealStart
            THEN Spread(advice[d], Worth(old, snapshots[d]), snapshots[d])
            ELSE old
  IN  held

IdealSeries == [d \in IdealDays |-> Worth(IdealHoldings[d], snapshots[d])]

-----------------------------------------------------------------------------
(* AI: the model's holdings on each day, at the prices Ideal uses, with    *)
(* the cash the model has now.                                             *)

AiDays == From(DOMAIN modelRows, PeriodStart)

AiSeries == [d \in AiDays |-> activeModel.cash + Invested(modelRows[d].holdings, NearestPrice(d))]

NoReturn == <<>>

(* A series from a day on: the value at or before it, else the first one.  *)
ReturnFrom(series, d) ==
  LET days == DOMAIN series
      base == IF UpTo(days, d) # {} THEN Max(UpTo(days, d)) ELSE Min(days)
  IN  IF From(days, d) = {} THEN NoReturn ELSE <<series[Max(days)], series[base]>>

FullReturn(series) ==
  IF DOMAIN series = {} THEN NoReturn ELSE <<series[Max(DOMAIN series)], series[Min(DOMAIN series)]>>

(* Both are compared from the later of their first days on.                *)
Overlap == Max({Min(IdealDays), Min(AiDays)})

OverOverlap(series) ==
  IF IdealDays = {} \/ AiDays = {} \/ ReturnFrom(series, Overlap) = NoReturn
  THEN FullReturn(series)
  ELSE ReturnFrom(series, Overlap)

GapA == <<OverOverlap(IdealSeries), OverOverlap(AiSeries)>>

-----------------------------------------------------------------------------
(* The model's official return, the portfolio's, and what is shown.        *)

(* Chained daily returns; each is to the row before, so that the chain is  *)
(* the ratio of its ends, and the first day of the period counts if there  *)
(* is an earlier row.                                                      *)
Chained(value, days) ==
  LET window == From(days, PeriodStart)
      before == Before(days, Min(window))
  IN  IF window = {} \/ (before = {} /\ Cardinality(window) = 1) THEN NoReturn
      ELSE <<value[Max(window)], value[IF before = {} THEN Min(window) ELSE Max(before)]>>

ModelReturn  == Chained([d \in DOMAIN modelRows |-> modelRows[d].value], DOMAIN modelRows)
ActualReturn == Chained(snapshots, DOMAIN snapshots)

(* The scorecard's Implementation Shortfall.                               *)
Shortfall == <<FullReturn(IdealSeries), ModelReturn>>

(* The actual line: an index that has already moved on its first day.      *)
ActualIndex ==
  LET window   == From(DOMAIN snapshots, PeriodStart)
      adjusted == {d \in window : Before(DOMAIN snapshots, d) # {}}
  IN  [d \in adjusted |-> <<snapshots[d], snapshots[Max(Before(DOMAIN snapshots, Min(adjusted)))]>>]

(* Lines that are indexed to their own first day are indexed again, which  *)
(* changes nothing; the actual line is not.                                *)
Reindexed(series, rebase) ==
  LET first == series[Min(DOMAIN series)]
  IN  [d \in DOMAIN series |->
         IF rebase THEN <<series[d][1] * first[2], series[d][2] * first[1]>> ELSE series[d]]

ActualLine == Reindexed(ActualIndex, FALSE)

-----------------------------------------------------------------------------
Same(r, s) == r[1] * s[2] = s[1] * r[2]
Measured(gap) == gap[1] # NoReturn /\ gap[2] # NoReturn

(* The ideal line moves with prices only: neither a rebalancing nor cash   *)
(* left over adds or takes anything (the paper portfolios once lost their  *)
(* cash at every rebalancing).                                             *)
IdealGainsOnlyFromPrices ==
  \A d \in IdealDays : Before(IdealDays, d) # {} =>
    LET e == Max(Before(IdealDays, d))
    IN  IdealSeries[d] - IdealSeries[e] = IdealHoldings[e].shares * (snapshots[d] - snapshots[e])

(* The chart and the card show one return of the portfolio.                *)
ChartMatchesCard ==
  DOMAIN ActualIndex # {} => Same(ActualLine[Max(DOMAIN ActualIndex)], ActualReturn)

(* What may make the two paper portfolios differ.                          *)
Followed ==
  \A d \in From(DOMAIN advice, IdealStart) :
     d \in DOMAIN snapshots /\ Before(DOMAIN snapshots, d) # {} /\ LastPrice(d - 1) = snapshots[d]
CashUnchanged == \A d \in AiDays : modelRows[d].holdings.cash = activeModel.cash
ComparedFromOneDay == From(IdealDays, Overlap) # {} /\ Min(AiDays) \in DOMAIN snapshots

(* Gap A shows friction only: when every recommendation was made on a day  *)
(* with prices, at the price of that day, and the model's cash has not     *)
(* changed since the first day compared, the two return the same, however  *)
(* much earlier one of the two began.                                      *)
NoGapWithoutFriction ==
  (/\ IdealDays # {} /\ AiDays # {}
   /\ Followed /\ CashUnchanged /\ ComparedFromOneDay /\ ~activeModel.frozen)
    => Same(GapA[1], GapA[2])

(* What is compared is advice against acting on it, and nothing else.      *)
PaperPortfoliosCompare == IdealGainsOnlyFromPrices /\ ChartMatchesCard /\ NoGapWithoutFriction
=============================================================================

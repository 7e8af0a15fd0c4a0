--------------------------- MODULE SnapshotHistory ---------------------------
(***************************************************************************)
(* The stored snapshots of one portfolio and what rewrites them after the  *)
(* fact: the repair of a range (services/snapshot_repair.py), the recovery *)
(* of returns (services/snapshot_return_recovery.py) and the snapshot      *)
(* stages of a rebuild (services/portfolio_rebuilder.py), beside the daily *)
(* generation and a ledger that takes entries with an earlier date.        *)
(*                                                                         *)
(* The four compute a return by one formula and disagree on its inputs: a  *)
(* rebuild counts the flows of a period by transaction_date, the others by *)
(* created_at; a recovery and a repair value imported shares as recorded,  *)
(* the others at the day's price.  The three rewriters read rows first and *)
(* write later, and the session then writes the columns that differ from   *)
(* what it had loaded; repairs and recoveries are commands of manage.py, a *)
(* process beside the one that generates.                                  *)
(*                                                                         *)
(* One symbol stands for all holdings, trades are made at the closing      *)
(* price without fees, and cash and holdings are the sums of the ledger:   *)
(* what a rebuild does to them is in Rebuild.                              *)
(***************************************************************************)
EXTENDS Integers, Sequences, FiniteSets, FiniteSetsExt

CONSTANTS Closes,         \* closing prices
          ImportCosts,    \* recorded prices of imported shares
          Opening,        \* cash deposited on the first day
          LastDate,       \* bound: days
          MaxEntries,     \* bound: transactions, with the two of the first day
          MaxGenerations, \* bound: snapshots generated
          MaxRewrites     \* bound: repairs, recoveries and rebuilds begun

ASSUME HistoryAssumption ==
  /\ Closes # {} /\ Closes \subseteq Nat \ {0}
  /\ ImportCosts # {} /\ ImportCosts \subseteq Nat \ {0}
  /\ {Opening, MaxEntries, MaxGenerations, MaxRewrites} \subseteq Nat
  /\ LastDate \in Nat \ {0}

VARIABLES today,     \* the current day
          close,     \* closing prices up to today
          ledger,    \* transactions in the order of their ids
          rows,      \* portfolio_snapshots by date
          repair,    \* the repair in progress
          rebuild,   \* the rebuild in progress
          recovery,  \* the recovery in progress
          writes,    \* number of snapshots generated
          rewrites,  \* number of rewrites begun
          torn,      \* history: rows rewritten from a reading that was stale
          chained    \* history: the rows a completed repair or recovery left
                     \*   chained and that nothing has touched since

historyVars ==
  <<today, close, ledger, rows, repair, rebuild, recovery, writes, rewrites, torn, chained>>

Days == 1..LastDate

\* A transaction; created is the day of created_at, dated of transaction_date,
\* price the recorded price of bought or imported shares.
Entry(kind, created, dated, cash, shares, price) ==
  [kind |-> kind, created |-> created, dated |-> dated,
   cash |-> cash, shares |-> shares, price |-> price]

Sum(field, ids) == SumFunction([k \in ids |-> ledger[k][field]])

NoRow == [exists |-> FALSE]

Exists(date) == rows[date].exists

RowDates == {d \in Days : Exists(d)}

\* price is <<>> without holdings and when it was missing.
Equity(shares, price) == IF price = <<>> THEN 0 ELSE shares * price[1]

Value(cash, shares, price) == cash + Equity(shares, price)

\* Columns total_value, cash_balance, total_invested, unrealized_pnl and, in one
\* column, the holdings, with their cost as shares times avg_cost; base, as
\* history, is the value the return was measured from.
Row(cash, shares, cost, price, base, return) ==
  [exists |-> TRUE, total |-> Value(cash, shares, price), cash |-> cash,
   invested |-> cost, gain |-> Equity(shares, price) - cost,
   shares |-> shares, cost |-> cost, price |-> price, base |-> base, return |-> return]

\* The order of a replay.
ByDate(j, k) ==
  ledger[j].dated < ledger[k].dated \/ (ledger[j].dated = ledger[k].dated /\ j < k)

\* The cost of what is held: what was paid since everything was last sold, in
\* the order of a replay or in that of recording.
PaidFor(ids, dated) ==
  LET bought == {k \in ids : ledger[k].shares > 0
                    /\ ~\E j \in ids : ledger[j].shares < 0 /\ IF dated THEN ByDate(k, j) ELSE k < j}
  IN  SumFunction([k \in bought |-> ledger[k].shares * ledger[k].price])

NoRepair == [pending |-> {}]

NoRebuild == [from |-> 0]

NoRecovery == [seen |-> 0]

\* The first day's row is one of those written when a missing price was
\* replaced by the cost.
HistoryInit ==
  /\ today = 1
  /\ \E p \in Closes : close = <<p>>
  /\ \E cost \in ImportCosts :
       /\ ledger = <<Entry("cash", 1, 1, Opening, 0, 0), Entry("import", 1, 1, 0, 1, cost)>>
       /\ rows = [d \in Days |-> IF d = 1 THEN Row(Opening, 1, cost, <<cost>>, <<>>, <<>>) ELSE NoRow]
  /\ repair = NoRepair
  /\ rebuild = NoRebuild
  /\ recovery = NoRecovery
  /\ writes = 0
  /\ rewrites = 0
  /\ torn = {}
  /\ chained = {}

-----------------------------------------------------------------------------
(* Days and transactions.                                                  *)

TurnDay(p) ==
  /\ today < LastDate
  /\ today' = today + 1
  /\ close' = Append(close, p)
  /\ UNCHANGED <<ledger, rows, repair, rebuild, recovery, writes, rewrites, torn, chained>>

\* The form lets the user choose an earlier transaction_date.  The handler
\* checks the balance of now, not that of the date.
Enter(dated) ==
  LET enter(kind, cash, shares, price) ==
        ledger' = Append(ledger, Entry(kind, today, dated, cash, shares, price))
      held == Sum("shares", DOMAIN ledger)
  IN  /\ Len(ledger) < MaxEntries
      /\ dated <= today
      /\ \/ enter("cash", 1, 0, 0)
         \/ enter("trade", -close[dated], 1, close[dated]) /\ close[dated] <= Sum("cash", DOMAIN ledger)
         \/ enter("trade", held * close[dated], -held, 0) /\ held > 0
         \/ \E cost \in ImportCosts : enter("import", 0, 1, cost)
         \/ enter("dividend", 1, 0, 0)
      /\ UNCHANGED <<today, close, rows, repair, rebuild, recovery, writes, rewrites, torn, chained>>

-----------------------------------------------------------------------------
(* compute_period_metrics on the inputs each writer gives it.              *)

Before(date) == Max({d \in RowDates : d < date} \union {0})

RecordedIn(prev, date) ==
  {k \in DOMAIN ledger : prev < ledger[k].created /\ ledger[k].created <= date}

\* Mutant: the flows of a rebuilt period are those recorded in it.
DatedByRecord(prev, date, seen) ==
  {k \in 1..seen : prev < ledger[k].created /\ ledger[k].created <= date}

DatedIn(prev, date, seen) ==
  {k \in 1..seen : prev < ledger[k].dated /\ ledger[k].dated <= date}

\* lookup is the price at hand for imported shares, if there is one.
Flow(k, lookup) ==
  IF ledger[k].kind = "import"
  THEN ledger[k].shares * (IF lookup = <<>> THEN ledger[k].price ELSE lookup[1])
  ELSE IF ledger[k].kind = "cash" THEN ledger[k].cash ELSE 0

\* No return without an earlier value above zero.
Return(total, base, window, lookup) ==
  IF base = <<>> \/ base[1] <= 0
  THEN <<>>
  ELSE <<total - base[1] - SumFunction([k \in window |-> Flow(k, lookup)])>>

Base(prev) == IF prev = 0 THEN <<>> ELSE <<rows[prev].total>>

-----------------------------------------------------------------------------
(* generate_daily_snapshot; its own races are in SnapshotSeries.           *)

\* A snapshot of today, or of an earlier day generated again: either holds
\* what is owned now at the price of now.
TakeRow(date) ==
  LET prev   == Before(date)
      cash   == Sum("cash", DOMAIN ledger)
      shares == Sum("shares", DOMAIN ledger)
      price  == IF shares = 0 THEN <<>> ELSE <<close[today]>>
  IN  /\ date <= today
      /\ writes < MaxGenerations
      /\ writes' = writes + 1
      /\ rows' = [rows EXCEPT ![date] =
           Row(cash, shares, PaidFor(DOMAIN ledger, FALSE), price, Base(prev),
               Return(Value(cash, shares, price), Base(prev), RecordedIn(prev, date), price))]
      /\ torn' = torn \ {date}
      /\ chained' = {d \in chained : d < date}
      /\ UNCHANGED <<today, close, ledger, repair, rebuild, recovery, rewrites>>

-----------------------------------------------------------------------------
(* _compute_return_fields and _recover_one_portfolio.                      *)

\* The return of a row of total value total after the row prev, by the first
\* seen entries.
RecomputedReturn(total, base, prev, date, seen) ==
  Return(total, base, RecordedIn(prev, date) \intersect (1..seen), <<>>)

\* The session writes the columns that differ from what it loaded: the others
\* keep what somebody else has committed since.
Written(new, loaded, current) == IF new = loaded THEN current ELSE new

\* The base is that of the return that ends up in the column.
BaseOf(return, base, loaded, now) ==
  IF Written(return, loaded.return, now.return) = return THEN base ELSE now.base

\* The row before a date among rows that were loaded.
LoadedBefore(loaded, date) == Max({d \in Days : loaded[d].exists /\ d < date} \union {0})

RecoveryDates == {d \in Days : recovery.loaded[d].exists}

\* Each row's base is the value of the loaded row before; its values stay.
RecoveredRow(d, seen) ==
  LET loaded == recovery.loaded[d]
      prev   == LoadedBefore(recovery.loaded, d)
      base   == IF prev = 0 THEN <<>> ELSE <<recovery.loaded[prev].total>>
      return == RecomputedReturn(loaded.total, base, prev, d, seen)
  IN  [rows[d] EXCEPT !.base   = BaseOf(return, base, loaded, rows[d]),
                      !.return = Written(return, loaded.return, @)]

\* All rows are loaded by one query.
StartRecovery ==
  /\ rewrites < MaxRewrites
  /\ recovery = NoRecovery
  /\ rewrites' = rewrites + 1
  /\ recovery' = [loaded |-> rows, seen |-> Len(ledger)]
  /\ UNCHANGED <<today, close, ledger, rows, repair, rebuild, writes, torn, chained>>

\* Neither the row nor the one before it has been written since.
AsRecovered(d) ==
  LET prev == Before(d)
  IN  /\ rows[d] = recovery.loaded[d]
      /\ prev = LoadedBefore(recovery.loaded, d)
      /\ prev # 0 => rows[prev] = recovery.loaded[prev]

\* The ledger is queried in between, row by row; only the window of the day of
\* the recovery is open still.  Without autoflush nothing is written before the
\* commit.
FinishRecovery(seen) ==
  /\ seen \in recovery.seen..Len(ledger)
  /\ rows' = [d \in Days |-> IF d \in RecoveryDates THEN RecoveredRow(d, seen) ELSE rows[d]]
  /\ chained' = (chained \ RecoveryDates) \union {d \in RecoveryDates : AsRecovered(d)}
  /\ recovery' = NoRecovery
  /\ UNCHANGED <<today, close, ledger, repair, rebuild, writes, rewrites, torn>>

\* A dry run, or a failure, which rolls all of it back.
AbandonRecovery ==
  /\ recovery # NoRecovery
  /\ recovery' = NoRecovery
  /\ UNCHANGED <<today, close, ledger, rows, repair, rebuild, writes, rewrites, torn, chained>>

-----------------------------------------------------------------------------
(* repair_snapshots and _repair_one.                                       *)

\* holdings_json is one column.
Holdings(row) == [shares |-> row.shares, cost |-> row.cost, price |-> row.price]

\* detect_corrupted_snapshots: prices equal costs (and so the gain is zero), or
\* the value is more than 15 % off the mean of its neighbours.
Suspicious(date) ==
  LET row  == rows[date]
      next == Min({d \in RowDates : d > date} \union {LastDate + 1})
      OffTheMean(sum) == sum > 0 /\ 20 * Max({2 * row.total - sum, sum - 2 * row.total}) > 3 * sum
  IN  \/ row.cost > 0 /\ row.price # <<>> /\ row.shares * row.price[1] = row.cost
      \/ row.cost > 0 /\ row.price = <<>>
      \/ Before(date) > 0 /\ next <= LastDate /\ OffTheMean(rows[Before(date)].total + rows[next].total)

\* What the session of a repair holds of the rows of some dates.
Loaded(dates, table) == [d \in Days |-> IF d \in dates THEN table[d] ELSE NoRow]

\* known are the row objects the session has loaded and not expired: a query
\* gives such an object again and not what the table has.  A range is loaded at
\* once and its objects are held by the list; what a scan found is loaded row by
\* row, and nothing holds the objects.  ended, as history, are the rows repaired
\* so far.
StartRepair(dates, held) ==
  /\ rewrites < MaxRewrites
  /\ repair = NoRepair
  /\ dates # {}
  /\ rewrites' = rewrites + 1
  /\ repair' = [pending |-> dates, held |-> held, ended |-> {},
                known |-> Loaded(IF held THEN dates ELSE {}, rows)]
  /\ UNCHANGED <<today, close, ledger, rows, rebuild, recovery, writes, torn, chained>>

\* Mutant: the newest row of the range is repaired first.
NewestPending == Max(repair.pending)

Pending == Min(repair.pending)

\* The next row is loaded, and its prices are awaited.
RepairLoads ==
  /\ repair # NoRepair
  /\ ~repair.known[Pending].exists
  /\ repair' = [repair EXCEPT !.known[Pending] = rows[Pending]]
  /\ UNCHANGED <<today, close, ledger, rows, rebuild, recovery, writes, rewrites, torn, chained>>

\* A commit expires what the session has loaded, and the result of a repaired
\* row loads it again; a skipped row expires nothing.
KnownNext(ended) ==
  IF ~repair.held THEN Loaded({}, rows)
  ELSE IF ended = {} THEN repair.known
  ELSE Loaded(ended, rows')

RepairGoesOn(ended) ==
  LET left == repair.pending \ {Pending}
      done == repair.ended \union ended
  IN  IF left = {}
      THEN repair' = NoRepair
      ELSE repair' = [pending |-> left, held |-> repair.held, ended |-> done,
                      known |-> KnownNext(ended)]

\* No stored holdings, or no price for more than a tenth of them.
SkipRow ==
  /\ repair # NoRepair
  /\ repair.known[Pending].exists
  /\ RepairGoesOn({})
  /\ UNCHANGED <<today, close, ledger, rows, rebuild, recovery, writes, rewrites, torn, chained>>

HistoricalPrice(date) == close[date]

\* Mutant: the cash is that of the portfolio.
RepairCashNow(loaded) == Sum("cash", DOMAIN ledger)

RepairCash(loaded) == loaded.cash

\* A row as a query of the repair's session gives it.
InSession(date) == IF repair.known[date].exists THEN repair.known[date] ELSE rows[date]

\* The stored holdings are valued at the closing price of the row's date, the
\* stored cash is added but not written, and the return follows from the row
\* before, which is found in the table and read as the session has it.
RepairRow ==
  LET date   == Pending
      loaded == repair.known[date]
      price  == <<HistoricalPrice(date)>>
      total  == Value(RepairCash(loaded), loaded.shares, price)
      prev   == Before(date)
      base   == IF prev = 0 THEN <<>> ELSE <<InSession(prev).total>>
      return == RecomputedReturn(total, base, prev, date, Len(ledger))
      now    == rows[date]
  IN  /\ repair # NoRepair
      /\ loaded.exists
      /\ loaded.shares > 0
      /\ rows' = [rows EXCEPT ![date] =
           [now EXCEPT !.total    = Written(total, loaded.total, @),
                       !.invested = Written(loaded.cost, loaded.invested, @),
                       !.gain     = Written(Equity(loaded.shares, price) - loaded.cost, loaded.gain, @),
                       !.shares   = IF price = loaded.price THEN @ ELSE loaded.shares,
                       !.cost     = IF price = loaded.price THEN @ ELSE loaded.cost,
                       !.price    = Written(price, loaded.price, @),
                       !.base     = BaseOf(return, base, loaded, now),
                       !.return   = Written(return, loaded.return, @)]]
      /\ torn' = IF now = loaded THEN torn ELSE torn \union {date}
      /\ chained' = {d \in chained : d < date \/ d \in repair.ended}
                      \union {d \in {date} : now = loaded /\ (prev # 0 => InSession(prev) = rows[prev])}
      /\ RepairGoesOn({date})
      /\ UNCHANGED <<today, close, ledger, rebuild, recovery, writes, rewrites>>

-----------------------------------------------------------------------------
(* rebuild_portfolio, stages 2, 3 and the snapshots of stage 8.            *)

\* The rows are loaded and the prices downloaded for their dates.
StartRebuild(from) ==
  /\ rewrites < MaxRewrites
  /\ rebuild = NoRebuild
  /\ \E d \in RowDates : d >= from
  /\ rewrites' = rewrites + 1
  /\ rebuild' = [from |-> from, seen |-> Len(ledger), loaded |-> rows]
  /\ UNCHANGED <<today, close, ledger, rows, repair, recovery, writes, torn, chained>>

RebuildDates == {d \in rebuild.from..LastDate : rebuild.loaded[d].exists}

\* The ledger up to a date, of what was there when the rebuild began.
Upto(date, seen) == {k \in 1..seen : ledger[k].dated <= date}

\* Prices are downloaded for what is held in the end and for what the loaded
\* rows name.
PriceSought ==
  \/ Sum("shares", 1..rebuild.seen) > 0
  \/ \E d \in RebuildDates : rebuild.loaded[d].shares > 0

\* The closing price of a date for the symbols sought, unless it was not found.
DownloadedPrice(date, found) ==
  IF PriceSought /\ date \in found THEN <<close[date]>> ELSE <<>>

\* The validator reads the ledger again and blocks the commit when a sale
\* exceeds what was held or one day has two imports of the symbol.
ValidatorAccepts ==
  LET heldBefore(k) ==
        Sum("shares", {j \in DOMAIN ledger : ByDate(j, k)})
  IN  \A k \in DOMAIN ledger :
        /\ ledger[k].shares < 0 => heldBefore(k) + ledger[k].shares >= 0
        /\ ledger[k].kind = "import" =>
             \A j \in DOMAIN ledger : ledger[j].kind = "import" /\ ledger[j].dated = ledger[k].dated
                                        => j = k

\* The reconstructed day after the row before it in the rebuild, or after the
\* last one before its range.
RebuiltRow(date, found, earlier) ==
  LET seen   == rebuild.seen
      cash   == Sum("cash", Upto(date, seen))
      shares == Sum("shares", Upto(date, seen))
      price  == IF shares > 0 THEN DownloadedPrice(date, found) ELSE <<>>
      total  == Value(cash, shares, price)
  IN  Row(cash, shares, PaidFor(Upto(date, seen), TRUE), price, earlier.base,
          Return(total, earlier.base, DatedIn(earlier.date, date, seen), price))

\* The row the first one of a rebuild is measured from.
PriorRow ==
  LET prior == Max({d \in 1..(rebuild.from - 1) : rebuild.loaded[d].exists} \union {0})
  IN  [date |-> prior, base |-> IF prior = 0 THEN <<>> ELSE <<rebuild.loaded[prior].total>>,
       row  |-> NoRow]

\* The rebuilt rows, oldest first, each measured from the one before it; found
\* are the dates with a closing price.
RebuiltRows(found) ==
  LET built[d \in 0..LastDate] ==
        IF d = 0 THEN PriorRow
        ELSE IF d \notin RebuildDates THEN built[d - 1]
        ELSE LET row == RebuiltRow(d, found, built[d - 1])
             IN  [date |-> d, base |-> <<row.total>>, row |-> row]
  IN  [d \in RebuildDates |-> built[d].row]

Merged(new, loaded, now) ==
  [exists |-> TRUE,
   total  |-> Written(new.total, loaded.total, now.total),
   cash   |-> Written(new.cash, loaded.cash, now.cash),
   invested |-> Written(new.invested, loaded.invested, now.invested),
   gain   |-> Written(new.gain, loaded.gain, now.gain),
   shares |-> Written(Holdings(new), Holdings(loaded), Holdings(now)).shares,
   cost   |-> Written(Holdings(new), Holdings(loaded), Holdings(now)).cost,
   price  |-> Written(Holdings(new), Holdings(loaded), Holdings(now)).price,
   base   |-> BaseOf(new.return, new.base, loaded, now),
   return |-> Written(new.return, loaded.return, now.return)]

FinishRebuild(found) ==
  LET new   == RebuiltRows(found)
      stale == {d \in RebuildDates : rows[d] # rebuild.loaded[d]}
  IN  /\ ValidatorAccepts
      /\ rows' = [d \in Days |-> IF d \in RebuildDates
                                 THEN Merged(new[d], rebuild.loaded[d], rows[d])
                                 ELSE rows[d]]
      /\ torn' = (torn \ RebuildDates) \union stale
      /\ chained' = {d \in chained : d < rebuild.from}
      /\ rebuild' = NoRebuild
      /\ UNCHANGED <<today, close, ledger, repair, recovery, writes, rewrites>>

\* A dry run, a CRITICAL finding or a failed backup: nothing is written.
AbandonRebuild ==
  /\ rebuild # NoRebuild
  /\ rebuild' = NoRebuild
  /\ UNCHANGED <<today, close, ledger, rows, repair, recovery, writes, rewrites, torn, chained>>

-----------------------------------------------------------------------------

HistoryNext ==
  \/ \E p \in Closes : TurnDay(p)
  \/ \E d \in Days : Enter(d) \/ TakeRow(d) \/ StartRebuild(d)
  \/ StartRecovery
  \/ recovery # NoRecovery /\ \E seen \in 0..Len(ledger) : FinishRecovery(seen)
  \/ AbandonRecovery
  \/ \E from, to \in Days : StartRepair(RowDates \intersect (from..to), TRUE)
  \/ StartRepair({d \in RowDates : Suspicious(d)}, FALSE)
  \/ RepairLoads
  \/ SkipRow
  \/ RepairRow
  \/ rebuild # NoRebuild /\ \E found \in SUBSET RebuildDates : FinishRebuild(found)
  \/ AbandonRebuild

HistorySpec == HistoryInit /\ [][HistoryNext]_historyVars

-----------------------------------------------------------------------------
(* verify_snapshots, which only reads: its checks of a row by itself.  The *)
(* thresholds on what changes from row to row are left out.                *)

\* A holding without a price adds nothing to the sum of the gains.
HoldingsAudit(row) ==
  {f \in {"total_invested"} : row.invested # row.cost}
    \union {f \in {"total_value"} : row.total # Value(row.cash, row.shares, row.price)}
    \union {f \in {"unrealized_pnl"} :
              row.gain # IF row.price = <<>> THEN 0 ELSE Equity(row.shares, row.price) - row.cost}

PriceAudit(row) == {f \in {"price_missing"} : row.shares > 0 /\ row.price = <<>>}

RowAudit(row) == HoldingsAudit(row) \union PriceAudit(row)

VerifySnapshots == UNION {{<<d, f>> : f \in RowAudit(rows[d])} : d \in RowDates}

-----------------------------------------------------------------------------
(* Properties.                                                             *)

\* The audit complains of a row only for want of a price, whichever of the
\* writers touched it last: its value is its cash and its holdings at its
\* prices, and its sums are those of its holdings, unless the row was written
\* between the reading and the writing of a repair or a rebuild.  Then its
\* columns are of both.
RowsAddUp ==
  \A finding \in VerifySnapshots :
    LET d == finding[1]
    IN  \/ d \in torn
        \/ rows[d].price = <<>> /\ finding[2] \in {"unrealized_pnl", "price_missing"}

\* After a recovery, and within a range that was repaired, every return is
\* measured from the value that the row before it has, until a row is written
\* again, unless somebody else wrote the row or the one before it between the
\* reading and the writing: no other return refers to a value that is no longer
\* there.
RewrittenReturnsChain == \A d \in chained : rows[d].base = Base(Before(d))

\* What market and dividends earned between two dates by the ledger, imported
\* shares counting from the later date's price on.
Performance(prev, date, seen) ==
  LET earned(k) == IF ledger[k].kind = "trade"
                   THEN ledger[k].cash + ledger[k].shares * close[date]
                   ELSE IF ledger[k].kind = "dividend" THEN ledger[k].cash ELSE 0
      new == Upto(date, seen) \ Upto(prev, seen)
  IN  Sum("shares", Upto(prev, seen)) * (close[date] - close[prev])
        + SumFunction([k \in new |-> earned(k)])

\* The value of a date by the ledger.
LedgerValue(date, seen) ==
  Sum("cash", Upto(date, seen)) + Sum("shares", Upto(date, seen)) * close[date]

\* Shares were imported in a period and nothing is held at its end: there is no
\* price to strip them at but the recorded one.
SoldOff(prev, date, seen) ==
  /\ Sum("shares", Upto(date, seen)) = 0
  /\ \E k \in DatedIn(prev, date, seen) : ledger[k].kind = "import"

\* A rebuild that ends writes the return of every day as the ledger's
\* performance since the row before, entries with an earlier date counted where
\* they are dated, if the day's value is complete, the row before it had the
\* ledger's value when the rebuild began or was rebuilt with it, and imported
\* shares were not all sold again.
RebuiltReturnsArePerformance ==
  rebuild # NoRebuild /\ ValidatorAccepts =>
    LET new == RebuiltRows(1..today)
    IN  \A d \in RebuildDates :
          LET prev == Max({e \in 1..(d - 1) : rebuild.loaded[e].exists} \union {0})
          IN  /\ prev > 0
              /\ new[d].total = LedgerValue(d, rebuild.seen)
              /\ new[d].base = <<LedgerValue(prev, rebuild.seen)>>
              /\ new[d].base[1] > 0
              /\ ~SoldOff(prev, d, rebuild.seen)
              => new[d].return = <<Performance(prev, d, rebuild.seen)>>
=============================================================================

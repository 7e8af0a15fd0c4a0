--------------------------- MODULE SnapshotSeries ---------------------------
(***************************************************************************)
(* The series of daily snapshots of one portfolio and the returns computed *)
(* along it: generate_daily_snapshot (services/portfolio_snapshots.py) and *)
(* compute_period_metrics (services/portfolio_metrics.py), beside the      *)
(* handlers that record transactions and a market that moves.              *)
(*                                                                         *)
(* A snapshot reads cash and holdings, awaits the prices and then computes *)
(* its return from the previous snapshot: the change in value less what    *)
(* was put in from outside since.  What was put in is found by the day on  *)
(* which a transaction was recorded (created_at), from the day after the   *)
(* previous snapshot to the day of this one.                               *)
(*                                                                         *)
(* One symbol stands for all holdings, and a trade is made at the market   *)
(* price without fees.  Cash and holdings change by transactions only, and *)
(* the share change of a correction is the one its note carries.           *)
(***************************************************************************)
EXTENDS Integers, Sequences, FiniteSets, FiniteSetsExt, Functions

CONSTANTS Generations, \* snapshot generations that may overlap
          Prices,      \* market prices
          Costs,       \* what callers say imported shares cost
          CashMoves,   \* amounts deposited (positive) and withdrawn (negative)
          ShareMoves,  \* shares bought and sold, and corrected by
          StartCash,   \* cash and shares from the time before the first
          StartShares, \*   snapshot
          MaxDay,      \* bound: days
          MaxTxs,      \* bound: transactions recorded
          MaxWrites    \* bound: snapshots written

ASSUME SeriesAssumption ==
  /\ Prices # {} /\ Prices \subseteq Nat \ {0}
  /\ Costs \subseteq Nat \ {0}
  /\ CashMoves \subseteq Int
  /\ ShareMoves \subseteq Int
  /\ StartCash \in Nat
  /\ StartShares \in Nat
  /\ MaxDay \in Nat \ {0}
  /\ MaxTxs \in Nat
  /\ MaxWrites \in Nat

VARIABLES day,       \* the current day, 1..MaxDay
          price,     \* the market price
          cash,      \* Portfolio.cash_balance
          shares,    \* PortfolioItem.shares, 0 without a row
          held,      \* whether there is a PortfolioItem row
          txs,       \* transactions recorded since the first day
          gain,      \* history: what market and dividends have earned so far
          snapshots, \* portfolio_snapshots by date
          reading,   \* snapshots whose prices are being fetched
          written    \* number of snapshots written

seriesVars == <<day, price, cash, shares, held, txs, gain, snapshots, reading, written>>

Dates == 1..MaxDay

FlowKinds == {"cash", "import", "correction"}
Kinds     == FlowKinds \union {"trade", "dividend"}

\* No return depends on the price_per_share of other kinds than imports and
\* corrections.
NoPrice == 0

\* cash and shares are signed; price is price_per_share, which for imports and
\* corrections is what the caller says it was; market, as history, is the
\* market price at that moment.
TxRecord == [kind : Kinds, day : Dates, cash : Int, shares : Int,
             price : Costs \union {NoPrice}, market : Prices \union {NoPrice}]

\* What the first half of a generation reads and on which day; seen, as
\* history, is the number of transactions that contains.
Reading == [cash : Int, shares : Int, held : BOOLEAN, on : Dates, seen : Nat]

\* That reading valued; fetched is the fetched price, if there was a row to
\* fetch it for.  price, gain and known, as history, are the market price, the
\* gain and the number of transactions when it arrived.
Valuation ==
  [nav : Int, fetched : {<<>>} \union {<<p>> : p \in Prices}, on : Dates, seen : Nat,
   price : Prices, gain : Int, known : Nat]

NoSnapshot == [exists |-> FALSE]

NotReading == [date |-> 0]

SeriesInit ==
  /\ day = 1
  /\ price \in Prices
  /\ cash = StartCash
  /\ shares = StartShares
  /\ held = (StartShares > 0)
  /\ txs = <<>>
  /\ gain = 0
  /\ snapshots = [d \in Dates |-> NoSnapshot]
  /\ reading = [r \in Generations |-> NotReading]
  /\ written = 0

-----------------------------------------------------------------------------
(* The rest of the system: time, the market and recorded transactions.     *)

NextDay ==
  /\ day < MaxDay
  /\ day' = day + 1
  /\ UNCHANGED <<price, cash, shares, held, txs, gain, snapshots, reading, written>>

MarketMoves(p) ==
  /\ p # price
  /\ price' = p
  /\ gain' = gain + (p - price) * shares
  /\ UNCHANGED <<day, cash, shares, held, txs, snapshots, reading, written>>

RecordTx(kind, dCash, dShares, p) ==
  /\ Len(txs) < MaxTxs
  /\ txs' = Append(txs, [kind |-> kind, day |-> day, cash |-> dCash,
                         shares |-> dShares, price |-> p,
                         market |-> IF p = NoPrice THEN NoPrice ELSE price])
  /\ cash' = cash + dCash
  /\ shares' = shares + dShares
  /\ UNCHANGED <<day, price, snapshots, reading, written>>

\* DEPOSIT, INITIAL_CASH and WITHDRAW.
MoveExternalCash(a) ==
  /\ cash + a >= 0
  /\ RecordTx("cash", a, 0, NoPrice)
  /\ UNCHANGED <<held, gain>>

ImportShares(n, cost) ==
  /\ RecordTx("import", 0, n, cost)
  /\ held' = TRUE
  /\ UNCHANGED gain

\* The row stays even when nothing is left.
CorrectShares(delta, cost) ==
  /\ held
  /\ shares + delta >= 0
  /\ RecordTx("correction", 0, delta, cost)
  /\ UNCHANGED <<held, gain>>

Buy(n) == RecordTx("trade", -n * price, n, NoPrice) /\ held' = TRUE /\ UNCHANGED gain

Sell(n, removeIfZero) ==
  /\ held
  /\ n <= shares
  /\ RecordTx("trade", n * price, -n, NoPrice)
  /\ held' = ~(n = shares /\ removeIfZero)
  /\ UNCHANGED gain

PayDividend(a) ==
  /\ RecordTx("dividend", a, 0, NoPrice)
  /\ gain' = gain + a
  /\ UNCHANGED held

-----------------------------------------------------------------------------
(* compute_period_metrics                                                  *)

\* price_lookup falls back to the transaction's own price.
FlowPrice(tx, fetched) == IF fetched = <<>> THEN tx.price ELSE fetched[1]

\* Mutant: a correction is stripped by its size, whichever way it went.
FlowValueUnsigned(tx, fetched) ==
  CASE tx.kind = "cash"       -> tx.cash
    [] tx.kind = "import"     -> tx.shares * FlowPrice(tx, fetched)
    [] tx.kind = "correction" -> (IF tx.shares < 0 THEN -tx.shares ELSE tx.shares)
                                   * FlowPrice(tx, fetched)
    [] OTHER                  -> 0

\* What a transaction put in from outside, its shares at the snapshot's price.
FlowValue(tx, fetched) ==
  CASE tx.kind = "cash"                     -> tx.cash
    [] tx.kind \in {"import", "correction"} -> tx.shares * FlowPrice(tx, fetched)
    [] OTHER                                -> 0

InvestmentReturn(nav, prevNav, window, fetched) ==
  IF prevNav > 0
  THEN <<nav - prevNav - SumFunction([k \in window |-> FlowValue(txs[k], fetched)])>>
  ELSE <<>>

-----------------------------------------------------------------------------
(* generate_daily_snapshot                                                 *)

\* The date of the latest earlier snapshot, 0 without one.
Previous(date) == Max({d \in 1..(date - 1) : snapshots[d].exists} \union {0})

\* Transactions recorded after the day prev and up to the end of the day date.
Window(prev, date) ==
  {k \in DOMAIN txs : prev < txs[k].day /\ txs[k].day <= date}

ReadingNow ==
  [cash |-> cash, shares |-> shares, held |-> held, on |-> day, seen |-> Len(txs)]

\* The prices have arrived.  base is the valuation of the snapshot at date prev,
\* if there is one.
Store(date, read) ==
  LET fetched  == IF read.held THEN <<price>> ELSE <<>>
      value    == [nav |-> read.cash + read.shares * price, fetched |-> fetched,
                   on |-> read.on, seen |-> read.seen,
                   price |-> price, gain |-> gain, known |-> Len(txs)]
      prev     == Previous(date)
      base     == IF prev = 0 THEN <<>> ELSE <<snapshots[prev].value>>
      stripped == IF prev = 0 THEN {} ELSE Window(prev, date)
  IN  /\ written' = written + 1
      /\ snapshots' = [snapshots EXCEPT ![date] =
           [exists   |-> TRUE,
            value    |-> value,
            prev     |-> prev,
            base     |-> base,
            stripped |-> stripped,
            return   |->
              IF prev = 0
              THEN <<>>
              ELSE InvestmentReturn(value.nav, base[1].nav, stripped, fetched)]]

\* A request for the snapshot of today or of an earlier day.
StartSnapshot(r, date) ==
  /\ reading[r] = NotReading
  /\ held
  /\ date <= day
  /\ reading' = [reading EXCEPT ![r] = [date |-> date, read |-> ReadingNow]]
  /\ UNCHANGED <<day, price, cash, shares, held, txs, gain, snapshots, written>>

FinishSnapshot(r) ==
  /\ reading[r] # NotReading
  /\ Store(reading[r].date, reading[r].read)
  /\ reading' = [reading EXCEPT ![r] = NotReading]
  /\ UNCHANGED <<day, price, cash, shares, held, txs, gain>>

\* Too few prices were found (SnapshotCoverageError).
AbandonSnapshot(r) ==
  /\ reading[r] # NotReading
  /\ reading' = [reading EXCEPT ![r] = NotReading]
  /\ UNCHANGED <<day, price, cash, shares, held, txs, gain, snapshots, written>>

\* Without holdings there is nothing to await.
SnapshotAtOnce(date) ==
  /\ ~held
  /\ date <= day
  /\ Store(date, ReadingNow)
  /\ UNCHANGED <<day, price, cash, shares, held, txs, gain, reading>>

-----------------------------------------------------------------------------

Market == NextDay \/ \E p \in Prices : MarketMoves(p)

Record ==
  \/ \E a \in CashMoves : MoveExternalCash(a)
  \/ \E n \in ShareMoves, cost \in Costs : CorrectShares(n, cost)
  \/ \E n \in {m \in ShareMoves : m > 0} :
       \/ \E cost \in Costs : ImportShares(n, cost)
       \/ Buy(n)
       \/ \E remove \in BOOLEAN : Sell(n, remove)
  \/ \E a \in {b \in CashMoves : b > 0} : PayDividend(a)

Generate ==
  \/ \E date \in Dates : SnapshotAtOnce(date)
  \/ \E r \in Generations : \/ \E date \in Dates : StartSnapshot(r, date)
                         \/ FinishSnapshot(r)
                         \/ AbandonSnapshot(r)

\* The bound MaxWrites ends a behaviour: what happens after the last snapshot
\* was written is in none.
SeriesNext == written < MaxWrites /\ (Market \/ Record \/ Generate)

SeriesSpec == SeriesInit /\ [][SeriesNext]_seriesVars

-----------------------------------------------------------------------------
(* Properties.                                                             *)

SeriesTypeOK ==
  /\ day \in Dates
  /\ price \in Prices
  /\ {cash, shares, gain} \subseteq Int
  /\ held \in BOOLEAN /\ (shares > 0 => held)
  /\ written \in 0..MaxWrites
  /\ \A k \in DOMAIN txs : txs[k] \in TxRecord
  /\ \A d \in {e \in Dates : snapshots[e].exists} :
       /\ snapshots[d].value \in Valuation
       /\ snapshots[d].prev \in 0..(d - 1)
       /\ Len(snapshots[d].base) = (IF snapshots[d].prev = 0 THEN 0 ELSE 1)
       /\ Range(snapshots[d].base) \subseteq Valuation
       /\ Range(snapshots[d].return) \subseteq Int
       /\ snapshots[d].stripped \subseteq 1..snapshots[d].value.known
  /\ \A r \in Generations : reading[r] # NotReading =>
       reading[r].date \in Dates /\ reading[r].read \in Reading

Returned(d) == snapshots[d].exists /\ snapshots[d].return # <<>>

\* Taken on its day, with nothing recorded between its reading and its writing.
TakenAtOnce(value, d) == value.on = d /\ value.known = value.seen

\* Recorded on the day of a reading but after it: too late for that day's
\* snapshot and too early for the next one's window.
LateFor(value) == {k \in DOMAIN txs : k > value.seen /\ txs[k].day <= value.on}

\* What the assets have earned between two readings, without what imported
\* shares gained before the second: those count from its price on.
Earned(from, to) ==
  LET before(k) == FlowValue(txs[k], <<to.price>>) - FlowValue(txs[k], <<txs[k].market>>)
  IN  to.gain - from.gain - SumFunction([k \in (from.seen + 1)..to.seen |-> before(k)])

\* Shares came in since the one reading and at the other there is no row to
\* fetch a price for: they are stripped at the price they were recorded with.
SoldAfterImport(from, to) ==
  /\ to.fetched = <<>>
  /\ \E k \in (from.seen + 1)..to.seen : txs[k].kind \in {"import", "correction"}

\* A return is what market, trades and dividends earned since the previous
\* snapshot, whatever was deposited, withdrawn, imported or corrected in
\* between and whatever days have no snapshot, if both were taken at once on
\* their day, nothing was recorded on the previous one's day after it, and
\* imported shares were not all sold again: no deposit shows up as a gain and
\* no gain is lost.
ReturnIsPerformance ==
  \A d \in Dates :
    LET s    == snapshots[d]
        base == s.base[1]
    IN  Returned(d) /\ TakenAtOnce(s.value, d)
          /\ TakenAtOnce(base, s.prev) /\ LateFor(base) = {}
          /\ ~SoldAfterImport(base, s.value)
        => s.return = <<Earned(base, s.value)>>

\* Every snapshot's previous one is still the one before it in the series.
Chained ==
  \A d \in Dates : snapshots[d].exists => snapshots[d].prev = Previous(d)

\* No flow is stripped from two returns, however often days are generated
\* again, unless a snapshot was put before one that existed already.
FlowsStrippedOnce ==
  Chained => \A d, e \in Dates :
    d # e /\ snapshots[d].exists /\ snapshots[e].exists
      => snapshots[d].stripped \intersect snapshots[e].stripped = {}

\* Along the series every flow is stripped once and nothing else is.
ReturnsStripFlows == SeriesTypeOK /\ ReturnIsPerformance /\ FlowsStrippedOnce
=============================================================================

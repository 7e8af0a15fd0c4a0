----------------------------- MODULE LiveLedger -----------------------------
(***************************************************************************)
(* The web process's transaction handlers for one portfolio                *)
(* (services/portfolio_transactions.py behind the endpoints of main.py).   *)
(*                                                                         *)
(* The process is one asyncio event loop, so the code between two awaits   *)
(* is one step.  A handler that must fetch a sector awaits in the middle:  *)
(* it loads its Portfolio row, lets other requests run, and then executes  *)
(* with the cash_balance it loaded, since the session's identity map does  *)
(* not refresh a loaded row.  Holdings are queried after the await.        *)
(*                                                                         *)
(* Whether a sector is known without a fetch depends on caches outside     *)
(* this module, so a handler that may await is free to or not to.          *)
(*                                                                         *)
(* Inputs: the Quantities and Amounts clients send and the Days they date  *)
(* a transaction with.                                                     *)
(***************************************************************************)
EXTENDS LedgerReplay

CONSTANTS Clients,      \* concurrent requests that may wait for a sector
          Quantities,
          Amounts,
          Days,
          MaxLedger     \* bound: transactions a behaviour may record

ASSUME InputAssumption ==
  /\ Quantities \subseteq Nat \ {0}
  /\ Amounts \subseteq Nat \ {0}
  /\ Days \subseteq Nat
  /\ MaxLedger \in Nat

VARIABLES ledger,    \* the transactions table of the portfolio
          cash,      \* Portfolio.cash_balance
          items,     \* symbols with a portfolio_items row
          shares,    \* PortfolioItem.shares, 0 without a row
          pending,   \* requests suspended in await _fetch_sector
          taints     \* history: what happened that replay cannot reproduce

vars == <<ledger, cash, items, shares, pending, taints>>

Idle == [op |-> "idle", symbol |-> NoSymbol, cash |-> 0]

Request == {Idle} \union [op : {"buy", "import"}, symbol : Symbols, cash : Int]

\* Things the code lets happen after which the stored state and a replay of
\* the ledger may part: see the actions that add each.
CashTaints    == {"stale_cash", "cash_edit"}
HoldingTaints == {"backdated", "row_deleted", "sign_lost", "zero_row"}
Taints        == CashTaints \union HoldingTaints \union {"dust"}

Init ==
  /\ ledger = <<>>
  /\ cash = 0
  /\ items = {}
  /\ shares = [s \in Symbols |-> 0]
  /\ pending = [c \in Clients |-> Idle]
  /\ taints = {}

-----------------------------------------------------------------------------
(* Recording a transaction: every execute_* ends in one INSERT and commit. *)

\* A position is left open that the validator takes for closed.
LeavesDust(left) == 0 < left /\ left <= Dust

Backdated(day) == \E i \in DOMAIN ledger : day < ledger[i].date

Record(type, s, n, delta, a, day, newTaints) ==
  /\ Len(ledger) < MaxLedger
  /\ ledger' = Append(ledger, [type |-> type, symbol |-> s, shares |-> n,
                               delta |-> delta, amount |-> a, date |-> day])
  /\ taints' = taints \union newTaints
                      \union {t \in {"backdated"} : Backdated(day)}

AddShares(s, n) ==
  /\ items' = items \union {s}
  /\ shares' = [shares EXCEPT ![s] = @ + n]

\* execute_buy, with the cash balance its session holds.
ExecuteBuy(s, n, a, day, loadedCash) ==
  /\ AddShares(s, n)
  /\ cash' = loadedCash - a
  /\ Record("BUY", s, n, 0, a, day, {t \in {"stale_cash"} : loadedCash # cash})

ExecuteInitialPosition(s, n, a, day) ==
  /\ AddShares(s, n)
  /\ Record("INITIAL_POSITION", s, n, 0, a, day, {})
  /\ UNCHANGED cash

\* The cash handlers: execute_deposit, execute_dividend, execute_initial_cash.
ExecuteInflow(type, s, a, day) ==
  /\ cash' = cash + a
  /\ Record(type, s, 0, 0, a, day, {})
  /\ UNCHANGED <<items, shares>>

-----------------------------------------------------------------------------
(* POST .../transactions/buy and /initial-position, POST .../holdings      *)

BuyAtOnce(s, n, a, day) ==
  /\ ExecuteBuy(s, n, a, day, cash)
  /\ UNCHANGED pending

ImportAtOnce(s, n, a, day) ==
  /\ ExecuteInitialPosition(s, n, a, day)
  /\ UNCHANGED pending

Suspend(c, op, s) ==
  /\ pending[c] = Idle
  /\ pending' = [pending EXCEPT ![c] = [op |-> op, symbol |-> s, cash |-> cash]]
  /\ UNCHANGED <<ledger, cash, items, shares, taints>>

StartBuy(c, s) == Suspend(c, "buy", s)

StartImport(c, s) == Suspend(c, "import", s)

\* add_holding always awaits the price and refuses a symbol it already sees.
StartAddHolding(c, s) == s \notin items /\ Suspend(c, "import", s)

Resume(c) == pending' = [pending EXCEPT ![c] = Idle]

FinishBuy(c, n, a, day) ==
  /\ pending[c].op = "buy"
  /\ ExecuteBuy(pending[c].symbol, n, a, day, pending[c].cash)
  /\ Resume(c)

FinishImport(c, n, a, day) ==
  /\ pending[c].op = "import"
  /\ ExecuteInitialPosition(pending[c].symbol, n, a, day)
  /\ Resume(c)

-----------------------------------------------------------------------------
(* Handlers without an await.                                              *)

\* Mutant: any open position may be sold from.
CoversAnySale(s, n) == shares[s] > 0

\* The oversell guard of execute_sell.
CoversSale(s, n) == n <= shares[s] + SellTolerance

\* A row is deleted when nothing is left, unless the caller wants it kept.
Sell(s, n, a, day, removeIfZero) ==
  LET left    == shares[s] - n
      deleted == left <= 0 /\ removeIfZero
  IN  /\ s \in items
      /\ CoversSale(s, n)
      /\ items' = IF deleted THEN items \ {s} ELSE items
      /\ shares' = [shares EXCEPT ![s] = IF deleted THEN 0 ELSE left]
      /\ cash' = cash + a
      /\ Record("SELL", s, n, 0, a, day,
                {t \in {"zero_row"} : left <= 0 /\ ~removeIfZero}
                  \union {t \in {"dust"} : LeavesDust(left)})
      /\ UNCHANGED pending

Deposit(a, day) == ExecuteInflow("DEPOSIT", NoSymbol, a, day) /\ UNCHANGED pending

Dividend(s, a, day) == ExecuteInflow("DIVIDEND", s, a, day) /\ UNCHANGED pending

InitialCash(a, day) ==
  ExecuteInflow("INITIAL_CASH", NoSymbol, a, day) /\ UNCHANGED pending

Withdraw(a, day) ==
  /\ cash - a >= 0
  /\ cash' = cash - a
  /\ Record("WITHDRAW", NoSymbol, 0, 0, a, day, {})
  /\ UNCHANGED <<items, shares, pending>>

\* The row stays even when it is corrected to zero.  The ledger stores the
\* size of the correction; its sign is in the default note only, so a caller's
\* own note turns a reduction into an addition for the canonicalizer.
QuantityCorrection(s, delta, a, day, ownNote) ==
  LET size     == IF delta < 0 THEN -delta ELSE delta
      signLost == ownNote /\ delta < 0
      new      == shares[s] + delta
  IN  /\ s \in items
      /\ new >= 0
      /\ shares' = [shares EXCEPT ![s] = new]
      /\ Record("QUANTITY_CORRECTION", s, size, IF ownNote THEN size ELSE delta,
                a, day, {t \in {"sign_lost"} : signLost}
                          \union {t \in {"zero_row"} : new = 0}
                          \union {t \in {"dust"} : LeavesDust(new)})
      /\ UNCHANGED <<cash, items, pending>>

\* PATCH .../cash: the balance is set without a transaction.
UpdateCash(v) ==
  /\ cash' = IF v > 0 THEN v ELSE 0
  /\ taints' = taints \union {"cash_edit"}
  /\ UNCHANGED <<ledger, items, shares, pending>>

\* DELETE .../holdings/{symbol}: the row goes without a transaction.
RemoveHolding(s) ==
  /\ s \in items
  /\ items' = items \ {s}
  /\ shares' = [shares EXCEPT ![s] = 0]
  /\ taints' = taints \union {"row_deleted"}
  /\ UNCHANGED <<ledger, cash, pending>>

-----------------------------------------------------------------------------

Trade(s, n, a, day) ==
  \/ BuyAtOnce(s, n, a, day)
  \/ ImportAtOnce(s, n, a, day)
  \/ \E remove \in BOOLEAN : Sell(s, n, a, day, remove)
  \/ \E delta \in {n, -n}, ownNote \in BOOLEAN :
       QuantityCorrection(s, delta, a, day, ownNote)

MoveCash(a, day) ==
  \/ Deposit(a, day)
  \/ Withdraw(a, day)
  \/ InitialCash(a, day)
  \/ \E s \in Symbols \union {NoSymbol} : Dividend(s, a, day)

Suspended(c) ==
  \/ \E s \in Symbols : StartBuy(c, s) \/ StartImport(c, s) \/ StartAddHolding(c, s)
  \/ \E n \in Quantities, a \in Amounts, day \in Days :
       FinishBuy(c, n, a, day) \/ FinishImport(c, n, a, day)

Edit ==
  \/ \E v \in Amounts \union {0} : UpdateCash(v)
  \/ \E s \in Symbols : RemoveHolding(s)

Next ==
  \/ \E s \in Symbols, n \in Quantities, a \in Amounts, day \in Days : Trade(s, n, a, day)
  \/ \E a \in Amounts, day \in Days : MoveCash(a, day)
  \/ \E c \in Clients : Suspended(c)
  \/ Edit

Spec == Init /\ [][Next]_vars

-----------------------------------------------------------------------------
(* What the audits say of the stored portfolio.  An amount of one is more  *)
(* than the tolerances of the cash checks, 0.10 and 1.0 THB.               *)

\* The findings of GET /admin/validate-portfolio; the comparison with prices
\* never makes the report fail, and that of notes is about their wording.
AuditFindings ==
  {f \in {"cash_ledger"} : cash # LedgerCash(ledger)}
    \union {f \in {"negative_shares"} : \E s \in items : shares[s] <= 0}

\* The validator's CASH_MISMATCH, and the symbols of its HOLDINGS_MISMATCHes with
\* the state its replay ends in.
CashMismatch == cash # ReplayOf(ledger, {}).cash

DriftedSymbols ==
  LET ids == DOMAIN ledger
  IN  HoldingsMismatches(items, shares,
        ValidatorHeld(InReplayOrder(ledger, ids))[Cardinality(ids)])

-----------------------------------------------------------------------------
(* Properties.                                                             *)

\* None of the kinds has happened.
Untouched(kinds) == taints \intersect kinds = {}

TypeOK ==
  /\ ledger \in Seq(Transaction)
  /\ cash \in Int
  /\ items \subseteq Symbols
  /\ shares \in [Symbols -> Int]
  /\ pending \in [Clients -> Request]
  /\ taints \subseteq Taints

\* The cash balance stored by the handlers is the one the rebuilder replays
\* from the ledger, whatever the interleaving of the requests and however the
\* transactions are dated, unless a BUY wrote over a balance it had loaded
\* before another request changed it, or the balance was edited directly.
CashMatchesReplay ==
  Untouched(CashTaints) => cash = ReplayOf(ledger, {}).cash

\* The holdings stored by the handlers are the ones the rebuilder replays,
\* even when requests overlap and balances are lost, unless a transaction was
\* backdated, a holding was deleted directly, a correction's sign was lost or
\* a row was kept with no shares in it.
HoldingsMatchReplay ==
  Untouched(HoldingTaints) =>
    \A s \in Symbols : shares[s] = ReplayOf(ledger, {}).held[Canonical[s]]

\* No order of requests, corrections and deletions takes a position short by
\* more than the tolerance of one sale: the oversell guard never accumulates.
NeverShort ==
  \A s \in Symbols : /\ shares[s] >= -SellTolerance
                     /\ s \notin items => shares[s] = 0

\* The validator raises no CRITICAL finding on a ledger that the handlers
\* wrote in its replay of it, unless one of the holding taints occurred or a
\* sale left dust: the rebuild gate does not lock out a portfolio that was used
\* as intended.  (Two imports of one symbol on one day are a finding the
\* handlers do not prevent, so only the replay findings are claimed.)
ReplayableLedger ==
  Untouched(HoldingTaints \union {"dust"}) =>
    ReplayFindings(ledger, DOMAIN ledger) = {}

\* The two audits of the stored portfolio never contradict each other about
\* cash, though one adds up what the other replays in the order of dates, and
\* neither complains of a portfolio that was used as intended.
AuditsPass ==
  /\ "cash_ledger" \in AuditFindings <=> CashMismatch
  /\ Untouched(CashTaints) => "cash_ledger" \notin AuditFindings
  /\ Untouched(HoldingTaints) => "negative_shares" \notin AuditFindings
  /\ Untouched(HoldingTaints \union {"dust"}) => DriftedSymbols = {}

\* What the handlers store and what the rebuilder, the validator and the audits
\* make of the ledger are the same portfolio: cash, holdings, no CRITICAL finding
\* and no drift, each up to the events that its part names.
PortfolioMatchesReplay ==
  CashMatchesReplay /\ HoldingsMatchReplay /\ ReplayableLedger /\ AuditsPass

-----------------------------------------------------------------------------
(* What the documentation says and the code does not do.                   *)

Recorded(type) ==
  /\ Len(ledger') = Len(ledger) + 1
  /\ ledger'[Len(ledger')].type = type

\* A BUY lowers the stored cash balance by what it cost.  It does not when
\* another request committed while the BUY waited for its sector.
BuyReducesCash ==
  [][Recorded("BUY") => cash' = cash - ledger'[Len(ledger')].amount]_vars
=============================================================================

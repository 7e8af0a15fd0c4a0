---------------------------- MODULE LedgerReplay ----------------------------
(***************************************************************************)
(* The transaction ledger of one portfolio and the two replay engines that *)
(* interpret it: the rebuilder's (portfolio_rebuilder._apply_transaction)  *)
(* and the validator's (ledger_validator._replay_and_check).               *)
(*                                                                         *)
(* A ledger is a sequence of transactions in commit order; the position of *)
(* a transaction is its database id.  Shares are counted in the quantum of *)
(* Transaction.shares, money in one unit.  Average cost, sector, fees and  *)
(* realized P&L ride along in the code and are left out here: no guard and *)
(* no share count or cash balance depends on them.                         *)
(***************************************************************************)
EXTENDS Integers, Sequences, FiniteSets

CONSTANTS Symbols,        \* ticker symbols, as stored and as resolved
          NoSymbol,       \* Transaction.symbol of a cash-only transaction
          Canonical,      \* get_yfinance_symbol, which need not be idempotent
          SellTolerance,  \* shares a SELL may exceed the holding by (0.0001)
          Dust            \* the validator's share tolerance (0.001)

ASSUME CanonicalAssumption == Canonical \in [Symbols -> Symbols]
ASSUME NoSymbolAssumption  == NoSymbol \notin Symbols
ASSUME ToleranceAssumption ==
  /\ SellTolerance \in Nat
  /\ Dust \in Nat
  /\ SellTolerance <= Dust

CashTypes     == {"DEPOSIT", "WITHDRAW", "DIVIDEND", "INITIAL_CASH"}
PositionTypes == {"BUY", "SELL", "INITIAL_POSITION", "QUANTITY_CORRECTION"}

\* One row of the transactions table, after the canonicalizer has parsed it:
\* delta is the signed share change of a QUANTITY_CORRECTION.
Transaction ==
  [type   : CashTypes \union PositionTypes,
   symbol : Symbols \union {NoSymbol},
   shares : Nat,
   delta  : Int,
   amount : Nat,
   date   : Nat]

FloorAtZero(n) == IF n > 0 THEN n ELSE 0

-----------------------------------------------------------------------------
(* What one transaction does to the replayed portfolio.                    *)

CashEffect(tx) ==
  CASE tx.type \in {"DEPOSIT", "INITIAL_CASH", "DIVIDEND", "SELL"} -> tx.amount
    [] tx.type \in {"WITHDRAW", "BUY"}                             -> -tx.amount
    [] OTHER                                                       -> 0

\* Mutant: an import replaces the position instead of adding to it.
HeldAfterReplacingImport(held, tx) ==
  CASE tx.type = "BUY"                 -> held + tx.shares
    [] tx.type = "INITIAL_POSITION"    -> tx.shares
    [] tx.type = "SELL"                -> FloorAtZero(held - tx.shares)
    [] tx.type = "QUANTITY_CORRECTION" ->
         IF held = 0 THEN 0 ELSE FloorAtZero(held + tx.delta)
    [] OTHER                           -> held

\* A holding of no shares is an absent holding: the rebuilder deletes a
\* position that reaches zero, ignores a SELL of an absent one (the cash still
\* arrives) and skips a correction of an absent one.
HeldAfter(held, tx) ==
  CASE tx.type \in {"BUY", "INITIAL_POSITION"} -> held + tx.shares
    [] tx.type = "SELL"                        -> FloorAtZero(held - tx.shares)
    [] tx.type = "QUANTITY_CORRECTION"         ->
         IF held = 0 THEN 0 ELSE FloorAtZero(held + tx.delta)
    [] OTHER                                   -> held

EmptyPortfolio == [cash |-> 0, held |-> [s \in Symbols |-> 0]]

ApplyTransaction(p, tx) ==
  [cash |-> p.cash + CashEffect(tx),
   held |-> [s \in Symbols |->
               IF tx.symbol \in Symbols /\ s = Canonical[tx.symbol]
               THEN HeldAfter(p.held[s], tx)
               ELSE p.held[s]]]

\* The portfolio after every transaction of a sequence.
Replay(txs) ==
  LET after[n \in 0..Len(txs)] ==
        IF n = 0 THEN EmptyPortfolio ELSE ApplyTransaction(after[n - 1], txs[n])
  IN  after[Len(txs)]

\* Replay order: by transaction date, and by id on one day.
Earlier(ledger, i, j) ==
  \/ ledger[i].date < ledger[j].date
  \/ ledger[i].date = ledger[j].date /\ i < j

Preceding(ledger, ids, i) == {j \in ids : Earlier(ledger, j, i)}

\* A transaction is replayed after as many as precede it.  (The empty tail has
\* TLC compute the sequence once.)
InReplayOrder(ledger, ids) ==
  [k \in 1..Cardinality(ids) |->
     ledger[CHOOSE i \in ids : Cardinality(Preceding(ledger, ids, i)) = k - 1]] \o <<>>

\* The portfolio the rebuilder derives from the transactions that no repair
\* excludes.
ReplayOf(ledger, excluded) ==
  Replay(InReplayOrder(ledger, DOMAIN ledger \ excluded))

-----------------------------------------------------------------------------
(* The validator: its own replay, keyed by the symbol as it was stored and *)
(* with its own tolerance, and the CRITICAL findings it makes on the way.  *)

\* Sells and corrections that leave no more than Dust close the position.
WithoutDust(n) == IF n > Dust THEN n ELSE 0

ValidatorHeldAfter(held, tx) ==
  CASE tx.type \in {"BUY", "INITIAL_POSITION"}    -> held + tx.shares
    [] tx.type = "SELL" /\ held > 0               -> WithoutDust(held - tx.shares)
    [] tx.type = "QUANTITY_CORRECTION" /\ held > 0 -> WithoutDust(held + tx.delta)
    [] OTHER                                      -> held

NothingHeld == [s \in Symbols |-> 0]

ValidateTransaction(held, tx) ==
  [s \in Symbols |-> IF s = tx.symbol THEN ValidatorHeldAfter(held[s], tx) ELSE held[s]]

\* Shares of every stored symbol after so many transactions of a sequence.
ValidatorHeld(txs) ==
  LET after[n \in 0..Len(txs)] ==
        IF n = 0 THEN NothingHeld ELSE ValidateTransaction(after[n - 1], txs[n])
  IN  after

SellWithoutHolding(tx, held) == tx.type = "SELL" /\ held = 0

NegativeBalance(tx, held) ==
  /\ tx.type \in {"SELL", "QUANTITY_CORRECTION"}
  /\ held > 0
  /\ (IF tx.type = "SELL" THEN held - tx.shares ELSE held + tx.delta) < -Dust

ReplayFindings(ledger, ids) ==
  LET held == ValidatorHeld(InReplayOrder(ledger, ids))
      HeldBefore(i) == held[Cardinality(Preceding(ledger, ids, i))][ledger[i].symbol]
      OfSymbols == {i \in ids : ledger[i].symbol \in Symbols}
  IN  {<<"SELL_WITHOUT_HOLDING", {i}>> :
         i \in {j \in OfSymbols : SellWithoutHolding(ledger[j], HeldBefore(j))}}
        \union
      {<<"NEG_SHARE_BALANCE", {i}>> :
         i \in {j \in OfSymbols : NegativeBalance(ledger[j], HeldBefore(j))}}

\* INITIAL_POSITION records of one canonical symbol on one day.
InitialPositionGroup(ledger, ids, s, d) ==
  {i \in ids : /\ ledger[i].type = "INITIAL_POSITION"
               /\ ledger[i].date = d
               /\ Canonical[ledger[i].symbol] = s}

DuplicateGroups(ledger, ids) ==
  {g \in {InitialPositionGroup(ledger, ids, s, ledger[i].date) :
            s \in Symbols, i \in ids} : Cardinality(g) > 1}

\* Transactions of the symbols that share a replay key.
AliasGroups(ledger, ids) ==
  LET Under(s)      == {i \in ids : /\ ledger[i].symbol \in Symbols
                                    /\ Canonical[ledger[i].symbol] = s}
      RawSymbols(s) == {ledger[i].symbol : i \in Under(s)}
  IN  {Under(s) : s \in {k \in Symbols : Cardinality(RawSymbols(k)) > 1}}

\* What _check_duplicate_fingerprints compares.  Its price is the amount over
\* the shares; a cash transaction has neither, and its amount is not compared.
Fingerprint(tx) ==
  <<tx.type, tx.symbol, tx.shares,
    IF tx.type \in PositionTypes THEN tx.amount ELSE 0, tx.date>>

FingerprintGroups(ledger, ids) ==
  LET Alike(i) == {j \in ids : Fingerprint(ledger[j]) = Fingerprint(ledger[i])}
  IN  {g \in {Alike(i) : i \in ids} : Cardinality(g) > 1}

\* A finding is a check and the transactions it names (_finding_key).
CriticalFindings(ledger, ids) ==
  {<<"DUP_INITIAL_POSITION", g>> : g \in DuplicateGroups(ledger, ids)}
    \union {<<"SYMBOL_ALIAS", g>> : g \in AliasGroups(ledger, ids)}
    \union ReplayFindings(ledger, ids)

-----------------------------------------------------------------------------
(* The audits of the stored portfolio against its ledger, which only read. *)

\* admin_validate_portfolio adds the rows up as the table returns them: it knows
\* neither dates nor floors nor repairs.
LedgerCash(txs) ==
  LET sum[n \in 0..Len(txs)] == IF n = 0 THEN 0 ELSE sum[n - 1] + CashEffect(txs[n])
  IN  sum[Len(txs)]

Apart(n, m) == n - m > Dust \/ m - n > Dust

\* The symbols for which _check_holdings_consistency reports HOLDINGS_MISMATCH:
\* a row without a replayed position, a position without a row, or too many
\* shares between them.
HoldingsMismatches(rows, stored, held) ==
  {s \in Symbols : IF s \in rows /\ held[s] > 0 THEN Apart(stored[s], held[s])
                                               ELSE s \in rows \/ held[s] > 0}
=============================================================================

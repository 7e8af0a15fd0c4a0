--------------------------- MODULE ExecutionPlan ---------------------------
(***************************************************************************)
(* How the buys a user wants are paid for, and what can be traded.  The    *)
(* plan names the holdings to sell and how much of each, only as far as    *)
(* the buys need it (build_execution_plan, resolve_funding_gap).  Then,    *)
(* for the log alone, every action of the plan is judged against the       *)
(* registry and a price just asked of the provider: either all evidence    *)
(* holds, and a trade leg is built, or there is none.                      *)
(*                                                                         *)
(* Amounts are whole cents, prices and shares whole numbers.  The Yahoo    *)
(* adapters give no session but REGULAR, for a regular price with its      *)
(* time, and UNKNOWN.  Plans are never given evidence from a cache.        *)
(***************************************************************************)
EXTENDS TradeEvidence, FiniteSetsExt, Functions, SequencesExt, TLC

CONSTANTS
  Instruments,
  Rank,                \* the order of the symbols' names
  Holdings,          \* holdings: functions from sets of symbols to shares and avg_cost
  Balances,            \* cash balances
  Deployments,         \* amounts to buy: functions from sets of symbols
  Registries,          \* functions from Instruments to what the registry has of them
  Payloads,            \* what a provider may answer: kind, price, currency, age if timed
  ReducePart,          \* a REDUCE releases one part in so many of a position
  Epsilon,             \* _EPSILON, in cents
  Precision,           \* release_pct has so many steps from 0 to 1
  MaxCalls             \* _MAX_PROVIDER_CALLS

ASSUME ExecutionAssumption ==
  /\ {ReducePart, Precision, MaxCalls} \subseteq Nat \ {0}
  /\ {Epsilon, CurrentFor, StaleFor, MaxTime} \subseteq Nat /\ CurrentFor <= StaleFor
  /\ IsFiniteSet(Instruments) /\ Rank \in [Instruments -> Nat]
  /\ \A x, y \in Instruments : Rank[x] = Rank[y] => x = y
  /\ Balances \subseteq Int
  /\ \A p \in Holdings : /\ DOMAIN p \subseteq Instruments
                         /\ \A s \in DOMAIN p : p[s].shares \in Nat /\ p[s].cost \in Nat
  /\ \A d \in Deployments : DOMAIN d \subseteq Instruments /\ \A s \in DOMAIN d : d[s] \in Nat
  /\ \A v \in Registries : DOMAIN v = Instruments /\ \A s \in Instruments : v[s].lot \in Nat
  /\ \A q \in Payloads : /\ q.kind \in {"MARKET_LAST", "MARKET_CLOSE"}
                         /\ q.price \in Nat /\ q.age \in Nat /\ q.timed \in BOOLEAN

VARIABLES
  step,          \* "idle", "asking" the provider, or "done"
  position, cash, signals, buys,   \* what the plan was built from
  breached,      \* symbols with a breach among the policy's violations
  trades,        \* OptimizedTrade of each funding candidate
  registry,      \* the facts of the one batch
  clock,         \* minutes since the request
  assessedAt,    \* shadow_at
  pending,       \* symbols asked of the provider and not answered
  evidence,      \* the quote held for each symbol of the plan
  outcome,       \* ShadowDiagnosticOutcome of each symbol
  legs           \* quantities of the trade legs built

executionVars == <<step, position, cash, signals, buys, breached, trades, registry,
                   clock, assessedAt, pending, evidence, outcome, legs>>
planInputs == <<position, cash, signals, buys, breached, trades, registry>>

Empty == [s \in {} |-> 0]
SumOf(f, S) == SumFunctionOnSet(f, S)

-----------------------------------------------------------------------------
(* Funding.                                                                *)

Value(s) == position[s].shares * position[s].cost

(* Holdings flagged for sale, except those that are to be bought.          *)
Candidates(h, sig, b) == {s \in DOMAIN h \ DOMAIN b : sig[s] \in {"SELL", "REDUCE"}}

(* A REDUCE is recommended as a fixed part of the position, to the cent.   *)
FullAmount(item, signal) ==
  LET value == item.shares * item.cost
  IN  IF signal = "SELL" THEN value ELSE (value + ReducePart \div 2) \div ReducePart

(* classify_reason, necessity_for: what the thesis or the policy demands.  *)
Necessary(s, sig, breaches) == sig[s] = "SELL" \/ s \in breaches

(* Mutant: a candidate may be taken whole however little is left.          *)
TakenGreedily(amount, left) ==
  IF left <= Epsilon THEN [full |-> amount, executed |-> 0, state |-> "DEFERRED"]
  ELSE [full |-> amount, executed |-> amount, state |-> "FULL"]

(* A discretionary candidate is taken whole if it fits into what is left   *)
(* of the gap, cut to what is left if it does not, and left alone once     *)
(* nothing is.                                                             *)
Taken(amount, left) ==
  LET trade(executed, state) == [full |-> amount, executed |-> executed, state |-> state]
  IN  IF left <= Epsilon THEN trade(0, "DEFERRED")
      ELSE IF amount <= left + Epsilon THEN trade(amount, "FULL")
      ELSE trade(left, "SCALED")

Gap(b, c) == LET short == SumOf(b, DOMAIN b) - c IN IF short > 0 THEN short ELSE 0

(* The discretionary candidates before s, from the smallest to the         *)
(* largest.  A SELL is always necessary, so amounts that are equal differ  *)
(* by name only.                                                           *)
Before(s, optional, full) ==
  {x \in optional : \/ full[x] < full[s]
                    \/ full[x] = full[s] /\ Rank[x] < Rank[s]}

(* resolve_funding_gap.  Necessary candidates ship whole whatever the gap. *)
(* Of the gap, a discretionary one finds left what those before it leave   *)
(* when they are taken whole: behind one that is not, nothing is left.     *)
Resolved(h, c, sig, b, breaches) ==
  LET candidates == Candidates(h, sig, b)
      full       == [s \in candidates |-> FullAmount(h[s], sig[s])]
      necessary  == {s \in candidates : Necessary(s, sig, breaches)}
      gap        == Gap(b, c) - SumOf(full, necessary)
      left(s)    == gap - SumOf(full, Before(s, candidates \ necessary, full))
  IN  [s \in candidates |->
         IF s \in necessary THEN [full |-> full[s], executed |-> full[s], state |-> "FULL"]
         ELSE Taken(full[s], left(s))]

Executed(s) == trades[s].executed
Funding     == {s \in DOMAIN trades : trades[s].state # "DEFERRED"}
Traded     == DOMAIN buys \cup Funding
Released(S) == SumOf([s \in DOMAIN trades |-> Executed(s)], S)
Remaining   == cash + Released(Funding) - SumOf(buys, DOMAIN buys)

PlanStatus ==
  IF Remaining < 0 THEN "INSUFFICIENT" ELSE IF Funding = {} THEN "NO_SELLS_NEEDED" ELSE "READY"

(* release_pct of a funding action, in steps: of the amount recommended,   *)
(* rounded to the nearest.                                                 *)
ReleasePct(s) ==
  IF trades[s].full = 0 THEN 0
  ELSE (2 * Executed(s) * Precision + trades[s].full) \div (2 * trades[s].full)

-----------------------------------------------------------------------------
(* What a quote says of a price.                                           *)

NoQuote == [kind |-> "UNKNOWN", price |-> 0, currency |-> "none", at |-> NoTime, received |-> NoTime]

(* The chart's price is that of the last trade, with its time, unless that *)
(* is missing, and is received when it comes; the quote of the older       *)
(* provider is a close without one, said to come when it was asked for.    *)
Quote(payload) ==
  [kind |-> payload.kind, price |-> payload.price, currency |-> payload.currency,
   at |-> IF payload.timed THEN clock - payload.age ELSE NoTime,
   received |-> IF payload.kind = "MARKET_LAST" THEN clock ELSE assessedAt]

(* adapt_execution_quote_envelope_to_observation                           *)
Observed(q) ==
  IF q.kind = "UNKNOWN" THEN NoObservation
  ELSE Observation(q.kind, IF q.kind = "MARKET_LAST" THEN "YAHOO_CHART" ELSE "YAHOO_FINANCE",
         Ratio(q.price, 1), q.currency, q.at, q.received,
         IF q.kind = "MARKET_LAST" /\ q.at # NoTime THEN "REGULAR" ELSE "UNKNOWN")

FreshnessOf(s) == Freshness(Observed(evidence[s]), assessedAt)

(* select_execution_price                                                  *)
Priced(q) == q.kind = "MARKET_LAST" /\ q.price > 0 /\ q.currency = Currency

(* accept_freshness_and_session, as far as the price has no session        *)
SessionKnown(q) == Observed(q).session # "UNKNOWN"

(* validate_fee_quote_lifecycle: a fee holds as long as the price does.    *)
FeeHolds(q) == assessedAt <= q.at + CurrentFor

-----------------------------------------------------------------------------
(* From an action to a quantity.                                           *)

(* adapt_execution_plan_funding_intent                                     *)
SellsAll(s) == s \in Funding /\ ReleasePct(s) = Precision

(* derive_requested_quantity: there is something to trade.                 *)
Requested(s) ==
  IF s \in DOMAIN buys THEN buys[s] > 0
  ELSE position[s].shares > 0 /\ ReleasePct(s) \in 1..Precision

(* A full sale of an odd lot is refused, not rounded.                      *)
OddLot(s) == SellsAll(s) /\ position[s].shares % registry[s].lot # 0

(* constrain_executable_quantity: down to whole lots.                      *)
Executable(s) ==
  LET lot == registry[s].lot
  IN  IF s \in DOMAIN buys THEN (buys[s] \div (evidence[s].price * lot)) * lot
      ELSE ((position[s].shares * ReleasePct(s)) \div (Precision * lot)) * lot

(* What the policy hands to the contract: what is asked for, what of it    *)
(* makes whole lots, and the quote of its fees.                            *)
PolicyRequest(s) ==
  LET side   == IF s \in DOMAIN buys THEN "BUY" ELSE "SELL"
      price  == Ratio(evidence[s].price, 1)
      whole  == Ratio(Executable(s), 1)
      source == IF s \in DOMAIN buys THEN "ALLOCATION_VALUE_AT_PRICE"
                ELSE IF SellsAll(s) THEN "FULL_HOLDING_QUANTITY" ELSE "HOLDING_FRACTION"
  IN  Request(side, source,
              IF s \in DOMAIN buys THEN Ratio(buys[s], evidence[s].price)
              ELSE Ratio(position[s].shares * ReleasePct(s), Precision),
              whole, TRUE, IF s \in DOMAIN buys THEN Ratio(buys[s], 1) ELSE None,
              Observed(evidence[s]), FreshnessOf(s), registry[s],
              {FeeQuote(registry[s], side, whole, price, Executable(s) * evidence[s].price)})

(* Mutant: the price's age is left to the contract.                        *)
PolicyOutcomeOfAnyAge(s) ==
  IF ~Priced(evidence[s]) \/ ~SessionKnown(evidence[s]) THEN "INCOMPLETE"
  ELSE IF Eligibility(registry[s]) # "ELIGIBLE" THEN "EXCLUDED"
  ELSE IF ~Requested(s) \/ OddLot(s) THEN "INCOMPLETE"
  ELSE IF Executable(s) = 0 THEN "DEFERRED"
  ELSE IF FeeRefusal(registry[s]) # "none" THEN "INCOMPLETE"
  ELSE IF Failures(PolicyRequest(s)) = {} THEN "COMPLETE" ELSE "ERROR"

(* normalize_policy_trade_input                                            *)
PolicyOutcome(s) ==
  IF ~Priced(evidence[s]) \/ ~SessionKnown(evidence[s]) THEN "INCOMPLETE"
  ELSE IF FreshnessOf(s) # "CURRENT" THEN "DEFERRED"
  ELSE IF Eligibility(registry[s]) # "ELIGIBLE" THEN "EXCLUDED"
  ELSE IF ~Requested(s) \/ OddLot(s) THEN "INCOMPLETE"
  ELSE IF Executable(s) = 0 THEN "DEFERRED"
  ELSE IF FeeRefusal(registry[s]) # "none" THEN "INCOMPLETE"
  ELSE IF ~FeeHolds(evidence[s]) THEN "DEFERRED"
  ELSE IF Failures(PolicyRequest(s)) = {} THEN "COMPLETE" ELSE "ERROR"

(* _evaluate_intent takes the policy's steps twice, the second time for a  *)
(* fee of the quantity the first has given.                                *)
Judgement(s) == IF Capable(registry[s]) THEN PolicyOutcome(s) ELSE "INCOMPLETE"

(* The other trade leg of a sale, in the log of every plan: its quantity   *)
(* is the released part of the shares, in steps, and its price what is     *)
(* released divided by that.                                               *)
LegacyQuantity(s) == position[s].shares * ReleasePct(s)

LegacyPrice(s) ==
  IF LegacyQuantity(s) = 0 THEN None ELSE Ratio(Executed(s) * Precision, LegacyQuantity(s))

LegComplete(view, quote) == quote.status = "QUOTED" /\ Eligibility(view) = "ELIGIBLE"

LegacyLeg(s) ==
  LET quote == FeeQuote(registry[s], "SELL", Ratio(LegacyQuantity(s), Precision), LegacyPrice(s), Executed(s))
  IN  [projected |-> LegacyQuantity(s) > 0 /\ Executed(s) > 0, quote |-> quote,
       complete |-> LegComplete(registry[s], quote)]

(* And the input it is judged by: an amount without a quantity for a buy,  *)
(* a part of the shares for a sale, and no market's price for either.      *)
LegacyRequest(s) ==
  LET observation == IF s \in DOMAIN buys THEN NoObservation ELSE CostReference(LegacyPrice(s), registry[s])
      part        == Ratio(LegacyQuantity(s), Precision)
      freshness   == Freshness(observation, assessedAt)
  IN  IF s \in DOMAIN buys
      THEN Request("BUY", "ALLOCATION_VALUE_AT_PRICE", None, None, FALSE, Ratio(buys[s], 1),
                   observation, freshness, registry[s], {})
      ELSE Request("SELL", "HOLDING_FRACTION", part, part, FALSE, None, observation, freshness, registry[s], {})

-----------------------------------------------------------------------------
ExecutionInit ==
  /\ step = "idle" /\ clock = 0 /\ assessedAt = NoTime
  /\ position = Empty /\ cash = 0 /\ signals = Empty /\ buys = Empty /\ breached = {}
  /\ trades = Empty /\ registry = Empty
  /\ pending = {} /\ evidence = Empty /\ outcome = Empty /\ legs = Empty

(* Buys first, then sales, then reductions; each from the largest.         *)
Precedes(x, y) ==
  LET group(s) == IF s \in DOMAIN buys' THEN 0 ELSE IF signals'[s] = "SELL" THEN 1 ELSE 2
      size(s)  == IF s \in DOMAIN buys' THEN buys'[s] ELSE trades'[s].executed
  IN  \/ group(x) < group(y)
      \/ group(x) = group(y) /\ size(x) > size(y)
      \/ group(x) = group(y) /\ size(x) = size(y) /\ Rank[x] < Rank[y]

(* Beyond the bound nothing is asked.                                      *)
Asked(S) == LET order == SetToSortSeq(S, Precedes)
            IN  {order[i] : i \in 1..Min({MaxCalls, Len(order)})}

(* One request, or the page of an optimizer run, which knows the breaches  *)
(* and asks for no evidence.  Evidence is an option, and what fails before *)
(* it is asked for leaves the plan as it is.                               *)
Build(h, c, sig, b, breaches, views, live) ==
  /\ step = "idle"
  /\ position' = h /\ cash' = c /\ signals' = sig /\ buys' = b /\ breached' = breaches
  /\ trades' = Resolved(h, c, sig, b, breaches)
  /\ LET actions == DOMAIN b \cup {s \in DOMAIN trades' : trades'[s].state # "DEFERRED"}
         asks    == live /\ breaches = {} /\ actions # {}
     IN  /\ step' = IF asks THEN "asking" ELSE "done"
         /\ registry' = IF asks THEN views ELSE Empty
         /\ assessedAt' = IF asks THEN clock ELSE NoTime
         /\ pending' = IF asks THEN Asked(actions) ELSE {}
         /\ evidence' = IF asks THEN [s \in actions |-> NoQuote] ELSE Empty
  /\ UNCHANGED <<clock, outcome, legs>>

(* One attempt for each symbol; one that fails gives no quote.             *)
Answer(s, quote) ==
  /\ step = "asking" /\ s \in pending
  /\ pending' = pending \ {s}
  /\ evidence' = [evidence EXCEPT ![s] = quote]
  /\ UNCHANGED <<step, planInputs, clock, assessedAt, outcome, legs>>

(* A provider that takes all symbols at once fails for all of them.        *)
BatchFails ==
  /\ step = "asking" /\ pending # {}
  /\ pending' = {}
  /\ evidence' = [s \in DOMAIN evidence |-> NoQuote]
  /\ UNCHANGED <<step, planInputs, clock, assessedAt, outcome, legs>>

Judge ==
  /\ step = "asking" /\ pending = {}
  /\ step' = "done"
  /\ outcome' = [s \in Traded |-> Judgement(s)]
  /\ legs' = [s \in {x \in Traded : Judgement(x) = "COMPLETE"} |-> Executable(s)]
  /\ UNCHANGED <<planInputs, clock, assessedAt, pending, evidence>>

(* Time matters while the provider is asked.                               *)
Tick ==
  /\ step = "asking" /\ clock < MaxTime
  /\ clock' = clock + 1
  /\ UNCHANGED <<step, planInputs, assessedAt, pending, evidence, outcome, legs>>

Signals(h) == [DOMAIN h -> {"SELL", "REDUCE", "HOLD"}]

ExecutionNext ==
  \/ /\ step = "idle"
     /\ \E h \in Holdings, c \in Balances, b \in Deployments :
          \E sig \in Signals(h) :
            \/ \E views \in Registries : Build(h, c, sig, b, {}, views, TRUE)
            \/ \E breaches \in SUBSET DOMAIN h : Build(h, c, sig, b, breaches, Empty, FALSE)
  \/ \E s \in pending :
       \/ Answer(s, NoQuote)
       \/ \E payload \in Payloads : Answer(s, Quote(payload))
  \/ BatchFails \/ Judge \/ Tick

ExecutionSpec == ExecutionInit /\ [][ExecutionNext]_executionVars

-----------------------------------------------------------------------------
Built == step # "idle"
Optional == {s \in DOMAIN trades : ~Necessary(s, signals, breached)}

(* What must be sold is sold whole, whatever the buys.  Of the rest, no    *)
(* more than the gap needs (up to _EPSILON): at most one is cut, none that *)
(* is kept or cut is smaller than one that is sold, and while one is kept  *)
(* back the buys are paid for - a plan is INSUFFICIENT only when all there *)
(* is to sell is sold, or by less than the code takes for nothing.         *)
FundingClosesTheGap ==
  Built =>
    LET gap      == Gap(buys, cash)
        released == Released(DOMAIN trades)
        sold     == {s \in Optional : Executed(s) > 0}
        whole    == {s \in Optional : trades[s].state = "FULL"}
    IN  /\ \A s \in DOMAIN trades \ Optional : Executed(s) = trades[s].full
        /\ Cardinality({s \in DOMAIN trades : trades[s].state = "SCALED"}) <= 1
        /\ sold # {} => released <= gap + Epsilon
        /\ whole # Optional => released >= gap - Epsilon
        /\ \A s \in whole, t \in Optional \ whole : trades[s].full <= trades[t].full
        /\ PlanStatus = "INSUFFICIENT" => Remaining >= -Epsilon \/ whole = Optional

(* A leg is whole lots, no more than is held or than the amount buys, and  *)
(* as much of it as lots allow: nothing is rounded up, and nothing that    *)
(* could be traded is lost on the way from the plan's action to the leg.   *)
LegsStayWithinTheirAction ==
  \A s \in DOMAIN legs :
    LET lot == registry[s].lot
    IN  /\ legs[s] > 0 /\ legs[s] % lot = 0
        /\ s \in DOMAIN buys =>
             legs[s] * evidence[s].price <= buys[s] /\ buys[s] < (legs[s] + lot) * evidence[s].price
        /\ s \notin DOMAIN buys =>
             legs[s] <= position[s].shares
             /\ legs[s] * Precision <= position[s].shares * ReleasePct(s)
             /\ position[s].shares * ReleasePct(s) < (legs[s] + lot) * Precision

(* However long the provider takes, a leg rests on a trade that was made   *)
(* before the assessment and was current then, of an instrument the        *)
(* registry had resolved when the plan was built; and what the policy      *)
(* accepts, the contract it is handed to never refuses.                    *)
LegsRestOnCurrentEvidence ==
  /\ \A s \in DOMAIN outcome : outcome[s] # "ERROR"
  /\ \A s \in DOMAIN legs :
       /\ evidence[s].at <= assessedAt /\ assessedAt - evidence[s].at <= CurrentFor
       /\ evidence[s].currency = "THB" /\ Resolution(registry[s]) = "RESOLVED"

(* The log describes one plan four times, from one batch of facts: by its  *)
(* actions' eligibility, by legacy legs, by legacy inputs, and by what a   *)
(* provider said.  The descriptions never contradict one another: a leg is *)
(* built of what the older descriptions find eligible and can charge for,  *)
(* and its diagnosis is of a complete and current last price; the two ages *)
(* of a price are one; and the contract refuses what the policy refuses,   *)
(* but for lots and capabilities, of which it knows nothing.  What a plan  *)
(* knows by itself is never enough for a trade.                            *)
DescriptionsAgree ==
  \A s \in DOMAIN outcome :
    LET view      == registry[s]
        seen      == Observed(evidence[s])
        diagnosis == Diagnosis(seen, view, assessedAt)
    IN  /\ {"MISSING_QUANTITY", "PRICE_NOT_EXECUTION_EVIDENCE"} \cap Failures(LegacyRequest(s)) # {}
        /\ FreshnessOf(s) \in {"CURRENT", "STALE", "EXPIRED"} => diagnosis.age = FreshnessOf(s)
        /\ Capable(view) /\ ~OddLot(s) =>
             (s \in DOMAIN legs <=> Priced(evidence[s]) /\ Failures(PolicyRequest(s)) = {})
        /\ s \in DOMAIN legs =>
             /\ ~Telemetry(view).disagreement
             /\ s \in Funding => LegacyLeg(s).projected /\ LegacyLeg(s).complete
             /\ diagnosis.kind = "PROVIDER_REGULAR_LAST" /\ diagnosis.quality = "COMPLETE"
             /\ diagnosis.age = "CURRENT" /\ ObservationQuality(seen) = "COMPLETE"
             /\ TimestampQuality(seen) = "EXCHANGE_OBSERVED" /\ SessionCompleteness(seen) = "COMPLETE"

(* A leg is neither larger than its action nor younger than its evidence,  *)
(* and whatever else the log says of the plan agrees with it.              *)
LegsAreGrounded == LegsStayWithinTheirAction /\ LegsRestOnCurrentEvidence /\ DescriptionsAgree

(* FundingSourceItem: current_value is the value of the position and       *)
(* release_pct the part of the position that is released.  So what is      *)
(* released is that part of the shares at their average cost (up to the    *)
(* rounding of the part), and trade legs of it are priced at that cost.    *)
ReleasesMatchShares ==
  Built /\ breached = {} => \A s \in Funding :
    LET twiceTheError == 2 * (LegacyQuantity(s) * position[s].cost - Executed(s) * Precision)
    IN  twiceTheError <= Value(s) /\ -Value(s) <= twiceTheError
=============================================================================

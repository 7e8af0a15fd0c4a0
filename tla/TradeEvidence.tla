--------------------------- MODULE TradeEvidence ---------------------------
(***************************************************************************)
(* The evidence a trade leg rests on, and the contracts it is judged by:   *)
(* what the registry has of an instrument, what was observed of its price  *)
(* and how old that is, what a broker charges, and what is wrong with a    *)
(* request to trade (normalize_trade_input names everything that is).      *)
(* None of it looks anything up or reads a clock.                          *)
(*                                                                         *)
(* References (hashes of what a record holds) are left out: two records    *)
(* are the same evidence when they are equal.  Observations take their     *)
(* identity from the facts they are judged with, so these never differ.    *)
(***************************************************************************)
EXTENDS Integers, FiniteSets

CONSTANTS
  Currency,            \* the planning currency
  CurrentFor, StaleFor,
  MaxTime

NoTime == MaxTime + 1

(* Decimal quantities and prices, as what was divided by what; none is an  *)
(* absent one.                                                             *)
Ratio(n, d) == [of |-> n, by |-> d]
None == Ratio(0, 0)
Positive(x) == x.of > 0
Same(x, y) == x.of * y.by = y.of * x.by
Nearest(n, d) == (2 * n + d) \div (2 * d)

-----------------------------------------------------------------------------
(* What the registry says of an instrument.                                *)

Unresolved(view) ==
  view.found \in {"ERROR", "UNKNOWN", "AMBIGUOUS"} \/ ~view.complete

(* ExecutionResolutionOutcome.  Two underlyings leave a receipt ambiguous. *)
Resolution(view) ==
  IF view.found = "AMBIGUOUS" THEN "AMBIGUOUS"
  ELSE IF Unresolved(view) THEN "UNKNOWN"
  ELSE IF view.receipts > 1 THEN "AMBIGUOUS"
  ELSE IF view.index \/ ~view.tradable THEN "NOT_TRADABLE"
  ELSE "RESOLVED"

(* execution_role: of an index, and of nothing else.                       *)
Reference(view) == Resolution(view) = "NOT_TRADABLE" /\ view.index

(* evaluate_execution_eligibility                                          *)
Eligibility(view) ==
  IF view.found = "ERROR" THEN "REGISTRY_FAILURE"
  ELSE IF Reference(view) THEN "REFERENCE_ONLY"
  ELSE IF Resolution(view) = "RESOLVED" THEN "ELIGIBLE"
  ELSE Resolution(view)

(* assess_registry_capability_readiness, except for eligibility: nothing   *)
(* is assumed that the registry does not state.                            *)
Capable(view) ==
  ~Unresolved(view) /\ view.lot > 0 /\ view.fractional = "NO" /\ view.currency = Currency

(* consult_execution_eligibility_shadow: what the log says of an action of *)
(* the plan.  Nothing is refused for it.                                   *)
Telemetry(view) ==
  [eligibility |-> Eligibility(view), permitted |-> TRUE, disagreement |-> Eligibility(view) # "ELIGIBLE",
   failure |-> view.found = "ERROR"]

-----------------------------------------------------------------------------
(* Observations of a price.                                                *)

MarketKinds == {"MARKET_LAST", "MARKET_CLOSE", "MARKET_OPEN", "MARKET_HIGH", "MARKET_LOW"}

Observation(kind, source, price, currency, at, received, session) ==
  [kind |-> kind, source |-> source, price |-> price, currency |-> currency, at |-> at,
   received |-> received, session |-> session]

FromMarket(o) == o.kind \in MarketKinds

(* _observation_quality                                                    *)
ObservationQuality(o) ==
  IF o.kind \in {"AVG_COST_REFERENCE", "USER_EXECUTION_TERM", "ESTIMATED"} THEN "REFERENCE_ONLY"
  ELSE IF o.kind = "UNKNOWN" \/ o.price = None THEN "UNKNOWN"
  ELSE IF o.currency # "none" /\ NoTime \notin {o.at, o.received} /\ o.session # "UNKNOWN" THEN "COMPLETE"
  ELSE "PARTIAL"

TimestampQuality(o) ==
  IF o.at # NoTime THEN "EXCHANGE_OBSERVED" ELSE IF o.received # NoTime THEN "RECEIPT_ONLY" ELSE "MISSING"

(* Both assessments of an age: nothing is younger than now.                *)
AgeStatus(age) ==
  IF age < 0 THEN "UNKNOWN"
  ELSE IF age <= CurrentFor THEN "CURRENT"
  ELSE IF age <= StaleFor THEN "STALE"
  ELSE "EXPIRED"

(* assess_price_freshness                                                  *)
Freshness(o, now) ==
  IF ~FromMarket(o) \/ ~Positive(o.price) THEN "UNKNOWN"
  ELSE IF o.currency = "none" THEN "CURRENCY_UNKNOWN"
  ELSE IF o.at = NoTime THEN "PRICE_TIMESTAMP_MISSING"
  ELSE IF o.session = "UNKNOWN" THEN "SESSION_UNKNOWN"
  ELSE IF o.session = "CLOSED" THEN "SESSION_CLOSED"
  ELSE AgeStatus(now - o.at)

(* What a plan knows of a price by itself: nothing for a buy, and what the *)
(* shares have cost for a sale.                                            *)
NoObservation == Observation("UNKNOWN", "UNKNOWN", None, "none", NoTime, NoTime, "UNKNOWN")
CostReference(cost, view) ==
  Observation("AVG_COST_REFERENCE", "PORTFOLIO_AVG_COST", cost,
              IF Unresolved(view) THEN "none" ELSE view.currency, NoTime, NoTime, "UNKNOWN")

-----------------------------------------------------------------------------
(* Market price evidence: the same answer of a provider described again,   *)
(* for the log alone.                                                      *)

(* _assess, of the time of an event, of its receipt, or of its caching     *)
EvidenceAge(at, now) == IF at = NoTime THEN "PRICE_TIMESTAMP_MISSING" ELSE AgeStatus(now - at)

LastPriceKind(o, view) ==
  IF Reference(view) THEN "INDEX_VALUE"
  ELSE IF o.source = "YAHOO_CHART" THEN "PROVIDER_REGULAR_LAST" ELSE "UNKNOWN"

LastPriceQuality(o) ==
  IF Positive(o.price) /\ o.currency # "none" /\ NoTime \notin {o.at, o.received} THEN "COMPLETE"
  ELSE IF o.price # None THEN "PARTIAL" ELSE "UNKNOWN"

(* A set without a book of bids and asks, which no provider gives, is      *)
(* never complete.                                                         *)
SetQuality(o) == IF LastPriceQuality(o) = "UNKNOWN" THEN "UNKNOWN" ELSE "PARTIAL"

NoDiagnosis ==
  [kind |-> "UNKNOWN", age |-> "UNKNOWN", receipt |-> "UNKNOWN", cache |-> "UNKNOWN", quality |-> "UNKNOWN",
   set |-> "UNKNOWN"]

(* _market_price_diagnostic_values                                         *)
Diagnosis(o, view, now) ==
  IF o = NoObservation THEN NoDiagnosis
  ELSE [kind |-> LastPriceKind(o, view), age |-> EvidenceAge(o.at, now), receipt |-> EvidenceAge(o.received, now),
        cache |-> EvidenceAge(NoTime, now), quality |-> LastPriceQuality(o), set |-> SetQuality(o)]

(* _session_diagnostic_values                                              *)
SessionCompleteness(o) ==
  IF o.source # "YAHOO_CHART" THEN "MISSING" ELSE IF o.session = "UNKNOWN" THEN "PARTIAL" ELSE "COMPLETE"

-----------------------------------------------------------------------------
(* Broker fees, of amounts in cents, in hundredths of a cent.              *)

Component(gross, rate) == Nearest(100 * gross * rate, 100000)

(* calculate_fee_components, of SET_STANDARD and DR_STANDARD alike: each   *)
(* part is rounded by itself, and the tax is on the rounded parts.         *)
FeesOf(gross) ==
  LET charged == Component(gross, 150) + Component(gross, 6) + Component(gross, 1)
  IN  charged + Nearest(charged * 7, 100)

(* select_fee_schedule: what is listed elsewhere has none.                 *)
FeeRefusal(view) ==
  IF view.found = "ERROR" THEN "REGISTRY_FAILURE"
  ELSE IF Resolution(view) # "RESOLVED" THEN Resolution(view)
  ELSE IF view.exchange # "SET" \/ view.currency # "THB" THEN "MISSING_FEE_SCHEDULE"
  ELSE "none"

(* quote_fee_for_instrument                                                *)
FeeQuote(view, side, quantity, price, gross) ==
  IF FeeRefusal(view) = "none"
  THEN [status |-> "QUOTED", side |-> side, quantity |-> quantity, price |-> price, currency |-> view.currency,
        fees |-> FeesOf(gross),
        cash |-> IF side = "BUY" THEN -(100 * gross + FeesOf(gross)) ELSE 100 * gross - FeesOf(gross)]
  ELSE [status |-> "UNAVAILABLE", side |-> side, quantity |-> None, price |-> None, currency |-> view.currency,
        fees |-> 0, cash |-> 0]

-----------------------------------------------------------------------------
(* Requests to trade.                                                      *)

(* TradeInputNormalizationRequest                                          *)
Request(side, source, requested, executable, adjusted, value, observation, freshness, view, quotes) ==
  [side |-> side, source |-> source, requested |-> requested, executable |-> executable,
   adjusted |-> adjusted, value |-> value, observation |-> observation, freshness |-> freshness,
   view |-> view, quotes |-> quotes]

SourceFailures(r) ==
  {x \in {"SIDE_SOURCE_MISMATCH"} :
     \/ r.source \in {"FULL_HOLDING_QUANTITY", "HOLDING_FRACTION"} /\ r.side # "SELL"
     \/ r.source = "ALLOCATION_VALUE_AT_PRICE" /\ r.side # "BUY"}
  \cup {x \in {"MISSING_REQUESTED_VALUE"} : r.source = "ALLOCATION_VALUE_AT_PRICE" /\ r.value = None}
  \cup {x \in {"INVALID_REQUESTED_VALUE"} : r.value # None /\ ~Positive(r.value)}

QuantityFailures(r) ==
  LET quantities == {r.requested, r.executable}
  IN  {x \in {"MISSING_QUANTITY"} : None \in quantities}
      \cup {x \in {"INVALID_QUANTITY"} : \E q \in quantities \ {None} : ~Positive(q)}
      \cup {x \in {"QUANTITY_ADJUSTMENT_UNEXPLAINED"} :
              None \notin quantities /\ ~Same(r.requested, r.executable) /\ ~r.adjusted}

FactsFailures(r) ==
  {x \in {"FACTS_UNRESOLVED"} : Resolution(r.view) # "RESOLVED"}
  \cup {x \in {"INELIGIBLE_INSTRUMENT"} : Eligibility(r.view) # "ELIGIBLE"}

PriceFailures(r) ==
  LET o == r.observation
  IN  {x \in {"MISSING_PRICE"} : o.price = None}
      \cup {x \in {"INVALID_PRICE"} : o.price # None /\ ~Positive(o.price)}
      \cup {x \in {"PRICE_PROVENANCE_MISSING"} : "UNKNOWN" \in {o.kind, o.source}}
      \cup {x \in {"PRICE_NOT_EXECUTION_EVIDENCE"} : ~FromMarket(o)}
      \cup {x \in {"PRICE_TIMESTAMP_MISSING"} : NoTime \in {o.at, o.received}}
      \cup {x \in {"PRICE_SESSION_UNKNOWN"} : o.session = "UNKNOWN"}
      \cup {x \in {"PRICE_STALE"} : r.freshness # "CURRENT"}
      \cup {x \in {"CURRENCY_UNKNOWN"} : o.currency = "none"}

(* A quote of anything but this trade is none.                             *)
FeeFailures(r) ==
  LET quoted == {q \in r.quotes : q.status = "QUOTED"}
  IN  {x \in {"FEE_QUOTE_UNAVAILABLE"} : quoted = {}}
      \cup {x \in {"SIDE_QUOTE_MISMATCH"} : \E q \in quoted : q.side # r.side}
      \cup {x \in {"QUANTITY_QUOTE_MISMATCH"} :
              \E q \in quoted : r.executable = None \/ ~Same(q.quantity, r.executable)}
      \cup {x \in {"PRICE_QUOTE_MISMATCH"} :
              \E q \in quoted : r.observation.price = None \/ ~Same(q.price, r.observation.price)}
      \cup {x \in {"CURRENCY_QUOTE_MISMATCH"} :
              \E q \in quoted : r.observation.currency = "none" \/ q.currency # r.observation.currency}

(* normalize_trade_input: a request is complete when nothing is wrong.     *)
Failures(r) ==
  SourceFailures(r) \cup QuantityFailures(r) \cup FactsFailures(r) \cup PriceFailures(r) \cup FeeFailures(r)
=============================================================================

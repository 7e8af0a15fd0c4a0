--------------------------- MODULE PortfolioAdvice ---------------------------
(* Limits and the advice that is given within them.                        *)
(*                                                                         *)
(* resolve_constraints (constraint_resolver.py) merges what the user, the  *)
(* regime, an emergency and the system allow into one envelope, and        *)
(* compute_policy (policy_engine.py) tightens it by how uncertain the      *)
(* regime is.  Four tools advise on the next purchase from an envelope of  *)
(* their own and the recorded cost of the holdings: the sizing of a basket *)
(* (position_sizing.py), the construction of an equal-weight one           *)
(* (portfolio_construction.py over basket_simulation.py), the risk budget  *)
(* (allocation_engine.py) and the review of an idea (idea_review.py),      *)
(* which alone looks at market prices and the persona.                     *)
(*                                                                         *)
(* The user buys the advised sizes one by one; deposits and shifts of the  *)
(* regime come in between.  Shares of the portfolio and limits are in      *)
(* parts of Whole.                                                         *)
EXTENDS MarketRegime, Functions

CONSTANTS
  Stocks,        \* what advice may be about
  SectorOf,      \* their sectors, as market data tells them
  Watched,       \* the stocks whose sector the watchlist records
  Unsorted,      \* the sector of any other the portfolio does not hold: "Other"
  SectorLimits,  \* the user's limit of every canonical sector, Unsorted among them
  GlobalLimit,   \* the user's limit of any sector without one
  Analyses,      \* the cached analysis of every stock: signal, confidence, scores
  Personas,      \* [cash, position, turnover, eagerness] as a persona prefers them
  FirstDays,     \* the regimes recorded before the first detection
  Baskets,       \* sets of stocks advice is asked for
  Multipliers,   \* the timing multipliers that occur, in tenths
  FirstBooks,    \* [cash, cost] to begin with
  Moves,         \* market prices, in percent of cost
  Deposit, MaxDisturbances, MaxAdvice

\* A limit is saved as 5 to 100 percent.  Scores are in percent.  A basket has
\* fewer stocks than the portfolio has parts, or none of them gets one.
ASSUME AdviceAssumption ==
  /\ IsFiniteSet(Stocks) /\ Watched \subseteq Stocks
  /\ \A basket \in Baskets : basket \subseteq Stocks /\ Cardinality(basket) \in 1..1000
  /\ SectorOf \in [Stocks -> DOMAIN SectorLimits]
  /\ Unsorted \in DOMAIN SectorLimits
  /\ \A s \in DOMAIN SectorLimits : SectorLimits[s] \in 50..1000
  /\ GlobalLimit \in 100..1000
  /\ Analyses \in [Stocks -> [signal : {"BUY", "ACCUMULATE", "WATCH", "HOLD", "REDUCE", "SELL"},
                              confidence : {"high", "medium", "low"},
                              ta : 0..100, fa : 0..100, alignment : Int]]
  /\ \A p \in Personas : {p.cash, p.position, p.turnover, p.eagerness} \subseteq Nat /\ p.position > 0
  /\ Multipliers \subseteq Nat
  /\ FirstBooks \subseteq [cash : Nat, cost : [Stocks -> Nat]]
  /\ Deposit \in Nat /\ MaxDisturbances \in Nat /\ MaxAdvice \in Nat

Hundred == 1000              \* a share of 100 %: shares are in tenths of a percent

VARIABLES
  books,         \* cash, and what the holdings cost
  market,        \* the regime that was detected last, and how sure its detection is
  history,       \* the regimes of the last days, the latest first
  advice,        \* the last advice: its kind, status, sizes and limits
  bought,        \* the stocks of it that were bought
  disturbed,     \* a deposit or another regime came after it
  disturbances, asks

adviceVars == <<books, market, history, advice, bought, disturbed, disturbances, asks>>

Added(f, S) == SumFunctionOnSet(f, S)

-----------------------------------------------------------------------------
(* The envelope.                                                           *)

Crisis == [position |-> 150, sector |-> 250, cash |-> 200, turnover |-> 150]

\* _is_emergency and _detect_emergency, which must agree.
Emergency(m) ==
  \/ m.regime.stressed
  \/ m.regime.name = "HIGH_VOLATILITY" /\ m.sure >= 650
  \/ m.regime.stability = "VOLATILE" /\ m.sure < 400

Upper(user, regime, crisis, system, emergency) ==
  Least({user, regime, system} \cup IF emergency THEN {crisis} ELSE {})

Lower(user, regime, crisis, system, emergency) ==
  Most({user, regime, system} \cup IF emergency THEN {crisis} ELSE {})

SectorMultiplier ==
  [RISK_ON |-> 100, RISK_OFF |-> 85, SIDEWAYS |-> 95, HIGH_VOLATILITY |-> 70, DEFENSIVE_REGIME |-> 85,
   TRANSITION_RISK_ON |-> 90, TRANSITION_RISK_OFF |-> 85]

\* A persona's own preferences are a balanced one's where no persona is given.
Balanced == [cash |-> 50, position |-> 250, turnover |-> 400]

SectorCap(limit, m) ==
  Upper(limit, Rounded(limit * SectorMultiplier[m.regime.name], 100), Crisis.sector, 700, Emergency(m))

EffectiveEnvelope(m, persona) ==
  [emergency |-> Emergency(m),
   position  |-> Upper(persona.position, m.regime.position, Crisis.position, 400, Emergency(m)),
   cash      |-> Lower(persona.cash, m.regime.cash, Crisis.cash, 0, Emergency(m)),
   turnover  |-> Upper(persona.turnover, Rounded(persona.turnover * m.regime.turnover, 100),
                       Crisis.turnover, Hundred, Emergency(m)),
   sector    |-> [s \in DOMAIN SectorLimits |-> SectorCap(SectorLimits[s], m)],
   others    |-> SectorCap(GlobalLimit, m)]

-----------------------------------------------------------------------------
(* The policy: the envelope, tightened by the doubt about the regime.      *)

Instability(stability) ==
  CASE stability = "STABLE" -> 0 [] stability = "TRANSITIONING" -> 120 [] OTHER -> 300

\* In thousandths.  What weak consensus would add is never passed.
Discount(m) ==
  Least({1000, Rounded(500 * Most({0, 700 - m.sure}), 700) + Rounded(35 * Instability(m.regime.stability), 100)})

MaxNew(m, persona) ==
  IF Emergency(m) THEN 0
  ELSE IF m.regime.stance \in {"aggressive", "cautiously_bullish"} THEN 3
  ELSE Clamped((4 * persona.eagerness) \div 100, 0, 3)

(* Mutant: the doubt is taken for the confidence.                          *)
TurnoverByConfidence(base, doubt) == Rounded(base * (1500 + doubt), 2500)

TurnoverUnder(base, doubt) == Rounded(base * (2500 - doubt), 2500)

Policy(m, persona) ==
  LET base == EffectiveEnvelope(m, persona)
      doubt == Discount(m)
      cash == base.cash + Rounded(doubt * 80, 1000)
      position == IF doubt > 380 THEN Rounded(base.position * 85, 100) ELSE base.position
      turnover == TurnoverUnder(base.turnover, doubt)
  IN  [emergency |-> base.emergency,
       cash      |-> Clamped(IF base.emergency THEN Most({cash, 200}) ELSE cash, 20, 350),
       position  |-> Most({80, IF base.emergency THEN Least({position, 150}) ELSE position}),
       turnover  |-> Clamped(IF base.emergency THEN Least({turnover, 150}) ELSE turnover, 50, Hundred),
       suppress  |-> m.regime.suppress \/ base.emergency,
       added     |-> MaxNew(m, persona),
       sector    |-> base.sector,
       others    |-> base.others]

-----------------------------------------------------------------------------
(* The books as the tools see them.                                        *)

Total(b) == b.cash + Added(b.cost, Stocks)
Part(v, b) == IF Total(b) > 0 THEN Rounded(v * Hundred, Total(b)) ELSE 0
CashPart(b) == IF Total(b) > 0 THEN Part(b.cash, b) ELSE Hundred
SectorPart(s, b) == Part(Added(b.cost, {x \in Stocks : SectorOf[x] = s}), b)
HeldPart(x, b) == Part(b.cost[x], b)

\* A purchase looks the sector up; before it, only the watchlist may know it.
Known(x) == x \in Watched \/ books.cost[x] > 0
AllKnown(basket) == \A x \in basket : Known(x)
Recorded(x) == IF Known(x) THEN SectorOf[x] ELSE Unsorted

-----------------------------------------------------------------------------
(* The review of an idea, whose scores the sizing shares.                  *)

SignalFit == [BUY |-> 2, ACCUMULATE |-> 2, WATCH |-> 1, HOLD |-> 0, REDUCE |-> -1, SELL |-> -2]
SignalPoints == [ACCUMULATE |-> 5, BUY |-> 4, WATCH |-> 2, HOLD |-> 1, REDUCE |-> 0, SELL |-> 0]

Fit(x, current, cap) ==
  Clamped(5 + SignalFit[Analyses[x].signal] + Analyses[x].alignment
            + (IF 2 * (cap - current) >= cap THEN 1 ELSE IF 5 * (cap - current) < cap THEN -1 ELSE 0),
          0, 10)

PolicyCheck(current, cap, alloc, most) ==
  IF current >= cap \/ alloc >= most THEN "FAIL"
  ELSE IF 10 * current > 8 * cap \/ 10 * alloc > 8 * most THEN "WARNING"
  ELSE "PASS"

Risk(current, cap, alloc, most) ==
  IF 10 * current < 5 * cap /\ 10 * alloc < 5 * most THEN "LOW"
  ELSE IF 10 * current < 8 * cap /\ 10 * alloc < 8 * most THEN "MEDIUM"
  ELSE "HIGH"

Priority(fit, alloc, most, check, risk) ==
  IF check = "FAIL" THEN "LOW"
  ELSE IF fit >= 8 /\ risk = "LOW" /\ 2 * (most - alloc) >= most THEN "HIGH"
  ELSE IF fit >= 5 /\ risk # "HIGH" /\ 5 * (most - alloc) >= most THEN "MEDIUM"
  ELSE "LOW"

Decision(fit, risk, check) ==
  IF check = "FAIL" \/ fit < 4 THEN "DECLINE"
  ELSE IF risk = "HIGH" \/ check = "WARNING" THEN "REVIEW"
  ELSE IF fit >= 7 /\ risk = "LOW" THEN "APPROVE"
  ELSE "WATCH"

\* The review of x at the given market values.
Reviewed(x, values, persona) ==
  LET e == EffectiveEnvelope(market, persona)
      current == SectorPart(SectorOf[x], values)
      cap == e.sector[SectorOf[x]]
      alloc == HeldPart(x, values)
  IN  [sector   |-> PolicyCheck(current, cap, 0, e.position),
       decision |-> Decision(Fit(x, current, cap), Risk(current, cap, alloc, e.position),
                             PolicyCheck(current, cap, alloc, e.position))]

-----------------------------------------------------------------------------
(* compute_position_sizes.                                                 *)

ConfidencePoints == [high |-> 17, medium |-> 12, low |-> 7]
PriorityPoints == [HIGH |-> 12, MEDIUM |-> 8, LOW |-> 4]

\* In quarters of a point.
Score(x, e) ==
  LET current == SectorPart(Recorded(x), books)
      cap == e.sector[Recorded(x)]
      alloc == HeldPart(x, books)
      fit == Fit(x, current, cap)
  IN  4 * SignalPoints[Analyses[x].signal] + ConfidencePoints[Analyses[x].confidence]
        + 2 * (IF fit = 0 THEN 5 ELSE fit)
        + PriorityPoints[Priority(fit, alloc, e.position, PolicyCheck(current, cap, alloc, e.position),
                                  Risk(current, cap, alloc, e.position))]

\* A basket whose every multiplier is 0 is sized equally all the same.
Proportional(basket, timing, deployable, e) ==
  LET weight == [x \in basket |-> Score(x, e) * timing[x]]
      all == Added(weight, basket)
  IN  [x \in basket |-> IF all = 0 THEN Rounded(deployable, Cardinality(basket))
                        ELSE Rounded(weight[x] * deployable, all)]

InSector(s, basket) == {x \in basket : Recorded(x) = s}

(* Mutant: a basket is sized as if nothing of its sectors were held.       *)
HeadroomOfEmpty(s, e) == e.sector[s]

Headroom(s, e) == e.sector[s] - SectorPart(s, books)

\* The share of the raw sizes that fits the tightest sector, as a fraction.
Scale(raw, basket, e) ==
  LET asked(s) == Added(raw, InSector(s, basket))
      touched == {s \in {Recorded(x) : x \in basket} : asked(s) > 0}
      short == {s \in touched : asked(s) > Headroom(s, e)}
  IN  IF \E s \in touched : Headroom(s, e) <= 0 THEN <<0, 1>>
      ELSE IF short = {} THEN <<1, 1>>
      ELSE LET s == CHOOSE s \in short : \A t \in short :
                      Headroom(s, e) * asked(t) <= Headroom(t, e) * asked(s)
           IN  <<Headroom(s, e), asked(s)>>

Sized(basket, timing) ==
  LET e == EffectiveEnvelope(market, Balanced)
      deployable == Most({0, CashPart(books) - e.cash})
      raw == Proportional(basket, timing, deployable, e)
      scale == IF deployable = 0 THEN <<0, 1>> ELSE Scale(raw, basket, e)
      sizes == [x \in basket |-> Rounded(raw[x] * scale[1], scale[2])]
  IN  [kind   |-> "sized", sizes |-> sizes, limits |-> e, known |-> AllKnown(basket),
       status |-> IF Added(sizes, basket) = 0 THEN "FAIL"
                  ELSE IF scale[1] < scale[2] THEN "WARNING" ELSE "PASS"]

-----------------------------------------------------------------------------
(* compute_basket_simulation, and the largest equal share that passes it.  *)

SectorStatus(after, cap) ==
  IF cap <= 0 THEN "PASS"
  ELSE IF after >= cap THEN "FAIL"
  ELSE IF 10 * after >= 8 * cap THEN "WARNING"
  ELSE "PASS"

Simulated(basket, each, e) ==
  LET after == CashPart(books) - Cardinality(basket) * each
      impacts == {SectorStatus(SectorPart(s, books) + Cardinality(InSector(s, basket)) * each, e.sector[s]) :
                    s \in {Recorded(x) : x \in basket}}
  IN  IF after < 0 \/ "FAIL" \in impacts THEN "FAIL"
      ELSE IF after < e.cash \/ "WARNING" \in impacts THEN "WARNING"
      ELSE "PASS"

EqualShares == {10, 20, 30, 40, 50}

Constructed(basket) ==
  LET e == EffectiveEnvelope(market, Balanced)
      passing == {each \in EqualShares : Simulated(basket, each, e) = "PASS"}
      each == IF passing = {} THEN Least(EqualShares) ELSE Most(passing)
  IN  [kind |-> "constructed", sizes |-> [x \in basket |-> each], limits |-> e,
       known |-> AllKnown(basket), status |-> Simulated(basket, each, e)]

-----------------------------------------------------------------------------
(* compute_allocations: the risk budget of a basket, apart from the books. *)

RiskyCap == 50

\* A score of 0 is read as none.
OrElse(score, default) == IF score = 0 THEN default ELSE score

RiskScore(x) == OrElse(100 - Rounded(Analyses[x].ta + Analyses[x].fa, 2), 50)
TooRisky(x) == RiskScore(x) > 80

Expected(x) ==
  40 * OrElse(Analyses[x].ta, 50) + 40 * OrElse(Analyses[x].fa, 50)
    + 20 * (IF Analyses[x].confidence = "high" THEN 85 ELSE 60)

Included(basket) == {x \in basket : Analyses[x].confidence # "low"}

\* Weights by return for its risk.
RawBudget(among) ==
  LET worth == [x \in among |-> Rounded(Expected(x), Most({1, RiskScore(x)}))]
  IN  [x \in among |-> Rounded(worth[x] * Hundred, Added(worth, among))]

\* What is risky is capped and the others take the excess; where there are none,
\* scaling back to 100 % lifts it again, up to its cap.  Sector caps are never
\* passed.
Budget(basket) ==
  LET among == Included(basket)
      raw == RawBudget(among)
      risky == {x \in among : TooRisky(x)}
      excess == Added([x \in risky |-> Most({0, raw[x] - RiskyCap})], risky)
      free == Added(raw, among \ risky)
      capped == [x \in among |-> IF x \in risky THEN Least({raw[x], RiskyCap})
                                 ELSE raw[x] + Rounded(excess * raw[x], Most({1, free}))]
      full == [x \in among |-> Rounded(capped[x] * Hundred, Added(capped, among))]
  IN  [x \in among |-> IF x \in risky THEN Least({full[x], RiskyCap}) ELSE full[x]]

\* All that is risky counts as capped, whether the cap has bitten or not.
BudgetStatus(basket) ==
  LET sizes == Budget(basket)
  IN  IF Added(sizes, DOMAIN sizes) < 100 THEN "FAIL"
      ELSE IF \/ DOMAIN sizes # basket
              \/ \E x \in basket : TooRisky(x) \/ sizes[x] + 1 < RawBudget(basket)[x]
      THEN "WARNING" ELSE "PASS"

-----------------------------------------------------------------------------
NoAdvice == [kind |-> "none", sizes |-> [x \in {} |-> 0], limits |-> [cash |-> 0],
             known |-> FALSE, status |-> "FAIL", about |-> Unsorted]

AdviceInit ==
  /\ books \in FirstBooks
  /\ \E days \in FirstDays : \E s \in Readings :
       market = Detected(s, days) /\ history = RecordedFor(days, Classified(s).name, TRUE)
  /\ advice = NoAdvice /\ bought = {} /\ disturbed = FALSE
  /\ disturbances = 0 /\ asks = 0

Advise(answer) ==
  /\ asks < MaxAdvice
  /\ advice' = answer /\ bought' = {} /\ disturbed' = FALSE
  /\ UNCHANGED <<books, market, history, disturbances>>

Follow(answer) == asks' = asks + 1 /\ Advise(answer)

\* Answers nothing is bought on: the bound lets no advice follow them.
Read(answer) == asks' = MaxAdvice /\ Advise(answer)

AskForSizes ==
  \E basket \in Baskets : \E timing \in [basket -> Multipliers] : Follow(Sized(basket, timing))

AskForBasket == \E basket \in Baskets : Follow(Constructed(basket))

\* The weights of an ideal portfolio: nothing is bought on them.
AskForBudget ==
  \E basket \in Baskets :
    Read([NoAdvice EXCEPT !.kind = "budget", !.sizes = Budget(basket), !.status = BudgetStatus(basket)])

\* The review looks at market prices, which none of the other tools does.
AskForReview ==
  \E x \in Stocks : \E persona \in Personas : \E move \in Moves :
    LET values == [books EXCEPT !.cost = [y \in Stocks |-> Rounded(@[y] * move, 100)]]
    IN  Read([NoAdvice EXCEPT !.kind = IF move = 100 THEN "review" ELSE "moved", !.about = x,
                              !.status = Reviewed(x, values, persona).decision])

\* The user buys one of the advised sizes, at a price its cost then tells.
BuyAdvised ==
  \E x \in DOMAIN advice.sizes \ bought :
    LET amount == (advice.sizes[x] * Total(books)) \div Hundred
    IN  /\ advice.kind # "budget" /\ 0 < amount /\ amount <= books.cash
        /\ books' = [cash |-> books.cash - amount, cost |-> [books.cost EXCEPT ![x] = @ + amount]]
        /\ bought' = bought \cup {x}
        /\ UNCHANGED <<market, history, advice, disturbed, disturbances, asks>>

\* Bounded: what comes after the last advice is not looked at.
Disturb ==
  /\ disturbances < MaxDisturbances /\ asks < MaxAdvice
  /\ disturbances' = disturbances + 1
  /\ disturbed' = TRUE
  /\ UNCHANGED <<advice, bought, asks>>

DepositCash == Disturb /\ books' = [books EXCEPT !.cash = @ + Deposit] /\ UNCHANGED <<market, history>>

\* The answer was half an hour old: the next tool that asks detects anew, on the
\* same day or another.  Whether it could be recorded is not looked at.
ShiftRegime ==
  \E s \in Readings : \E newDay, saved \in BOOLEAN :
    /\ market' = Detected(s, history)
    /\ history' = IF saved THEN RecordedFor(history, Classified(s).name, newDay) ELSE history
    /\ Disturb /\ UNCHANGED books

LoseBenchmarks == market' = Fallback /\ Disturb /\ UNCHANGED <<books, history>>

AdviceNext == AskForSizes \/ AskForBasket \/ AskForBudget \/ AskForReview \/ BuyAdvised \/ DepositCash \/ ShiftRegime
                \/ LoseBenchmarks

AdviceSpec == AdviceInit /\ [][AdviceNext]_adviceVars

-----------------------------------------------------------------------------
Tighter(p, q) ==
  /\ p.cash >= q.cash /\ p.position <= q.position /\ p.turnover <= q.turnover
  /\ p.added <= q.added

\* Of the policy as the market m turns to n.
OnlyTightened(m, n) ==
  \A persona \in Personas :
    LET p == Policy(m, persona)
        q == Policy(n, persona)
        e == EffectiveEnvelope(n, persona)
    IN  /\ q.cash >= Least({e.cash, 350}) /\ q.position <= Most({e.position, 80})
        /\ q.turnover <= Most({e.turnover, 50})
        /\ Emergency(n) => /\ q.cash >= Crisis.cash /\ q.position <= Crisis.position
                           /\ q.turnover <= Crisis.turnover /\ q.added = 0 /\ q.suppress
        /\ n.regime = m.regime /\ n.sure < m.sure => Tighter(q, p) \/ (p.emergency /\ ~q.emergency)

(* Whatever the regime turns to, the policy only tightens what the         *)
(* envelope allows, but for its own bounds, and an emergency is one for    *)
(* both; and where the same regime is detected with less confidence, no    *)
(* limit loosens, unless an emergency ends by it.                          *)
DoubtOnlyTightens == [][market' # market => OnlyTightened(market, market')]_market

(* Advice that was followed, however far, on books and in a market that    *)
(* did not change meanwhile leaves the portfolio within the limits it was  *)
(* given: the reserve is kept, unless the simulation warned, and no sector *)
(* that was bought is above its cap, up to the rounding of one part per    *)
(* size.  A basket that passed the simulation keeps its sectors where the  *)
(* review of an idea, whatever the persona, finds nothing to warn of.      *)
(* Stocks whose sector nobody recorded are advised on as of sector         *)
(* "Other": of them this is not true.                                      *)
FollowedAdviceFits ==
  LET slack == Cardinality(DOMAIN advice.sizes)
  IN  ~disturbed /\ bought # {} /\ advice.known /\ advice.status # "FAIL" =>
        /\ advice.kind = "sized" \/ advice.status = "PASS" => CashPart(books) >= advice.limits.cash - slack
        /\ \A x \in bought :
             /\ SectorPart(SectorOf[x], books) <= advice.limits.sector[SectorOf[x]] + slack
             /\ advice.kind = "constructed" /\ advice.status = "PASS" =>
                  \A persona \in Personas : Reviewed(x, books, persona).sector = "PASS"

(* An idea that is approved at cost fits the least share of a basket, if   *)
(* its sector is recorded and there is the cash.                           *)
ApprovedIdeasFit ==
  ~disturbed /\ advice.kind = "review" /\ advice.status = "APPROVE" /\ Known(advice.about) =>
    Simulated({advice.about}, Least(EqualShares), EffectiveEnvelope(market, Balanced)) # "FAIL"
      \/ CashPart(books) < Least(EqualShares)

(* The weights of a budget come to the whole, but for those that are       *)
(* capped, and none that is risky is above its cap.                        *)
BudgetsAddUp ==
  LET basket == DOMAIN advice.sizes
      slack  == Cardinality(basket)
  IN  advice.kind = "budget" =>
        /\ Added(advice.sizes, basket) <= Hundred + slack
        /\ \A x \in basket : Analyses[x].ta + Analyses[x].fa < 39 => advice.sizes[x] <= RiskyCap
        /\ advice.status = "PASS" => Added(advice.sizes, basket) >= Hundred - slack

AdviceHoldsUp == FollowedAdviceFits /\ ApprovedIdeasFit /\ BudgetsAddUp
=============================================================================

----------------------------- MODULE MCPlanning -----------------------------
(* What the optimizer plans, how a plan is paid for, and what the advice   *)
(* given beside it is worth, one of them in each behaviour: they meet only *)
(* in what a user has acted on.                                            *)
EXTENDS OptimizerPlan, ExecutionPlan, PortfolioAdvice

VARIABLE planner

CONSTANTS aot, bbl, cpall, delta, tech, other

MCSector == (aot :> tech) @@ (bbl :> tech)
MCPlace == (aot :> 1) @@ (bbl :> 2)
MCPortfolios == {aot :> 20, (aot :> 12) @@ (bbl :> 8), [s \in {} |-> 0]}
Envelope(by, emergency, most, reserve, sector, execution) ==
  [by |-> by, emergency |-> emergency, position |-> most, cash |-> reserve,
   sector |-> tech :> sector, execution |-> [s \in Symbols |-> execution]]
MCEnvelopes ==
  {Envelope("policy", FALSE, 13, 4, 40, 14), Envelope("policy", TRUE, 10, 4, 40, 40),
   Envelope("regime", FALSE, 10, 6, 13, 40), Envelope("nothing", FALSE, 20, 0, 40, 40)}

MCRank == (aot :> 1) @@ (bbl :> 2) @@ (cpall :> 3) @@ (delta :> 4)
Holding(shares, cost) == [shares |-> shares, cost |-> cost]
MCHoldings ==
  {(aot :> Holding(4, 25)) @@ (bbl :> Holding(8, 25)) @@ (cpall :> Holding(6, 50)), aot :> Holding(7, 30)}

(* 76: a cent more than two reductions release; 51: as one, and a cent.    *)
MCDeployments ==
  {delta :> 51, delta :> 76, delta :> 700, (aot :> 60) @@ (delta :> 40)}

Sound == [found |-> "RESOLVED", complete |-> TRUE, receipts |-> 0, index |-> FALSE, tradable |-> TRUE,
          lot |-> 2, fractional |-> "NO", currency |-> "THB", exchange |-> "SET"]
MCRegistries ==
  {[s \in Instruments |-> view] : view \in
     {Sound, [Sound EXCEPT !.lot = 5], [Sound EXCEPT !.found = "ERROR"], [Sound EXCEPT !.exchange = "NYSE"]}}
  \cup {(aot :> [Sound EXCEPT !.receipts = 2]) @@ (bbl :> [Sound EXCEPT !.index = TRUE])
          @@ (cpall :> [Sound EXCEPT !.lot = 0]) @@ (delta :> Sound)}

Paid(kind, currency, timed, age) ==
  [kind |-> kind, price |-> 9, currency |-> currency, timed |-> timed, age |-> age]
MCPayloads ==
  {Paid("MARKET_LAST", "THB", TRUE, age) : age \in {0, 2, 3}}
    \cup {Paid("MARKET_LAST", "USD", TRUE, 0), Paid("MARKET_LAST", "none", TRUE, 0),
          Paid("MARKET_LAST", "THB", FALSE, 0), Paid("MARKET_CLOSE", "THB", FALSE, 0)}

MCSectorOf == (aot :> tech) @@ (bbl :> tech) @@ (cpall :> other)
MCSectorLimits == (tech :> 400) @@ (other :> 200)
Analysis(signal, confidence, ta, fa, alignment) ==
  [signal |-> signal, confidence |-> confidence, ta |-> ta, fa |-> fa, alignment |-> alignment]
MCAnalyses ==
  (aot :> Analysis("BUY", "high", 90, 80, 2)) @@ (bbl :> Analysis("REDUCE", "medium", 10, 20, -1))
    @@ (cpall :> Analysis("WATCH", "low", 50, 50, 1))
MCPersonas ==
  {[cash |-> 50, position |-> 250, turnover |-> 400, eagerness |-> 50],
   [cash |-> 30, position |-> 285, turnover |-> 900, eagerness |-> 90]}
Reading(trend, vol, drawdown, momentum, z, vix) ==
  [trend |-> trend, vol |-> vol, drawdown |-> drawdown, momentum |-> momentum, dispersion |-> 60,
   z |-> z, vix |-> vix]
MCReadings ==
  {Reading(90, 80, 90, 70, 0, 15), Reading(50, 50, 60, 50, 0, 20), Reading(60, 60, 90, 60, 0, 20),
   Reading(40, 30, 15, 30, 90, 26), Reading(30, 15, 40, 20, 220, 32)}
MCFirstDays == {<<"SIDEWAYS", "RISK_ON">>}
MCBaskets == {{bbl}, {aot, cpall}}
MCFirstBooks ==
  {[cash |-> 1000, cost |-> [s \in {aot, bbl, cpall} |-> 0]],
   [cash |-> 600, cost |-> (aot :> 250) @@ (bbl :> 0) @@ (cpall :> 150)],
   [cash |-> 60, cost |-> (aot :> 350) @@ (bbl :> 0) @@ (cpall :> 590)]}

\* What is not asked of the planner of a behaviour stays as it is.
PlanningInit ==
  /\ PlanInit /\ ExecutionInit /\ AdviceInit
  /\ planner \in {"optimizer", "workspace", "advice"}
  /\ planner # "optimizer" => held = NoRows
  /\ planner # "advice" =>
       /\ books = CHOOSE x \in FirstBooks : TRUE
       /\ market = Detected(CHOOSE x \in Readings : TRUE, <<>>)

PlanningNext ==
  \/ planner = "optimizer" /\ PlanNext /\ UNCHANGED <<executionVars, adviceVars, planner>>
  \/ planner = "workspace" /\ ExecutionNext /\ UNCHANGED <<planVars, adviceVars, planner>>
  \/ planner = "advice" /\ AdviceNext /\ UNCHANGED <<planVars, executionVars, planner>>

PlanningSpec == PlanningInit /\ [][PlanningNext]_<<planVars, executionVars, adviceVars, planner>>
=============================================================================

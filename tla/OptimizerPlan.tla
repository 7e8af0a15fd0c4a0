--------------------------- MODULE OptimizerPlan ---------------------------
(***************************************************************************)
(* From what the model of layer 2 proposes to the plan that is saved: the  *)
(* passes of run_layered_optimizer over the proposed rows, one after the   *)
(* other and each on what the last one left, the plan of the emergency     *)
(* fallback, which takes only some of them, and the stabilization layer    *)
(* that decides whether the run counts as a rebalancing.  Weights are      *)
(* whole units, Whole of them the whole.  Those of the holdings leave cash *)
(* out (_compute_portfolio_weights), so together they are always Whole.    *)
(***************************************************************************)
EXTENDS Integers, FiniteSets, FiniteSetsExt, Functions

CONSTANTS
  Symbols,
  Sector,              \* sector of each symbol
  Place,               \* where a symbol's row stands in a plan
  Portfolios,          \* current weights: functions from sets of Symbols
  Labels, Targets,     \* actions and weights a model may propose
  Envelopes,           \* limits a run may be given
  Whole,
  Slack,               \* a move of less than 1% either way keeps no label
  Drift,               \* DRIFT_THRESHOLD_PCT
  CooldownDays

Growing == {"BUY", "ACCUMULATE"}
Neutral == {"HOLD", "WATCH"}
Actions == Growing \cup Neutral \cup {"REDUCE", "SELL"}

ASSUME PlanAssumption ==
  /\ IsFiniteSet(Symbols) /\ Place \in [Symbols -> Nat]
  /\ Labels \subseteq Actions /\ Targets \subseteq Nat
  /\ Whole \in Nat /\ Slack \in Nat
  /\ \A p \in Portfolios :
       /\ DOMAIN p \subseteq Symbols /\ p \in [DOMAIN p -> 0..Whole]
       /\ DOMAIN p # {} => MapThenSumSet(LAMBDA s : p[s], DOMAIN p) = Whole
  /\ \A e \in Envelopes :
       /\ e.by \in {"policy", "regime", "nothing"} /\ e.emergency \in BOOLEAN
       /\ e.position \in 0..Whole /\ e.cash \in 0..Whole
       /\ \A s \in Symbols : e.sector[Sector[s]] \in Nat /\ e.execution[s] \in Nat

VARIABLES
  stage,       \* the pass that comes next
  held,        \* pc_map: weights in the portfolio
  selling,     \* held symbols with a SELL signal
  locked,      \* held symbols that may not be swapped
  limits,      \* the envelope of this run
  rescued,     \* the plan is that of the single-shot fallback
  asked,       \* the rows as the model proposed them
  rows,        \* final_allocations
  status,
  since        \* days since the last saved REBALANCE, CooldownDays when none counts

planVars == <<stage, held, selling, locked, limits, rescued, asked, rows, status, since>>

NoRows == [s \in {} |-> 0]

(* The fallback is given no envelope, and no pass that would read one runs. *)
Unlimited ==
  [by |-> "nothing", emergency |-> FALSE, position |-> Whole, cash |-> 0,
   sector |-> [s \in {Sector[x] : x \in Symbols} |-> Whole], execution |-> [s \in Symbols |-> Whole]]

PlanInit ==
  /\ stage = "idle" /\ held \in Portfolios
  /\ selling = {} /\ locked = {} /\ limits = Unlimited /\ rescued = FALSE
  /\ asked = NoRows /\ rows = NoRows /\ status = "NONE" /\ since = CooldownDays

Current(s)  == IF s \in DOMAIN held THEN held[s] ELSE 0
Moved(row)  == row.target - row.current
Grows(s)    == rows[s].action \in Growing
Inputs      == <<held, selling, locked, limits, rescued, asked>>

-----------------------------------------------------------------------------
(* One run up to the plan of layer 2 or of the fallback.                   *)

(* The weights of holdings are the portfolio's own; only the label and the *)
(* target are the model's.  What is not held is taken to be stated as such. *)
Normalized(proposal) ==
  [s \in DOMAIN proposal |->
     [action |-> proposal[s].action, current |-> Current(s), target |-> proposal[s].target]]

Propose(proposal, sells, locks, envelope, fallback, says) ==
  /\ selling' = sells /\ locked' = locks
  /\ rescued' = fallback /\ limits' = IF fallback THEN Unlimited ELSE envelope
  /\ asked' = Normalized(proposal) /\ rows' = Normalized(proposal) /\ status' = says
  /\ stage' = "force"
  /\ UNCHANGED <<held, since>>

(* A holding with a SELL signal is sold, whatever the model made of it.    *)
ForceSells ==
  /\ stage = "force" /\ stage' = "lock"
  /\ rows' = [s \in DOMAIN rows \cup selling |->
       IF s \in selling THEN [action |-> "SELL", current |-> Current(s), target |-> 0] ELSE rows[s]]
  /\ UNCHANGED <<Inputs, status, since>>

LockedRows ==
  [s \in DOMAIN rows |->
     IF s \in locked /\ rows[s].action \notin Neutral
     THEN [rows[s] EXCEPT !.action = "HOLD", !.target = rows[s].current] ELSE rows[s]]

(* The fallback goes from here straight to the pinning of neutral rows.    *)
Lock ==
  /\ stage = "lock"
  /\ stage' = IF rescued THEN "pin" ELSE "emergency"
  /\ rows' = LockedRows
  /\ UNCHANGED <<Inputs, status, since>>

-----------------------------------------------------------------------------
(* The limits, in the order in which they are applied.                     *)

Freeze ==
  /\ stage = "emergency" /\ stage' = "position"
  /\ rows' = IF limits.by = "policy" /\ limits.emergency
             THEN [s \in DOMAIN rows |->
                     IF Grows(s) THEN [rows[s] EXCEPT !.action = "HOLD", !.target = rows[s].current] ELSE rows[s]]
             ELSE rows
  /\ UNCHANGED <<Inputs, status, since>>

Capped(cap) ==
  [s \in DOMAIN rows |->
     IF Grows(s) /\ rows[s].target > cap[s] THEN [rows[s] EXCEPT !.target = cap[s]] ELSE rows[s]]

CapPositions ==
  /\ stage = "position" /\ stage' = "cash"
  /\ rows' = IF limits.by = "nothing" THEN rows ELSE Capped([s \in Symbols |-> limits.position])
  /\ UNCHANGED <<Inputs, status, since>>

(* What rows add up to that are not sold altogether.                       *)
Invested(plan, among) ==
  SumFunctionOnSet([s \in DOMAIN plan |-> plan[s].target],
                   {s \in DOMAIN plan \cap among : plan[s].action # "SELL"})

(* The growing rows that an excess is taken from before it comes to s: the *)
(* larger ones, and of the same size those that stand before it.           *)
Ahead(s, among) ==
  {x \in DOMAIN rows \cap among :
     /\ Grows(x)
     /\ \/ rows[x].target > rows[s].target
        \/ rows[x].target = rows[s].target /\ Place[x] < Place[s]}

(* What a growing row loses: as far as the excess still reaches.           *)
Cut(s, among, excess) ==
  LET left == excess - SumFunctionOnSet([x \in DOMAIN rows |-> rows[x].target], Ahead(s, among))
  IN  IF left <= 0 THEN 0 ELSE IF rows[s].target < left THEN rows[s].target ELSE left

Trimmed(among, excess) ==
  [s \in DOMAIN rows |->
     IF s \in among /\ Grows(s) THEN [rows[s] EXCEPT !.target = @ - Cut(s, among, excess)] ELSE rows[s]]

(* Mutant: sold rows still count, and the trim stops at the first row.     *)
KeepSomeCash == Invested(rows, Symbols) - Whole

CashExcess == Invested(rows, Symbols) - (Whole - limits.cash)

KeepCash ==
  /\ stage = "cash" /\ stage' = "sector"
  /\ rows' = IF limits.by = "nothing" THEN rows ELSE Trimmed(Symbols, CashExcess)
  /\ UNCHANGED <<Inputs, status, since>>

(* Every sector's excess is that of the rows before any of them is cut.    *)
CapSectors ==
  /\ stage = "sector" /\ stage' = "execution"
  /\ LET members(c) == {s \in Symbols : Sector[s] = c}
         cut(s) == Trimmed(members(Sector[s]), Invested(rows, members(Sector[s])) - limits.sector[Sector[s]])
     IN  rows' = [s \in DOMAIN rows |-> cut(s)[s]]
  /\ UNCHANGED <<Inputs, status, since>>

CapExecution ==
  /\ stage = "execution" /\ stage' = "relabel"
  /\ rows' = Capped(limits.execution)
  /\ UNCHANGED <<Inputs, status, since>>

(* Limits change targets only, so labels are made to agree afterwards.     *)
Label(row) ==
  IF row.action \in Growing /\ Moved(row) < -Slack THEN "REDUCE"
  ELSE IF row.action \in Growing /\ Moved(row) <= 0 THEN "HOLD"
  ELSE IF row.action = "REDUCE" /\ Moved(row) > Slack THEN "ACCUMULATE"
  ELSE row.action

Relabel ==
  /\ stage = "relabel" /\ stage' = "pin"
  /\ rows' = [s \in DOMAIN rows |-> [rows[s] EXCEPT !.action = Label(rows[s])]]
  /\ UNCHANGED <<Inputs, status, since>>

(* _snap_neutral_actions: a conviction is no instruction to trade.         *)
Pinned(row) == IF row.action \in Neutral THEN [row EXCEPT !.target = row.current] ELSE row

(* A model that says NO_ACTION and moves capital is corrected, except in   *)
(* the fallback.                                                           *)
Pin ==
  /\ stage = "pin" /\ stage' = "stabilize"
  /\ rows' = [s \in DOMAIN rows |-> Pinned(rows[s])]
  /\ status' = IF /\ status = "NO_ACTION" /\ ~rescued
                  /\ \E s \in DOMAIN rows' : rows'[s].action \notin Neutral
               THEN "REBALANCE" ELSE status
  /\ UNCHANGED <<Inputs, since>>

-----------------------------------------------------------------------------
(* The stabilization layer and the history row.                            *)

(* A target of zero reads as no target at all.                             *)
DriftOf(row) ==
  IF row.target = 0 THEN 0 ELSE IF Moved(row) < 0 THEN -Moved(row) ELSE Moved(row)

WithinTolerance(row) == row.action # "SELL" /\ DriftOf(row) < Drift

(* A fallback plan is of so little confidence that it never waits for the  *)
(* cooldown; urgent stands for the other reasons not to.                   *)
CoolingDown(urgent) ==
  since < CooldownDays /\ ~(urgent \/ rescued \/ (limits.by = "policy" /\ limits.emergency))

(* Mutant: the costs are weighed first.                                    *)
StableStatusByCost(unsafe, urgent, force, worth) ==
  IF force THEN "REBALANCE"
  ELSE IF status = "NO_ACTION" THEN status
  ELSE IF ~worth THEN "NO_REBALANCE_REQUIRED"
  ELSE IF CoolingDown(urgent) THEN "COOLDOWN_ACTIVE"
  ELSE status

(* unsafe: policy violations or grave risk flags; force: the user insists; *)
(* worth: the expected benefit exceeds the costs.                          *)
StableStatus(unsafe, urgent, force, worth) ==
  LET quiet == \A s \in DOMAIN rows : WithinTolerance(rows[s])
      sells == \E s \in DOMAIN rows : rows[s].action = "SELL"
  IN  IF force THEN "REBALANCE"
      ELSE IF status = "NO_ACTION" THEN status
      ELSE IF quiet /\ ~unsafe THEN "NO_REBALANCE_REQUIRED"
      ELSE IF CoolingDown(urgent) THEN "COOLDOWN_ACTIVE"
      ELSE IF ~sells /\ ~unsafe /\ ~worth THEN "NO_REBALANCE_REQUIRED"
      ELSE status

Stabilize(unsafe, urgent, force, worth) ==
  /\ stage = "stabilize" /\ stage' = "save"
  /\ status' = StableStatus(unsafe, urgent, force, worth)
  /\ UNCHANGED <<Inputs, rows, since>>

(* A layer that raises is left out.                                        *)
StabilizationFails ==
  /\ stage = "stabilize" /\ stage' = "save"
  /\ UNCHANGED <<Inputs, rows, status, since>>

(* The row's status is what the next run's cooldown starts from.           *)
Save ==
  /\ stage = "save" /\ stage' = "idle"
  /\ since' = IF status = "REBALANCE" THEN 0 ELSE since
  /\ selling' = {} /\ locked' = {} /\ rescued' = FALSE /\ asked' = NoRows /\ rows' = NoRows
  /\ limits' = Unlimited
  /\ status' = "NONE"
  /\ UNCHANGED held

NextDay ==
  /\ stage = "idle" /\ since < CooldownDays
  /\ since' = since + 1
  /\ UNCHANGED <<stage, Inputs, rows, status>>

Proposals ==
  UNION {[D -> [action : Labels, target : Targets]] : D \in SUBSET Symbols}

Run ==
  /\ stage = "idle"
  /\ \E proposal \in Proposals, sells \in SUBSET DOMAIN held, locks \in SUBSET DOMAIN held,
        says \in {"REBALANCE", "NO_ACTION"} :
       \/ \E e \in Envelopes : Propose(proposal, sells, locks, e, FALSE, says)
       \/ Propose(proposal, sells, locks, Unlimited, TRUE, says)

PlanNext ==
  \/ Run
  \/ ForceSells \/ Lock \/ Freeze \/ CapPositions \/ KeepCash \/ CapSectors \/ CapExecution
  \/ Relabel \/ Pin
  \/ \E unsafe, urgent, force, worth \in BOOLEAN : Stabilize(unsafe, urgent, force, worth)
  \/ StabilizationFails
  \/ Save \/ NextDay

PlanSpec == PlanInit /\ [][PlanNext]_planVars

-----------------------------------------------------------------------------
Planned == stage \in {"stabilize", "save"}

(* What the user and the scores decide survives every later pass, and the  *)
(* fallback: a locked holding is never traded, not even on a SELL signal,  *)
(* and any other holding with a SELL signal is sold altogether.            *)
LocksAndSignalsWin ==
  Planned =>
    /\ \A s \in locked \cap DOMAIN rows : rows[s].action \in Neutral /\ Moved(rows[s]) = 0
    /\ \A s \in selling \ locked : s \in DOMAIN rows /\ rows[s].action = "SELL" /\ rows[s].target = 0

(* Rows whose proposal says what it does: neutral rows keep their weight,  *)
(* reductions do not grow.                                                 *)
Coherent ==
  \A s \in DOMAIN asked :
    /\ asked[s].action \in Neutral => Moved(asked[s]) = 0
    /\ asked[s].action \in {"REDUCE", "SELL"} => Moved(asked[s]) <= 0

(* A coherent proposal leaves the layered pipeline within its limits: no   *)
(* row grows beyond the position or execution limit, none grows in an      *)
(* emergency, and if the cash floor is not met (up to what relabelled rows *)
(* get back) then no row grows at all, however limits interact.            *)
LimitsHold ==
  Planned /\ ~rescued /\ Coherent =>
    LET growing == {s \in DOMAIN rows : Grows(s)}
    IN  /\ \A s \in growing : Moved(rows[s]) > 0 /\ rows[s].target <= limits.execution[s]
        /\ limits.by # "nothing" =>
             /\ \A s \in growing : rows[s].target <= limits.position
             /\ \/ Invested(rows, Symbols) <= Whole - limits.cash + Slack * Cardinality(DOMAIN rows)
                \/ growing = {}
        /\ limits.by = "policy" /\ limits.emergency => growing = {}

(* A run that must sell is never recorded as one with nothing to do:       *)
(* neither the model's own NO_ACTION, nor the tolerance, nor the costs     *)
(* hide a sale that a SELL signal forces; only the cooldown may.           *)
ForcedSalesAreReported ==
  stage = "save" /\ selling \ locked # {} /\ ~rescued =>
    status \in {"REBALANCE", "COOLDOWN_ACTIVE"}

(* What users and scores decide is done, and said to have been done.       *)
DecisionsSurvive == LocksAndSignalsWin /\ ForcedSalesAreReported
=============================================================================

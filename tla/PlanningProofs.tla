---------------------------- MODULE PlanningProofs ----------------------------
(***************************************************************************)
(* Theorems about the plan of the optimizer, for any symbols, portfolios,  *)
(* envelopes, labels and weights a model may propose; about how buys are   *)
(* funded and traded, for any holdings, signals and quotes; about the      *)
(* policy, for any readings of the market; and about the advice given      *)
(* beside the plan, for any books, analyses and limits.                    *)
(***************************************************************************)
EXTENDS OptimizerPlan, ExecutionPlan, PortfolioAdvice, SetLemmas

-----------------------------------------------------------------------------
(* Rows.                                                                   *)

IsRow(row) ==
  /\ row = [action |-> row.action, current |-> row.current, target |-> row.target]
  /\ row.current \in Int

LEMMA Retargeted ==
  ASSUME NEW row, IsRow(row), NEW weight
  PROVE  LET new == [row EXCEPT !.target = weight]
         IN  IsRow(new) /\ new.action = row.action /\ new.current = row.current /\ new.target = weight
BY DEF IsRow

LEMMA Relabelled ==
  ASSUME NEW row, IsRow(row), NEW label
  PROVE  LET new == [row EXCEPT !.action = label]
         IN  IsRow(new) /\ new.action = label /\ new.current = row.current /\ new.target = row.target
BY DEF IsRow

LEMMA Held ==
  ASSUME NEW row, IsRow(row)
  PROVE  LET new == [row EXCEPT !.action = "HOLD", !.target = row.current]
         IN  /\ IsRow(new) /\ new.action = "HOLD" /\ new.current = row.current
             /\ new.target = row.current /\ Moved(new) = 0
<1>. DEFINE mid == [row EXCEPT !.action = "HOLD"]
            new == [mid EXCEPT !.target = row.current]
<1>1. IsRow(mid) /\ mid.action = "HOLD" /\ mid.current = row.current
  BY Relabelled
<1>. HIDE DEF mid
<1>2. IsRow(new) /\ new.action = "HOLD" /\ new.current = row.current /\ new.target = row.current
  BY <1>1, Retargeted
<1>3. row.current - row.current = 0
  BY DEF IsRow
<1>4. Moved(new) = 0
  BY <1>2, <1>3 DEF Moved
<1>5. [row EXCEPT !.action = "HOLD", !.target = row.current] = new
  BY DEF mid
<1>. HIDE DEF new
<1>. QED BY <1>2, <1>4, <1>5

(* What a pass may do to a row: change the label and the weight of one     *)
(* that trades, but neither make a sale something else nor move a row that *)
(* holds.                                                                  *)
Passes(row, new) ==
  /\ IsRow(new)
  /\ row.action = "SELL" => new.action = "SELL" /\ new.target = row.target
  /\ row.action \in Neutral => new.action \in Neutral

LEMMA SameRowPasses == ASSUME NEW row, IsRow(row) PROVE Passes(row, row)
BY DEF Passes

-----------------------------------------------------------------------------
(* The invariant.                                                          *)

Stages == {"idle", "force", "lock", "emergency", "position", "cash", "sector", "execution",
           "relabel", "pin", "stabilize", "save"}
Locked == Stages \ {"idle", "force", "lock"}

(* Forced sales are there from the first pass on, and locked rows hold     *)
(* from the second.                                                        *)
SalesStand ==
  /\ stage \in Stages \ {"idle", "force"} =>
       \A s \in selling : /\ s \in DOMAIN rows
                          /\ s \notin locked => rows[s].action = "SELL" /\ rows[s].target = 0
  /\ stage \in Locked => \A s \in locked \cap DOMAIN rows : rows[s].action \in Neutral

PlanInv ==
  /\ stage \in Stages
  /\ held \in Portfolios
  /\ \A s \in DOMAIN rows : IsRow(rows[s])
  /\ SalesStand
  /\ stage \notin {"idle", "save"} => status \in {"REBALANCE", "NO_ACTION"}
  /\ stage = "stabilize" /\ selling \ locked # {} /\ ~rescued => status = "REBALANCE"
  /\ LocksAndSignalsWin
  /\ ForcedSalesAreReported

LEMMA WeightsOfHoldings == ASSUME held \in Portfolios, NEW s PROVE Current(s) \in Int
<1>1. held \in [DOMAIN held -> 0..Whole] /\ Whole \in Nat
  BY PlanAssumption
<1>2. CASE s \in DOMAIN held
  <2>1. held[s] \in 0..Whole
    BY <1>1, <1>2
  <2>. QED BY <1>1, <1>2, <2>1 DEF Current
<1>3. CASE s \notin DOMAIN held
  BY <1>3 DEF Current
<1>. QED BY <1>2, <1>3

(* A pass between the lock and the pinning of neutral rows.                *)
LEMMA PassInv ==
  ASSUME PlanInv, stage \in Locked \ {"pin", "stabilize", "save"},
         stage' \in Locked \ {"stabilize", "save"},
         DOMAIN rows' = DOMAIN rows,
         \A s \in DOMAIN rows : Passes(rows[s], rows'[s]),
         UNCHANGED <<Inputs, status, since>>
  PROVE  PlanInv'
<1>1. stage \notin {"idle", "force", "lock", "save", "stabilize"} /\ stage \in Stages
      /\ stage' \notin {"idle", "force", "lock", "save", "stabilize"} /\ stage' \in Stages
  BY DEF Locked
<1>2. UNCHANGED <<held, selling, locked, limits, rescued, asked, status>>
  BY DEF Inputs
<1>3. \A s \in DOMAIN rows' : IsRow(rows'[s])
  BY DEF Passes
<1>4. SalesStand'
  BY <1>1, <1>2 DEF PlanInv, SalesStand, Passes, Locked
<1>5. LocksAndSignalsWin' /\ ForcedSalesAreReported'
  BY <1>1 DEF LocksAndSignalsWin, ForcedSalesAreReported, Planned
<1>. QED BY <1>1, <1>2, <1>3, <1>4, <1>5 DEF PlanInv

LEMMA TrimmedPasses ==
  ASSUME \A s \in DOMAIN rows : IsRow(rows[s]), NEW among, NEW excess
  PROVE  /\ DOMAIN Trimmed(among, excess) = DOMAIN rows
         /\ \A s \in DOMAIN rows : Passes(rows[s], Trimmed(among, excess)[s])
<1>1. ASSUME NEW s \in DOMAIN rows PROVE Passes(rows[s], Trimmed(among, excess)[s])
  <2>. DEFINE weight == rows[s].target - Cut(s, among, excess)
  <2>1. CASE s \in among /\ Grows(s)
    <3>1. Trimmed(among, excess)[s] = [rows[s] EXCEPT !.target = weight]
      BY <2>1 DEF Trimmed
    <3>2. rows[s].action \in Growing /\ IsRow(rows[s])
      BY <2>1 DEF Grows
    <3>. HIDE DEF weight
    <3>. QED BY <3>1, <3>2, Retargeted DEF Passes, Growing, Neutral
  <2>2. CASE ~(s \in among /\ Grows(s))
    BY <2>2, SameRowPasses DEF Trimmed
  <2>. QED BY <2>1, <2>2
<1>. QED BY <1>1 DEF Trimmed

LEMMA CappedPasses ==
  ASSUME \A s \in DOMAIN rows : IsRow(rows[s]), NEW cap
  PROVE  /\ DOMAIN Capped(cap) = DOMAIN rows
         /\ \A s \in DOMAIN rows : Passes(rows[s], Capped(cap)[s])
<1>1. ASSUME NEW s \in DOMAIN rows PROVE Passes(rows[s], Capped(cap)[s])
  <2>1. CASE Grows(s) /\ rows[s].target > cap[s]
    <3>1. Capped(cap)[s] = [rows[s] EXCEPT !.target = cap[s]]
      BY <2>1 DEF Capped
    <3>2. rows[s].action \in Growing /\ IsRow(rows[s])
      BY <2>1 DEF Grows
    <3>. QED BY <3>1, <3>2, Retargeted DEF Passes, Growing, Neutral
  <2>2. CASE ~(Grows(s) /\ rows[s].target > cap[s])
    BY <2>2, SameRowPasses DEF Capped
  <2>. QED BY <2>1, <2>2
<1>. QED BY <1>1 DEF Capped

LEMMA LabelPasses ==
  ASSUME NEW row, IsRow(row)
  PROVE  Passes(row, [row EXCEPT !.action = Label(row)])
<1>1. row.action = "SELL" \/ row.action \in Neutral => Label(row) = row.action
  BY DEF Label, Growing, Neutral
<1>. QED BY <1>1, Relabelled DEF Passes

-----------------------------------------------------------------------------
(* Steps.                                                                  *)

LEMMA PlanInitInv == PlanInit => PlanInv
BY DEF PlanInit, PlanInv, Stages, Locked, SalesStand, NoRows, LocksAndSignalsWin,
   ForcedSalesAreReported, Planned

LEMMA RunInv == ASSUME PlanInv, Run PROVE PlanInv'
<1>1. PICK proposal, sells, locks, envelope, fallback, says :
        says \in {"REBALANCE", "NO_ACTION"} /\ Propose(proposal, sells, locks, envelope, fallback, says)
  BY DEF Run
<1>2. /\ stage' = "force" /\ held' = held /\ status' = says
      /\ rows' = Normalized(proposal)
  BY <1>1 DEF Propose
<1>3. \A s \in DOMAIN rows' : IsRow(rows'[s])
  <2>1. \A s \in DOMAIN proposal : Normalized(proposal)[s] =
          [action |-> proposal[s].action, current |-> Current(s), target |-> proposal[s].target]
    BY DEF Normalized
  <2>. QED BY <1>2, <2>1, WeightsOfHoldings DEF PlanInv, Normalized, IsRow
<1>. QED BY <1>1, <1>2, <1>3 DEF PlanInv, Stages, Locked, SalesStand, LocksAndSignalsWin,
         ForcedSalesAreReported, Planned

LEMMA ForceSellsInv == ASSUME PlanInv, ForceSells PROVE PlanInv'
<1>1. /\ stage = "force" /\ stage' = "lock"
      /\ UNCHANGED <<held, selling, locked, limits, rescued, asked, status>>
      /\ DOMAIN rows' = DOMAIN rows \cup selling
  BY DEF ForceSells, Inputs
<1>2. ASSUME NEW s \in selling
      PROVE  rows'[s] = [action |-> "SELL", current |-> Current(s), target |-> 0]
  BY DEF ForceSells
<1>3. \A s \in DOMAIN rows \ selling : rows'[s] = rows[s]
  BY DEF ForceSells
<1>4. \A s \in DOMAIN rows' : IsRow(rows'[s])
  BY <1>1, <1>2, <1>3, WeightsOfHoldings DEF PlanInv, IsRow
<1>5. SalesStand'
  BY <1>1, <1>2 DEF SalesStand, Locked
<1>. QED BY <1>1, <1>4, <1>5 DEF PlanInv, Stages, LocksAndSignalsWin, ForcedSalesAreReported, Planned

LEMMA LockInv == ASSUME PlanInv, Lock PROVE PlanInv'
<1>1. /\ stage = "lock" /\ stage' \in {"pin", "emergency"}
      /\ UNCHANGED <<held, selling, locked, limits, rescued, asked, status>>
      /\ rows' = LockedRows /\ DOMAIN rows' = DOMAIN rows
  BY DEF Lock, Inputs, LockedRows
<1>2. ASSUME NEW s \in DOMAIN rows
      PROVE  /\ IsRow(rows'[s])
             /\ s \in locked => rows'[s].action \in Neutral
             /\ s \notin locked => rows'[s] = rows[s]
  <2>1. IsRow(rows[s])
    BY DEF PlanInv
  <2>2. CASE s \in locked /\ rows[s].action \notin Neutral
    <3>1. rows'[s] = [rows[s] EXCEPT !.action = "HOLD", !.target = rows[s].current]
      BY <1>1, <2>2 DEF LockedRows
    <3>. QED BY <2>1, <2>2, <3>1, Held DEF Neutral
  <2>3. CASE ~(s \in locked /\ rows[s].action \notin Neutral)
    BY <1>1, <2>1, <2>3 DEF LockedRows
  <2>. QED BY <2>2, <2>3
<1>3. SalesStand'
  BY <1>1, <1>2 DEF PlanInv, SalesStand, Locked, Stages
<1>. QED BY <1>1, <1>2, <1>3 DEF PlanInv, Stages, LocksAndSignalsWin, ForcedSalesAreReported, Planned

LEMMA LimitsInv ==
  ASSUME PlanInv, Freeze \/ CapPositions \/ KeepCash \/ CapSectors \/ CapExecution \/ Relabel
  PROVE  PlanInv'
<1>1. \A s \in DOMAIN rows : IsRow(rows[s])
  BY DEF PlanInv
<1>2. \A s \in DOMAIN rows : Passes(rows[s], rows[s])
  BY <1>1, SameRowPasses
<1>3. /\ stage \in Locked \ {"pin", "stabilize", "save"}
      /\ stage' \in Locked \ {"stabilize", "save"}
      /\ UNCHANGED <<Inputs, status, since>>
  BY DEF Freeze, CapPositions, KeepCash, CapSectors, CapExecution, Relabel, Locked, Stages
<1>4. DOMAIN rows' = DOMAIN rows /\ \A s \in DOMAIN rows : Passes(rows[s], rows'[s])
  <2>1. CASE Freeze
    <3>1. CASE rows' = rows
      BY <1>2, <3>1
    <3>2. CASE rows' = [s \in DOMAIN rows |->
                 IF Grows(s) THEN [rows[s] EXCEPT !.action = "HOLD", !.target = rows[s].current] ELSE rows[s]]
      <4>1. ASSUME NEW s \in DOMAIN rows PROVE Passes(rows[s], rows'[s])
        <5>1. CASE Grows(s)
          <6>1. rows'[s] = [rows[s] EXCEPT !.action = "HOLD", !.target = rows[s].current]
            BY <3>2, <5>1
          <6>. QED BY <1>1, <5>1, <6>1, Held DEF Grows, Growing, Neutral, Passes
        <5>2. CASE ~Grows(s)
          BY <1>2, <3>2, <5>2
        <5>. QED BY <5>1, <5>2
      <4>. QED BY <3>2, <4>1
    <3>. QED BY <2>1, <3>1, <3>2 DEF Freeze
  <2>2. CASE CapPositions \/ CapExecution
    <3>1. rows' = rows \/ \E cap : rows' = Capped(cap)
      BY <2>2 DEF CapPositions, CapExecution
    <3>. QED BY <1>1, <1>2, <3>1, CappedPasses
  <2>3. CASE KeepCash
    <3>1. rows' = rows \/ \E among, excess : rows' = Trimmed(among, excess)
      BY <2>3 DEF KeepCash
    <3>. QED BY <1>1, <1>2, <3>1, TrimmedPasses
  <2>4. CASE CapSectors
    <3>1. /\ DOMAIN rows' = DOMAIN rows
          /\ \A s \in DOMAIN rows : \E among, excess : rows'[s] = Trimmed(among, excess)[s]
      BY <2>4 DEF CapSectors
    <3>. QED BY <1>1, <3>1, TrimmedPasses
  <2>5. CASE Relabel
    <3>1. /\ DOMAIN rows' = DOMAIN rows
          /\ \A s \in DOMAIN rows : rows'[s] = [rows[s] EXCEPT !.action = Label(rows[s])]
      BY <2>5 DEF Relabel
    <3>. QED BY <1>1, <3>1, LabelPasses
  <2>. QED BY <2>1, <2>2, <2>3, <2>4, <2>5
<1>. QED BY <1>3, <1>4, PassInv

LEMMA PinInv == ASSUME PlanInv, Pin PROVE PlanInv'
<1>1. /\ stage = "pin" /\ stage' = "stabilize"
      /\ UNCHANGED <<held, selling, locked, limits, rescued, asked>>
      /\ DOMAIN rows' = DOMAIN rows /\ \A s \in DOMAIN rows : rows'[s] = Pinned(rows[s])
  BY DEF Pin, Inputs
<1>2. ASSUME NEW s \in DOMAIN rows
      PROVE  /\ IsRow(rows'[s]) /\ rows'[s].action = rows[s].action
             /\ rows[s].action \in Neutral => Moved(rows'[s]) = 0
             /\ rows[s].action \notin Neutral => rows'[s] = rows[s]
  <2>1. IsRow(rows[s])
    BY DEF PlanInv
  <2>2. CASE rows[s].action \in Neutral
    <3>1. rows'[s] = [rows[s] EXCEPT !.target = rows[s].current]
      BY <1>1, <2>2 DEF Pinned
    <3>2. /\ IsRow(rows'[s]) /\ rows'[s].action = rows[s].action
          /\ rows'[s].current = rows[s].current /\ rows'[s].target = rows[s].current
      BY <2>1, <3>1, Retargeted
    <3>3. Moved(rows'[s]) = 0
      BY <2>1, <3>2 DEF Moved, IsRow
    <3>. QED BY <2>2, <3>2, <3>3
  <2>3. CASE rows[s].action \notin Neutral
    BY <1>1, <2>1, <2>3 DEF Pinned
  <2>. QED BY <2>2, <2>3
<1>3. SalesStand'
  BY <1>1, <1>2 DEF PlanInv, SalesStand, Locked, Stages, Neutral
<1>4. LocksAndSignalsWin'
  BY <1>1, <1>2 DEF PlanInv, SalesStand, LocksAndSignalsWin, Locked, Stages, Neutral
<1>5. status' \in {"REBALANCE", "NO_ACTION"}
  BY <1>1 DEF Pin, PlanInv
<1>6. ASSUME selling \ locked # {}, ~rescued PROVE status' = "REBALANCE"
  <2>1. PICK s \in selling \ locked : TRUE
    BY <1>6
  <2>2. s \in DOMAIN rows' /\ rows'[s].action = "SELL" /\ "SELL" \notin Neutral
    BY <1>1, <2>1, <1>2 DEF PlanInv, SalesStand, Stages, Neutral
  <2>3. status \in {"REBALANCE", "NO_ACTION"}
    BY <1>1 DEF PlanInv
  <2>. QED BY <1>6, <2>2, <2>3 DEF Pin
<1>. QED BY <1>1, <1>2, <1>3, <1>4, <1>5, <1>6 DEF PlanInv, Stages, ForcedSalesAreReported

(* A row that is sold is out of tolerance, so neither the drift nor the    *)
(* costs call a plan with a forced sale quiet.                             *)
LEMMA StabilizeInv ==
  ASSUME PlanInv,
         StabilizationFails \/ \E unsafe, urgent, force, worth \in BOOLEAN : Stabilize(unsafe, urgent, force, worth)
  PROVE  PlanInv'
<1>1. /\ stage = "stabilize" /\ stage' = "save"
      /\ UNCHANGED <<held, selling, locked, limits, rescued, asked, rows>>
  BY DEF StabilizationFails, Stabilize, Inputs
<1>2. SalesStand' /\ LocksAndSignalsWin'
  BY <1>1 DEF PlanInv, SalesStand, LocksAndSignalsWin, Locked, Stages, Planned
<1>3. ASSUME selling \ locked # {}, ~rescued PROVE status' \in {"REBALANCE", "COOLDOWN_ACTIVE"}
  <2>1. PICK s \in selling \ locked : TRUE
    BY <1>3
  <2>2. s \in DOMAIN rows /\ rows[s].action = "SELL"
    BY <1>1, <2>1 DEF PlanInv, SalesStand, Stages
  <2>3. status = "REBALANCE"
    BY <1>1, <1>3 DEF PlanInv
  <2>4. CASE StabilizationFails
    BY <2>3, <2>4 DEF StabilizationFails
  <2>5. ASSUME NEW unsafe \in BOOLEAN, NEW urgent \in BOOLEAN, NEW force \in BOOLEAN, NEW worth \in BOOLEAN,
               Stabilize(unsafe, urgent, force, worth)
        PROVE  status' \in {"REBALANCE", "COOLDOWN_ACTIVE"}
    <3>1. ~(\A x \in DOMAIN rows : WithinTolerance(rows[x])) /\ \E x \in DOMAIN rows : rows[x].action = "SELL"
      BY <2>2 DEF WithinTolerance
    <3>. QED BY <2>3, <2>5, <3>1 DEF Stabilize, StableStatus
  <2>. QED BY <2>4, <2>5
<1>4. ForcedSalesAreReported'
  BY <1>1, <1>3 DEF ForcedSalesAreReported
<1>. QED BY <1>1, <1>2, <1>4 DEF PlanInv, Stages

LEMMA PlanStepInv == PlanInv /\ [PlanNext]_planVars => PlanInv'
<1>. SUFFICES ASSUME PlanInv, [PlanNext]_planVars PROVE PlanInv'
  OBVIOUS
<1>1. CASE Save
  <2>1. stage' = "idle" /\ held' = held /\ rows' = NoRows
    BY <1>1 DEF Save
  <2>. QED BY <2>1 DEF PlanInv, NoRows, Stages, Locked, SalesStand, LocksAndSignalsWin,
           ForcedSalesAreReported, Planned
<1>2. CASE NextDay
  BY <1>2 DEF NextDay, Inputs, PlanInv, SalesStand, LocksAndSignalsWin, ForcedSalesAreReported, Planned
<1>3. CASE UNCHANGED planVars
  BY <1>3 DEF planVars, PlanInv, SalesStand, LocksAndSignalsWin, ForcedSalesAreReported, Planned
<1>. QED BY <1>1, <1>2, <1>3, RunInv, ForceSellsInv, LockInv, LimitsInv, PinInv, StabilizeInv
         DEF PlanNext

(* Whatever the model proposes, a user locks and the scores signal, and    *)
(* whatever the limits take away: the plan that leaves the passes trades   *)
(* no locked holding, sells every other one with a SELL signal altogether, *)
(* and says so: in every run, of the layers or of the fallback.            *)
THEOREM DecisionsAlwaysSurvive == PlanSpec => []DecisionsSurvive
<1>1. PlanInv => DecisionsSurvive
  BY DEF PlanInv, DecisionsSurvive
<1>. QED BY <1>1, PlanInitInv, PlanStepInv, PTL DEF PlanSpec

-----------------------------------------------------------------------------
(* What the cuts leave.                                                    *)

PlanRow(row) ==
  /\ IsRow(row) /\ row.action \in Actions
  /\ row.current \in Nat /\ row.target \in Nat

Plan == DOMAIN rows \subseteq Symbols /\ \A s \in DOMAIN rows : PlanRow(rows[s])

TargetOf(s) == rows[s].target
WeightsOf(plan) == [s \in DOMAIN plan |-> plan[s].target]
Kept(plan) == {s \in DOMAIN plan \cap Symbols : plan[s].action # "SELL"}

LEMMA HeldIsPlanRow ==
  ASSUME NEW row, PlanRow(row)
  PROVE  LET new == [row EXCEPT !.action = "HOLD", !.target = row.current]
         IN  PlanRow(new) /\ new.action = "HOLD" /\ new.target = new.current
<1>. DEFINE new == [row EXCEPT !.action = "HOLD", !.target = row.current]
<1>1. IsRow(row) /\ row.current \in Nat
  BY DEF PlanRow
<1>2. IsRow(new) /\ new.action = "HOLD" /\ new.current = row.current /\ new.target = row.current
  BY <1>1, Held
<1>. HIDE DEF new
<1>3. PlanRow(new) /\ new.action = "HOLD" /\ new.target = new.current
  BY <1>1, <1>2 DEF PlanRow, Actions, Neutral
<1>. QED BY <1>3 DEF new

LEMMA PlanIsFinite ==
  ASSUME Plan, NEW among
  PROVE  /\ IsFiniteSet(DOMAIN rows) /\ IsFiniteSet(Kept(rows))
         /\ \A s : IsFiniteSet(Ahead(s, among)) /\ Ahead(s, among) \subseteq DOMAIN rows
         /\ \A S : S \subseteq DOMAIN rows => IsFiniteSet(S)
<1>1. \A S : S \subseteq Symbols => IsFiniteSet(S)
  BY PlanAssumption, FS_Subset
<1>2. /\ DOMAIN rows \subseteq Symbols /\ Kept(rows) \subseteq Symbols
      /\ \A s : Ahead(s, among) \subseteq Symbols /\ Ahead(s, among) \subseteq DOMAIN rows
  BY DEF Plan, Kept, Ahead
<1>. QED BY <1>1, <1>2

LEMMA WeightsAreNumbers ==
  ASSUME Plan, NEW S, S \subseteq DOMAIN rows
  PROVE  SumFunctionOnSet(WeightsOf(rows), S) \in Int
<1>1. \A s \in S : WeightsOf(rows)[s] \in Int
  BY DEF WeightsOf, Plan, PlanRow
<1>2. IsFiniteSet(S)
  BY PlanIsFinite
<1>. QED BY <1>1, <1>2, SumType

(* Among any growing rows one comes before all the others.                 *)
LEMMA FirstRow ==
  ASSUME Plan, NEW among, NEW R, R \subseteq DOMAIN rows \cap among, R # {}, \A s \in R : Grows(s)
  PROVE  \E r \in R : \A x \in R : x \notin Ahead(r, among)
<1>. DEFINE Size(s) == Cardinality(Ahead(s, among))
            Sizes == {Size(s) : s \in R}
<1>1. \A s \in R : Size(s) \in Nat
  BY PlanIsFinite, FS_CardinalityType
<1>2. PICK m \in Sizes : \A k \in Sizes : m <= k
  BY <1>1, LeastNumber, ZenonT(40)
<1>3. PICK r \in R : m = Size(r)
  BY <1>2
<1>4. ASSUME NEW x \in R, x \in Ahead(r, among) PROVE FALSE
  <2>1. \A s \in DOMAIN rows : rows[s].target \in Nat /\ Place[s] \in Nat
    BY PlanAssumption DEF Plan, PlanRow
  <2>2. x \notin Ahead(x, among)
    BY <2>1 DEF Ahead
  <2>3. ASSUME NEW y \in Ahead(x, among) PROVE y \in Ahead(r, among)
    <3>1. /\ y \in DOMAIN rows \cap among /\ Grows(y)
          /\ rows[y].target > rows[x].target \/ (rows[y].target = rows[x].target /\ Place[y] < Place[x])
      BY DEF Ahead
    <3>2. rows[x].target > rows[r].target \/ (rows[x].target = rows[r].target /\ Place[x] < Place[r])
      BY <1>4 DEF Ahead
    <3>3. /\ rows[x].target \in Nat /\ rows[y].target \in Nat /\ rows[r].target \in Nat
          /\ Place[x] \in Nat /\ Place[y] \in Nat /\ Place[r] \in Nat
      BY <2>1, <3>1
    <3>4. rows[y].target > rows[r].target \/ (rows[y].target = rows[r].target /\ Place[y] < Place[r])
      BY <3>1, <3>2, <3>3
    <3>. QED BY <3>1, <3>4 DEF Ahead
  <2>4. Ahead(x, among) \subseteq Ahead(r, among) /\ Ahead(x, among) # Ahead(r, among)
    BY <1>4, <2>2, <2>3
  <2>5. Size(x) < Size(r)
    <3>1. IsFiniteSet(Ahead(r, among))
      BY PlanIsFinite
    <3>2. Size(x) <= Size(r) /\ Size(x) # Size(r)
      BY <2>4, <3>1, FS_Subset
    <3>. QED BY <1>1, <3>2
  <2>6. Size(r) <= Size(x)
    BY <1>2, <1>3
  <2>. QED BY <1>1, <2>5, <2>6
<1>. QED BY <1>4

LEMMA CutIsPart ==
  ASSUME Plan, NEW among, NEW excess \in Int, NEW s \in DOMAIN rows
  PROVE  /\ Cut(s, among, excess) \in Nat
         /\ Cut(s, among, excess) <= rows[s].target
<1>. DEFINE left == excess - SumFunctionOnSet(WeightsOf(rows), Ahead(s, among))
<1>1. Ahead(s, among) \subseteq DOMAIN rows
  BY PlanIsFinite
<1>2. left \in Int /\ rows[s].target \in Nat
  BY <1>1, WeightsAreNumbers DEF Plan, PlanRow
<1>3. Cut(s, among, excess) = IF left <= 0 THEN 0 ELSE IF rows[s].target < left THEN rows[s].target ELSE left
  BY DEF Cut, WeightsOf
<1>. HIDE DEF left
<1>. QED BY <1>2, <1>3

(* What the limits do to a row: a growing one may be given less.           *)
Shrinks(row, new) ==
  /\ PlanRow(new) /\ new.action = row.action /\ new.current = row.current
  /\ new.target <= row.target
  /\ row.action \notin Growing => new = row

LEMMA TrimmedShrinks ==
  ASSUME Plan, NEW among, NEW excess \in Int, NEW s \in DOMAIN rows
  PROVE  /\ Shrinks(rows[s], Trimmed(among, excess)[s])
         /\ s \in among /\ Grows(s) =>
              Trimmed(among, excess)[s].target = rows[s].target - Cut(s, among, excess)
<1>1. PlanRow(rows[s])
  BY DEF Plan
<1>2. CASE s \in among /\ Grows(s)
  <2>. DEFINE weight == rows[s].target - Cut(s, among, excess)
  <2>1. weight \in Nat /\ weight <= rows[s].target
    BY <1>1, CutIsPart DEF PlanRow
  <2>2. Trimmed(among, excess)[s] = [rows[s] EXCEPT !.target = weight]
    BY <1>2 DEF Trimmed
  <2>. HIDE DEF weight
  <2>3. LET new == [rows[s] EXCEPT !.target = weight]
        IN  IsRow(new) /\ new.action = rows[s].action /\ new.current = rows[s].current /\ new.target = weight
    BY <1>1, Retargeted DEF PlanRow
  <2>4. rows[s].action \in Growing
    BY <1>2 DEF Grows
  <2>. QED BY <1>1, <2>1, <2>2, <2>3, <2>4 DEF Shrinks, PlanRow, weight
<1>3. CASE ~(s \in among /\ Grows(s))
  BY <1>1, <1>3 DEF Trimmed, Shrinks, PlanRow
<1>. QED BY <1>2, <1>3

LEMMA CappedShrinks ==
  ASSUME Plan, NEW cap, \A s \in Symbols : cap[s] \in Nat, NEW s \in DOMAIN rows
  PROVE  /\ Shrinks(rows[s], Capped(cap)[s])
         /\ Grows(s) => Capped(cap)[s].target <= cap[s]
<1>1. PlanRow(rows[s]) /\ cap[s] \in Nat
  BY DEF Plan
<1>2. CASE Grows(s) /\ rows[s].target > cap[s]
  <2>1. Capped(cap)[s] = [rows[s] EXCEPT !.target = cap[s]]
    BY <1>2 DEF Capped
  <2>2. LET new == [rows[s] EXCEPT !.target = cap[s]]
        IN  IsRow(new) /\ new.action = rows[s].action /\ new.current = rows[s].current /\ new.target = cap[s]
    BY <1>1, Retargeted DEF PlanRow
  <2>3. rows[s].action \in Growing
    BY <1>2 DEF Grows
  <2>. QED BY <1>1, <1>2, <2>1, <2>2, <2>3 DEF Shrinks, PlanRow
<1>3. CASE ~(Grows(s) /\ rows[s].target > cap[s])
  BY <1>1, <1>3 DEF Capped, Shrinks, PlanRow
<1>. QED BY <1>2, <1>3

LEMMA InvestedIsNumber ==
  ASSUME Plan
  PROVE  Invested(rows, Symbols) = SumFunctionOnSet(WeightsOf(rows), Kept(rows))
         /\ Invested(rows, Symbols) \in Int
<1>1. Kept(rows) \subseteq DOMAIN rows
  BY DEF Kept
<1>. QED BY <1>1, WeightsAreNumbers DEF Invested, WeightsOf, Kept

LEMMA ShrunkIsPlan ==
  ASSUME Plan, NEW new, DOMAIN new = DOMAIN rows, \A s \in DOMAIN rows : Shrinks(rows[s], new[s])
  PROVE  /\ \A s \in DOMAIN rows : PlanRow(new[s]) /\ (new[s].action \in Growing <=> Grows(s))
         /\ Kept(new) = Kept(rows)
         /\ SumFunctionOnSet(WeightsOf(new), Kept(rows)) \in Int
         /\ SumFunctionOnSet(WeightsOf(new), Kept(rows)) <= Invested(rows, Symbols)
<1>1. \A s \in DOMAIN rows : PlanRow(new[s]) /\ new[s].action = rows[s].action
  BY DEF Shrinks
<1>2. Kept(new) = Kept(rows)
  BY <1>1 DEF Kept
<1>3. \A s \in Kept(rows) : /\ WeightsOf(new)[s] \in Int /\ WeightsOf(rows)[s] \in Int
                            /\ WeightsOf(new)[s] <= WeightsOf(rows)[s]
  BY DEF Plan, PlanRow, Shrinks, Kept, WeightsOf
<1>4. IsFiniteSet(Kept(rows))
  BY PlanIsFinite
<1>5. SumFunctionOnSet(WeightsOf(new), Kept(rows)) <= SumFunctionOnSet(WeightsOf(rows), Kept(rows))
  BY <1>3, <1>4, SumIsMonotone
<1>6. SumFunctionOnSet(WeightsOf(new), Kept(rows)) \in Int
  BY <1>3, <1>4, SumType
<1>. QED BY <1>1, <1>2, <1>5, <1>6, InvestedIsNumber DEF Grows

(* The excess is gone from the rows, or the growing rows have nothing      *)
(* left: what was taken up to the first row that keeps something is the    *)
(* whole excess.                                                           *)
LEMMA TrimTakesExcess ==
  ASSUME Plan, NEW excess \in Int
  PROVE  LET new == Trimmed(Symbols, excess)
         IN  \/ SumFunctionOnSet(WeightsOf(new), Kept(rows)) <= Invested(rows, Symbols) - excess
             \/ \A s \in DOMAIN rows : Grows(s) => new[s].target = 0
<1>. DEFINE new == Trimmed(Symbols, excess)
            R == {s \in DOMAIN rows : Grows(s) /\ new[s].target # 0}
            taken == [s \in DOMAIN rows |-> rows[s].target - new[s].target]
<1>1. /\ DOMAIN new = DOMAIN rows
      /\ \A s \in DOMAIN rows : Shrinks(rows[s], new[s])
      /\ \A s \in DOMAIN rows : s \in Symbols
      /\ \A s \in DOMAIN rows : Grows(s) => new[s].target = rows[s].target - Cut(s, Symbols, excess)
  BY TrimmedShrinks DEF Trimmed, Plan
<1>. HIDE DEF new
<1>2. \A s \in DOMAIN rows : /\ rows[s].target \in Nat /\ new[s].target \in Nat
                             /\ taken[s] \in Nat /\ rows[s].target = taken[s] + new[s].target
  BY <1>1 DEF Plan, PlanRow, Shrinks
<1>3. /\ IsFiniteSet(Kept(rows)) /\ Kept(rows) \subseteq DOMAIN rows
      /\ \A s \in DOMAIN rows : Grows(s) => s \in Kept(rows)
  BY <1>1, PlanIsFinite DEF Kept, Grows, Growing
<1>4. Invested(rows, Symbols) = SumFunctionOnSet(taken, Kept(rows)) + SumFunctionOnSet(WeightsOf(new), Kept(rows))
  <2>1. \A s \in Kept(rows) : /\ taken[s] \in Int /\ WeightsOf(new)[s] \in Int
                              /\ WeightsOf(rows)[s] = taken[s] + WeightsOf(new)[s]
    BY <1>1, <1>2, <1>3 DEF WeightsOf
  <2>. HIDE DEF taken
  <2>. QED BY <1>3, <2>1, SumOfPlus, InvestedIsNumber
<1>5. /\ SumFunctionOnSet(taken, Kept(rows)) \in Nat
      /\ \A T : T \subseteq Kept(rows) =>
           SumFunctionOnSet(taken, T) <= SumFunctionOnSet(taken, Kept(rows))
  <2>1. \A s \in Kept(rows) : taken[s] \in Nat
    BY <1>2, <1>3
  <2>. HIDE DEF taken
  <2>. QED BY <1>3, <2>1, SumIsNatural, SumOfPart
<1>6. ASSUME R # {}
      PROVE  SumFunctionOnSet(taken, Kept(rows)) >= excess
  <2>1. PICK r \in R : \A x \in R : x \notin Ahead(r, Symbols)
    <3>1. R \subseteq DOMAIN rows \cap Symbols /\ \A s \in R : Grows(s)
      BY <1>1
    <3>. HIDE DEF R
    <3>. QED BY <1>6, <3>1, FirstRow
  <2>. DEFINE B == Ahead(r, Symbols)
              before == SumFunctionOnSet(WeightsOf(rows), B)
  <2>2. /\ r \in DOMAIN rows /\ Grows(r) /\ new[r].target # 0
        /\ B \subseteq DOMAIN rows /\ IsFiniteSet(B)
        /\ \A x \in B : Grows(x) /\ x \in Kept(rows) /\ new[x].target = 0
    BY <1>3, <2>1, PlanIsFinite DEF Ahead
  <2>3. r \notin B
    BY <1>2, <2>2, PlanAssumption DEF Ahead, Plan
  <2>. HIDE DEF B, R
  <2>4. before \in Int
    BY <2>2, WeightsAreNumbers
  <2>5. SumFunctionOnSet(taken, B) = before
    <3>1. \A x \in B : taken[x] = WeightsOf(rows)[x]
      BY <1>2, <2>2 DEF WeightsOf
    <3>. HIDE DEF taken
    <3>. QED BY <2>2, <3>1, SumExtends
  <2>6. taken[r] = Cut(r, Symbols, excess) /\ taken[r] # rows[r].target
    BY <1>1, <1>2, <2>2, CutIsPart
  <2>7. Cut(r, Symbols, excess) = IF excess - before <= 0 THEN 0
                                  ELSE IF rows[r].target < excess - before THEN rows[r].target
                                  ELSE excess - before
    BY DEF Cut, WeightsOf, B
  <2>. HIDE DEF before
  <2>8. CASE excess - before <= 0
    <3>1. SumFunctionOnSet(taken, B) <= SumFunctionOnSet(taken, Kept(rows))
      BY <1>5, <2>2
    <3>. QED BY <1>5, <2>4, <2>5, <2>8, <3>1
  <2>9. CASE ~(excess - before <= 0)
    <3>1. taken[r] = excess - before
      BY <2>6, <2>7, <2>9
    <3>2. SumFunctionOnSet(taken, B \union {r}) = before + taken[r]
      <4>1. \A x \in B \union {r} : taken[x] \in Int
        BY <1>2, <2>2
      <4>. HIDE DEF taken
      <4>. QED BY <2>2, <2>3, <2>5, <4>1, SumInsert
    <3>3. SumFunctionOnSet(taken, B \union {r}) <= SumFunctionOnSet(taken, Kept(rows))
      BY <1>3, <1>5, <2>2
    <3>. QED BY <1>5, <2>4, <3>1, <3>2, <3>3
  <2>. QED BY <2>8, <2>9
<1>7. SumFunctionOnSet(WeightsOf(new), Kept(rows)) \in Int
  BY <1>1, ShrunkIsPlan
<1>8. CASE R # {}
  BY <1>4, <1>5, <1>6, <1>7, <1>8 DEF new
<1>9. CASE R = {}
  BY <1>9 DEF new
<1>. QED BY <1>8, <1>9

LEMMA InvestedTyped ==
  ASSUME Plan'
  PROVE  Invested(rows', Symbols) \in Int
<1>1. /\ \A s \in Kept(rows') : WeightsOf(rows')[s] \in Int
      /\ IsFiniteSet(Kept(rows'))
  BY PlanAssumption, FS_Subset DEF Plan, PlanRow, Kept, WeightsOf
<1>2. SumFunctionOnSet(WeightsOf(rows'), Kept(rows')) \in Int
  BY <1>1, SumType
<1>. QED BY <1>2 DEF Invested, WeightsOf, Kept

(* Rows that each gain no more than a move which keeps no label.           *)
LEMMA PinnedGrowLittle ==
  ASSUME Plan, NEW new, DOMAIN new = DOMAIN rows,
         \A s \in DOMAIN rows : /\ new[s].action = rows[s].action /\ new[s].target \in Nat
                                /\ new[s].target <= rows[s].target + Slack
  PROVE  Invested(new, Symbols) <= Invested(rows, Symbols) + Slack * Cardinality(DOMAIN rows)
<1>. DEFINE some == Cardinality(Kept(rows))
            all == Cardinality(DOMAIN rows)
<1>1. /\ IsFiniteSet(Kept(rows)) /\ Kept(rows) \subseteq DOMAIN rows /\ IsFiniteSet(DOMAIN rows)
      /\ Kept(new) = Kept(rows) /\ Slack \in Nat
  BY PlanIsFinite, PlanAssumption DEF Kept
<1>2. /\ some \in Nat /\ all \in Nat /\ some <= all
  BY <1>1, FS_CardinalityType, FS_Subset
<1>3. \A s \in Kept(rows) : /\ WeightsOf(rows)[s] \in Int /\ WeightsOf(new)[s] \in Int
                            /\ WeightsOf(new)[s] <= WeightsOf(rows)[s] + Slack
  BY <1>1 DEF Plan, PlanRow, WeightsOf
<1>4. /\ SumFunctionOnSet(WeightsOf(new), Kept(rows)) <= Invested(rows, Symbols) + Slack * some
      /\ SumFunctionOnSet(WeightsOf(new), Kept(rows)) \in Int
  BY <1>1, <1>3, SumGrowsAtMost, SumType, InvestedIsNumber
<1>5. Invested(new, Symbols) = SumFunctionOnSet(WeightsOf(new), Kept(rows))
  BY <1>1 DEF Invested, WeightsOf, Kept
<1>. HIDE DEF some, all
<1>6. Slack * some <= Slack * all /\ Slack * some \in Int /\ Slack * all \in Int
  <2>1. /\ Slack * all = Slack * some + Slack * (all - some)
        /\ Slack * some \in Int /\ Slack * (all - some) \in Nat
    <3>1. all - some \in Nat /\ all = some + (all - some)
      BY <1>2
    <3>2. \A k \in Nat : Slack * k \in Nat
      BY <1>1
    <3>. QED BY <1>1, <1>2, <3>1, <3>2, Distributes
  <2>. QED BY <2>1
<1>. QED BY <1>4, <1>5, <1>6, InvestedIsNumber DEF all

-----------------------------------------------------------------------------
(* The limits, pass by pass.                                               *)

(* Up to the relabelling no neutral row moves and no reduction grows; then *)
(* a neutral row may be short of its weight, by what keeps no label.       *)
Steady ==
  \A s \in DOMAIN rows : /\ rows[s].action \in Neutral => rows[s].target = rows[s].current
                         /\ rows[s].action = "REDUCE" => rows[s].target <= rows[s].current
Leaning ==
  \A s \in DOMAIN rows : rows[s].action \in Neutral => rows[s].current <= rows[s].target + Slack

NoGrowth == \A s \in DOMAIN rows : ~Grows(s)
Starved  == \A s \in DOMAIN rows : Grows(s) => rows[s].target = 0
Gains    == \A s \in DOMAIN rows : Grows(s) => rows[s].target > rows[s].current
PositionsFit == \A s \in DOMAIN rows : Grows(s) => rows[s].target <= limits.position
ExecutionFits == \A s \in DOMAIN rows : Grows(s) => rows[s].target <= limits.execution[s]
CashFits(more) == Invested(rows, Symbols) <= Whole - limits.cash + more

Frozen == {"position", "cash", "sector", "execution", "relabel", "pin", "stabilize", "save"}

(* Each limit holds from its pass on, whatever later passes take away and  *)
(* whatever labels become.                                                 *)
Limited ==
  /\ stage \in {"lock", "emergency", "relabel"} \cup (Frozen \ {"pin", "stabilize", "save"}) => Steady
  /\ stage \in Frozen /\ limits.by = "policy" /\ limits.emergency => NoGrowth
  /\ stage \in Frozen \ {"position"} /\ limits.by # "nothing" => PositionsFit
  /\ stage \in {"relabel", "pin", "stabilize", "save"} => ExecutionFits
  /\ stage \in {"sector", "execution", "relabel"} /\ limits.by # "nothing" => CashFits(0) \/ Starved
  /\ stage = "pin" => Leaning
  /\ stage = "pin" /\ limits.by # "nothing" => CashFits(0) \/ NoGrowth
  /\ stage \in {"pin", "stabilize", "save"} => Gains
  /\ stage \in {"stabilize", "save"} /\ limits.by # "nothing" =>
       CashFits(Slack * Cardinality(DOMAIN rows)) \/ NoGrowth

LimitInv ==
  /\ Plan /\ selling \subseteq Symbols
  /\ stage = "force" => rows = asked
  /\ stage \in {"emergency", "position", "cash", "sector", "execution", "relabel"} => ~rescued
  /\ stage # "idle" /\ ~rescued => limits \in Envelopes /\ (Coherent => Limited)

LEMMA EnvelopesAreTyped ==
  ASSUME NEW e \in Envelopes
  PROVE  e.position \in Nat /\ e.cash \in Nat /\ e.cash <= Whole
         /\ \A s \in Symbols : e.sector[Sector[s]] \in Nat /\ e.execution[s] \in Nat
BY PlanAssumption

LEMMA WeightsOfHoldingsAreNatural == ASSUME held \in Portfolios, NEW s PROVE Current(s) \in Nat
<1>1. held \in [DOMAIN held -> 0..Whole] /\ Whole \in Nat
  BY PlanAssumption
<1>2. CASE s \in DOMAIN held
  <2>1. held[s] \in 0..Whole
    BY <1>1, <1>2
  <2>. QED BY <1>1, <1>2, <2>1 DEF Current
<1>3. CASE s \notin DOMAIN held
  BY <1>3 DEF Current
<1>. QED BY <1>2, <1>3

LEMMA PlanInitLimits == PlanInit => LimitInv
BY DEF PlanInit, LimitInv, Plan, NoRows

LEMMA RunLimits == ASSUME PlanInv, LimitInv, Run PROVE LimitInv'
<1>1. PICK proposal \in Proposals, sells \in SUBSET DOMAIN held, locks \in SUBSET DOMAIN held,
           envelope \in Envelopes \cup {Unlimited}, fallback \in BOOLEAN, says \in {"REBALANCE", "NO_ACTION"} :
        /\ Propose(proposal, sells, locks, envelope, fallback, says)
        /\ ~fallback => envelope \in Envelopes
  BY DEF Run
<1>2. /\ stage' = "force" /\ held' = held /\ selling' = sells /\ rescued' = fallback
      /\ rows' = Normalized(proposal) /\ asked' = rows'
      /\ ~fallback => limits' = envelope
  BY <1>1 DEF Propose
<1>3. held \in Portfolios /\ DOMAIN held \subseteq Symbols
  BY PlanAssumption DEF PlanInv
<1>4. /\ DOMAIN proposal \subseteq Symbols
      /\ \A s \in DOMAIN proposal : proposal[s].action \in Labels /\ proposal[s].target \in Targets
  BY <1>1 DEF Proposals
<1>5. Plan'
  <2>1. DOMAIN rows' = DOMAIN proposal
    BY <1>2 DEF Normalized
  <2>2. ASSUME NEW s \in DOMAIN rows' PROVE PlanRow(rows'[s])
    <3>1. rows'[s] = [action |-> proposal[s].action, current |-> Current(s), target |-> proposal[s].target]
      BY <1>2, <2>1 DEF Normalized
    <3>2. proposal[s].action \in Actions /\ proposal[s].target \in Nat /\ Current(s) \in Nat
      BY <1>3, <1>4, <2>1, PlanAssumption, WeightsOfHoldingsAreNatural
    <3>. QED BY <3>1, <3>2 DEF PlanRow, IsRow
  <2>. QED BY <1>4, <2>1, <2>2 DEF Plan
<1>6. (Coherent => Limited)'
  BY <1>2 DEF Limited, Frozen
<1>. QED BY <1>1, <1>2, <1>3, <1>5, <1>6 DEF LimitInv

LEMMA ForceSellsLimits == ASSUME PlanInv, LimitInv, ForceSells PROVE LimitInv'
<1>1. /\ stage = "force" /\ stage' = "lock" /\ rows = asked /\ held \in Portfolios
      /\ UNCHANGED <<held, selling, locked, limits, rescued, asked>>
      /\ DOMAIN rows' = DOMAIN rows \cup selling
  BY DEF ForceSells, Inputs, LimitInv, PlanInv
<1>2. ASSUME NEW s \in selling
      PROVE  rows'[s] = [action |-> "SELL", current |-> Current(s), target |-> 0]
  BY DEF ForceSells
<1>3. \A s \in DOMAIN rows \ selling : rows'[s] = rows[s]
  BY DEF ForceSells
<1>4. Plan'
  <2>1. \A s \in selling : PlanRow(rows'[s])
    BY <1>1, <1>2, WeightsOfHoldingsAreNatural DEF PlanRow, IsRow, Actions
  <2>. QED BY <1>1, <1>3, <2>1 DEF Plan, LimitInv
<1>5. ASSUME Coherent' PROVE Steady'
  <2>1. ASSUME NEW s \in DOMAIN rows \ selling
        PROVE  /\ rows[s].action \in Neutral => rows[s].target = rows[s].current
               /\ rows[s].action = "REDUCE" => rows[s].target <= rows[s].current
    <3>1. /\ rows[s].action \in Neutral => Moved(rows[s]) = 0
          /\ rows[s].action = "REDUCE" => Moved(rows[s]) <= 0
      BY <1>1, <1>5 DEF Coherent
    <3>2. rows[s].target \in Nat /\ rows[s].current \in Nat
      BY DEF LimitInv, Plan, PlanRow
    <3>. QED BY <3>1, <3>2 DEF Moved
  <2>. QED BY <1>1, <1>2, <1>3, <2>1 DEF Steady, Neutral
<1>. QED BY <1>1, <1>4, <1>5 DEF LimitInv, Limited, Frozen

LEMMA LockLimits == ASSUME PlanInv, LimitInv, Lock PROVE LimitInv'
<1>1. /\ stage = "lock" /\ stage' = IF rescued THEN "pin" ELSE "emergency"
      /\ UNCHANGED <<held, selling, locked, limits, rescued, asked>>
      /\ rows' = LockedRows /\ DOMAIN rows' = DOMAIN rows
  BY DEF Lock, Inputs, LockedRows
<1>2. ASSUME NEW s \in DOMAIN rows
      PROVE  /\ PlanRow(rows'[s])
             /\ \/ rows'[s] = rows[s]
                \/ rows'[s].action = "HOLD" /\ rows'[s].target = rows'[s].current
  <2>1. PlanRow(rows[s])
    BY DEF LimitInv, Plan
  <2>2. CASE s \in locked /\ rows[s].action \notin Neutral
    <3>1. rows'[s] = [rows[s] EXCEPT !.action = "HOLD", !.target = rows[s].current]
      BY <1>1, <2>2 DEF LockedRows
    <3>. QED BY <2>1, <3>1, HeldIsPlanRow
  <2>3. CASE ~(s \in locked /\ rows[s].action \notin Neutral)
    BY <1>1, <2>1, <2>3 DEF LockedRows
  <2>. QED BY <2>2, <2>3
<1>3. Plan'
  BY <1>1, <1>2 DEF LimitInv, Plan
<1>4. ASSUME Steady PROVE Steady'
  <2>1. \A s \in DOMAIN rows : \/ rows'[s] = rows[s]
                               \/ rows'[s].action = "HOLD" /\ rows'[s].target = rows'[s].current
    BY <1>2
  <2>. QED BY <1>1, <1>4, <2>1 DEF Steady
<1>5. Coherent' = Coherent
  BY <1>1 DEF Coherent
<1>. QED BY <1>1, <1>3, <1>4, <1>5 DEF LimitInv, Limited, Frozen

(* A pass that only takes from growing rows keeps what holds already.      *)
LEMMA ShrinkLimits ==
  ASSUME PlanInv, LimitInv, stage \in {"position", "cash", "sector", "execution"},
         stage' \in {"cash", "sector", "execution", "relabel"},
         DOMAIN rows' = DOMAIN rows, \A s \in DOMAIN rows : Shrinks(rows[s], rows'[s]),
         UNCHANGED Inputs,
         stage = "position" => stage' = "cash",
         stage = "cash" => stage' = "sector",
         stage = "execution" => stage' = "relabel",
         stage \notin {"position", "cash"} => stage' \in {"execution", "relabel"},
         ~rescued /\ Coherent =>
           /\ stage = "position" /\ limits.by # "nothing" => PositionsFit'
           /\ stage = "cash" /\ limits.by # "nothing" => (CashFits(0) \/ Starved)'
           /\ stage' = "relabel" => ExecutionFits'
  PROVE  LimitInv'
<1>1. /\ UNCHANGED <<held, selling, locked, limits, rescued, asked>>
      /\ stage \notin {"idle", "force", "lock", "emergency", "pin", "stabilize", "save"}
      /\ stage' \notin {"idle", "force", "lock", "emergency", "position", "pin", "stabilize", "save"}
  BY DEF Inputs
<1>2. Plan /\ Plan'
  BY DEF LimitInv, Plan, Shrinks
<1>3. \A s \in DOMAIN rows : /\ Grows(s)' <=> Grows(s)
                             /\ rows'[s].target <= rows[s].target
                             /\ rows'[s].target \in Nat /\ rows[s].target \in Nat
                             /\ ~Grows(s) => rows'[s] = rows[s]
  BY <1>2 DEF Shrinks, Grows, Plan, PlanRow
<1>4. SUFFICES ASSUME ~rescued, Coherent', Coherent, Limited, limits \in Envelopes PROVE Limited'
  <2>1. Coherent' = Coherent
    BY <1>1 DEF Coherent
  <2>. QED BY <1>1, <1>2, <2>1 DEF LimitInv
<1>5. Steady /\ Steady'
  <2>1. Steady
    BY <1>4 DEF Limited, Frozen
  <2>. QED BY <1>3, <2>1 DEF Steady, Grows, Growing, Neutral
<1>6. limits.by = "policy" /\ limits.emergency => NoGrowth'
  <2>1. limits.by = "policy" /\ limits.emergency => NoGrowth
    BY <1>4 DEF Limited, Frozen
  <2>. QED BY <1>3, <2>1 DEF NoGrowth
<1>7. limits.by # "nothing" => PositionsFit'
  <2>1. CASE stage = "position"
    BY <1>4, <2>1
  <2>2. CASE stage # "position"
    <3>1. limits.by # "nothing" => PositionsFit
      BY <1>4, <2>2 DEF Limited, Frozen
    <3>2. limits.position \in Nat
      BY <1>4, EnvelopesAreTyped
    <3>. QED BY <1>1, <1>3, <3>1, <3>2 DEF PositionsFit
  <2>. QED BY <2>1, <2>2
<1>8. stage' # "cash" /\ limits.by # "nothing" => (CashFits(0) \/ Starved)'
  <2>1. CASE stage \in {"position", "cash"}
    BY <1>4, <2>1
  <2>2. CASE stage \notin {"position", "cash"}
    <3>1. limits.by # "nothing" => CashFits(0) \/ Starved
      BY <1>4, <2>2 DEF Limited
    <3>2. Starved => Starved'
      <4>1. \A s \in DOMAIN rows : rows[s].target = 0 => rows'[s].target = 0
        BY <1>3
      <4>. QED BY <1>3, <4>1 DEF Starved
    <3>3. CashFits(0) => CashFits(0)'
      <4>1. /\ Kept(rows') = Kept(rows)
            /\ SumFunctionOnSet(WeightsOf(rows'), Kept(rows)) \in Int
            /\ SumFunctionOnSet(WeightsOf(rows'), Kept(rows)) <= Invested(rows, Symbols)
        BY <1>2, ShrunkIsPlan
      <4>2. Invested(rows', Symbols) = SumFunctionOnSet(WeightsOf(rows'), Kept(rows))
        BY <4>1 DEF Invested, WeightsOf, Kept
      <4>3. Whole - limits.cash + 0 \in Int /\ Invested(rows, Symbols) \in Int
        BY <1>2, <1>4, InvestedIsNumber, EnvelopesAreTyped, PlanAssumption
      <4>. QED BY <1>1, <4>1, <4>2, <4>3 DEF CashFits
    <3>. QED BY <3>1, <3>2, <3>3
  <2>. QED BY <2>1, <2>2
<1>9. stage' = "relabel" => ExecutionFits'
  BY <1>4
<1>. QED BY <1>1, <1>5, <1>6, <1>7, <1>8, <1>9 DEF Limited

LEMMA FreezeLimits == ASSUME PlanInv, LimitInv, Freeze PROVE LimitInv'
<1>1. /\ stage = "emergency" /\ stage' = "position" /\ DOMAIN rows' = DOMAIN rows
      /\ UNCHANGED <<held, selling, locked, limits, rescued, asked>>
      /\ rows' = IF limits.by = "policy" /\ limits.emergency
                 THEN [s \in DOMAIN rows |->
                         IF Grows(s) THEN [rows[s] EXCEPT !.action = "HOLD", !.target = rows[s].current] ELSE rows[s]]
                 ELSE rows
  BY DEF Freeze, Inputs
<1>2. ASSUME NEW s \in DOMAIN rows
      PROVE  /\ PlanRow(rows'[s])
             /\ \/ rows'[s] = rows[s]
                \/ rows'[s].action = "HOLD" /\ rows'[s].target = rows'[s].current
             /\ limits.by = "policy" /\ limits.emergency => rows'[s].action \notin Growing
  <2>1. PlanRow(rows[s])
    BY DEF LimitInv, Plan
  <2>2. CASE limits.by = "policy" /\ limits.emergency /\ Grows(s)
    <3>1. rows'[s] = [rows[s] EXCEPT !.action = "HOLD", !.target = rows[s].current]
      BY <1>1, <2>2
    <3>2. PlanRow(rows'[s]) /\ rows'[s].action = "HOLD" /\ rows'[s].target = rows'[s].current
      BY <2>1, <3>1, HeldIsPlanRow
    <3>. QED BY <3>2 DEF Growing
  <2>3. CASE ~(limits.by = "policy" /\ limits.emergency /\ Grows(s))
    <3>1. rows'[s] = rows[s]
      BY <1>1, <2>3
    <3>. QED BY <2>1, <2>3, <3>1 DEF Grows
  <2>. QED BY <2>2, <2>3
<1>3. Plan'
  BY <1>1, <1>2 DEF LimitInv, Plan
<1>4. ASSUME Steady PROVE Steady'
  <2>1. \A s \in DOMAIN rows : \/ rows'[s] = rows[s]
                               \/ rows'[s].action = "HOLD" /\ rows'[s].target = rows'[s].current
    BY <1>2
  <2>2. DOMAIN rows' = DOMAIN rows
    BY <1>1
  <2>. QED BY <1>4, <2>1, <2>2 DEF Steady
<1>5. limits.by = "policy" /\ limits.emergency => NoGrowth'
  BY <1>1, <1>2 DEF NoGrowth, Grows
<1>6. Coherent' = Coherent
  BY <1>1 DEF Coherent
<1>. QED BY <1>1, <1>3, <1>4, <1>5, <1>6 DEF LimitInv, Limited, Frozen

LEMMA SameRowsShrink == ASSUME Plan PROVE \A s \in DOMAIN rows : Shrinks(rows[s], rows[s])
BY DEF Plan, Shrinks, PlanRow

LEMMA CapPositionsLimits == ASSUME PlanInv, LimitInv, CapPositions PROVE LimitInv'
<1>1. /\ stage = "position" /\ stage' = "cash" /\ UNCHANGED Inputs /\ UNCHANGED limits /\ Plan
  BY DEF CapPositions, Inputs, LimitInv
<1>2. CASE limits.by = "nothing"
  <2>1. rows' = rows
    BY <1>2 DEF CapPositions
  <2>. QED BY <1>1, <1>2, <2>1, SameRowsShrink, ShrinkLimits
<1>3. CASE limits.by # "nothing"
  <2>. DEFINE cap == [s \in Symbols |-> limits.position]
  <2>1. rows' = Capped(cap)
    BY <1>3 DEF CapPositions
  <2>2. \A s \in Symbols : cap[s] \in Nat
    <3>1. limits.position \in Nat
      BY <1>1, EnvelopesAreTyped DEF LimitInv
    <3>. QED BY <3>1
  <2>3. \A s \in DOMAIN rows : s \in Symbols /\ cap[s] = limits.position
    BY <1>1 DEF Plan
  <2>. HIDE DEF cap
  <2>4. /\ DOMAIN rows' = DOMAIN rows
        /\ \A s \in DOMAIN rows : /\ Shrinks(rows[s], rows'[s])
                                  /\ Grows(s) => rows'[s].target <= limits.position
    BY <1>1, <2>1, <2>2, <2>3, CappedShrinks DEF Capped
  <2>5. PositionsFit'
    BY <1>1, <2>4 DEF PositionsFit, Grows, Shrinks
  <2>. QED BY <1>1, <2>4, <2>5, ShrinkLimits
<1>. QED BY <1>2, <1>3

LEMMA KeepCashLimits == ASSUME PlanInv, LimitInv, KeepCash PROVE LimitInv'
<1>1. /\ stage = "cash" /\ stage' = "sector" /\ UNCHANGED Inputs /\ UNCHANGED limits /\ Plan
  BY DEF KeepCash, Inputs, LimitInv
<1>2. CASE limits.by = "nothing"
  <2>1. rows' = rows
    BY <1>2 DEF KeepCash
  <2>. QED BY <1>1, <1>2, <2>1, SameRowsShrink, ShrinkLimits
<1>3. CASE limits.by # "nothing"
  <2>1. rows' = Trimmed(Symbols, CashExcess)
    BY <1>3 DEF KeepCash
  <2>2. /\ Invested(rows, Symbols) \in Int /\ Whole - limits.cash \in Int
        /\ CashExcess = Invested(rows, Symbols) - (Whole - limits.cash)
    BY <1>1, InvestedIsNumber, EnvelopesAreTyped, PlanAssumption DEF LimitInv, CashExcess
  <2>3. /\ DOMAIN rows' = DOMAIN rows
        /\ \A s \in DOMAIN rows : Shrinks(rows[s], rows'[s])
    BY <1>1, <2>1, <2>2, TrimmedShrinks DEF Trimmed
  <2>4. \/ SumFunctionOnSet(WeightsOf(rows'), Kept(rows)) <= Invested(rows, Symbols) - CashExcess
        \/ \A s \in DOMAIN rows : Grows(s) => rows'[s].target = 0
    BY <1>1, <2>1, <2>2, TrimTakesExcess
  <2>5. (CashFits(0) \/ Starved)'
    <3>1. Kept(rows') = Kept(rows)
      BY <1>1, <2>3, ShrunkIsPlan
    <3>2. Invested(rows', Symbols) = SumFunctionOnSet(WeightsOf(rows'), Kept(rows))
      BY <3>1 DEF Invested, WeightsOf, Kept
    <3>3. CASE SumFunctionOnSet(WeightsOf(rows'), Kept(rows)) <= Invested(rows, Symbols) - CashExcess
      <4>1. Invested(rows, Symbols) - CashExcess = Whole - limits.cash + 0
        BY <2>2
      <4>. QED BY <1>1, <3>2, <3>3, <4>1 DEF CashFits
    <3>4. CASE \A s \in DOMAIN rows : Grows(s) => rows'[s].target = 0
      BY <2>3, <3>4 DEF Starved, Grows, Shrinks
    <3>. QED BY <2>4, <3>3, <3>4
  <2>. QED BY <1>1, <2>3, <2>5, ShrinkLimits
<1>. QED BY <1>2, <1>3

LEMMA CapSectorsLimits == ASSUME PlanInv, LimitInv, CapSectors PROVE LimitInv'
<1>. DEFINE members(c) == {s \in Symbols : Sector[s] = c}
            excess(s) == Invested(rows, members(Sector[s])) - limits.sector[Sector[s]]
<1>1. /\ stage = "sector" /\ stage' = "execution" /\ UNCHANGED Inputs /\ Plan /\ limits \in Envelopes
      /\ rows' = [s \in DOMAIN rows |-> Trimmed(members(Sector[s]), excess(s))[s]]
  BY DEF CapSectors, LimitInv
<1>2. ASSUME NEW s \in DOMAIN rows PROVE excess(s) \in Int
  <2>1. {x \in DOMAIN rows \cap members(Sector[s]) : rows[x].action # "SELL"} \subseteq DOMAIN rows
    OBVIOUS
  <2>2. Invested(rows, members(Sector[s])) \in Int
    BY <1>1, <2>1, WeightsAreNumbers DEF Invested, WeightsOf
  <2>3. limits.sector[Sector[s]] \in Int
    BY <1>1, EnvelopesAreTyped DEF Plan
  <2>. QED BY <2>2, <2>3
<1>. HIDE DEF members, excess
<1>3. \A s \in DOMAIN rows : Shrinks(rows[s], rows'[s])
  BY <1>1, <1>2, TrimmedShrinks
<1>. QED BY <1>1, <1>3, ShrinkLimits

LEMMA CapExecutionLimits == ASSUME PlanInv, LimitInv, CapExecution PROVE LimitInv'
<1>1. /\ stage = "execution" /\ stage' = "relabel" /\ UNCHANGED Inputs /\ UNCHANGED limits
      /\ Plan /\ limits \in Envelopes /\ rows' = Capped(limits.execution)
  BY DEF CapExecution, LimitInv, Inputs
<1>2. \A s \in Symbols : limits.execution[s] \in Nat
  BY <1>1, EnvelopesAreTyped
<1>3. /\ DOMAIN rows' = DOMAIN rows
      /\ \A s \in DOMAIN rows : /\ Shrinks(rows[s], rows'[s])
                                /\ Grows(s) => rows'[s].target <= limits.execution[s]
  BY <1>1, <1>2, CappedShrinks DEF Capped
<1>4. ExecutionFits'
  BY <1>1, <1>3 DEF ExecutionFits, Grows, Shrinks
<1>. QED BY <1>1, <1>3, <1>4, ShrinkLimits

LEMMA LabelIsAction ==
  ASSUME NEW row, PlanRow(row)
  PROVE  LET new == [row EXCEPT !.action = Label(row)]
         IN  PlanRow(new) /\ new.action = Label(row) /\ new.current = row.current /\ new.target = row.target
<1>1. LET new == [row EXCEPT !.action = Label(row)]
      IN  IsRow(new) /\ new.action = Label(row) /\ new.current = row.current /\ new.target = row.target
  BY Relabelled DEF PlanRow
<1>2. Label(row) \in Actions
  BY DEF Label, PlanRow, Actions, Growing, Neutral
<1>. QED BY <1>1, <1>2 DEF PlanRow

(* What the relabelling makes of a row that nobody asked to move the wrong *)
(* way.                                                                    *)
LEMMA LabelsAgree ==
  ASSUME NEW row, PlanRow(row),
         row.action \in Neutral => row.target = row.current,
         row.action = "REDUCE" => row.target <= row.current
  PROVE  /\ Label(row) \in Growing => row.action \in Growing /\ row.target > row.current
         /\ Label(row) \in Neutral => row.current <= row.target + Slack
         /\ Label(row) = "SELL" <=> row.action = "SELL"
<1>1. /\ row.target \in Nat /\ row.current \in Nat /\ Slack \in Nat /\ row.action \in Actions
      /\ -Slack \in Int /\ Moved(row) \in Int /\ Moved(row) = row.target - row.current
  BY PlanAssumption DEF PlanRow, Moved
<1>2. CASE row.action \in Growing
  <2>1. CASE Moved(row) < -Slack
    <3>1. Label(row) = "REDUCE"
      BY <1>2, <2>1 DEF Label
    <3>. QED BY <1>2, <3>1 DEF Growing, Neutral
  <2>2. CASE ~(Moved(row) < -Slack) /\ Moved(row) <= 0
    <3>1. Label(row) = "HOLD"
      BY <1>2, <2>2 DEF Label
    <3>2. row.current <= row.target + Slack
      BY <1>1, <2>2
    <3>. QED BY <1>2, <3>1, <3>2 DEF Growing, Neutral
  <2>3. CASE ~(Moved(row) < -Slack) /\ ~(Moved(row) <= 0)
    <3>1. Label(row) = row.action
      BY <1>2, <2>3 DEF Label, Growing
    <3>2. row.target > row.current
      BY <1>1, <2>3
    <3>. QED BY <1>2, <3>1, <3>2 DEF Growing, Neutral
  <2>. QED BY <2>1, <2>2, <2>3
<1>3. CASE row.action \notin Growing
  <2>1. row.action = "REDUCE" => ~(Moved(row) > Slack)
    BY <1>1
  <2>2. Label(row) = row.action
    BY <1>3, <2>1 DEF Label
  <2>3. row.action \in Neutral => row.current <= row.target + Slack
    BY <1>1
  <2>. QED BY <1>3, <2>2, <2>3
<1>. QED BY <1>2, <1>3

LEMMA RelabelLimits == ASSUME PlanInv, LimitInv, Relabel PROVE LimitInv'
<1>1. /\ stage = "relabel" /\ stage' = "pin" /\ Plan /\ DOMAIN rows' = DOMAIN rows
      /\ UNCHANGED <<held, selling, locked, limits, rescued, asked>>
      /\ \A s \in DOMAIN rows : rows'[s] = [rows[s] EXCEPT !.action = Label(rows[s])]
      /\ limits \in Envelopes /\ ~rescued
  BY DEF Relabel, Inputs, LimitInv
<1>2. \A s \in DOMAIN rows : /\ PlanRow(rows'[s]) /\ rows'[s].action = Label(rows[s])
                             /\ rows'[s].current = rows[s].current /\ rows'[s].target = rows[s].target
  <2>. SUFFICES ASSUME NEW s \in DOMAIN rows
                PROVE  /\ PlanRow(rows'[s]) /\ rows'[s].action = Label(rows[s])
                       /\ rows'[s].current = rows[s].current /\ rows'[s].target = rows[s].target
    OBVIOUS
  <2>1. PlanRow(rows[s]) /\ rows'[s] = [rows[s] EXCEPT !.action = Label(rows[s])]
    BY <1>1 DEF Plan
  <2>. QED BY <2>1, LabelIsAction
<1>3. Plan'
  BY <1>1, <1>2 DEF Plan
<1>4. SUFFICES ASSUME Limited PROVE Limited'
  <2>1. Coherent' = Coherent
    BY <1>1 DEF Coherent
  <2>. QED BY <1>1, <1>3, <2>1 DEF LimitInv
<1>5. \A s \in DOMAIN rows : /\ Label(rows[s]) \in Growing => rows[s].action \in Growing /\ rows[s].target > rows[s].current
                             /\ Label(rows[s]) \in Neutral => rows[s].current <= rows[s].target + Slack
                             /\ Label(rows[s]) = "SELL" <=> rows[s].action = "SELL"
  <2>1. Steady
    BY <1>1, <1>4 DEF Limited, Frozen
  <2>. QED BY <1>1, <2>1, LabelsAgree DEF Steady, Plan
<1>6. \A s \in DOMAIN rows : Grows(s)' => Grows(s) /\ rows'[s].target > rows'[s].current
  BY <1>2, <1>5 DEF Grows
<1>7. Leaning' /\ Gains'
  BY <1>1, <1>2, <1>5, <1>6 DEF Leaning, Gains
<1>8. limits.by = "policy" /\ limits.emergency => NoGrowth'
  <2>1. limits.by = "policy" /\ limits.emergency => NoGrowth
    BY <1>1, <1>4 DEF Limited, Frozen
  <2>. QED BY <1>1, <1>6, <2>1 DEF NoGrowth
<1>9. limits.by # "nothing" => PositionsFit'
  <2>1. limits.by # "nothing" => PositionsFit
    BY <1>1, <1>4 DEF Limited, Frozen
  <2>. QED BY <1>1, <1>2, <1>6, <2>1 DEF PositionsFit
<1>10. ExecutionFits'
  <2>1. ExecutionFits
    BY <1>1, <1>4 DEF Limited
  <2>. QED BY <1>1, <1>2, <1>6, <2>1 DEF ExecutionFits
<1>11. limits.by # "nothing" => (CashFits(0) \/ NoGrowth)'
  <2>1. limits.by # "nothing" => CashFits(0) \/ Starved
    BY <1>1, <1>4 DEF Limited
  <2>2. Invested(rows', Symbols) = Invested(rows, Symbols)
    <3>1. Kept(rows') = Kept(rows)
      BY <1>1, <1>2, <1>5 DEF Kept
    <3>2. WeightsOf(rows') = WeightsOf(rows)
      BY <1>1, <1>2 DEF WeightsOf
    <3>. QED BY <3>1, <3>2 DEF Invested, WeightsOf, Kept
  <2>3. Starved => NoGrowth'
    <3>1. \A s \in DOMAIN rows : rows[s].current \in Nat
      BY <1>1 DEF Plan, PlanRow
    <3>. QED BY <1>1, <1>2, <1>6, <3>1 DEF Starved, NoGrowth
  <2>4. CashFits(0) => CashFits(0)'
    BY <1>1, <2>2 DEF CashFits
  <2>. QED BY <2>1, <2>3, <2>4
<1>. QED BY <1>1, <1>7, <1>8, <1>9, <1>10, <1>11 DEF Limited

LEMMA PinLimits == ASSUME PlanInv, LimitInv, Pin PROVE LimitInv'
<1>1. /\ stage = "pin" /\ stage' = "stabilize" /\ Plan /\ DOMAIN rows' = DOMAIN rows
      /\ UNCHANGED <<held, selling, locked, limits, rescued, asked>>
      /\ \A s \in DOMAIN rows : rows'[s] = Pinned(rows[s])
  BY DEF Pin, Inputs, LimitInv
<1>2. ASSUME NEW s \in DOMAIN rows
      PROVE  /\ PlanRow(rows'[s]) /\ rows'[s].action = rows[s].action
             /\ rows[s].action \in Neutral => rows'[s].target = rows[s].current
             /\ rows[s].action \notin Neutral => rows'[s] = rows[s]
  <2>1. PlanRow(rows[s])
    BY <1>1 DEF Plan
  <2>2. CASE rows[s].action \in Neutral
    <3>1. rows'[s] = [rows[s] EXCEPT !.target = rows[s].current]
      BY <1>1, <2>2 DEF Pinned
    <3>2. /\ IsRow(rows'[s]) /\ rows'[s].action = rows[s].action
          /\ rows'[s].current = rows[s].current /\ rows'[s].target = rows[s].current
      BY <2>1, <3>1, Retargeted DEF PlanRow
    <3>. QED BY <2>1, <2>2, <3>2 DEF PlanRow
  <2>3. CASE rows[s].action \notin Neutral
    BY <1>1, <2>1, <2>3 DEF Pinned
  <2>. QED BY <2>2, <2>3
<1>3. Plan'
  BY <1>1, <1>2 DEF Plan
<1>4. SUFFICES ASSUME ~rescued, limits \in Envelopes, Limited PROVE Limited'
  <2>1. Coherent' = Coherent
    BY <1>1 DEF Coherent
  <2>. QED BY <1>1, <1>3, <2>1 DEF LimitInv
<1>5. \A s \in DOMAIN rows : /\ Grows(s)' <=> Grows(s)
                             /\ Grows(s) => rows'[s] = rows[s]
  BY <1>2 DEF Grows, Growing, Neutral
<1>6. Gains'
  BY <1>1, <1>4, <1>5 DEF Limited, Gains
<1>7. limits.by = "policy" /\ limits.emergency => NoGrowth'
  BY <1>1, <1>4, <1>5 DEF Limited, Frozen, NoGrowth
<1>8. limits.by # "nothing" => PositionsFit'
  <2>1. limits.by # "nothing" => PositionsFit
    BY <1>1, <1>4 DEF Limited, Frozen
  <2>. QED BY <1>1, <1>5, <2>1 DEF PositionsFit
<1>9. ExecutionFits'
  <2>1. ExecutionFits
    BY <1>1, <1>4 DEF Limited
  <2>. QED BY <1>1, <1>5, <2>1 DEF ExecutionFits
<1>10. limits.by # "nothing" => (CashFits(Slack * Cardinality(DOMAIN rows)) \/ NoGrowth)'
  <2>1. limits.by # "nothing" => CashFits(0) \/ NoGrowth
    BY <1>1, <1>4 DEF Limited
  <2>2. NoGrowth => NoGrowth'
    BY <1>1, <1>5 DEF NoGrowth
  <2>3. ASSUME CashFits(0) PROVE CashFits(Slack * Cardinality(DOMAIN rows))'
    <3>1. \A s \in DOMAIN rows : /\ rows'[s].action = rows[s].action /\ rows'[s].target \in Nat
                                 /\ rows'[s].target <= rows[s].target + Slack
      <4>1. Leaning /\ Slack \in Nat
        BY <1>1, <1>4, PlanAssumption DEF Limited
      <4>2. \A s \in DOMAIN rows : rows[s].target \in Nat /\ rows[s].current \in Nat /\ rows'[s].target \in Nat
        BY <1>1, <1>2 DEF Plan, PlanRow
      <4>. QED BY <1>2, <4>1, <4>2 DEF Leaning
    <3>2. Invested(rows', Symbols) <= Invested(rows, Symbols) + Slack * Cardinality(DOMAIN rows)
      BY <1>1, <3>1, PinnedGrowLittle
    <3>3. /\ Invested(rows, Symbols) \in Int /\ Invested(rows', Symbols) \in Int
          /\ Whole - limits.cash \in Int
      BY <1>1, <1>3, <1>4, InvestedIsNumber, EnvelopesAreTyped, PlanAssumption, InvestedTyped
    <3>4. Slack * Cardinality(DOMAIN rows) \in Int
      <4>1. Cardinality(DOMAIN rows) \in Nat
        BY <1>1, PlanIsFinite, FS_CardinalityType
      <4>. QED BY <4>1, PlanAssumption
    <3>5. Invested(rows, Symbols) <= Whole - limits.cash + 0
      BY <2>3 DEF CashFits
    <3>. DEFINE more == Slack * Cardinality(DOMAIN rows)
    <3>6. Invested(rows', Symbols) <= Whole - limits.cash + more
      <4>. HIDE DEF more
      <4>. QED BY <3>2, <3>3, <3>4, <3>5 DEF more
    <3>. QED BY <1>1, <3>6 DEF CashFits
  <2>. QED BY <2>1, <2>2, <2>3
<1>. QED BY <1>1, <1>6, <1>7, <1>8, <1>9, <1>10 DEF Limited

LEMMA PlanStepLimits == PlanInv /\ LimitInv /\ [PlanNext]_planVars => LimitInv'
<1>. SUFFICES ASSUME PlanInv, LimitInv, [PlanNext]_planVars PROVE LimitInv'
  OBVIOUS
<1>1. CASE StabilizationFails \/ \E unsafe, urgent, force, worth \in BOOLEAN : Stabilize(unsafe, urgent, force, worth)
  <2>1. /\ stage = "stabilize" /\ stage' = "save"
        /\ UNCHANGED <<held, selling, locked, limits, rescued, asked, rows>>
    BY <1>1 DEF StabilizationFails, Stabilize, Inputs
  <2>. QED BY <2>1 DEF LimitInv, Plan, Limited, Coherent, Frozen, Steady, Leaning, NoGrowth, Starved, Gains,
           PositionsFit, ExecutionFits, CashFits, Invested, Grows
<1>2. CASE Save
  BY <1>2 DEF Save, NoRows, LimitInv, Plan
<1>3. CASE NextDay \/ UNCHANGED planVars
  <2>1. UNCHANGED <<stage, held, selling, locked, limits, rescued, asked, rows>>
    BY <1>3 DEF NextDay, Inputs, planVars
  <2>. QED BY <2>1 DEF LimitInv, Plan, Limited, Coherent, Steady, Leaning, NoGrowth, Starved, Gains,
           PositionsFit, ExecutionFits, CashFits, Invested, Grows
<1>. QED BY <1>1, <1>2, <1>3, RunLimits, ForceSellsLimits, LockLimits, FreezeLimits, CapPositionsLimits,
         KeepCashLimits, CapSectorsLimits, CapExecutionLimits, RelabelLimits, PinLimits
         DEF PlanNext

(* However the limits interact, and in whatever order rows of one size     *)
(* are cut: of a proposal that does what it says, the layered pipeline     *)
(* leaves no row that grows beyond its position or execution limit, none   *)
(* that grows in an emergency, and cash at its floor unless nothing grows. *)
THEOREM LimitsAlwaysHold == PlanSpec => []LimitsHold
<1>1. LimitInv => LimitsHold
  <2>. SUFFICES ASSUME LimitInv, Planned, ~rescued, Coherent
                PROVE  LET growing == {s \in DOMAIN rows : Grows(s)}
                       IN  /\ \A s \in growing : Moved(rows[s]) > 0 /\ rows[s].target <= limits.execution[s]
                           /\ limits.by # "nothing" =>
                                /\ \A s \in growing : rows[s].target <= limits.position
                                /\ \/ Invested(rows, Symbols)
                                        <= Whole - limits.cash + Slack * Cardinality(DOMAIN rows)
                                   \/ growing = {}
                           /\ limits.by = "policy" /\ limits.emergency => growing = {}
    BY DEF LimitsHold
  <2>1. Limited /\ stage \in {"stabilize", "save"}
    BY DEF LimitInv, Planned
  <2>2. /\ limits.by = "policy" /\ limits.emergency => NoGrowth
        /\ limits.by # "nothing" => PositionsFit
        /\ ExecutionFits /\ Gains
        /\ limits.by # "nothing" => CashFits(Slack * Cardinality(DOMAIN rows)) \/ NoGrowth
    BY <2>1 DEF Limited, Frozen
  <2>3. \A s \in DOMAIN rows : Grows(s) => Moved(rows[s]) > 0
    <3>1. \A s \in DOMAIN rows : rows[s].target \in Nat /\ rows[s].current \in Nat
      BY DEF LimitInv, Plan, PlanRow
    <3>. QED BY <2>2, <3>1 DEF Gains, Moved
  <2>. QED BY <2>2, <2>3 DEF NoGrowth, PositionsFit, ExecutionFits, CashFits
<1>2. PlanInit => PlanInv /\ LimitInv
  BY PlanInitInv, PlanInitLimits
<1>3. (PlanInv /\ LimitInv) /\ [PlanNext]_planVars => (PlanInv /\ LimitInv)'
  BY PlanStepInv, PlanStepLimits
<1>. QED BY <1>1, <1>2, <1>3, PTL DEF PlanSpec

-----------------------------------------------------------------------------
(* Funding: who is before whom.                                            *)

(* A set of candidates with what each is recommended for, the gap they are *)
(* to close, and what is made of each.                                     *)
Funded(O, full, gap, T) ==
  /\ O \subseteq Instruments /\ \A s \in O : full[s] \in Nat
  /\ gap \in Int
  /\ \A s \in O : T[s] = Taken(full[s], gap - SumOf(full, Before(s, O, full)))

LEMMA BeforeIsOrder ==
  ASSUME NEW O, O \subseteq Instruments, NEW full, \A s \in O : full[s] \in Nat
  PROVE  /\ IsFiniteSet(O) /\ \A S : S \subseteq O => IsFiniteSet(S) /\ SumOf(full, S) \in Nat
         /\ \A s : Before(s, O, full) \subseteq O
         /\ \A s \in O : s \notin Before(s, O, full)
         /\ \A s, t \in O : t \in Before(s, O, full) =>
              Before(t, O, full) \union {t} \subseteq Before(s, O, full)
         /\ \A s, t \in O : s = t \/ s \in Before(t, O, full) \/ t \in Before(s, O, full)
<1>1. /\ IsFiniteSet(Instruments) /\ \A s \in O : Rank[s] \in Nat
      /\ \A x, y \in O : Rank[x] = Rank[y] => x = y
  BY ExecutionAssumption
<1>2. IsFiniteSet(O) /\ \A S : S \subseteq O => IsFiniteSet(S)
  BY <1>1, FS_Subset
<1>3. ASSUME NEW S, S \subseteq O PROVE SumOf(full, S) \in Nat
  <2>1. IsFiniteSet(S) /\ \A s \in S : full[s] \in Nat
    BY <1>2, <1>3
  <2>. QED BY <2>1, SumIsNatural DEF SumOf
<1>4. /\ \A s : Before(s, O, full) \subseteq O
      /\ \A s \in O : s \notin Before(s, O, full)
  BY <1>1 DEF Before
<1>5. ASSUME NEW s \in O, NEW t \in O, t \in Before(s, O, full), NEW x \in Before(t, O, full)
      PROVE  x \in Before(s, O, full)
  <2>1. /\ full[t] < full[s] \/ (full[t] = full[s] /\ Rank[t] < Rank[s])
        /\ x \in O
        /\ full[x] < full[t] \/ (full[x] = full[t] /\ Rank[x] < Rank[t])
    BY <1>5 DEF Before
  <2>2. /\ full[s] \in Nat /\ full[t] \in Nat /\ full[x] \in Nat
        /\ Rank[s] \in Nat /\ Rank[t] \in Nat /\ Rank[x] \in Nat
    BY <1>1, <1>5, <2>1
  <2>3. full[x] < full[s] \/ (full[x] = full[s] /\ Rank[x] < Rank[s])
    BY <2>1, <2>2
  <2>. QED BY <2>1, <2>3 DEF Before
<1>6. ASSUME NEW s \in O, NEW t \in O, s # t
      PROVE  s \in Before(t, O, full) \/ t \in Before(s, O, full)
  <2>1. full[s] \in Nat /\ full[t] \in Nat /\ Rank[s] \in Nat /\ Rank[t] \in Nat /\ Rank[s] # Rank[t]
    BY <1>1, <1>6
  <2>. QED BY <2>1 DEF Before
<1>. QED BY <1>2, <1>3, <1>4, <1>5, <1>6

(* Of any candidates one is before all the others, and one behind them.    *)
LEMMA FirstAndLast ==
  ASSUME NEW O, O \subseteq Instruments, NEW full, \A s \in O : full[s] \in Nat,
         NEW R, R \subseteq O, R # {}
  PROVE  /\ \E r \in R : \A x \in R : x \notin Before(r, O, full)
         /\ \E r \in R : \A x \in R : x = r \/ x \in Before(r, O, full)
<1>. DEFINE B(s) == Before(s, O, full)
            size(s) == Cardinality(B(s))
            behind(s) == Cardinality(O) - size(s)
<1>1. /\ IsFiniteSet(O) /\ \A s : IsFiniteSet(B(s)) /\ B(s) \subseteq O
      /\ \A s, t \in O : t \in B(s) => B(t) \subseteq B(s) /\ t \notin B(t)
      /\ \A s, t \in O : s = t \/ s \in B(t) \/ t \in B(s)
  BY BeforeIsOrder
<1>2. /\ Cardinality(O) \in Nat
      /\ \A s : size(s) \in Nat /\ size(s) <= Cardinality(O)
  BY <1>1, FS_CardinalityType, FS_Subset
<1>. HIDE DEF B
<1>3. ASSUME NEW s \in O, NEW t \in O, t \in B(s)
      PROVE  size(t) < size(s)
  <2>1. B(t) \subseteq B(s) /\ B(t) # B(s)
    BY <1>1, <1>3
  <2>2. size(t) <= size(s) /\ size(t) # size(s)
    BY <1>1, <2>1, FS_Subset
  <2>. QED BY <1>2, <2>2
<1>. HIDE DEF size
<1>4. \E r \in R : \A x \in R : x \notin B(r)
  <2>. DEFINE Sizes == {size(s) : s \in R}
  <2>1. PICK m \in Sizes : \A k \in Sizes : m <= k
    <3>1. Sizes \subseteq Nat /\ Sizes # {}
      BY <1>2
    <3>. HIDE DEF Sizes
    <3>. QED BY <3>1, LeastNumber
  <2>2. PICK r \in R : m = size(r)
    BY <2>1
  <2>3. ASSUME NEW x \in R, x \in B(r) PROVE FALSE
    <3>1. size(x) < size(r) /\ size(r) <= size(x)
      BY <1>3, <2>1, <2>2, <2>3
    <3>. QED BY <1>2, <3>1
  <2>. QED BY <2>3
<1>5. \E r \in R : \A x \in R : x = r \/ x \in B(r)
  <2>. DEFINE Sizes == {behind(s) : s \in R}
  <2>1. PICK m \in Sizes : \A k \in Sizes : m <= k
    <3>1. Sizes \subseteq Nat /\ Sizes # {}
      BY <1>2
    <3>. HIDE DEF Sizes
    <3>. QED BY <3>1, LeastNumber
  <2>2. PICK r \in R : m = behind(r)
    BY <2>1
  <2>3. ASSUME NEW x \in R, x # r, x \notin B(r) PROVE FALSE
    <3>1. r \in B(x)
      BY <1>1, <2>3
    <3>2. size(r) < size(x) /\ behind(r) <= behind(x)
      BY <1>3, <2>1, <2>2, <3>1
    <3>. QED BY <1>2, <3>2
  <2>. QED BY <2>3
<1>. QED BY <1>4, <1>5 DEF B

-----------------------------------------------------------------------------
(* What is taken of them.                                                  *)

LEMMA TakenParts ==
  ASSUME NEW amount \in Nat, NEW left \in Int
  PROVE  LET t == Taken(amount, left)
         IN  /\ t.full = amount /\ t.executed \in Nat /\ t.executed <= amount
             /\ t.state \in {"FULL", "SCALED", "DEFERRED"}
             /\ t.state = "DEFERRED" => t.executed = 0 /\ left <= Epsilon
             /\ t.state = "FULL" => t.executed = amount /\ left > Epsilon /\ amount <= left + Epsilon
             /\ t.state = "SCALED" => t.executed = left /\ left > Epsilon /\ amount > left + Epsilon
             /\ left <= Epsilon => t.state = "DEFERRED"
<1>1. Epsilon \in Nat
  BY ExecutionAssumption
<1>. QED BY <1>1 DEF Taken

LEMMA FundedParts ==
  ASSUME NEW O, NEW full, NEW gap, NEW T, Funded(O, full, gap, T), NEW s \in O
  PROVE  LET left == gap - SumOf(full, Before(s, O, full))
         IN  /\ left \in Int
             /\ T[s].full = full[s] /\ T[s].executed \in Nat /\ T[s].executed <= full[s]
             /\ T[s].state \in {"FULL", "SCALED", "DEFERRED"}
             /\ T[s].state = "DEFERRED" => T[s].executed = 0 /\ left <= Epsilon
             /\ T[s].state = "FULL" => T[s].executed = full[s] /\ left > Epsilon /\ full[s] <= left + Epsilon
             /\ T[s].state = "SCALED" => T[s].executed = left /\ left > Epsilon /\ full[s] > left + Epsilon
             /\ left <= Epsilon => T[s].state = "DEFERRED"
<1>. DEFINE left == gap - SumOf(full, Before(s, O, full))
<1>1. left \in Int /\ full[s] \in Nat
  BY BeforeIsOrder DEF Funded
<1>2. T[s] = Taken(full[s], left)
  BY DEF Funded
<1>. HIDE DEF left
<1>3. /\ T[s].full = full[s] /\ T[s].executed \in Nat /\ T[s].executed <= full[s]
      /\ T[s].state \in {"FULL", "SCALED", "DEFERRED"}
      /\ T[s].state = "DEFERRED" => T[s].executed = 0 /\ left <= Epsilon
      /\ T[s].state = "FULL" => T[s].executed = full[s] /\ left > Epsilon /\ full[s] <= left + Epsilon
      /\ T[s].state = "SCALED" => T[s].executed = left /\ left > Epsilon /\ full[s] > left + Epsilon
      /\ left <= Epsilon => T[s].state = "DEFERRED"
  BY <1>1, <1>2, TakenParts
<1>. QED BY <1>1, <1>3 DEF left

(* Behind a candidate that is not taken whole nothing is taken.            *)
LEMMA NothingBehind ==
  ASSUME NEW O, NEW full, NEW gap, NEW T, Funded(O, full, gap, T),
         NEW s \in O, NEW t \in O, t \in Before(s, O, full), T[t].state # "FULL"
  PROVE  T[s].state = "DEFERRED"
<1>. DEFINE Bs == Before(s, O, full)
            Bt == Before(t, O, full)
<1>1. /\ Bs \subseteq O /\ Bt \subseteq O /\ t \notin Bt /\ Bt \union {t} \subseteq Bs
      /\ IsFiniteSet(Bs) /\ IsFiniteSet(Bt) /\ \A x \in O : full[x] \in Nat /\ gap \in Int
      /\ SumOf(full, Bs) \in Nat /\ SumOf(full, Bt) \in Nat /\ Epsilon \in Nat
  BY BeforeIsOrder, ExecutionAssumption DEF Funded
<1>2. /\ gap - SumOf(full, Bt) <= Epsilon \/ full[t] > gap - SumOf(full, Bt) + Epsilon
      /\ gap - SumOf(full, Bs) <= Epsilon => T[s].state = "DEFERRED"
  BY FundedParts
<1>. HIDE DEF Bs, Bt
<1>3. SumOf(full, Bt \union {t}) = SumOf(full, Bt) + full[t]
  <2>1. IsFiniteSet(Bt) /\ t \notin Bt
    BY <1>1
  <2>2. \A x \in Bt \union {t} : full[x] \in Int
    BY <1>1
  <2>3. SumFunctionOnSet(full, Bt \union {t}) = SumFunctionOnSet(full, Bt) + full[t]
    BY <2>1, <2>2, SumInsert
  <2>. QED BY <2>3 DEF SumOf
<1>4. SumOf(full, Bt \union {t}) <= SumOf(full, Bs)
  <2>1. \A x \in Bs : full[x] \in Nat
    BY <1>1
  <2>. QED BY <1>1, <2>1, SumOfPart DEF SumOf
<1>5. full[t] \in Nat
  BY <1>1
<1>6. gap - SumOf(full, Bs) <= Epsilon
  BY <1>1, <1>2, <1>3, <1>4, <1>5
<1>. QED BY <1>2, <1>6

LEMMA OneIsCut ==
  ASSUME NEW O, NEW full, NEW gap, NEW T, Funded(O, full, gap, T)
  PROVE  Cardinality({s \in O : T[s].state = "SCALED"}) <= 1
<1>. DEFINE S == {s \in O : T[s].state = "SCALED"}
<1>1. ASSUME NEW s \in S, NEW t \in S, s # t PROVE FALSE
  <2>1. s \in Before(t, O, full) \/ t \in Before(s, O, full)
    BY <1>1, BeforeIsOrder DEF Funded
  <2>2. T[s].state = "DEFERRED" \/ T[t].state = "DEFERRED"
    BY <1>1, <2>1, NothingBehind
  <2>. QED BY <1>1, <2>2
<1>2. CASE S = {}
  BY <1>2, FS_EmptySet
<1>3. CASE S # {}
  <2>1. PICK s \in S : S = {s}
    BY <1>1, <1>3
  <2>2. Cardinality({s}) = 1
    BY FS_Singleton
  <2>. QED BY <2>1, <2>2
<1>. QED BY <1>2, <1>3

(* No more is taken than the gap, if anything is; and while something is   *)
(* kept back, no less.                                                     *)
LEMMA TakenFitsGap ==
  ASSUME NEW O, NEW full, NEW gap, NEW T, Funded(O, full, gap, T),
         NEW E, \A s \in O : E[s] = T[s].executed
  PROVE  /\ SumOf(E, O) \in Nat
         /\ (\E s \in O : E[s] > 0) => SumOf(E, O) <= gap + Epsilon
         /\ (\E s \in O : T[s].state # "FULL") => SumOf(E, O) >= gap - Epsilon
<1>. DEFINE B(s) == Before(s, O, full)
<1>1. /\ O \subseteq Instruments /\ \A s \in O : full[s] \in Nat
      /\ gap \in Int /\ Epsilon \in Nat /\ IsFiniteSet(O)
      /\ \A s : B(s) \subseteq O /\ (s \in O => s \notin B(s))
      /\ \A S : S \subseteq O => IsFiniteSet(S) /\ SumOf(full, S) \in Nat
  BY BeforeIsOrder, ExecutionAssumption DEF Funded
<1>2. \A s \in O : E[s] \in Nat /\ E[s] <= full[s]
  BY FundedParts
<1>3. \A S : S \subseteq O => SumOf(E, S) \in Nat
  <2>. SUFFICES ASSUME NEW S, S \subseteq O PROVE SumOf(E, S) \in Nat
    OBVIOUS
  <2>1. IsFiniteSet(S) /\ \A s \in S : E[s] \in Nat
    BY <1>1, <1>2
  <2>. QED BY <2>1, SumIsNatural DEF SumOf
<1>4. ASSUME \E s \in O : E[s] > 0
      PROVE  SumOf(E, O) <= gap + Epsilon
  <2>1. PICK r \in {s \in O : E[s] > 0} : \A x \in {s \in O : E[s] > 0} : x = r \/ x \in B(r)
    <3>. DEFINE R == {s \in O : E[s] > 0}
    <3>1. R \subseteq O /\ R # {}
      BY <1>4
    <3>. HIDE DEF R
    <3>2. \E r \in R : \A x \in R : x = r \/ x \in B(r)
      BY <1>1, <3>1, FirstAndLast
    <3>. QED BY <3>2 DEF R
  <2>. DEFINE rest == O \ (B(r) \union {r})
              left == gap - SumOf(full, B(r))
  <2>2. /\ r \in O /\ B(r) \subseteq O /\ r \notin B(r) /\ IsFiniteSet(B(r))
        /\ IsFiniteSet(rest) /\ rest \subseteq O
        /\ \A x \in rest : E[x] = 0
    <3>1. r \in O /\ B(r) \subseteq O /\ r \notin B(r) /\ rest \subseteq O
      BY <1>1, <2>1
    <3>2. IsFiniteSet(B(r)) /\ IsFiniteSet(rest)
      BY <1>1, <3>1
    <3>3. ASSUME NEW x \in rest PROVE E[x] = 0
      <4>1. ~(E[x] > 0) /\ E[x] \in Nat
        BY <1>2, <2>1, <3>1
      <4>. QED BY <4>1
    <3>. QED BY <3>1, <3>2, <3>3
  <2>3. E[r] <= left + Epsilon /\ E[r] \in Nat /\ left \in Int
    <3>1. /\ left \in Int
          /\ T[r].state \in {"FULL", "SCALED", "DEFERRED"}
          /\ T[r].state = "DEFERRED" => T[r].executed = 0
          /\ T[r].state = "FULL" => T[r].executed = full[r] /\ full[r] <= left + Epsilon
          /\ T[r].state = "SCALED" => T[r].executed = left
      BY <2>2, FundedParts
    <3>. HIDE DEF left
    <3>2. T[r].state # "DEFERRED" /\ E[r] = T[r].executed /\ E[r] \in Nat
      BY <1>2, <2>1, <3>1
    <3>. QED BY <1>1, <3>1, <3>2
  <2>. HIDE DEF B, rest
  <2>4. SumOf(E, B(r)) <= SumOf(full, B(r))
    <3>1. \A x \in B(r) : E[x] \in Int /\ full[x] \in Int /\ E[x] <= full[x]
      BY <1>1, <1>2, <2>2
    <3>. QED BY <2>2, <3>1, SumIsMonotone DEF SumOf
  <2>5. SumOf(E, B(r) \union {r}) = SumOf(E, B(r)) + E[r]
    <3>1. \A x \in B(r) \union {r} : E[x] \in Int
      BY <1>2, <2>2
    <3>. QED BY <2>2, <3>1, SumInsert DEF SumOf
  <2>6. SumOf(E, rest) = 0
    <3>1. \A x \in rest : E[x] \in Int /\ E[x] = 0 * E[x]
      BY <2>2
    <3>2. SumFunctionOnSet(E, rest) = 0 * SumFunctionOnSet(E, rest)
      BY <2>2, <3>1, SumOfTimes
    <3>. QED BY <2>2, <3>2, <1>3 DEF SumOf
  <2>7. SumOf(E, O) = SumOf(E, B(r) \union {r}) + SumOf(E, rest)
    <3>1. /\ IsFiniteSet(B(r) \union {r}) /\ (B(r) \union {r}) \intersect rest = {}
          /\ O = (B(r) \union {r}) \union rest
      BY <1>1, <2>2 DEF rest
    <3>2. \A x \in (B(r) \union {r}) \union rest : E[x] \in Int
      BY <1>2, <3>1
    <3>. QED BY <2>2, <3>1, <3>2, SumOfUnion DEF SumOf
  <2>8. SumOf(E, B(r)) \in Nat /\ SumOf(full, B(r)) \in Nat
    BY <1>1, <1>3, <2>2
  <2>. QED BY <1>1, <2>3, <2>4, <2>5, <2>6, <2>7, <2>8
<1>5. ASSUME \E s \in O : T[s].state # "FULL"
      PROVE  SumOf(E, O) >= gap - Epsilon
  <2>1. PICK r \in {s \in O : T[s].state # "FULL"} :
          \A x \in {s \in O : T[s].state # "FULL"} : x \notin B(r)
    <3>. DEFINE R == {s \in O : T[s].state # "FULL"}
    <3>1. R \subseteq O /\ R # {}
      BY <1>5
    <3>. HIDE DEF R
    <3>2. \E r \in R : \A x \in R : x \notin B(r)
      BY <1>1, <3>1, FirstAndLast
    <3>. QED BY <3>2 DEF R
  <2>. DEFINE left == gap - SumOf(full, B(r))
  <2>2. /\ r \in O /\ B(r) \subseteq O /\ r \notin B(r) /\ IsFiniteSet(B(r))
        /\ \A x \in B(r) : T[x].state = "FULL"
    BY <1>1, <2>1
  <2>3. \A x \in B(r) : E[x] = full[x]
    BY <2>2, FundedParts
  <2>4. E[r] >= left - Epsilon /\ E[r] \in Nat /\ left \in Int
    <3>1. /\ left \in Int
          /\ T[r].state \in {"FULL", "SCALED", "DEFERRED"}
          /\ T[r].state = "DEFERRED" => T[r].executed = 0 /\ left <= Epsilon
          /\ T[r].state = "SCALED" => T[r].executed = left
      BY <2>2, FundedParts
    <3>. HIDE DEF left
    <3>2. T[r].state # "FULL" /\ E[r] = T[r].executed /\ E[r] \in Nat
      BY <1>2, <2>1, <2>2
    <3>. QED BY <1>1, <3>1, <3>2
  <2>. HIDE DEF B
  <2>5. SumOf(E, B(r)) = SumOf(full, B(r))
    BY <2>2, <2>3, SumExtends DEF SumOf
  <2>6. SumOf(E, B(r) \union {r}) = SumOf(E, B(r)) + E[r]
    <3>1. \A x \in B(r) \union {r} : E[x] \in Int
      BY <1>2, <2>2
    <3>. QED BY <2>2, <3>1, SumInsert DEF SumOf
  <2>7. SumOf(E, B(r) \union {r}) <= SumOf(E, O)
    <3>1. B(r) \union {r} \subseteq O
      BY <2>2
    <3>. QED BY <1>1, <1>2, <3>1, SumOfPart DEF SumOf
  <2>8. SumOf(E, B(r)) \in Nat /\ SumOf(full, B(r)) \in Nat /\ SumOf(E, O) \in Nat
    BY <1>1, <1>3, <2>2
  <2>. QED BY <1>1, <2>4, <2>5, <2>6, <2>7, <2>8
<1>. QED BY <1>3, <1>4, <1>5

LEMMA WholeParts ==
  ASSUME NEW n \in Nat, NEW d \in Nat \ {0}
  PROVE  n \div d \in Nat
OBVIOUS

LEMMA Products ==
  ASSUME NEW m \in Nat, NEW n \in Nat
  PROVE  m * n \in Nat
OBVIOUS

LEMMA FullAmounts ==
  ASSUME NEW item, item.shares \in Nat, item.cost \in Nat, NEW signal
  PROVE  FullAmount(item, signal) \in Nat
<1>. DEFINE value == item.shares * item.cost
<1>1. value \in Nat
  BY Products
<1>2. ReducePart \in Nat \ {0} /\ ReducePart \div 2 \in Nat
  BY ExecutionAssumption, WholeParts
<1>. HIDE DEF value
<1>3. (value + ReducePart \div 2) \div ReducePart \in Nat
  <2>1. value + ReducePart \div 2 \in Nat
    BY <1>1, <1>2
  <2>. QED BY <1>2, <2>1, WholeParts
<1>. QED BY <1>1, <1>3 DEF FullAmount, value

(* The plan stays what its request makes of it.                            *)
FundInv ==
  Built =>
    /\ position \in Holdings /\ cash \in Balances /\ buys \in Deployments
    /\ signals \in Signals(position)
    /\ trades = Resolved(position, cash, signals, buys, breached)

LEMMA FundStepInv == FundInv /\ [ExecutionNext]_executionVars => FundInv'
<1>. SUFFICES ASSUME FundInv, [ExecutionNext]_executionVars PROVE FundInv'
  OBVIOUS
<1>1. ASSUME NEW h \in Holdings, NEW c \in Balances, NEW b \in Deployments, NEW sig \in Signals(h),
             NEW breaches, NEW views, NEW live, Build(h, c, sig, b, breaches, views, live)
      PROVE  FundInv'
  BY <1>1 DEF Build, FundInv
<1>2. CASE UNCHANGED planInputs /\ Built
  BY <1>2 DEF planInputs, FundInv, Resolved, Candidates, Built
<1>3. CASE UNCHANGED executionVars
  BY <1>3 DEF executionVars, FundInv, Built
<1>4. ASSUME ~(UNCHANGED planInputs /\ Built), ~UNCHANGED executionVars
      PROVE  \E h \in Holdings, c \in Balances, b \in Deployments :
               \E sig \in Signals(h) :
                 \E breaches, views, live : Build(h, c, sig, b, breaches, views, live)
  BY <1>4 DEF ExecutionNext, Answer, BatchFails, Judge, Tick, Built
<1>. QED BY <1>1, <1>2, <1>3, <1>4

(* What the request makes of its candidates.                               *)
LEMMA PlanIsFunded ==
  ASSUME FundInv, Built
  PROVE  LET C    == Candidates(position, signals, buys)
             full == [s \in C |-> FullAmount(position[s], signals[s])]
             N    == {s \in C : Necessary(s, signals, breached)}
         IN  /\ DOMAIN trades = C /\ C \subseteq DOMAIN position \ DOMAIN buys
             /\ C \subseteq Instruments /\ Optional = C \ N
             /\ \A s \in C : full[s] \in Nat
             /\ \A s \in N : trades[s] = [full |-> full[s], executed |-> full[s], state |-> "FULL"]
             /\ Funded(C \ N, full, Gap(buys, cash) - SumOf(full, N), trades)
             /\ Gap(buys, cash) \in Nat /\ cash \in Int /\ SumOf(buys, DOMAIN buys) \in Nat
<1>. DEFINE C    == Candidates(position, signals, buys)
            full == [s \in C |-> FullAmount(position[s], signals[s])]
            N    == {s \in C : Necessary(s, signals, breached)}
            gap  == Gap(buys, cash) - SumOf(full, N)
<1>1. /\ position \in Holdings /\ cash \in Int /\ buys \in Deployments
      /\ trades = Resolved(position, cash, signals, buys, breached)
  BY ExecutionAssumption DEF FundInv
<1>2. /\ DOMAIN position \subseteq Instruments /\ C \subseteq DOMAIN position \ DOMAIN buys
      /\ C \subseteq Instruments
      /\ \A s \in DOMAIN position : position[s].shares \in Nat /\ position[s].cost \in Nat
  BY <1>1, ExecutionAssumption DEF Candidates
<1>3. \A s \in C : full[s] \in Nat
  BY <1>2, FullAmounts
<1>4. trades = [s \in C |->
         IF s \in N THEN [full |-> full[s], executed |-> full[s], state |-> "FULL"]
         ELSE Taken(full[s], gap - SumOf(full, Before(s, C \ N, full)))]
  BY <1>1 DEF Resolved
<1>5. SumOf(buys, DOMAIN buys) \in Nat
  <2>1. /\ DOMAIN buys \subseteq Instruments /\ \A s \in DOMAIN buys : buys[s] \in Nat
        /\ IsFiniteSet(DOMAIN buys)
    BY <1>1, ExecutionAssumption, FS_Subset
  <2>. QED BY <2>1, SumIsNatural DEF SumOf
<1>6. Gap(buys, cash) \in Nat
  BY <1>1, <1>5 DEF Gap
<1>7. Optional = C \ N
  BY <1>4 DEF Optional
<1>. HIDE DEF C, full
<1>8. SumOf(full, N) \in Nat
  BY <1>2, <1>3, BeforeIsOrder
<1>9. gap \in Int
  BY <1>6, <1>8
<1>. HIDE DEF gap
<1>10. Funded(C \ N, full, gap, trades)
  BY <1>2, <1>3, <1>4, <1>9 DEF Funded
<1>11. DOMAIN trades = C /\ \A s \in N : trades[s] = [full |-> full[s], executed |-> full[s], state |-> "FULL"]
  BY <1>4
<1>. QED BY <1>1, <1>2, <1>3, <1>5, <1>6, <1>7, <1>10, <1>11 DEF C, full, gap

(* Of any holdings, signals, breaches, cash and buys: what must be sold is *)
(* sold whole, of the rest at most one candidate is cut, none that is kept *)
(* is smaller than one that is sold, and what is released is the gap,      *)
(* unless everything there is to sell is sold.                             *)
THEOREM FundingAlwaysClosesTheGap == ExecutionSpec => []FundingClosesTheGap
<1>1. FundInv => FundingClosesTheGap
  <2>. SUFFICES ASSUME FundInv, Built PROVE FundingClosesTheGap
    BY DEF FundingClosesTheGap
  <2>. DEFINE C     == Candidates(position, signals, buys)
              full  == [s \in C |-> FullAmount(position[s], signals[s])]
              N     == {s \in C : Necessary(s, signals, breached)}
              O     == C \ N
              gap   == Gap(buys, cash) - SumOf(full, N)
              E     == [s \in DOMAIN trades |-> Executed(s)]
              whole == {s \in Optional : trades[s].state = "FULL"}
              released == Released(DOMAIN trades)
  <2>1. /\ DOMAIN trades = C /\ C \subseteq Instruments /\ Optional = O
        /\ \A s \in C : full[s] \in Nat
        /\ \A s \in N : trades[s] = [full |-> full[s], executed |-> full[s], state |-> "FULL"]
        /\ Funded(O, full, gap, trades)
        /\ Gap(buys, cash) \in Nat /\ cash \in Int /\ SumOf(buys, DOMAIN buys) \in Nat
    BY PlanIsFunded
  <2>. /\ N \subseteq C /\ Epsilon \in Nat
    BY ExecutionAssumption
  <2>. HIDE DEF C, full, N, gap
  <2>2. \A s \in O : /\ trades[s].full = full[s] /\ trades[s].executed \in Nat
                     /\ trades[s].state \in {"FULL", "SCALED", "DEFERRED"}
                     /\ trades[s].state = "DEFERRED" => trades[s].executed = 0
    BY <2>1, FundedParts
  <2>3. /\ \A s \in C : E[s] = trades[s].executed /\ E[s] \in Nat
        /\ \A s \in N : E[s] = full[s] /\ trades[s].full = full[s] /\ trades[s].state = "FULL"
    <3>1. \A s \in C : E[s] = trades[s].executed
      BY <2>1 DEF Executed
    <3>2. \A s \in N : trades[s].executed = full[s] /\ trades[s].full = full[s] /\ trades[s].state = "FULL"
      <4>. SUFFICES ASSUME NEW s \in N
                    PROVE  /\ trades[s].executed = full[s] /\ trades[s].full = full[s]
                           /\ trades[s].state = "FULL"
        OBVIOUS
      <4>. DEFINE amount == full[s]
                  row == [full |-> amount, executed |-> amount, state |-> "FULL"]
      <4>1. trades[s] = row
        BY <2>1
      <4>2. row.executed = amount /\ row.full = amount /\ row.state = "FULL"
        OBVIOUS
      <4>. HIDE DEF row
      <4>. QED BY <4>1, <4>2
    <3>3. \A s \in C : trades[s].executed \in Nat
      <4>. SUFFICES ASSUME NEW s \in C PROVE trades[s].executed \in Nat
        OBVIOUS
      <4>1. CASE s \in N
        BY <2>1, <3>2, <4>1
      <4>2. CASE s \in O
        BY <2>2, <4>2
      <4>. QED BY <4>1, <4>2
    <3>. QED BY <3>1, <3>2, <3>3
  <2>. HIDE DEF E
  <2>4. /\ IsFiniteSet(C) /\ IsFiniteSet(N) /\ IsFiniteSet(O) /\ SumOf(full, N) \in Nat
        /\ N \intersect O = {} /\ N \union O = C
    BY <2>1, BeforeIsOrder
  <2>5. SumOf(E, C) = SumOf(full, N) + SumOf(E, O)
    <3>1. \A s \in N \union O : E[s] \in Int
      BY <2>3, <2>4
    <3>2. SumOf(E, C) = SumOf(E, N) + SumOf(E, O)
      BY <2>4, <3>1, SumOfUnion DEF SumOf
    <3>3. SumOf(E, N) = SumOf(full, N)
      BY <2>3, <2>4, SumExtends DEF SumOf
    <3>. QED BY <3>2, <3>3
  <2>6. /\ SumOf(E, O) \in Nat
        /\ (\E s \in O : E[s] > 0) => SumOf(E, O) <= gap + Epsilon
        /\ (\E s \in O : trades[s].state # "FULL") => SumOf(E, O) >= gap - Epsilon
    <3>1. \A s \in O : E[s] = trades[s].executed
      BY <2>3
    <3>. QED BY <2>1, <3>1, TakenFitsGap
  <2>7. /\ released = SumOf(full, N) + SumOf(E, O) /\ gap = Gap(buys, cash) - SumOf(full, N)
        /\ released \in Int
    BY <2>1, <2>4, <2>5, <2>6 DEF Released, E, gap
  <2>8. \A s \in DOMAIN trades \ Optional : Executed(s) = trades[s].full
    BY <2>1, <2>3 DEF Executed
  <2>9. Cardinality({s \in DOMAIN trades : trades[s].state = "SCALED"}) <= 1
    <3>1. {s \in DOMAIN trades : trades[s].state = "SCALED"} = {s \in O : trades[s].state = "SCALED"}
      BY <2>1, <2>3, <2>4
    <3>. QED BY <2>1, <3>1, OneIsCut
  <2>10. {s \in Optional : Executed(s) > 0} # {} => released <= Gap(buys, cash) + Epsilon
    <3>1. {s \in Optional : Executed(s) > 0} # {} => \E s \in O : E[s] > 0
      BY <2>1, <2>3 DEF Executed
    <3>. QED BY <2>1, <2>4, <2>6, <2>7, <3>1
  <2>11. whole # Optional => released >= Gap(buys, cash) - Epsilon
    <3>1. whole # Optional => \E s \in O : trades[s].state # "FULL"
      BY <2>1
    <3>. QED BY <2>1, <2>4, <2>6, <2>7, <3>1
  <2>12. \A s \in whole, t \in Optional \ whole : trades[s].full <= trades[t].full
    <3>. SUFFICES ASSUME NEW s \in whole, NEW t \in Optional \ whole, ~(trades[s].full <= trades[t].full)
                  PROVE  FALSE
      OBVIOUS
    <3>1. /\ s \in O /\ t \in O /\ trades[s].state = "FULL" /\ trades[t].state # "FULL"
          /\ full[s] \in Nat /\ full[t] \in Nat /\ full[t] < full[s]
      BY <2>1, <2>2
    <3>2. t \in Before(s, O, full)
      BY <3>1 DEF Before
    <3>. QED BY <2>1, <3>1, <3>2, NothingBehind
  <2>13. PlanStatus = "INSUFFICIENT" => Remaining >= -Epsilon \/ whole = Optional
    <3>1. Released(Funding) = released
      <4>. DEFINE idle == C \ Funding
      <4>1. /\ Funding \subseteq C /\ IsFiniteSet(Funding) /\ IsFiniteSet(idle)
            /\ Funding \intersect idle = {} /\ Funding \union idle = C
        BY <2>1, <2>4, FS_Subset DEF Funding
      <4>2. \A s \in idle : E[s] = 0 /\ E[s] \in Int /\ E[s] = 0 * E[s]
        <5>1. \A s \in idle : s \in O /\ trades[s].state = "DEFERRED"
          BY <2>1, <2>3, <2>4 DEF Funding
        <5>. QED BY <2>2, <2>3, <5>1
      <4>3. SumOf(E, idle) = 0
        <5>. HIDE DEF idle
        <5>1. SumFunctionOnSet(E, idle) \in Int
          BY <4>1, <4>2, SumType
        <5>2. \A s \in idle : E[s] \in Int /\ E[s] = 2 * E[s]
          BY <4>2
        <5>3. SumFunctionOnSet(E, idle) = 2 * SumFunctionOnSet(E, idle)
          BY <4>1, <5>2, SumOfTimes
        <5>. QED BY <5>1, <5>3 DEF SumOf
      <4>. HIDE DEF idle
      <4>4. SumOf(E, C) = SumOf(E, Funding) + SumOf(E, idle)
        <5>1. \A s \in Funding \union idle : E[s] \in Int
          BY <2>3, <4>1
        <5>. QED BY <4>1, <5>1, SumOfUnion DEF SumOf
      <4>5. SumOf(E, Funding) \in Int
        <5>1. \A s \in Funding : E[s] \in Int
          BY <2>3, <4>1
        <5>. QED BY <4>1, <5>1, SumType DEF SumOf
      <4>. QED BY <2>1, <4>3, <4>4, <4>5 DEF Released, E
    <3>2. Gap(buys, cash) >= SumOf(buys, DOMAIN buys) - cash
      BY <2>1 DEF Gap
    <3>3. whole # Optional => cash + released - SumOf(buys, DOMAIN buys) >= -Epsilon
      BY <2>1, <2>7, <2>11, <3>2
    <3>. QED BY <3>1, <3>3 DEF Remaining
  <2>. QED BY <2>8, <2>9, <2>10, <2>11, <2>12, <2>13 DEF FundingClosesTheGap
<1>2. ExecutionInit => FundInv
  BY DEF ExecutionInit, FundInv, Built
<1>. QED BY <1>1, <1>2, FundStepInv, PTL DEF ExecutionSpec

-----------------------------------------------------------------------------
(* Legs: parts, lots and steps.                                            *)

LEMMA Divided ==
  ASSUME NEW n \in Nat, NEW d \in Nat \ {0}
  PROVE  n \div d \in Nat /\ (n \div d) * d <= n /\ n < (n \div d) * d + d
OBVIOUS

LEMMA Multiples ==
  ASSUME NEW k \in Nat, NEW d \in Nat \ {0}
  PROVE  (k * d) % d = 0
OBVIOUS

(* Down to whole lots: no more than there is, and less than a lot less.    *)
LEMMA WholeLots ==
  ASSUME NEW n \in Nat, NEW lot \in Nat \ {0}, NEW unit \in Nat \ {0}
  PROVE  LET whole == (n \div (unit * lot)) * lot
         IN  /\ whole \in Nat /\ whole % lot = 0
             /\ whole * unit <= n /\ n < (whole + lot) * unit
<1>. DEFINE size == unit * lot
            q == n \div size
            whole == q * lot
<1>1. size \in Nat \ {0}
  OBVIOUS
<1>2. q \in Nat /\ q * size <= n /\ n < q * size + size
  BY <1>1, Divided
<1>. HIDE DEF q
<1>3. whole \in Nat /\ whole % lot = 0
  BY <1>2, Multiples
<1>4. whole * unit = q * size /\ (whole + lot) * unit = q * size + size
  BY <1>2
<1>. HIDE DEF size, whole
<1>5. /\ whole \in Nat /\ whole % lot = 0
      /\ whole * unit <= n /\ n < (whole + lot) * unit
  BY <1>2, <1>3, <1>4
<1>. QED BY <1>5 DEF whole, q, size

(* Nearest step: of what is no more than all, no more than all the steps,  *)
(* and none of nothing.                                                    *)
LEMMA NearestStep ==
  ASSUME NEW part \in Nat, NEW all \in Nat \ {0}, part <= all, NEW steps \in Nat \ {0}
  PROVE  LET nearest == (2 * part * steps + all) \div (2 * all)
         IN  nearest \in 0..steps /\ (nearest > 0 => part > 0)
<1>. DEFINE n == 2 * part * steps + all
            d == 2 * all
            q == n \div d
<1>1. n \in Nat /\ d \in Nat \ {0}
  OBVIOUS
<1>2. q \in Nat /\ q * d <= n /\ n < q * d + d
  BY <1>1, Divided
<1>3. part * steps <= all * steps
  OBVIOUS
<1>4. q <= steps
  <2>. SUFFICES ASSUME q >= steps + 1 PROVE FALSE
    BY <1>2
  <2>1. q * d >= (steps + 1) * d
    BY <1>1, <1>2
  <2>2. (steps + 1) * d = 2 * (all * steps) + 2 * all
    OBVIOUS
  <2>3. n = 2 * (part * steps) + all
    OBVIOUS
  <2>4. part * steps \in Nat /\ all * steps \in Nat
    OBVIOUS
  <2>. HIDE DEF q, n, d
  <2>. QED BY <1>1, <1>2, <1>3, <2>1, <2>2, <2>3, <2>4
<1>5. part = 0 => q = 0
  <2>. SUFFICES ASSUME part = 0, q >= 1 PROVE FALSE
    BY <1>2
  <2>1. n = all
    OBVIOUS
  <2>2. q * d >= d
    BY <1>1, <1>2
  <2>. HIDE DEF q, n
  <2>. QED BY <1>1, <1>2, <2>1, <2>2
<1>. QED BY <1>2, <1>4, <1>5 DEF q, n, d

-----------------------------------------------------------------------------
(* Legs: what a contract accepts.                                          *)

LEMMA NothingWrong ==
  ASSUME NEW r,
         r.source \in {"FULL_HOLDING_QUANTITY", "HOLDING_FRACTION"} => r.side = "SELL",
         r.source = "ALLOCATION_VALUE_AT_PRICE" => r.side = "BUY" /\ r.value # None,
         r.value # None => Positive(r.value),
         r.requested # None, r.executable # None, Positive(r.requested), Positive(r.executable), r.adjusted = TRUE,
         Resolution(r.view) = "RESOLVED", Eligibility(r.view) = "ELIGIBLE",
         r.observation.price # None, Positive(r.observation.price),
         r.observation.kind # "UNKNOWN", r.observation.source # "UNKNOWN", FromMarket(r.observation),
         r.observation.at # NoTime, r.observation.received # NoTime, r.observation.session # "UNKNOWN",
         r.freshness = "CURRENT", r.observation.currency # "none",
         NEW quote, r.quotes = {quote}, quote.status = "QUOTED", quote.side = r.side,
         Same(quote.quantity, r.executable), Same(quote.price, r.observation.price),
         quote.currency = r.observation.currency
  PROVE  Failures(r) = {}
<1>1. SourceFailures(r) = {}
  BY DEF SourceFailures
<1>2. QuantityFailures(r) = {}
  BY DEF QuantityFailures
<1>3. FactsFailures(r) = {}
  BY DEF FactsFailures
<1>4. PriceFailures(r) = {}
  BY DEF PriceFailures
<1>5. FeeFailures(r) = {}
  BY DEF FeeFailures
<1>. QED BY <1>1, <1>2, <1>3, <1>4, <1>5 DEF Failures

LEMMA WhatWouldBeWrong ==
  ASSUME NEW r, Failures(r) = {}
  PROVE  /\ r.value # None => Positive(r.value)
         /\ r.requested # None => Positive(r.requested)
         /\ r.executable # None => Positive(r.executable)
         /\ Eligibility(r.view) = "ELIGIBLE" /\ r.observation.session # "UNKNOWN" /\ r.freshness = "CURRENT"
         /\ \E q \in r.quotes : q.status = "QUOTED"
<1>1. SourceFailures(r) = {} /\ QuantityFailures(r) = {} /\ FactsFailures(r) = {}
      /\ PriceFailures(r) = {} /\ FeeFailures(r) = {}
  BY DEF Failures
<1>2. r.value # None => Positive(r.value)
  BY <1>1 DEF SourceFailures
<1>3. /\ r.requested # None => Positive(r.requested)
      /\ r.executable # None => Positive(r.executable)
  <2>1. \A q \in {r.requested, r.executable} \ {None} : Positive(q)
    BY <1>1 DEF QuantityFailures
  <2>. QED BY <2>1
<1>4. Eligibility(r.view) = "ELIGIBLE"
  BY <1>1 DEF FactsFailures
<1>5. r.observation.session # "UNKNOWN" /\ r.freshness = "CURRENT"
  BY <1>1 DEF PriceFailures
<1>6. \E q \in r.quotes : q.status = "QUOTED"
  BY <1>1 DEF FeeFailures
<1>. QED BY <1>2, <1>3, <1>4, <1>5, <1>6

-----------------------------------------------------------------------------
(* Legs: the batch a plan is judged from.                                  *)

Quoted(q) ==
  \/ q = NoQuote
  \/ /\ q.kind \in {"MARKET_LAST", "MARKET_CLOSE"} /\ q.price \in Nat
     /\ \/ q.at = NoTime
        \/ q.at \in Int /\ q.at <= MaxTime
     /\ q.received \in 0..MaxTime

(* One batch of the registry's facts and of quotes, for what is traded.    *)
Batch ==
  /\ registry \in Registries /\ assessedAt \in 0..MaxTime
  /\ DOMAIN evidence = Traded /\ \A s \in Traded : Quoted(evidence[s])

(* Nothing is judged until all is answered, and then all at once.          *)
Judged ==
  /\ Batch
  /\ outcome = [s \in Traded |-> Judgement(s)]
  /\ legs = [s \in {x \in Traded : Judgement(x) = "COMPLETE"} |-> Executable(s)]

LegInv ==
  /\ step \in {"idle", "asking", "done"} /\ clock \in 0..MaxTime
  /\ step = "asking" => Batch
  /\ step # "done" => outcome = Empty /\ legs = Empty
  /\ step = "done" => Judged \/ (outcome = Empty /\ legs = Empty)

LEMMA JudgementStays ==
  ASSUME UNCHANGED <<position, buys, trades, registry, assessedAt, evidence>>, NEW s
  PROVE  Judgement(s)' = Judgement(s) /\ Executable(s)' = Executable(s)
<1>1. /\ position' = position /\ buys' = buys /\ trades' = trades /\ registry' = registry
      /\ evidence' = evidence /\ assessedAt' = assessedAt
  OBVIOUS
<1>2. ReleasePct(s)' = ReleasePct(s)
  BY <1>1 DEF ReleasePct, Executed
<1>3. Executable(s)' = Executable(s)
  BY <1>1, <1>2 DEF Executable
<1>4. SellsAll(s)' = SellsAll(s)
  BY <1>1, <1>2 DEF SellsAll, Funding
<1>5. Requested(s)' = Requested(s) /\ OddLot(s)' = OddLot(s)
  BY <1>1, <1>2, <1>4 DEF Requested, OddLot
<1>6. FreshnessOf(s)' = FreshnessOf(s) /\ Observed(evidence[s])' = Observed(evidence[s])
  BY <1>1 DEF FreshnessOf, Observed
<1>7. PolicyRequest(s)' = PolicyRequest(s)
  BY <1>1, <1>2, <1>3, <1>4, <1>6 DEF PolicyRequest
<1>8. /\ Priced(evidence[s])' = Priced(evidence[s]) /\ FeeHolds(evidence[s])' = FeeHolds(evidence[s])
      /\ SessionKnown(evidence[s])' = SessionKnown(evidence[s])
  BY <1>1, <1>6 DEF Priced, FeeHolds, SessionKnown
<1>. QED BY <1>1, <1>3, <1>5, <1>6, <1>7, <1>8 DEF Judgement, PolicyOutcome

LEMMA BatchStays ==
  ASSUME UNCHANGED <<position, buys, trades, registry, assessedAt, evidence>>
  PROVE  Batch' = Batch
BY DEF Batch, Traded, Funding

LEMMA QuotesAreQuoted ==
  ASSUME clock \in 0..MaxTime, assessedAt \in 0..MaxTime, NEW payload \in Payloads
  PROVE  Quoted(Quote(payload))
<1>1. /\ payload.kind \in {"MARKET_LAST", "MARKET_CLOSE"}
      /\ payload.price \in Nat /\ payload.age \in Nat /\ MaxTime \in Nat
  BY ExecutionAssumption
<1>. DEFINE q == Quote(payload)
<1>2. /\ q.kind = payload.kind /\ q.price = payload.price
      /\ q.at = IF payload.timed THEN clock - payload.age ELSE NoTime
      /\ q.received = IF payload.kind = "MARKET_LAST" THEN clock ELSE assessedAt
  BY DEF Quote
<1>3. clock - payload.age \in Int /\ clock - payload.age <= MaxTime
  BY <1>1
<1>. HIDE DEF q
<1>4. q.at = NoTime \/ (q.at \in Int /\ q.at <= MaxTime)
  <2>1. CASE payload.timed
    BY <1>2, <1>3, <2>1
  <2>2. CASE ~payload.timed
    BY <1>2, <2>2
  <2>. QED BY <2>1, <2>2
<1>5. q.received \in 0..MaxTime
  BY <1>2
<1>6. Quoted(q)
  BY <1>1, <1>2, <1>4, <1>5 DEF Quoted
<1>. QED BY <1>6 DEF q

LEMMA LegStepInv == LegInv /\ [ExecutionNext]_executionVars => LegInv'
<1>. SUFFICES ASSUME LegInv, [ExecutionNext]_executionVars PROVE LegInv'
  OBVIOUS
<1>1. ASSUME NEW h, NEW c, NEW sig, NEW b, NEW breaches, NEW views, NEW live,
             Build(h, c, sig, b, breaches, views, live), live => views \in Registries
      PROVE  LegInv'
  <2>1. /\ step = "idle" /\ outcome' = outcome /\ legs' = legs /\ clock' = clock /\ buys' = b
        /\ outcome = Empty /\ legs = Empty /\ clock \in 0..MaxTime
    BY <1>1 DEF Build, LegInv
  <2>. DEFINE actions == DOMAIN b \union {s \in DOMAIN trades' : trades'[s].state # "DEFERRED"}
              requests    == live /\ breaches = {} /\ actions # {}
  <2>2. /\ step' = IF requests THEN "asking" ELSE "done"
        /\ requests => registry' = views /\ assessedAt' = clock /\ evidence' = [s \in actions |-> NoQuote]
    BY <1>1 DEF Build
  <2>3. Traded' = actions
    BY <2>1 DEF Traded, Funding
  <2>. HIDE DEF actions
  <2>4. requests => Batch'
    <3>. SUFFICES ASSUME requests PROVE Batch'
      OBVIOUS
    <3>1. registry' \in Registries /\ assessedAt' \in 0..MaxTime /\ evidence' = [s \in actions |-> NoQuote]
      BY <1>1, <2>1, <2>2
    <3>. QED BY <2>3, <3>1 DEF Batch, Quoted
  <2>. QED BY <2>1, <2>2, <2>4 DEF LegInv
<1>2. ASSUME step = "asking", NEW s, NEW quote, Quoted(quote), Answer(s, quote)
      PROVE  LegInv'
  <2>1. Batch /\ clock' = clock /\ step' = step /\ outcome' = outcome /\ legs' = legs
        /\ Traded' = Traded /\ registry' = registry /\ assessedAt' = assessedAt
        /\ evidence' = [evidence EXCEPT ![s] = quote]
    BY <1>2 DEF Answer, LegInv, Traded, Funding, planInputs
  <2>2. DOMAIN evidence' = Traded /\ \A t \in Traded : Quoted(evidence'[t])
    BY <1>2, <2>1 DEF Batch
  <2>3. Batch'
    <3>1. \A t \in Traded' : Quoted(evidence[t])'
      BY <2>1, <2>2 DEF Quoted, NoQuote
    <3>. QED BY <2>1, <2>2, <3>1 DEF Batch
  <2>. QED BY <1>2, <2>1, <2>3 DEF LegInv
<1>3. ASSUME BatchFails PROVE LegInv'
  <2>1. Batch /\ clock' = clock /\ step = "asking" /\ step' = step /\ outcome' = outcome /\ legs' = legs
        /\ Traded' = Traded /\ registry' = registry /\ assessedAt' = assessedAt
        /\ evidence' = [s \in DOMAIN evidence |-> NoQuote]
    BY <1>3 DEF BatchFails, LegInv, Traded, Funding, planInputs
  <2>2. Batch'
    BY <2>1 DEF Batch, Quoted
  <2>. QED BY <2>1, <2>2 DEF LegInv
<1>4. ASSUME Judge PROVE LegInv'
  <2>1. /\ Batch /\ step' = "done" /\ clock' = clock
        /\ outcome' = [s \in Traded |-> Judgement(s)]
        /\ legs' = [s \in {x \in Traded : Judgement(x) = "COMPLETE"} |-> Executable(s)]
        /\ UNCHANGED <<planInputs, clock, assessedAt, pending, evidence>>
    BY <1>4 DEF Judge, LegInv
  <2>2. Traded' = Traded /\ Batch' = Batch
    BY <2>1 DEF Batch, Traded, Funding, planInputs, Quoted, NoQuote
  <2>3. \A s : Judgement(s)' = Judgement(s) /\ Executable(s)' = Executable(s)
    <3>1. UNCHANGED <<position, buys, trades, registry, assessedAt, evidence>>
      BY <2>1 DEF planInputs
    <3>. QED BY <3>1, JudgementStays
  <2>4. Judged'
    BY <2>1, <2>2, <2>3 DEF Judged
  <2>. QED BY <2>1, <2>4 DEF LegInv
<1>5. ASSUME Tick PROVE LegInv'
  <2>1. /\ step = "asking" /\ step' = step /\ clock' = clock + 1 /\ clock < MaxTime
        /\ outcome' = outcome /\ legs' = legs
        /\ UNCHANGED <<planInputs, assessedAt, evidence>>
    BY <1>5 DEF Tick
  <2>2. Batch'
    BY <2>1 DEF LegInv, Batch, Traded, Funding, planInputs, Quoted, NoQuote
  <2>3. clock' \in 0..MaxTime
    BY <2>1, ExecutionAssumption DEF LegInv
  <2>. QED BY <2>1, <2>2, <2>3 DEF LegInv
<1>6. CASE UNCHANGED executionVars
  <2>1. UNCHANGED <<position, buys, trades, registry, assessedAt, evidence>> /\ legs' = legs /\ outcome' = outcome
    BY <1>6 DEF executionVars
  <2>2. \A s : Judgement(s)' = Judgement(s) /\ Executable(s)' = Executable(s)
    BY <2>1, JudgementStays
  <2>3. Batch' = Batch /\ Traded' = Traded
    BY <1>6 DEF executionVars, Batch, Traded, Funding, Quoted, NoQuote
  <2>4. Batch => Batch'
    BY <2>3
  <2>5. Judged => Judged'
    BY <2>1, <2>2, <2>3 DEF Judged
  <2>. QED BY <1>6, <2>4, <2>5 DEF LegInv, executionVars
<1>7. ASSUME NEW s \in pending, NEW payload \in Payloads, Answer(s, Quote(payload)) PROVE LegInv'
  <2>1. step = "asking"
    BY <1>7 DEF Answer
  <2>2. Quoted(Quote(payload))
    BY <2>1, QuotesAreQuoted DEF LegInv, Batch
  <2>. QED BY <1>2, <1>7, <2>1, <2>2
<1>8. ASSUME NEW s \in pending, Answer(s, NoQuote) PROVE LegInv'
  <2>1. step = "asking" /\ Quoted(NoQuote)
    BY <1>8 DEF Answer, Quoted
  <2>. QED BY <1>2, <1>8, <2>1
<1>. QED BY <1>1, <1>3, <1>4, <1>5, <1>6, <1>7, <1>8 DEF ExecutionNext

-----------------------------------------------------------------------------
(* Legs: what is traded, and how much of it.                               *)

LEMMA TradedParts ==
  ASSUME FundInv, Built, NEW s \in Traded
  PROVE  /\ s \in Instruments
         /\ s \in DOMAIN buys => buys[s] \in Nat /\ s \notin Funding
         /\ s \notin DOMAIN buys =>
              /\ s \in Funding /\ position[s].shares \in Nat /\ Executed(s) \in Nat
              /\ ReleasePct(s) \in 0..Precision /\ (ReleasePct(s) > 0 => Executed(s) > 0)
<1>. DEFINE C    == Candidates(position, signals, buys)
            full == [x \in C |-> FullAmount(position[x], signals[x])]
            N    == {x \in C : Necessary(x, signals, breached)}
            O    == C \ N
            gap  == Gap(buys, cash) - SumOf(full, N)
<1>1. /\ DOMAIN trades = C /\ C \subseteq DOMAIN position \ DOMAIN buys /\ C \subseteq Instruments
      /\ \A x \in C : full[x] \in Nat
      /\ \A x \in N : trades[x] = [full |-> full[x], executed |-> full[x], state |-> "FULL"]
      /\ Funded(O, full, gap, trades)
  BY PlanIsFunded
<1>. HIDE DEF full, gap
<1>2. /\ DOMAIN buys \subseteq Instruments /\ \A x \in DOMAIN buys : buys[x] \in Nat
      /\ \A x \in DOMAIN position : position[x].shares \in Nat
      /\ Precision \in Nat \ {0}
  BY ExecutionAssumption DEF FundInv
<1>3. s \in DOMAIN buys => s \notin Funding
  BY <1>1 DEF Funding
<1>4. ASSUME s \notin DOMAIN buys
      PROVE  /\ s \in C /\ Executed(s) \in Nat
             /\ ReleasePct(s) \in 0..Precision /\ (ReleasePct(s) > 0 => Executed(s) > 0)
  <2>1. s \in C
    BY <1>1, <1>4 DEF Traded, Funding
  <2>2. trades[s].full \in Nat /\ trades[s].executed \in Nat /\ trades[s].executed <= trades[s].full
    <3>1. CASE s \in O
      BY <1>1, <3>1, FundedParts
    <3>2. CASE s \in N
      <4>. DEFINE row == [full |-> full[s], executed |-> full[s], state |-> "FULL"]
      <4>1. trades[s] = row /\ full[s] \in Nat
        BY <1>1, <3>2
      <4>2. row.full = full[s] /\ row.executed = full[s]
        OBVIOUS
      <4>. HIDE DEF row
      <4>. QED BY <4>1, <4>2
    <3>. QED BY <2>1, <3>1, <3>2
  <2>3. CASE trades[s].full = 0
    BY <1>2, <2>1, <2>2, <2>3 DEF ReleasePct, Executed
  <2>4. CASE trades[s].full # 0
    <3>. DEFINE nearest == (2 * trades[s].executed * Precision + trades[s].full) \div (2 * trades[s].full)
    <3>1. nearest \in 0..Precision /\ (nearest > 0 => trades[s].executed > 0)
      BY <1>2, <2>2, <2>4, NearestStep
    <3>2. ReleasePct(s) = nearest /\ Executed(s) = trades[s].executed
      BY <2>4 DEF ReleasePct, Executed
    <3>. HIDE DEF nearest
    <3>. QED BY <2>1, <2>2, <3>1, <3>2
  <2>. QED BY <2>3, <2>4
<1>. QED BY <1>1, <1>2, <1>3, <1>4 DEF Traded, Funding

LEMMA ExecutableParts ==
  ASSUME FundInv, Built, Batch, NEW s \in Traded, registry[s].lot > 0, evidence[s].price \in Nat \ {0}
  PROVE  LET lot == registry[s].lot
         IN  /\ Executable(s) \in Nat /\ Executable(s) % lot = 0
             /\ s \in DOMAIN buys =>
                  /\ Executable(s) * evidence[s].price <= buys[s]
                  /\ buys[s] < (Executable(s) + lot) * evidence[s].price
             /\ s \notin DOMAIN buys =>
                  /\ Executable(s) <= position[s].shares
                  /\ Executable(s) * Precision <= position[s].shares * ReleasePct(s)
                  /\ position[s].shares * ReleasePct(s) < (Executable(s) + lot) * Precision
<1>. DEFINE lot == registry[s].lot
<1>1. lot \in Nat \ {0} /\ Precision \in Nat \ {0}
  BY TradedParts, ExecutionAssumption DEF Batch
<1>. HIDE DEF lot
<1>2. CASE s \in DOMAIN buys
  <2>1. buys[s] \in Nat
    BY <1>2, TradedParts
  <2>2. Executable(s) = (buys[s] \div (evidence[s].price * lot)) * lot
    BY <1>2 DEF Executable, lot
  <2>3. /\ Executable(s) \in Nat /\ Executable(s) % lot = 0
        /\ Executable(s) * evidence[s].price <= buys[s]
        /\ buys[s] < (Executable(s) + lot) * evidence[s].price
    <3>. DEFINE price == evidence[s].price
                n     == buys[s]
                whole == (n \div (price * lot)) * lot
    <3>1. price \in Nat \ {0} /\ n \in Nat
      BY <2>1
    <3>2. Executable(s) = whole
      BY <2>2
    <3>. HIDE DEF price, n
    <3>3. whole \in Nat /\ whole % lot = 0 /\ whole * price <= n /\ n < (whole + lot) * price
      BY <1>1, <3>1, WholeLots
    <3>. HIDE DEF whole
    <3>. QED BY <3>2, <3>3 DEF price, n
  <2>. QED BY <1>2, <2>3 DEF lot
<1>3. CASE s \notin DOMAIN buys
  <2>. DEFINE shares == position[s].shares
              pct    == ReleasePct(s)
              n      == shares * pct
  <2>1. shares \in Nat /\ pct \in 0..Precision
    BY <1>3, TradedParts
  <2>. HIDE DEF shares, pct
  <2>2. n \in Nat /\ n <= shares * Precision
    BY <1>1, <2>1
  <2>3. Executable(s) = (n \div (Precision * lot)) * lot
    BY <1>3 DEF Executable, lot, shares, pct
  <2>. HIDE DEF n
  <2>4. /\ Executable(s) \in Nat /\ Executable(s) % lot = 0
        /\ Executable(s) * Precision <= n /\ n < (Executable(s) + lot) * Precision
    BY <1>1, <2>2, <2>3, WholeLots
  <2>5. Executable(s) <= shares
    <3>. SUFFICES ASSUME Executable(s) >= shares + 1 PROVE FALSE
      BY <2>1, <2>4
    <3>1. Executable(s) * Precision >= (shares + 1) * Precision
      BY <1>1, <2>1, <2>4
    <3>2. (shares + 1) * Precision = shares * Precision + Precision /\ shares * Precision \in Nat
      BY <1>1, <2>1
    <3>3. Executable(s) * Precision \in Nat
      BY <1>1, <2>4
    <3>. QED BY <1>1, <2>2, <2>4, <3>1, <3>2, <3>3
  <2>. QED BY <1>3, <2>4, <2>5 DEF lot, n, shares, pct
<1>. QED BY <1>2, <1>3 DEF lot

LEMMA ChargedIsEligible ==
  ASSUME NEW view, FeeRefusal(view) = "none"
  PROVE  view.currency = "THB" /\ Resolution(view) = "RESOLVED" /\ Eligibility(view) = "ELIGIBLE"
<1>1. Resolution(view) # "none"
  BY DEF Resolution
<1>2. view.currency = "THB" /\ Resolution(view) = "RESOLVED" /\ view.found # "ERROR"
  BY <1>1 DEF FeeRefusal
<1>. QED BY <1>2 DEF Eligibility, Reference

(* What the policy accepts is what the contract accepts.                   *)
LEMMA PolicyIsAccepted ==
  ASSUME FundInv, Built, Batch, NEW s \in Traded, Capable(registry[s]),
         Priced(evidence[s]), SessionKnown(evidence[s]), FreshnessOf(s) = "CURRENT",
         Requested(s), Executable(s) # 0, FeeRefusal(registry[s]) = "none"
  PROVE  Failures(PolicyRequest(s)) = {}
<1>. DEFINE view  == registry[s]
            q     == evidence[s]
            o     == Observed(q)
            r     == PolicyRequest(s)
            side  == IF s \in DOMAIN buys THEN "BUY" ELSE "SELL"
            whole == Ratio(Executable(s), 1)
            price == Ratio(q.price, 1)
            quote == FeeQuote(view, side, whole, price, Executable(s) * q.price)
<1>1. /\ q.kind = "MARKET_LAST" /\ q.price \in Nat \ {0} /\ q.currency = Currency /\ q.received \in 0..MaxTime
      /\ MaxTime \in Nat
  BY ExecutionAssumption DEF Batch, Quoted, Priced, NoQuote
<1>. HIDE DEF q
<1>2. /\ o.kind = "MARKET_LAST" /\ o.source = "YAHOO_CHART" /\ o.price = price /\ o.currency = Currency
      /\ o.at = q.at /\ o.received = q.received
      /\ o.session = IF q.at # NoTime THEN "REGULAR" ELSE "UNKNOWN"
  BY <1>1 DEF Observed, Observation
<1>3. o.session # "UNKNOWN"
  BY DEF SessionKnown, q
<1>4. r = Request(side,
            IF s \in DOMAIN buys THEN "ALLOCATION_VALUE_AT_PRICE"
            ELSE IF SellsAll(s) THEN "FULL_HOLDING_QUANTITY" ELSE "HOLDING_FRACTION",
            IF s \in DOMAIN buys THEN Ratio(buys[s], q.price)
            ELSE Ratio(position[s].shares * ReleasePct(s), Precision),
            whole, TRUE, IF s \in DOMAIN buys THEN Ratio(buys[s], 1) ELSE None,
            o, FreshnessOf(s), view, {quote})
  BY DEF PolicyRequest, q
<1>. HIDE DEF r, o, view, side
<1>5. /\ r.side = side /\ r.executable = whole /\ r.adjusted = TRUE /\ r.observation = o
      /\ r.freshness = FreshnessOf(s) /\ r.view = view /\ r.quotes = {quote}
      /\ r.source = (IF s \in DOMAIN buys THEN "ALLOCATION_VALUE_AT_PRICE"
                     ELSE IF SellsAll(s) THEN "FULL_HOLDING_QUANTITY" ELSE "HOLDING_FRACTION")
      /\ r.requested = (IF s \in DOMAIN buys THEN Ratio(buys[s], q.price)
                        ELSE Ratio(position[s].shares * ReleasePct(s), Precision))
      /\ r.value = (IF s \in DOMAIN buys THEN Ratio(buys[s], 1) ELSE None)
  BY <1>4 DEF Request
<1>6. /\ quote.status = "QUOTED" /\ quote.side = side /\ quote.quantity = whole /\ quote.price = price
      /\ quote.currency = view.currency
  BY DEF FeeQuote, view
<1>7. view.currency = Currency /\ view.currency = "THB" /\ Resolution(view) = "RESOLVED" /\ Eligibility(view) = "ELIGIBLE"
  BY ChargedIsEligible DEF Capable, view
<1>8. Executable(s) \in Nat /\ Executable(s) > 0
  <2>1. registry[s].lot > 0
    BY DEF Capable
  <2>2. evidence[s].price \in Nat \ {0}
    BY <1>1 DEF q
  <2>. QED BY <2>1, <2>2, ExecutableParts
<1>9. whole # None /\ Positive(whole) /\ price # None /\ Positive(price)
      /\ Same(whole, whole) /\ Same(price, price)
  BY <1>1, <1>8 DEF Ratio, None, Positive, Same
<1>. HIDE DEF whole, price, quote
<1>10. /\ r.source \in {"FULL_HOLDING_QUANTITY", "HOLDING_FRACTION"} => r.side = "SELL"
       /\ r.source = "ALLOCATION_VALUE_AT_PRICE" => r.side = "BUY" /\ r.value # None
       /\ r.value # None => Positive(r.value)
       /\ r.requested # None /\ Positive(r.requested)
  <2>1. CASE s \in DOMAIN buys
    <3>1. buys[s] > 0 /\ buys[s] \in Nat
      BY <2>1, TradedParts DEF Requested
    <3>2. r.source = "ALLOCATION_VALUE_AT_PRICE" /\ r.side = "BUY" /\ r.value = Ratio(buys[s], 1)
          /\ r.requested = Ratio(buys[s], q.price)
      BY <1>5, <2>1 DEF side
    <3>3. Ratio(buys[s], 1) # None /\ Ratio(buys[s], q.price) # None
          /\ Positive(Ratio(buys[s], 1)) /\ Positive(Ratio(buys[s], q.price))
      BY <1>1, <3>1 DEF Ratio, None, Positive
    <3>. QED BY <3>2, <3>3
  <2>2. CASE s \notin DOMAIN buys
    <3>. DEFINE n == position[s].shares * ReleasePct(s)
    <3>1. n > 0 /\ n \in Nat
      <4>1. position[s].shares \in Nat \ {0} /\ ReleasePct(s) \in Nat \ {0}
        BY <2>2, TradedParts DEF Requested
      <4>. QED BY <4>1
    <3>2. r.source \in {"FULL_HOLDING_QUANTITY", "HOLDING_FRACTION"} /\ r.side = "SELL" /\ r.value = None
          /\ r.requested = Ratio(n, Precision)
      BY <1>5, <2>2 DEF side
    <3>. HIDE DEF n
    <3>3. Ratio(n, Precision) # None /\ Positive(Ratio(n, Precision))
      BY <3>1 DEF Ratio, None, Positive
    <3>. QED BY <3>2, <3>3
  <2>. QED BY <2>1, <2>2
<1>11. /\ o.kind # "UNKNOWN" /\ o.source # "UNKNOWN" /\ FromMarket(o) /\ o.at # NoTime /\ o.received # NoTime
       /\ o.currency = Currency /\ o.currency # "none"
  BY <1>1, <1>2, <1>3, <1>7 DEF FromMarket, MarketKinds, NoTime
<1>13. /\ r.executable # None /\ Positive(r.executable) /\ r.adjusted = TRUE
       /\ Resolution(r.view) = "RESOLVED" /\ Eligibility(r.view) = "ELIGIBLE" /\ r.freshness = "CURRENT"
  BY <1>5, <1>7, <1>9
<1>14. /\ r.observation.price # None /\ Positive(r.observation.price)
       /\ r.observation.kind # "UNKNOWN" /\ r.observation.source # "UNKNOWN" /\ FromMarket(r.observation)
       /\ r.observation.at # NoTime /\ r.observation.received # NoTime /\ r.observation.session # "UNKNOWN"
       /\ r.observation.currency # "none"
  BY <1>2, <1>3, <1>5, <1>9, <1>11
<1>15. /\ r.quotes = {quote} /\ quote.status = "QUOTED" /\ quote.side = r.side
       /\ Same(quote.quantity, r.executable) /\ Same(quote.price, r.observation.price)
       /\ quote.currency = r.observation.currency
  BY <1>2, <1>5, <1>6, <1>7, <1>9
<1>. HIDE DEF quote, r
<1>12. Failures(r) = {}
  BY <1>10, <1>13, <1>14, <1>15, NothingWrong
<1>. QED BY <1>12 DEF r

(* A leg has passed every step of the policy.                              *)
LEMMA LegPasses ==
  ASSUME NEW s, Judgement(s) = "COMPLETE"
  PROVE  /\ Capable(registry[s]) /\ Priced(evidence[s]) /\ SessionKnown(evidence[s])
         /\ FreshnessOf(s) = "CURRENT" /\ Eligibility(registry[s]) = "ELIGIBLE"
         /\ Requested(s) /\ ~OddLot(s) /\ Executable(s) # 0 /\ FeeRefusal(registry[s]) = "none"
         /\ FeeHolds(evidence[s]) /\ Failures(PolicyRequest(s)) = {}
BY DEF Judgement, PolicyOutcome

(* The observation a leg rests on.                                         *)
LEMMA LegObservation ==
  ASSUME Batch, NEW s \in Traded, Priced(evidence[s]), SessionKnown(evidence[s])
  PROVE  LET q == evidence[s]
             o == Observed(q)
         IN  /\ q.price \in Nat \ {0} /\ q.currency = Currency
             /\ q.at \in Int /\ q.at # NoTime /\ q.received # NoTime
             /\ o = Observation("MARKET_LAST", "YAHOO_CHART", Ratio(q.price, 1), Currency, q.at, q.received, "REGULAR")
<1>. DEFINE q == evidence[s]
<1>1. /\ q.kind = "MARKET_LAST" /\ q.price \in Nat \ {0} /\ q.currency = Currency /\ q.received \in 0..MaxTime
      /\ MaxTime \in Nat /\ (q.at = NoTime \/ q.at \in Int)
  BY ExecutionAssumption DEF Batch, Quoted, Priced, NoQuote
<1>2. q.received # NoTime
  BY <1>1 DEF NoTime
<1>. HIDE DEF q
<1>3. Observed(q) = Observation("MARKET_LAST", "YAHOO_CHART", Ratio(q.price, 1), Currency, q.at, q.received,
                     IF q.at # NoTime THEN "REGULAR" ELSE "UNKNOWN")
  BY <1>1 DEF Observed
<1>4. q.at # NoTime
  <2>1. Observed(q).session # "UNKNOWN"
    BY DEF SessionKnown, q
  <2>. QED BY <1>3, <2>1 DEF Observation
<1>5. /\ q.price \in Nat \ {0} /\ q.currency = Currency
      /\ q.at \in Int /\ q.at # NoTime /\ q.received # NoTime
      /\ Observed(q) = Observation("MARKET_LAST", "YAHOO_CHART", Ratio(q.price, 1), Currency, q.at, q.received, "REGULAR")
  BY <1>1, <1>2, <1>3, <1>4
<1>. QED BY <1>5 DEF q

LEMMA CurrentIsYoung ==
  ASSUME NEW o, NEW now \in Int, o.at \in Int, Freshness(o, now) \in {"CURRENT", "STALE", "EXPIRED"}
  PROVE  /\ Freshness(o, now) = AgeStatus(now - o.at) /\ o.at # NoTime /\ FromMarket(o)
         /\ Freshness(o, now) = "CURRENT" => o.at <= now /\ now - o.at <= CurrentFor
<1>1. Freshness(o, now) = AgeStatus(now - o.at) /\ o.at # NoTime /\ FromMarket(o)
  BY DEF Freshness
<1>2. Freshness(o, now) = "CURRENT" => o.at <= now /\ now - o.at <= CurrentFor
  BY <1>1, ExecutionAssumption DEF AgeStatus
<1>. QED BY <1>1, <1>2

(* What a plan knows by itself is no contract's input.                     *)
LEMMA LegacyIsRefused ==
  ASSUME NEW s
  PROVE  {"MISSING_QUANTITY", "PRICE_NOT_EXECUTION_EVIDENCE"} \cap Failures(LegacyRequest(s)) # {}
<1>. DEFINE r == LegacyRequest(s)
<1>1. CASE s \in DOMAIN buys
  <2>1. r.requested = None
    BY <1>1 DEF LegacyRequest, Request
  <2>. HIDE DEF r
  <2>2. "MISSING_QUANTITY" \in QuantityFailures(r)
    BY <2>1 DEF QuantityFailures
  <2>. QED BY <2>2 DEF Failures, r
<1>2. CASE s \notin DOMAIN buys
  <2>1. r.observation = CostReference(LegacyPrice(s), registry[s])
    BY <1>2 DEF LegacyRequest, Request
  <2>. HIDE DEF r
  <2>2. r.observation.kind = "AVG_COST_REFERENCE"
    BY <2>1 DEF CostReference, Observation
  <2>3. ~FromMarket(r.observation)
    BY <2>2 DEF FromMarket, MarketKinds
  <2>4. "PRICE_NOT_EXECUTION_EVIDENCE" \in PriceFailures(r)
    BY <2>3 DEF PriceFailures
  <2>. QED BY <2>4 DEF Failures, r
<1>. QED BY <1>1, <1>2

(* The price's two ages are one.                                           *)
LEMMA AgesAgree ==
  ASSUME Batch, NEW s \in Traded, FreshnessOf(s) \in {"CURRENT", "STALE", "EXPIRED"}
  PROVE  Diagnosis(Observed(evidence[s]), registry[s], assessedAt).age = FreshnessOf(s)
<1>. DEFINE o == Observed(evidence[s])
<1>1. FreshnessOf(s) = Freshness(o, assessedAt)
  BY DEF FreshnessOf
<1>. HIDE DEF o
<1>2. FromMarket(o) /\ o.at # NoTime /\ Freshness(o, assessedAt) = AgeStatus(assessedAt - o.at)
  BY <1>1 DEF Freshness
<1>3. o # NoObservation
  <2>1. NoObservation.kind = "UNKNOWN"
    BY DEF NoObservation, Observation
  <2>2. o.kind # "UNKNOWN"
    BY <1>2 DEF FromMarket, MarketKinds
  <2>. QED BY <2>1, <2>2
<1>4. Diagnosis(o, registry[s], assessedAt).age = EvidenceAge(o.at, assessedAt)
  BY <1>3 DEF Diagnosis
<1>. QED BY <1>1, <1>2, <1>4 DEF EvidenceAge, o

(* What the contract accepts, of whole lots and a capable instrument, is   *)
(* what the policy accepts.                                                *)
LEMMA AcceptedIsComplete ==
  ASSUME FundInv, Built, Batch, NEW s \in Traded, Capable(registry[s]), ~OddLot(s),
         Priced(evidence[s]), Failures(PolicyRequest(s)) = {}
  PROVE  Judgement(s) = "COMPLETE"
<1>. DEFINE view  == registry[s]
            q     == evidence[s]
            o     == Observed(q)
            r     == PolicyRequest(s)
            side  == IF s \in DOMAIN buys THEN "BUY" ELSE "SELL"
            whole == Ratio(Executable(s), 1)
            quote == FeeQuote(view, side, whole, Ratio(q.price, 1), Executable(s) * q.price)
<1>1. q.price \in Nat \ {0}
  BY ExecutionAssumption DEF Batch, Quoted, Priced, NoQuote
<1>2. /\ r.executable = whole /\ r.observation = o /\ r.freshness = FreshnessOf(s) /\ r.view = view
      /\ r.quotes = {quote}
      /\ r.requested = (IF s \in DOMAIN buys THEN Ratio(buys[s], q.price)
                        ELSE Ratio(position[s].shares * ReleasePct(s), Precision))
      /\ r.value = (IF s \in DOMAIN buys THEN Ratio(buys[s], 1) ELSE None)
  <2>. HIDE DEF o, whole, quote
  <2>. QED BY DEF PolicyRequest, Request, view, q, o, side, whole, quote
<1>. HIDE DEF r, o, view, quote, q
<1>3. /\ r.value # None => Positive(r.value)
      /\ r.requested # None => Positive(r.requested)
      /\ r.executable # None => Positive(r.executable)
      /\ Eligibility(view) = "ELIGIBLE" /\ o.session # "UNKNOWN" /\ FreshnessOf(s) = "CURRENT"
      /\ quote.status = "QUOTED"
  <2>1. Failures(r) = {}
    BY DEF r
  <2>. QED BY <1>2, <2>1, WhatWouldBeWrong
<1>4. SessionKnown(evidence[s])
  BY <1>3 DEF SessionKnown, o, q
<1>5. FeeRefusal(view) = "none"
  BY <1>3 DEF quote, FeeQuote
<1>6. Executable(s) # 0
  BY <1>2, <1>3 DEF Ratio, None, Positive
<1>7. Requested(s)
  <2>1. CASE s \in DOMAIN buys
    <3>1. r.value = Ratio(buys[s], 1)
      BY <1>2, <2>1
    <3>. QED BY <1>3, <2>1, <3>1 DEF Ratio, None, Positive, Requested
  <2>2. CASE s \notin DOMAIN buys
    <3>1. /\ position[s].shares \in Nat /\ ReleasePct(s) \in 0..Precision /\ Precision \in Nat \ {0}
      BY <2>2, TradedParts, ExecutionAssumption
    <3>2. r.requested = Ratio(position[s].shares * ReleasePct(s), Precision)
      BY <1>2, <2>2
    <3>3. position[s].shares * ReleasePct(s) > 0
      BY <1>3, <3>1, <3>2 DEF Ratio, None, Positive
    <3>4. position[s].shares # 0 /\ ReleasePct(s) # 0
      BY <3>1, <3>3
    <3>5. position[s].shares > 0 /\ ReleasePct(s) \in 1..Precision
      BY <3>1, <3>4
    <3>. QED BY <2>2, <3>5 DEF Requested
  <2>. QED BY <2>1, <2>2
<1>8. FeeHolds(evidence[s])
  <2>1. /\ q.at \in Int
        /\ o = Observation("MARKET_LAST", "YAHOO_CHART", Ratio(q.price, 1), Currency, q.at, q.received, "REGULAR")
    BY <1>4, LegObservation DEF o, q
  <2>2. o.at = q.at /\ Freshness(o, assessedAt) = "CURRENT" /\ assessedAt \in Int
    BY <1>3, <2>1, ExecutionAssumption DEF Observation, FreshnessOf, o, q, Batch
  <2>3. assessedAt - q.at <= CurrentFor
    BY <2>1, <2>2, CurrentIsYoung
  <2>. QED BY <2>1, <2>2, <2>3, ExecutionAssumption DEF FeeHolds, q
<1>. QED BY <1>3, <1>4, <1>5, <1>6, <1>7, <1>8 DEF Judgement, PolicyOutcome, view

(* The leg in the log of every plan.                                       *)
LEMMA LegacyLegAgrees ==
  ASSUME FundInv, Built, NEW s \in Traded, Requested(s),
         FeeRefusal(registry[s]) = "none", Eligibility(registry[s]) = "ELIGIBLE"
  PROVE  s \in Funding => LegacyLeg(s).projected /\ LegacyLeg(s).complete
<1>. SUFFICES ASSUME s \in Funding PROVE LegacyLeg(s).projected /\ LegacyLeg(s).complete
  OBVIOUS
<1>1. s \notin DOMAIN buys
  BY TradedParts
<1>2. position[s].shares \in Nat \ {0} /\ ReleasePct(s) \in Nat \ {0} /\ Executed(s) > 0
  BY <1>1, TradedParts, ExecutionAssumption DEF Requested
<1>3. LegacyQuantity(s) > 0
  BY <1>2 DEF LegacyQuantity
<1>. DEFINE quote == FeeQuote(registry[s], "SELL", Ratio(LegacyQuantity(s), Precision), LegacyPrice(s), Executed(s))
<1>4. quote.status = "QUOTED"
  BY DEF FeeQuote
<1>5. LegacyLeg(s) = [projected |-> LegacyQuantity(s) > 0 /\ Executed(s) > 0, quote |-> quote,
                      complete |-> LegComplete(registry[s], quote)]
  BY DEF LegacyLeg
<1>. HIDE DEF quote
<1>6. LegComplete(registry[s], quote)
  BY <1>4 DEF LegComplete
<1>7. /\ LegacyLeg(s).projected = (LegacyQuantity(s) > 0 /\ Executed(s) > 0)
      /\ LegacyLeg(s).complete = LegComplete(registry[s], quote)
  BY <1>5
<1>8. LegacyQuantity(s) > 0 /\ Executed(s) > 0
  BY <1>2, <1>3
<1>9. LegacyLeg(s).projected
  BY <1>7, <1>8
<1>. QED BY <1>6, <1>7, <1>9

(* What the log says of the price of a leg.                                *)
LEMMA DiagnosisAgrees ==
  ASSUME Batch, NEW s \in Traded, Priced(evidence[s]), SessionKnown(evidence[s]),
         Eligibility(registry[s]) = "ELIGIBLE", Currency = "THB"
  PROVE  LET seen == Observed(evidence[s])
             diagnosis == Diagnosis(seen, registry[s], assessedAt)
         IN  /\ diagnosis.kind = "PROVIDER_REGULAR_LAST" /\ diagnosis.quality = "COMPLETE"
             /\ ObservationQuality(seen) = "COMPLETE" /\ TimestampQuality(seen) = "EXCHANGE_OBSERVED"
             /\ SessionCompleteness(seen) = "COMPLETE"
<1>. DEFINE q    == evidence[s]
            seen == Observed(q)
            diagnosis == Diagnosis(seen, registry[s], assessedAt)
<1>1. /\ q.price \in Nat \ {0} /\ q.at \in Int /\ q.at # NoTime /\ q.received # NoTime
      /\ seen = Observation("MARKET_LAST", "YAHOO_CHART", Ratio(q.price, 1), Currency, q.at, q.received, "REGULAR")
  BY LegObservation
<1>. HIDE DEF q, seen
<1>2. /\ seen.kind = "MARKET_LAST" /\ seen.source = "YAHOO_CHART" /\ seen.price = Ratio(q.price, 1)
      /\ seen.currency = "THB" /\ seen.at # NoTime /\ seen.received # NoTime /\ seen.session = "REGULAR"
  BY <1>1 DEF Observation
<1>3. seen.price # None /\ Positive(seen.price)
  BY <1>1, <1>2 DEF Ratio, None, Positive
<1>4. seen # NoObservation
  <2>1. NoObservation.kind = "UNKNOWN"
    BY DEF NoObservation, Observation
  <2>. QED BY <1>2, <2>1
<1>5. diagnosis.kind = LastPriceKind(seen, registry[s]) /\ diagnosis.quality = LastPriceQuality(seen)
  BY <1>4 DEF Diagnosis
<1>6. ~Reference(registry[s])
  BY DEF Eligibility
<1>7. LastPriceKind(seen, registry[s]) = "PROVIDER_REGULAR_LAST" /\ LastPriceQuality(seen) = "COMPLETE"
  BY <1>2, <1>3, <1>6 DEF LastPriceKind, LastPriceQuality
<1>8. ObservationQuality(seen) = "COMPLETE"
  BY <1>2, <1>3 DEF ObservationQuality
<1>9. TimestampQuality(seen) = "EXCHANGE_OBSERVED" /\ SessionCompleteness(seen) = "COMPLETE"
  BY <1>2 DEF TimestampQuality, SessionCompleteness
<1>. QED BY <1>5, <1>7, <1>8, <1>9 DEF seen, q

(* Of any plan, however long the provider takes and whatever it answers: a *)
(* leg is whole lots, within its action and as much of it as lots allow,   *)
(* made of a current price and resolved facts; what the policy accepts the *)
(* contract does; and no two descriptions of one plan contradict.          *)
THEOREM LegsAreAlwaysGrounded == ExecutionSpec => []LegsAreGrounded
<1>1. FundInv /\ LegInv => LegsAreGrounded
  <2>. SUFFICES ASSUME FundInv, LegInv PROVE LegsAreGrounded
    OBVIOUS
  <2>1. CASE outcome = Empty /\ legs = Empty
    <3>1. DOMAIN outcome = {} /\ DOMAIN legs = {}
      BY <2>1 DEF Empty
    <3>. QED BY <3>1 DEF LegsAreGrounded, LegsStayWithinTheirAction, LegsRestOnCurrentEvidence, DescriptionsAgree
  <2>2. CASE Built /\ Judged
    <3>1. /\ FundInv /\ Built /\ Batch
          /\ DOMAIN outcome = Traded /\ \A s \in Traded : outcome[s] = Judgement(s)
          /\ DOMAIN legs = {x \in Traded : Judgement(x) = "COMPLETE"}
          /\ \A s \in DOMAIN legs : legs[s] = Executable(s)
          /\ assessedAt \in Int
      BY <2>2, ExecutionAssumption DEF Judged, Batch
    <3>2. ASSUME NEW s \in DOMAIN legs
          PROVE  /\ s \in Traded /\ Judgement(s) = "COMPLETE" /\ legs[s] = Executable(s)
                 /\ registry[s].lot > 0 /\ evidence[s].price \in Nat \ {0} /\ Executable(s) > 0
      <4>1. s \in Traded /\ Judgement(s) = "COMPLETE" /\ legs[s] = Executable(s)
        BY <3>1
      <4>2. registry[s].lot > 0 /\ Executable(s) # 0 /\ Priced(evidence[s]) /\ SessionKnown(evidence[s])
        BY <4>1, LegPasses DEF Capable
      <4>3. evidence[s].price \in Nat \ {0}
        BY <3>1, <4>1, <4>2, LegObservation
      <4>4. Executable(s) \in Nat
        BY <3>1, <4>1, <4>2, <4>3, ExecutableParts
      <4>. QED BY <4>1, <4>2, <4>3, <4>4
    <3>3. LegsStayWithinTheirAction
      BY <3>1, <3>2, ExecutableParts DEF LegsStayWithinTheirAction
    <3>4. LegsRestOnCurrentEvidence
      <4>1. ASSUME NEW s \in DOMAIN outcome PROVE outcome[s] # "ERROR"
        <5>1. CASE Judgement(s) = "ERROR"
          <6>1. /\ Capable(registry[s]) /\ Priced(evidence[s]) /\ SessionKnown(evidence[s])
                /\ FreshnessOf(s) = "CURRENT" /\ Requested(s) /\ Executable(s) # 0
                /\ Failures(PolicyRequest(s)) # {}
            BY <5>1 DEF Judgement, PolicyOutcome
          <6>2. FeeRefusal(registry[s]) = "none"
            BY <5>1 DEF Judgement, PolicyOutcome
          <6>. QED BY <3>1, <4>1, <6>1, <6>2, PolicyIsAccepted
        <5>. QED BY <3>1, <4>1, <5>1
      <4>2. ASSUME NEW s \in DOMAIN legs
            PROVE  /\ evidence[s].at <= assessedAt /\ assessedAt - evidence[s].at <= CurrentFor
                   /\ evidence[s].currency = "THB" /\ Resolution(registry[s]) = "RESOLVED"
        <5>1. /\ Priced(evidence[s]) /\ SessionKnown(evidence[s]) /\ FreshnessOf(s) = "CURRENT"
              /\ FeeRefusal(registry[s]) = "none" /\ Capable(registry[s])
          BY <3>2, LegPasses
        <5>. DEFINE o == Observed(evidence[s])
        <5>. DEFINE q == evidence[s]
        <5>6. /\ q.at \in Int /\ q.currency = Currency
              /\ o = Observation("MARKET_LAST", "YAHOO_CHART", Ratio(q.price, 1), Currency, q.at, q.received, "REGULAR")
          BY <3>1, <3>2, <5>1, LegObservation
        <5>2. o.at = evidence[s].at /\ o.at \in Int /\ evidence[s].currency = Currency
          <6>. HIDE DEF o
          <6>. QED BY <5>6 DEF Observation
        <5>3. Freshness(o, assessedAt) = "CURRENT"
          BY <5>1 DEF FreshnessOf
        <5>. HIDE DEF o
        <5>4. o.at <= assessedAt /\ assessedAt - o.at <= CurrentFor
          BY <3>1, <5>2, <5>3, CurrentIsYoung
        <5>5. Currency = "THB" /\ Resolution(registry[s]) = "RESOLVED"
          BY <5>1, ChargedIsEligible DEF Capable
        <5>. QED BY <5>2, <5>4, <5>5
      <4>. QED BY <4>1, <4>2 DEF LegsRestOnCurrentEvidence
    <3>5. DescriptionsAgree
      <4>. SUFFICES ASSUME NEW s \in DOMAIN outcome
                    PROVE  LET view      == registry[s]
                               seen      == Observed(evidence[s])
                               diagnosis == Diagnosis(seen, view, assessedAt)
                           IN  /\ {"MISSING_QUANTITY", "PRICE_NOT_EXECUTION_EVIDENCE"} \cap Failures(LegacyRequest(s)) # {}
                               /\ FreshnessOf(s) \in {"CURRENT", "STALE", "EXPIRED"} => diagnosis.age = FreshnessOf(s)
                               /\ Capable(view) /\ ~OddLot(s) =>
                                    (s \in DOMAIN legs <=> Priced(evidence[s]) /\ Failures(PolicyRequest(s)) = {})
                               /\ s \in DOMAIN legs =>
                                    /\ ~Telemetry(view).disagreement
                                    /\ s \in Funding => LegacyLeg(s).projected /\ LegacyLeg(s).complete
                                    /\ diagnosis.kind = "PROVIDER_REGULAR_LAST" /\ diagnosis.quality = "COMPLETE"
                                    /\ diagnosis.age = "CURRENT" /\ ObservationQuality(seen) = "COMPLETE"
                                    /\ TimestampQuality(seen) = "EXCHANGE_OBSERVED"
                                    /\ SessionCompleteness(seen) = "COMPLETE"
        BY DEF DescriptionsAgree
      <4>. DEFINE view == registry[s]
                  seen == Observed(evidence[s])
                  diagnosis == Diagnosis(seen, view, assessedAt)
      <4>0. s \in Traded
        BY <3>1
      <4>1. {"MISSING_QUANTITY", "PRICE_NOT_EXECUTION_EVIDENCE"} \cap Failures(LegacyRequest(s)) # {}
        BY LegacyIsRefused
      <4>2. FreshnessOf(s) \in {"CURRENT", "STALE", "EXPIRED"} => diagnosis.age = FreshnessOf(s)
        BY <3>1, <4>0, AgesAgree
      <4>3. Capable(view) /\ ~OddLot(s) =>
              (s \in DOMAIN legs <=> Priced(evidence[s]) /\ Failures(PolicyRequest(s)) = {})
        <5>1. s \in DOMAIN legs => Priced(evidence[s]) /\ Failures(PolicyRequest(s)) = {}
          BY <3>2, LegPasses
        <5>2. Capable(view) /\ ~OddLot(s) /\ Priced(evidence[s]) /\ Failures(PolicyRequest(s)) = {}
                => Judgement(s) = "COMPLETE"
          BY <3>1, <4>0, AcceptedIsComplete
        <5>. QED BY <3>1, <4>0, <5>1, <5>2
      <4>4. ASSUME s \in DOMAIN legs
            PROVE  /\ ~Telemetry(view).disagreement
                   /\ s \in Funding => LegacyLeg(s).projected /\ LegacyLeg(s).complete
                   /\ diagnosis.kind = "PROVIDER_REGULAR_LAST" /\ diagnosis.quality = "COMPLETE"
                   /\ diagnosis.age = "CURRENT" /\ ObservationQuality(seen) = "COMPLETE"
                   /\ TimestampQuality(seen) = "EXCHANGE_OBSERVED"
                   /\ SessionCompleteness(seen) = "COMPLETE"
        <5>1. /\ Capable(view) /\ Priced(evidence[s]) /\ SessionKnown(evidence[s]) /\ FreshnessOf(s) = "CURRENT"
              /\ Eligibility(view) = "ELIGIBLE" /\ FeeRefusal(view) = "none" /\ Requested(s)
          BY <3>2, <4>4, LegPasses
        <5>2. ~Telemetry(view).disagreement
          BY <5>1 DEF Telemetry
        <5>3. s \in Funding => LegacyLeg(s).projected /\ LegacyLeg(s).complete
          BY <3>1, <4>0, <5>1, LegacyLegAgrees
        <5>4. Currency = "THB"
          BY <5>1, ChargedIsEligible DEF Capable
        <5>5. diagnosis.age = "CURRENT"
          BY <4>2, <5>1
        <5>6. /\ diagnosis.kind = "PROVIDER_REGULAR_LAST" /\ diagnosis.quality = "COMPLETE"
              /\ ObservationQuality(seen) = "COMPLETE" /\ TimestampQuality(seen) = "EXCHANGE_OBSERVED"
              /\ SessionCompleteness(seen) = "COMPLETE"
          BY <3>1, <4>0, <5>1, <5>4, DiagnosisAgrees
        <5>. QED BY <5>2, <5>3, <5>5, <5>6
      <4>. HIDE DEF view, seen, diagnosis
      <4>5. /\ {"MISSING_QUANTITY", "PRICE_NOT_EXECUTION_EVIDENCE"} \cap Failures(LegacyRequest(s)) # {}
            /\ FreshnessOf(s) \in {"CURRENT", "STALE", "EXPIRED"} => diagnosis.age = FreshnessOf(s)
            /\ Capable(view) /\ ~OddLot(s) =>
                 (s \in DOMAIN legs <=> Priced(evidence[s]) /\ Failures(PolicyRequest(s)) = {})
            /\ s \in DOMAIN legs =>
                 /\ ~Telemetry(view).disagreement
                 /\ s \in Funding => LegacyLeg(s).projected /\ LegacyLeg(s).complete
                 /\ diagnosis.kind = "PROVIDER_REGULAR_LAST" /\ diagnosis.quality = "COMPLETE"
                 /\ diagnosis.age = "CURRENT" /\ ObservationQuality(seen) = "COMPLETE"
                 /\ TimestampQuality(seen) = "EXCHANGE_OBSERVED"
                 /\ SessionCompleteness(seen) = "COMPLETE"
        BY <4>1, <4>2, <4>3, <4>4
      <4>. QED BY <4>5 DEF view, seen, diagnosis
    <3>. QED BY <3>3, <3>4, <3>5 DEF LegsAreGrounded
  <2>. QED BY <2>1, <2>2 DEF LegInv, Built
<1>2. ExecutionInit => FundInv /\ LegInv
  BY ExecutionAssumption DEF ExecutionInit, FundInv, LegInv, Built
<1>3. (FundInv /\ LegInv) /\ [ExecutionNext]_executionVars => (FundInv /\ LegInv)'
  BY FundStepInv, LegStepInv
<1>. QED BY <1>1, <1>2, <1>3, PTL DEF ExecutionSpec

-----------------------------------------------------------------------------
(* Limits and doubt.                                                       *)

LEMMA LeastOfTwo ==
  ASSUME NEW x \in Int, NEW y \in Int
  PROVE  Least({x, y}) = IF x <= y THEN x ELSE y
BY DEF Least

LEMMA MostOfTwo ==
  ASSUME NEW x \in Int, NEW y \in Int
  PROVE  Most({x, y}) = IF x <= y THEN y ELSE x
BY DEF Most

LEMMA ClampedIs ==
  ASSUME NEW x \in Int, NEW low \in Int, NEW high \in Int, low <= high
  PROVE  Clamped(x, low, high) = IF x < low THEN low ELSE IF high < x THEN high ELSE x
BY LeastOfTwo, MostOfTwo DEF Clamped

\* The least of three limits, or of those and the crisis's.
LEMMA UpperIs ==
  ASSUME NEW user \in Nat, NEW regime \in Nat, NEW crisis \in Nat, NEW system \in Nat, NEW emergency \in BOOLEAN
  PROVE  LET u == Upper(user, regime, crisis, system, emergency)
             plain == Upper(user, regime, crisis, system, FALSE)
         IN  /\ u \in Nat /\ plain \in Nat /\ u <= plain
             /\ emergency => u <= crisis
<1>. DEFINE S == {user, regime, system}
            b == IF user <= regime THEN IF user <= system THEN user ELSE system
                 ELSE IF regime <= system THEN regime ELSE system
            c == IF b <= crisis THEN b ELSE crisis
<1>1. Least(S) = b
  BY DEF Least
<1>2. Least(S \cup {crisis}) = c
  BY DEF Least
<1>3. Least(S \cup {}) = b
  BY <1>1
<1>. QED BY <1>1, <1>2, <1>3 DEF Upper

LEMMA LowerIs ==
  ASSUME NEW user \in Nat, NEW regime \in Nat, NEW crisis \in Nat, NEW system \in Nat, NEW emergency \in BOOLEAN
  PROVE  LET u == Lower(user, regime, crisis, system, emergency)
             plain == Lower(user, regime, crisis, system, FALSE)
         IN  /\ u \in Nat /\ plain \in Nat /\ u >= plain
             /\ emergency => u >= crisis
<1>. DEFINE S == {user, regime, system}
            b == IF user >= regime THEN IF user >= system THEN user ELSE system
                 ELSE IF regime >= system THEN regime ELSE system
            c == IF b >= crisis THEN b ELSE crisis
<1>1. Most(S) = b
  BY DEF Most
<1>2. Most(S \cup {crisis}) = c
  BY DEF Most
<1>3. Most(S \cup {}) = b
  BY <1>1
<1>. QED BY <1>1, <1>2, <1>3 DEF Lower

\* Rounding keeps order.
LEMMA RoundedKeepsOrder ==
  ASSUME NEW d \in Nat \ {0}, NEW m \in Int, NEW n \in Int, m <= n
  PROVE  Rounded(m, d) \in Int /\ Rounded(n, d) \in Int /\ Rounded(m, d) <= Rounded(n, d)
BY Z3 DEF Rounded

LEMMA RoundedWhole ==
  ASSUME NEW d \in Nat \ {0}, NEW n \in Int
  PROVE  Rounded(n * d, d) = n
BY Z3 DEF Rounded

LEMMA ProductKeepsOrder ==
  ASSUME NEW a \in Nat, NEW b \in Nat, NEW c \in Nat, NEW d \in Nat, a <= b, c <= d
  PROVE  a * c \in Nat /\ b * d \in Nat /\ a * c <= b * d
<1>1. PICK k \in Nat : b = a + k
  <2>1. b - a \in Nat /\ b = a + (b - a)
    OBVIOUS
  <2>. QED BY <2>1
<1>2. PICK j \in Nat : d = c + j
  <2>1. d - c \in Nat /\ d = c + (d - c)
    OBVIOUS
  <2>. QED BY <2>1
<1>3. (a + k) * (c + j) = a * c + a * j + k * c + k * j
  OBVIOUS
<1>4. a * c \in Nat /\ a * j \in Nat /\ k * c \in Nat /\ k * j \in Nat
  OBVIOUS
<1>. QED BY <1>1, <1>2, <1>3, <1>4

-----------------------------------------------------------------------------
(* Regimes.                                                                *)

\* What the policy reads of a detection.
Regime(r) ==
  /\ r.name \in DOMAIN RegimeConstraints
  /\ r.cash \in Nat /\ r.position \in Nat \ {0} /\ r.turnover \in Nat

Detection(m) == Regime(m.regime) /\ m.sure \in Int

LEMMA RegimeTyped ==
  ASSUME NEW name \in DOMAIN RegimeConstraints, NEW stability, NEW stressed
  PROVE  Regime(RegimeOf(name, stability, stressed))
<1>. DEFINE r == RegimeOf(name, stability, stressed)
            allowed == RegimeConstraints[name]
<1>1. /\ allowed.cash \in Nat /\ allowed.position \in Nat \ {0} /\ allowed.turnover \in Nat
  BY DEF RegimeConstraints, Allowed
<1>. HIDE DEF allowed
<1>2. /\ r.name = name /\ r.cash = allowed.cash /\ r.position = allowed.position
      /\ r.turnover = allowed.turnover
  BY <1>1 DEF RegimeOf, allowed
<1>. HIDE DEF r
<1>3. Regime(r)
  BY <1>1, <1>2 DEF Regime
<1>. QED BY <1>3 DEF r

LEMMA DetectedTyped ==
  ASSUME NEW s \in Readings, NEW days
  PROVE  Detection(Detected(s, days))
<1>1. /\ s.trend \in Int /\ s.vol \in Int /\ s.drawdown \in Int /\ s.momentum \in Int
      /\ s.dispersion \in Int /\ s.z \in Int /\ s.vix \in Int
  BY RegimeAssumption
<1>2. Composite(s) \in Int
  <2>1. Most({0, s.dispersion - 50}) \in Int
    BY <1>1, MostOfTwo
  <2>2. 40 * s.trend + 25 * s.vol + 20 * s.drawdown + 15 * s.momentum - 15 * Most({0, s.dispersion - 50}) \in Int
    BY <1>1, <2>1
  <2>. QED BY <2>2, ClampedIs DEF Composite
<1>3. FromNeutral(s) \in Int
  BY <1>2, MostOfTwo DEF FromNeutral
<1>4. Base(s) \in Int
  BY <1>3 DEF Base, Rounded
<1>5. Severity(s) \in Int
  BY <1>1, MostOfTwo DEF Severity
<1>6. 550 + Least({Severity(s), 300}) \in Int
  BY <1>5, LeastOfTwo
<1>7. /\ Rounded(105 * Base(s), 100) \in Int /\ Rounded(85 * Base(s), 100) \in Int
      /\ Rounded(80 * Base(s), 100) \in Int /\ 700 - Rounded(3 * FromNeutral(s), 50) \in Int
  BY <1>3, <1>4 DEF Rounded
<1>8. /\ Classified(s).name \in DOMAIN RegimeConstraints
      /\ Classified(s).sure \in Int
  BY <1>4, <1>6, <1>7, ClampedIs DEF Classified, RegimeConstraints
<1>9. Regime(Detected(s, days).regime)
  BY <1>8, RegimeTyped DEF Detected
<1>. QED BY <1>8, <1>9 DEF Detection, Detected

LEMMA FallbackTyped == Detection(Fallback)
<1>1. "SIDEWAYS" \in DOMAIN RegimeConstraints
  BY DEF RegimeConstraints
<1>2. Regime(RegimeOf("SIDEWAYS", "VOLATILE", FALSE))
  BY <1>1, RegimeTyped
<1>. DEFINE r == RegimeOf("SIDEWAYS", "VOLATILE", FALSE)
<1>3. Regime(r) /\ Fallback = [regime |-> r, sure |-> 350]
  BY <1>2 DEF Fallback
<1>. HIDE DEF r
<1>4. Regime(Fallback.regime) /\ Fallback.sure = 350
  BY <1>3
<1>. QED BY <1>4 DEF Detection

LEMMA MarketTyped == AdviceSpec => []Detection(market)
<1>1. AdviceInit => Detection(market)
  BY DetectedTyped DEF AdviceInit
<1>2. Detection(market) /\ [AdviceNext]_adviceVars => Detection(market)'
  <2>. SUFFICES ASSUME Detection(market), [AdviceNext]_adviceVars PROVE Detection(market)'
    OBVIOUS
  <2>1. CASE ShiftRegime
    <3>1. PICK s \in Readings : market' = Detected(s, history)
      BY <2>1 DEF ShiftRegime
    <3>2. Detection(Detected(s, history))
      BY DetectedTyped
    <3>. QED BY <3>1, <3>2 DEF Detection
  <2>2. CASE LoseBenchmarks
    BY <2>2, FallbackTyped DEF LoseBenchmarks, Detection
  <2>3. CASE market' = market
    BY <2>3 DEF Detection
  <2>4. \/ ShiftRegime \/ LoseBenchmarks \/ market' = market
    BY DEF AdviceNext, adviceVars, AskForSizes, AskForBasket, AskForBudget, AskForReview, BuyAdvised,
           DepositCash, Advise, Follow, Read
  <2>. QED BY <2>1, <2>2, <2>3, <2>4
<1>. QED BY <1>1, <1>2, PTL DEF AdviceSpec

-----------------------------------------------------------------------------
(* The policy.                                                             *)

Doubts == 0..1000

\* Doubt is bounded, and grows as a detection is less sure.
LEMMA DiscountIs ==
  ASSUME NEW m, m.sure \in Int
  PROVE  Discount(m) \in Doubts
<1>1. Instability(m.regime.stability) \in {0, 120, 300}
  BY DEF Instability
<1>2. Most({0, 700 - m.sure}) \in Nat
  BY MostOfTwo
<1>3. Rounded(500 * Most({0, 700 - m.sure}), 700) \in Nat
  BY <1>2 DEF Rounded
<1>4. Rounded(35 * Instability(m.regime.stability), 100) \in Nat
  BY <1>1 DEF Rounded
<1>. DEFINE sum == Rounded(500 * Most({0, 700 - m.sure}), 700) + Rounded(35 * Instability(m.regime.stability), 100)
<1>5. sum \in Nat
  BY <1>3, <1>4
<1>6. Discount(m) = Least({1000, sum})
  BY DEF Discount
<1>. HIDE DEF sum
<1>7. Least({1000, sum}) = IF 1000 <= sum THEN 1000 ELSE sum
  BY <1>5, LeastOfTwo
<1>. QED BY <1>5, <1>6, <1>7 DEF Doubts

LEMMA DiscountGrows ==
  ASSUME NEW m, NEW n, m.sure \in Int, n.sure \in Int, n.regime = m.regime, n.sure <= m.sure
  PROVE  Discount(m) <= Discount(n)
<1>. DEFINE u == Rounded(35 * Instability(m.regime.stability), 100)
            a == Most({0, 700 - m.sure})
            b == Most({0, 700 - n.sure})
<1>1. Instability(m.regime.stability) \in {0, 120, 300}
  BY DEF Instability
<1>2. a \in Nat /\ b \in Nat /\ a <= b
  BY MostOfTwo
<1>3. u \in Int
  BY <1>1 DEF Rounded
<1>. HIDE DEF a, b
<1>4. Rounded(500 * a, 700) \in Int /\ Rounded(500 * b, 700) \in Int /\ Rounded(500 * a, 700) <= Rounded(500 * b, 700)
  BY <1>2, RoundedKeepsOrder
<1>5. Discount(m) = Least({1000, Rounded(500 * a, 700) + u}) /\ Discount(n) = Least({1000, Rounded(500 * b, 700) + u})
  BY DEF Discount, a, b
<1>. HIDE DEF u
<1>. QED BY <1>3, <1>4, <1>5, LeastOfTwo

\* The three limits of the policy over an envelope, and how they are bounded.
CashUnder(kept, doubt, emergency) ==
  LET more == kept + Rounded(doubt * 80, 1000)
  IN  Clamped(IF emergency THEN Most({more, 200}) ELSE more, 20, 350)

PositionUnder(most, doubt, emergency) ==
  LET less == IF doubt > 380 THEN Rounded(most * 85, 100) ELSE most
  IN  Most({80, IF emergency THEN Least({less, 150}) ELSE less})

TurnoverBounded(base, doubt, emergency) ==
  LET less == TurnoverUnder(base, doubt)
  IN  Clamped(IF emergency THEN Least({less, 150}) ELSE less, 50, Hundred)

LEMMA CashBounds ==
  ASSUME NEW c \in Nat, NEW d \in Nat, NEW doubt \in Doubts, NEW more \in Doubts,
         c <= d, doubt <= more
  PROVE  \A before, after \in BOOLEAN : (before => after) =>
           /\ CashUnder(c, doubt, before) \in Int /\ CashUnder(d, more, after) \in Int
           /\ CashUnder(c, doubt, before) <= CashUnder(d, more, after)
           /\ CashUnder(d, more, after) >= Least({d, 350})
           /\ after => CashUnder(d, more, after) >= 200
<1>. SUFFICES ASSUME NEW before \in BOOLEAN, NEW after \in BOOLEAN, before => after
     PROVE  /\ CashUnder(c, doubt, before) \in Int /\ CashUnder(d, more, after) \in Int
            /\ CashUnder(c, doubt, before) <= CashUnder(d, more, after)
            /\ CashUnder(d, more, after) >= Least({d, 350})
            /\ after => CashUnder(d, more, after) >= 200
  OBVIOUS
<1>0. doubt \in 0..1000 /\ more \in 0..1000 /\ doubt <= more
  BY DEF Doubts
<1>1. /\ Rounded(doubt * 80, 1000) \in Int /\ Rounded(more * 80, 1000) \in Int
      /\ 0 <= Rounded(doubt * 80, 1000) /\ Rounded(doubt * 80, 1000) <= Rounded(more * 80, 1000)
  BY <1>0 DEF Rounded
<1>. DEFINE x == c + Rounded(doubt * 80, 1000)
            y == d + Rounded(more * 80, 1000)
            low == IF before THEN Most({x, 200}) ELSE x
            high == IF after THEN Most({y, 200}) ELSE y
<1>2. x \in Int /\ y \in Int /\ x <= y /\ d <= y
  BY <1>0, <1>1
<1>. HIDE DEF x, y
<1>3. low \in Int /\ high \in Int /\ low <= high /\ d <= high /\ (after => high >= 200)
  BY <1>2, MostOfTwo
<1>4. CashUnder(c, doubt, before) = Clamped(low, 20, 350) /\ CashUnder(d, more, after) = Clamped(high, 20, 350)
  BY DEF CashUnder, x, y
<1>. HIDE DEF low, high
<1>. QED BY <1>3, <1>4, ClampedIs, LeastOfTwo

LEMMA PositionBounds ==
  ASSUME NEW c \in Nat, NEW d \in Nat, NEW doubt \in Doubts, NEW more \in Doubts,
         d <= c, doubt <= more
  PROVE  \A before, after \in BOOLEAN : (before => after) =>
           /\ PositionUnder(c, doubt, before) \in Int /\ PositionUnder(d, more, after) \in Int
           /\ PositionUnder(d, more, after) <= PositionUnder(c, doubt, before)
           /\ PositionUnder(d, more, after) <= Most({d, 80})
           /\ after => PositionUnder(d, more, after) <= 150
<1>. SUFFICES ASSUME NEW before \in BOOLEAN, NEW after \in BOOLEAN, before => after
     PROVE  /\ PositionUnder(c, doubt, before) \in Int /\ PositionUnder(d, more, after) \in Int
            /\ PositionUnder(d, more, after) <= PositionUnder(c, doubt, before)
            /\ PositionUnder(d, more, after) <= Most({d, 80})
            /\ after => PositionUnder(d, more, after) <= 150
  OBVIOUS
<1>0. doubt \in 0..1000 /\ more \in 0..1000 /\ doubt <= more
  BY DEF Doubts
<1>1. /\ Rounded(c * 85, 100) \in Int /\ Rounded(d * 85, 100) \in Int
      /\ Rounded(d * 85, 100) <= Rounded(c * 85, 100) /\ Rounded(d * 85, 100) <= d /\ Rounded(c * 85, 100) <= c
  BY <1>0 DEF Rounded
<1>. DEFINE x == IF doubt > 380 THEN Rounded(c * 85, 100) ELSE c
            y == IF more > 380 THEN Rounded(d * 85, 100) ELSE d
            high == IF before THEN Least({x, 150}) ELSE x
            low == IF after THEN Least({y, 150}) ELSE y
<1>2. x \in Int /\ y \in Int /\ y <= x /\ y <= d
  BY <1>0, <1>1
<1>. HIDE DEF x, y
<1>3. low \in Int /\ high \in Int /\ low <= high /\ low <= d /\ (after => low <= 150)
  BY <1>2, LeastOfTwo
<1>4. PositionUnder(c, doubt, before) = Most({80, high}) /\ PositionUnder(d, more, after) = Most({80, low})
  BY DEF PositionUnder, x, y
<1>. HIDE DEF low, high
<1>. QED BY <1>3, <1>4, MostOfTwo

LEMMA TurnoverBounds ==
  ASSUME NEW c \in Nat, NEW d \in Nat, NEW doubt \in Doubts, NEW more \in Doubts,
         d <= c, doubt <= more
  PROVE  \A before, after \in BOOLEAN : (before => after) =>
           /\ TurnoverBounded(c, doubt, before) \in Int /\ TurnoverBounded(d, more, after) \in Int
           /\ TurnoverBounded(d, more, after) <= TurnoverBounded(c, doubt, before)
           /\ TurnoverBounded(d, more, after) <= Most({d, 50})
           /\ after => TurnoverBounded(d, more, after) <= 150
<1>. SUFFICES ASSUME NEW before \in BOOLEAN, NEW after \in BOOLEAN, before => after
     PROVE  /\ TurnoverBounded(c, doubt, before) \in Int /\ TurnoverBounded(d, more, after) \in Int
            /\ TurnoverBounded(d, more, after) <= TurnoverBounded(c, doubt, before)
            /\ TurnoverBounded(d, more, after) <= Most({d, 50})
            /\ after => TurnoverBounded(d, more, after) <= 150
  OBVIOUS
<1>0. doubt \in 0..1000 /\ more \in 0..1000 /\ doubt <= more
  BY DEF Doubts
<1>. DEFINE x == TurnoverUnder(c, doubt)
            y == TurnoverUnder(d, more)
            high == IF before THEN Least({x, 150}) ELSE x
            low == IF after THEN Least({y, 150}) ELSE y
<1>1. /\ d * (2500 - more) \in Nat /\ c * (2500 - doubt) \in Nat /\ d * (2500 - more) <= c * (2500 - doubt)
  <2>. DEFINE u == 2500 - doubt
              w == 2500 - more
  <2>1. u \in Nat /\ w \in Nat /\ w <= u
    BY <1>0
  <2>. HIDE DEF u, w
  <2>2. d * w \in Nat /\ c * u \in Nat /\ d * w <= c * u
    BY <2>1, ProductKeepsOrder
  <2>. QED BY <2>2 DEF u, w
<1>2. d * (2500 - more) <= d * 2500 /\ d * 2500 \in Nat
  <2>. DEFINE w == 2500 - more
  <2>1. w \in Nat /\ w <= 2500 /\ d <= d /\ 2500 \in Nat
    BY <1>0
  <2>. HIDE DEF w
  <2>2. \A z \in Nat : w <= z => d * w <= d * z /\ d * z \in Nat
    BY <2>1, ProductKeepsOrder
  <2>3. d * w <= d * 2500 /\ d * 2500 \in Nat
    BY <2>1, <2>2
  <2>. QED BY <2>3 DEF w
<1>3. x \in Int /\ y \in Int /\ y <= x
  <2>. DEFINE less == d * (2500 - more)
              base == c * (2500 - doubt)
  <2>1. less \in Int /\ base \in Int /\ less <= base
    BY <1>1
  <2>. HIDE DEF less, base
  <2>2. Rounded(less, 2500) \in Int /\ Rounded(base, 2500) \in Int /\ Rounded(less, 2500) <= Rounded(base, 2500)
    BY <2>1, RoundedKeepsOrder
  <2>. QED BY <2>2 DEF TurnoverUnder, less, base
<1>4. y <= d
  <2>1. Rounded(d * (2500 - more), 2500) <= Rounded(d * 2500, 2500)
    BY <1>1, <1>2, RoundedKeepsOrder
  <2>2. Rounded(d * 2500, 2500) = d
    BY RoundedWhole
  <2>. QED BY <2>1, <2>2 DEF TurnoverUnder
<1>. HIDE DEF x, y
<1>5. low \in Int /\ high \in Int /\ low <= high /\ low <= d /\ (after => low <= 150)
  BY <1>3, <1>4, LeastOfTwo
<1>6. /\ TurnoverBounded(c, doubt, before) = Clamped(high, 50, 1000)
      /\ TurnoverBounded(d, more, after) = Clamped(low, 50, 1000)
  BY DEF TurnoverBounded, Hundred, x, y
<1>. HIDE DEF low, high
<1>. QED BY <1>5, <1>6, ClampedIs, MostOfTwo

\* The envelope allows natural numbers, less of them in an emergency, which is
\* one for the envelope as for the policy.
LEMMA EnvelopeIs ==
  ASSUME NEW m, Detection(m), NEW n, Detection(n), n.regime = m.regime,
         NEW persona \in Personas, Emergency(m) => Emergency(n)
  PROVE  LET e == EffectiveEnvelope(m, persona)
             f == EffectiveEnvelope(n, persona)
         IN  /\ {e.cash, e.position, e.turnover, f.cash, f.position, f.turnover} \subseteq Nat
             /\ e.cash <= f.cash /\ f.position <= e.position /\ f.turnover <= e.turnover
             /\ e.emergency = Emergency(m) /\ f.emergency = Emergency(n)
<1>1. /\ persona.cash \in Nat /\ persona.position \in Nat /\ persona.turnover \in Nat
      /\ m.regime.cash \in Nat /\ m.regime.position \in Nat /\ m.regime.turnover \in Nat
  BY AdviceAssumption DEF Detection, Regime
<1>. DEFINE turn == Rounded(persona.turnover * m.regime.turnover, 100)
            C(b) == Lower(persona.cash, m.regime.cash, Crisis.cash, 0, b)
            P(b) == Upper(persona.position, m.regime.position, Crisis.position, 400, b)
            T(b) == Upper(persona.turnover, turn, Crisis.turnover, Hundred, b)
<1>2. turn \in Nat
  <2>1. persona.turnover * m.regime.turnover \in Nat
    BY <1>1
  <2>. QED BY <2>1 DEF Rounded
<1>. HIDE DEF turn
<1>3. Crisis.cash \in Nat /\ Crisis.position \in Nat /\ Crisis.turnover \in Nat
  BY DEF Crisis
<1>4. \A x \in BOOLEAN : C(x) \in Nat /\ C(FALSE) <= C(x)
  BY <1>1, <1>3, LowerIs
<1>5. \A x \in BOOLEAN : P(x) \in Nat /\ P(x) <= P(FALSE)
  <2>. DEFINE most == persona.position
              allowed == m.regime.position
              crisis == Crisis.position
              system == 400
  <2>1. most \in Nat /\ allowed \in Nat /\ crisis \in Nat /\ system \in Nat
    BY <1>1, <1>3
  <2>. HIDE DEF most, allowed, crisis, system
  <2>2. \A x \in BOOLEAN : Upper(most, allowed, crisis, system, x) \in Nat
                          /\ Upper(most, allowed, crisis, system, x) <= Upper(most, allowed, crisis, system, FALSE)
    BY <2>1, UpperIs
  <2>. QED BY <2>2 DEF most, allowed, crisis, system
<1>6. \A x \in BOOLEAN : T(x) \in Nat /\ T(x) <= T(FALSE)
  <2>. Hundred \in Nat
    BY DEF Hundred
  <2>. QED BY <1>2, <1>1, <1>3, UpperIs
<1>. DEFINE e == EffectiveEnvelope(m, persona)
            f == EffectiveEnvelope(n, persona)
            b == Emergency(m)
            c == Emergency(n)
<1>7. /\ e.cash = C(b) /\ e.position = P(b) /\ e.turnover = T(b) /\ e.emergency = b
      /\ f.cash = C(c) /\ f.position = P(c) /\ f.turnover = T(c) /\ f.emergency = c
  BY DEF EffectiveEnvelope, turn
<1>8. b \in BOOLEAN /\ c \in BOOLEAN /\ (b => c)
  BY ZenonT(30) DEF Emergency
<1>. HIDE DEF C, P, T, b, c, e, f
<1>9. b = c \/ (b = FALSE /\ c = TRUE)
  BY <1>8
<1>10. /\ {e.cash, e.position, e.turnover, f.cash, f.position, f.turnover} \subseteq Nat
       /\ e.cash <= f.cash /\ f.position <= e.position /\ f.turnover <= e.turnover
       /\ e.emergency = b /\ f.emergency = c
  <2>1. CASE b = c
    <3>1. C(c) \in Nat /\ P(c) \in Nat /\ T(c) \in Nat
      BY <1>4, <1>5, <1>6, <1>8
    <3>2. /\ e.cash = C(c) /\ e.position = P(c) /\ e.turnover = T(c)
          /\ f.cash = C(c) /\ f.position = P(c) /\ f.turnover = T(c)
      BY <1>7, <2>1
    <3>. QED BY <3>1, <3>2, <1>7
  <2>2. CASE b = FALSE /\ c = TRUE
    <3>1. /\ C(FALSE) \in Nat /\ P(FALSE) \in Nat /\ T(FALSE) \in Nat
          /\ C(TRUE) \in Nat /\ P(TRUE) \in Nat /\ T(TRUE) \in Nat
          /\ C(FALSE) <= C(TRUE) /\ P(TRUE) <= P(FALSE) /\ T(TRUE) <= T(FALSE)
      BY <1>4, <1>5, <1>6
    <3>2. /\ e.cash = C(FALSE) /\ e.position = P(FALSE) /\ e.turnover = T(FALSE)
          /\ f.cash = C(TRUE) /\ f.position = P(TRUE) /\ f.turnover = T(TRUE)
      BY <1>7, <2>2
    <3>. QED BY <3>1, <3>2, <1>7
  <2>. QED BY <1>9, <2>1, <2>2
<1>. QED BY <1>10 DEF b, c, e, f

\* The policy reads the envelope and the doubt.
LEMMA PolicyIs ==
  ASSUME NEW m, NEW persona
  PROVE  LET p == Policy(m, persona)
             e == EffectiveEnvelope(m, persona)
         IN  /\ p.cash = CashUnder(e.cash, Discount(m), e.emergency)
             /\ p.position = PositionUnder(e.position, Discount(m), e.emergency)
             /\ p.turnover = TurnoverBounded(e.turnover, Discount(m), e.emergency)
             /\ p.emergency = e.emergency /\ p.added = MaxNew(m, persona)
             /\ p.suppress = (m.regime.suppress \/ e.emergency)
<1>. DEFINE e == EffectiveEnvelope(m, persona)
<1>1. Policy(m, persona).cash = CashUnder(e.cash, Discount(m), e.emergency)
  BY DEF Policy, CashUnder
<1>2. Policy(m, persona).position = PositionUnder(e.position, Discount(m), e.emergency)
  BY DEF Policy, PositionUnder
<1>3. Policy(m, persona).turnover = TurnoverBounded(e.turnover, Discount(m), e.emergency)
  BY DEF Policy, TurnoverBounded
<1>4. /\ Policy(m, persona).emergency = e.emergency /\ Policy(m, persona).added = MaxNew(m, persona)
      /\ Policy(m, persona).suppress = (m.regime.suppress \/ e.emergency)
  BY DEF Policy
<1>. QED BY <1>1, <1>2, <1>3, <1>4

\* What is added is a number, none in an emergency, and otherwise depends on the
\* regime alone.
LEMMA AddedIs ==
  ASSUME NEW m, NEW n, n.regime = m.regime, NEW persona \in Personas
  PROVE  /\ MaxNew(m, persona) \in Nat
         /\ Emergency(m) => MaxNew(m, persona) = 0
         /\ ~Emergency(m) /\ ~Emergency(n) => MaxNew(n, persona) = MaxNew(m, persona)
<1>1. (4 * persona.eagerness) \div 100 \in Int
  BY AdviceAssumption
<1>2. Clamped((4 * persona.eagerness) \div 100, 0, 3) \in Nat
  BY <1>1, ClampedIs
<1>. QED BY <1>2 DEF MaxNew

\* Less confidence begins an emergency, or ends one, which is then of turbulence.
LEMMA Tightens ==
  ASSUME NEW m, Detection(m), NEW n, Detection(n), n.regime = m.regime, n.sure <= m.sure,
         NEW persona \in Personas, Emergency(m) => Emergency(n)
  PROVE  LET p == Policy(m, persona)
             q == Policy(n, persona)
             f == EffectiveEnvelope(n, persona)
         IN  /\ Tighter(q, p)
             /\ q.cash >= Least({f.cash, 350}) /\ q.position <= Most({f.position, 80})
             /\ q.turnover <= Most({f.turnover, 50})
             /\ Emergency(n) => /\ q.cash >= 200 /\ q.position <= 150 /\ q.turnover <= 150
                                /\ q.added = 0 /\ q.suppress
<1>. DEFINE p == Policy(m, persona)
            q == Policy(n, persona)
            e == EffectiveEnvelope(m, persona)
            f == EffectiveEnvelope(n, persona)
            first == Discount(m)
            second == Discount(n)
            was == Emergency(m)
            is == Emergency(n)
<1>1. first \in Doubts /\ second \in Doubts /\ first <= second
  BY DiscountIs, DiscountGrows DEF Detection
<1>2. /\ e.cash \in Nat /\ e.position \in Nat /\ e.turnover \in Nat
      /\ f.cash \in Nat /\ f.position \in Nat /\ f.turnover \in Nat
      /\ e.cash <= f.cash /\ f.position <= e.position /\ f.turnover <= e.turnover
      /\ e.emergency = was /\ f.emergency = is
  BY EnvelopeIs
<1>3. was \in BOOLEAN /\ is \in BOOLEAN /\ (was => is)
  BY ZenonT(30) DEF Emergency
<1>4. /\ p.cash = CashUnder(e.cash, first, was) /\ p.position = PositionUnder(e.position, first, was)
      /\ p.turnover = TurnoverBounded(e.turnover, first, was) /\ p.added = MaxNew(m, persona)
  BY <1>2, PolicyIs
<1>5. /\ q.cash = CashUnder(f.cash, second, is) /\ q.position = PositionUnder(f.position, second, is)
      /\ q.turnover = TurnoverBounded(f.turnover, second, is) /\ q.added = MaxNew(n, persona)
      /\ q.suppress = (n.regime.suppress \/ is)
  BY <1>2, PolicyIs
<1>6. MaxNew(n, persona) <= MaxNew(m, persona) /\ (is => MaxNew(n, persona) = 0)
  <2>1. /\ MaxNew(m, persona) \in Nat /\ MaxNew(n, persona) \in Nat
        /\ (is => MaxNew(n, persona) = 0)
        /\ (~was /\ ~is => MaxNew(n, persona) = MaxNew(m, persona))
    BY AddedIs
  <2>. HIDE DEF was, is
  <2>. QED BY <2>1, <1>3
<1>. HIDE DEF p, q, e, f, first, second, was, is
<1>7. /\ q.cash >= p.cash /\ q.cash >= Least({f.cash, 350}) /\ (is => q.cash >= 200)
  <2>. DEFINE v == e.cash
              w == f.cash
  <2>1. v \in Nat /\ w \in Nat /\ v <= w
    BY <1>2
  <2>. HIDE DEF v, w
  <2>0. Least({w, 350}) \in Int
    BY <2>1, LeastOfTwo, MostOfTwo
  <2>2. \A x, y \in BOOLEAN : (x => y) =>
            /\ CashUnder(v, first, x) \in Int /\ CashUnder(w, second, y) \in Int
            /\ CashUnder(v, first, x) <= CashUnder(w, second, y)
            /\ CashUnder(w, second, y) >= Least({w, 350})
            /\ y => CashUnder(w, second, y) >= 200
    BY <1>1, <2>0, <2>1, CashBounds, ZenonT(30)
  <2>3. /\ CashUnder(v, first, was) <= CashUnder(w, second, is) /\ CashUnder(w, second, is) >= Least({w, 350})
        /\ (is => CashUnder(w, second, is) >= 200)
    BY <1>3, <2>2, ZenonT(30)
  <2>. QED BY <1>4, <1>5, <2>3 DEF v, w
<1>8. /\ q.position <= p.position /\ q.position <= Most({f.position, 80}) /\ (is => q.position <= 150)
  <2>. DEFINE v == e.position
              w == f.position
  <2>1. v \in Nat /\ w \in Nat /\ w <= v
    BY <1>2
  <2>. HIDE DEF v, w
  <2>0. Most({w, 80}) \in Int
    BY <2>1, LeastOfTwo, MostOfTwo
  <2>2. \A x, y \in BOOLEAN : (x => y) =>
            /\ PositionUnder(v, first, x) \in Int /\ PositionUnder(w, second, y) \in Int
            /\ PositionUnder(w, second, y) <= PositionUnder(v, first, x)
            /\ PositionUnder(w, second, y) <= Most({w, 80})
            /\ y => PositionUnder(w, second, y) <= 150
    BY <1>1, <2>0, <2>1, PositionBounds, Zenon
  <2>3. /\ PositionUnder(w, second, is) <= PositionUnder(v, first, was) /\ PositionUnder(w, second, is) <= Most({w, 80})
        /\ (is => PositionUnder(w, second, is) <= 150)
    BY <1>3, <2>2, Zenon
  <2>. QED BY <1>4, <1>5, <2>3 DEF v, w
<1>9. /\ q.turnover <= p.turnover /\ q.turnover <= Most({f.turnover, 50}) /\ (is => q.turnover <= 150)
  <2>. DEFINE v == e.turnover
              w == f.turnover
  <2>1. v \in Nat /\ w \in Nat /\ w <= v
    BY <1>2
  <2>. HIDE DEF v, w
  <2>0. Most({w, 50}) \in Int
    BY <2>1, LeastOfTwo, MostOfTwo
  <2>2. \A x, y \in BOOLEAN : (x => y) =>
            /\ TurnoverBounded(v, first, x) \in Int /\ TurnoverBounded(w, second, y) \in Int
            /\ TurnoverBounded(w, second, y) <= TurnoverBounded(v, first, x)
            /\ TurnoverBounded(w, second, y) <= Most({w, 50})
            /\ y => TurnoverBounded(w, second, y) <= 150
    BY <1>1, <2>0, <2>1, TurnoverBounds, Zenon
  <2>3. /\ TurnoverBounded(w, second, is) <= TurnoverBounded(v, first, was) /\ TurnoverBounded(w, second, is) <= Most({w, 50})
        /\ (is => TurnoverBounded(w, second, is) <= 150)
    BY <1>3, <2>2, Zenon
  <2>. QED BY <1>4, <1>5, <2>3 DEF v, w
<1>10. is => q.suppress
  BY <1>5
<1>11. Tighter(q, p)
  BY <1>4, <1>5, <1>6, <1>7, <1>8, <1>9 DEF Tighter
<1>12. /\ Tighter(q, p)
       /\ q.cash >= Least({f.cash, 350}) /\ q.position <= Most({f.position, 80})
       /\ q.turnover <= Most({f.turnover, 50})
       /\ is => /\ q.cash >= 200 /\ q.position <= 150 /\ q.turnover <= 150
               /\ q.added = 0 /\ q.suppress
  BY <1>5, <1>6, <1>7, <1>8, <1>9, <1>10, <1>11
<1>. QED BY <1>12 DEF p, q, f, is

(* Whatever the readings of the market, the personas and the days before:  *)
(* compute_policy only tightens what resolve_constraints allows, both take *)
(* the same market for an emergency, and of two detections of one regime   *)
(* the less certain one allows no more, unless an emergency ends by it.    *)
THEOREM DoubtAlwaysTightens == AdviceSpec => DoubtOnlyTightens
<1>1. ASSUME NEW m, Detection(m), NEW n, Detection(n) PROVE OnlyTightened(m, n)
  <2>. SUFFICES ASSUME NEW persona \in Personas
       PROVE  LET p == Policy(m, persona)
                  q == Policy(n, persona)
                  e == EffectiveEnvelope(n, persona)
              IN  /\ q.cash >= Least({e.cash, 350}) /\ q.position <= Most({e.position, 80})
                  /\ q.turnover <= Most({e.turnover, 50})
                  /\ Emergency(n) => /\ q.cash >= Crisis.cash /\ q.position <= Crisis.position
                                     /\ q.turnover <= Crisis.turnover /\ q.added = 0 /\ q.suppress
                  /\ n.regime = m.regime /\ n.sure < m.sure =>
                       Tighter(q, p) \/ (p.emergency /\ ~q.emergency)
    BY DEF OnlyTightened
  <2>. DEFINE p == Policy(m, persona)
              q == Policy(n, persona)
              e == EffectiveEnvelope(n, persona)
  <2>1. Crisis.cash = 200 /\ Crisis.position = 150 /\ Crisis.turnover = 150
    BY DEF Crisis
  <2>2. n.sure \in Int /\ n.sure <= n.sure /\ n.regime = n.regime /\ (Emergency(n) => Emergency(n))
    BY <1>1 DEF Detection
  <2>3. /\ q.cash >= Least({e.cash, 350}) /\ q.position <= Most({e.position, 80})
        /\ q.turnover <= Most({e.turnover, 50})
        /\ Emergency(n) => /\ q.cash >= 200 /\ q.position <= 150 /\ q.turnover <= 150
                           /\ q.added = 0 /\ q.suppress
    BY <1>1, <2>2, Tightens, SMTT(90)
  <2>4. ASSUME n.regime = m.regime, n.sure < m.sure
        PROVE  Tighter(q, p) \/ (p.emergency /\ ~q.emergency)
    <3>1. m.sure \in Int /\ n.sure <= m.sure
      BY <1>1, <2>2, <2>4 DEF Detection
    <3>2. CASE Emergency(m) => Emergency(n)
      BY <1>1, <2>4, <3>1, <3>2, Tightens, ZenonT(40)
    <3>3. CASE Emergency(m) /\ ~Emergency(n)
      <4>1. p.emergency = EffectiveEnvelope(m, persona).emergency /\ q.emergency = e.emergency
        BY PolicyIs
      <4>2. EffectiveEnvelope(m, persona).emergency = Emergency(m) /\ e.emergency = Emergency(n)
        BY DEF EffectiveEnvelope
      <4>. QED BY <3>3, <4>1, <4>2
    <3>. QED BY <3>2, <3>3
  <2>. QED BY <2>1, <2>3, <2>4
<1>2. Detection(market) /\ Detection(market)' => OnlyTightened(market, market')
  BY <1>1 DEF Detection
<1>. QED BY <1>2, MarketTyped, PTL DEF DoubtOnlyTightens

-----------------------------------------------------------------------------
(* Parts of a whole, rounded.                                              *)

LEMMA RoundedShifts ==
  ASSUME NEW d \in Nat \ {0}, NEW n \in Int, NEW k \in Int
  PROVE  Rounded(n + k * d, d) = Rounded(n, d) + k
BY Z3 DEF Rounded

LEMMA RoundedIsNear ==
  ASSUME NEW d \in Nat \ {0}, NEW n \in Int
  PROVE  /\ Rounded(n, d) \in Int
         /\ 2 * (d * Rounded(n, d)) <= 2 * n + d /\ 2 * n - d <= 2 * (d * Rounded(n, d))
BY Z3 DEF Rounded

LEMMA RoundedIsNatural ==
  ASSUME NEW d \in Nat \ {0}, NEW n \in Nat
  PROVE  Rounded(n, d) \in Nat
<1>1. Rounded(0 * d, d) = 0
  BY RoundedWhole
<1>2. 0 * d = 0
  OBVIOUS
<1>3. 0 <= n /\ 0 \in Int /\ n \in Int
  OBVIOUS
<1>4. Rounded(0, d) <= Rounded(n, d) /\ Rounded(n, d) \in Int
  BY <1>3, RoundedKeepsOrder
<1>. QED BY <1>1, <1>2, <1>4

LEMMA Cancels ==
  ASSUME NEW k \in Nat \ {0}, NEW a \in Int, NEW b \in Int, k * a <= k * b
  PROVE  a <= b
<1>. SUFFICES ASSUME a > b PROVE FALSE
  OBVIOUS
<1>1. PICK j \in Nat : a = b + 1 + j
  <2>1. a - b - 1 \in Nat /\ a = b + 1 + (a - b - 1)
    OBVIOUS
  <2>. QED BY <2>1
<1>2. k * (b + 1 + j) = k * b + k + k * j
  BY Z3
<1>3. k * j \in Nat /\ k * b \in Int
  BY Z3
<1>. QED BY <1>1, <1>2, <1>3

\* Shares of an amount by weight come to the amount, but for half a part each.
LEMMA SharesAddUp ==
  ASSUME NEW S, IsFiniteSet(S), NEW w, NEW D \in Nat, NEW r, \A x \in S : w[x] \in Nat,
         Added(w, S) # 0, \A x \in S : r[x] = Rounded(w[x] * D, Added(w, S))
  PROVE  /\ \A x \in S : r[x] \in Nat
         /\ 2 * Added(r, S) <= 2 * D + Cardinality(S) /\ 2 * D <= 2 * Added(r, S) + Cardinality(S)
<1>. DEFINE W == Added(w, S)
            n == Cardinality(S)
            R == Added(r, S)
            f == [x \in S |-> (2 * D) * w[x]]
            g == [x \in S |-> (2 * W) * r[x]]
<1>1. W \in Nat \ {0} /\ n \in Nat
  BY SumIsNatural, FS_CardinalityType DEF Added
<1>2. ASSUME NEW x \in S
      PROVE  /\ r[x] \in Nat /\ f[x] \in Int /\ g[x] \in Int
             /\ g[x] <= f[x] + W /\ f[x] <= g[x] + W
  <2>. DEFINE p == w[x] * D
  <2>1. p \in Nat /\ r[x] = Rounded(p, W)
    <3>1. w[x] \in Nat
      OBVIOUS
    <3>. QED BY <3>1
  <2>2. f[x] = 2 * p /\ g[x] = 2 * (W * r[x])
    <3>1. w[x] \in Nat
      OBVIOUS
    <3>2. r[x] \in Int
      BY <2>1, <1>1, RoundedIsNatural
    <3>. HIDE DEF W
    <3>. QED BY <1>1, <3>1, <3>2
  <2>. HIDE DEF p, W
  <2>3. r[x] \in Nat
    BY <1>1, <2>1, RoundedIsNatural
  <2>4. 2 * (W * r[x]) <= 2 * p + W /\ 2 * p - W <= 2 * (W * r[x])
    BY <1>1, <2>1, RoundedIsNear
  <2>5. W * r[x] \in Int
    BY <1>1, <2>3
  <2>. HIDE DEF f, g
  <2>. QED BY <1>1, <2>1, <2>2, <2>3, <2>4, <2>5
<1>3. \A x \in S : r[x] \in Int /\ w[x] \in Int
  BY <1>2
<1>4. R \in Int /\ W \in Int /\ 2 * D \in Int /\ 2 * W \in Int
  BY <1>1, <1>3, SumType DEF Added
<1>5. SumFunctionOnSet(f, S) = (2 * D) * W /\ SumFunctionOnSet(g, S) = (2 * W) * R
  <2>1. \A x \in S : f[x] = (2 * D) * w[x] /\ g[x] = (2 * W) * r[x]
    OBVIOUS
  <2>. HIDE DEF f, g, W, R
  <2>2. SumFunctionOnSet(f, S) = (2 * D) * SumFunctionOnSet(w, S)
    BY <1>3, <1>4, <2>1, SumOfTimes
  <2>3. SumFunctionOnSet(g, S) = (2 * W) * SumFunctionOnSet(r, S)
    BY <1>3, <1>4, <2>1, SumOfTimes
  <2>. QED BY <2>2, <2>3 DEF W, R, Added
<1>. HIDE DEF f, g, W, R, n
<1>6. (2 * W) * R <= (2 * D) * W + W * n /\ (2 * D) * W <= (2 * W) * R + W * n
  <2>1. SumFunctionOnSet(g, S) <= SumFunctionOnSet(f, S) + W * Cardinality(S)
    BY <1>1, <1>2, SumGrowsAtMost
  <2>2. SumFunctionOnSet(f, S) <= SumFunctionOnSet(g, S) + W * Cardinality(S)
    BY <1>1, <1>2, SumGrowsAtMost
  <2>. QED BY <1>5, <2>1, <2>2 DEF n
<1>7. W * (2 * R) <= W * (2 * D + n) /\ W * (2 * D) <= W * (2 * R + n)
  <2>1. /\ (2 * W) * R = W * (2 * R) /\ (2 * D) * W = W * (2 * D)
        /\ W * (2 * D + n) = W * (2 * D) + W * n /\ W * (2 * R + n) = W * (2 * R) + W * n
    BY <1>1, <1>4
  <2>. QED BY <1>6, <2>1
<1>8. 2 * R <= 2 * D + n /\ 2 * D <= 2 * R + n
  <2>1. 2 * R \in Int /\ 2 * D + n \in Int /\ 2 * D \in Int /\ 2 * R + n \in Int
    BY <1>1, <1>4
  <2>. QED BY <1>1, <1>7, <2>1, Cancels
<1>. QED BY <1>2, <1>8 DEF R, n

\* Scaled down by h of a, no size grows, and the sizes of a part come to their
\* part, but for half a part each.
LEMMA ScaledFits ==
  ASSUME NEW S, IsFiniteSet(S), NEW r, \A x \in S : r[x] \in Nat,
         NEW h \in Nat, NEW a \in Nat \ {0}, h <= a,
         NEW z, \A x \in S : z[x] = Rounded(r[x] * h, a)
  PROVE  /\ \A x \in S : z[x] \in Nat /\ z[x] <= r[x]
         /\ 2 * (a * Added(z, S)) <= 2 * (h * Added(r, S)) + a * Cardinality(S)
<1>. DEFINE n == Cardinality(S)
            f == [x \in S |-> (2 * h) * r[x]]
            g == [x \in S |-> (2 * a) * z[x]]
<1>1. n \in Nat
  BY FS_CardinalityType
<1>2. ASSUME NEW x \in S
      PROVE  /\ z[x] \in Nat /\ z[x] <= r[x] /\ f[x] \in Int /\ g[x] \in Int
             /\ g[x] <= f[x] + a
  <2>. DEFINE q == r[x]
              p == q * h
  <2>1. q \in Nat
    OBVIOUS
  <2>2. f[x] = 2 * h * q /\ g[x] = 2 * a * z[x] /\ z[x] = Rounded(p, a)
    BY <2>1
  <2>. HIDE DEF q, f, g
  <2>3. p \in Nat /\ q * a \in Nat /\ p <= q * a
    BY <2>1, ProductKeepsOrder
  <2>. HIDE DEF p
  <2>4. z[x] \in Nat
    BY <2>2, <2>3, RoundedIsNatural
  <2>5. Rounded(p, a) <= q
    <3>. DEFINE all == q * a
    <3>1. Rounded(all, a) = q
      BY <2>1, RoundedWhole
    <3>2. p \in Int /\ all \in Int /\ p <= all
      BY <2>3
    <3>. HIDE DEF all
    <3>3. Rounded(p, a) <= Rounded(all, a)
      BY <3>2, RoundedKeepsOrder
    <3>. QED BY <3>1, <3>3
  <2>6. 2 * (a * z[x]) <= 2 * p + a
    <3>1. p \in Int
      BY <2>3
    <3>2. 2 * (a * Rounded(p, a)) <= 2 * p + a
      BY <3>1, RoundedIsNear
    <3>. QED BY <2>2, <3>2
  <2>7. f[x] = 2 * p
    BY <2>1, <2>2 DEF p
  <2>8. a * z[x] \in Int /\ g[x] = 2 * (a * z[x])
    BY <2>2, <2>4
  <2>. QED BY <2>2, <2>3, <2>4, <2>5, <2>6, <2>7, <2>8 DEF q
<1>3. \A x \in S : r[x] \in Int /\ z[x] \in Int
  BY <1>2
<1>4. 2 * h \in Int /\ 2 * a \in Int
  OBVIOUS
<1>5. SumFunctionOnSet(f, S) = (2 * h) * Added(r, S) /\ SumFunctionOnSet(g, S) = (2 * a) * Added(z, S)
  <2>1. \A x \in S : f[x] = (2 * h) * r[x] /\ g[x] = (2 * a) * z[x]
    OBVIOUS
  <2>. HIDE DEF f, g
  <2>2. SumFunctionOnSet(f, S) = (2 * h) * SumFunctionOnSet(r, S)
    BY <1>3, <1>4, <2>1, SumOfTimes
  <2>3. SumFunctionOnSet(g, S) = (2 * a) * SumFunctionOnSet(z, S)
    BY <1>3, <1>4, <2>1, SumOfTimes
  <2>. QED BY <2>2, <2>3 DEF Added
<1>6. Added(r, S) \in Int /\ Added(z, S) \in Int
  BY <1>3, SumType DEF Added
<1>. HIDE DEF f, g, n
<1>7. SumFunctionOnSet(g, S) <= SumFunctionOnSet(f, S) + a * Cardinality(S)
  BY <1>2, SumGrowsAtMost
<1>8. (2 * a) * Added(z, S) = 2 * (a * Added(z, S)) /\ (2 * h) * Added(r, S) = 2 * (h * Added(r, S))
  BY <1>6
<1>. QED BY <1>2, <1>5, <1>7, <1>8

\* Fractions are ordered.
LEMMA FractionsCompare ==
  ASSUME NEW u \in Nat, NEW v \in Nat, NEW w \in Nat,
         NEW c \in Nat \ {0}, NEW d \in Nat \ {0}, NEW e \in Nat \ {0}
  PROVE  /\ u * d <= v * c \/ v * c <= u * d
         /\ u * c <= u * c
         /\ v * c <= u * d /\ u * e <= w * c => v * e <= w * d
<1>1. /\ u * d \in Nat /\ v * c \in Nat /\ u * c \in Nat /\ u * e \in Nat /\ w * c \in Nat
      /\ v * e \in Nat /\ w * d \in Nat
  OBVIOUS
<1>2. ASSUME v * c <= u * d, u * e <= w * c PROVE v * e <= w * d
  <2>1. (v * c) * e <= (u * d) * e
    BY <1>1, <1>2, ProductKeepsOrder
  <2>2. (u * e) * d <= (w * c) * d
    BY <1>1, <1>2, ProductKeepsOrder
  <2>3. (v * c) * e = c * (v * e) /\ (u * d) * e = (u * e) * d /\ (w * c) * d = c * (w * d)
    OBVIOUS
  <2>4. (u * e) * d \in Int /\ c * (v * e) \in Int /\ c * (w * d) \in Int
    BY <1>1
  <2>5. c * (v * e) <= c * (w * d)
    BY <2>1, <2>2, <2>3, <2>4
  <2>6. v * e \in Int /\ w * d \in Int
    BY <1>1
  <2>. QED BY <2>5, <2>6, Cancels
<1>. QED BY <1>1, <1>2

\* Of finitely many fractions one is least.
LEMMA LeastFraction ==
  ASSUME NEW S, IsFiniteSet(S), S # {}, NEW h, NEW a,
         \A s \in S : h[s] \in Nat /\ a[s] \in Nat \ {0}
  PROVE  \E s \in S : \A t \in S : h[s] * a[t] <= h[t] * a[s]
<1>. DEFINE Has(T) == T = {} \/ \E s \in T : \A t \in T : h[s] * a[t] <= h[t] * a[s]
            G == {T \in SUBSET S : Has(T)}
<1>1. {} \in G
  OBVIOUS
<1>2. ASSUME NEW T \in SUBSET S, T \in G, NEW x \in S \ T PROVE T \union {x} \in G
  <2>. DEFINE U == T \union {x}
  <2>0. h[x] * a[x] <= h[x] * a[x]
    BY FractionsCompare
  <2>1. CASE T = {}
    <3>1. Has(U)
      BY <2>0, <2>1
    <3>. QED BY <3>1
  <2>2. CASE T # {}
    <3>1. PICK s \in T : \A t \in T : h[s] * a[t] <= h[t] * a[s]
      BY <1>2, <2>2
    <3>2. h[s] * a[x] <= h[x] * a[s] \/ h[x] * a[s] <= h[s] * a[x]
      BY FractionsCompare
    <3>3. CASE h[s] * a[x] <= h[x] * a[s]
      <4>1. \A t \in U : h[s] * a[t] <= h[t] * a[s]
        BY <3>1, <3>3
      <4>2. Has(U)
        BY <4>1
      <4>. HIDE DEF Has
      <4>. QED BY <4>2
    <3>4. CASE h[x] * a[s] <= h[s] * a[x]
      <4>1. ASSUME NEW t \in T PROVE h[x] * a[t] <= h[t] * a[x]
        BY <3>1, <3>4, FractionsCompare
      <4>2. \A t \in U : h[x] * a[t] <= h[t] * a[x]
        BY <2>0, <4>1
      <4>3. Has(U)
        BY <4>2
      <4>. HIDE DEF Has
      <4>. QED BY <4>3
    <3>. QED BY <3>2, <3>3, <3>4
  <2>. QED BY <2>1, <2>2
<1>. HIDE DEF G
<1>3. S \in G
  BY <1>1, <1>2, SetInduction
<1>. QED BY <1>3 DEF G

-----------------------------------------------------------------------------
(* The envelope of advice.                                                 *)

LEMMA UpperIsAbove ==
  ASSUME NEW user \in Nat, NEW regime \in Nat, NEW crisis \in Nat, NEW system \in Nat, NEW emergency \in BOOLEAN,
         NEW k \in Nat, k <= user, k <= regime, k <= crisis, k <= system
  PROVE  Upper(user, regime, crisis, system, emergency) >= k
<1>. DEFINE S == {user, regime, system}
            b == IF user <= regime THEN IF user <= system THEN user ELSE system
                 ELSE IF regime <= system THEN regime ELSE system
            c == IF b <= crisis THEN b ELSE crisis
<1>1. Least(S) = b
  BY DEF Least
<1>2. Least(S \cup {crisis}) = c
  BY DEF Least
<1>3. Least(S \cup {}) = b
  BY <1>1
<1>. QED BY <1>1, <1>2, <1>3 DEF Upper

\* Where a limit is at least 5 %, no sector is capped below 3.5 %.
LEMMA CapIs ==
  ASSUME NEW m, Detection(m), NEW limit \in 50..1000
  PROVE  SectorCap(limit, m) \in Nat /\ SectorCap(limit, m) >= 35
<1>. DEFINE part == SectorMultiplier[m.regime.name]
            whole == limit * part
            reduced == Rounded(whole, 100)
            b == Emergency(m)
            crisis == Crisis.sector
            system == 700
<1>1. part \in Nat /\ part >= 70
  BY DEF SectorMultiplier, RegimeConstraints, Detection, Regime
<1>. HIDE DEF part
<1>2. whole \in Nat /\ whole >= 3500
  <2>1. 50 * 70 <= limit * part /\ limit * part \in Nat
    BY <1>1, ProductKeepsOrder
  <2>. QED BY <2>1
<1>. HIDE DEF whole
<1>3. reduced \in Nat /\ reduced >= 35
  BY <1>2 DEF Rounded
<1>. HIDE DEF reduced
<1>4. b \in BOOLEAN
  BY ZenonT(30) DEF Emergency
<1>5. crisis \in Nat /\ crisis >= 35 /\ system \in Nat /\ system >= 35
  BY DEF Crisis
<1>6. limit \in Nat /\ limit >= 35
  OBVIOUS
<1>. HIDE DEF b, crisis, system
<1>7. Upper(limit, reduced, crisis, system, b) \in Nat /\ Upper(limit, reduced, crisis, system, b) >= 35
  BY <1>3, <1>4, <1>5, <1>6, UpperIs, UpperIsAbove
<1>. QED BY <1>7 DEF SectorCap, reduced, whole, part, crisis, system, b

LEMMA EnvelopeFits ==
  ASSUME NEW m, Detection(m), NEW persona, persona.cash \in Nat, persona.position \in Nat \ {0}
  PROVE  LET e == EffectiveEnvelope(m, persona)
         IN  /\ e.cash \in Nat /\ e.position \in Nat \ {0}
             /\ DOMAIN e.sector = DOMAIN SectorLimits
             /\ \A s \in DOMAIN SectorLimits :
                  /\ e.sector[s] = SectorCap(SectorLimits[s], m)
                  /\ e.sector[s] \in Nat /\ e.sector[s] >= 35
<1>. DEFINE e == EffectiveEnvelope(m, persona)
            b == Emergency(m)
            most == m.regime.position
            kept == m.regime.cash
            keep == Crisis.cash
            crisis == Crisis.position
            system == 400
<1>1. b \in BOOLEAN
  BY Zenon DEF Emergency
<1>2. most \in Nat \ {0} /\ kept \in Nat /\ keep \in Nat /\ crisis \in Nat \ {0} /\ system \in Nat \ {0}
  BY DEF Detection, Regime, Crisis
<1>3. /\ e.cash = Lower(persona.cash, kept, keep, 0, b)
      /\ e.position = Upper(persona.position, most, crisis, system, b)
      /\ e.sector = [s \in DOMAIN SectorLimits |-> SectorCap(SectorLimits[s], m)]
  BY DEF EffectiveEnvelope
<1>. HIDE DEF e, b, most, kept, keep, crisis, system
<1>4. Lower(persona.cash, kept, keep, 0, b) \in Nat
  BY <1>1, <1>2, LowerIs
<1>5. Upper(persona.position, most, crisis, system, b) \in Nat
  BY <1>1, <1>2, UpperIs
<1>6. Upper(persona.position, most, crisis, system, b) >= 1
  BY <1>1, <1>2, UpperIsAbove
<1>7. ASSUME NEW s \in DOMAIN SectorLimits
      PROVE  SectorCap(SectorLimits[s], m) \in Nat /\ SectorCap(SectorLimits[s], m) >= 35
  <2>1. SectorLimits[s] \in 50..1000
    BY AdviceAssumption
  <2>. QED BY <2>1, CapIs, SMTT(20)
<1>8. /\ e.cash \in Nat /\ e.position \in Nat \ {0}
      /\ DOMAIN e.sector = DOMAIN SectorLimits
      /\ \A s \in DOMAIN SectorLimits :
           /\ e.sector[s] = SectorCap(SectorLimits[s], m)
           /\ e.sector[s] \in Nat /\ e.sector[s] >= 35
  BY <1>3, <1>4, <1>5, <1>6, <1>7
<1>. QED BY <1>8 DEF e

-----------------------------------------------------------------------------
(* The books, and a purchase on advice.                                    *)

Books == [cash : Nat, cost : [Stocks -> Nat]]

SectorCost(s, b) == Added(b.cost, {x \in Stocks : SectorOf[x] = s})

LEMMA BooksTyped ==
  ASSUME NEW b \in Books
  PROVE  /\ Total(b) \in Nat /\ CashPart(b) \in Nat /\ IsFiniteSet(Stocks)
         /\ \A s : SectorCost(s, b) \in Nat /\ SectorPart(s, b) \in Nat
<1>1. IsFiniteSet(Stocks) /\ b.cash \in Nat /\ \A x \in Stocks : b.cost[x] \in Nat
  BY AdviceAssumption DEF Books
<1>2. Added(b.cost, Stocks) \in Nat
  BY <1>1, SumIsNatural DEF Added
<1>3. Total(b) \in Nat
  BY <1>1, <1>2 DEF Total
<1>4. ASSUME NEW v \in Nat PROVE Part(v, b) \in Nat
  BY <1>3, RoundedIsNatural DEF Part, Hundred
<1>5. ASSUME NEW s PROVE SectorCost(s, b) \in Nat
  <2>. DEFINE S == {x \in Stocks : SectorOf[x] = s}
  <2>1. IsFiniteSet(S) /\ \A x \in S : b.cost[x] \in Nat
    BY <1>1, FS_Subset
  <2>2. Added(b.cost, S) \in Nat
    BY <2>1, SumIsNatural DEF Added
  <2>. QED BY <2>2 DEF SectorCost
<1>6. CashPart(b) \in Nat
  BY <1>1, <1>4 DEF CashPart, Hundred
<1>7. ASSUME NEW s PROVE SectorPart(s, b) = Part(SectorCost(s, b), b)
  BY DEF SectorPart, SectorCost
<1>8. ASSUME NEW s PROVE SectorPart(s, b) \in Nat
  BY <1>4, <1>5, <1>7
<1>. QED BY <1>1, <1>3, <1>5, <1>6, <1>8

\* What an amount of at most that many parts adds to a share, and takes from it.
LEMMA AmountMoves ==
  ASSUME NEW T \in Nat \ {0}, NEW v \in Nat, NEW size \in Nat, NEW amount \in Nat, Hundred * amount <= size * T
  PROVE  /\ Rounded((v + amount) * Hundred, T) <= Rounded(v * Hundred, T) + size
         /\ amount <= v => Rounded(v * Hundred, T) <= Rounded((v - amount) * Hundred, T) + size
<1>. DEFINE p == v * Hundred
            q == size * T
            more == (v + amount) * Hundred
            less == (v - amount) * Hundred
<1>1. p \in Nat /\ q \in Nat /\ more \in Int /\ less \in Int /\ more <= p + q /\ p <= less + q
  BY DEF Hundred
<1>2. Rounded(p + q, T) = Rounded(p, T) + size /\ Rounded(less + q, T) = Rounded(less, T) + size
  <2>1. p \in Int /\ less \in Int /\ size \in Int
    BY <1>1
  <2>. HIDE DEF p, less
  <2>2. Rounded(p + size * T, T) = Rounded(p, T) + size
    BY <2>1, RoundedShifts, Zenon
  <2>3. Rounded(less + size * T, T) = Rounded(less, T) + size
    BY <2>1, RoundedShifts, Zenon
  <2>. QED BY <2>2, <2>3
<1>. HIDE DEF p, q, more, less
<1>3. p + q \in Int /\ less + q \in Int
  BY <1>1
<1>4. Rounded(more, T) <= Rounded(p + q, T)
  BY <1>1, <1>3, RoundedKeepsOrder
<1>5. Rounded(p, T) <= Rounded(less + q, T)
  BY <1>1, <1>3, RoundedKeepsOrder
<1>. QED BY <1>2, <1>4, <1>5 DEF p, more, less

LEMMA PurchaseMoves ==
  ASSUME NEW b \in Books, NEW x \in Stocks, NEW size \in Nat, NEW amount,
         amount = (size * Total(b)) \div Hundred, 0 < amount, amount <= b.cash,
         NEW c, c = [cash |-> b.cash - amount, cost |-> [b.cost EXCEPT ![x] = @ + amount]]
  PROVE  /\ c \in Books /\ size > 0
         /\ CashPart(b) <= CashPart(c) + size
         /\ SectorPart(SectorOf[x], c) <= SectorPart(SectorOf[x], b) + size
         /\ \A s : s # SectorOf[x] => SectorPart(s, c) = SectorPart(s, b)
<1>. DEFINE T == Total(b)
            q == size * T
<1>1. T \in Nat /\ q \in Nat /\ IsFiniteSet(Stocks)
  BY BooksTyped
<1>2. amount \in Nat \ {0} /\ Hundred * amount <= q
  <2>. HIDE DEF T, q
  <2>1. amount = q \div 1000
    BY DEF T, q, Hundred
  <2>. QED BY <1>1, <2>1 DEF Hundred
<1>3. size > 0 /\ T \in Nat \ {0}
  <2>. HIDE DEF T
  <2>1. q # 0
    BY <1>1, <1>2 DEF Hundred
  <2>. QED BY <1>1, <2>1
<1>4. c \in Books
  BY <1>2 DEF Books
<1>5. /\ \A y \in Stocks : b.cost[y] \in Int /\ c.cost[y] \in Int
      /\ c.cost[x] = b.cost[x] + amount /\ \A y \in Stocks \ {x} : c.cost[y] = b.cost[y]
      /\ b.cash \in Nat /\ c.cash = b.cash - amount
  BY <1>2, <1>4 DEF Books
<1>6. ASSUME NEW S, S \subseteq Stocks
      PROVE  Added(c.cost, S) = Added(b.cost, S) + (IF x \in S THEN amount ELSE 0)
  <2>. DEFINE R == S \ {x}
  <2>1. IsFiniteSet(R) /\ IsFiniteSet(S) /\ x \notin R /\ R \subseteq Stocks
    BY <1>1, <1>6, FS_Subset
  <2>2. \A y \in R : b.cost[y] = c.cost[y]
    BY <1>5, <1>6
  <2>3. SumFunctionOnSet(b.cost, R) = SumFunctionOnSet(c.cost, R)
    <3>. HIDE DEF R
    <3>. QED BY <2>1, <2>2, SumExtends
  <2>4. SumFunctionOnSet(b.cost, R) \in Int
    BY <1>5, <2>1, SumType
  <2>5. CASE x \in S
    <3>1. S = R \union {x}
      BY <2>5
    <3>. HIDE DEF R
    <3>0. \A y \in R \union {x} : b.cost[y] \in Int /\ c.cost[y] \in Int
      BY <1>5, <1>6, <3>1
    <3>2. SumFunctionOnSet(c.cost, S) = SumFunctionOnSet(c.cost, R) + c.cost[x]
      BY <2>1, <3>0, <3>1, SumInsert
    <3>3. SumFunctionOnSet(b.cost, S) = SumFunctionOnSet(b.cost, R) + b.cost[x]
      BY <2>1, <3>0, <3>1, SumInsert
    <3>. QED BY <1>2, <1>5, <2>3, <2>4, <2>5, <3>2, <3>3 DEF Added
  <2>6. CASE x \notin S
    <3>1. S = R
      BY <2>6
    <3>. HIDE DEF R
    <3>. QED BY <2>3, <2>4, <2>6, <3>1 DEF Added
  <2>. QED BY <2>5, <2>6
<1>7. Total(c) = T
  <2>1. Added(c.cost, Stocks) = Added(b.cost, Stocks) + amount
    BY <1>6
  <2>2. Added(b.cost, Stocks) \in Int
    BY <1>1, <1>5, SumType DEF Added
  <2>. QED BY <1>2, <1>5, <2>1, <2>2 DEF Total
<1>8. ASSUME NEW v PROVE Part(v, b) = Rounded(v * Hundred, T) /\ Part(v, c) = Rounded(v * Hundred, T)
  BY <1>3, <1>7 DEF Part
<1>9. ASSUME NEW s
      PROVE  SectorCost(s, c) = SectorCost(s, b) + (IF SectorOf[x] = s THEN amount ELSE 0)
  <2>. DEFINE S == {y \in Stocks : SectorOf[y] = s}
  <2>1. S \subseteq Stocks /\ (x \in S <=> SectorOf[x] = s)
    OBVIOUS
  <2>. HIDE DEF S
  <2>2. Added(c.cost, S) = Added(b.cost, S) + (IF SectorOf[x] = s THEN amount ELSE 0)
    BY <1>6, <2>1
  <2>. QED BY <2>2 DEF S, SectorCost
<1>. HIDE DEF T, q
<1>10. CashPart(b) <= CashPart(c) + size
  <2>1. Rounded(b.cash * Hundred, T) <= Rounded((b.cash - amount) * Hundred, T) + size
    BY <1>2, <1>3, <1>5, AmountMoves DEF q
  <2>2. CashPart(b) = Rounded(b.cash * Hundred, T) /\ CashPart(c) = Rounded(c.cash * Hundred, T)
    BY <1>3, <1>7, <1>8 DEF CashPart, T
  <2>. QED BY <1>5, <2>1, <2>2
<1>11. \A s : SectorCost(s, b) \in Nat
  BY BooksTyped
<1>12. \A s : SectorPart(s, b) = Rounded(SectorCost(s, b) * Hundred, T)
              /\ SectorPart(s, c) = Rounded(SectorCost(s, c) * Hundred, T)
  BY <1>8 DEF SectorPart, SectorCost
<1>13. SectorPart(SectorOf[x], c) <= SectorPart(SectorOf[x], b) + size
  <2>. DEFINE s == SectorOf[x]
              v == SectorCost(s, b)
  <2>1. v \in Nat /\ SectorCost(s, c) = v + amount
    BY <1>9, <1>11
  <2>. HIDE DEF v, s
  <2>2. Rounded((v + amount) * Hundred, T) <= Rounded(v * Hundred, T) + size
    BY <1>2, <1>3, <2>1, AmountMoves DEF q
  <2>. QED BY <1>12, <2>1, <2>2 DEF v, s
<1>14. ASSUME NEW s, s # SectorOf[x] PROVE SectorPart(s, c) = SectorPart(s, b)
  <2>1. SectorCost(s, c) = SectorCost(s, b)
    <3>1. SectorCost(s, b) \in Nat /\ SectorCost(s, c) = SectorCost(s, b) + 0
      BY <1>9, <1>11, <1>14
    <3>. QED BY <3>1
  <2>. QED BY <1>12, <2>1
<1>. QED BY <1>3, <1>4, <1>10, <1>13, <1>14

-----------------------------------------------------------------------------
(* The review of an idea.                                                  *)

LEMMA EnvelopeOfBalanced ==
  ASSUME NEW m, Detection(m)
  PROVE  LET e == EffectiveEnvelope(m, Balanced)
         IN  /\ e.cash \in Nat /\ e.position \in Nat \ {0}
             /\ \A s \in DOMAIN SectorLimits :
                  /\ e.sector[s] = SectorCap(SectorLimits[s], m)
                  /\ e.sector[s] \in Nat /\ e.sector[s] >= 35
<1>1. Balanced.cash \in Nat /\ Balanced.position \in Nat \ {0}
  BY DEF Balanced
<1>. HIDE DEF Balanced
<1>. QED BY <1>1, EnvelopeFits

LEMMA EnvelopeOfPersona ==
  ASSUME NEW m, Detection(m), NEW persona \in Personas
  PROVE  LET e == EffectiveEnvelope(m, persona)
         IN  /\ e.cash \in Nat /\ e.position \in Nat \ {0}
             /\ \A s \in DOMAIN SectorLimits :
                  /\ e.sector[s] = SectorCap(SectorLimits[s], m)
                  /\ e.sector[s] \in Nat /\ e.sector[s] >= 35
<1>1. persona.cash \in Nat /\ persona.position \in Nat \ {0}
  BY AdviceAssumption
<1>. QED BY <1>1, EnvelopeFits

LEMMA SectorsAreCapped ==
  ASSUME NEW x \in Stocks
  PROVE  /\ SectorOf[x] \in DOMAIN SectorLimits /\ Recorded(x) \in DOMAIN SectorLimits
         /\ Known(x) => Recorded(x) = SectorOf[x]
BY AdviceAssumption DEF Recorded

\* At the cost of the holdings.
LEMMA AtCost ==
  ASSUME NEW b \in Books
  PROVE  [b EXCEPT !.cost = [y \in Stocks |-> Rounded(@[y] * 100, 100)]] = b
<1>1. ASSUME NEW y \in Stocks PROVE Rounded(b.cost[y] * 100, 100) = b.cost[y]
  BY RoundedWhole DEF Books
<1>2. [y \in Stocks |-> Rounded(b.cost[y] * 100, 100)] = [y \in Stocks |-> b.cost[y]]
  BY <1>1
<1>3. [y \in Stocks |-> b.cost[y]] = b.cost
  BY DEF Books
<1>4. [y \in Stocks |-> Rounded(b.cost[y] * 100, 100)] = b.cost
  BY <1>2, <1>3
<1>5. [b EXCEPT !.cost = b.cost] = b
  BY DEF Books
<1>. QED BY <1>4, <1>5

LEMMA ApprovedIsLow ==
  ASSUME NEW fit, NEW check, NEW current, NEW cap, NEW alloc, NEW most,
         Decision(fit, Risk(current, cap, alloc, most), check) = "APPROVE"
  PROVE  10 * current < 5 * cap
BY DEF Decision, Risk

LEMMA LeastShare == Least(EqualShares) = 10
BY DEF Least, EqualShares

\* What a simulation looked at.
LEMMA SimulatedIs ==
  ASSUME NEW basket, NEW each, NEW e
  PROVE  LET after == CashPart(books) - Cardinality(basket) * each
             found(s) == SectorStatus(SectorPart(s, books) + Cardinality(InSector(s, basket)) * each, e.sector[s])
         IN  /\ ~(after < 0) /\ (\A x \in basket : found(Recorded(x)) # "FAIL") => Simulated(basket, each, e) # "FAIL"
             /\ Simulated(basket, each, e) # "FAIL" =>
                  ~(after < 0) /\ \A x \in basket : found(Recorded(x)) # "FAIL"
             /\ Simulated(basket, each, e) = "PASS" =>
                  ~(after < e.cash) /\ \A x \in basket : found(Recorded(x)) # "WARNING"
<1>. DEFINE after == CashPart(books) - Cardinality(basket) * each
            found(s) == SectorStatus(SectorPart(s, books) + Cardinality(InSector(s, basket)) * each, e.sector[s])
            impacts == {found(s) : s \in {Recorded(x) : x \in basket}}
<1>1. Simulated(basket, each, e) =
        IF after < 0 \/ "FAIL" \in impacts THEN "FAIL"
        ELSE IF after < e.cash \/ "WARNING" \in impacts THEN "WARNING"
        ELSE "PASS"
  BY DEF Simulated
<1>. HIDE DEF after, found
<1>2. ASSUME NEW name PROVE name \in impacts <=> \E x \in basket : found(Recorded(x)) = name
  OBVIOUS
<1>. HIDE DEF impacts
<1>4. /\ ~(after < 0) /\ (\A x \in basket : found(Recorded(x)) # "FAIL") => Simulated(basket, each, e) # "FAIL"
      /\ Simulated(basket, each, e) # "FAIL" =>
           ~(after < 0) /\ \A x \in basket : found(Recorded(x)) # "FAIL"
      /\ Simulated(basket, each, e) = "PASS" =>
           ~(after < e.cash) /\ \A x \in basket : found(Recorded(x)) # "WARNING"
  BY <1>1, <1>2
<1>. QED BY <1>4 DEF after, found

LEMMA StatusIs ==
  ASSUME NEW after \in Nat, NEW cap \in Nat, cap >= 35
  PROVE  /\ SectorStatus(after, cap) # "FAIL" <=> after < cap
         /\ SectorStatus(after, cap) # "FAIL" /\ SectorStatus(after, cap) # "WARNING" => 10 * after < 8 * cap
BY DEF SectorStatus

LEMMA IdeaFits ==
  ASSUME books \in Books, Detection(market), NEW x \in Stocks, NEW persona \in Personas, Known(x),
         Reviewed(x, books, persona).decision = "APPROVE"
  PROVE  Simulated({x}, Least(EqualShares), EffectiveEnvelope(market, Balanced)) # "FAIL"
           \/ CashPart(books) < Least(EqualShares)
<1>. DEFINE e == EffectiveEnvelope(market, Balanced)
            f == EffectiveEnvelope(market, persona)
            s == SectorOf[x]
            current == SectorPart(s, books)
            cap == SectorCap(SectorLimits[s], market)
<1>1. e.sector[s] = cap /\ f.sector[s] = cap /\ cap \in Nat /\ cap >= 35
  BY EnvelopeOfBalanced, EnvelopeOfPersona, SectorsAreCapped
<1>2. current \in Nat /\ CashPart(books) \in Nat
  BY BooksTyped
<1>3. 10 * current < 5 * cap
  <2>1. \E fit, check, alloc, most :
          Decision(fit, Risk(current, f.sector[s], alloc, most), check) = "APPROVE"
    BY Zenon DEF Reviewed
  <2>. HIDE DEF current, cap, f, s
  <2>. QED BY <1>1, <2>1, ApprovedIsLow
<1>4. Recorded(x) = s
  BY SectorsAreCapped
<1>5. InSector(s, {x}) = {x} /\ Cardinality({x}) = 1
  BY <1>4, FS_Singleton DEF InSector
<1>6. CASE CashPart(books) >= 10
  <2>1. SectorStatus(current + 1 * 10, e.sector[s]) # "FAIL"
    <3>. HIDE DEF current, cap, e, s
    <3>1. current + 10 \in Nat /\ current + 10 < cap
      BY <1>1, <1>2, <1>3
    <3>. QED BY <1>1, <3>1, StatusIs
  <2>2. ~(CashPart(books) - 1 * 10 < 0)
    BY <1>2, <1>6
  <2>. HIDE DEF current, cap, e, f, s
  <2>3. Simulated({x}, 10, e) # "FAIL"
    BY <1>4, <1>5, <2>1, <2>2, SimulatedIs DEF current
  <2>. QED BY <2>3, LeastShare DEF e
<1>7. CASE ~(CashPart(books) >= 10)
  BY <1>2, <1>7, LeastShare
<1>. QED BY <1>6, <1>7

-----------------------------------------------------------------------------
(* The construction of a basket.                                           *)

LEMMA SumOfConstant ==
  ASSUME NEW S, IsFiniteSet(S), NEW k \in Nat, NEW f, \A x \in S : f[x] = k
  PROVE  SumFunctionOnSet(f, S) = Cardinality(S) * k
<1>. DEFINE G == {T \in SUBSET S : SumFunctionOnSet(f, T) = Cardinality(T) * k}
<1>1. {} \in G
  <2>1. Cardinality({}) = 0
    BY FS_EmptySet
  <2>. QED BY <2>1, SumOfNone
<1>2. ASSUME NEW T \in SUBSET S, T \in G, NEW x \in S \ T PROVE T \union {x} \in G
  <2>1. IsFiniteSet(T)
    BY FS_Subset
  <2>2. Cardinality(T) \in Nat /\ Cardinality(T \union {x}) = Cardinality(T) + 1
    BY <2>1, FS_CardinalityType, FS_AddElement
  <2>3. SumFunctionOnSet(f, T \union {x}) = SumFunctionOnSet(f, T) + f[x]
    <3>1. \A y \in T \union {x} : f[y] \in Int
      OBVIOUS
    <3>2. x \notin T
      OBVIOUS
    <3>. HIDE DEF G
    <3>. QED BY <2>1, <3>1, <3>2, SumInsert
  <2>4. (Cardinality(T) + 1) * k = Cardinality(T) * k + k
    BY <2>2
  <2>. QED BY <1>2, <2>2, <2>3, <2>4
<1>. HIDE DEF G
<1>3. S \in G
  BY <1>1, <1>2, SetInduction
<1>. QED BY <1>3 DEF G

\* What is left to buy in a sector.
LeftIn(s, left) == {y \in left : SectorOf[y] = s}

\* What the portfolio will hold of a sector when what is left of the sizes is bought.
Filled(b, z, s, left) == SectorPart(s, b) + Added(z, LeftIn(s, left))

CashCovers(b, e, z, left) ==
  Added(z, left) + e.cash <= CashPart(b) + Cardinality(DOMAIN z)

SectorsFit(b, e, z, left) ==
  \A x \in DOMAIN z : z[x] > 0 =>
    Filled(b, z, SectorOf[x], left) <= e.sector[SectorOf[x]] + Cardinality(DOMAIN z)

SectorsAtEase(b, e, z, left) ==
  \A x \in DOMAIN z : 10 * Filled(b, z, SectorOf[x], left) < 8 * e.sector[SectorOf[x]]

LEMMA BasketIsFinite ==
  ASSUME NEW basket \in Baskets
  PROVE  /\ basket \subseteq Stocks /\ IsFiniteSet(basket)
         /\ Cardinality(basket) \in Nat /\ Cardinality(basket) \in 1..1000
<1>1. basket \subseteq Stocks /\ Cardinality(basket) \in 1..1000 /\ IsFiniteSet(Stocks)
  BY AdviceAssumption
<1>2. IsFiniteSet(basket)
  BY <1>1, FS_Subset
<1>. QED BY <1>1, <1>2

LEMMA ConstructedFits ==
  ASSUME books \in Books, Detection(market), NEW basket \in Baskets,
         NEW a, a = Constructed(basket), NEW e, e = EffectiveEnvelope(market, Balanced)
  PROVE  /\ a.kind = "constructed" /\ a.limits = e /\ DOMAIN a.sizes = basket /\ a.sizes \in [basket -> Nat]
         /\ a.status = "PASS" => CashCovers(books, e, a.sizes, basket)
         /\ a.known /\ a.status # "FAIL" => SectorsFit(books, e, a.sizes, basket)
         /\ a.known /\ a.status = "PASS" => SectorsAtEase(books, e, a.sizes, basket)
<1>1. PICK each \in Nat : a = [kind |-> "constructed", sizes |-> [x \in basket |-> each], limits |-> e,
                               known |-> AllKnown(basket), status |-> Simulated(basket, each, e)]
  <2>. DEFINE passing == {each \in EqualShares : Simulated(basket, each, e) = "PASS"}
              each == IF passing = {} THEN Least(EqualShares) ELSE Most(passing)
  <2>1. each \in Nat
    <3>1. CASE passing = {}
      BY <3>1, LeastShare
    <3>2. CASE passing # {}
      <4>1. passing \subseteq 0..50
        BY DEF EqualShares
      <4>. HIDE DEF passing
      <4>2. PICK m \in passing : \A k \in passing : m >= k
        BY <3>2, <4>1, MaxOfNumbers
      <4>3. m \in passing /\ \A k \in passing : k <= m
        BY <4>1, <4>2
      <4>4. Most(passing) \in passing
        BY <4>3 DEF Most
      <4>5. each = Most(passing)
        BY <3>2
      <4>6. Most(passing) \in 0..50
        BY <4>1, <4>4
      <4>. QED BY <4>5, <4>6
    <3>. QED BY <3>1, <3>2
  <2>2. a = [kind |-> "constructed", sizes |-> [x \in basket |-> each], limits |-> e,
             known |-> AllKnown(basket), status |-> Simulated(basket, each, e)]
    BY DEF Constructed
  <2>. HIDE DEF each
  <2>. QED BY <2>1, <2>2
<1>. DEFINE z == a.sizes
            n == Cardinality(basket)
<1>2. /\ z = [x \in basket |-> each] /\ DOMAIN z = basket /\ a.status = Simulated(basket, each, e)
      /\ a.known = AllKnown(basket)
  BY <1>1
<1>3. IsFiniteSet(basket) /\ n \in Nat /\ basket \subseteq Stocks /\ CashPart(books) \in Nat /\ e.cash \in Nat
  BY BasketIsFinite, BooksTyped, EnvelopeOfBalanced
<1>4. ASSUME NEW S, S \subseteq basket
      PROVE  Added(z, S) = Cardinality(S) * each /\ Cardinality(S) \in Nat
  <2>1. IsFiniteSet(S) /\ \A x \in S : z[x] = each
    BY <1>2, <1>3, <1>4, FS_Subset
  <2>. HIDE DEF z
  <2>. QED BY <2>1, SumOfConstant, FS_CardinalityType DEF Added
<1>5. ASSUME a.status = "PASS" PROVE CashCovers(books, e, z, basket)
  <2>1. ~(CashPart(books) - n * each < e.cash)
    BY <1>2, <1>5, SimulatedIs, Zenon
  <2>2. Added(z, basket) = n * each /\ n * each \in Nat
    BY <1>3, <1>4
  <2>. HIDE DEF z, n
  <2>3. Added(z, basket) + e.cash <= CashPart(books) + n
    BY <1>3, <2>1, <2>2
  <2>. QED BY <1>2, <2>3 DEF CashCovers, n
<1>6. ASSUME a.known, a.status # "FAIL", NEW x \in basket
      PROVE  LET f == Filled(books, z, SectorOf[x], basket)
             IN  /\ f \in Nat /\ f <= e.sector[SectorOf[x]] /\ e.sector[SectorOf[x]] \in Nat
                 /\ a.status = "PASS" => 10 * f < 8 * e.sector[SectorOf[x]]
  <2>. DEFINE s == SectorOf[x]
              S == InSector(s, basket)
              current == SectorPart(s, books)
              after == current + Cardinality(S) * each
  <2>1. \A y \in basket : Recorded(y) = SectorOf[y]
    BY <1>2, <1>3, <1>6, SectorsAreCapped DEF AllKnown
  <2>2. S = LeftIn(s, basket) /\ S \subseteq basket
    BY <2>1 DEF InSector, LeftIn
  <2>3. Filled(books, z, s, basket) = after
    BY <1>4, <2>2 DEF Filled
  <2>4. Recorded(x) = s
    BY <2>1
  <2>5. e.sector[s] \in Nat /\ e.sector[s] >= 35
    BY <1>3, EnvelopeOfBalanced, SectorsAreCapped
  <2>6. after \in Nat
    <3>1. current \in Nat /\ Cardinality(S) \in Nat
      BY <1>4, <2>2, BooksTyped
    <3>. HIDE DEF current, S
    <3>. QED BY <3>1
  <2>. DEFINE told(t) == SectorStatus(SectorPart(t, books) + Cardinality(InSector(t, basket)) * each, e.sector[t])
  <2>7. /\ told(Recorded(x)) # "FAIL"
        /\ a.status = "PASS" => told(Recorded(x)) # "WARNING"
    <3>1. Simulated(basket, each, e) # "FAIL"
      BY <1>2, <1>6
    <3>2. told(Recorded(x)) # "FAIL"
      BY <3>1, SimulatedIs, Zenon
    <3>3. Simulated(basket, each, e) = "PASS" => told(Recorded(x)) # "WARNING"
      BY SimulatedIs, Zenon
    <3>. QED BY <1>2, <3>2, <3>3
  <2>8. told(s) = SectorStatus(after, e.sector[s])
    OBVIOUS
  <2>. HIDE DEF after, s, told
  <2>9. after <= e.sector[s] /\ (a.status = "PASS" => 10 * after < 8 * e.sector[s])
    BY <2>4, <2>5, <2>6, <2>7, <2>8, StatusIs
  <2>. QED BY <2>3, <2>5, <2>6, <2>9 DEF s
<1>7. ASSUME a.known, a.status # "FAIL" PROVE SectorsFit(books, e, z, basket)
  <2>. SUFFICES ASSUME NEW x \in basket
                PROVE  Filled(books, z, SectorOf[x], basket) <= e.sector[SectorOf[x]] + Cardinality(basket)
    BY <1>2 DEF SectorsFit
  <2>. HIDE DEF z
  <2>. QED BY <1>3, <1>6, <1>7
<1>8. ASSUME a.known, a.status = "PASS" PROVE SectorsAtEase(books, e, z, basket)
  <2>. SUFFICES ASSUME NEW x \in basket
                PROVE  10 * Filled(books, z, SectorOf[x], basket) < 8 * e.sector[SectorOf[x]]
    BY <1>2 DEF SectorsAtEase
  <2>. QED BY <1>6, <1>8
<1>9. a.kind = "constructed" /\ a.limits = e /\ z \in [basket -> Nat]
  BY <1>1
<1>. QED BY <1>2, <1>5, <1>7, <1>8, <1>9

Price(b, size) == (size * Total(b)) \div Hundred
After(b, x, amount) == [cash |-> b.cash - amount, cost |-> [b.cost EXCEPT ![x] = @ + amount]]

\* x, left of the sizes z, is bought from the books b, which leaves c.
IsPurchase(b, c, z, left, x, e) ==
  /\ b \in Books /\ DOMAIN z \subseteq Stocks /\ z \in [DOMAIN z -> Nat]
  /\ left \subseteq DOMAIN z /\ x \in left
  /\ 0 < Price(b, z[x]) /\ Price(b, z[x]) <= b.cash /\ c = After(b, x, Price(b, z[x]))
  /\ e.cash \in Nat /\ \A s \in DOMAIN SectorLimits : e.sector[s] \in Nat

\* What is bought was left to buy.
LEMMA PurchaseKeeps ==
  ASSUME NEW b, NEW c, NEW z, NEW left, NEW x, NEW e, IsPurchase(b, c, z, left, x, e)
  PROVE  /\ c \in Books /\ z[x] > 0
         /\ CashCovers(b, e, z, left) => CashCovers(c, e, z, left \ {x})
         /\ SectorsFit(b, e, z, left) => SectorsFit(c, e, z, left \ {x})
         /\ SectorsAtEase(b, e, z, left) => SectorsAtEase(c, e, z, left \ {x})
<1>. SUFFICES ASSUME NEW basket, basket = DOMAIN z, b \in Books, basket \subseteq Stocks, z \in [basket -> Nat],
                     left \subseteq basket, x \in left,
                     NEW amount, amount = Price(b, z[x]), 0 < amount, amount <= b.cash, c = After(b, x, amount),
                     e.cash \in Nat, \A s \in DOMAIN SectorLimits : e.sector[s] \in Nat
              PROVE  /\ c \in Books /\ z[x] > 0
                     /\ CashCovers(b, e, z, left) => CashCovers(c, e, z, left \ {x})
                     /\ SectorsFit(b, e, z, left) => SectorsFit(c, e, z, left \ {x})
                     /\ SectorsAtEase(b, e, z, left) => SectorsAtEase(c, e, z, left \ {x})
  BY DEF IsPurchase
<1>. DEFINE size == z[x]
            rest == left \ {x}
            n == Cardinality(basket)
<1>1. x \in Stocks /\ size \in Nat /\ DOMAIN z = basket
  OBVIOUS
<1>2. /\ c \in Books /\ size > 0 /\ CashPart(b) <= CashPart(c) + size
      /\ SectorPart(SectorOf[x], c) <= SectorPart(SectorOf[x], b) + size
      /\ \A s : s # SectorOf[x] => SectorPart(s, c) = SectorPart(s, b)
  <2>. HIDE DEF size
  <2>1. amount = (size * Total(b)) \div Hundred
    BY DEF size, Price
  <2>2. c = [cash |-> b.cash - amount, cost |-> [b.cost EXCEPT ![x] = @ + amount]]
    BY DEF After
  <2>. QED BY <1>1, <2>1, <2>2, PurchaseMoves
<1>3. IsFiniteSet(basket) /\ n \in Nat
  BY AdviceAssumption, FS_Subset, FS_CardinalityType
<1>4. ASSUME NEW S, S \subseteq basket
      PROVE  /\ Added(z, S) \in Nat /\ Added(z, S \ {x}) \in Nat
             /\ Added(z, S) = Added(z, S \ {x}) + (IF x \in S THEN size ELSE 0)
  <2>. DEFINE R == S \ {x}
  <2>1. IsFiniteSet(R) /\ IsFiniteSet(S) /\ x \notin R
    BY <1>3, <1>4, FS_Subset
  <2>2. \A y \in S \union {x} : z[y] \in Nat /\ z[y] \in Int
    BY <1>4
  <2>3. SumFunctionOnSet(z, S) \in Nat /\ SumFunctionOnSet(z, R) \in Nat
    <3>1. \A y \in S : z[y] \in Nat
      BY <2>2
    <3>2. \A y \in R : z[y] \in Nat
      BY <2>2
    <3>. HIDE DEF R
    <3>. QED BY <2>1, <3>1, <3>2, SumIsNatural
  <2>4. CASE x \in S
    <3>1. S = R \union {x}
      BY <2>4
    <3>2. \A y \in R \union {x} : z[y] \in Int
      BY <2>2
    <3>. HIDE DEF R
    <3>3. SumFunctionOnSet(z, R \union {x}) = SumFunctionOnSet(z, R) + z[x]
      BY <2>1, <3>2, SumInsert
    <3>. QED BY <2>3, <2>4, <3>1, <3>3 DEF Added, R
  <2>5. CASE x \notin S
    <3>1. S = R
      BY <2>5
    <3>2. Added(z, S) = Added(z, R) /\ Added(z, R) \in Nat
      BY <2>3, <3>1 DEF Added
    <3>. HIDE DEF R
    <3>3. Added(z, S) = Added(z, R) + 0
      BY <3>2
    <3>. QED BY <2>5, <3>2, <3>3 DEF R
  <2>. QED BY <2>4, <2>5
<1>5. /\ CashPart(b) \in Nat /\ CashPart(c) \in Nat
      /\ \A s : SectorPart(s, b) \in Nat /\ SectorPart(s, c) \in Nat
  BY <1>2, BooksTyped
<1>6. ASSUME NEW s
      PROVE  Filled(b, z, s, left) \in Nat /\ Filled(c, z, s, rest) \in Nat
             /\ Filled(c, z, s, rest) <= Filled(b, z, s, left)
  <2>. DEFINE S == LeftIn(s, left)
              T == LeftIn(s, rest)
  <2>1. S \subseteq basket /\ T = S \ {x} /\ (x \in S <=> SectorOf[x] = s)
    BY DEF LeftIn
  <2>. HIDE DEF S, T
  <2>2. /\ Added(z, S) \in Nat /\ Added(z, T) \in Nat
        /\ Added(z, S) = Added(z, T) + (IF x \in S THEN size ELSE 0)
    BY <1>4, <2>1
  <2>3. Filled(b, z, s, left) = SectorPart(s, b) + Added(z, S) /\ Filled(c, z, s, rest) = SectorPart(s, c) + Added(z, T)
    BY DEF Filled, S, T
  <2>. HIDE DEF size, rest
  <2>4. CASE SectorOf[x] = s
    BY <1>1, <1>2, <1>5, <2>1, <2>2, <2>3, <2>4
  <2>5. CASE SectorOf[x] # s
    BY <1>1, <1>2, <1>5, <2>1, <2>2, <2>3, <2>5
  <2>. QED BY <2>4, <2>5
<1>7. ASSUME CashCovers(b, e, z, left) PROVE CashCovers(c, e, z, rest)
  <2>1. Added(z, left) \in Nat /\ Added(z, rest) \in Nat /\ Added(z, left) = Added(z, rest) + size
    BY <1>4
  <2>2. Added(z, left) + e.cash <= CashPart(b) + n
    BY <1>1, <1>7 DEF CashCovers
  <2>. HIDE DEF size, rest, n
  <2>3. Added(z, rest) + e.cash <= CashPart(c) + n
    BY <1>1, <1>2, <1>3, <1>5, <2>1, <2>2
  <2>. QED BY <1>1, <2>3 DEF CashCovers, n
<1>8. ASSUME NEW y \in basket PROVE e.sector[SectorOf[y]] \in Nat
  <2>1. SectorOf[y] \in DOMAIN SectorLimits
    BY SectorsAreCapped
  <2>. QED BY <2>1
<1>. HIDE DEF rest
<1>9. ASSUME SectorsFit(b, e, z, left) PROVE SectorsFit(c, e, z, rest)
  <2>. SUFFICES ASSUME NEW y \in basket, z[y] > 0
                PROVE  Filled(c, z, SectorOf[y], rest) <= e.sector[SectorOf[y]] + n
    BY <1>1 DEF SectorsFit
  <2>1. Filled(b, z, SectorOf[y], left) <= e.sector[SectorOf[y]] + n
    BY <1>1, <1>9 DEF SectorsFit
  <2>. HIDE DEF n
  <2>. QED BY <1>3, <1>6, <1>8, <2>1
<1>10. ASSUME SectorsAtEase(b, e, z, left) PROVE SectorsAtEase(c, e, z, rest)
  <2>. SUFFICES ASSUME NEW y \in basket
                PROVE  10 * Filled(c, z, SectorOf[y], rest) < 8 * e.sector[SectorOf[y]]
    BY <1>1 DEF SectorsAtEase
  <2>1. 10 * Filled(b, z, SectorOf[y], left) < 8 * e.sector[SectorOf[y]]
    BY <1>1, <1>10 DEF SectorsAtEase
  <2>. QED BY <1>6, <1>8, <2>1
<1>. QED BY <1>2, <1>7, <1>9, <1>10 DEF rest

-----------------------------------------------------------------------------
(* The sizing of a basket.                                                 *)

LEMMA AnalysisTyped ==
  ASSUME NEW x \in Stocks
  PROVE  /\ Analyses[x].signal \in {"BUY", "ACCUMULATE", "WATCH", "HOLD", "REDUCE", "SELL"}
         /\ Analyses[x].confidence \in {"high", "medium", "low"}
         /\ Analyses[x].ta \in 0..100 /\ Analyses[x].fa \in 0..100 /\ Analyses[x].alignment \in Int
<1>1. Analyses[x] \in [signal : {"BUY", "ACCUMULATE", "WATCH", "HOLD", "REDUCE", "SELL"},
                       confidence : {"high", "medium", "low"}, ta : 0..100, fa : 0..100, alignment : Int]
  BY AdviceAssumption
<1>. QED BY <1>1

LEMMA ScoreTyped ==
  ASSUME books \in Books, NEW x \in Stocks, NEW e,
         \A s \in DOMAIN SectorLimits : e.sector[s] \in Nat
  PROVE  Score(x, e) \in Nat
<1>. DEFINE s == Recorded(x)
            current == SectorPart(s, books)
            cap == e.sector[s]
            alloc == HeldPart(x, books)
            fit == Fit(x, current, cap)
            priority == Priority(fit, alloc, e.position, PolicyCheck(current, cap, alloc, e.position),
                                 Risk(current, cap, alloc, e.position))
<1>1. current \in Nat /\ cap \in Nat
  BY BooksTyped, SectorsAreCapped
<1>2. fit \in 0..10
  <2>. DEFINE signal == SignalFit[Analyses[x].signal]
              room == IF 2 * (cap - current) >= cap THEN 1 ELSE IF 5 * (cap - current) < cap THEN -1 ELSE 0
              all == 5 + signal + Analyses[x].alignment + room
  <2>1. signal \in Int
    BY AnalysisTyped DEF SignalFit
  <2>2. Analyses[x].alignment \in Int
    BY AnalysisTyped
  <2>3. room \in Int
    OBVIOUS
  <2>4. fit = Clamped(all, 0, 10)
    BY DEF Fit
  <2>. HIDE DEF fit, signal, room
  <2>5. all \in Int
    BY <2>1, <2>2, <2>3
  <2>. HIDE DEF all
  <2>. QED BY <2>4, <2>5, ClampedIs
<1>3. priority \in {"HIGH", "MEDIUM", "LOW"}
  <2>. HIDE DEF fit, alloc, current, cap
  <2>. QED BY Zenon DEF Priority
<1>4. PriorityPoints[priority] \in Nat
  <2>. HIDE DEF priority
  <2>. QED BY <1>3 DEF PriorityPoints
<1>5. SignalPoints[Analyses[x].signal] \in Nat
  BY AnalysisTyped DEF SignalPoints
<1>6. ConfidencePoints[Analyses[x].confidence] \in Nat
  BY AnalysisTyped DEF ConfidencePoints
<1>7. Score(x, e) = 4 * SignalPoints[Analyses[x].signal] + ConfidencePoints[Analyses[x].confidence]
                      + 2 * (IF fit = 0 THEN 5 ELSE fit) + PriorityPoints[priority]
  BY DEF Score
<1>. HIDE DEF fit, priority
<1>. QED BY <1>2, <1>4, <1>5, <1>6, <1>7

\* Raw sizes come to what may be deployed, but for the rounding.
LEMMA ProportionalFits ==
  ASSUME books \in Books, NEW basket \in Baskets, NEW timing \in [basket -> Multipliers], NEW D \in Nat,
         NEW e, \A s \in DOMAIN SectorLimits : e.sector[s] \in Nat,
         NEW r, r = Proportional(basket, timing, D, e)
  PROVE  /\ r \in [basket -> Nat]
         /\ 2 * Added(r, basket) <= 2 * D + Cardinality(basket)
<1>. DEFINE weight == [x \in basket |-> Score(x, e) * timing[x]]
            all == Added(weight, basket)
            n == Cardinality(basket)
<1>1. IsFiniteSet(basket) /\ n \in Nat \ {0} /\ basket \subseteq Stocks
  BY BasketIsFinite
<1>2. \A x \in basket : weight[x] \in Nat
  <2>. SUFFICES ASSUME NEW x \in basket PROVE Score(x, e) * timing[x] \in Nat
    OBVIOUS
  <2>1. Score(x, e) \in Nat
    BY <1>1, ScoreTyped
  <2>2. timing[x] \in Nat
    BY AdviceAssumption, ZenonT(40)
  <2>. QED BY <2>1, <2>2
<1>3. r = [x \in basket |-> IF all = 0 THEN Rounded(D, n) ELSE Rounded(weight[x] * D, all)]
  BY DEF Proportional
<1>4. CASE all # 0
  <2>1. \A x \in basket : r[x] = Rounded(weight[x] * D, all)
    BY <1>3, <1>4
  <2>. HIDE DEF weight
  <2>2. (\A x \in basket : r[x] \in Nat) /\ 2 * Added(r, basket) <= 2 * D + n
    BY <1>1, <1>2, <1>4, <2>1, SharesAddUp
  <2>3. r \in [basket -> Nat]
    BY <1>3, <2>2
  <2>. QED BY <2>2, <2>3
<1>5. CASE all = 0
  <2>. DEFINE each == Rounded(D, n)
  <2>. HIDE DEF n
  <2>1. each \in Nat /\ 2 * (n * each) <= 2 * D + n
    BY <1>1, RoundedIsNatural, RoundedIsNear
  <2>2. \A x \in basket : r[x] = each
    BY <1>3, <1>5
  <2>. HIDE DEF each
  <2>3. Added(r, basket) = n * each
    BY <1>1, <2>1, <2>2, SumOfConstant DEF Added, n
  <2>4. r \in [basket -> Nat]
    BY <1>3, <2>1, <2>2
  <2>. QED BY <2>1, <2>3, <2>4 DEF n
<1>. QED BY <1>4, <1>5

\* The scale, where a sector has room: no sector is asked for more than that.
LEMMA ScaleIs ==
  ASSUME NEW r, NEW basket, NEW e, IsFiniteSet(basket),
         \A x \in basket : /\ Headroom(Recorded(x), e) \in Int
                           /\ Added(r, InSector(Recorded(x), basket)) \in Nat,
         NEW k, k = Scale(r, basket, e)
  PROVE  \/ k = <<0, 1>>
         \/ /\ k[1] \in Nat /\ k[2] \in Nat \ {0} /\ k[1] <= k[2]
            /\ \A x \in basket :
                 LET s == Recorded(x)
                     want == Added(r, InSector(s, basket))
                 IN  want > 0 => /\ Headroom(s, e) > 0
                                 /\ (want <= Headroom(s, e) \/ k[1] * want <= Headroom(s, e) * k[2])
<1>. DEFINE want(s) == Added(r, InSector(s, basket))
            h(s) == Headroom(s, e)
            sectors == {Recorded(x) : x \in basket}
            touched == {s \in sectors : want(s) > 0}
            short == {s \in touched : want(s) > h(s)}
            Tightest(s) == \A t \in short : h(s) * want(t) <= h(t) * want(s)
            least == CHOOSE s \in short : Tightest(s)
<1>1. k = IF \E s \in touched : h(s) <= 0 THEN <<0, 1>>
          ELSE IF short = {} THEN <<1, 1>> ELSE <<h(least), want(least)>>
  BY DEF Scale
<1>2. \A s \in sectors : h(s) \in Int /\ want(s) \in Nat
  OBVIOUS
<1>3. IsFiniteSet(short)
  <2>1. IsFiniteSet(sectors)
    <3>. DEFINE f == [x \in basket |-> Recorded(x)]
    <3>1. f \in Surjection(basket, sectors)
      BY DEF Surjection
    <3>. HIDE DEF f, sectors
    <3>. QED BY <3>1, FS_Surjection
  <2>2. short \subseteq sectors
    OBVIOUS
  <2>. QED BY <2>1, <2>2, FS_Subset
<1>4. \A s \in touched : s \in sectors /\ want(s) > 0
  OBVIOUS
<1>5. \A s \in short : s \in touched /\ want(s) > h(s)
  OBVIOUS
<1>6. \A s \in touched : want(s) > h(s) => s \in short
  OBVIOUS
<1>7. \A x \in basket : Recorded(x) \in sectors /\ (want(Recorded(x)) > 0 => Recorded(x) \in touched)
  OBVIOUS
<1>. DEFINE Fair == /\ k[1] \in Nat /\ k[2] \in Nat \ {0} /\ k[1] <= k[2]
                    /\ \A s \in touched : h(s) > 0 /\ (want(s) <= h(s) \/ k[1] * want(s) <= h(s) * k[2])
<1>. HIDE DEF want, h, sectors, touched, short
<1>8. CASE \E s \in touched : h(s) <= 0
  BY <1>1, <1>8
<1>9. CASE (\A s \in touched : ~(h(s) <= 0)) /\ short = {}
  <2>1. k = <<1, 1>>
    BY <1>1, <1>9
  <2>2. \A s \in touched : h(s) > 0 /\ want(s) <= h(s)
    BY <1>2, <1>4, <1>6, <1>9
  <2>3. Fair
    BY <2>1, <2>2
  <2>. QED BY <1>7, <2>3 DEF want, h
<1>10. CASE (\A s \in touched : ~(h(s) <= 0)) /\ short # {}
  <2>1. \A s \in touched : h(s) \in Nat \ {0} /\ want(s) \in Nat \ {0}
    BY <1>2, <1>4, <1>10
  <2>2. \E s \in short : Tightest(s)
    <3>. DEFINE H == [s \in short |-> h(s)]
                A == [s \in short |-> want(s)]
    <3>1. \A s \in short : H[s] = h(s) /\ A[s] = want(s)
      OBVIOUS
    <3>. HIDE DEF H, A
    <3>2. \A s \in short : H[s] \in Nat /\ A[s] \in Nat \ {0}
      BY <1>5, <2>1, <3>1
    <3>3. PICK s \in short : \A t \in short : H[s] * A[t] <= H[t] * A[s]
      BY <1>3, <1>10, <3>2, LeastFraction
    <3>4. Tightest(s)
      BY <3>1, <3>3
    <3>. QED BY <3>4
  <2>3. least \in short /\ Tightest(least)
    <3>. HIDE DEF Tightest
    <3>. QED BY <2>2
  <2>. HIDE DEF least
  <2>4. k = <<h(least), want(least)>>
    BY <1>1, <1>10 DEF least
  <2>5. least \in touched /\ want(least) > h(least)
    BY <1>5, <2>3
  <2>6. k[1] \in Nat /\ k[2] \in Nat \ {0} /\ k[1] <= k[2]
    BY <2>1, <2>4, <2>5
  <2>7. ASSUME NEW s \in touched
        PROVE  h(s) > 0 /\ (want(s) <= h(s) \/ k[1] * want(s) <= h(s) * k[2])
    <3>1. h(s) \in Nat \ {0} /\ want(s) \in Nat
      BY <2>1
    <3>2. CASE s \in short
      <4>1. h(least) * want(s) <= h(s) * want(least)
        BY <2>3, <3>2
      <4>. QED BY <2>4, <3>1, <4>1
    <3>3. CASE s \notin short
      BY <1>6, <3>1, <3>3
    <3>. QED BY <3>2, <3>3
  <2>8. Fair
    BY <2>6, <2>7
  <2>. QED BY <1>7, <2>8 DEF want, h
<1>. QED BY <1>8, <1>9, <1>10

\* A product divided by both its factors' common one.
LEMMA PartFits ==
  ASSUME NEW a \in Nat \ {0}, NEW k \in Nat, NEW z \in Nat, NEW w \in Nat, NEW h \in Nat, NEW n \in Nat,
         2 * (a * z) <= 2 * (k * w) + a * n, k * w <= h * a
  PROVE  2 * z <= 2 * h + n
<1>1. k * w \in Nat /\ h * a \in Nat /\ a * z \in Nat /\ a * n \in Nat /\ h * a = a * h
  OBVIOUS
<1>2. a * (2 * z) = 2 * (a * z) /\ a * (2 * h + n) = 2 * (a * h) + a * n
  OBVIOUS
<1>3. a * (2 * z) <= a * (2 * h + n)
  BY <1>1, <1>2
<1>4. 2 * z \in Int /\ 2 * h + n \in Int
  OBVIOUS
<1>. QED BY <1>3, <1>4, Cancels

LEMMA SizedFits ==
  ASSUME books \in Books, Detection(market), NEW basket \in Baskets, NEW timing \in [basket -> Multipliers],
         NEW a, a = Sized(basket, timing), NEW e, e = EffectiveEnvelope(market, Balanced)
  PROVE  /\ a.kind = "sized" /\ a.limits = e /\ DOMAIN a.sizes = basket /\ a.sizes \in [basket -> Nat]
         /\ a.status # "FAIL" => CashCovers(books, e, a.sizes, basket)
         /\ a.known /\ a.status # "FAIL" => SectorsFit(books, e, a.sizes, basket)
<1>. DEFINE D == Most({0, CashPart(books) - e.cash})
            r == Proportional(basket, timing, D, e)
            k == IF D = 0 THEN <<0, 1>> ELSE Scale(r, basket, e)
            z == [x \in basket |-> Rounded(r[x] * k[1], k[2])]
            n == Cardinality(basket)
<1>1. /\ a.kind = "sized" /\ a.limits = e /\ a.sizes = z /\ a.known = AllKnown(basket)
      /\ a.status = IF Added(z, basket) = 0 THEN "FAIL" ELSE IF k[1] < k[2] THEN "WARNING" ELSE "PASS"
  BY DEF Sized
<1>2. /\ IsFiniteSet(basket) /\ n \in Nat /\ basket \subseteq Stocks
      /\ CashPart(books) \in Nat /\ e.cash \in Nat
      /\ \A s \in DOMAIN SectorLimits : e.sector[s] \in Nat /\ e.sector[s] >= 35
      /\ \A s : SectorPart(s, books) \in Nat
  BY BasketIsFinite, BooksTyped, EnvelopeOfBalanced
<1>3. D \in Nat /\ (D > 0 => D + e.cash = CashPart(books))
  <2>1. D = IF 0 <= CashPart(books) - e.cash THEN CashPart(books) - e.cash ELSE 0
    BY <1>2, MostOfTwo
  <2>. HIDE DEF D
  <2>. QED BY <1>2, <2>1
<1>4. r \in [basket -> Nat] /\ 2 * Added(r, basket) <= 2 * D + n
  <2>. HIDE DEF D
  <2>. QED BY <1>2, <1>3, ProportionalFits
<1>5. ASSUME NEW x \in basket
      PROVE  Headroom(Recorded(x), e) \in Int /\ Added(r, InSector(Recorded(x), basket)) \in Nat
  <2>1. Headroom(Recorded(x), e) \in Int
    BY <1>2, SectorsAreCapped DEF Headroom
  <2>. HIDE DEF r
  <2>2. InSector(Recorded(x), basket) \subseteq basket
    BY DEF InSector
  <2>3. IsFiniteSet(InSector(Recorded(x), basket)) /\ \A y \in InSector(Recorded(x), basket) : r[y] \in Nat
    BY <1>2, <1>4, <2>2, FS_Subset
  <2>4. Added(r, InSector(Recorded(x), basket)) \in Nat
    BY <2>3, SumIsNatural DEF Added
  <2>. QED BY <2>1, <2>4
<1>. DEFINE Want(s) == Added(r, InSector(s, basket))
            Room(s) == Headroom(s, e)
            Fair == /\ k[1] \in Nat /\ k[2] \in Nat \ {0} /\ k[1] <= k[2]
                    /\ \A x \in basket :
                         Want(Recorded(x)) > 0 =>
                           /\ Room(Recorded(x)) > 0
                           /\ (Want(Recorded(x)) <= Room(Recorded(x))
                                 \/ k[1] * Want(Recorded(x)) <= Room(Recorded(x)) * k[2])
<1>6. k = <<0, 1>> \/ (D > 0 /\ Fair)
  <2>1. CASE D = 0
    BY <2>1
  <2>2. CASE D # 0
    <3>1. k = Scale(r, basket, e)
      BY <2>2
    <3>. HIDE DEF k, r, D
    <3>2. k = <<0, 1>> \/ Fair
      BY <1>2, <1>5, <3>1, ScaleIs
    <3>. QED BY <1>3, <2>2, <3>2
  <2>. QED BY <2>1, <2>2
<1>7. \A x \in basket : z[x] = Rounded(r[x] * k[1], k[2]) /\ r[x] \in Nat
  BY <1>4
<1>8. z = [x \in basket |-> z[x]]
  OBVIOUS
<1>. HIDE DEF D, r, k, z
<1>9. CASE k = <<0, 1>>
  <2>1. \A x \in basket : z[x] = 0
    <3>. SUFFICES ASSUME NEW x \in basket PROVE z[x] = 0
      OBVIOUS
    <3>1. r[x] * 0 = 0 /\ z[x] = Rounded(r[x] * 0, 1)
      BY <1>7, <1>9
    <3>2. Rounded(0, 1) = 0
      BY DEF Rounded
    <3>. QED BY <3>1, <3>2
  <2>2. Added(z, basket) = n * 0
    BY <1>2, <2>1, SumOfConstant DEF Added
  <2>3. a.status = "FAIL"
    BY <1>1, <1>2, <2>2
  <2>4. DOMAIN z = basket /\ z \in [basket -> Nat]
    BY <1>8, <2>1
  <2>. QED BY <1>1, <2>3, <2>4
<1>10. CASE D > 0 /\ Fair
  <2>0. k[1] \in Nat /\ k[2] \in Nat \ {0} /\ k[1] <= k[2]
    BY <1>10
  <2>1. \A x \in basket : z[x] \in Nat /\ z[x] <= r[x]
    <3>1. (\A x \in basket : r[x] \in Nat) /\ \A x \in basket : z[x] = Rounded(r[x] * k[1], k[2])
      BY <1>7
    <3>2. IsFiniteSet(basket)
      BY <1>2
    <3>. QED BY <2>0, <3>1, <3>2, ScaledFits
  <2>2. DOMAIN z = basket /\ z \in [basket -> Nat]
    BY <1>8, <2>1
  <2>3. ASSUME NEW S, S \subseteq basket
        PROVE  /\ Added(z, S) \in Nat /\ Added(r, S) \in Nat /\ Added(z, S) <= Added(r, S)
               /\ 2 * (k[2] * Added(z, S)) <= 2 * (k[1] * Added(r, S)) + k[2] * Cardinality(S)
               /\ Cardinality(S) \in Nat /\ Cardinality(S) <= n
    <3>1. IsFiniteSet(S) /\ \A x \in S : z[x] = Rounded(r[x] * k[1], k[2]) /\ r[x] \in Nat
      BY <1>2, <1>7, <2>3, FS_Subset
    <3>2. \A x \in S : z[x] \in Nat /\ z[x] \in Int /\ r[x] \in Int /\ z[x] <= r[x]
      BY <1>7, <2>1, <2>3
    <3>3. Added(z, S) \in Nat /\ Added(r, S) \in Nat
      BY <3>1, <3>2, SumIsNatural DEF Added
    <3>4. Added(z, S) <= Added(r, S)
      BY <3>1, <3>2, SumIsMonotone DEF Added
    <3>5. 2 * (k[2] * Added(z, S)) <= 2 * (k[1] * Added(r, S)) + k[2] * Cardinality(S)
      BY <2>0, <3>1, ScaledFits
    <3>6. Cardinality(S) \in Nat /\ Cardinality(S) <= n
      BY <1>2, <2>3, <3>1, FS_CardinalityType, FS_Subset
    <3>. QED BY <3>3, <3>4, <3>5, <3>6
  <2>4. CashCovers(books, e, z, basket)
    <3>1. Added(z, basket) \in Nat /\ Added(r, basket) \in Nat /\ Added(z, basket) <= Added(r, basket)
      BY <2>3
    <3>. HIDE DEF n
    <3>2. Added(z, basket) + e.cash <= CashPart(books) + n
      BY <1>2, <1>3, <1>4, <1>10, <3>1
    <3>. QED BY <2>2, <3>2 DEF CashCovers, n
  <2>5. ASSUME AllKnown(basket) PROVE SectorsFit(books, e, z, basket)
    <3>. SUFFICES ASSUME NEW x \in basket, z[x] > 0
                  PROVE  Filled(books, z, SectorOf[x], basket) <= e.sector[SectorOf[x]] + n
      BY <2>2 DEF SectorsFit
    <3>. DEFINE s == SectorOf[x]
                S == InSector(s, basket)
                want == Want(s)
                room == Room(s)
                got == Added(z, S)
    <3>1. \A y \in basket : Recorded(y) = SectorOf[y]
      BY <1>2, <2>5, SectorsAreCapped DEF AllKnown
    <3>2. S = LeftIn(s, basket) /\ S \subseteq basket /\ x \in S /\ Recorded(x) = s
      BY <3>1 DEF InSector, LeftIn
    <3>3. /\ got \in Nat /\ want \in Nat /\ got <= want
          /\ 2 * (k[2] * got) <= 2 * (k[1] * want) + k[2] * Cardinality(S)
          /\ Cardinality(S) \in Nat /\ Cardinality(S) <= n
      <4>. HIDE DEF S
      <4>. QED BY <2>3, <3>2 DEF S
    <3>4. want > 0
      <4>1. IsFiniteSet(S) /\ (\A y \in S : r[y] \in Nat) /\ {x} \subseteq S
        BY <1>2, <1>7, <3>2, FS_Subset
      <4>. HIDE DEF S
      <4>2. SumFunctionOnSet(r, {x}) <= SumFunctionOnSet(r, S)
        BY <4>1, SumOfPart
      <4>3. r[x] \in Nat /\ r[x] > 0
        BY <1>7, <2>1
      <4>4. SumFunctionOnSet(r, {x}) = r[x]
        BY <4>3, SumOfOne
      <4>5. want = SumFunctionOnSet(r, S)
        BY DEF Added, S
      <4>. HIDE DEF want
      <4>. QED BY <3>3, <4>2, <4>3, <4>4, <4>5
    <3>5. room > 0 /\ (want <= room \/ k[1] * want <= room * k[2])
      <4>. HIDE DEF want, room, s
      <4>. QED BY <1>10, <3>2, <3>4 DEF want, room
    <3>6. room = e.sector[s] - SectorPart(s, books) /\ room \in Int /\ e.sector[s] \in Nat /\ SectorPart(s, books) \in Nat
      BY <1>2, <3>2, SectorsAreCapped DEF Headroom
    <3>7. Filled(books, z, s, basket) = SectorPart(s, books) + got
      BY <3>2 DEF Filled
    <3>. HIDE DEF s, S, want, room, got, n
    <3>8. got <= room + n
      <4>1. CASE want <= room
        BY <1>2, <3>3, <3>6, <4>1
      <4>2. CASE k[1] * want <= room * k[2]
        <5>1. 2 * got <= 2 * room + Cardinality(S)
          <6>. DEFINE c == k[1]
                      d == k[2]
                      m == Cardinality(S)
          <6>1. /\ c \in Nat /\ d \in Nat \ {0} /\ m \in Nat /\ room \in Nat /\ got \in Nat /\ want \in Nat
                /\ 2 * (d * got) <= 2 * (c * want) + d * m /\ c * want <= room * d
            BY <2>0, <3>3, <3>5, <3>6, <4>2
          <6>. HIDE DEF c, d, m
          <6>2. 2 * got <= 2 * room + m
            BY <6>1, PartFits
          <6>. QED BY <6>2 DEF m
        <5>. QED BY <1>2, <3>3, <3>6, <5>1
      <4>. QED BY <3>5, <4>1, <4>2
    <3>9. Filled(books, z, s, basket) <= e.sector[s] + n
      BY <1>2, <3>3, <3>6, <3>7, <3>8
    <3>. QED BY <3>9 DEF s
  <2>. QED BY <1>1, <2>2, <2>4, <2>5
<1>. QED BY <1>6, <1>9, <1>10

-----------------------------------------------------------------------------
(* The risk budget.                                                        *)

LEMMA WorthTyped ==
  ASSUME NEW x \in Stocks
  PROVE  /\ Rounded(Expected(x), Most({1, RiskScore(x)})) \in Nat \ {0}
         /\ Analyses[x].ta + Analyses[x].fa < 39 => TooRisky(x)
<1>. DEFINE ta == Analyses[x].ta
            fa == Analyses[x].fa
            mean == Rounded(ta + fa, 2)
<1>1. ta \in 0..100 /\ fa \in 0..100
  BY AnalysisTyped
<1>. HIDE DEF ta, fa
<1>2. mean \in 0..100 /\ (ta + fa < 39 => mean <= 19)
  BY <1>1 DEF Rounded
<1>. HIDE DEF mean
<1>3. RiskScore(x) = OrElse(100 - mean, 50)
  BY DEF RiskScore, mean, ta, fa
<1>4. RiskScore(x) \in 1..100 /\ (ta + fa < 39 => RiskScore(x) > 80)
  BY <1>2, <1>3 DEF OrElse
<1>5. Most({1, RiskScore(x)}) \in 1..100
  <2>. DEFINE risk == RiskScore(x)
  <2>1. risk \in Int /\ 1 <= risk /\ risk <= 100
    BY <1>4
  <2>. HIDE DEF risk
  <2>2. Most({1, risk}) = IF 1 <= risk THEN risk ELSE 1
    BY <2>1, MostOfTwo
  <2>. QED BY <2>1, <2>2 DEF risk
<1>6. Expected(x) \in Nat /\ Expected(x) >= 1200
  <2>1. Expected(x) = 40 * OrElse(ta, 50) + 40 * OrElse(fa, 50)
                        + 20 * (IF Analyses[x].confidence = "high" THEN 85 ELSE 60)
    BY DEF Expected, ta, fa
  <2>2. OrElse(ta, 50) \in Nat /\ OrElse(fa, 50) \in Nat
    BY <1>1 DEF OrElse
  <2>. QED BY <2>1, <2>2
<1>7. Rounded(Expected(x), Most({1, RiskScore(x)})) \in Nat \ {0}
  <2>. DEFINE d == Most({1, RiskScore(x)})
              v == Expected(x)
  <2>. HIDE DEF d, v
  <2>1. d \in Nat \ {0} /\ d <= 100 /\ v \in Nat /\ v >= 1200
    BY <1>5, <1>6 DEF d, v
  <2>2. 1 * d = d /\ 1 \in Int /\ d \in Int /\ d <= v
    BY <2>1
  <2>3. Rounded(1 * d, d) = 1
    BY <2>1, <2>2, RoundedWhole
  <2>4. Rounded(d, d) <= Rounded(v, d) /\ Rounded(v, d) \in Int
    BY <2>1, <2>2, RoundedKeepsOrder
  <2>. QED BY <2>2, <2>3, <2>4 DEF d, v
<1>. QED BY <1>4, <1>7 DEF TooRisky, ta, fa

\* A sum of numbers that are not all 0 is not 0.
LEMMA SumIsPositive ==
  ASSUME NEW S, IsFiniteSet(S), NEW f, \A x \in S : f[x] \in Nat
  PROVE  Added(f, S) \in Nat /\ (Added(f, S) # 0 <=> \E x \in S : f[x] # 0)
<1>1. SumFunctionOnSet(f, S) \in Nat
  BY SumIsNatural
<1>2. ASSUME NEW x \in S, f[x] # 0 PROVE SumFunctionOnSet(f, S) # 0
  <2>1. {x} \subseteq S /\ f[x] \in Int
    OBVIOUS
  <2>2. SumFunctionOnSet(f, {x}) = f[x]
    BY <2>1, SumOfOne
  <2>3. SumFunctionOnSet(f, {x}) <= SumFunctionOnSet(f, S)
    BY <2>1, SumOfPart
  <2>4. f[x] \in Nat
    OBVIOUS
  <2>. QED BY <1>1, <1>2, <2>2, <2>3, <2>4
<1>3. ASSUME \A x \in S : f[x] = 0 PROVE SumFunctionOnSet(f, S) = 0
  <2>1. SumFunctionOnSet(f, S) = Cardinality(S) * 0
    BY <1>3, SumOfConstant
  <2>2. Cardinality(S) \in Nat
    BY FS_CardinalityType
  <2>. QED BY <2>1, <2>2
<1>. QED BY <1>1, <1>2, <1>3 DEF Added

LEMMA BudgetFits ==
  ASSUME NEW basket \in Baskets, NEW z, z = Budget(basket)
  PROVE  /\ DOMAIN z \subseteq basket
         /\ Added(z, DOMAIN z) <= Hundred + Cardinality(DOMAIN z)
         /\ \A x \in DOMAIN z : Analyses[x].ta + Analyses[x].fa < 39 => z[x] <= RiskyCap
         /\ BudgetStatus(basket) = "PASS" => Added(z, DOMAIN z) >= Hundred - Cardinality(DOMAIN z)
<1>. DEFINE among == Included(basket)
            m == Cardinality(among)
            worth == [x \in among |-> Rounded(Expected(x), Most({1, RiskScore(x)}))]
            raw == RawBudget(among)
            risky == {x \in among : TooRisky(x)}
            over == [x \in risky |-> Most({0, raw[x] - RiskyCap})]
            excess == Added(over, risky)
            free == Added(raw, among \ risky)
            capped == [x \in among |-> IF x \in risky THEN Least({raw[x], RiskyCap})
                                       ELSE raw[x] + Rounded(excess * raw[x], Most({1, free}))]
            full == [x \in among |-> Rounded(capped[x] * Hundred, Added(capped, among))]
<1>1. z = [x \in among |-> IF x \in risky THEN Least({full[x], RiskyCap}) ELSE full[x]]
  BY DEF Budget
<1>2. /\ among \subseteq basket /\ among \subseteq Stocks /\ IsFiniteSet(among) /\ m \in Nat /\ m <= 1000
      /\ IsFiniteSet(basket)
  <2>1. /\ basket \subseteq Stocks /\ IsFiniteSet(basket) /\ Cardinality(basket) \in Nat
        /\ Cardinality(basket) <= 1000
    BY BasketIsFinite
  <2>2. among \subseteq basket
    BY DEF Included
  <2>. HIDE DEF among
  <2>3. IsFiniteSet(among) /\ m \in Nat /\ m <= Cardinality(basket)
    BY <2>1, <2>2, FS_Subset, FS_CardinalityType
  <2>. QED BY <2>1, <2>2, <2>3
<1>3. DOMAIN z = among
  BY <1>1
<1>4. risky \subseteq among /\ IsFiniteSet(risky) /\ IsFiniteSet(among \ risky)
  <2>1. risky \subseteq among /\ among \ risky \subseteq among
    OBVIOUS
  <2>. HIDE DEF risky, among
  <2>. QED BY <1>2, <2>1, FS_Subset
<1>5. CASE among = {}
  <2>1. Added(z, DOMAIN z) = 0 /\ Cardinality(DOMAIN z) = 0
    BY <1>3, <1>5, SumOfNone, FS_EmptySet DEF Added
  <2>2. BudgetStatus(basket) # "PASS"
    BY <2>1 DEF BudgetStatus
  <2>. HIDE DEF among
  <2>. QED BY <1>2, <1>3, <1>5, <2>1, <2>2 DEF Hundred
<1>6. CASE among # {}
  <2>. HIDE DEF among, m
  <2>1. \A x \in among : worth[x] \in Nat /\ worth[x] # 0
    BY <1>2, WorthTyped
  <2>2. Added(worth, among) # 0
    <3>. HIDE DEF worth
    <3>. QED BY <1>2, <1>6, <2>1, SumIsPositive
  <2>3. \A x \in among : raw[x] = Rounded(worth[x] * Hundred, Added(worth, among))
    BY DEF RawBudget
  <2>4. Hundred \in Nat /\ Hundred = 1000 /\ RiskyCap = 50
    BY DEF Hundred, RiskyCap
  <2>5. (\A x \in among : raw[x] \in Nat) /\ 2 * Hundred <= 2 * Added(raw, among) + m
    <3>. HIDE DEF worth, raw
    <3>. QED BY <1>2, <2>1, <2>2, <2>3, <2>4, SharesAddUp DEF m
  <2>6. \E x \in among : raw[x] # 0
    <3>. HIDE DEF raw
    <3>1. Added(raw, among) # 0
      BY <1>2, <2>4, <2>5
    <3>. QED BY <1>2, <2>5, <3>1, SumIsPositive
  <2>7. ASSUME NEW x \in among
        PROVE  capped[x] \in Nat /\ (raw[x] # 0 => capped[x] # 0)
    <3>. HIDE DEF raw
    <3>1. excess \in Nat
      <4>1. \A y \in risky : over[y] \in Nat
        BY <1>4, <2>4, <2>5, MostOfTwo
      <4>. HIDE DEF over, risky
      <4>. QED BY <1>4, <4>1, SumIsNatural DEF Added
    <3>2. free \in Nat
      <4>1. \A y \in among \ risky : raw[y] \in Nat
        BY <2>5
      <4>. HIDE DEF risky
      <4>. QED BY <1>4, <4>1, SumIsNatural DEF Added
    <3>. HIDE DEF excess, free
    <3>3. Most({1, free}) \in Nat \ {0}
      BY <3>2, MostOfTwo
    <3>4. raw[x] \in Nat
      BY <2>5
    <3>5. excess * raw[x] \in Nat
      BY <3>1, <3>4
    <3>6. Rounded(excess * raw[x], Most({1, free})) \in Nat
      BY <3>3, <3>5, RoundedIsNatural
    <3>7. Least({raw[x], RiskyCap}) = IF raw[x] <= RiskyCap THEN raw[x] ELSE RiskyCap
      BY <2>4, <3>4, LeastOfTwo
    <3>8. capped[x] = IF x \in risky THEN Least({raw[x], RiskyCap})
                      ELSE raw[x] + Rounded(excess * raw[x], Most({1, free}))
      BY DEF excess, free
    <3>. HIDE DEF capped, risky
    <3>. QED BY <2>4, <3>4, <3>6, <3>7, <3>8
  <2>. HIDE DEF capped, raw
  <2>8. Added(capped, among) # 0
    BY <1>2, <2>6, <2>7, SumIsPositive
  <2>9. \A x \in among : full[x] = Rounded(capped[x] * Hundred, Added(capped, among))
    OBVIOUS
  <2>. HIDE DEF full
  <2>10. /\ \A x \in among : full[x] \in Nat
         /\ 2 * Added(full, among) <= 2 * Hundred + m /\ 2 * Hundred <= 2 * Added(full, among) + m
    BY <1>2, <2>4, <2>7, <2>8, <2>9, SharesAddUp DEF m
  <2>11. ASSUME NEW x \in among
         PROVE  /\ z[x] \in Nat /\ z[x] <= full[x] /\ (x \in risky => z[x] <= RiskyCap)
                /\ (x \notin risky => z[x] = full[x])
    <3>1. z[x] = IF x \in risky THEN Least({full[x], RiskyCap}) ELSE full[x]
      BY <1>1
    <3>2. full[x] \in Nat /\ Least({full[x], RiskyCap}) = IF full[x] <= RiskyCap THEN full[x] ELSE RiskyCap
      BY <2>4, <2>10, LeastOfTwo
    <3>. HIDE DEF risky
    <3>. QED BY <2>4, <3>1, <3>2
  <2>12. Added(z, among) <= Added(full, among) /\ Added(z, among) \in Nat /\ Added(full, among) \in Nat
    <3>1. \A x \in among : z[x] \in Int /\ full[x] \in Int /\ z[x] <= full[x]
      BY <2>10, <2>11
    <3>2. Added(z, among) <= Added(full, among)
      BY <1>2, <3>1, SumIsMonotone DEF Added
    <3>. QED BY <1>2, <2>10, <2>11, <3>2, SumIsNatural DEF Added
  <2>13. ASSUME NEW x \in among, Analyses[x].ta + Analyses[x].fa < 39 PROVE z[x] <= RiskyCap
    <3>1. x \in risky
      BY <1>2, <2>13, WorthTyped
    <3>. QED BY <2>11, <3>1
  <2>14. ASSUME BudgetStatus(basket) = "PASS" PROVE Added(z, among) >= Hundred - m
    <3>1. among = basket /\ \A x \in basket : ~TooRisky(x)
      BY <1>3, <2>14 DEF BudgetStatus
    <3>2. \A x \in among : z[x] = full[x]
      BY <2>11, <3>1
    <3>3. Added(z, among) = Added(full, among)
      BY <1>2, <3>2, SumExtends DEF Added
    <3>. QED BY <1>2, <2>4, <2>10, <2>12, <3>3
  <2>15. Added(z, among) <= Hundred + m
    BY <1>2, <2>4, <2>10, <2>12
  <2>. QED BY <1>2, <1>3, <2>13, <2>14, <2>15 DEF m
<1>. QED BY <1>5, <1>6

-----------------------------------------------------------------------------
(* Advice holds up.                                                        *)

\* What is left of the sizes still fits.
SizesFit ==
  LET z == advice.sizes
      e == EffectiveEnvelope(market, Balanced)
      left == DOMAIN z \ bought
  IN  /\ z \in [DOMAIN z -> Nat] /\ bought \subseteq {x \in DOMAIN z : z[x] > 0}
      /\ ~disturbed /\ advice.status # "FAIL" =>
           /\ advice.limits = e
           /\ advice.kind = "sized" \/ advice.status = "PASS" => CashCovers(books, e, z, left)
           /\ advice.known => SectorsFit(books, e, z, left)
           /\ advice.known /\ advice.kind = "constructed" /\ advice.status = "PASS" =>
                SectorsAtEase(books, e, z, left)

Buyable == {"sized", "constructed"}

AdviceInv ==
  /\ books \in Books
  /\ DOMAIN advice.sizes \subseteq Stocks
  /\ advice.kind \in Buyable => SizesFit
  /\ advice.kind \notin Buyable => bought = {} /\ (advice.kind = "budget" \/ DOMAIN advice.sizes = {})
  /\ ApprovedIdeasFit /\ BudgetsAddUp

LEMMA AskForSizesInv == ASSUME AdviceInv, Detection(market), AskForSizes PROVE AdviceInv'
<1>0. PICK basket \in Baskets : \E timing \in [basket -> Multipliers] : Follow(Sized(basket, timing))
  BY DEF AskForSizes
<1>1. PICK timing \in [basket -> Multipliers] : Follow(Sized(basket, timing))
  BY <1>0
<1>2. PICK a : a = Sized(basket, timing)
  OBVIOUS
<1>3. PICK e : e = EffectiveEnvelope(market, Balanced)
  OBVIOUS
<1>4. /\ advice' = a /\ bought' = {} /\ disturbed' = FALSE /\ books' = books /\ market' = market
  BY <1>1, <1>2 DEF Follow, Advise
<1>5. books \in Books
  BY DEF AdviceInv
<1>6. /\ a.kind = "sized" /\ a.limits = e /\ DOMAIN a.sizes = basket /\ a.sizes \in [basket -> Nat]
      /\ a.status # "FAIL" => CashCovers(books, e, a.sizes, basket)
      /\ a.known /\ a.status # "FAIL" => SectorsFit(books, e, a.sizes, basket)
  BY <1>2, <1>3, <1>5, SizedFits
<1>7. SizesFit'
  BY <1>3, <1>4, <1>6, Zenon DEF SizesFit
<1>8. basket \subseteq Stocks
  BY BasketIsFinite
<1>9. ApprovedIdeasFit' /\ BudgetsAddUp'
  BY <1>4, <1>6 DEF ApprovedIdeasFit, BudgetsAddUp
<1>. QED BY <1>4, <1>5, <1>6, <1>7, <1>8, <1>9 DEF AdviceInv, Buyable

LEMMA AskForBasketInv == ASSUME AdviceInv, Detection(market), AskForBasket PROVE AdviceInv'
<1>1. PICK basket \in Baskets : Follow(Constructed(basket))
  BY DEF AskForBasket
<1>2. PICK a : a = Constructed(basket)
  OBVIOUS
<1>3. PICK e : e = EffectiveEnvelope(market, Balanced)
  OBVIOUS
<1>4. /\ advice' = a /\ bought' = {} /\ disturbed' = FALSE /\ books' = books /\ market' = market
  BY <1>1, <1>2 DEF Follow, Advise
<1>5. books \in Books
  BY DEF AdviceInv
<1>6. /\ a.kind = "constructed" /\ a.limits = e /\ DOMAIN a.sizes = basket /\ a.sizes \in [basket -> Nat]
      /\ a.status = "PASS" => CashCovers(books, e, a.sizes, basket)
      /\ a.known /\ a.status # "FAIL" => SectorsFit(books, e, a.sizes, basket)
      /\ a.known /\ a.status = "PASS" => SectorsAtEase(books, e, a.sizes, basket)
  BY <1>2, <1>3, <1>5, ConstructedFits
<1>7. SizesFit'
  BY <1>3, <1>4, <1>6, Zenon DEF SizesFit
<1>8. basket \subseteq Stocks
  BY BasketIsFinite
<1>9. ApprovedIdeasFit' /\ BudgetsAddUp'
  BY <1>4, <1>6 DEF ApprovedIdeasFit, BudgetsAddUp
<1>. QED BY <1>4, <1>5, <1>6, <1>7, <1>8, <1>9 DEF AdviceInv, Buyable

LEMMA AskForBudgetInv == ASSUME AdviceInv, AskForBudget PROVE AdviceInv'
<1>1. PICK basket \in Baskets :
        Read([NoAdvice EXCEPT !.kind = "budget", !.sizes = Budget(basket), !.status = BudgetStatus(basket)])
  BY DEF AskForBudget
<1>2. PICK z : z = Budget(basket)
  OBVIOUS
<1>3. /\ advice'.kind = "budget" /\ advice'.sizes = z /\ advice'.status = BudgetStatus(basket)
      /\ bought' = {} /\ books' = books
  BY <1>1, <1>2 DEF Read, Advise, NoAdvice
<1>4. /\ DOMAIN z \subseteq basket
      /\ Added(z, DOMAIN z) <= Hundred + Cardinality(DOMAIN z)
      /\ \A x \in DOMAIN z : Analyses[x].ta + Analyses[x].fa < 39 => z[x] <= RiskyCap
      /\ BudgetStatus(basket) = "PASS" => Added(z, DOMAIN z) >= Hundred - Cardinality(DOMAIN z)
  BY <1>2, BudgetFits
<1>5. BudgetsAddUp'
  BY <1>3, <1>4, Zenon DEF BudgetsAddUp
<1>6. ApprovedIdeasFit'
  BY <1>3 DEF ApprovedIdeasFit
<1>7. basket \subseteq Stocks
  BY BasketIsFinite
<1>. QED BY <1>3, <1>4, <1>5, <1>6, <1>7 DEF AdviceInv, Buyable

\* What the simulation looks at stays.
LEMMA SimulationStays ==
  ASSUME books' = books
  PROVE  \A basket, each, e : Simulated(basket, each, e)' = Simulated(basket, each, e)
<1>1. \A y : Known(y)' = Known(y)
  BY DEF Known
<1>2. \A y : Recorded(y)' = Recorded(y)
  BY <1>1 DEF Recorded
<1>3. \A s, S : InSector(s, S)' = InSector(s, S)
  BY <1>2 DEF InSector
<1>. QED BY <1>2, <1>3 DEF Simulated

LEMMA AskForReviewInv == ASSUME AdviceInv, Detection(market), AskForReview PROVE AdviceInv'
<1>1. PICK x \in Stocks, persona \in Personas, move \in Moves :
        LET values == [books EXCEPT !.cost = [y \in Stocks |-> Rounded(@[y] * move, 100)]]
        IN  Read([NoAdvice EXCEPT !.kind = IF move = 100 THEN "review" ELSE "moved", !.about = x,
                                  !.status = Reviewed(x, values, persona).decision])
  BY DEF AskForReview
<1>2. PICK values : values = [books EXCEPT !.cost = [y \in Stocks |-> Rounded(@[y] * move, 100)]]
  OBVIOUS
<1>3. Read([NoAdvice EXCEPT !.kind = IF move = 100 THEN "review" ELSE "moved", !.about = x,
                            !.status = Reviewed(x, values, persona).decision])
  BY <1>1, <1>2, Zenon
<1>4. PICK decision : decision = Reviewed(x, values, persona).decision
  OBVIOUS
<1>5. /\ advice'.kind = (IF move = 100 THEN "review" ELSE "moved") /\ advice'.about = x
      /\ advice'.status = decision /\ DOMAIN advice'.sizes = {}
      /\ bought' = {} /\ books' = books /\ market' = market
  BY <1>3, <1>4 DEF Read, Advise, NoAdvice
<1>6. books \in Books
  BY DEF AdviceInv
<1>7. ASSUME move = 100, decision = "APPROVE", Known(x)
      PROVE  Simulated({x}, Least(EqualShares), EffectiveEnvelope(market, Balanced)) # "FAIL"
               \/ CashPart(books) < Least(EqualShares)
  <2>1. values = books
    BY <1>2, <1>6, <1>7, AtCost
  <2>. QED BY <1>4, <1>6, <1>7, <2>1, IdeaFits
<1>8. ApprovedIdeasFit'
  <2>. SUFFICES ASSUME (advice.kind = "review" /\ advice.status = "APPROVE" /\ Known(advice.about))'
                PROVE  (Simulated({advice.about}, Least(EqualShares), EffectiveEnvelope(market, Balanced)) # "FAIL"
                          \/ CashPart(books) < Least(EqualShares))'
    BY DEF ApprovedIdeasFit
  <2>1. move = 100 /\ decision = "APPROVE" /\ Known(x)
    BY <1>5 DEF Known
  <2>2. \/ Simulated({x}, Least(EqualShares), EffectiveEnvelope(market, Balanced)) # "FAIL"
        \/ CashPart(books) < Least(EqualShares)
    BY <1>7, <2>1
  <2>. QED BY <1>5, <2>2, SimulationStays
<1>9. BudgetsAddUp'
  BY <1>5 DEF BudgetsAddUp
<1>. QED BY <1>5, <1>6, <1>8, <1>9 DEF AdviceInv, Buyable

LEMMA BuyAdvisedInv == ASSUME AdviceInv, Detection(market), BuyAdvised PROVE AdviceInv'
<1>1. PICK x \in DOMAIN advice.sizes \ bought :
        LET amount == (advice.sizes[x] * Total(books)) \div Hundred
        IN  /\ advice.kind # "budget" /\ 0 < amount /\ amount <= books.cash
            /\ books' = [cash |-> books.cash - amount, cost |-> [books.cost EXCEPT ![x] = @ + amount]]
            /\ bought' = bought \cup {x}
            /\ UNCHANGED <<market, history, advice, disturbed, disturbances, asks>>
  BY DEF BuyAdvised
<1>2. PICK b, z, basket, amount, left, e :
        /\ b = books /\ z = advice.sizes /\ basket = DOMAIN z /\ left = basket \ bought
        /\ amount = (z[x] * Total(b)) \div Hundred /\ e = EffectiveEnvelope(market, Balanced)
  OBVIOUS
<1>3. PICK c : c = [cash |-> b.cash - amount, cost |-> [b.cost EXCEPT ![x] = @ + amount]]
  OBVIOUS
<1>4. /\ advice.kind # "budget" /\ 0 < amount /\ amount <= b.cash /\ books' = c /\ bought' = bought \cup {x}
      /\ advice' = advice /\ market' = market /\ disturbed' = disturbed
  BY <1>1, <1>2, <1>3, Zenon
<1>5. x \in left /\ left \subseteq basket
  BY <1>1, <1>2
<1>6. advice.kind \in Buyable /\ SizesFit
  BY <1>2, <1>4, <1>5, Zenon DEF AdviceInv
<1>7. b \in Books /\ basket \subseteq Stocks /\ z \in [basket -> Nat] /\ bought \subseteq {y \in basket : z[y] > 0}
  BY <1>2, <1>6 DEF AdviceInv, SizesFit
<1>8. e.cash \in Nat /\ \A s \in DOMAIN SectorLimits : e.sector[s] \in Nat
  BY <1>2, EnvelopeOfBalanced
<1>9. /\ c \in Books /\ z[x] > 0
      /\ CashCovers(b, e, z, left) => CashCovers(c, e, z, left \ {x})
      /\ SectorsFit(b, e, z, left) => SectorsFit(c, e, z, left \ {x})
      /\ SectorsAtEase(b, e, z, left) => SectorsAtEase(c, e, z, left \ {x})
  <2>1. amount = Price(b, z[x])
    BY <1>2 DEF Price
  <2>2. 0 < amount /\ amount <= b.cash
    BY <1>4
  <2>3. basket \subseteq Stocks /\ z \in [basket -> Nat] /\ left \subseteq basket /\ x \in left /\ b \in Books
    BY <1>5, <1>7
  <2>4. e.cash \in Nat /\ \A s \in DOMAIN SectorLimits : e.sector[s] \in Nat
    BY <1>8
  <2>5. c = After(b, x, amount)
    BY <1>3 DEF After
  <2>6. IsPurchase(b, c, z, left, x, e)
    BY <1>2, <2>1, <2>2, <2>3, <2>4, <2>5, Zenon DEF IsPurchase
  <2>. QED BY <2>6, PurchaseKeeps
<1>10. basket \ (bought \cup {x}) = left \ {x} /\ bought \cup {x} \subseteq {y \in basket : z[y] > 0}
  BY <1>2, <1>5, <1>7, <1>9
<1>11. SizesFit'
  <2>1. ~disturbed /\ advice.status # "FAIL" =>
          /\ advice.limits = e
          /\ advice.kind = "sized" \/ advice.status = "PASS" => CashCovers(b, e, z, left)
          /\ advice.known => SectorsFit(b, e, z, left)
          /\ advice.known /\ advice.kind = "constructed" /\ advice.status = "PASS" => SectorsAtEase(b, e, z, left)
    BY <1>2, <1>6, Zenon DEF SizesFit
  <2>2. ~disturbed /\ advice.status # "FAIL" =>
          /\ advice.limits = e
          /\ advice.kind = "sized" \/ advice.status = "PASS" => CashCovers(c, e, z, left \ {x})
          /\ advice.known => SectorsFit(c, e, z, left \ {x})
          /\ advice.known /\ advice.kind = "constructed" /\ advice.status = "PASS" =>
               SectorsAtEase(c, e, z, left \ {x})
    BY <1>9, <2>1, Zenon
  <2>3. z \in [basket -> Nat] /\ bought \cup {x} \subseteq {y \in basket : z[y] > 0}
    BY <1>7, <1>10
  <2>. QED BY <1>2, <1>4, <1>10, <2>2, <2>3, Zenon DEF SizesFit
<1>12. ApprovedIdeasFit' /\ BudgetsAddUp'
  BY <1>4, <1>6 DEF ApprovedIdeasFit, BudgetsAddUp, Buyable
<1>. QED BY <1>2, <1>4, <1>6, <1>7, <1>9, <1>11, <1>12 DEF AdviceInv

LEMMA DisturbInv ==
  ASSUME AdviceInv, Disturb, books' \in Books
  PROVE  AdviceInv'
<1>1. advice' = advice /\ bought' = bought /\ disturbed' = TRUE
  BY DEF Disturb
<1>2. advice.kind \in Buyable => SizesFit'
  BY <1>1, Zenon DEF AdviceInv, SizesFit
<1>3. ApprovedIdeasFit' /\ BudgetsAddUp'
  <2>1. ApprovedIdeasFit'
    BY <1>1 DEF ApprovedIdeasFit
  <2>2. BudgetsAddUp'
    BY <1>1, Zenon DEF AdviceInv, BudgetsAddUp
  <2>. QED BY <2>1, <2>2
<1>. QED BY <1>1, <1>2, <1>3 DEF AdviceInv

LEMMA AdviceStepInv == AdviceInv /\ Detection(market) /\ [AdviceNext]_adviceVars => AdviceInv'
<1>. SUFFICES ASSUME AdviceInv, Detection(market), [AdviceNext]_adviceVars PROVE AdviceInv'
  OBVIOUS
<1>1. CASE AskForSizes
  BY <1>1, AskForSizesInv
<1>2. CASE AskForBasket
  BY <1>2, AskForBasketInv
<1>3. CASE AskForBudget
  BY <1>3, AskForBudgetInv
<1>4. CASE AskForReview
  BY <1>4, AskForReviewInv
<1>5. CASE BuyAdvised
  BY <1>5, BuyAdvisedInv
<1>6. CASE DepositCash
  <2>1. Disturb /\ books' = [books EXCEPT !.cash = @ + Deposit] /\ books \in Books
    BY <1>6 DEF DepositCash, AdviceInv
  <2>2. books' \in Books
    BY <2>1, AdviceAssumption DEF Books
  <2>. QED BY <2>1, <2>2, DisturbInv
<1>7. CASE ShiftRegime \/ LoseBenchmarks
  <2>1. Disturb /\ books' = books /\ books \in Books
    BY <1>7 DEF ShiftRegime, LoseBenchmarks, AdviceInv
  <2>. QED BY <2>1, DisturbInv
<1>8. CASE UNCHANGED adviceVars
  <2>1. /\ books' = books /\ market' = market /\ advice' = advice /\ bought' = bought
        /\ disturbed' = disturbed
    BY <1>8 DEF adviceVars
  <2>2. advice.kind \in Buyable => SizesFit'
    BY <2>1, Zenon DEF AdviceInv, SizesFit
  <2>3. ApprovedIdeasFit'
    <3>1. ApprovedIdeasFit
      BY DEF AdviceInv
    <3>2. \A y : Known(y)' = Known(y)
      BY <2>1 DEF Known
    <3>. QED BY <2>1, <3>1, <3>2, SimulationStays DEF ApprovedIdeasFit
  <2>4. BudgetsAddUp'
    BY <2>1, Zenon DEF AdviceInv, BudgetsAddUp
  <2>. QED BY <2>1, <2>2, <2>3, <2>4 DEF AdviceInv
<1>. QED BY <1>1, <1>2, <1>3, <1>4, <1>5, <1>6, <1>7, <1>8 DEF AdviceNext

\* What fits when all is bought fits before.
LEMMA FollowedFits == AdviceInv /\ Detection(market) => FollowedAdviceFits
<1>. SUFFICES ASSUME AdviceInv, Detection(market), ~disturbed, bought # {}, advice.known, advice.status # "FAIL"
              PROVE  LET n == Cardinality(DOMAIN advice.sizes)
                     IN  /\ advice.kind = "sized" \/ advice.status = "PASS" =>
                              CashPart(books) >= advice.limits.cash - n
                         /\ \A x \in bought :
                              /\ SectorPart(SectorOf[x], books) <= advice.limits.sector[SectorOf[x]] + n
                              /\ advice.kind = "constructed" /\ advice.status = "PASS" =>
                                   \A persona \in Personas : Reviewed(x, books, persona).sector = "PASS"
  BY DEF FollowedAdviceFits
<1>1. PICK z, e, left, n :
        /\ z = advice.sizes /\ e = EffectiveEnvelope(market, Balanced) /\ left = DOMAIN z \ bought
        /\ n = Cardinality(DOMAIN z)
  OBVIOUS
<1>2. advice.kind \in Buyable /\ SizesFit /\ books \in Books /\ DOMAIN z \subseteq Stocks
  BY <1>1 DEF AdviceInv
<1>3. /\ z \in [DOMAIN z -> Nat] /\ bought \subseteq {x \in DOMAIN z : z[x] > 0} /\ advice.limits = e
      /\ advice.kind = "sized" \/ advice.status = "PASS" => CashCovers(books, e, z, left)
      /\ SectorsFit(books, e, z, left)
      /\ advice.kind = "constructed" /\ advice.status = "PASS" => SectorsAtEase(books, e, z, left)
  BY <1>1, <1>2, Zenon DEF SizesFit
<1>4. /\ IsFiniteSet(DOMAIN z) /\ n \in Nat /\ CashPart(books) \in Nat /\ e.cash \in Nat
      /\ \A s : SectorPart(s, books) \in Nat
  BY <1>1, <1>2, AdviceAssumption, FS_Subset, FS_CardinalityType, BooksTyped, EnvelopeOfBalanced
<1>5. ASSUME NEW S, S \subseteq left PROVE Added(z, S) \in Nat
  <2>1. IsFiniteSet(S) /\ \A y \in S : z[y] \in Nat
    BY <1>1, <1>3, <1>4, <1>5, FS_Subset
  <2>. QED BY <2>1, SumIsNatural DEF Added
<1>6. ASSUME CashCovers(books, e, z, left) PROVE CashPart(books) >= e.cash - n
  <2>1. Added(z, left) \in Nat /\ Added(z, left) + e.cash <= CashPart(books) + n
    BY <1>1, <1>5, <1>6 DEF CashCovers
  <2>. QED BY <1>4, <2>1
<1>7. ASSUME NEW x \in bought
      PROVE  /\ SectorPart(SectorOf[x], books) <= e.sector[SectorOf[x]] + n
             /\ advice.kind = "constructed" /\ advice.status = "PASS" =>
                  \A persona \in Personas : Reviewed(x, books, persona).sector = "PASS"
  <2>. DEFINE s == SectorOf[x]
              cap == e.sector[s]
              current == SectorPart(s, books)
              rest == Added(z, LeftIn(s, left))
  <2>1. x \in DOMAIN z /\ x \in Stocks /\ z[x] > 0
    BY <1>2, <1>3
  <2>2. cap \in Nat /\ cap = SectorCap(SectorLimits[s], market) /\ s \in DOMAIN SectorLimits
    BY <1>1, <2>1, EnvelopeOfBalanced, SectorsAreCapped
  <2>3. rest \in Nat /\ current \in Nat
    <3>1. LeftIn(s, left) \subseteq left
      BY DEF LeftIn
    <3>. QED BY <1>4, <1>5, <3>1
  <2>4. current + rest <= cap + n
    BY <1>1, <1>3, <2>1 DEF SectorsFit, Filled
  <2>5. advice.kind = "constructed" /\ advice.status = "PASS" => 10 * (current + rest) < 8 * cap
    BY <1>3, <2>1 DEF SectorsAtEase, Filled
  <2>6. ASSUME advice.kind = "constructed", advice.status = "PASS", NEW persona \in Personas
        PROVE  Reviewed(x, books, persona).sector = "PASS"
    <3>. DEFINE f == EffectiveEnvelope(market, persona)
    <3>1. f.position \in Nat \ {0} /\ f.sector[s] = cap
      BY <2>2, EnvelopeOfPersona
    <3>2. Reviewed(x, books, persona).sector = PolicyCheck(current, f.sector[s], 0, f.position)
      BY DEF Reviewed
    <3>. HIDE DEF f, cap, current, rest, s
    <3>. QED BY <2>2, <2>3, <2>5, <2>6, <3>1, <3>2 DEF PolicyCheck
  <2>. HIDE DEF cap, current, rest, s
  <2>7. current <= cap + n
    BY <1>4, <2>2, <2>3, <2>4
  <2>. QED BY <2>6, <2>7 DEF cap, current, s
<1>8. advice.kind = "sized" \/ advice.status = "PASS" => CashPart(books) >= advice.limits.cash - n
  BY <1>3, <1>6
<1>9. \A x \in bought :
        /\ SectorPart(SectorOf[x], books) <= advice.limits.sector[SectorOf[x]] + n
        /\ advice.kind = "constructed" /\ advice.status = "PASS" =>
             \A persona \in Personas : Reviewed(x, books, persona).sector = "PASS"
  BY <1>3, <1>7
<1>. QED BY <1>1, <1>8, <1>9

(* Whatever advice the tools give, what is bought on it keeps to the       *)
(* limits it was given, an approved idea fits the simulation and a budget  *)
(* comes to the whole.                                                     *)
THEOREM AdviceAlwaysHoldsUp == AdviceSpec => []AdviceHoldsUp
<1>1. AdviceInit => AdviceInv
  <2>. SUFFICES ASSUME AdviceInit PROVE AdviceInv
    OBVIOUS
  <2>1. books \in Books
    BY AdviceAssumption DEF AdviceInit, Books
  <2>2. advice.kind = "none" /\ DOMAIN advice.sizes = {} /\ bought = {}
    BY DEF AdviceInit, NoAdvice
  <2>. QED BY <2>1, <2>2 DEF AdviceInv, Buyable, ApprovedIdeasFit, BudgetsAddUp
<1>2. AdviceInv /\ Detection(market) /\ [AdviceNext]_adviceVars => AdviceInv'
  BY AdviceStepInv
<1>3. AdviceInv /\ Detection(market) => AdviceHoldsUp
  BY FollowedFits DEF AdviceInv, AdviceHoldsUp
<1>. QED BY <1>1, <1>2, <1>3, MarketTyped, PTL DEF AdviceSpec
=============================================================================

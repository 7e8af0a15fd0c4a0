------------------------------- MODULE Rebuild -------------------------------
(***************************************************************************)
(* The manage.py commands that derive a portfolio from its ledger again,   *)
(* beside the web process: rebuild_portfolio                               *)
(* (services/portfolio_rebuilder.py), generate_repair_plan                 *)
(* (services/ledger_repair_plan.py) and apply_repair                       *)
(* (services/repair_plan_executor.py).                                     *)
(*                                                                         *)
(* Each command is a process of its own.  It holds no lock on what it has  *)
(* read, so the web process may commit between any two of its reads and    *)
(* its write.  A transaction is never changed once it is recorded, so a    *)
(* command that loaded the ledger is described by how long the ledger was. *)
(***************************************************************************)
EXTENDS LiveLedger, FiniteSetsExt

VARIABLES repairs,   \* ids that an active EXCLUDE row of ledger_repairs names
          rebuild,   \* the rebuild_portfolio command
          plan,      \* the repair plan file last generated
          applying   \* the apply_repair command

admin == <<repairs, rebuild, plan, applying>>
web   == <<ledger, cash, items, shares, pending, taints>>

NoRebuild == [phase |-> "idle", upTo |-> 0, excluded |-> {}, cash |-> 0,
              planned |-> {}, rows |-> <<>>]
NoPlan    == [ids |-> {}, upTo |-> 0]
NotApplying == [phase |-> "idle", plan |-> NoPlan, before |-> {}]

RebuildInit ==
  /\ Init
  /\ repairs = {}
  /\ rebuild = NoRebuild
  /\ plan = NoPlan
  /\ applying = NotApplying

-----------------------------------------------------------------------------
(* rebuild_portfolio                                                       *)

\* Stage 1: the ledger, the repairs and the Portfolio row are loaded; without
\* the overlay (--no-repairs) no repair applies.
LoadForRebuild(overlay) ==
  /\ rebuild = NoRebuild
  /\ ledger # <<>>
  /\ rebuild' = [phase    |-> "loaded",
                 upTo     |-> Len(ledger),
                 excluded |-> IF overlay THEN repairs ELSE {},
                 cash     |-> cash,
                 planned  |-> {},
                 rows     |-> <<>>]
  /\ UNCHANGED <<web, repairs, plan, applying>>

\* Mutant: the overlay is validated but not replayed.
LoadedIdsWithoutOverlay == 1..rebuild.upTo

LoadedIds == (1..rebuild.upTo) \ rebuild.excluded

\* Mutant: rows without replayed shares are not looked at.
ItemOperationOfReplay(s, final) ==
  IF final.held[s] = 0 THEN {}
  ELSE IF s \notin items THEN {"INSERT"}
  ELSE {op \in {"UPDATE"} : shares[s] # final.held[s]}

\* How a PortfolioItem row compares with the replay: a missing row is to be
\* inserted, an extra one deleted, and one that is off by more than the
\* tolerance updated.
ItemOperation(s, final) ==
  IF s \notin items THEN {op \in {"INSERT"} : final.held[s] > 0}
  ELSE IF final.held[s] = 0 THEN {"DELETE"}
  ELSE {op \in {"UPDATE"} : \/ shares[s] > final.held[s] + SellTolerance
                            \/ shares[s] < final.held[s] - SellTolerance}

\* The execution plan: every intended write.
PlannedOperations(final) ==
  {<<"UPDATE", "cash">> : x \in {final.cash} \ {rebuild.cash}}
    \union UNION {{<<op, s>> : op \in ItemOperation(s, final)} : s \in Symbols}

\* Mutant: only the findings of the replay are looked at.
GateOfReplayOnly(excluded) == ReplayFindings(ledger, DOMAIN ledger \ excluded) = {}

Gate(excluded) == CriticalFindings(ledger, DOMAIN ledger \ excluded) = {}

\* Stage 5 reads the ledger again, with the repairs that were loaded; stage 6
\* compares the rows of now, kept as history, with the replay of what was loaded.
ValidateForRebuild ==
  /\ rebuild.phase = "loaded"
  /\ rebuild' = IF Gate(rebuild.excluded)
                THEN [rebuild EXCEPT
                        !.phase   = "validated",
                        !.planned = PlannedOperations(Replay(InReplayOrder(ledger, LoadedIds))),
                        !.rows    = <<items, shares>>]
                ELSE NoRebuild
  /\ UNCHANGED <<web, repairs, plan, applying>>

\* A dry run, a failed price download, backup or commit, or a killed command.
AbandonRebuild ==
  /\ rebuild # NoRebuild
  /\ rebuild' = NoRebuild
  /\ UNCHANGED <<web, repairs, plan, applying>>

\* What the rebuild loaded is not what is stored now.
MovedSinceLoad ==
  \/ Len(ledger) # rebuild.upTo
  \/ repairs # rebuild.excluded
  \/ cash # rebuild.cash

RebuiltItems(final) == {s \in Symbols : final.held[s] > 0}

\* Stage 8.  The ORM writes cash_balance only if it differs from the balance
\* that was loaded.  All holdings are deleted, those added since included, and
\* the replayed ones are inserted under their canonical symbols.
CommitRebuild ==
  LET final == Replay(InReplayOrder(ledger, LoadedIds))
  IN  /\ rebuild.phase = "validated"
      /\ cash' = IF final.cash = rebuild.cash THEN cash ELSE final.cash
      /\ items' = RebuiltItems(final)
      /\ shares' = final.held
      /\ taints' = {t \in {"overwritten"} : MovedSinceLoad}
      /\ rebuild' = NoRebuild
      /\ UNCHANGED <<ledger, pending, repairs, plan, applying>>

-----------------------------------------------------------------------------
(* generate_repair_plan and apply_repair                                   *)

\* Mutant: the latest record is kept.
AllButTheLatest(g) == g \ {Max(g)}

\* Of every group of duplicates the earliest record is kept.
Duplicates(g) == g \ {Min(g)}

\* The others are to be excluded, unless a repair excludes them already.
Repairable(ids) ==
  (UNION {Duplicates(g) : g \in DuplicateGroups(ledger, ids) \union FingerprintGroups(ledger, ids)})
    \ repairs

\* generate_repair_plan writes a file when there is something to repair.
GeneratePlan(effective) ==
  LET new == Repairable(IF effective THEN DOMAIN ledger \ repairs ELSE DOMAIN ledger)
  IN  /\ new # {}
      /\ plan' = [ids |-> new, upTo |-> Len(ledger)]
      /\ UNCHANGED <<web, repairs, rebuild, applying>>

\* The plan file is loaded and the baseline validated; a plan that is active
\* already is left at that.
StartApply ==
  /\ applying = NotApplying
  /\ ~(plan.ids \subseteq repairs)
  /\ applying' = [phase  |-> "baselined",
                  plan   |-> plan,
                  before |-> CriticalFindings(ledger, DOMAIN ledger \ repairs)]
  /\ UNCHANGED <<web, repairs, rebuild, plan>>

\* The rows are inserted, the ledger is validated again and the transaction,
\* which has held the write lock since the insert, commits unless that
\* validation found something new and the command was not forced.
CommitPlan(force) ==
  LET excluded == repairs \union applying.plan.ids
  IN  /\ applying.phase = "baselined"
      /\ \/ CriticalFindings(ledger, DOMAIN ledger \ excluded) \subseteq applying.before
         \/ force
      /\ repairs' = excluded
      /\ taints' = taints \union {"repaired"}
      /\ applying' = NotApplying
      /\ UNCHANGED <<ledger, cash, items, shares, pending, rebuild, plan>>

\* A dry run, a rollback, a failed backup or a killed command.
AbandonPlan ==
  /\ applying # NotApplying
  /\ applying' = NotApplying
  /\ UNCHANGED <<web, repairs, rebuild, plan>>

-----------------------------------------------------------------------------

RebuildCommand ==
  \/ \E overlay \in BOOLEAN : LoadForRebuild(overlay)
  \/ ValidateForRebuild
  \/ CommitRebuild
  \/ AbandonRebuild

RepairCommand ==
  \/ \E effective \in BOOLEAN : GeneratePlan(effective)
  \/ StartApply
  \/ \E force \in BOOLEAN : CommitPlan(force)
  \/ AbandonPlan

RebuildNext ==
  \/ Next /\ UNCHANGED admin
  \/ RebuildCommand
  \/ RepairCommand

RebuildSpec == RebuildInit /\ [][RebuildNext]_<<web, admin>>

-----------------------------------------------------------------------------
(* Properties.                                                             *)

AdminTaints == {"overwritten", "repaired"}

\* A rebuild puts a drifted portfolio back on the ledger for good: however
\* handlers, rebuilds and repairs alternate, the stored cash balance and the
\* holdings, rows included, are the replay of the ledger that the repairs
\* leave, unless since the last rebuild a handler lost an update, the portfolio
\* was edited or a repair was applied, or that rebuild ran while what it had
\* loaded was changed.
PortfolioFollowsEffectiveLedger ==
  LET replay == ReplayOf(ledger, repairs)
  IN  /\ Untouched(CashTaints \union AdminTaints) => cash = replay.cash
      /\ Untouched(HoldingTaints \union AdminTaints) =>
           \A s \in Symbols :
             /\ shares[s] = replay.held[Canonical[s]]
             /\ s \in items <=> shares[s] > 0

\* A rebuild writes what its plan says.  On a portfolio that did not drift the
\* plan is empty, and when it is empty the commit changes neither the balance nor
\* a row by more than the tolerance, provided that nobody changes the portfolio
\* meanwhile: rebuild_portfolio is idempotent, and harmless on a healthy
\* portfolio, and a dry run shows what a run will do.
RebuildKeepsItsPlan ==
  [][CommitRebuild /\ ~MovedSinceLoad /\ rebuild.rows = <<items, shares>> =>
       /\ taints = {} => rebuild.planned = {}
       /\ rebuild.planned = {} =>
            /\ UNCHANGED <<cash, items>>
            /\ \A s \in Symbols :
                 shares'[s] \in (shares[s] - SellTolerance)..(shares[s] + SellTolerance)]_<<web, admin>>

\* No rebuild stores the replay of a ledger with a CRITICAL finding, unless
\* the ledger grew between the load and the validation.
RebuildPassesTheGate ==
  [][CommitRebuild /\ Len(ledger) = rebuild.upTo => CriticalFindings(ledger, LoadedIds) = {}]_<<web, admin>>

\* Every group of duplicated imports keeps its first.
FirstImportIsKept ==
  \A g \in DuplicateGroups(ledger, DOMAIN ledger) : Min(g) \notin repairs

\* Applied, a plan leaves no group among the transactions it was generated from.
PlanResolvesDuplicates ==
  applying.phase = "baselined" /\ repairs' # repairs =>
    DuplicateGroups(ledger, (1..applying.plan.upTo) \ repairs') = {}

\* Whichever plans were generated, from the raw or the effective ledger, how
\* many groups overlap and however late a plan is applied: it resolves the
\* duplicates it was generated for, and a duplicated position is never repaired
\* away altogether.
RepairsLeaveOne == [][FirstImportIsKept' /\ PlanResolvesDuplicates]_<<web, admin>>
=============================================================================

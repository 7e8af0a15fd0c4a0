# Verification of the portfolio engine

TLA+ models, TLC runs and TLAPS proofs for the back end of
`ta_stock_analysis` (`src/backend`): a FastAPI service that keeps portfolios of
shares, records transactions, takes daily snapshots, asks language models for
advice, plans trades, follows its own recommendations on paper and grades
them, and has command line tools that rebuild, repair and migrate what it
stores. The models are about what is hard to test there: requests that overlap
at an `await`, a command line process beside the web process, stale ORM state,
histories that replay differently from how they happened, passes that undo one
another, and records that arrive late, twice or not at all.

## 1. Inventory

### How the program runs

* The web process is one asyncio event loop. Every endpoint of `main.py` is an
  `async def`, so the code between two awaits is atomic with respect to other
  requests. The awaits that matter are fetches of sectors and prices and calls of
  language models, which run in the default thread pool.
* Each request has its own SQLAlchemy session (`autoflush=False`,
  `expire_on_commit` as by default). A loaded row keeps its attributes until that
  session commits; assigning an attribute the value it was loaded with writes
  nothing, and a commit writes the changed columns only.
* `manage.py` is a separate process without any lock shared with the web process.
* APScheduler starts the daily job on the same event loop; its jobs are in memory.
* SQLite (the default) does not enforce foreign keys here and gives a new row the
  id after the greatest one.

### Components

| Component | State | What makes it hard | What makes it correct |
|---|---|---|---|
| Transaction handlers (`portfolio_transactions.py`, `main.py`) | `transactions`, `cash_balance`, `portfolio_items` | awaits between reading and writing, caller-chosen dates, tolerances at zero | stored cash and holdings are what the ledger says; no position runs short |
| Ledger replay, validator (`transaction_canonicalizer.py`, `replay_key.py`, `ledger_validator.py`) | none | two engines with different keys and tolerances | both agree with the handlers; the gate stops what must not be committed |
| Rebuilder and ledger repairs (`portfolio_rebuilder.py`, `ledger_repair*.py`, `repair_plan_executor.py`) | overwrite cash, holdings, snapshots; `ledger_repairs`, plan files | minutes between load and commit; plans applied late, overlapping groups | restores a drifted portfolio, leaves a healthy one alone; never removes the last record |
| Snapshots and returns (`portfolio_snapshots.py`, `portfolio_metrics.py`) | `portfolio_snapshots` | fetch between reading and writing, days out of order, flows around midnight | a return contains performance only; every flow is stripped once |
| Snapshot repair and recovery (`snapshot_repair.py`, `snapshot_return_recovery.py`) | the same rows | several writers with different inputs, column-wise writes | rows add up; returns refer to values that are there |
| Snapshot scheduler (`snapshot_scheduler.py`) | job lock, last run, one session | portfolios deleted or changed during the job, failures, two ways to start | one run at a time, the lock comes back, the status is true |
| Analysis jobs (`main.py`) | jobs, streams, semaphore, caches | abandoned calls that keep their threads, late answers | every symbol counted once, every job and stream ends |
| Optimizer runs (`run_progress.py`, `main.py`) | one progress entry per portfolio | overlapping runs, a crash guard, a save that fails | DONE is true; nothing runs for ever |
| Optimizer passes (`agents/optimizer.py`, `stabilization.py`) | the plan of a run | nine passes, each on what the last one left | locks and forced sales survive; limits hold |
| Policy, sizing, baskets, regime (`constraint_resolver.py`, `policy_engine.py`, `position_sizing.py`, ..., `regime_detector.py`) | cached detections | the same limits written down four times | advice that is followed keeps its limits; doubt tightens |
| Funding, execution plans, price evidence (`funding_source_analysis.py`, `execution_optimizer.py`, `execution_policy.py`, ...) | none; a log | a provider that answers late, rounding to cents and lots | the gap is closed and no more sold; legs rest on current evidence |
| Decision memory (`shadow_tracker.py`, `horizon_grader.py`) | recommendations, shadows, values, decisions, grades | threads, crashes between commits, backfill | a grade does not look ahead; regeneration reproduces |
| Evaluation screens (`ideal_series.py`, `human_vs_ai.py`, `opportunity_cost.py`, ...) | none | six screens with windows and choices of their own | screens computed apart agree |
| Asset registry, backfill, migration, cutover (`asset_registry.py`, `identity_resolver.py`, `replay_cutover.py`, ...) | assets, identifiers, `asset_id` columns, checkpoints | stale caches, kills and resumes, old baselines | an id names its listing; a cutover splits nothing |
| Registry governance (`execution_registry_*.py`, `execution_lot_capability.py`) | assets, links, evidence | manifests validated as a whole and applied one by one, late and again | the registry stays what its reviewers made it |
| Execution intents (`execution_intent_*.py`) | snapshots, event log | commands late, twice, from the wrong actor | nothing is executed without approval of exactly this |
| Review contracts (`execution_intent_identity.py`, `execution_intent_authority.py`, `execution_intent_reconfirmation.py`) | facts, certificates, proposals | facts kept longer than they hold, contradictory certificates | loss takes effect; verdicts are settled |
| Start of the web process (`init_db`, `migrate_legacy_data` in `models/database.py`) | tables, columns, default workspace and portfolio, the flat table of the first version | every DDL statement commits alone; the process may die between any two, or fail and start again | starts that are cut short leave what one start would have made, but for indexes |
| Agents, scoring, market data, search, analytics, Alembic migrations, front end | none of their own, or a cache | numerical or external | not questions for these models |

`PROJECT.json` lists every component with its status, and under `hazards` what
can go wrong in this code where a test would hardly reach it, at its line.

### How they interact

The handlers append to the ledger and update cash and holdings in one commit. The
rebuilder and the validator read the ledger, with the active repairs laid over it,
and the rebuilder writes cash, holdings and snapshots back. The scheduler calls the
snapshot code for each portfolio in one session, then values the paper portfolios and
grades. An optimizer run reads analyses and the regime, saves a plan and starts threads that
make a paper portfolio of it; what the user decides about it goes to the decision
memory, and the screens read all of these rows. The registry is read through a cache by the
handlers. The review contracts are pure: who stores intents, certificates and
facts is outside `src/` and modelled after how the contracts are to be used
(`external` in the map). Components meet in the database only.

## 2. Modules

| Module | Models | Run |
|---|---|---|
| `LedgerReplay` | pure: the ledger, the rebuilder's and the validator's replay, findings | `live_ledger`, `rebuild` |
| `LiveLedger` | the handlers in the web process and the audits beside them, over `LedgerReplay` | `live_ledger`, `lost_cash` |
| `Rebuild` | rebuild, plan generation and repair beside all of `LiveLedger` | `rebuild` |
| `SnapshotSeries` | the series as it is generated day by day | `snapshots` |
| `SnapshotHistory` | the stored rows as repair, recovery and rebuild rewrite them | `snapshots` |
| `SnapshotJob` | the daily job and the requests beside it | `snapshot_job` |
| `AnalysisJobs` | batches, streams, semaphore, threads, caches | `jobs` |
| `OptimizerRuns` | runs and the progress registry | `jobs` |
| `StartupMigration` | what a start does to the database, statement by statement, and requests between starts | `jobs` |
| `OptimizerPlan` | the passes over a plan and the stabilization layer | `planning` |
| `ExecutionPlan`, `TradeEvidence` | funding, trade legs, and the evidence and contracts they rest on | `planning`, `quarter_price` |
| `PortfolioAdvice`, `MarketRegime` | limits, sizes, baskets, budgets, reviews; detection of the regime | `planning` |
| `DecisionMemory` | recommendations, paper portfolios, decisions, grades | `evaluation` |
| `PaperComparison` | Ideal, AI and actual portfolios | `evaluation` |
| `DecisionReports` | the screens on decisions and executions | `evaluation` |
| `PortfolioRecords` | the rows of portfolios as these are created and deleted beside writers | `evaluation`, `left_records` |
| `AssetIdentity` | registry, bootstrap, migration, backfill, cutover beside handlers | `asset_identity` |
| `RegistryGovernance` | proposals, reviewed manifests, lot evidence | `review` |
| `IntentRevisions` | abstract: the chain of revisions of an intent | `review` |
| `IntentLifecycle` | commands, log and snapshots of an intent; implements `IntentRevisions` | `review` |
| `HumanAuthority` | who may review | `review` |
| `HistoricalAuthority` | certificates, revocation, proposals | `review` |
| `SetLemmas`, `*Proofs` | lemmas on finite sets and sums; theorems, see section 5 | |
| `MC*` | small instances, and unions of modules that share no state | |

Some runs check several modules that share nothing but the process. Their MC module is
a union, not a product: a variable (`part`, `view`, `kind`, `planner`, `contract`), chosen
initially, says which of the modules moves in a behaviour. Every behaviour of each of the
modules is one of the union's; their products, in which nothing new can happen, are not explored.

### Ledger

A ledger is a sequence of transactions in commit order; a transaction's position
is its id. `ApplyTransaction` is `_apply_transaction` of the rebuilder,
`ValidatorHeldAfter` the arithmetic of `_replay_and_check`. The two differ in the
code and so they do here: the rebuilder keys by canonical symbol and closes a
position at zero, the validator keys by the recorded symbol and closes it at
0.001 shares. Shares are integers in a quantum chosen small enough to hold both
tolerances (`SellTolerance` 0.0001 and `Dust` 0.001 in the code), money an integer.
Average cost, fees, sector and currency are left out: no guard or share count
depends on them.

In `LiveLedger` the audits (`admin_validate_portfolio`, the validator's drift checks,
`verify_snapshots`) are operators over the state, since they write nothing; the properties say of
which state they find nothing. Every handler is one action, or a `Start...` and a `Finish...` action where
it may await; whether it does depends on caches, so both are possible. The history
variable `taints` records that something happened after which replay and the
stored state may part: `stale_cash` (a BUY wrote over a newer balance), `cash_edit`
and `row_deleted` (endpoints that edit without a transaction), `backdated`, `sign_lost` (a
negative correction with the caller's own note), `zero_row` (a row kept with nothing
in it), `dust` (a remainder the validator takes for zero). The properties say exactly
which of them they need excluded; without any one of those TLC finds a
counterexample, so the list is also the list of ways in which a portfolio drifts.

`Rebuild` adds `repairs`, `rebuild` (the running command: how much of the ledger it
loaded, with which repairs and which cash), `plan` and `applying`. `LoadForRebuild`,
`ValidateForRebuild` (which reads the ledger again) and `CommitRebuild` are separate
steps with the web process between them. A commit clears the taints, except
`overwritten`, which says that what was loaded was no longer what there is.

### Snapshots

`SnapshotSeries` has one portfolio with one symbol, a market price, days, transactions
with their day of recording, and snapshots by date. A generation reads cash and holdings
(`StartSnapshot`), awaits the price and writes (`FinishSnapshot`). `gain` is a history
variable: what price moves and dividends have really earned. Each stored snapshot
carries what it was computed from, so that properties can relate a return to what
happened between two readings. `SnapshotHistory` has the same rows with their
columns, a ledger whose entries may have an earlier date, closes per day, and the
other writers, each of which writes later than it reads: `StartRecovery`/`FinishRecovery` (all rows loaded, one commit),
`StartRebuild`/`FinishRebuild`, and the repair: `known` is what its session has loaded and not expired. A range is loaded
at once (`held`), a scan row by row (`RepairLoads`); `SkipRow` expires nothing, the commit of `RepairRow` everything; the row
before is looked up in the table but read as the session has it (`InSession`). `torn` and `chained` are history variables, and
`base` in a row, the value its return was measured from. `SoldOff` names the one case in which a rebuilt return is not
performance: a rebuild prices the flows of a day with the prices in that day's holdings, and for a symbol no
longer held falls back to the recorded price (`portfolio_metrics.py:139`). `SnapshotJob` has several portfolios, each with a `version`
that grows with every transaction; `loaded` and `CashSeen` model the session, whose
portfolios keep their values until a successful snapshot commits; after `WriteFails` it is of no more use (`broken`). `Restart`
loses everything but the database.

### Background work

In `AnalysisJobs` every stale symbol of a batch is a task: asked for, waiting for a permit of
the semaphore, for a thread, for the agents, for the language model. A call that times out
leaves an orphan that keeps its thread. `OptimizerRuns` has the handler as a program counter
over its awaits, one progress entry per portfolio, `saved` rows, and polls that take an entry
that is too old for crashed. `StartupMigration` has the stages of a start (`start`) with one action per
statement that commits: creating a table, then each of its indexes (`making`, `CreateIndex`), the defaults, adding a column, copying the flat table. `Die` may
come between any two of them, and also while requests are served; `left` remembers the database as the last process that
served requests left it, so that what comes up can be compared with what one start would make of it (`Upgraded`).

### Planning and advice

`OptimizerPlan` goes through the passes with `stage`; the proposal of the model is any function
from symbols to labels and weights (natural numbers, as the parser clamps them). The code sorts
the rows of a plan and cuts one after the other until a limit is met; the model gives what is left of each row in closed
form (`Ahead`, `Cut`), with `Place` for the order of rows with equal weights. Limits may come from the policy, the
regime or nowhere, and the fallback takes only some passes. `ExecutionPlan` builds a funding plan
in one step (`Before`, `Gap`, `Released`: what each source gives, in the order of `Rank`, is what of the gap those before it
leave), then asks a provider whose answers take time, and judges every action for the
log. `TradeEvidence` has the pure contracts: qualities, ages, fees, failures.
`PortfolioAdvice` resolves limits and has the four advisers, each with the envelope and the
prices it uses in the code, on books that change when advice is followed; `MarketRegime` is
what `detect_regime` makes of signals and recorded days.

### Decision memory and evaluation

`DecisionMemory` has threads that read and write apart, a command beside them that freezes recommendations too (each looks for
a shadow, makes one and gives it its past values in steps of their own), the daily job with a fault at any of
its commits, regeneration, repair and a reset; prices are looked for in the newest snapshots only, or in all where the code does so. `PaperComparison` and `DecisionReports`
compute what the screens compute, from rows that come to be in any legal order; a plan's trade may have no recommended
price or no amount, and a symbol several fills. `PortfolioRecords`
has the tables that name a portfolio, without their columns: which rows each of the two deletions removes, which ids
SQLite gives again, and what a request or thread that loaded its portfolio, or the row its own will be about, earlier still
writes, with the active model that is made to name another recommendation. A decision and an active model are for the portfolio
of their recommendation, which is what the pages send (`main.py:5188`, `5230` and `5407` take it from the request).

### Registry and review

`AssetIdentity` has the claims of a shape (its spellings in order of confidence), current and
former identifiers, commands that run step by step with checkpoints, and the transactions of two portfolios by id. The one that is
cut over stays; the other may be deleted, and its ids are given again, while a backfill writes by the ids of its plan.
Holdings and the watchlist have asset ids of their own (`labels`), which a backfill finds by symbol when it writes; they
are identified by portfolio and symbol, so a rollback resets a holding that was sold and bought again; the watchlist does not change,
holdings do not end while their portfolio exists, and the field `misplanned` is history for the property. The resolver's score arithmetic is reduced to
its outcomes. `RegistryGovernance` validates all instructions of a manifest against one view and
applies them in order. `IntentLifecycle` has commands that name the state and the sequence
their sender saw (`view`) and a key; `HumanAuthority` what is known of a human and when it
was lost; `HistoricalAuthority` certificates, revocation facts and proposals that are built again
while someone decides on them.

## 3. Runs

Passing runs:

| Run | Instance | What it shows |
|---|---|---|
| `live_ledger` | 1 symbol, 1 request that may wait beside any number that do not, 2 quantities that differ by the tolerance, 2 days, 3 transactions | `PortfolioMatchesReplay`: stored cash and holdings are the replay of the ledger, the validator can replay it, and the audits find nothing in either. `NeverShort`: oversell within the tolerance does not accumulate |
| `rebuild` | 3 transactions on one day, so that groups of duplicates overlap; no request waits | `PortfolioFollowsEffectiveLedger`: a rebuild resets drift and handlers carry on from it. `RebuildKeepsItsPlan`: idempotent, harmless on a healthy portfolio. `RebuildPassesTheGate`. `RepairsLeaveOne`, with plans from the raw and the effective ledger, applied late, forced or not |
| `snapshots` | 3 days, 2 prices, 2 transactions and 3 snapshots written; 3 entries, 2 generations and 1 rewrite | `ReturnsStripFlows`: returns contain market, trades and dividends only, each flow in one of them. `RowsAddUp`, `RewrittenReturnsChain`, `RebuiltReturnsArePerformance` of rewritten rows |
| `snapshot_job` | 2 portfolios, cron and one manual run, 1 request, 1 change per portfolio | `OneRunAtATime`, `CompletedCoversAll`, `TornOnlyAfterFailure`, `StuckOnlyAfterLoss`, and the liveness property `LockIsReleased` |
| `jobs` | a job and a streamed request over 2 symbols, 1 permit, 1 thread; 2 optimizer runs of one portfolio; starts: 2 tables, 2 stocks, 3 portfolios, 3 changes between starts, empty, current and older databases | `AnalysesAreAccountedFor`, `ProgressIsTruthful`, under fairness `JobsSettle` (batches and streams end, progress leaves RUNNING), and `InterruptionsShowInIndexesOnly` |
| `evaluation` | memory: 1 symbol, 4 days, 1 recommendation, prices found in the 2 newest snapshots; recommendations frozen by thread and command with gaps in the prices and 2 commands or faults, or models and approvals with 1; comparison: 5 days, 2 recommendations, 1 reset; reports: 2 decisions, 2 grades, 2 fills, 2 horizons; records: 3 portfolios created, 1 writer, 3 rows of 3 tables, or 5 rows with an active model, at most one of a table for each portfolio | `GradesDoNotLookAhead`, `RegenerationReproducesStatic`, `PaperPortfoliosCompare`, `ScreensAgree`, and `RecordsStayTogether`: of deleted portfolios in the tables its deletion covers nothing gets into another portfolio, and rows refer to rows of their own |
| `planning` | optimizer: 2 symbols of one sector, 4 envelopes; workspace: 3 holdings and a symbol to buy, 4 sets of buys, 2 provider calls; advice: 3 stocks, 3 first books, 5 market readings, 3 days, 2 pieces of advice | `DecisionsSurvive`, `LimitsHold`; `FundingClosesTheGap`, `LegsAreGrounded`; `AdviceHoldsUp`, `DoubtOnlyTightens` |
| `asset_identity` | one share with and without its suffix, ids up to 2, one on the watchlist, 1 run id, 4 steps of an administrator (commands, edits, a deletion, baselines, cutovers) | `IdsNameTheListing`, `CutoverHidesNothing` |
| `review` | 5 keys and 3 revisions; ages 1 and 2; 2 certificates of 10 and 2 facts; 3 symbols, 2 commits, 2 pieces of evidence | `ExecutionIsAuthorized`, `CommandsTakeEffectOnce`, `ImplementsRevisions`; `LossTakesEffect`; `CertificatesSettle`, `PreparationIsInformed`; `ManifestsKeepTheRegistry`, `SymbolsKeepTheirListing` |

Why the bounds are enough. Three transactions are an import or a buy, a sale that
leaves the tolerance, dust or nothing, and a correction or a second sale of the rest;
quantities 3 and 4 with tolerances 1 and 2 reach each side of every comparison. A
return needs two snapshots, stripping once a third day or a day taken again, a chain
of rewritten returns three rows. In the job the second portfolio sees a session that has committed or has failed with the first. In
`jobs` two tasks contend for the one permit while an orphan has the one thread, and of two
runs one can be taken for crashed while the other goes on. The first databases of a start lack nothing, everything, or columns that are and are
not patched, with and without a second portfolio. In `planning` two symbols of one
sector make position, sector and cash limits bite in either order, and weights 9 and 14 of 20 lie
on both sides of every limit; the deployments of `MCPlanning` are equal to, one cent more than and
much more than what two reductions release. `evaluation` needs a horizon of one day, a late
pass and the day after. In `review` two revisions can look alike from outside and
the third shows that a key is remembered; a fact's age and its lifetime take each order. The theorems of section 5 do not
depend on these bounds.

Runs that show a disagreement with a sentence of the code's own documentation; the
quotation is in `PROJECT.json`:

| Run | Property | What happens |
|---|---|---|
| `lost_cash` | `BuyReducesCash` | a BUY commits at once while another BUY waits for its sector; the one that waited stores a balance without the cost of the first |
| `quarter_price` | `ReleasesMatchShares` | a reduction by a quarter is given out as the release of the whole position, so its trade leg sells all shares at a quarter of their cost |
| `left_records` | `NewPortfolioIsEmpty` | the deletion command leaves repairs and grades of a portfolio; the next portfolio gets its id, and them |

Every property of a passing run has a mutant in `PROJECT.json`, a plausible bug in a
definition that models code, which TLC must find by that property. The mutated
definitions stand before the ones they replace, marked `Mutant:`.

`CHECK_DEADLOCK FALSE` is set where behaviours end at a bound of the instance. In `SnapshotJob` a
restart is always possible, so TLC's deadlock check stays on.

## 4. Fairness

* `SnapshotJob`: weak fairness of `TaskStep(t)` for every task. The event loop runs every
  task that is ready, and a price or benchmark fetch returns or raises, since its thread
  ends. Nothing is assumed of cron, requests, transactions, deletions or restarts.
* `AnalysisJobs`: weak fairness of every task's steps, of the timeout of a call
  (`asyncio.wait_for`), of the steps of a job and an open stream, and of the end of an
  abandoned call, since the client library has a timeout of its own. The semaphore and the pool
  are first come, first served in the code; the weaker assumption is enough.
* `OptimizerRuns`: weak fairness of the clock and of the client's polls, nothing of the runs: they
  may hang for ever, and the crash guard must end them.

The other modules state safety only.

## 5. Proofs

TLAPS checks the theorems for every value of the constants: any symbols, clients,
quantities, days, portfolios, batches, payloads, certificates. What is assumed is
what the `ASSUME`s of the modules say, and TLC evaluates them on every run:
canonical symbols are symbols and `NoSymbol` is none (`LedgerReplay`), quantities and amounts are
above zero and prices positive, the sell tolerance is not greater than the dust, lifetimes, ages and weights are
natural numbers, sets of symbols are finite, sector limits lie between 5 and 100 % and the position limit between 10 and 100 %, a basket has
between 1 and 1000 stocks, a portfolio's weights add up to the whole, the shapes
of transactions, plans and settings are typed and finite. Where a theorem needs more it
says so itself. The type invariants of the modules with theorems are proved (`TypeCorrect`, `JobTypes`, `SeriesIsTyped`, and as parts
of the other invariants), not run.

**`SetLemmas`** are about finite sets and sums over them. The library's induction theorems take an operator as a
parameter and cannot be instantiated, so each fact is proved from a least counterexample: `SetInduction` (a family of subsets that has
the empty set and grows by each element has the whole), that the community modules' `SumFunctionOnSet` has a value,
and then how it goes over insertion, union, addition, a factor and comparison. `MinOfNumbers` and `MaxOfNumbers` give the
`CHOOSE` of the community modules its value.

**`LedgerProofs`**, of the ledger and its rebuild.
Transactions of any set of ids have one replay order, in which each stands after as many as precede
it; one more transaction is an insertion into it: at its end if it is not backdated, and for cash, which is a sum, anywhere.
`TypeCorrect` and `NeverShortHolds` are inductive by themselves. `CashAndFindings` needs `LedgerInv`: besides the relation between stored
and replayed state it says `NoEmptyRow`, that a row without shares is a taint, because without it
a correction or a sale may find a row that replay has deleted. `PortfolioIsReplayed` adds the
holdings and the audits, and assumes `NoAliases`: over symbols whose canonical form is another symbol that
is also held, the handlers keep two rows and replay has one. Cash and the validator's findings need no such assumption.
The theorems on `Rebuild` start from `BaseInv`: what a rebuild, a plan
and a running repair refer to is a beginning of the ledger, and repairs name
transactions that are there. `RebuiltPortfolioFollows` and `RebuildsKeepTheirPlan` assume
`SelfCanonical`, since a rebuild stores holdings under canonical symbols (section 6).
For `RebuildsPassTheGate`, `GatePassed` uses that the ledger only grows, so that if its length is as
loaded, what was validated is what is committed. `PlanKept` follows the plan from the validation to the commit. For `RepairsKeepTheFirst`,
`RepairInv` says that whatever is excluded repeats an earlier import that is not, and that a plan
together with the repairs leaves no two alike; the last two hold over aliases.

**`SnapshotProofs`**, of the daily job and the series it writes.
The four safety properties of the job (`MutualExclusion`, `Coverage`, `TornSnapshots`, `StuckStatus`) follow for any number of portfolios,
tasks and requests from `JobInv` and `RunInv`: the task that runs is the one that holds the lock; what the
loop has behind it has a snapshot, failed, is deleted or was passed over after an error; what a session
has read ahead is of the moment of its last commit. `ReturnsAlwaysStripFlows` rests on a balance that no step changes:
what the portfolio is worth, less what it earned and what was put in. It is kept for the present and for the moment of
every stored row and waiting reading, so the difference of two rows is the earnings and the flows between them; the
flows a return strips are then summed window by window.

**`HistoryProofs`**, of rewritten rows. `RowsAlwaysAddUp` and `ReturnsStayChained` come from `RowsInv`: each row is
sound by itself, the return a repair or recovery left is based on the row before it unless one of the two was written
between reading and writing, a repair goes forward through its rows, and what a recovery loaded is there still. In the
proof a repair, a recovery and a rebuild may overlap and any number may follow; a behaviour of the run has one of them. `RebuiltReturnsAlwaysPerformance` adds that the ledger's entries are typed and dated no later than today,
splits the entries between two rows of a rebuild by their effect, and sums them; its arithmetic needs `~SoldOff`.

**`ReviewProofs`**. `LossIsEnforced` from `HumanInv`, whose point is `FactsPrecedeLoss`: facts that
still hold were stated before the loss, so the window of a result that rests on them ends in
time. `CertificatesAlwaysSettle` needs no induction: it is about `Verify` for every set of
certificates and facts. `PreparationIsAlwaysInformed` needs that a candidate below exact carries the warning.
`IntentInv` holds the log, the snapshots and the keys of an intent together (`LogIsOrdered`,
`SnapshotsFollowLog`, `ApprovalStands`, `OneEffectPerKey`). From it follow
`ExecutionIsAlwaysAuthorized`, `CommandsAlwaysTakeEffectOnce`, and, with `phase <- PhasesOf(snapshots)`,
`RevisionsAreImplemented`: every step of the lifecycle is a step or a stutter of `IntentRevisions`.
`ManifestsAlwaysKeepTheRegistry` and `SymbolsAlwaysKeepTheirListing` are about manifests of any length: the application of one is a recursive
function from how many instructions are done to the registry, so what it leaves is shown for each count from the one before
(`CountUp`, from the least number at which it fails). `GovernanceInv` says that the last committed manifest is settled in the
registry, that proposals are typed, and that only one manifest links a receipt to several underlyings: a second manifest
is validated against the first one's links.

**`JobProofs`**. `ProgressIsAlwaysTruthful` from `ProgressInv` (an entry that says OK was
written after a save, for its portfolio), and `AnalysesAlwaysAccountedFor` from `AnalysisInv`, which
accounts for every symbol of every batch at each moment: asked for, waiting, running, delivered,
counted; and for what a stream has sent. `InterruptedStartsShowInIndexesOnly` needs
`StartInv`: at each stage (`FarSoGood`) what has been made of the database since the last process that served requests lies between
what that one left and what one start makes of it, and the columns of the portfolios are untouched unless
their table was created, since they are counted before they are patched. `IdsAlwaysNameTheListing` rests on `IdentityInv`: the registry is typed, and attaching
never takes a spelling from its asset, so what held a spelling goes on to have held it; the cache, the plans of running
commands, the labels and the rows name only such assets, and a backfill's plan names rows of its shape or rows recorded
since under an id it had planned for (`RowsKeep`). `CutoverAlwaysHidesNothing` needs `CutoverInv`, that a baseline of the
rows by symbol is the replay of the rows that are there, and `SameCountsCover`: when the reports by symbol and by asset id are identical, the
reported positions already account for every row, so none is hidden behind another.

**`PlanningProofs`**. `DecisionsAlwaysSurvive` goes pass by pass, whatever the limits cut. `LimitsAlwaysHold` does too, with
what each pass leaves true for the next: the cuts of one limit take its whole excess up to
the first row that keeps something, so after them the limit holds or nothing grows, and no later pass raises a
row but by a label it changes, which the property names. `FundingAlwaysClosesTheGap` comes from the closed form of the greedy
funding: a source is taken whole unless it is more than what is left of the gap, behind one that is cut nothing is left to
ask for, so at most one is cut and nothing kept is smaller than what is sold. `LegsAreAlwaysGrounded` needs `LegInv` (one batch of
typed quotes and registry facts until all are answered), lemmas on division by lots and steps, and that what the policy accepts the
contract accepts, and conversely.
`DoubtAlwaysTightens` needs only that the regime detected is one of the table and its confidence a number; the rest is that rounding, clamping and least and greatest keep order.
`AdviceAlwaysHoldsUp` is about portfolios that follow sizes or a construction one purchase after another. That limits hold once all is bought
is not inductive, so `AdviceInv` says it of every moment at once: what is left of the sizes still fits (`SizesFit`), in
cash (`CashCovers`) and in each sector (`SectorsFit`, `SectorsAtEase`), up to one unit of rounding per stock. A purchase moves
an amount from what is left to what is held, so the sums stay (`PurchaseMoves`); that sizes fit when they are given
comes from lemmas on shares that are rounded, scaled down and capped (`RoundedShifts`, `SharesAddUp`, `ScaledFits`). The reserve of cash is promised only of a
construction about which the simulation did not warn: what the proof could not show, the code does not do.

**`EvaluationProofs`**. `RecordsAlwaysStayTogether`: portfolios are typed, ids are given once, the owner of a row is known, what is left behind
is explained by how its portfolio was deleted, references hold, and what a writer read is still there as long as its portfolio is
(`WritersHold`): an active model that it changes is the one it found. `GradesNeverLookAhead` and `RegenerationAlwaysReproducesStatic` share `MemoryInv`: a
recommendation's frozen shadows, however many, hold its plan at the prices of its day if these were found, the first of them stays the first, so that all
grades are taken from it, its values are those of its holdings at the prices of their days,
the prices of past days stay, and only past days are valued, so that regeneration computes from the same numbers where both look at the same snapshots.
`ScreensAlwaysAgree` compares reports that sum over decisions, fills and components in orders and groups of their own. `ReportsInv` has what they
share: rows are typed, decisions follow the recommendations they name (`DecisionsFollow`), and a grade is of a day within
its horizon, at most a fixed gap before the end of it (`GradesMature`). Sums over the same fills are then equal, two sides of an account add up to the whole, and a mean of 100 has only parts of 100
(`MeanOfMarks`), of which a timing of 100 means a rounded average of zero (`RoundedToNothing`). Two horizons are compared only where they lie at least that gap apart (`HorizonsApart`): otherwise the grade of the
later horizon may end first. `ChartAlwaysMatchesCard` is the part of `PaperPortfoliosCompare` in which nothing is rounded: the chart's line is chained
over the days whose value has one before it, the card's return over the days of the period, and the two end with
one number because the last day of either is the same and so is the day before its first.

## 6. Where code and documentation differ, and what is not modelled

### Disagreements the models reproduce

The three findings in `PROJECT.json` have runs of their own. The others below were met while
modelling; the models have the behaviour of the code, and the properties name it as an
exemption or leave it out.

Ledger and rebuild
* A rebuild that overlaps a request stores a portfolio without it (`portfolio_rebuilder.py:1946`,
  though lines 3-4 call the ledger the single source of truth): the taint `overwritten`.
* A rebuild stores holdings under canonical symbols (`portfolio_rebuilder.py:1327`), while the validator
  compares recorded symbols with rows (`ledger_validator.py:941`) and advises another rebuild,
  for ever. A holding whose report symbol is held twice violates `uq_portfolio_symbol`.
* Two deposits of different amounts on one day have one fingerprint (`ledger_validator.py:575`): the
  generated plan excludes the second, though `ledger_repair_plan.py:109` speaks of duplicates.
* The oversell tolerance leaves a row with less than nothing; a later import can be sold in full
  and more. A correction loses its sign with the caller's own note (`sign_lost`).

Snapshots
* A flow recorded after the day's snapshot is in no window (`portfolio_snapshots.py:483` against
  lines 16-17); `ReturnsStripFlows` says which flows are stripped.
* Cash and holdings of a row may be of different moments (`portfolio_snapshots.py:317` against line 3):
  `TornOnlyAfterFailure` says when. A portfolio deleted during the job, or a snapshot whose
  flush fails (the handler's own log line, `snapshot_scheduler.py:237-240`, then reads an expired instance of a session nobody rolled back), leaves the
  status `running` (`snapshot_scheduler.py:111`): `StuckOnlyAfterLoss`.
* "Failure on one does not abort the rest" (`snapshot_repair.py:799-800`), but an exception does. A repair writes
  neither cash nor realized gains, and the row after a repaired one keeps its base. Both commands measure a return from the
  row before as their session loaded it (`snapshot_repair.py:643-655`, `snapshot_return_recovery.py:207-255`), though a generation may have
  replaced it since: `RewrittenReturnsChain` leaves such rows out.
* Recovery and repair value imports at their recorded price, generation and rebuild at the day's;
  the first two take windows of recording, the rebuild of transaction dates. A backdated round trip is never
  priced. The corruption scan flags healthy days of import.

Optimizer, policy and advice
* `constraint_resolver.py` says "enforced deterministically — AI output cannot override"; position and
  sector caps are, but ACCUMULATE rows above a cap, the turnover and the number of new positions are
  only flagged. A fallback plan takes no envelope and no cooldown; a forced sale
  may be held by a cooldown. A target of zero is read as no target (`stabilization.py:135`).
* `position_sizing` excludes scores below 40 unless all are excluded, and then weighs all equally;
  it and the simulator disagree about a weight exactly at the cap; no adviser but the review of ideas
  uses the persona. Scores of zero are read as 50.
* "Higher discount = more uncertain = tighter limits" (`policy_engine.py`) does not hold where an
  emergency needs confidence: less of it can loosen limits. The "safe neutral result"
  for lost benchmarks makes both emergency detectors fire (`regime_detector.py:752`).

Funding, execution and evidence
* `funding_source_analysis.py:42-43` against lines 122-155 (the run `quarter_price`); the fewest positions are
  not always disturbed (offers of 10, 20 and 100 for a gap of 100); a gap of at most a cent stays
  INSUFFICIENT.
* The older provider's quotes carry the time of the request as that of receipt, so they are always current; the chart
  provider's carry their own, after the assessment, and their age is unknown. Eligibility
  telemetry always says `legacy_permitted`.

Evaluation
* The scorecard says its shortfall is "the exact same figure" as Gap A (`scorecard.py:184-188`), but subtracts the
  model's return over the period from Ideal's return since its seed. Reports count decisions as
  recommendations, approved ones included (`human_vs_ai.py:407-417`, `trust_report.py:23-25`).
  Screens choose the latest window, the greatest horizon within the period, or the horizons of the
  settings; windows begin at midnight or at this time of day. A SELL filled cheaper counts as positive;
  the linked transaction's side is not checked. The execution score averages the trades of a symbol, so one above and one
  below the price count as none, and leaves out what has no recommended price or no planned amount
  (`execution_analyzer.py:144-199`): full marks say of such a symbol only that it was traded, which is how
  `FullMarksMeanAsPlanned` states them.

* A recommendation that finds no price on its day is frozen at the latest (`shadow_tracker.py:1052-1054`), which may be of a later day when a command
  freezes it, and a repair buys at the first price after it: grades of such shadows look ahead, and `GradesDoNotLookAhead` says nothing of their value.
  A symbol last priced more than 200 snapshots ago has no price for the job (`shadow_tracker.py:164`), but has one for the replay of a
  regeneration (1173-1178), which then changes the values of those days. A thread and a command may freeze one recommendation twice.

Portfolios created and deleted
* An active model that the endpoint's deletion left is taken over by the portfolio that gets the id: its next run finds it by
  the id (`shadow_tracker.py:883`), spreads its value and makes it name its own recommendation (927).
* Either deletion forgets something. The endpoint (`main.py`) deletes the items, transactions and snapshots the ORM knows
  as children; the command (`manage.py:2010`) also the decision memory, but neither `recommendation_grades`,
  `ledger_repairs` nor `confidence_calibration_records`. SQLite gives the greatest id again, so an EXCLUDE repair that is left can
  exclude a transaction of a new portfolio, and a grade that is left keeps a new recommendation from being graded.
* The endpoint refuses to delete the last portfolio, the command does not; the counts the command shows
  (`manage.py:1955-2007`) are read before it asks. A writer that loaded a portfolio earlier writes for it after its
  deletion; a late snapshot may overwrite one of the portfolio that got the id.
* The audit of unrealized gains complains of every row whose price is missing.

Start of the web process
* Starts that are cut short leave what one start would, with three exceptions (`models/database.py`). In SQLite `create_all` commits
  each table and each of its indexes by itself (658-659), and the next start passes over a table that is there: one that died in between leaves the
  table without, for instance, the unique index on `optimizer_history_id` (393), for good. The
  portfolios are counted, with all their columns, before a missing column is added to them, so an SQLite file whose portfolios lack one never
  comes up. And the flat table is copied at every start, so holdings of the first portfolio that were sold come back with the next
  one, where that table is still there.

Registry and review
* A legacy shape "must still resolve decisively" (`resolver_domain.py:101-108`), but 50 × 0.95 is below 50. The cache keeps misses
  for five minutes. A backfill writes by transaction ids (`ledger_asset_backfill.py:179`), which SQLite gives again when a portfolio
  was deleted meanwhile: the row of another listing then gets the asset (`misplanned`). A rollback does clobber a value that was written again with the same
  value; resuming a rolled back run skips its shapes.
* The cutover commits without reading the ledger again (`replay_cutover.py:147`); a rebuild after it
  recreates items without `asset_id`.
* Manifests are validated as a whole and applied one by one: two links of one receipt pass; an ATTACH's value need not be the
  requested symbol.
* At an age of exactly the maximum the identity contract raises `ValueError` instead of returning a verdict
  (`execution_intent_identity.py:514`). A certificate's `supersedes_certificate_id` is ignored, and
  finalizing does not verify again. Two exact certificates of one decision that name no approval event are never compared
  (`execution_intent_authority.py:964-969`).

### Not modelled

Average cost, fees, sectors, currencies, realized gains and wording; replay keys by asset id
outside `AssetIdentity`; SUPPRESS_FINDING and hand-written repair plans; partial price coverage and the
breakdown of a snapshot; the holiday calendar; more than one workspace; PostgreSQL. Agents, scoring,
market data, search, analytics and the front end, and of the database the Alembic migrations, are listed in
`PROJECT.json` with their reasons.

Hazards without a property: which of two overlapping generations or rebalancings should win, and
whether a missed day is made up for, since nothing in the code promises either; and rebuilds over
aliases, above.

## 7. What is only model-checked

* Liveness (`LockIsReleased`, `JobsSettle`): neither fairness nor `ENABLED` can be reasoned about
  with these provers.
* `PaperPortfoliosCompare`, except for the chart and the card. The model's paper portfolios have whole shares, and the comparison is exact
  only where the amounts divide; the weights, prices and base of the run are chosen so that they do. For other constants it is
  a statement about roundings the code, which has fractions of shares, does not make.
* `BuyReducesCash`, `ReleasesMatchShares`, `NewPortfolioIsEmpty` do not hold; section 3 has their runs.

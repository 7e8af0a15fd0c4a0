----------------------------- MODULE SnapshotJob -----------------------------
(***************************************************************************)
(* The daily job that takes a snapshot of every portfolio                  *)
(* (services/snapshot_scheduler.py, routers/scheduler.py), beside the      *)
(* requests that take one of a single portfolio, record transactions and   *)
(* create and delete portfolios (main.py).                                 *)
(*                                                                         *)
(* All of it runs on one event loop: a step lasts from one await to the    *)
(* next.  The job keeps one database session throughout.  What it has      *)
(* loaded stays as it was until a commit of that session expires all of    *)
(* it; reading an expired portfolio that was deleted raises, and so does   *)
(* reading any expired one after a write of the session has failed.        *)
(*                                                                         *)
(* The portfolios have holdings, so each of them waits for prices, and are *)
(* in one workspace.                                                       *)
(***************************************************************************)
EXTENDS Integers, FiniteSets, FiniteSetsExt

CONSTANTS MaxPortfolio, \* bound: portfolio ids
          CronTask,     \* the run the cron trigger starts
          ManualTasks,  \* runs started by POST /scheduler/run-snapshots
          Requests,     \* POST /snapshots/generate
          NoTask,
          MaxVersion    \* bound: changes of a portfolio

ASSUME JobAssumption ==
  /\ MaxPortfolio \in Nat \ {0}
  /\ CronTask \notin ManualTasks
  /\ NoTask \notin ManualTasks \union {CronTask}
  /\ MaxVersion \in Nat

Tasks        == {CronTask} \union ManualTasks
PortfolioIds == 1..MaxPortfolio
Versions     == 0..MaxVersion

VARIABLES portfolios, \* ids in the portfolios table
          version,    \* per id: how often its cash and holdings have changed
          rows,       \* per id: today's snapshot
          lock,       \* the task that holds _job_lock
          tasks,      \* the tasks on the event loop
          lastRun,    \* _last_run
          requests    \* snapshots that requests are taking

jobVars == <<portfolios, version, rows, lock, tasks, lastRun, requests>>

NoRow == [exists |-> FALSE]

\* The versions of the cash and of the holdings a snapshot is made of, and, as
\* history, whether the job made it after it had failed with another portfolio.
Row == [exists : {TRUE}, cash : Versions, holdings : Versions,
        by : {"job", "request"}, afterFailure : BOOLEAN]

\* loaded: the cash of each portfolio when the job loaded them all.
\* current and its reading: the portfolio whose prices are awaited.
\* broken: the session has failed to commit and can do nothing more.
Task == [phase : {"idle", "created", "fetching", "looping", "benchmarks"},
         queue : SUBSET PortfolioIds,
         loaded : [PortfolioIds -> Versions],
         ok : Nat, failed : Nat,
         current : 0..MaxPortfolio, cash : Versions, holdings : Versions,
         broken : BOOLEAN]

NoPortfolio == 0

IdleTask == [phase |-> "idle", queue |-> {}, loaded |-> [p \in PortfolioIds |-> 0],
             ok |-> 0, failed |-> 0,
             current |-> NoPortfolio, cash |-> 0, holdings |-> 0, broken |-> FALSE]

\* The status and, as history, the portfolios the run was to cover that were
\* not deleted since, their versions when it began, whether one was deleted
\* while it ran and whether a snapshot could not be written.
Run == [status : {"none", "running", "completed", "partial_failure", "failed"},
        covers : SUBSET PortfolioIds, since : [PortfolioIds -> Versions],
        deletion : BOOLEAN, unwritten : BOOLEAN]

NoRun == [status |-> "none", covers |-> {}, since |-> [p \in PortfolioIds |-> 0],
          deletion |-> FALSE, unwritten |-> FALSE]

IdleRequest == [portfolio |-> NoPortfolio, read |-> 0]

JobInit ==
  /\ portfolios = PortfolioIds
  /\ version = [p \in PortfolioIds |-> 0]
  /\ rows = [p \in PortfolioIds |-> NoRow]
  /\ lock = NoTask
  /\ tasks = [t \in Tasks |-> IdleTask]
  /\ lastRun = NoRun
  /\ requests = [r \in Requests |-> IdleRequest]

-----------------------------------------------------------------------------
(* Starting the job.                                                       *)

Create(t) ==
  /\ tasks[t].phase = "idle"
  /\ tasks' = [tasks EXCEPT ![t].phase = "created"]
  /\ UNCHANGED <<portfolios, version, rows, lock, lastRun, requests>>

\* run_snapshot_job on a trading day.
CronFires == Create(CronTask)

\* run_snapshots_now: refused with 409 while a run holds the lock.
RequestRun(t) == t \in ManualTasks /\ lock = NoTask /\ Create(t)

\* Another run got the lock between the creation of the task and its start.
SkipRun(t) ==
  /\ tasks[t].phase = "created"
  /\ lock # NoTask
  /\ tasks' = [tasks EXCEPT ![t] = IdleTask]
  /\ UNCHANGED <<portfolios, version, rows, lock, lastRun, requests>>

\* Mutant: an instance is never refreshed (expire_on_commit off).
CashLoaded(task, p) == task.loaded[p]

\* The cash_balance of the instance the session has for p: a successful
\* snapshot has committed and expired it, a failed one has not.
CashSeen(task, p) == IF task.ok > 0 THEN version[p] ELSE task.loaded[p]

\* generate_daily_snapshot up to the await: holdings are queried.
Fetching(task, p) ==
  [task EXCEPT !.phase = "fetching", !.queue = @ \ {p}, !.current = p,
               !.cash = CashSeen(task, p), !.holdings = version[p]]

\* A run from the lock to the first await.
StartRun(t) ==
  /\ tasks[t].phase = "created"
  /\ lock' = t
  /\ lastRun' = [status |-> "running", covers |-> portfolios, since |-> version,
                 deletion |-> FALSE, unwritten |-> FALSE]
  /\ \E p \in portfolios :
       tasks' = [tasks EXCEPT ![t] =
         Fetching([IdleTask EXCEPT !.queue = portfolios, !.loaded = version], p)]
  /\ UNCHANGED <<portfolios, version, rows, requests>>

\* Mutant: the lock is not looked at.
BeginRunAnyway(t) == StartRun(t)

\* Between the look at the lock and its acquisition nothing is awaited.
BeginRun(t) == lock = NoTask /\ StartRun(t)

-----------------------------------------------------------------------------
(* The loop over the portfolios.  From "looping" the code goes on without  *)
(* an await; what happens in between could have happened while it awaited  *)
(* the prices before.                                                      *)

\* Mutant: the lock is not released on the way out.
StayLocked(t) ==
  /\ tasks' = [tasks EXCEPT ![t] = IdleTask]
  /\ UNCHANGED lock

\* An exception leaves the job: the status stays as it is.
Crash(t) ==
  /\ tasks' = [tasks EXCEPT ![t] = IdleTask]
  /\ lock' = NoTask

\* The reading is used up.
Looping(task) ==
  [task EXCEPT !.phase = "looping", !.current = NoPortfolio, !.cash = 0, !.holdings = 0]

Upsert(p, cash, holdings, by, afterFailure) ==
  rows' = [rows EXCEPT ![p] = [exists |-> TRUE, cash |-> cash, holdings |-> holdings,
                               by |-> by, afterFailure |-> afterFailure]]

\* The snapshot is committed; if the portfolio was deleted meanwhile, the log
\* line after it raises, and so does the one in its exception handler.  (SQLite
\* does not mind that the row's portfolio is gone.)
SnapshotTaken(t) ==
  LET task == tasks[t]
  IN  /\ task.phase = "fetching"
      /\ Upsert(task.current, task.cash, task.holdings, "job", task.failed > 0)
      /\ IF task.current \in portfolios
         THEN /\ tasks' = [tasks EXCEPT ![t] = [Looping(task) EXCEPT !.ok = @ + 1]]
              /\ UNCHANGED lock
         ELSE Crash(t)
      /\ UNCHANGED <<portfolios, version, lastRun, requests>>

\* Mutant: the exception is not caught.
SnapshotFailureRaises(t) ==
  /\ tasks[t].phase = "fetching"
  /\ Crash(t)
  /\ UNCHANGED <<portfolios, version, rows, lastRun, requests>>

\* A SnapshotCoverageError, or another one before the commit.
SnapshotFails(t) ==
  /\ tasks[t].phase = "fetching"
  /\ tasks' = [tasks EXCEPT ![t] = [Looping(tasks[t]) EXCEPT !.failed = @ + 1]]
  /\ UNCHANGED <<portfolios, version, rows, lock, lastRun, requests>>

\* db.commit() raises.  A failed flush has rolled back and expired everything,
\* and the handler's log line raises too; a failed commit expires nothing, but
\* the session, which nobody rolls back, is of no more use.
WriteFails(t) ==
  /\ tasks[t].phase = "fetching"
  /\ lastRun' = [lastRun EXCEPT !.unwritten = TRUE]
  /\ \/ Crash(t)
     \/ /\ tasks' = [tasks EXCEPT ![t] =
                        [Looping(tasks[t]) EXCEPT !.failed = @ + 1, !.broken = TRUE]]
        /\ UNCHANGED lock
  /\ UNCHANGED <<portfolios, version, rows, requests>>

\* A portfolio that was deleted, or that a broken session looks for, is not
\* found, which counts as a failure, unless its instance has expired: then
\* reading its id raises.
NextPortfolio(t) ==
  LET task == tasks[t]
      found(p) == p \in portfolios /\ ~task.broken
  IN  /\ task.phase = "looping"
      /\ \E p \in task.queue :
           \/ /\ found(p)
              /\ tasks' = [tasks EXCEPT ![t] = Fetching(task, p)]
              /\ UNCHANGED lock
           \/ /\ ~found(p) /\ task.ok = 0
              /\ tasks' = [tasks EXCEPT ![t].queue = @ \ {p}, ![t].failed = @ + 1]
              /\ UNCHANGED lock
           \/ /\ ~found(p) /\ task.ok > 0
              /\ Crash(t)
      /\ UNCHANGED <<portfolios, version, rows, lastRun, requests>>

LoopEnds(t) ==
  /\ tasks[t].phase = "looping"
  /\ tasks[t].queue = {}
  /\ tasks' = [tasks EXCEPT ![t].phase = "benchmarks"]
  /\ UNCHANGED <<portfolios, version, rows, lock, lastRun, requests>>

\* Mutant: one success is enough.
StatusByAnySuccess(task) == IF task.ok > 0 THEN "completed" ELSE "failed"

FinalStatus(task) ==
  IF task.failed = 0 THEN "completed"
  ELSE IF task.ok = 0 THEN "failed" ELSE "partial_failure"

\* Whatever the benchmarks did, the run is over.
EndRun(t) ==
  /\ tasks[t].phase = "benchmarks"
  /\ lock' = NoTask
  /\ lastRun' = [lastRun EXCEPT !.status = FinalStatus(tasks[t])]
  /\ tasks' = [tasks EXCEPT ![t] = IdleTask]
  /\ UNCHANGED <<portfolios, version, rows, requests>>

-----------------------------------------------------------------------------
(* The requests.                                                           *)

StartRequest(r, p) ==
  /\ requests[r] = IdleRequest
  /\ p \in portfolios
  /\ requests' = [requests EXCEPT ![r] = [portfolio |-> p, read |-> version[p]]]
  /\ UNCHANGED <<portfolios, version, rows, lock, tasks, lastRun>>

EndRequest(r) ==
  /\ requests[r] # IdleRequest
  /\ requests' = [requests EXCEPT ![r] = IdleRequest]
  /\ UNCHANGED <<portfolios, version, lock, tasks, lastRun>>

RequestTakes(r) ==
  /\ EndRequest(r)
  /\ Upsert(requests[r].portfolio, requests[r].read, requests[r].read, "request", FALSE)

RequestFails(r) == EndRequest(r) /\ UNCHANGED rows

\* A transaction is committed: cash and holdings change together.
ChangePortfolio(p) ==
  /\ p \in portfolios
  /\ version[p] < MaxVersion
  /\ version' = [version EXCEPT ![p] = @ + 1]
  /\ UNCHANGED <<portfolios, rows, lock, tasks, lastRun, requests>>

\* The database gives a new portfolio the id after the greatest one.
CreatePortfolio ==
  /\ Max(portfolios) < MaxPortfolio
  /\ portfolios' = portfolios \union {Max(portfolios) + 1}
  /\ UNCHANGED <<version, rows, lock, tasks, lastRun, requests>>

\* delete_portfolio; its snapshots go with it.
DeletePortfolio(p) ==
  /\ p \in portfolios
  /\ Cardinality(portfolios) > 1
  /\ portfolios' = portfolios \ {p}
  /\ rows' = [rows EXCEPT ![p] = NoRow]
  /\ lastRun' = [lastRun EXCEPT !.covers = @ \ {p},
                                !.deletion = @ \/ lock # NoTask]
  /\ UNCHANGED <<version, lock, tasks, requests>>

\* The process ends and starts again: only the database is left.
Restart ==
  /\ lock' = NoTask
  /\ tasks' = [t \in Tasks |-> IdleTask]
  /\ lastRun' = NoRun
  /\ requests' = [r \in Requests |-> IdleRequest]
  /\ UNCHANGED <<portfolios, version, rows>>

-----------------------------------------------------------------------------

TaskStep(t) ==
  \/ SkipRun(t)
  \/ BeginRun(t)
  \/ SnapshotTaken(t)
  \/ SnapshotFails(t)
  \/ WriteFails(t)
  \/ NextPortfolio(t)
  \/ LoopEnds(t)
  \/ EndRun(t)

RequestStep ==
  \/ \E t \in ManualTasks : RequestRun(t)
  \/ \E r \in Requests : \/ \E p \in PortfolioIds : StartRequest(r, p)
                         \/ RequestTakes(r)
                         \/ RequestFails(r)
  \/ \E p \in PortfolioIds : ChangePortfolio(p) \/ DeletePortfolio(p)
  \/ CreatePortfolio

JobNext ==
  \/ CronFires
  \/ \E t \in Tasks : TaskStep(t)
  \/ RequestStep
  \/ Restart

\* The event loop runs every task that is ready, and a price fetch returns.
JobSpec == JobInit /\ [][JobNext]_jobVars /\ \A t \in Tasks : WF_jobVars(TaskStep(t))

-----------------------------------------------------------------------------
(* Properties.                                                             *)

JobTypeOK ==
  /\ portfolios \subseteq PortfolioIds /\ portfolios # {}
  /\ version \in [PortfolioIds -> Versions]
  /\ rows \in [PortfolioIds -> {NoRow} \union Row]
  /\ lock \in Tasks \union {NoTask}
  /\ tasks \in [Tasks -> Task]
  /\ lastRun \in Run
  /\ requests \in [Requests -> [portfolio : 0..MaxPortfolio, read : Versions]]

Executing(t) == tasks[t].phase \in {"fetching", "looping", "benchmarks"}

\* At most one run executes, whichever of cron and requests started the tasks
\* and in whichever order the loop runs them, and it is the one whose lock and
\* "running" status GET /scheduler/status shows.
OneRunAtATime ==
  \A t \in Tasks : Executing(t) => lock = t /\ lastRun.status = "running"

\* After a run with status "completed" every portfolio that it began with and
\* that still exists has a snapshot, no older than the run: no portfolio was
\* passed over, unless a request wrote an older one over it.
CompletedCoversAll ==
  lastRun.status = "completed" =>
    \A p \in lastRun.covers :
      /\ rows[p].exists
      /\ rows[p].by = "job" => rows[p].holdings >= lastRun.since[p]

\* Cash and holdings of a snapshot are of one moment, unless the job took it
\* after it had failed with another portfolio.
TornOnlyAfterFailure ==
  \A p \in PortfolioIds :
    rows[p].exists /\ rows[p].cash # rows[p].holdings => rows[p].afterFailure

\* The status stays "running" after the run only if a portfolio was deleted
\* while it ran or a snapshot it had computed could not be written: no failure
\* of prices or benchmarks, and no transaction beside it, does that.
StuckOnlyAfterLoss ==
  lock = NoTask /\ lastRun.status = "running" => lastRun.deletion \/ lastRun.unwritten

\* Every run lets go of the lock, also when it raises: it is never the reason
\* that all later runs are skipped.
LockIsReleased == \A t \in Tasks : lock = t ~> lock # t
=============================================================================

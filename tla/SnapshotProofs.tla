--------------------------- MODULE SnapshotProofs ---------------------------
(***************************************************************************)
(* The daily snapshots: the safety of the scheduled job, for any number of *)
(* portfolios, manual runs, requests and changes; and the returns along    *)
(* the series, for any prices, moves, days, transactions and overlapping   *)
(* generations.                                                            *)
(***************************************************************************)
EXTENDS SnapshotJob, SnapshotSeries, SetLemmas, SequenceTheorems

-----------------------------------------------------------------------------
(* Types.                                                                  *)

\* A nonempty set of ids has a greatest one.
LEMMA MaxOfIds ==
  ASSUME NEW n \in Nat, NEW S \in SUBSET (1..n), S # {}
  PROVE  Max(S) \in S
<1> DEFINE UpTo == {x..n : x \in S}
<1>1. IsFiniteSet(1..n) /\ UpTo \subseteq SUBSET (1..n) /\ UpTo # {}
  <2>1. IsFiniteSet(1..n)
    BY FS_Interval
  <2>2. \A x \in S : x..n \subseteq 1..n
    OBVIOUS
  <2>3. UpTo # {}
    OBVIOUS
  <2> QED
    BY <2>1, <2>2, <2>3
<1>2. UpTo \subseteq FiniteSubsetsOf(1..n)
  BY <1>1, FS_Subset DEF FiniteSubsetsOf
<1>3. PICK u \in UpTo : \A v \in UpTo : ~ (<<v, u>> \in StrictSubsetOrdering(1..n))
  BY <1>1, <1>2, FS_StrictSubsetOrderingWellFounded, WFMin
<1>4. PICK m \in S : u = m..n
  OBVIOUS
<1>5. ASSUME NEW y \in S, m < y
      PROVE  FALSE
  <2>1. y..n \subseteq m..n /\ m \in m..n /\ m \notin y..n
    BY <1>5
  <2>2. <<y..n, m..n>> \in StrictSubsetOrdering(1..n)
    BY <2>1, <1>1 DEF StrictSubsetOrdering
  <2> QED
    BY <2>2, <1>3, <1>4
<1>6. \A y \in S : m >= y
  BY <1>5
<1> QED
  BY <1>6 DEF Max

\* Deleting one of several portfolios leaves one.
LEMMA OthersRemain ==
  ASSUME NEW S, NEW p \in S, Cardinality(S) > 1
  PROVE  S \ {p} # {}
<1>1. ASSUME S = {p}
      PROVE  FALSE
  <2>1. Cardinality({p}) = 1
    BY FS_Singleton
  <2> QED
    BY <1>1, <2>1
<1> QED
  BY <1>1

LEMMA Zeros == /\ 0 \in Nat /\ 0 \in Versions /\ 0 \in 0..MaxPortfolio
               /\ PortfolioIds \subseteq 0..MaxPortfolio /\ PortfolioIds # {}
BY JobAssumption DEF Versions, PortfolioIds

LEMMA NoRunType == NoRun \in Run
BY Zeros DEF NoRun, Run

LEMMA IdleRequestType == IdleRequest \in [portfolio : 0..MaxPortfolio, read : Versions]
BY Zeros DEF IdleRequest, NoPortfolio

LEMMA IdleTaskType == IdleTask \in Task
BY Zeros DEF IdleTask, Task, NoPortfolio

LEMMA LoopingType ==
  ASSUME NEW task \in Task
  PROVE  Looping(task) \in Task
BY Zeros DEF Looping, Task, NoPortfolio

LEMMA InitType == JobInit => JobTypeOK
BY Zeros, NoRunType, IdleRequestType, IdleTaskType DEF JobInit, JobTypeOK, Tasks

LEMMA FetchingType ==
  ASSUME JobTypeOK, NEW task \in Task, NEW p \in PortfolioIds
  PROVE  Fetching(task, p) \in Task
<1>1. CashSeen(task, p) \in Versions /\ version[p] \in Versions
  BY DEF CashSeen, JobTypeOK, Task
<1>2. p \in 0..MaxPortfolio
  BY JobAssumption DEF PortfolioIds
<1> QED
  BY <1>1, <1>2 DEF Fetching, Task

LEMMA CrashType ==
  ASSUME JobTypeOK, NEW t \in Tasks, Crash(t)
  PROVE  lock' \in Tasks \union {NoTask} /\ tasks' \in [Tasks -> Task]
BY IdleTaskType DEF Crash, JobTypeOK

LEMMA UpsertType ==
  ASSUME JobTypeOK, NEW p \in 0..MaxPortfolio, NEW cashAt \in Versions, NEW holdingsAt \in Versions,
         NEW by \in {"job", "request"}, NEW afterFailure \in BOOLEAN,
         Upsert(p, cashAt, holdingsAt, by, afterFailure)
  PROVE  rows' \in [PortfolioIds -> {NoRow} \union Row]
BY DEF Upsert, JobTypeOK, Row

\* Every step keeps the types.
LEMMA TypeStep == JobTypeOK /\ [JobNext]_jobVars => JobTypeOK'
<1> SUFFICES ASSUME JobTypeOK, [JobNext]_jobVars
             PROVE  JobTypeOK'
  OBVIOUS
<1>1. ASSUME NEW t \in Tasks, Create(t)
      PROVE  JobTypeOK'
  <2>1. tasks[t] \in Task /\ [tasks[t] EXCEPT !.phase = "created"] \in Task
    BY DEF JobTypeOK, Task
  <2> QED
    BY <1>1, <2>1 DEF Create, JobTypeOK
<1>2. ASSUME NEW t \in Tasks, SkipRun(t)
      PROVE  JobTypeOK'
  BY <1>2, IdleTaskType DEF SkipRun, JobTypeOK
<1>3. ASSUME NEW t \in Tasks, BeginRun(t)
      PROVE  JobTypeOK'
  <2>1. PICK p \in portfolios :
          tasks' = [tasks EXCEPT ![t] =
            Fetching([IdleTask EXCEPT !.queue = portfolios, !.loaded = version], p)]
    BY <1>3 DEF BeginRun, StartRun
  <2>2. [IdleTask EXCEPT !.queue = portfolios, !.loaded = version] \in Task
    BY IdleTaskType DEF Task, JobTypeOK
  <2>3. tasks' \in [Tasks -> Task]
    BY <2>1, <2>2, FetchingType DEF JobTypeOK
  <2>4. lastRun' \in Run
    BY <1>3 DEF BeginRun, StartRun, Run, JobTypeOK
  <2> QED
    BY <1>3, <2>3, <2>4 DEF BeginRun, StartRun, JobTypeOK
<1>4. ASSUME NEW t \in Tasks, SnapshotTaken(t)
      PROVE  JobTypeOK'
  <2> DEFINE task == tasks[t]
  <2>1. /\ task \in Task
        /\ task.current \in 0..MaxPortfolio /\ task.cash \in Versions
        /\ task.holdings \in Versions /\ (task.failed > 0) \in BOOLEAN
    BY DEF JobTypeOK, Task
  <2>2. rows' \in [PortfolioIds -> {NoRow} \union Row]
    BY <1>4, <2>1, UpsertType DEF SnapshotTaken
  <2>3. [Looping(task) EXCEPT !.ok = @ + 1] \in Task
    BY <2>1, LoopingType DEF Task
  <2>4. lock' \in Tasks \union {NoTask} /\ tasks' \in [Tasks -> Task]
    <3>1. CASE task.current \in portfolios
      BY <1>4, <2>3, <3>1 DEF SnapshotTaken, JobTypeOK
    <3>2. CASE task.current \notin portfolios
      BY <1>4, <3>2, CrashType DEF SnapshotTaken
    <3> QED
      BY <3>1, <3>2
  <2> QED
    BY <1>4, <2>2, <2>4 DEF SnapshotTaken, JobTypeOK
<1>5. ASSUME NEW t \in Tasks, SnapshotFails(t)
      PROVE  JobTypeOK'
  <2>1. Looping(tasks[t]) \in Task
    BY LoopingType DEF JobTypeOK
  <2>2. [Looping(tasks[t]) EXCEPT !.failed = @ + 1] \in Task
    BY <2>1 DEF Task
  <2> QED
    BY <1>5, <2>2 DEF SnapshotFails, JobTypeOK
<1>18. ASSUME NEW t \in Tasks, WriteFails(t)
       PROVE  JobTypeOK'
  <2>1. Looping(tasks[t]) \in Task
    BY LoopingType DEF JobTypeOK
  <2>2. [Looping(tasks[t]) EXCEPT !.failed = @ + 1, !.broken = TRUE] \in Task
    <3>1. \A u \in Task : [u EXCEPT !.failed = @ + 1] \in Task
      BY DEF Task
    <3>2. \A u \in Task : [u EXCEPT !.broken = TRUE] \in Task
      BY DEF Task
    <3>3. [Looping(tasks[t]) EXCEPT !.failed = @ + 1, !.broken = TRUE]
            = [[Looping(tasks[t]) EXCEPT !.failed = @ + 1] EXCEPT !.broken = TRUE]
      OBVIOUS
    <3> QED
      BY <2>1, <3>1, <3>2, <3>3
  <2>3. lock' \in Tasks \union {NoTask} /\ tasks' \in [Tasks -> Task]
    <3>1. CASE Crash(t)
      BY <3>1, CrashType
    <3>2. CASE /\ tasks' = [tasks EXCEPT ![t] =
                              [Looping(tasks[t]) EXCEPT !.failed = @ + 1, !.broken = TRUE]]
               /\ UNCHANGED lock
      BY <2>2, <3>2 DEF JobTypeOK
    <3> QED
      BY <1>18, <3>1, <3>2 DEF WriteFails
  <2>4. lastRun' \in Run
    BY <1>18 DEF WriteFails, JobTypeOK, Run
  <2> QED
    BY <1>18, <2>3, <2>4 DEF WriteFails, JobTypeOK
<1>6. ASSUME NEW t \in Tasks, NextPortfolio(t)
      PROVE  JobTypeOK'
  <2> DEFINE task == tasks[t]
  <2>1. PICK p \in task.queue :
           \/ tasks' = [tasks EXCEPT ![t] = Fetching(task, p)] /\ UNCHANGED lock
           \/ /\ tasks' = [tasks EXCEPT ![t].queue = @ \ {p}, ![t].failed = @ + 1]
              /\ UNCHANGED lock
           \/ Crash(t)
    BY <1>6 DEF NextPortfolio
  <2>2. task \in Task /\ p \in PortfolioIds
    BY <2>1 DEF JobTypeOK, Task
  <2>3. lock' \in Tasks \union {NoTask} /\ tasks' \in [Tasks -> Task]
    <3>1. CASE tasks' = [tasks EXCEPT ![t] = Fetching(task, p)] /\ UNCHANGED lock
      BY <2>2, <3>1, FetchingType DEF JobTypeOK
    <3>2. CASE /\ tasks' = [tasks EXCEPT ![t].queue = @ \ {p}, ![t].failed = @ + 1]
               /\ UNCHANGED lock
      BY <2>2, <3>2 DEF JobTypeOK, Task
    <3> QED
      BY <2>1, <3>1, <3>2, CrashType
  <2> QED
    BY <1>6, <2>3 DEF NextPortfolio, JobTypeOK
<1>7. ASSUME NEW t \in Tasks, LoopEnds(t)
      PROVE  JobTypeOK'
  <2>1. tasks[t] \in Task /\ [tasks[t] EXCEPT !.phase = "benchmarks"] \in Task
    BY DEF JobTypeOK, Task
  <2> QED
    BY <1>7, <2>1 DEF LoopEnds, JobTypeOK
<1>8. ASSUME NEW t \in Tasks, EndRun(t)
      PROVE  JobTypeOK'
  BY <1>8, IdleTaskType DEF EndRun, JobTypeOK, Run, FinalStatus
<1>9. ASSUME NEW r \in Requests, NEW p \in PortfolioIds, StartRequest(r, p)
      PROVE  JobTypeOK'
  <2>1. [portfolio |-> p, read |-> version[p]] \in [portfolio : 0..MaxPortfolio, read : Versions]
    BY JobAssumption DEF JobTypeOK, PortfolioIds
  <2> QED
    BY <1>9, <2>1 DEF StartRequest, JobTypeOK
<1>10. ASSUME NEW r \in Requests, EndRequest(r)
       PROVE  requests' \in [Requests -> [portfolio : 0..MaxPortfolio, read : Versions]]
  BY <1>10, IdleRequestType DEF EndRequest, JobTypeOK
<1>11. ASSUME NEW r \in Requests, RequestTakes(r)
       PROVE  JobTypeOK'
  <2>1. requests[r].portfolio \in 0..MaxPortfolio /\ requests[r].read \in Versions
    BY DEF JobTypeOK
  <2>2. rows' \in [PortfolioIds -> {NoRow} \union Row]
    BY <1>11, <2>1, UpsertType DEF RequestTakes
  <2> QED
    BY <1>10, <1>11, <2>2 DEF RequestTakes, EndRequest, JobTypeOK
<1>12. ASSUME NEW r \in Requests, RequestFails(r)
       PROVE  JobTypeOK'
  BY <1>10, <1>12 DEF RequestFails, EndRequest, JobTypeOK
<1>13. ASSUME NEW p \in PortfolioIds, ChangePortfolio(p)
       PROVE  JobTypeOK'
  BY <1>13, JobAssumption DEF ChangePortfolio, JobTypeOK, Versions
<1>14. ASSUME NEW p \in PortfolioIds, DeletePortfolio(p)
       PROVE  JobTypeOK'
  <2>1. portfolios' # {}
    BY <1>14, OthersRemain DEF DeletePortfolio
  <2>2. lastRun' \in Run
    BY <1>14 DEF DeletePortfolio, JobTypeOK, Run
  <2> QED
    BY <1>14, <2>1, <2>2 DEF DeletePortfolio, JobTypeOK
<1>15. ASSUME CreatePortfolio
       PROVE  JobTypeOK'
  <2>1. Max(portfolios) \in portfolios
    BY MaxOfIds, JobAssumption DEF JobTypeOK, PortfolioIds
  <2>2. Max(portfolios) \in 1..MaxPortfolio /\ Max(portfolios) < MaxPortfolio
    BY <1>15, <2>1 DEF CreatePortfolio, JobTypeOK, PortfolioIds
  <2>3. Max(portfolios) + 1 \in PortfolioIds
    BY <2>2, JobAssumption DEF PortfolioIds
  <2> QED
    BY <1>15, <2>3 DEF CreatePortfolio, JobTypeOK
<1>16. ASSUME Restart
       PROVE  JobTypeOK'
  BY <1>16, NoRunType, IdleRequestType, IdleTaskType DEF Restart, JobTypeOK
<1>17. CASE UNCHANGED jobVars
  BY <1>17 DEF jobVars, JobTypeOK
<1> QED
  BY <1>1, <1>2, <1>3, <1>4, <1>5, <1>6, <1>7, <1>8, <1>9, <1>11, <1>12, <1>13, <1>14,
     <1>15, <1>16, <1>17, <1>18
     DEF JobNext, CronFires, TaskStep, RequestStep, RequestRun, Tasks

-----------------------------------------------------------------------------
(* The inductive invariant.                                                *)

\* Today's row of p is at least as new as the last run.
Fresh(p) ==
  /\ rows[p].exists
  /\ rows[p].by = "job" => rows[p].holdings >= lastRun.since[p]

\* The portfolios a run still has to take, the one being fetched included.
Ahead(t) ==
  tasks[t].queue \union {p \in {tasks[t].current} : tasks[t].phase = "fetching"}

\* What holds while a run executes: a reading is of a portfolio and no older
\* than the run; one that is torn, or a loop without a success, comes after a
\* failure; a portfolio still ahead exists unless one was deleted during the
\* run; a broken session has failed to write a snapshot; and a portfolio the
\* run is past has its row unless something failed.
ReadingInv(t) ==
  tasks[t].phase = "fetching" =>
    /\ tasks[t].current \in PortfolioIds
    /\ tasks[t].holdings >= lastRun.since[tasks[t].current]
    /\ tasks[t].cash # tasks[t].holdings => tasks[t].failed > 0

LoopInv(t) ==
  /\ tasks[t].phase = "looping" /\ tasks[t].ok = 0 => tasks[t].failed > 0
  /\ tasks[t].phase = "benchmarks" => tasks[t].queue = {}

AheadInv(t) == \A p \in Ahead(t) : p \notin portfolios => lastRun.deletion

PassedInv(t) == tasks[t].failed = 0 => \A p \in lastRun.covers \ Ahead(t) : Fresh(p)

BrokenInv(t) == tasks[t].broken => lastRun.unwritten /\ tasks[t].failed > 0

RunInv(t) ==
  ReadingInv(t) /\ LoopInv(t) /\ AheadInv(t) /\ BrokenInv(t) /\ PassedInv(t)

\* A run began with versions the portfolios really had.
SinceInv == \A p \in PortfolioIds : version[p] >= lastRun.since[p]

JobInv ==
  /\ JobTypeOK
  /\ OneRunAtATime
  /\ SinceInv
  /\ \A t \in Tasks : Executing(t) => RunInv(t)
  /\ CompletedCoversAll
  /\ TornOnlyAfterFailure
  /\ StuckOnlyAfterLoss

LEMMA JobStarts == JobInit => JobInv
<1> SUFFICES ASSUME JobInit
             PROVE  JobInv
  OBVIOUS
<1>1. JobTypeOK
  BY InitType
<1>2. \A t \in Tasks : ~ Executing(t)
  BY DEF JobInit, Executing, IdleTask
<1>3. SinceInv /\ CompletedCoversAll /\ TornOnlyAfterFailure /\ StuckOnlyAfterLoss
  BY DEF JobInit, SinceInv, CompletedCoversAll, TornOnlyAfterFailure, StuckOnlyAfterLoss,
         NoRun, NoRow
<1> QED
  BY <1>1, <1>2, <1>3 DEF JobInv, OneRunAtATime

LEMMA InvStep == JobInv /\ [JobNext]_jobVars => JobInv'
<1> SUFFICES ASSUME JobInv, [JobNext]_jobVars
             PROVE  JobInv'
  OBVIOUS
<1> USE DEF Fresh
<1>0. JobTypeOK /\ JobTypeOK'
  BY TypeStep DEF JobInv
\* Steps of tasks that do not execute change nothing of the invariant.
<1>1. ASSUME UNCHANGED <<portfolios, version, rows, lock, lastRun>>,
             \A t \in Tasks : tasks'[t] = tasks[t] \/ tasks'[t].phase \in {"idle", "created"}
      PROVE  JobInv'
  <2>1. \A t \in Tasks : Executing(t)' => Executing(t) /\ tasks'[t] = tasks[t]
    BY <1>1 DEF Executing
  <2>2. OneRunAtATime'
    BY <1>1, <2>1 DEF JobInv, OneRunAtATime
  <2>3. \A t \in Tasks : Executing(t)' => RunInv(t)'
    BY <1>1, <2>1 DEF JobInv, RunInv, ReadingInv, LoopInv, AheadInv, BrokenInv, PassedInv, Ahead
  <2> QED
    BY <1>0, <1>1, <2>2, <2>3
       DEF JobInv, SinceInv, CompletedCoversAll, TornOnlyAfterFailure, StuckOnlyAfterLoss
<1>2. ASSUME NEW t \in Tasks, Create(t)
      PROVE  JobInv'
  BY <1>0, <1>1, <1>2 DEF Create, JobTypeOK, Task
<1>3. ASSUME NEW t \in Tasks, SkipRun(t)
      PROVE  JobInv'
  BY <1>0, <1>1, <1>3 DEF SkipRun, JobTypeOK, IdleTask
<1>4. ASSUME NEW r \in Requests, RequestFails(r)
      PROVE  JobInv'
  BY <1>0, <1>1, <1>4 DEF RequestFails, EndRequest
<1>5. ASSUME NEW r \in Requests, NEW p \in PortfolioIds, StartRequest(r, p)
      PROVE  JobInv'
  BY <1>0, <1>1, <1>5 DEF StartRequest
<1>6. CASE UNCHANGED jobVars
  BY <1>0, <1>1, <1>6 DEF jobVars
\* From the lock on, everything is ahead.
<1>7. ASSUME NEW t \in Tasks, BeginRun(t)
      PROVE  JobInv'
  <2>1. PICK p \in portfolios :
          tasks' = [tasks EXCEPT ![t] =
            Fetching([IdleTask EXCEPT !.queue = portfolios, !.loaded = version], p)]
    BY <1>7 DEF BeginRun, StartRun
  <2>2. /\ lock = NoTask /\ lock' = t /\ UNCHANGED <<portfolios, version, rows>>
        /\ lastRun' = [status |-> "running", covers |-> portfolios, since |-> version,
                       deletion |-> FALSE, unwritten |-> FALSE]
    BY <1>7 DEF BeginRun, StartRun
  <2>3. \A s \in Tasks \ {t} : ~ Executing(s) /\ ~ Executing(s)'
    BY <1>0, <2>1, <2>2, JobAssumption DEF JobInv, OneRunAtATime, Executing, JobTypeOK, Tasks
  <2>4. OneRunAtATime'
    BY <2>2, <2>3 DEF OneRunAtATime
  <2>5. /\ tasks'[t].phase = "fetching" /\ tasks'[t].queue = portfolios \ {p}
        /\ tasks'[t].current = p
        /\ tasks'[t].cash = version[p] /\ tasks'[t].holdings = version[p]
        /\ ~ tasks'[t].broken
    BY <1>0, <2>1 DEF JobTypeOK, Fetching, CashSeen, IdleTask
  <2>6. p \in PortfolioIds /\ version[p] \in Nat
    BY <1>0, JobAssumption DEF JobTypeOK, Versions
  <2>7. RunInv(t)'
    BY <2>2, <2>5, <2>6 DEF RunInv, ReadingInv, LoopInv, AheadInv, BrokenInv, PassedInv, Ahead
  <2>8. SinceInv'
    BY <1>0, <2>2, JobAssumption DEF JobTypeOK, SinceInv, Versions
  <2>9. CompletedCoversAll' /\ StuckOnlyAfterLoss' /\ TornOnlyAfterFailure'
    BY <2>2, JobAssumption
       DEF JobInv, CompletedCoversAll, TornOnlyAfterFailure, StuckOnlyAfterLoss, Tasks
  <2> QED
    BY <1>0, <2>3, <2>4, <2>7, <2>8, <2>9 DEF JobInv
<1>8. ASSUME NEW t \in Tasks, Executing(t)
      PROVE  /\ RunInv(t) /\ lock = t /\ lock # NoTask /\ lastRun.status = "running"
             /\ \A s \in Tasks \ {t} : ~ Executing(s)
  BY <1>8, JobAssumption DEF JobInv, OneRunAtATime, Tasks
\* A run that goes on with the same lock, status and versions.
<1>9. ASSUME NEW t \in Tasks, Executing(t), UNCHANGED <<portfolios, version, lock>>,
             lastRun'.status = lastRun.status, lastRun'.since = lastRun.since,
             \A s \in Tasks \ {t} : tasks'[s] = tasks[s],
             RunInv(t)', TornOnlyAfterFailure'
      PROVE  JobInv'
  <2>1. \A s \in Tasks \ {t} : ~ Executing(s)'
    BY <1>8, <1>9 DEF Executing
  <2>2. OneRunAtATime'
    BY <1>8, <1>9, <2>1 DEF OneRunAtATime
  <2>3. CompletedCoversAll' /\ StuckOnlyAfterLoss'
    BY <1>8, <1>9 DEF CompletedCoversAll, StuckOnlyAfterLoss
  <2>4. SinceInv'
    BY <1>9 DEF JobInv, SinceInv
  <2> QED
    BY <1>0, <1>9, <2>1, <2>2, <2>3, <2>4 DEF JobInv
\* A run that ends: the status it leaves is justified.
<1>10. ASSUME NEW t \in Tasks, Executing(t), UNCHANGED <<portfolios, version>>,
              tasks' = [tasks EXCEPT ![t] = IdleTask], lastRun'.since = lastRun.since,
              CompletedCoversAll', TornOnlyAfterFailure', StuckOnlyAfterLoss'
       PROVE  JobInv'
  <2>1. \A s \in Tasks : ~ Executing(s)'
    BY <1>0, <1>8, <1>10 DEF Executing, IdleTask, JobTypeOK
  <2>2. SinceInv'
    BY <1>10 DEF JobInv, SinceInv
  <2> QED
    BY <1>0, <1>10, <2>1, <2>2 DEF JobInv, OneRunAtATime
\* A run raises only when a portfolio it still had ahead was deleted, or after a
\* snapshot could not be written.
<1>11. ASSUME NEW t \in Tasks, Executing(t), Crash(t), UNCHANGED <<portfolios, version>>,
              lastRun'.status = lastRun.status, lastRun'.since = lastRun.since,
              lastRun'.deletion \/ lastRun'.unwritten, TornOnlyAfterFailure'
       PROVE  JobInv'
  <2>1. lastRun'.status = "running"
    BY <1>8, <1>11
  <2>2. CompletedCoversAll' /\ StuckOnlyAfterLoss'
    BY <1>11, <2>1 DEF CompletedCoversAll, StuckOnlyAfterLoss
  <2> QED
    BY <1>10, <1>11, <2>1, <2>2 DEF Crash
<1>12. ASSUME NEW t \in Tasks, SnapshotTaken(t)
       PROVE  JobInv'
  <2> DEFINE task == tasks[t]
             c == task.current
  <2>1. /\ Executing(t) /\ task.phase = "fetching" /\ UNCHANGED <<portfolios, version>>
        /\ rows' = [rows EXCEPT ![c] =
             [exists |-> TRUE, cash |-> task.cash, holdings |-> task.holdings,
              by |-> "job", afterFailure |-> task.failed > 0]]
    BY <1>12 DEF SnapshotTaken, Executing, Upsert
  <2>2. /\ c \in PortfolioIds /\ task.holdings >= lastRun.since[c]
        /\ task.cash # task.holdings => task.failed > 0
        /\ c \in Ahead(t)
    BY <1>8, <2>1 DEF RunInv, ReadingInv, Ahead
  <2>3. /\ rows'[c] = [exists |-> TRUE, cash |-> task.cash, holdings |-> task.holdings,
                       by |-> "job", afterFailure |-> task.failed > 0]
        /\ \A p \in PortfolioIds \ {c} : rows'[p] = rows[p]
    BY <1>0, <2>1, <2>2 DEF JobTypeOK
  <2>4. TornOnlyAfterFailure'
    <3> SUFFICES ASSUME NEW p \in PortfolioIds
                 PROVE  (rows[p].exists /\ rows[p].cash # rows[p].holdings
                           => rows[p].afterFailure)'
      BY DEF TornOnlyAfterFailure
    <3>1. CASE p = c
      <4>1. /\ rows'[c].cash = task.cash /\ rows'[c].holdings = task.holdings
            /\ rows'[c].afterFailure = (task.failed > 0)
        BY <2>3
      <4> QED
        BY <2>2, <3>1, <4>1
    <3>2. CASE p # c
      BY <2>3, <3>2 DEF JobInv, TornOnlyAfterFailure
    <3> QED
      BY <3>1, <3>2
  <2>5. CASE c \in portfolios
    <3>1. /\ tasks' = [tasks EXCEPT ![t] = [Looping(task) EXCEPT !.ok = @ + 1]]
          /\ UNCHANGED <<lock, lastRun>>
      BY <1>12, <2>5 DEF SnapshotTaken
    <3>2. /\ tasks'[t].phase = "looping" /\ tasks'[t].queue = task.queue
          /\ tasks'[t].failed = task.failed /\ tasks'[t].ok = task.ok + 1
          /\ tasks'[t].broken = task.broken /\ task.ok \in Nat
      BY <1>0, <3>1 DEF Looping, JobTypeOK, Task
    <3>3. ReadingInv(t)' /\ LoopInv(t)'
      BY <3>2 DEF ReadingInv, LoopInv
    <3>4. AheadInv(t)' /\ BrokenInv(t)'
      BY <1>8, <2>1, <3>1, <3>2 DEF RunInv, AheadInv, BrokenInv, Ahead
    <3>5. PassedInv(t)'
      <4> SUFFICES ASSUME task.failed = 0, NEW p \in lastRun.covers, p \notin task.queue
                   PROVE  Fresh(p)'
        BY <3>1, <3>2 DEF PassedInv, Ahead
      <4>1. p \in PortfolioIds
        BY <1>0 DEF JobTypeOK, Run
      <4>2. CASE p = c
        BY <2>2, <2>3, <3>1, <4>2
      <4>3. CASE p # c
        <5>1. Fresh(p)
          BY <1>8, <2>1, <4>3 DEF RunInv, PassedInv, Ahead
        <5> QED
          BY <2>3, <3>1, <4>1, <4>3, <5>1
      <4> QED
        BY <4>2, <4>3
    <3>6. \A s \in Tasks \ {t} : tasks'[s] = tasks[s]
      BY <1>0, <3>1 DEF JobTypeOK
    <3> QED
      BY <1>9, <2>1, <2>4, <3>1, <3>3, <3>4, <3>5, <3>6 DEF RunInv
  <2>6. CASE c \notin portfolios
    <3>1. lastRun.deletion
      BY <1>8, <2>1, <2>2, <2>6 DEF RunInv, AheadInv
    <3> QED
      BY <1>11, <1>12, <2>1, <2>4, <2>6, <3>1 DEF SnapshotTaken
  <2> QED
    BY <2>5, <2>6
<1>13. ASSUME NEW t \in Tasks, SnapshotFails(t)
       PROVE  JobInv'
  <2>1. /\ Executing(t) /\ tasks[t].phase = "fetching"
        /\ UNCHANGED <<portfolios, version, rows, lock, lastRun>>
        /\ tasks' = [tasks EXCEPT ![t] = [Looping(tasks[t]) EXCEPT !.failed = @ + 1]]
    BY <1>13 DEF SnapshotFails, Executing
  <2>2. /\ tasks'[t].phase = "looping" /\ tasks'[t].queue = tasks[t].queue
        /\ tasks'[t].failed = tasks[t].failed + 1 /\ tasks[t].failed \in Nat
        /\ tasks'[t].broken = tasks[t].broken
    BY <1>0, <2>1 DEF Looping, JobTypeOK, Task
  <2>3. ReadingInv(t)' /\ LoopInv(t)' /\ PassedInv(t)'
    BY <2>2 DEF ReadingInv, LoopInv, PassedInv
  <2>4. AheadInv(t)' /\ BrokenInv(t)'
    BY <1>8, <2>1, <2>2 DEF RunInv, AheadInv, BrokenInv, Ahead
  <2>5. TornOnlyAfterFailure'
    BY <2>1 DEF JobInv, TornOnlyAfterFailure
  <2>6. \A s \in Tasks \ {t} : tasks'[s] = tasks[s]
    BY <1>0, <2>1 DEF JobTypeOK
  <2> QED
    BY <1>9, <2>1, <2>3, <2>4, <2>5, <2>6 DEF RunInv
<1>23. ASSUME NEW t \in Tasks, WriteFails(t)
       PROVE  JobInv'
  <2>1. /\ Executing(t) /\ tasks[t].phase = "fetching"
        /\ UNCHANGED <<portfolios, version, rows>>
    BY <1>23 DEF WriteFails, Executing
  <2>2. /\ lastRun'.status = lastRun.status /\ lastRun'.since = lastRun.since
        /\ lastRun'.covers = lastRun.covers /\ lastRun'.deletion = lastRun.deletion
        /\ lastRun'.unwritten
    BY <1>0, <1>23 DEF WriteFails, JobTypeOK, Run
  <2>3. TornOnlyAfterFailure'
    BY <2>1 DEF JobInv, TornOnlyAfterFailure
  <2>4. CASE Crash(t)
    BY <1>11, <2>1, <2>2, <2>3, <2>4
  <2>5. CASE /\ tasks' = [tasks EXCEPT ![t] =
                            [Looping(tasks[t]) EXCEPT !.failed = @ + 1, !.broken = TRUE]]
             /\ UNCHANGED lock
    <3>1. /\ tasks'[t].phase = "looping" /\ tasks'[t].queue = tasks[t].queue
          /\ tasks'[t].failed = tasks[t].failed + 1 /\ tasks[t].failed \in Nat
      BY <1>0, <2>5 DEF Looping, JobTypeOK, Task
    <3>2. ReadingInv(t)' /\ LoopInv(t)' /\ PassedInv(t)' /\ BrokenInv(t)'
      BY <2>2, <3>1 DEF ReadingInv, LoopInv, PassedInv, BrokenInv
    <3>3. AheadInv(t)'
      BY <1>8, <2>1, <2>2, <3>1 DEF RunInv, AheadInv, Ahead
    <3>4. \A s \in Tasks \ {t} : tasks'[s] = tasks[s]
      BY <1>0, <2>5 DEF JobTypeOK
    <3> QED
      BY <1>9, <2>1, <2>2, <2>3, <2>5, <3>2, <3>3, <3>4 DEF RunInv
  <2> QED
    BY <1>23, <2>4, <2>5 DEF WriteFails
<1>14. ASSUME NEW t \in Tasks, NextPortfolio(t)
       PROVE  JobInv'
  <2> DEFINE task == tasks[t]
  <2>1. /\ Executing(t) /\ task.phase = "looping"
        /\ UNCHANGED <<portfolios, version, rows, lastRun>>
    BY <1>14 DEF NextPortfolio, Executing
  <2>2. TornOnlyAfterFailure'
    BY <2>1 DEF JobInv, TornOnlyAfterFailure
  <2>3. PICK p \in task.queue :
          \/ /\ p \in portfolios
             /\ tasks' = [tasks EXCEPT ![t] = Fetching(task, p)]
             /\ UNCHANGED lock
          \/ /\ p \notin portfolios \/ task.broken
             /\ tasks' = [tasks EXCEPT ![t].queue = @ \ {p}, ![t].failed = @ + 1]
             /\ UNCHANGED lock
          \/ /\ p \notin portfolios \/ task.broken
             /\ Crash(t)
    BY <1>14 DEF NextPortfolio
  <2>4. /\ task \in Task /\ p \in PortfolioIds /\ p \in Ahead(t)
        /\ version[p] \in Nat /\ lastRun.since[p] \in Nat
    BY <1>0, <2>3, JobAssumption DEF JobTypeOK, Task, Ahead, Run, Versions
  <2>5. CASE /\ p \in portfolios
             /\ tasks' = [tasks EXCEPT ![t] = Fetching(task, p)]
             /\ UNCHANGED lock
    <3>1. /\ tasks'[t].phase = "fetching" /\ tasks'[t].queue = task.queue \ {p}
          /\ tasks'[t].current = p /\ tasks'[t].failed = task.failed
          /\ tasks'[t].cash = CashSeen(task, p) /\ tasks'[t].holdings = version[p]
          /\ tasks'[t].broken = task.broken
      BY <1>0, <2>4, <2>5 DEF Fetching, JobTypeOK, Task
    <3>2. ReadingInv(t)'
      <4>1. CashSeen(task, p) # version[p] => task.failed > 0
        BY <1>8, <2>1, <2>4 DEF CashSeen, RunInv, LoopInv, Task
      <4>2. version[p] >= lastRun.since[p]
        BY <2>4 DEF JobInv, SinceInv
      <4>3. lastRun' = lastRun
        BY <2>1
      <4> QED
        BY <2>4, <3>1, <4>1, <4>2, <4>3 DEF ReadingInv
    <3>3. LoopInv(t)'
      BY <3>1 DEF LoopInv
    <3>4. Ahead(t)' = Ahead(t)
      BY <2>1, <2>3, <3>1 DEF Ahead
    <3>5. AheadInv(t)' /\ BrokenInv(t)' /\ PassedInv(t)'
      BY <1>8, <2>1, <2>5, <3>1, <3>4 DEF RunInv, AheadInv, BrokenInv, PassedInv
    <3>6. \A s \in Tasks \ {t} : tasks'[s] = tasks[s]
      BY <1>0, <2>5 DEF JobTypeOK
    <3> QED
      BY <1>9, <2>1, <2>2, <2>5, <3>2, <3>3, <3>5, <3>6 DEF RunInv
  <2>6. CASE /\ p \notin portfolios \/ task.broken
             /\ tasks' = [tasks EXCEPT ![t].queue = @ \ {p}, ![t].failed = @ + 1]
             /\ UNCHANGED lock
    <3>1. /\ tasks'[t].phase = "looping" /\ tasks'[t].queue = task.queue \ {p}
          /\ tasks'[t].failed = task.failed + 1 /\ task.failed \in Nat
          /\ tasks'[t].broken = task.broken
      BY <1>0, <2>1, <2>4, <2>6 DEF JobTypeOK, Task
    <3>2. ReadingInv(t)' /\ LoopInv(t)' /\ PassedInv(t)'
      BY <3>1 DEF ReadingInv, LoopInv, PassedInv
    <3>3. AheadInv(t)'
      BY <1>8, <2>1, <2>6, <3>1 DEF RunInv, AheadInv, Ahead
    <3>5. BrokenInv(t)'
      <4>1. task.broken => lastRun.unwritten
        BY <1>8, <2>1 DEF RunInv, BrokenInv
      <4> QED
        BY <2>1, <3>1, <4>1 DEF BrokenInv
    <3>4. \A s \in Tasks \ {t} : tasks'[s] = tasks[s]
      BY <1>0, <2>6 DEF JobTypeOK
    <3> QED
      BY <1>9, <2>1, <2>2, <2>6, <3>2, <3>3, <3>4, <3>5 DEF RunInv
  <2>7. CASE (p \notin portfolios \/ task.broken) /\ Crash(t)
    <3>1. lastRun.deletion \/ lastRun.unwritten
      BY <1>8, <2>1, <2>4, <2>7 DEF RunInv, AheadInv, BrokenInv
    <3> QED
      BY <1>11, <2>1, <2>2, <2>7, <3>1
  <2> QED
    BY <2>3, <2>5, <2>6, <2>7
<1>15. ASSUME NEW t \in Tasks, LoopEnds(t)
       PROVE  JobInv'
  <2>1. /\ Executing(t) /\ tasks[t].phase = "looping" /\ tasks[t].queue = {}
        /\ UNCHANGED <<portfolios, version, rows, lock, lastRun>>
        /\ tasks' = [tasks EXCEPT ![t].phase = "benchmarks"]
    BY <1>15 DEF LoopEnds, Executing
  <2>2. /\ tasks'[t].phase = "benchmarks" /\ tasks'[t].queue = {}
        /\ tasks'[t].failed = tasks[t].failed /\ tasks'[t].broken = tasks[t].broken
    BY <1>0, <2>1 DEF JobTypeOK, Task
  <2>3. ReadingInv(t)' /\ LoopInv(t)' /\ AheadInv(t)' /\ BrokenInv(t)'
    BY <1>8, <2>1, <2>2 DEF RunInv, ReadingInv, LoopInv, AheadInv, BrokenInv, Ahead
  <2>4. PassedInv(t)'
    BY <1>8, <2>1, <2>2 DEF RunInv, PassedInv, Ahead
  <2>5. TornOnlyAfterFailure'
    BY <2>1 DEF JobInv, TornOnlyAfterFailure
  <2>6. \A s \in Tasks \ {t} : tasks'[s] = tasks[s]
    BY <1>0, <2>1 DEF JobTypeOK
  <2> QED
    BY <1>9, <2>1, <2>3, <2>4, <2>5, <2>6 DEF RunInv
<1>16. ASSUME NEW t \in Tasks, EndRun(t)
       PROVE  JobInv'
  <2>1. /\ Executing(t) /\ tasks[t].phase = "benchmarks"
        /\ UNCHANGED <<portfolios, version, rows>>
        /\ tasks' = [tasks EXCEPT ![t] = IdleTask]
        /\ lastRun' = [lastRun EXCEPT !.status = FinalStatus(tasks[t])]
    BY <1>16 DEF EndRun, Executing
  <2>2. /\ lastRun'.status = FinalStatus(tasks[t]) /\ lastRun'.covers = lastRun.covers
        /\ lastRun'.since = lastRun.since
    BY <1>0, <2>1 DEF JobTypeOK, Run
  <2>3. FinalStatus(tasks[t]) = "completed" => tasks[t].failed = 0
    BY DEF FinalStatus
  <2>4. Ahead(t) = {}
    BY <1>8, <2>1 DEF RunInv, LoopInv, Ahead
  <2>5. CompletedCoversAll'
    BY <1>8, <2>1, <2>2, <2>3, <2>4 DEF CompletedCoversAll, RunInv, PassedInv
  <2>6. StuckOnlyAfterLoss'
    BY <2>2 DEF StuckOnlyAfterLoss, FinalStatus
  <2>7. TornOnlyAfterFailure'
    BY <2>1 DEF JobInv, TornOnlyAfterFailure
  <2> QED
    BY <1>10, <2>1, <2>2, <2>5, <2>6, <2>7
\* Steps of others leave the tasks as they are; what they change of the tables
\* keeps a portfolio's row as new and its existence or deletion known.
<1>17. ASSUME UNCHANGED <<lock, tasks>>, lastRun'.status = lastRun.status,
              lastRun'.since = lastRun.since, SinceInv', TornOnlyAfterFailure',
              lastRun.deletion => lastRun'.deletion,
              lastRun.unwritten => lastRun'.unwritten,
              lastRun'.covers \subseteq lastRun.covers,
              \A p \in lastRun'.covers : Fresh(p) => Fresh(p)',
              \A p \in portfolios \ portfolios' : lock # NoTask => lastRun'.deletion
       PROVE  JobInv'
  <2>1. OneRunAtATime' /\ StuckOnlyAfterLoss'
    BY <1>17 DEF JobInv, OneRunAtATime, Executing, StuckOnlyAfterLoss
  <2>2. CompletedCoversAll'
    BY <1>17 DEF JobInv, CompletedCoversAll
  <2>3. ASSUME NEW t \in Tasks, Executing(t)'
        PROVE  RunInv(t)'
    <3>1. Executing(t) /\ tasks'[t] = tasks[t] /\ lock # NoTask /\ Ahead(t)' = Ahead(t)
      BY <1>8, <1>17, <2>3 DEF Executing, Ahead
    <3>2. ReadingInv(t)' /\ LoopInv(t)'
      BY <1>8, <1>17, <3>1 DEF RunInv, ReadingInv, LoopInv
    <3>3. AheadInv(t)' /\ BrokenInv(t)'
      BY <1>8, <1>17, <3>1 DEF RunInv, AheadInv, BrokenInv
    <3>4. PassedInv(t)'
      BY <1>8, <1>17, <3>1 DEF RunInv, PassedInv
    <3> QED
      BY <3>2, <3>3, <3>4 DEF RunInv
  <2> QED
    BY <1>0, <1>17, <2>1, <2>2, <2>3 DEF JobInv
<1>18. ASSUME NEW r \in Requests, RequestTakes(r)
       PROVE  JobInv'
  <2> DEFINE c == requests[r].portfolio
             v == requests[r].read
  <2>1. /\ UNCHANGED <<portfolios, version, lock, tasks, lastRun>>
        /\ rows' = [rows EXCEPT ![c] = [exists |-> TRUE, cash |-> v, holdings |-> v,
                                        by |-> "request", afterFailure |-> FALSE]]
    BY <1>18 DEF RequestTakes, EndRequest, Upsert
  <2>2. \A p \in PortfolioIds :
          \/ rows'[p] = rows[p]
          \/ rows'[p] = [exists |-> TRUE, cash |-> v, holdings |-> v,
                         by |-> "request", afterFailure |-> FALSE]
    BY <1>0, <2>1 DEF JobTypeOK
  <2>3. TornOnlyAfterFailure'
    BY <2>2 DEF JobInv, TornOnlyAfterFailure
  <2>4. \A p \in lastRun.covers : Fresh(p) => Fresh(p)'
    BY <1>0, <2>1, <2>2 DEF JobTypeOK, Run
  <2>5. SinceInv'
    BY <2>1 DEF JobInv, SinceInv
  <2> QED
    BY <1>17, <2>1, <2>3, <2>4, <2>5
<1>19. ASSUME NEW p \in PortfolioIds, ChangePortfolio(p)
       PROVE  JobInv'
  <2>1. /\ UNCHANGED <<portfolios, rows, lock, tasks, lastRun>>
        /\ version' = [version EXCEPT ![p] = @ + 1]
    BY <1>19 DEF ChangePortfolio
  <2>2. SinceInv'
    <3> SUFFICES ASSUME NEW q \in PortfolioIds
                 PROVE  version'[q] >= lastRun.since[q]
      BY <2>1 DEF SinceInv
    <3>1. version[q] \in Nat /\ lastRun.since[q] \in Nat /\ version[q] >= lastRun.since[q]
      BY <1>0, JobAssumption DEF JobInv, SinceInv, JobTypeOK, Run, Versions
    <3>2. version'[q] = version[q] \/ version'[q] = version[q] + 1
      BY <1>0, <2>1 DEF JobTypeOK
    <3> QED
      BY <3>1, <3>2
  <2>3. TornOnlyAfterFailure'
    BY <2>1 DEF JobInv, TornOnlyAfterFailure
  <2> QED
    BY <1>17, <2>1, <2>2, <2>3
<1>20. ASSUME NEW p \in PortfolioIds, DeletePortfolio(p)
       PROVE  JobInv'
  <2>1. /\ UNCHANGED <<version, lock, tasks>>
        /\ portfolios' = portfolios \ {p}
        /\ rows' = [rows EXCEPT ![p] = NoRow]
        /\ lastRun' = [lastRun EXCEPT !.covers = @ \ {p}, !.deletion = @ \/ lock # NoTask]
    BY <1>20 DEF DeletePortfolio
  <2>2. /\ lastRun'.status = lastRun.status /\ lastRun'.since = lastRun.since
        /\ lastRun'.covers = lastRun.covers \ {p}
        /\ lastRun'.deletion = (lastRun.deletion \/ lock # NoTask)
        /\ lastRun'.unwritten = lastRun.unwritten
    BY <1>0, <2>1 DEF JobTypeOK, Run
  <2>3. rows'[p] = NoRow /\ \A q \in PortfolioIds \ {p} : rows'[q] = rows[q]
    BY <1>0, <2>1 DEF JobTypeOK
  <2>4. TornOnlyAfterFailure'
    BY <2>3 DEF JobInv, TornOnlyAfterFailure, NoRow
  <2>5. \A q \in lastRun'.covers : Fresh(q) => Fresh(q)'
    BY <1>0, <2>2, <2>3 DEF JobTypeOK, Run
  <2>6. SinceInv'
    BY <2>1, <2>2 DEF JobInv, SinceInv
  <2>7. \A q \in portfolios \ portfolios' : lock # NoTask => lastRun'.deletion
    BY <2>2
  <2>8. /\ lastRun.deletion => lastRun'.deletion
        /\ lastRun.unwritten => lastRun'.unwritten
    BY <2>2
  <2> QED
    BY <1>17, <2>1, <2>2, <2>4, <2>5, <2>6, <2>7, <2>8
<1>21. ASSUME CreatePortfolio
       PROVE  JobInv'
  <2>1. /\ UNCHANGED <<version, rows, lock, tasks, lastRun>>
        /\ portfolios \subseteq portfolios'
    BY <1>21 DEF CreatePortfolio
  <2>2. SinceInv' /\ TornOnlyAfterFailure'
    BY <2>1 DEF JobInv, SinceInv, TornOnlyAfterFailure
  <2> QED
    BY <1>17, <2>1, <2>2
<1>22. ASSUME Restart
       PROVE  JobInv'
  <2>1. /\ UNCHANGED <<portfolios, version, rows>>
        /\ lastRun' = NoRun
        /\ \A t \in Tasks : tasks'[t] = IdleTask
    BY <1>22 DEF Restart
  <2>2. \A t \in Tasks : ~ Executing(t)'
    BY <2>1 DEF Executing, IdleTask
  <2>3. SinceInv'
    BY <1>0, <2>1, JobAssumption DEF SinceInv, NoRun, JobTypeOK, Versions
  <2>4. CompletedCoversAll' /\ TornOnlyAfterFailure' /\ StuckOnlyAfterLoss'
    BY <2>1 DEF JobInv, CompletedCoversAll, TornOnlyAfterFailure, StuckOnlyAfterLoss, NoRun
  <2> QED
    BY <1>0, <2>2, <2>3, <2>4 DEF JobInv, OneRunAtATime
<1> QED
  BY <1>2, <1>3, <1>4, <1>5, <1>6, <1>7, <1>12, <1>13, <1>14, <1>15, <1>16, <1>18, <1>19,
     <1>20, <1>21, <1>22, <1>23
     DEF JobNext, CronFires, TaskStep, RequestStep, RequestRun, Tasks

\* The invariant holds in every behaviour, fair or not.
LEMMA InvHolds == JobSpec => []JobInv
BY JobStarts, InvStep, PTL DEF JobSpec

-----------------------------------------------------------------------------
(* The theorems.                                                           *)

\* The portfolios, snapshots, tasks, status and requests keep their types, and
\* the last portfolio is never deleted (delete_portfolio).
THEOREM JobTypes == JobSpec => []JobTypeOK
BY InvHolds, PTL DEF JobInv

\* At most one run executes, however many tasks cron and the requests create
\* (_job_lock looked at and taken without an await in between).
THEOREM MutualExclusion == JobSpec => []OneRunAtATime
BY InvHolds, PTL DEF JobInv

\* A run that reports "completed" has taken every portfolio that is left of
\* those it began with (run_snapshot_job and _execute_snapshot_run).
THEOREM Coverage == JobSpec => []CompletedCoversAll
BY InvHolds, PTL DEF JobInv

\* A snapshot with cash of one moment and holdings of another is the job's, and
\* comes after a failure in its loop: only then is the cash it loaded at the
\* start still used.
THEOREM TornSnapshots == JobSpec => []TornOnlyAfterFailure
BY InvHolds, PTL DEF JobInv

\* Only a deletion during a run, or a snapshot that could not be written, can
\* leave the status "running" behind.
THEOREM StuckStatus == JobSpec => []StuckOnlyAfterLoss
BY InvHolds, PTL DEF JobInv

-----------------------------------------------------------------------------
(* Sums over the transactions.                                             *)

AtMarket(k) == FlowValue(txs[k], <<txs[k].market>>)

\* What the first n transactions put in, at the market price of their moment.
PutIn(n) == SumFunctionOnSet([k \in DOMAIN txs |-> AtMarket(k)], 1..n)

TxsOK == txs \in Seq(TxRecord)

LEMMA TxFields ==
  ASSUME TxsOK, NEW k \in DOMAIN txs
  PROVE  /\ txs[k] \in TxRecord
         /\ txs[k].kind \in Kinds /\ txs[k].day \in Dates /\ txs[k].cash \in Int
         /\ txs[k].shares \in Int /\ txs[k].price \in Nat /\ txs[k].market \in Nat
<1>1. txs[k] \in TxRecord
  BY LenProperties DEF TxsOK
<1>2. Costs \union {NoPrice} \subseteq Nat /\ Prices \union {NoPrice} \subseteq Nat
  BY SeriesAssumption DEF NoPrice
<1>. QED BY <1>1, <1>2 DEF TxRecord

LEMMA TxIds ==
  ASSUME TxsOK
  PROVE  DOMAIN txs = 1..Len(txs) /\ Len(txs) \in Nat
BY LenProperties DEF TxsOK

LEMMA FlowType ==
  ASSUME NEW tx, tx.cash \in Int, tx.shares \in Int, tx.price \in Int,
         NEW fetched, fetched = <<>> \/ fetched[1] \in Int
  PROVE  FlowValue(tx, fetched) \in Int
<1>1. FlowPrice(tx, fetched) \in Int
  BY DEF FlowPrice
<1>2. tx.shares * FlowPrice(tx, fetched) \in Int
  BY <1>1
<1>. HIDE DEF FlowPrice
<1>3. CASE tx.kind = "cash"
  BY <1>3 DEF FlowValue
<1>4. CASE tx.kind \in {"import", "correction"}
  BY <1>2, <1>4 DEF FlowValue
<1>5. CASE tx.kind # "cash" /\ tx.kind \notin {"import", "correction"}
  BY <1>5 DEF FlowValue
<1>. QED BY <1>3, <1>4, <1>5

LEMMA AtMarketType ==
  ASSUME TxsOK, NEW k \in DOMAIN txs
  PROVE  AtMarket(k) \in Int
<1>1. /\ txs[k].cash \in Int /\ txs[k].shares \in Int /\ txs[k].price \in Int
      /\ <<txs[k].market>>[1] \in Int
  BY TxFields
<1>. QED BY <1>1, FlowType DEF AtMarket

LEMMA PutInType ==
  ASSUME TxsOK, NEW n \in 0..Len(txs)
  PROVE  IsFiniteSet(1..n) /\ 1..n \subseteq DOMAIN txs /\ PutIn(n) \in Int
<1>1. IsFiniteSet(1..n) /\ 1..n \subseteq DOMAIN txs
  BY TxIds, FS_Interval
<1>. DEFINE f == [k \in DOMAIN txs |-> AtMarket(k)]
<1>2. \A k \in 1..n : f[k] \in Int
  BY <1>1, AtMarketType
<1>. HIDE DEF f
<1>3. SumFunctionOnSet(f, 1..n) \in Int
  BY <1>1, <1>2, SumType
<1>. QED BY <1>1, <1>3 DEF PutIn, f

\* A transaction recorded: the others stay what they are.
Grows(tx) == txs' = Append(txs, tx)

LEMMA TxsGrow ==
  ASSUME TxsOK, NEW tx \in TxRecord, Grows(tx)
  PROVE  /\ TxsOK'
         /\ Len(txs') = Len(txs) + 1
         /\ DOMAIN txs' = 1..(Len(txs) + 1) /\ DOMAIN txs \subseteq DOMAIN txs'
         /\ \A k \in DOMAIN txs : txs'[k] = txs[k]
         /\ txs'[Len(txs) + 1] = tx
<1>1. /\ txs' \in Seq(TxRecord) /\ Len(txs') = Len(txs) + 1
      /\ \A k \in 1..Len(txs) : txs'[k] = txs[k]
      /\ txs'[Len(txs) + 1] = tx
  BY AppendProperties DEF TxsOK, Grows
<1>2. DOMAIN txs' = 1..(Len(txs) + 1) /\ DOMAIN txs = 1..Len(txs) /\ Len(txs) \in Nat
  BY <1>1, LenProperties DEF TxsOK
<1>. QED BY <1>1, <1>2 DEF TxsOK

LEMMA PutInGrows ==
  ASSUME TxsOK, NEW tx \in TxRecord, Grows(tx)
  PROVE  /\ \A n \in 0..Len(txs) : PutIn(n)' = PutIn(n)
         /\ PutIn(Len(txs))' = PutIn(Len(txs)) + FlowValue(tx, <<tx.market>>)
<1>. DEFINE f == [k \in DOMAIN txs |-> AtMarket(k)]
            g == [k \in DOMAIN txs' |-> AtMarket(k)']
            n1 == Len(txs) + 1
<1>1. /\ TxsOK' /\ Len(txs') = n1
      /\ DOMAIN txs' = 1..n1 /\ DOMAIN txs \subseteq DOMAIN txs'
      /\ \A k \in DOMAIN txs : txs'[k] = txs[k]
      /\ txs'[n1] = tx
  BY TxsGrow
<1>2. DOMAIN txs = 1..Len(txs) /\ Len(txs) \in Nat
  BY TxIds
<1>3. \A k \in DOMAIN txs : g[k] = f[k] /\ f[k] \in Int
  BY <1>1, AtMarketType DEF AtMarket
<1>4. g[n1] = FlowValue(tx, <<tx.market>>) /\ n1 \in DOMAIN txs'
  BY <1>1, <1>2 DEF AtMarket
<1>5. g[n1] \in Int
  <2>1. tx.cash \in Int /\ tx.shares \in Int /\ tx.price \in Int /\ <<tx.market>>[1] \in Int
    <3>1. Costs \union {NoPrice} \subseteq Nat /\ Prices \union {NoPrice} \subseteq Nat
      BY SeriesAssumption DEF NoPrice
    <3>. QED BY <3>1 DEF TxRecord
  <2>. QED BY <1>4, <2>1, FlowType
<1>6. \A n : PutIn(n) = SumFunctionOnSet(f, 1..n) /\ PutIn(n)' = SumFunctionOnSet(g, 1..n)
  BY DEF PutIn
<1>. HIDE DEF f, g
<1>7. ASSUME NEW n \in 0..Len(txs)
      PROVE  SumFunctionOnSet(g, 1..n) = SumFunctionOnSet(f, 1..n)
  <2>1. IsFiniteSet(1..n) /\ \A k \in 1..n : g[k] = f[k]
    BY <1>3, PutInType
  <2>. QED BY <2>1, SumExtends
<1>8. SumFunctionOnSet(g, 1..n1) = SumFunctionOnSet(g, 1..Len(txs)) + g[n1]
  <2>1. 1..n1 = (1..Len(txs)) \union {n1} /\ n1 \notin 1..Len(txs)
    BY <1>2
  <2>2. IsFiniteSet(1..Len(txs))
    BY <1>2, FS_Interval
  <2>3. \A k \in (1..Len(txs)) \union {n1} : g[k] \in Int
    BY <1>2, <1>3, <1>5
  <2>. HIDE DEF n1
  <2>4. SumFunctionOnSet(g, (1..Len(txs)) \union {n1}) = SumFunctionOnSet(g, 1..Len(txs)) + g[n1]
    BY <2>1, <2>2, <2>3, SumInsert
  <2>. QED BY <2>1, <2>4
<1>9. Len(txs) \in 0..Len(txs)
  BY <1>2
<1>10. PutIn(Len(txs))' = SumFunctionOnSet(g, 1..n1)
  BY <1>1 DEF PutIn, g
<1>. HIDE DEF n1
<1>11. PutIn(Len(txs))' = PutIn(Len(txs)) + g[n1]
  BY <1>6, <1>7, <1>8, <1>9, <1>10
<1>. QED BY <1>4, <1>6, <1>7, <1>11

-----------------------------------------------------------------------------
(* The invariant.  What a portfolio is worth, less what it earned and less *)
(* what was put in, never changes: every value taken at once is what was   *)
(* earned and put in until then, above the same balance.                   *)

Balance == cash + shares * price - gain - PutIn(Len(txs))

PutIns == [n \in 0..Len(txs) |-> PutIn(n)]

\* The first seen transactions of T are those up to the day on.
DaysFit(seen, on, T, today) ==
  /\ seen \in 0..Len(T)
  /\ on \in Dates /\ on <= today
  /\ \A k \in 1..Len(T) : /\ k <= seen => T[k].day <= on
                          /\ k > seen => on <= T[k].day

ValueFits(v, T, P, balance, today) ==
  /\ v \in Valuation
  /\ v.known \in 0..Len(T) /\ v.seen <= v.known
  /\ DaysFit(v.seen, v.on, T, today)
  /\ v.fetched = <<>> \/ v.fetched = <<v.price>>
  /\ v.known = v.seen => v.nav = v.gain + P[v.seen] + balance

Flows(T, prev, d, known) == {k \in 1..known : prev < T[k].day /\ T[k].day <= d}

ReturnOf(T, nav, prevNav, window, fetched) ==
  IF prevNav > 0
  THEN <<nav - prevNav - SumFunction([k \in window |-> FlowValue(T[k], fetched)])>>
  ELSE <<>>

RowFits(s, d, T, P, balance, today) ==
  /\ s.exists \in BOOLEAN
  /\ s.exists =>
       /\ ValueFits(s.value, T, P, balance, today)
       /\ s.prev \in 0..(d - 1)
       /\ s.prev = 0 => s.base = <<>> /\ s.stripped = {} /\ s.return = <<>>
       /\ s.prev # 0 =>
            /\ s.base = <<s.base[1]>>
            /\ ValueFits(s.base[1], T, P, balance, today)
            /\ s.stripped = Flows(T, s.prev, d, s.value.known)
            /\ s.return = ReturnOf(T, s.value.nav, s.base[1].nav, s.stripped, s.value.fetched)

ReadFits(read, T, c, n, today) ==
  /\ read \in Reading
  /\ DaysFit(read.seen, read.on, T, today)
  /\ read.seen = Len(T) => read.cash = c /\ read.shares = n

Now ==
  /\ TxsOK /\ \A k \in DOMAIN txs : txs[k].day <= day
  /\ day \in Dates /\ price \in Prices
  /\ cash \in Int /\ shares \in Int /\ gain \in Int
  /\ held \in BOOLEAN /\ (shares > 0 => held)
  /\ written \in 0..MaxWrites

Rows ==
  /\ DOMAIN snapshots = Dates
  /\ \A d \in Dates : RowFits(snapshots[d], d, txs, PutIns, Balance, day)

Reads ==
  /\ DOMAIN reading = Generations
  /\ \A r \in Generations : reading[r] # NotReading =>
       reading[r].date \in Dates /\ ReadFits(reading[r].read, txs, cash, shares, day)

SeriesInv == Now /\ Rows /\ Reads

\* Later only: what was recorded stays, the rest has come since.
Later(T, T2, P, P2, today, today2) ==
  /\ Len(T) \in Nat /\ Len(T2) \in Nat /\ Len(T) <= Len(T2)
  /\ \A k \in 1..Len(T) : T2[k] = T[k]
  /\ \A k \in 1..Len(T2) : k > Len(T) => today <= T2[k].day
  /\ \A n \in 0..Len(T) : P2[n] = P[n]
  /\ today \in Int /\ today2 \in Int /\ today <= today2

LEMMA DatesAreInts == Dates \subseteq Nat \ {0} /\ \A d \in Dates : d \in Int
BY SeriesAssumption DEF Dates

LEMMA PricesAreInts == \A p \in Prices : p \in Int
BY SeriesAssumption

LEMMA DaysStay ==
  ASSUME NEW T, NEW T2, NEW P, NEW P2, NEW today, NEW today2,
         Later(T, T2, P, P2, today, today2),
         NEW seen, NEW on, DaysFit(seen, on, T, today),
         \A k \in 1..Len(T) : T[k].day \in Int,
         \A k \in 1..Len(T2) : T2[k].day \in Int
  PROVE  DaysFit(seen, on, T2, today2)
<1>1. on \in Int
  BY DatesAreInts DEF DaysFit
<1>. QED BY <1>1, SMTT(20) DEF DaysFit, Later

LEMMA ValueStays ==
  ASSUME NEW T, NEW T2, NEW P, NEW P2, NEW today, NEW today2, NEW balance,
         Later(T, T2, P, P2, today, today2),
         \A k \in 1..Len(T) : T[k].day \in Int,
         \A k \in 1..Len(T2) : T2[k].day \in Int,
         NEW v, ValueFits(v, T, P, balance, today)
  PROVE  ValueFits(v, T2, P2, balance, today2)
<1>1. DaysFit(v.seen, v.on, T2, today2)
  BY DaysStay DEF ValueFits
<1>2. v.known \in 0..Len(T2)
  BY DEF ValueFits, Later
<1>3. P2[v.seen] = P[v.seen]
  <2>1. v.seen \in 0..Len(T)
    BY DEF ValueFits, DaysFit
  <2>. QED BY <2>1 DEF Later
<1>. QED BY <1>1, <1>2, <1>3 DEF ValueFits

LEMMA FlowsStay ==
  ASSUME NEW T, NEW T2, NEW prev, NEW d, NEW known \in 0..Len(T), Len(T) \in Nat,
         \A k \in 1..Len(T) : T2[k] = T[k]
  PROVE  Flows(T2, prev, d, known) = Flows(T, prev, d, known)
<1>1. 1..known \subseteq 1..Len(T)
  OBVIOUS
<1>. QED BY <1>1 DEF Flows

LEMMA ReturnStays ==
  ASSUME NEW T, NEW T2, NEW nav, NEW prevNav, NEW fetched, NEW window,
         \A k \in window : T2[k] = T[k]
  PROVE  ReturnOf(T2, nav, prevNav, window, fetched) = ReturnOf(T, nav, prevNav, window, fetched)
<1>1. [k \in window |-> FlowValue(T2[k], fetched)] = [k \in window |-> FlowValue(T[k], fetched)]
  OBVIOUS
<1>. QED BY <1>1 DEF ReturnOf

LEMMA RowStays ==
  ASSUME NEW T, NEW T2, NEW P, NEW P2, NEW today, NEW today2, NEW balance,
         Later(T, T2, P, P2, today, today2),
         \A k \in 1..Len(T) : T[k].day \in Int,
         \A k \in 1..Len(T2) : T2[k].day \in Int,
         NEW s, NEW d, RowFits(s, d, T, P, balance, today)
  PROVE  RowFits(s, d, T2, P2, balance, today2)
<1>. SUFFICES ASSUME s.exists PROVE RowFits(s, d, T2, P2, balance, today2)
  BY DEF RowFits
<1>1. ValueFits(s.value, T2, P2, balance, today2)
  BY ValueStays DEF RowFits
<1>2. s.value.known \in 0..Len(T) /\ Len(T) \in Nat /\ \A k \in 1..Len(T) : T2[k] = T[k]
  BY DEF RowFits, ValueFits, Later
<1>3. CASE s.prev = 0
  BY <1>1, <1>3 DEF RowFits
<1>4. CASE s.prev # 0
  <2>1. ValueFits(s.base[1], T2, P2, balance, today2)
    BY <1>4, ValueStays DEF RowFits
  <2>2. s.stripped = Flows(T, s.prev, d, s.value.known)
    BY <1>4 DEF RowFits
  <2>3. s.stripped = Flows(T2, s.prev, d, s.value.known)
    BY <1>2, <2>2, FlowsStay
  <2>4. \A k \in s.stripped : T2[k] = T[k]
    BY <1>2, <2>2 DEF Flows
  <2>5. ReturnOf(T2, s.value.nav, s.base[1].nav, s.stripped, s.value.fetched)
          = ReturnOf(T, s.value.nav, s.base[1].nav, s.stripped, s.value.fetched)
    BY <2>4, ReturnStays
  <2>. QED BY <1>1, <1>4, <2>1, <2>3, <2>5 DEF RowFits
<1>. QED BY <1>3, <1>4

-----------------------------------------------------------------------------
(* The first state, and steps that write no snapshot.                      *)

LEMMA NoneIsPutIn == ASSUME Len(txs) = 0 PROVE PutIn(Len(txs)) = 0
<1>1. 1..Len(txs) = {}
  OBVIOUS
<1>. QED BY <1>1, SumOfNone DEF PutIn

LEMMA InitInv == SeriesInit => SeriesInv
<1>. SUFFICES ASSUME SeriesInit PROVE SeriesInv
  OBVIOUS
<1>1. txs = <<>> /\ Len(txs) = 0 /\ txs \in Seq(TxRecord) /\ DOMAIN txs = {}
  BY LenProperties, EmptySeq DEF SeriesInit
<1>2. Now
  <2>1. day \in Dates /\ price \in Prices /\ written \in 0..MaxWrites
    BY SeriesAssumption DEF SeriesInit, Dates
  <2>2. cash \in Int /\ shares \in Int /\ gain \in Int
    BY SeriesAssumption DEF SeriesInit
  <2>3. shares = StartShares /\ held = (StartShares > 0)
    BY DEF SeriesInit
  <2>4. held \in BOOLEAN /\ (shares > 0 => held)
    <3>1. held \in BOOLEAN
      BY <2>3
    <3>2. shares > 0 => held
      BY <2>3, Zenon
    <3>. QED BY <3>1, <3>2
  <2>. QED BY <1>1, <2>1, <2>2, <2>4 DEF Now, TxsOK
<1>3. Rows
  BY DEF Rows, SeriesInit, RowFits, NoSnapshot
<1>4. Reads
  BY DEF Reads, SeriesInit
<1>. QED BY <1>2, <1>3, <1>4 DEF SeriesInv

LEMMA DaysAreInts ==
  ASSUME TxsOK PROVE \A k \in 1..Len(txs) : txs[k].day \in Int
<1>. SUFFICES ASSUME NEW k \in 1..Len(txs) PROVE txs[k].day \in Int
  OBVIOUS
<1>1. k \in DOMAIN txs
  BY TxIds
<1>2. txs[k].day \in Dates
  BY <1>1, TxFields
<1>. QED BY <1>2, DatesAreInts

LEMMA RowsStay ==
  ASSUME SeriesInv, TxsOK', Later(txs, txs', PutIns, PutIns', day, day'),
         Balance' = Balance, snapshots' = snapshots
  PROVE  Rows'
<1>1. \A k \in 1..Len(txs) : txs[k].day \in Int
  BY DaysAreInts DEF SeriesInv, Now
<1>2. \A k \in 1..Len(txs') : txs'[k].day \in Int
  <2>1. DOMAIN txs' = 1..Len(txs')
    BY LenProperties DEF TxsOK
  <2>2. \A k \in 1..Len(txs') : txs'[k] \in TxRecord
    BY <2>1, LenProperties DEF TxsOK
  <2>3. \A tx \in TxRecord : tx.day \in Dates
    BY DEF TxRecord
  <2>. QED BY <2>2, <2>3, DatesAreInts
<1>3. ASSUME NEW d \in Dates
      PROVE  RowFits(snapshots[d], d, txs', PutIns', Balance, day')
  <2>1. RowFits(snapshots[d], d, txs, PutIns, Balance, day)
    BY DEF SeriesInv, Rows
  <2>. QED BY <1>1, <1>2, <2>1, RowStays
<1>4. DOMAIN snapshots' = Dates
  BY DEF SeriesInv, Rows
<1>. HIDE DEF Balance, PutIns
<1>5. \A d \in Dates : RowFits(snapshots'[d], d, txs', PutIns', Balance', day')
  BY <1>3
<1>. QED BY <1>4, <1>5 DEF Rows

\* Nothing recorded, but a day passed or the market moved.
LEMMA UnrecordedInv ==
  ASSUME SeriesInv, txs' = txs, day' \in Dates, day <= day',
         price' \in Prices, gain' \in Int, UNCHANGED <<cash, shares, held, snapshots, reading, written>>,
         shares * price' - gain' = shares * price - gain
  PROVE  SeriesInv'
<1>1. day \in Int /\ day' \in Int
  BY DatesAreInts DEF SeriesInv, Now
<1>2. DOMAIN txs' = DOMAIN txs /\ Len(txs') = Len(txs) /\ TxsOK /\ TxsOK' /\ Len(txs) \in Nat
  BY TxIds DEF SeriesInv, Now, TxsOK
<1>3. PutIns' = PutIns /\ PutIn(Len(txs))' = PutIn(Len(txs))
  BY DEF PutIns, PutIn, AtMarket
<1>4. Later(txs, txs', PutIns, PutIns', day, day')
  BY <1>1, <1>2, <1>3 DEF Later
<1>5. Balance' = Balance
  <2>1. cash \in Int /\ shares \in Int /\ price \in Int /\ price' \in Int /\ gain \in Int
    BY PricesAreInts DEF SeriesInv, Now
  <2>2. PutIn(Len(txs)) \in Int
    BY <1>2, PutInType
  <2>. DEFINE a == shares * price
              b == shares * price'
  <2>3. a \in Int /\ b \in Int /\ b - gain' = a - gain
    <3>1. a \in Int /\ b \in Int
      BY <2>1
    <3>. QED BY <3>1
  <2>4. Balance = cash + a - gain - PutIn(Len(txs))
    BY DEF Balance
  <2>5. Balance' = cash + b - gain' - PutIn(Len(txs))
    BY <1>3 DEF Balance
  <2>. HIDE DEF a, b
  <2>. QED BY <2>1, <2>2, <2>3, <2>4, <2>5
<1>6. Rows'
  BY <1>2, <1>4, <1>5, RowsStay
<1>7. Now'
  <2>1. \A k \in DOMAIN txs : txs[k].day \in Int
    BY <1>2, TxIds, DaysAreInts
  <2>. QED BY <1>1, <1>2, <2>1 DEF SeriesInv, Now
<1>8. Reads'
  <2>1. \A k \in 1..Len(txs) : txs[k].day \in Int
    BY <1>2, DaysAreInts
  <2>2. ASSUME NEW r \in Generations, reading[r] # NotReading
        PROVE  reading[r].date \in Dates /\ ReadFits(reading[r].read, txs', cash', shares', day')
    <3>1. reading[r].date \in Dates /\ ReadFits(reading[r].read, txs, cash, shares, day)
      BY <2>2 DEF SeriesInv, Reads
    <3>2. DaysFit(reading[r].read.seen, reading[r].read.on, txs', day')
      BY <1>4, <2>1, <3>1, DaysStay DEF ReadFits
    <3>. QED BY <3>1, <3>2 DEF ReadFits
  <2>. QED BY <2>2 DEF SeriesInv, Reads
<1>. QED BY <1>6, <1>7, <1>8 DEF SeriesInv

LEMMA NextDayInv == ASSUME SeriesInv, NextDay PROVE SeriesInv'
<1>1. day \in Dates /\ day' \in Dates /\ day <= day'
  BY SeriesAssumption DEF SeriesInv, Now, NextDay, Dates
<1>2. /\ txs' = txs /\ price' \in Prices /\ gain' \in Int
      /\ UNCHANGED <<cash, shares, held, snapshots, reading, written>>
      /\ shares * price' - gain' = shares * price - gain
  BY DEF SeriesInv, Now, NextDay
<1>. QED BY <1>1, <1>2, UnrecordedInv

LEMMA MarketMovesInv == ASSUME SeriesInv, NEW p \in Prices, MarketMoves(p) PROVE SeriesInv'
<1>1. price \in Int /\ p \in Int /\ shares \in Int /\ gain \in Int
  BY SeriesAssumption DEF SeriesInv, Now
<1>2. price' = p /\ gain' = gain + (p - price) * shares
  BY DEF MarketMoves
<1>3. gain' \in Int /\ shares * p - gain' = shares * price - gain
  <2>1. (p - price) * shares = shares * p - shares * price
    BY <1>1
  <2>2. shares * p \in Int /\ shares * price \in Int
    BY <1>1
  <2>. QED BY <1>1, <1>2, <2>1, <2>2
<1>4. day' \in Dates /\ day <= day' /\ txs' = txs
      /\ UNCHANGED <<cash, shares, held, snapshots, reading, written>>
  BY DatesAreInts DEF MarketMoves, SeriesInv, Now
<1>. QED BY <1>2, <1>3, <1>4, UnrecordedInv

-----------------------------------------------------------------------------
(* Transactions recorded.                                                  *)

NewTx(kind, dCash, dShares, p) ==
  [kind |-> kind, day |-> day, cash |-> dCash, shares |-> dShares, price |-> p,
   market |-> IF p = NoPrice THEN NoPrice ELSE price]

LEMMA BalanceArithmetic ==
  ASSUME NEW c \in Int, NEW dc \in Int, NEW a \in Int, NEW b \in Int, NEW g \in Int,
         NEW g2 \in Int, NEW before \in Int, NEW e \in Int, e = dc + b - (g2 - g)
  PROVE  (c + dc) + (a + b) - g2 - (before + e) = c + a - g - before
OBVIOUS

LEMMA RecordInv ==
  ASSUME SeriesInv,
         NEW kind \in Kinds, NEW dCash \in Int, NEW dShares \in Int,
         NEW p \in Costs \union {NoPrice},
         RecordTx(kind, dCash, dShares, p),
         held' \in BOOLEAN, shares + dShares > 0 => held', gain' \in Int,
         LET tx == NewTx(kind, dCash, dShares, p)
         IN  FlowValue(tx, <<tx.market>>) = dCash + dShares * price - (gain' - gain)
  PROVE  SeriesInv'
<1>. DEFINE tx == NewTx(kind, dCash, dShares, p)
<1>1. day \in Dates /\ day \in Int /\ day' = day /\ price' = price /\ price \in Prices
      /\ written' = written
  BY DatesAreInts DEF SeriesInv, Now, RecordTx
<1>2. tx \in TxRecord /\ tx.day = day
  BY <1>1 DEF TxRecord, NewTx, NoPrice
<1>3. Grows(tx)
  BY DEF RecordTx, NewTx, Grows
<1>4. FlowValue(tx, <<tx.market>>) = dCash + dShares * price - (gain' - gain)
  OBVIOUS
<1>. HIDE DEF tx
<1>5. TxsOK /\ Len(txs) \in Nat /\ DOMAIN txs = 1..Len(txs)
  BY TxIds DEF SeriesInv, Now
<1>6. /\ TxsOK' /\ Len(txs') = Len(txs) + 1
      /\ DOMAIN txs' = 1..(Len(txs) + 1)
      /\ \A k \in DOMAIN txs : txs'[k] = txs[k]
      /\ txs'[Len(txs) + 1] = tx
  BY <1>2, <1>3, <1>5, TxsGrow
<1>7. \A n \in 0..Len(txs) : PutIn(n)' = PutIn(n)
  BY <1>2, <1>3, <1>5, PutInGrows
<1>8. PutIn(Len(txs))' = PutIn(Len(txs)) + FlowValue(tx, <<tx.market>>)
  BY <1>2, <1>3, <1>5, PutInGrows
<1>9. \A n \in 0..Len(txs) : PutIns'[n] = PutIns[n]
  BY <1>5, <1>6, <1>7 DEF PutIns
<1>10. \A k \in 1..Len(txs') : k > Len(txs) => day <= txs'[k].day
  BY <1>1, <1>2, <1>5, <1>6
<1>11. Later(txs, txs', PutIns, PutIns', day, day')
  BY <1>1, <1>5, <1>6, <1>9, <1>10 DEF Later
<1>12. cash' = cash + dCash /\ shares' = shares + dShares /\ cash \in Int /\ shares \in Int
  BY DEF RecordTx, SeriesInv, Now
<1>13. Balance' = Balance
  <2>1. price \in Int /\ gain \in Int /\ PutIn(Len(txs)) \in Int
    <3>1. price \in Int /\ gain \in Int
      BY <1>1, PricesAreInts DEF SeriesInv, Now
    <3>2. Len(txs) \in 0..Len(txs)
      BY <1>5
    <3>. QED BY <1>5, <3>1, <3>2, PutInType
  <2>. DEFINE a == shares * price
              b == dShares * price
              e == FlowValue(tx, <<tx.market>>)
              before == PutIn(Len(txs))
  <2>2. (shares + dShares) * price = a + b /\ a \in Int /\ b \in Int
    BY <1>12, <2>1
  <2>3. e = dCash + b - (gain' - gain)
    BY <1>4
  <2>4. Balance = cash + a - gain - before
    BY DEF Balance
  <2>5. Balance' = (cash + dCash) + (a + b) - gain' - (before + e)
    BY <1>1, <1>8, <1>12, <2>2 DEF Balance
  <2>6. before \in Int
    BY <2>1
  <2>. HIDE DEF a, b, e, before
  <2>7. dCash \in Int /\ cash \in Int /\ gain' \in Int /\ e \in Int
    BY <1>12, <2>1, <2>2, <2>3
  <2>8. \A g \in Int : e = dCash + b - (g - gain)
          => (cash + dCash) + (a + b) - g - (before + e) = cash + a - gain - before
    BY <2>1, <2>2, <2>6, <2>7, BalanceArithmetic
  <2>9. (cash + dCash) + (a + b) - gain' - (before + e) = cash + a - gain - before
    BY <2>3, <2>7, <2>8, Zenon
  <2>. QED BY <2>4, <2>5, <2>9
<1>14. Rows'
  BY <1>6, <1>11, <1>13, RowsStay DEF RecordTx
<1>15. Now'
  <2>1. \A k \in DOMAIN txs' : txs'[k].day <= day'
    BY <1>1, <1>2, <1>5, <1>6 DEF SeriesInv, Now
  <2>2. cash' \in Int /\ shares' \in Int /\ (shares' > 0 => held')
    BY <1>12
  <2>. QED BY <1>1, <1>6, <2>1, <2>2 DEF SeriesInv, Now
<1>16. Reads'
  <2>1. \A k \in 1..Len(txs) : txs[k].day \in Int
    BY <1>5, DaysAreInts
  <2>2. \A k \in 1..Len(txs') : txs'[k].day \in Int
    BY <1>1, <1>2, <1>5, <1>6, <2>1, SMTT(20)
  <2>3. reading' = reading
    BY DEF RecordTx
  <2>4. ASSUME NEW r \in Generations, reading[r] # NotReading
        PROVE  reading[r].date \in Dates /\ ReadFits(reading[r].read, txs', cash', shares', day')
    <3>1. reading[r].date \in Dates /\ ReadFits(reading[r].read, txs, cash, shares, day)
      BY <2>4 DEF SeriesInv, Reads
    <3>2. DaysFit(reading[r].read.seen, reading[r].read.on, txs', day')
      BY <1>11, <2>1, <2>2, <3>1, DaysStay DEF ReadFits
    <3>3. reading[r].read.seen # Len(txs')
      BY <1>5, <1>6, <3>1 DEF ReadFits, DaysFit
    <3>. QED BY <3>1, <3>2, <3>3 DEF ReadFits
  <2>. QED BY <2>3, <2>4 DEF SeriesInv, Reads
<1>. QED BY <1>14, <1>15, <1>16 DEF SeriesInv

LEMMA MoveExternalCashInv ==
  ASSUME SeriesInv, NEW a \in CashMoves, MoveExternalCash(a) PROVE SeriesInv'
<1>1. a \in Int /\ 0 \in Int /\ price \in Int /\ gain \in Int
  BY SeriesAssumption, PricesAreInts DEF SeriesInv, Now
<1>2. RecordTx("cash", a, 0, NoPrice) /\ gain' = gain /\ held' = held
  BY DEF MoveExternalCash
<1>3. held' \in BOOLEAN /\ (shares + 0 > 0 => held')
  BY <1>2 DEF SeriesInv, Now
<1>4. LET tx == NewTx("cash", a, 0, NoPrice)
      IN  FlowValue(tx, <<tx.market>>) = a + 0 * price - (gain' - gain)
  BY <1>1, <1>2 DEF NewTx, FlowValue
<1>5. "cash" \in Kinds /\ NoPrice \in Costs \union {NoPrice}
  BY DEF Kinds, FlowKinds
<1>. QED BY <1>1, <1>2, <1>3, <1>4, <1>5, RecordInv

LEMMA ImportSharesInv ==
  ASSUME SeriesInv, NEW n \in ShareMoves, NEW cost \in Costs, ImportShares(n, cost)
  PROVE  SeriesInv'
<1>1. n \in Int /\ 0 \in Int /\ price \in Int /\ gain \in Int /\ cost # NoPrice
  BY SeriesAssumption, PricesAreInts DEF SeriesInv, Now, NoPrice
<1>2. RecordTx("import", 0, n, cost) /\ gain' = gain /\ held' = TRUE
  BY DEF ImportShares
<1>3. LET tx == NewTx("import", 0, n, cost)
      IN  FlowValue(tx, <<tx.market>>) = 0 + n * price - (gain' - gain)
  BY <1>1, <1>2 DEF NewTx, FlowValue, FlowPrice
<1>4. "import" \in Kinds /\ cost \in Costs \union {NoPrice}
  BY DEF Kinds, FlowKinds
<1>. QED BY <1>1, <1>2, <1>3, <1>4, RecordInv DEF SeriesInv, Now

LEMMA CorrectSharesInv ==
  ASSUME SeriesInv, NEW n \in ShareMoves, NEW cost \in Costs, CorrectShares(n, cost)
  PROVE  SeriesInv'
<1>1. n \in Int /\ 0 \in Int /\ price \in Int /\ gain \in Int /\ cost # NoPrice
  BY SeriesAssumption, PricesAreInts DEF SeriesInv, Now, NoPrice
<1>2. RecordTx("correction", 0, n, cost) /\ gain' = gain /\ held /\ held' = held
  BY DEF CorrectShares
<1>3. LET tx == NewTx("correction", 0, n, cost)
      IN  FlowValue(tx, <<tx.market>>) = 0 + n * price - (gain' - gain)
  BY <1>1, <1>2 DEF NewTx, FlowValue, FlowPrice
<1>4. "correction" \in Kinds /\ cost \in Costs \union {NoPrice}
  BY DEF Kinds, FlowKinds
<1>. QED BY <1>1, <1>2, <1>3, <1>4, RecordInv DEF SeriesInv, Now

\* A trade at the market price puts nothing in.
LEMMA TradeInv ==
  ASSUME SeriesInv, NEW n \in Int, NEW c \in Int, c + n * price = 0,
         RecordTx("trade", c, n, NoPrice), gain' = gain,
         held' \in BOOLEAN, shares + n > 0 => held'
  PROVE  SeriesInv'
<1>1. price \in Int /\ gain \in Int /\ gain' \in Int
  BY PricesAreInts DEF SeriesInv, Now
<1>2. c + n * price - (gain' - gain) = 0
  BY <1>1
<1>3. LET tx == NewTx("trade", c, n, NoPrice)
      IN  FlowValue(tx, <<tx.market>>) = c + n * price - (gain' - gain)
  BY <1>2 DEF NewTx, FlowValue
<1>4. "trade" \in Kinds /\ NoPrice \in Costs \union {NoPrice}
  BY DEF Kinds, FlowKinds
<1>. QED BY <1>1, <1>3, <1>4, RecordInv

LEMMA BuyInv == ASSUME SeriesInv, NEW n \in ShareMoves, Buy(n) PROVE SeriesInv'
<1>1. n \in Int /\ price \in Int
  BY SeriesAssumption, PricesAreInts DEF SeriesInv, Now
<1>2. -n * price \in Int /\ -n * price + n * price = 0
  BY <1>1
<1>. QED BY <1>1, <1>2, TradeInv DEF Buy

LEMMA SellInv ==
  ASSUME SeriesInv, NEW n \in ShareMoves, NEW remove \in BOOLEAN, Sell(n, remove)
  PROVE  SeriesInv'
<1>1. n \in Int /\ -n \in Int /\ price \in Int /\ shares \in Int
  BY SeriesAssumption, PricesAreInts DEF SeriesInv, Now
<1>2. n * price \in Int /\ n * price + (-n) * price = 0
  BY <1>1
<1>3. RecordTx("trade", n * price, -n, NoPrice) /\ gain' = gain
      /\ held' = ~(n = shares /\ remove)
  BY DEF Sell
<1>4. held' \in BOOLEAN
  BY <1>3, Zenon
<1>5. shares + (-n) > 0 => n # shares
  BY <1>1
<1>6. n # shares => held'
  BY <1>3, Zenon
<1>. QED BY <1>1, <1>2, <1>3, <1>4, <1>5, <1>6, TradeInv

LEMMA PayDividendInv ==
  ASSUME SeriesInv, NEW a \in CashMoves, PayDividend(a) PROVE SeriesInv'
<1>1. a \in Int /\ 0 \in Int /\ price \in Int /\ gain \in Int
  BY SeriesAssumption, PricesAreInts DEF SeriesInv, Now
<1>2. RecordTx("dividend", a, 0, NoPrice) /\ gain' = gain + a /\ held' = held
  BY DEF PayDividend
<1>3. held' \in BOOLEAN /\ (shares + 0 > 0 => held') /\ gain' \in Int
  BY <1>1, <1>2 DEF SeriesInv, Now
<1>4. a + 0 * price - (gain' - gain) = 0
  BY <1>1, <1>2
<1>5. LET tx == NewTx("dividend", a, 0, NoPrice)
      IN  FlowValue(tx, <<tx.market>>) = a + 0 * price - (gain' - gain)
  BY <1>4 DEF NewTx, FlowValue
<1>6. "dividend" \in Kinds /\ NoPrice \in Costs \union {NoPrice}
  BY DEF Kinds, FlowKinds
<1>. QED BY <1>1, <1>2, <1>3, <1>5, <1>6, RecordInv

-----------------------------------------------------------------------------
(* Snapshots written.                                                      *)

LEMMA PreviousIsBefore ==
  ASSUME NEW date \in Dates
  PROVE  /\ Previous(date) \in 0..(date - 1)
         /\ Previous(date) # 0 => Previous(date) \in Dates /\ snapshots[Previous(date)].exists
         /\ \A d \in 1..(date - 1) : snapshots[d].exists => d <= Previous(date)
<1>. DEFINE S == {d \in 1..(date - 1) : snapshots[d].exists} \union {0}
<1>1. date \in Nat \ {0} /\ date <= MaxDay /\ MaxDay \in Nat
  BY SeriesAssumption DEF Dates
<1>2. date - 1 \in Nat /\ S \in SUBSET (0..(date - 1)) /\ S # {}
  BY <1>1
<1>3. Previous(date) = Max(S)
  BY DEF Previous
<1>4. Max(S) \in S /\ \A k \in S : Max(S) >= k
  BY <1>2, MaxOfNumbers
<1>5. 1..(date - 1) \subseteq Dates
  BY <1>1 DEF Dates
<1>6. Max(S) \in 0..(date - 1)
  BY <1>2, <1>4
<1>7. Max(S) # 0 => Max(S) \in Dates /\ snapshots[Max(S)].exists
  BY <1>4, <1>5
<1>8. ASSUME NEW d \in 1..(date - 1), snapshots[d].exists
      PROVE  d <= Max(S)
  BY <1>1, <1>2, <1>4, <1>8
<1>. QED BY <1>3, <1>6, <1>7, <1>8

LEMMA StoreInv ==
  ASSUME SeriesInv, written < MaxWrites,
         NEW date \in Dates, NEW read, ReadFits(read, txs, cash, shares, day),
         Store(date, read), UNCHANGED <<day, price, cash, shares, held, txs, gain>>
  PROVE  Now' /\ Rows'
<1>. DEFINE fetched  == IF read.held THEN <<price>> ELSE <<>>
            value    == [nav |-> read.cash + read.shares * price, fetched |-> fetched,
                         on |-> read.on, seen |-> read.seen,
                         price |-> price, gain |-> gain, known |-> Len(txs)]
            prev     == Previous(date)
            base     == IF prev = 0 THEN <<>> ELSE <<snapshots[prev].value>>
            stripped == IF prev = 0 THEN {} ELSE Window(prev, date)
            new      == [exists |-> TRUE, value |-> value, prev |-> prev, base |-> base,
                         stripped |-> stripped,
                         return |-> IF prev = 0 THEN <<>>
                                    ELSE InvestmentReturn(value.nav, base[1].nav, stripped, fetched)]
<1>1. written' = written + 1 /\ snapshots' = [snapshots EXCEPT ![date] = new]
  BY DEF Store
<1>2. /\ TxsOK /\ Len(txs) \in Nat /\ DOMAIN txs = 1..Len(txs)
      /\ price \in Prices /\ price \in Int /\ gain \in Int /\ cash \in Int /\ shares \in Int
      /\ PutIn(Len(txs)) \in Int /\ PutIns[Len(txs)] = PutIn(Len(txs))
  <2>1. TxsOK /\ price \in Prices /\ gain \in Int /\ cash \in Int /\ shares \in Int
    BY DEF SeriesInv, Now
  <2>2. Len(txs) \in Nat /\ DOMAIN txs = 1..Len(txs) /\ Len(txs) \in 0..Len(txs)
    BY <2>1, TxIds
  <2>3. PutIn(Len(txs)) \in Int
    BY <2>1, <2>2, PutInType
  <2>. QED BY <2>1, <2>2, <2>3, PricesAreInts DEF PutIns
<1>3. Now'
  <2>1. written' \in 0..MaxWrites
    BY <1>1, SeriesAssumption DEF SeriesInv, Now
  <2>. QED BY <2>1 DEF SeriesInv, Now, TxsOK
<1>4. ValueFits(value, txs, PutIns, Balance, day)
  <2>1. read \in Reading /\ read.cash \in Int /\ read.shares \in Int
        /\ read.held \in BOOLEAN /\ read.on \in Dates /\ read.seen \in Nat
    BY DEF ReadFits, Reading
  <2>2. fetched = <<>> \/ fetched = <<price>>
    OBVIOUS
  <2>3. fetched \in {<<>>} \union {<<p>> : p \in Prices}
    BY <1>2, <2>2
  <2>4. read.cash + read.shares * price \in Int
    BY <1>2, <2>1
  <2>. HIDE DEF fetched
  <2>5. value \in Valuation
    BY <1>2, <2>1, <2>3, <2>4 DEF Valuation
  <2>6. DaysFit(value.seen, value.on, txs, day)
    BY DEF ReadFits
  <2>7. value.known \in 0..Len(txs) /\ value.seen <= value.known
    BY <1>2, <2>6 DEF DaysFit
  <2>8. value.known = value.seen => value.nav = value.gain + PutIns[value.seen] + Balance
    <3>. SUFFICES ASSUME Len(txs) = read.seen
                  PROVE  read.cash + read.shares * price = gain + PutIns[read.seen] + Balance
      OBVIOUS
    <3>1. read.cash = cash /\ read.shares = shares /\ PutIns[read.seen] = PutIn(Len(txs))
      BY <1>2 DEF ReadFits
    <3>. DEFINE a == shares * price
                b == PutIn(Len(txs))
    <3>2. a \in Int /\ b \in Int
      BY <1>2
    <3>3. Balance = cash + a - gain - b
      BY DEF Balance
    <3>4. read.cash + read.shares * price = cash + a
      BY <3>1
    <3>. HIDE DEF a, b
    <3>5. PutIns[read.seen] = b
      BY <3>1 DEF b
    <3>. QED BY <1>2, <3>2, <3>3, <3>4, <3>5, SMTT(20)
  <2>. QED BY <2>2, <2>5, <2>6, <2>7, <2>8 DEF ValueFits
<1>5. RowFits(new, date, txs, PutIns, Balance, day)
  <2>1. /\ prev \in 0..(date - 1)
        /\ prev # 0 => prev \in Dates /\ snapshots[prev].exists
    BY PreviousIsBefore
  <2>. HIDE DEF value, prev
  <2>2. CASE prev = 0
    BY <1>4, <2>1, <2>2 DEF RowFits
  <2>3. CASE prev # 0
    <3>1. ValueFits(snapshots[prev].value, txs, PutIns, Balance, day)
      BY <2>1, <2>3 DEF SeriesInv, Rows, RowFits
    <3>2. base = <<snapshots[prev].value>> /\ base[1] = snapshots[prev].value
      BY <2>3
    <3>3. stripped = Flows(txs, prev, date, Len(txs)) /\ value.known = Len(txs)
      BY <1>2, <2>3 DEF Window, Flows, value
    <3>4. InvestmentReturn(value.nav, base[1].nav, stripped, value.fetched)
            = ReturnOf(txs, value.nav, base[1].nav, stripped, value.fetched)
      BY DEF InvestmentReturn, ReturnOf
    <3>5. value.fetched = fetched
      BY DEF value
    <3>. HIDE DEF base, stripped, fetched
    <3>. QED BY <1>4, <2>1, <2>3, <3>1, <3>2, <3>3, <3>4, <3>5 DEF RowFits
  <2>. QED BY <2>2, <2>3
<1>6. Rows'
  <2>1. PutIns' = PutIns /\ Balance' = Balance
    BY DEF PutIns, PutIn, AtMarket, Balance
  <2>. HIDE DEF new
  <2>2. DOMAIN snapshots' = Dates
        /\ \A d \in Dates : snapshots'[d] = IF d = date THEN new ELSE snapshots[d]
    BY <1>1 DEF SeriesInv, Rows
  <2>3. \A d \in Dates : RowFits(snapshots'[d], d, txs, PutIns, Balance, day)
    BY <1>5, <2>2 DEF SeriesInv, Rows
  <2>4. \A d \in Dates : RowFits(snapshots'[d], d, txs', PutIns', Balance', day')
    BY <2>1, <2>3
  <2>. QED BY <2>2, <2>4 DEF Rows
<1>. QED BY <1>3, <1>6

LEMMA ReadsStay ==
  ASSUME SeriesInv, UNCHANGED <<txs, cash, shares, day>>, DOMAIN reading' = Generations,
         \A q \in Generations : reading'[q] = reading[q] \/ reading'[q] = NotReading
           \/ \E date \in Dates : \E read :
                reading'[q] = [date |-> date, read |-> read] /\ ReadFits(read, txs, cash, shares, day)
  PROVE  Reads'
<1>1. ASSUME NEW q \in Generations, reading'[q] # NotReading
      PROVE  reading'[q].date \in Dates /\ ReadFits(reading'[q].read, txs, cash, shares, day)
  <2>1. CASE reading'[q] = reading[q]
    BY <1>1, <2>1 DEF SeriesInv, Reads
  <2>2. CASE \E date \in Dates : \E read :
                reading'[q] = [date |-> date, read |-> read] /\ ReadFits(read, txs, cash, shares, day)
    BY <2>2
  <2>. QED BY <1>1, <2>1, <2>2
<1>. QED BY <1>1 DEF Reads

LEMMA ReadingNowFits == ASSUME SeriesInv PROVE ReadFits(ReadingNow, txs, cash, shares, day)
<1>1. TxsOK /\ DOMAIN txs = 1..Len(txs) /\ Len(txs) \in Nat
  BY TxIds DEF SeriesInv, Now
<1>2. DaysFit(Len(txs), day, txs, day)
  BY <1>1, DatesAreInts DEF DaysFit, SeriesInv, Now
<1>3. ReadingNow \in Reading
  BY <1>1 DEF ReadingNow, Reading, SeriesInv, Now
<1>. QED BY <1>2, <1>3 DEF ReadFits, ReadingNow

LEMMA StartSnapshotInv ==
  ASSUME SeriesInv, NEW r \in Generations, NEW date \in Dates, StartSnapshot(r, date)
  PROVE  SeriesInv'
<1>1. reading' = [reading EXCEPT ![r] = [date |-> date, read |-> ReadingNow]]
  BY DEF StartSnapshot
<1>2. ReadFits(ReadingNow, txs, cash, shares, day)
  BY ReadingNowFits
<1>3. DOMAIN reading' = Generations
      /\ \A q \in Generations : reading'[q] = reading[q]
           \/ reading'[q] = [date |-> date, read |-> ReadingNow]
  BY <1>1 DEF SeriesInv, Reads
<1>4. Reads'
  BY <1>2, <1>3, ReadsStay DEF StartSnapshot
<1>5. Now' /\ Rows'
  BY DEF StartSnapshot, SeriesInv, Now, TxsOK, Rows, PutIns, PutIn, AtMarket, Balance
<1>. QED BY <1>4, <1>5 DEF SeriesInv

LEMMA FinishSnapshotInv ==
  ASSUME SeriesInv, written < MaxWrites, NEW r \in Generations, FinishSnapshot(r)
  PROVE  SeriesInv'
<1>1. reading[r].date \in Dates /\ ReadFits(reading[r].read, txs, cash, shares, day)
  BY DEF FinishSnapshot, SeriesInv, Reads
<1>2. Now' /\ Rows'
  BY <1>1, StoreInv DEF FinishSnapshot
<1>3. Reads'
  <2>1. reading' = [reading EXCEPT ![r] = NotReading]
    BY DEF FinishSnapshot
  <2>2. DOMAIN reading' = Generations
        /\ \A q \in Generations : reading'[q] = reading[q] \/ reading'[q] = NotReading
    BY <2>1 DEF SeriesInv, Reads
  <2>. QED BY <2>2, ReadsStay DEF FinishSnapshot
<1>. QED BY <1>2, <1>3 DEF SeriesInv

LEMMA AbandonSnapshotInv ==
  ASSUME SeriesInv, NEW r \in Generations, AbandonSnapshot(r) PROVE SeriesInv'
<1>1. Reads'
  <2>1. reading' = [reading EXCEPT ![r] = NotReading]
    BY DEF AbandonSnapshot
  <2>2. DOMAIN reading' = Generations
        /\ \A q \in Generations : reading'[q] = reading[q] \/ reading'[q] = NotReading
    BY <2>1 DEF SeriesInv, Reads
  <2>. QED BY <2>2, ReadsStay DEF AbandonSnapshot
<1>2. Now' /\ Rows'
  BY DEF AbandonSnapshot, SeriesInv, Now, TxsOK, Rows, PutIns, PutIn, AtMarket, Balance
<1>. QED BY <1>1, <1>2 DEF SeriesInv

LEMMA SnapshotAtOnceInv ==
  ASSUME SeriesInv, written < MaxWrites, NEW date \in Dates, SnapshotAtOnce(date)
  PROVE  SeriesInv'
<1>1. Now' /\ Rows'
  BY ReadingNowFits, StoreInv DEF SnapshotAtOnce
<1>2. Reads'
  BY ReadsStay DEF SnapshotAtOnce, SeriesInv, Reads
<1>. QED BY <1>1, <1>2 DEF SeriesInv

LEMMA StepInv == SeriesInv /\ [SeriesNext]_seriesVars => SeriesInv'
<1>. SUFFICES ASSUME SeriesInv, [SeriesNext]_seriesVars PROVE SeriesInv'
  OBVIOUS
<1>1. CASE UNCHANGED seriesVars
  BY <1>1 DEF seriesVars, SeriesInv, Now, TxsOK, Rows, PutIns, PutIn, AtMarket, Balance, Reads
<1>2. CASE SeriesNext
  <2>1. written < MaxWrites
    BY <1>2 DEF SeriesNext
  <2>2. CASE Market
    BY <2>2, NextDayInv, MarketMovesInv DEF Market
  <2>3. CASE Record
    BY <2>3, MoveExternalCashInv, CorrectSharesInv, ImportSharesInv, BuyInv, SellInv,
       PayDividendInv DEF Record
  <2>4. CASE Generate
    BY <2>1, <2>4, SnapshotAtOnceInv, StartSnapshotInv, FinishSnapshotInv, AbandonSnapshotInv
       DEF Generate
  <2>. QED BY <1>2, <2>2, <2>3, <2>4 DEF SeriesNext
<1>. QED BY <1>1, <1>2

LEMMA SeriesAlwaysInv == SeriesSpec => []SeriesInv
BY InitInv, StepInv, PTL DEF SeriesSpec

-----------------------------------------------------------------------------
(* What the invariant says of the returns.                                 *)

LEMMA RowOf ==
  ASSUME SeriesInv, NEW d \in Dates, snapshots[d].exists
  PROVE  /\ RowFits(snapshots[d], d, txs, PutIns, Balance, day)
         /\ ValueFits(snapshots[d].value, txs, PutIns, Balance, day)
BY DEF SeriesInv, Rows, RowFits

LEMMA FetchedPrices ==
  ASSUME NEW v \in Valuation, v.fetched = <<>> \/ v.fetched = <<v.price>>
  PROVE  /\ v.fetched = <<>> \/ v.fetched[1] \in Int
         /\ v.price \in Int /\ v.nav \in Int /\ v.gain \in Int
         /\ v.seen \in Nat /\ v.known \in Nat /\ v.on \in Dates
<1>1. v.price \in Prices /\ v.nav \in Int /\ v.gain \in Int
      /\ v.seen \in Nat /\ v.known \in Nat /\ v.on \in Dates
  BY DEF Valuation
<1>2. v.price \in Int
  BY <1>1, PricesAreInts
<1>. QED BY <1>1, <1>2

LEMMA FlowOfTx ==
  ASSUME TxsOK, NEW k \in DOMAIN txs, NEW fetched, fetched = <<>> \/ fetched[1] \in Int
  PROVE  FlowValue(txs[k], fetched) \in Int
<1>1. txs[k].cash \in Int /\ txs[k].shares \in Int /\ txs[k].price \in Int
  BY TxFields
<1>. QED BY <1>1, FlowType

LEMMA ReturnType ==
  ASSUME SeriesInv, NEW d \in Dates, snapshots[d].exists
  PROVE  Range(snapshots[d].return) \subseteq Int
<1>. DEFINE s == snapshots[d]
            f == [k \in s.stripped |-> FlowValue(txs[k], s.value.fetched)]
<1>1. RowFits(s, d, txs, PutIns, Balance, day) /\ ValueFits(s.value, txs, PutIns, Balance, day)
  BY RowOf
<1>2. s.prev = 0 => s.return = <<>>
  BY <1>1 DEF RowFits
<1>3. ASSUME s.prev # 0, s.base[1].nav > 0
      PROVE  s.return = <<s.value.nav - s.base[1].nav - SumFunctionOnSet(f, s.stripped)>>
  <2>1. s.return = ReturnOf(txs, s.value.nav, s.base[1].nav, s.stripped, s.value.fetched)
    BY <1>1, <1>3 DEF RowFits
  <2>2. SumFunction(f) = SumFunctionOnSet(f, s.stripped)
    BY DEF SumFunction, SumFunctionOnSet, FoldFunction
  <2>. QED BY <1>3, <2>1, <2>2 DEF ReturnOf
<1>4. ASSUME s.prev # 0, ~(s.base[1].nav > 0) PROVE s.return = <<>>
  BY <1>1, <1>4 DEF RowFits, ReturnOf
<1>5. ASSUME s.prev # 0
      PROVE  s.value.nav - s.base[1].nav - SumFunctionOnSet(f, s.stripped) \in Int
  <2>1. TxsOK /\ DOMAIN txs = 1..Len(txs) /\ Len(txs) \in Nat
    BY TxIds DEF SeriesInv, Now
  <2>2. s.value.known \in 0..Len(txs) /\ s.value \in Valuation
        /\ (s.value.fetched = <<>> \/ s.value.fetched = <<s.value.price>>)
        /\ s.base[1] \in Valuation
        /\ s.stripped = Flows(txs, s.prev, d, s.value.known)
    BY <1>1, <1>5 DEF RowFits, ValueFits
  <2>3. s.stripped \subseteq 1..s.value.known
    BY <2>2 DEF Flows
  <2>4. IsFiniteSet(s.stripped)
    BY <2>2, <2>3, FS_Interval, FS_Subset
  <2>5. \A k \in s.stripped : k \in DOMAIN txs
    BY <2>1, <2>2, <2>3
  <2>6. s.value.fetched = <<>> \/ s.value.fetched[1] \in Int
    BY <2>2, FetchedPrices
  <2>7. \A k \in s.stripped : f[k] \in Int
    BY <2>1, <2>5, <2>6, FlowOfTx
  <2>8. SumFunctionOnSet(f, s.stripped) \in Int
    <3>. HIDE DEF f, s
    <3>. QED BY <2>4, <2>7, SumType
  <2>9. s.value.nav \in Int /\ s.base[1].nav \in Int
    BY <2>2 DEF Valuation
  <2>. HIDE DEF f, s
  <2>. QED BY <2>8, <2>9
<1>. HIDE DEF f, s
<1>6. s.return = <<>> \/ \E i \in Int : s.return = <<i>>
  BY <1>2, <1>3, <1>4, <1>5, Zenon
<1>. QED BY <1>6 DEF Range, s

LEMMA TypeOfInv == SeriesInv => SeriesTypeOK
<1>. SUFFICES ASSUME SeriesInv PROVE SeriesTypeOK
  OBVIOUS
<1>1. /\ day \in Dates /\ price \in Prices /\ {cash, shares, gain} \subseteq Int
      /\ held \in BOOLEAN /\ (shares > 0 => held) /\ written \in 0..MaxWrites
  BY DEF SeriesInv, Now
<1>2. \A k \in DOMAIN txs : txs[k] \in TxRecord
  BY TxFields DEF SeriesInv, Now
<1>3. ASSUME NEW d \in Dates, snapshots[d].exists
      PROVE  /\ snapshots[d].value \in Valuation
             /\ snapshots[d].prev \in 0..(d - 1)
             /\ Len(snapshots[d].base) = (IF snapshots[d].prev = 0 THEN 0 ELSE 1)
             /\ Range(snapshots[d].base) \subseteq Valuation
             /\ Range(snapshots[d].return) \subseteq Int
             /\ snapshots[d].stripped \subseteq 1..snapshots[d].value.known
  <2>. DEFINE s == snapshots[d]
  <2>1. RowFits(s, d, txs, PutIns, Balance, day) /\ s.exists
    BY <1>3, RowOf
  <2>2. Range(s.return) \subseteq Int
    BY <1>3, ReturnType
  <2>. HIDE DEF s
  <2>3. s.value \in Valuation /\ s.prev \in 0..(d - 1)
    BY <2>1 DEF RowFits, ValueFits
  <2>4. CASE s.prev = 0
    <3>1. s.base = <<>> /\ s.stripped = {}
      BY <2>1, <2>4 DEF RowFits
    <3>. QED BY <2>2, <2>3, <2>4, <3>1 DEF Range, s
  <2>5. CASE s.prev # 0
    <3>1. s.base = <<s.base[1]>> /\ s.base[1] \in Valuation
          /\ s.stripped = Flows(txs, s.prev, d, s.value.known)
      BY <2>1, <2>5 DEF RowFits, ValueFits
    <3>2. Len(s.base) = 1 /\ DOMAIN s.base = {1}
      BY <3>1
    <3>3. s.stripped \subseteq 1..s.value.known
      BY <3>1 DEF Flows
    <3>4. Range(s.base) \subseteq Valuation
      BY <3>1, <3>2 DEF Range
    <3>. QED BY <2>2, <2>3, <2>5, <3>2, <3>3, <3>4 DEF s
  <2>. QED BY <2>4, <2>5
<1>4. \A r \in Generations : reading[r] # NotReading =>
        reading[r].date \in Dates /\ reading[r].read \in Reading
  BY DEF SeriesInv, Reads, ReadFits
<1>. QED BY <1>1, <1>2, <1>3, <1>4 DEF SeriesTypeOK

LEMMA StrippedOnce == SeriesInv => FlowsStrippedOnce
<1>. SUFFICES ASSUME SeriesInv, Chained,
                     NEW d \in Dates, NEW e \in Dates, d < e,
                     snapshots[d].exists, snapshots[e].exists,
                     NEW k \in snapshots[d].stripped \intersect snapshots[e].stripped
              PROVE  FALSE
  <2>1. \A d, e \in Dates : d # e => d < e \/ e < d
    BY DatesAreInts
  <2>. QED BY <2>1 DEF FlowsStrippedOnce
<1>1. snapshots[e].prev = Previous(e)
  BY DEF Chained
<1>2. d \in 1..(e - 1)
  BY DatesAreInts
<1>3. d <= snapshots[e].prev
  BY <1>1, <1>2, PreviousIsBefore
<1>4. d \in Nat \ {0} /\ e \in Nat \ {0}
  BY DatesAreInts
<1>5. RowFits(snapshots[d], d, txs, PutIns, Balance, day)
      /\ RowFits(snapshots[e], e, txs, PutIns, Balance, day)
  BY RowOf
<1>6. snapshots[d].stripped # {} => k \in Flows(txs, snapshots[d].prev, d, snapshots[d].value.known)
  BY <1>5 DEF RowFits
<1>7. k \in Flows(txs, snapshots[e].prev, e, snapshots[e].value.known)
  BY <1>5 DEF RowFits
<1>8. k \in DOMAIN txs
  <2>1. snapshots[e].value.known \in 0..Len(txs)
    BY RowOf DEF ValueFits
  <2>2. DOMAIN txs = 1..Len(txs) /\ Len(txs) \in Nat
    BY TxIds DEF SeriesInv, Now
  <2>. QED BY <1>7, <2>1, <2>2 DEF Flows
<1>9. txs[k].day \in Int
  BY <1>8, TxIds, DaysAreInts DEF SeriesInv, Now
<1>10. txs[k].day <= d /\ snapshots[e].prev < txs[k].day
  BY <1>6, <1>7 DEF Flows
<1>11. snapshots[e].prev \in Int
  BY <1>4, <1>5 DEF RowFits
<1>. QED BY <1>3, <1>4, <1>9, <1>10, <1>11

\* What is stripped is what was recorded between the two readings.
LEMMA StrippedBetween ==
  ASSUME SeriesInv, NEW d \in Dates, Returned(d),
         TakenAtOnce(snapshots[d].value, d),
         TakenAtOnce(snapshots[d].base[1], snapshots[d].prev),
         LateFor(snapshots[d].base[1]) = {}
  PROVE  /\ snapshots[d].base[1].seen \in Nat
         /\ snapshots[d].value.seen \in 0..Len(txs)
         /\ snapshots[d].base[1].seen <= snapshots[d].value.seen
         /\ snapshots[d].stripped = (snapshots[d].base[1].seen + 1)..snapshots[d].value.seen
<1>. DEFINE s == snapshots[d]
            v == s.value
            b == s.base[1]
<1>1. s.exists /\ RowFits(s, d, txs, PutIns, Balance, day)
      /\ ValueFits(v, txs, PutIns, Balance, day)
  BY RowOf DEF Returned
<1>2. s.prev # 0
  BY <1>1 DEF RowFits, Returned
<1>3. ValueFits(b, txs, PutIns, Balance, day)
      /\ s.stripped = Flows(txs, s.prev, d, v.known)
  BY <1>1, <1>2 DEF RowFits
<1>4. v.on = d /\ v.known = v.seen /\ b.on = s.prev /\ b.known = b.seen
  BY DEF TakenAtOnce
<1>5. DOMAIN txs = 1..Len(txs) /\ Len(txs) \in Nat /\ TxsOK
  BY TxIds DEF SeriesInv, Now
<1>6. \A k \in 1..Len(txs) : ~(k > b.seen /\ txs[k].day <= b.on)
  BY <1>5 DEF LateFor
<1>. HIDE DEF s, v, b
<1>7. v.seen \in 0..Len(txs) /\ b.seen \in 0..Len(txs)
      /\ \A k \in 1..Len(txs) : /\ k <= v.seen => txs[k].day <= d
                                /\ k > v.seen => d <= txs[k].day
                                /\ k <= b.seen => txs[k].day <= s.prev
  BY <1>1, <1>3, <1>4 DEF ValueFits, DaysFit
<1>8. \A k \in 1..Len(txs) : txs[k].day \in Int
  BY <1>5, DaysAreInts
<1>9. d \in Nat /\ s.prev \in Int /\ s.prev < d
  <2>1. d \in Nat \ {0}
    BY DatesAreInts
  <2>. QED BY <1>1, <2>1 DEF RowFits
<1>10. b.seen <= v.seen
  <2>. SUFFICES ASSUME v.seen < b.seen PROVE FALSE
    BY <1>5, <1>7
  <2>1. b.seen \in 1..Len(txs) /\ b.seen > v.seen /\ b.seen <= b.seen
    BY <1>5, <1>7
  <2>2. d <= txs[b.seen].day /\ txs[b.seen].day <= s.prev
    BY <1>7, <2>1
  <2>. QED BY <1>8, <1>9, <2>1, <2>2
<1>11. ASSUME NEW k \in 1..v.seen
       PROVE  (s.prev < txs[k].day /\ txs[k].day <= d) <=> k > b.seen
  <2>1. k \in 1..Len(txs) /\ k <= v.seen /\ k \in Int /\ b.seen \in Int
    BY <1>5, <1>7
  <2>2. txs[k].day \in Int /\ txs[k].day <= d
    BY <1>7, <1>8, <2>1
  <2>3. CASE k > b.seen
    BY <1>4, <1>6, <1>9, <2>1, <2>2, <2>3
  <2>4. CASE ~(k > b.seen)
    <3>1. k <= b.seen
      BY <2>1, <2>4
    <3>2. txs[k].day <= s.prev
      BY <1>7, <2>1, <3>1
    <3>. QED BY <1>9, <2>2, <2>4, <3>2
  <2>. QED BY <2>3, <2>4
<1>12. s.stripped = {k \in 1..v.seen : k > b.seen}
  BY <1>3, <1>4, <1>11 DEF Flows
<1>13. {k \in 1..v.seen : k > b.seen} = (b.seen + 1)..v.seen
  BY <1>5, <1>7, <1>10
<1>. QED BY <1>7, <1>10, <1>12, <1>13 DEF s, v, b

\* The price a flow is stripped at is the value's own, unless shares came in
\* and no price was fetched.
LEMMA StrippedAtItsPrice ==
  ASSUME NEW v, NEW tx, v.fetched = <<>> \/ v.fetched = <<v.price>>,
         v.fetched = <<>> => tx.kind \notin {"import", "correction"}
  PROVE  FlowValue(tx, v.fetched) = FlowValue(tx, <<v.price>>)
BY DEF FlowValue

\* What came in between two readings, at the second one's price, is what it
\* was worth when it came and what it gained since.
LEMMA SumOfWindow ==
  ASSUME TxsOK, NEW n \in Nat, NEW m \in 0..Len(txs), n <= m,
         NEW v, v.price \in Int, v.fetched = <<>> \/ v.fetched = <<v.price>>,
         \A k \in (n + 1)..m : v.fetched = <<>> => txs[k].kind \notin {"import", "correction"}
  PROVE  LET before(k) == FlowValue(txs[k], <<v.price>>) - FlowValue(txs[k], <<txs[k].market>>)
             gained == SumFunction([k \in (n + 1)..m |-> before(k)])
             came == SumFunction([k \in (n + 1)..m |-> FlowValue(txs[k], v.fetched)])
         IN  gained \in Int /\ came = gained + (PutIn(m) - PutIn(n))
<1>. DEFINE W == (n + 1)..m
            B == [k \in W |-> FlowValue(txs[k], <<v.price>>) - FlowValue(txs[k], <<txs[k].market>>)]
            F == [k \in W |-> FlowValue(txs[k], v.fetched)]
            M == [k \in DOMAIN txs |-> AtMarket(k)]
<1>1. DOMAIN txs = 1..Len(txs) /\ Len(txs) \in Nat /\ m \in Nat /\ n \in 0..Len(txs)
  BY TxIds
<1>2. IsFiniteSet(W) /\ W \subseteq DOMAIN txs
  BY <1>1, FS_Interval, SMTT(20)
<1>3. \A k \in W : F[k] \in Int /\ B[k] \in Int /\ M[k] \in Int /\ F[k] = B[k] + M[k]
  <2>. SUFFICES ASSUME NEW k \in W
                PROVE  F[k] \in Int /\ B[k] \in Int /\ M[k] \in Int /\ F[k] = B[k] + M[k]
    OBVIOUS
  <2>1. k \in DOMAIN txs
    BY <1>2
  <2>2. FlowValue(txs[k], <<v.price>>) \in Int
    <3>1. <<v.price>>[1] \in Int
      OBVIOUS
    <3>. QED BY <2>1, <3>1, FlowOfTx
  <2>3. AtMarket(k) \in Int
    BY <2>1, AtMarketType
  <2>4. FlowValue(txs[k], v.fetched) = FlowValue(txs[k], <<v.price>>)
    BY StrippedAtItsPrice
  <2>5. F[k] = FlowValue(txs[k], v.fetched) /\ M[k] = AtMarket(k)
        /\ B[k] = FlowValue(txs[k], <<v.price>>) - AtMarket(k)
    BY <2>1 DEF AtMarket
  <2>. HIDE DEF F, B, M
  <2>. QED BY <2>2, <2>3, <2>4, <2>5
<1>4. SumFunction(B) = SumFunctionOnSet(B, W) /\ SumFunction(F) = SumFunctionOnSet(F, W)
  BY DEF SumFunction, SumFunctionOnSet, FoldFunction
<1>5. PutIn(n) = SumFunctionOnSet(M, 1..n) /\ PutIn(m) = SumFunctionOnSet(M, 1..m)
  BY DEF PutIn
<1>6. PutIn(n) \in Int /\ PutIn(m) \in Int
  BY <1>1, PutInType
<1>7. \A k \in DOMAIN txs : M[k] \in Int
  BY AtMarketType
<1>8. IsFiniteSet(1..n) /\ 1..n \intersect W = {} /\ 1..m = 1..n \union W /\ 1..m \subseteq DOMAIN txs
  <2>1. IsFiniteSet(1..n)
    BY <1>1, FS_Interval
  <2>2. \A k : k \in W <=> k \in Int /\ n < k /\ k <= m
    BY <1>1
  <2>3. \A k : k \in 1..n <=> k \in Int /\ 1 <= k /\ k <= n
    BY <1>1
  <2>4. \A k : k \in 1..m <=> k \in Int /\ 1 <= k /\ k <= m
    BY <1>1
  <2>5. 1..m \subseteq DOMAIN txs
    BY <1>1
  <2>. HIDE DEF W
  <2>6. 1..n \intersect W = {}
    BY <1>1, <2>2, <2>3
  <2>7. 1..m = 1..n \union W
    BY <1>1, <2>2, <2>3, <2>4
  <2>. QED BY <2>1, <2>5, <2>6, <2>7
<1>. HIDE DEF B, F, M, W
<1>9. SumFunctionOnSet(F, W) = SumFunctionOnSet(B, W) + SumFunctionOnSet(M, W)
  BY <1>2, <1>3, SumOfPlus
<1>10. SumFunctionOnSet(M, 1..n \union W) = SumFunctionOnSet(M, 1..n) + SumFunctionOnSet(M, W)
  BY <1>2, <1>7, <1>8, SumOfUnion
<1>11. SumFunctionOnSet(B, W) \in Int /\ SumFunctionOnSet(M, W) \in Int
  BY <1>2, <1>3, SumType
<1>12. SumFunction(B) \in Int /\ SumFunction(F) = SumFunction(B) + (PutIn(m) - PutIn(n))
  <2>. DEFINE sB == SumFunctionOnSet(B, W)
              sM == SumFunctionOnSet(M, W)
              pm == PutIn(m)
              pn == PutIn(n)
  <2>1. pm = pn + sM
    BY <1>5, <1>8, <1>10
  <2>2. SumFunction(F) = sB + sM /\ SumFunction(B) = sB
    BY <1>4, <1>9
  <2>3. sB \in Int /\ sM \in Int /\ pm \in Int /\ pn \in Int
    BY <1>6, <1>11
  <2>. HIDE DEF sB, sM, pm, pn
  <2>4. sB + sM = sB + (pm - pn)
    BY <2>1, <2>3
  <2>. QED BY <2>2, <2>3, <2>4 DEF pm, pn
<1>. QED BY <1>12 DEF B, F, W

LEMMA PerformanceArithmetic ==
  ASSUME NEW g \in Int, NEW h \in Int, NEW p \in Int, NEW q \in Int, NEW balance \in Int,
         NEW gained \in Int
  PROVE  (g + p + balance) - (h + q + balance) - (gained + (p - q)) = g - h - gained
OBVIOUS

LEMMA BalanceType == ASSUME SeriesInv PROVE Balance \in Int
<1>1. cash \in Int /\ shares \in Int /\ price \in Int /\ gain \in Int
  BY PricesAreInts DEF SeriesInv, Now
<1>2. PutIn(Len(txs)) \in Int
  <2>1. TxsOK /\ Len(txs) \in 0..Len(txs)
    BY TxIds DEF SeriesInv, Now
  <2>. QED BY <2>1, PutInType
<1>3. shares * price \in Int
  BY <1>1
<1>. QED BY <1>1, <1>2, <1>3 DEF Balance

LEMMA Performance == SeriesInv => ReturnIsPerformance
<1>. SUFFICES ASSUME SeriesInv, NEW d \in Dates, Returned(d),
                     TakenAtOnce(snapshots[d].value, d),
                     TakenAtOnce(snapshots[d].base[1], snapshots[d].prev),
                     LateFor(snapshots[d].base[1]) = {},
                     ~SoldAfterImport(snapshots[d].base[1], snapshots[d].value)
              PROVE  snapshots[d].return = <<Earned(snapshots[d].base[1], snapshots[d].value)>>
  BY DEF ReturnIsPerformance
<1>. DEFINE s == snapshots[d]
            v == s.value
            b == s.base[1]
            n == b.seen
            m == v.seen
            gained == SumFunction([k \in (n + 1)..m |->
                        FlowValue(txs[k], <<v.price>>) - FlowValue(txs[k], <<txs[k].market>>)])
            came == SumFunction([k \in (n + 1)..m |-> FlowValue(txs[k], v.fetched)])
<1>1. s.exists /\ RowFits(s, d, txs, PutIns, Balance, day)
      /\ ValueFits(v, txs, PutIns, Balance, day) /\ s.return # <<>>
  BY RowOf DEF Returned
<1>2. /\ n \in Nat /\ m \in 0..Len(txs) /\ n <= m
      /\ s.stripped = (n + 1)..m
  BY StrippedBetween
<1>3. v.known = m /\ b.known = n
  BY DEF TakenAtOnce
<1>4. v.fetched = <<>> => \A k \in (n + 1)..m : txs[k].kind \notin {"import", "correction"}
  BY DEF SoldAfterImport
<1>5. Earned(b, v) = v.gain - b.gain - gained
  BY DEF Earned
<1>. HIDE DEF s, v, b, gained, came
<1>6. s.prev # 0
  BY <1>1 DEF RowFits
<1>7. ValueFits(b, txs, PutIns, Balance, day)
      /\ s.return = ReturnOf(txs, v.nav, b.nav, s.stripped, v.fetched)
  BY <1>1, <1>6 DEF RowFits, v, b
<1>8. s.return = <<v.nav - b.nav - came>>
  BY <1>1, <1>2, <1>7 DEF ReturnOf, came
<1>9. TxsOK /\ Len(txs) \in Nat
  BY TxIds DEF SeriesInv, Now
<1>10. /\ v \in Valuation /\ b \in Valuation
       /\ v.fetched = <<>> \/ v.fetched = <<v.price>>
       /\ v.nav = v.gain + PutIns[m] + Balance
       /\ b.nav = b.gain + PutIns[n] + Balance
  BY <1>1, <1>3, <1>7 DEF ValueFits
<1>11. v.price \in Int /\ v.gain \in Int /\ b.gain \in Int
  <2>1. v.price \in Int
    BY <1>10, FetchedPrices
  <2>. QED BY <1>10, <2>1 DEF Valuation
<1>12. n \in 0..Len(txs) /\ m \in 0..Len(txs)
  BY <1>2, <1>9
<1>13. PutIns[m] = PutIn(m) /\ PutIns[n] = PutIn(n) /\ PutIn(m) \in Int /\ PutIn(n) \in Int
  BY <1>9, <1>12, PutInType DEF PutIns
<1>14. gained \in Int /\ came = gained + (PutIn(m) - PutIn(n))
  BY <1>2, <1>4, <1>9, <1>10, <1>11, SumOfWindow DEF gained, came
<1>15. v.nav - b.nav - came = v.gain - b.gain - gained
  BY <1>10, <1>11, <1>13, <1>14, BalanceType, PerformanceArithmetic
<1>. QED BY <1>5, <1>8, <1>15 DEF s, v, b

\* The types of the series, for any constants.
THEOREM SeriesIsTyped == SeriesSpec => []SeriesTypeOK
BY SeriesAlwaysInv, TypeOfInv, PTL

\* generate_daily_snapshot and compute_period_metrics: however generations of
\* snapshots overlap with each other, with trades, deposits, imports and
\* corrections and with a market that moves, a return between two snapshots
\* taken at once is what the assets earned in between, and no flow is stripped
\* from two returns.
THEOREM ReturnsAlwaysStripFlows == SeriesSpec => []ReturnsStripFlows
<1>1. SeriesInv => ReturnsStripFlows
  BY TypeOfInv, Performance, StrippedOnce DEF ReturnsStripFlows
<1>. QED BY <1>1, SeriesAlwaysInv, PTL

=============================================================================

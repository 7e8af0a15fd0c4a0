---------------------------- MODULE AnalysisJobs ----------------------------
(***************************************************************************)
(* Batches of stock analyses in the web process: background jobs that      *)
(* clients poll or stream, the watchlist stream and the portfolio's        *)
(* analyze/all.  Every stale symbol of a batch is a task of the event      *)
(* loop; tasks share a semaphore, the threads of the default pool and the  *)
(* analysis cache.  A call of the language model is given up after ten     *)
(* seconds, but its thread goes on.                                        *)
(***************************************************************************)
EXTENDS Naturals, Sequences, FiniteSets

CONSTANTS
  Batches,       \* requests that start a batch
  Jobs,          \* those of them that start a background job
  Symbols,       \* symbols of the watchlist and the portfolios
  Listed,        \* per batch: the symbols its request finds in its list
  Permits,       \* permits of _ANALYZE_SEMAPHORE
  Threads        \* threads of the default pool

ASSUME AnalysisAssumption ==
  /\ Jobs \subseteq Batches
  /\ Listed \in [Batches -> SUBSET Symbols]
  /\ Permits \in Nat \ {0}
  /\ Threads \in Nat \ {0}
  /\ IsFiniteSet(Symbols) /\ IsFiniteSet(Batches)

VARIABLES
  batch,         \* per batch: stale symbols, status, results taken
  task,          \* per batch and symbol: how far its analysis is
  outcome,       \* per batch and symbol: the result of the analysis
  queued,        \* per batch: symbols whose results wait for the batch
  known,         \* jobs still in _JOBS
  orphans,       \* threads in AI calls nobody waits for any more
  cached,        \* symbols with an analysis of the last 60 minutes: some are
                 \* there from the start, and none is that old within a run
  history,       \* batches and symbols with a row of analysis history
  stream         \* per batch: the stream a client has opened on the job

analysisVars == <<batch, task, outcome, queued, known, orphans, cached, history, stream>>

Tasks  == Batches \X Symbols
Idle     == [stale |-> {}, status |-> "none", results |-> <<>>]
NoStream == [open |-> FALSE, sent |-> <<>>, complete |-> FALSE]

(* Where a task can be: waiting for a permit, for a thread or in a thread, *)
(* for the three agents together and then for the language model.          *)
Fetching == {"fetch_queued", "fetching"}
Asking   == {"ai_queued", "asking"}
Holding  == Fetching \cup Asking
InThread == {"fetching", "asking"}

InStatus(set)  == {t \in Tasks : task[t] \in set}
FreePermits    == Permits - Cardinality(InStatus(Holding))
FreeThreads    == Threads - Cardinality(InStatus(InThread)) - orphans

AnalysisInit ==
  /\ batch = [b \in Batches |-> Idle]
  /\ task = [t \in Tasks |-> "none"]
  /\ outcome = [t \in Tasks |-> "none"]
  /\ queued = [b \in Batches |-> <<>>]
  /\ known = {}
  /\ orphans = 0
  /\ cached \in SUBSET Symbols
  /\ history = {}
  /\ stream = [b \in Batches |-> NoStream]

(* The jobs a new job finds older than ten minutes are forgotten, finished *)
(* or not.                                                                 *)
CleanupJobs(old) == known \ old

(* A request lists the symbols without a recent analysis and starts a task *)
(* for each of them; without any it is done at once.  A job outlives its   *)
(* request; the watchlist stream and analyze/all are the request, answered *)
(* result by result or all at once.                                        *)
StartBatch(b) ==
  LET stale == Listed[b] \ cached
  IN /\ batch[b] = Idle
     /\ batch' = [batch EXCEPT ![b] =
          [stale |-> stale, results |-> <<>>,
           status |-> IF b \in Jobs THEN "queued"
                      ELSE IF stale = {} THEN "done" ELSE "running"]]
     /\ IF b \in Jobs THEN \E old \in SUBSET known : known' = CleanupJobs(old) \cup {b}
                      ELSE known' = known
     /\ task' = [t \in Tasks |-> IF b \notin Jobs /\ t[1] = b /\ t[2] \in stale
                                 THEN "waiting" ELSE task[t]]
     /\ UNCHANGED <<outcome, queued, orphans, cached, history, stream>>

(* The background task of a job, after the response was sent; a job that   *)
(* was forgotten in between is not run.                                    *)
RunJob(b) ==
  /\ batch[b].status = "queued"
  /\ batch' = [batch EXCEPT ![b].status =
       IF b \notin known THEN "dropped" ELSE IF batch[b].stale = {} THEN "done" ELSE "running"]
  /\ task' = [t \in Tasks |-> IF b \in known /\ t[1] = b /\ t[2] \in batch[b].stale
                              THEN "waiting" ELSE task[t]]
  /\ UNCHANGED <<outcome, queued, known, orphans, cached, history, stream>>

Move(t, from, to) == task[t] = from /\ task' = [task EXCEPT ![t] = to]

(* The task ends: it returns its permit and hands its result over.         *)
Deliver(t, result) ==
  /\ task' = [task EXCEPT ![t] = "done"]
  /\ outcome' = [outcome EXCEPT ![t] = result]
  /\ queued' = [queued EXCEPT ![t[1]] = Append(@, t[2])]

(* Agent results that are still fresh need no threads.                     *)
TakePermit(t) ==
  /\ FreePermits > 0
  /\ Move(t, "waiting", "fetch_queued") \/ Move(t, "waiting", "ai_queued")
  /\ UNCHANGED <<batch, outcome, queued, known, orphans, cached, history, stream>>

StartThread(t) ==
  /\ FreeThreads > 0
  /\ Move(t, "fetch_queued", "fetching") \/ Move(t, "ai_queued", "asking")
  /\ UNCHANGED <<batch, outcome, queued, known, orphans, cached, history, stream>>

AgentsEnd(t) ==
  /\ Move(t, "fetching", "ai_queued")
  /\ UNCHANGED <<batch, outcome, queued, known, orphans, cached, history, stream>>

(* An agent that raises costs the task its analysis, not the batch.        *)
\* Mutant: the worker ends without handing over a result.
AgentRaisesSilently(t) ==
  /\ Move(t, "fetching", "done")
  /\ UNCHANGED <<batch, outcome, queued, known, orphans, cached, history, stream>>

AgentRaises(t) ==
  /\ task[t] = "fetching"
  /\ Deliver(t, "unsaved")
  /\ UNCHANGED <<batch, known, orphans, cached, history, stream>>

(* What the model answers in time is saved before it is delivered; an      *)
(* answer that says "error" and the fallback for a call that fails are     *)
(* delivered and not saved.                                                *)
AiAnswers(t) ==
  /\ task[t] = "asking"
  /\ Deliver(t, "analysis")
  /\ cached' = cached \cup {t[2]}
  /\ history' = history \cup {t}
  /\ UNCHANGED <<batch, known, orphans, stream>>

AiFails(t) ==
  /\ task[t] = "asking"
  /\ Deliver(t, "unsaved")
  /\ UNCHANGED <<batch, known, orphans, cached, history, stream>>

(* A row that cannot be stored turns the answer into a fallback; the cache *)
(* is committed before the history.                                        *)
SaveFails(t) ==
  /\ task[t] = "asking"
  /\ Deliver(t, "unsaved")
  /\ cached' \in {cached, cached \cup {t[2]}}
  /\ UNCHANGED <<batch, known, orphans, history, stream>>

(* wait_for: a call that has no thread yet is cancelled, a running one     *)
(* keeps its thread.                                                       *)
AiTimesOut(t) ==
  /\ task[t] \in Asking
  /\ Deliver(t, "unsaved")
  /\ orphans' = IF task[t] = "asking" THEN orphans + 1 ELSE orphans
  /\ UNCHANGED <<batch, known, cached, history, stream>>

OrphanEnds ==
  /\ orphans > 0
  /\ orphans' = orphans - 1
  /\ UNCHANGED <<batch, task, outcome, queued, known, cached, history, stream>>

(* The batch takes one result; after as many as it has symbols it is done. *)
StatusAfter(b, taken) ==
  IF taken = Cardinality(batch[b].stale) THEN "done" ELSE "running"

TakeResult(b) ==
  /\ batch[b].status = "running"
  /\ queued[b] # <<>>
  /\ batch' = [batch EXCEPT ![b].results = Append(@, Head(queued[b])),
                            ![b].status = StatusAfter(b, Len(batch[b].results) + 1)]
  /\ queued' = [queued EXCEPT ![b] = Tail(@)]
  /\ UNCHANGED <<task, outcome, known, orphans, cached, history, stream>>

(* A client opens the stream of a job; it keeps the job, forgotten or not, *)
(* and every 0.2 s sends what it has not sent, then looks at the status.   *)
OpenStream(b) ==
  /\ b \in known
  /\ ~stream[b].open
  /\ stream' = [stream EXCEPT ![b].open = TRUE]
  /\ UNCHANGED <<batch, task, outcome, queued, known, orphans, cached, history>>

\* Mutant: the status is looked at before the results.
StreamStepStatusFirst(b) ==
  /\ stream[b].open /\ ~stream[b].complete
  /\ stream' = [stream EXCEPT
       ![b].sent = IF batch[b].status = "done" THEN @ ELSE batch[b].results,
       ![b].complete = batch[b].status = "done"]
  /\ UNCHANGED <<batch, task, outcome, queued, known, orphans, cached, history>>

StreamStep(b) ==
  /\ stream[b].open /\ ~stream[b].complete
  /\ stream' = [stream EXCEPT ![b].sent = batch[b].results,
                              ![b].complete = batch[b].status = "done"]
  /\ UNCHANGED <<batch, task, outcome, queued, known, orphans, cached, history>>

(* The client goes away: nobody takes the results of its request any more, *)
(* but the tasks go on; a job does not notice.                             *)
Disconnect(b) ==
  /\ b \notin Jobs /\ batch[b].status = "running"
  /\ batch' = [batch EXCEPT ![b].status = "dropped"]
  /\ UNCHANGED <<task, outcome, queued, known, orphans, cached, history, stream>>

TaskStep(t) ==
  TakePermit(t) \/ StartThread(t) \/ AgentsEnd(t) \/ AgentRaises(t)
    \/ AiAnswers(t) \/ AiFails(t) \/ SaveFails(t) \/ AiTimesOut(t)

AnalysisNext ==
  \/ \E b \in Batches : StartBatch(b)
  \/ \E b \in Batches :
       RunJob(b) \/ TakeResult(b) \/ OpenStream(b) \/ StreamStep(b) \/ Disconnect(b)
  \/ \E t \in Tasks : TaskStep(t)
  \/ OrphanEnds

(* The event loop goes on with whatever can go on, the pool starts what it *)
(* has threads for, agents and abandoned calls return (HTTP and SDK have   *)
(* timeouts of their own).  No client and no clock has to do anything.     *)
AnalysisFairness ==
  /\ \A t \in Tasks :
       /\ WF_analysisVars(TakePermit(t))
       /\ WF_analysisVars(StartThread(t))
       /\ WF_analysisVars(AgentsEnd(t) \/ AgentRaises(t))
       /\ WF_analysisVars(AiTimesOut(t))
  /\ \A b \in Batches :
       WF_analysisVars(RunJob(b)) /\ WF_analysisVars(TakeResult(b)) /\ WF_analysisVars(StreamStep(b))
  /\ WF_analysisVars(OrphanEnds)

AnalysisSpec == AnalysisInit /\ [][AnalysisNext]_analysisVars /\ AnalysisFairness

-----------------------------------------------------------------------------
ToSet(s) == {s[i] : i \in 1..Len(s)}

(* Types, and no more permits and threads in use than there are, whichever *)
(* way tasks leave them.                                                   *)
AnalysisTypeOK ==
  /\ \A b \in Batches :
       /\ batch[b].stale \subseteq Symbols
       /\ batch[b].status \in {"none", "queued", "running", "done", "dropped"}
       /\ batch[b].results \in Seq(Symbols)
       /\ queued[b] \in Seq(Symbols)
       /\ stream[b].sent \in Seq(Symbols)
  /\ task \in [Tasks -> {"none", "waiting", "done"} \cup Holding]
  /\ outcome \in [Tasks -> {"none", "analysis", "unsaved"}]
  /\ known \subseteq Batches
  /\ cached \subseteq Symbols /\ history \subseteq Tasks
  /\ orphans \in Nat
  /\ FreePermits >= 0
  /\ FreeThreads >= 0

(* Every stale symbol of a batch is counted exactly once, whatever becomes *)
(* of its analysis, and a batch is done when all of them are there.        *)
EverySymbolCountedOnce ==
  \A b \in Batches :
    LET all == batch[b].results \o queued[b]
    IN /\ Cardinality(ToSet(all)) = Len(all)
       /\ ToSet(all) = {s \in Symbols : task[<<b, s>>] = "done"}
       /\ batch[b].status = "done" => ToSet(batch[b].results) = batch[b].stale

(* A stream that reports the end of a job has sent all its results, also   *)
(* of a job that was forgotten while it ran.                               *)
StreamSendsAll ==
  \A b \in Batches : stream[b].complete =>
    batch[b].status = "done" /\ ToSet(stream[b].sent) = batch[b].stale

(* Only an analysis that was delivered has a row in the history: the       *)
(* answer of an abandoned call is lost, a fallback is never stored.        *)
OnlyAnswersAreStored == \A t \in history : outcome[t] = "analysis"

(* What becomes of a symbol is told once and stored only when it is true.  *)
AnalysesAreAccountedFor ==
  AnalysisTypeOK /\ EverySymbolCountedOnce /\ StreamSendsAll /\ OnlyAnswersAreStored

(* Every batch comes to an end although calls of the language model may be *)
(* given up and hold their threads, and so does a stream on a job.         *)
BatchesEnd ==
  \A b \in Batches :
    (batch[b].status \in {"queued", "running"} \/ (stream[b].open /\ batch[b].status # "dropped"))
      ~> (batch[b].status = "dropped"
            \/ (batch[b].status = "done" /\ (stream[b].open => stream[b].complete)))
=============================================================================

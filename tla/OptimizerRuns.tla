---------------------------- MODULE OptimizerRuns ----------------------------
(***************************************************************************)
(* Optimizer runs of the web process and the registry that shows their     *)
(* progress.  A run is a coroutine of the event loop; its scores, factors, *)
(* regime and AI layers are computed in threads while other handlers go    *)
(* on.  The registry keeps one entry per portfolio, whoever runs; a run    *)
(* that raises leaves its entry, and a poll later takes it for crashed.    *)
(* Time is counted in ticks.                                               *)
(***************************************************************************)
EXTENDS Naturals, Sequences, FiniteSets

CONSTANTS
  Runs,          \* requests of the optimizer
  Portfolios,
  PortfolioOf,   \* the portfolio each run is for
  StaleAfter,    \* ticks after which a running entry is taken for crashed
  Retention      \* ticks for which a finished entry is kept

ASSUME RunsAssumption ==
  /\ PortfolioOf \in [Runs -> Portfolios]
  /\ StaleAfter \in Nat /\ Retention \in Nat
  /\ IsFiniteSet(Runs)

VARIABLES
  entry,         \* the registry: per portfolio, the entry or NoEntry
  run,           \* per run: how far its handler is, or what its client got
  saved,         \* OptimizerHistory: the runs saved, in order
  snapshots      \* runs with a RecommendationSnapshot

runsVars == <<entry, run, saved, snapshots>>

Stages == <<"PREPARING_DATA", "ANALYZING_CONTEXT", "LAYER1_PROPOSAL",
            "LAYER2_CHALLENGE", "LAYER3_ARBITRATION", "STABILIZING", "SAVING">>
StageNames == {Stages[i] : i \in 1..Len(Stages)}
NoEntry    == [stage |-> "NONE"]
Exists(p)  == entry[p] # NoEntry

(* Where a handler can be: each stands for an await, or for a wait of the  *)
(* thread that runs the layers.                                            *)
Waiting == {"scores", "timing", "exposure", "regime", "layer1", "layer2", "layer3", "single_shot", "planned"}

RunsInit ==
  /\ entry = [p \in Portfolios |-> NoEntry]
  /\ run = [r \in Runs |-> "none"]
  /\ saved = <<>>
  /\ snapshots = {}

-----------------------------------------------------------------------------
(* The registry.  An entry remembers how many runs had been saved when it  *)
(* was made, as the code remembers started_at.                             *)

StartedEntry(r) ==
  [stage |-> Stages[1], running |-> TRUE, ok |-> "none", idle |-> 0, age |-> 0,
   seen |-> {Stages[1]}, since |-> Len(saved)]

MarkedEntry(e, stage) ==
  IF e = NoEntry \/ stage \notin StageNames THEN e
  ELSE IF ~e.running THEN e
  ELSE [e EXCEPT !.stage = stage, !.seen = @ \cup {stage}, !.idle = 0]

FinishedEntry(e, ok) ==
  IF e = NoEntry THEN e
  ELSE [e EXCEPT !.running = FALSE, !.ok = IF ok THEN "yes" ELSE "no",
                 !.stage = IF ok THEN "DONE" ELSE "FAILED", !.idle = 0, !.age = 0]

PurgedEntry(e) ==
  IF e = NoEntry THEN e
  ELSE IF ~e.running /\ e.age > Retention THEN NoEntry ELSE e

(* Mutant: a poll only reads the entry.                                    *)
NoCrashGuard(e) == e

CheckedEntry(e) ==
  IF e = NoEntry THEN e
  ELSE IF e.running /\ e.idle > StaleAfter
       THEN [e EXCEPT !.running = FALSE, !.ok = "no", !.stage = "FAILED", !.age = 0]
       ELSE e

(* A poll purges every old entry and checks the one it asks for.           *)
Poll(p) ==
  /\ entry' = [q \in Portfolios |->
       IF q = p THEN CheckedEntry(PurgedEntry(entry[q])) ELSE PurgedEntry(entry[q])]
  /\ entry' # entry
  /\ UNCHANGED <<run, saved, snapshots>>

Aged(e) ==
  IF e = NoEntry THEN e
  ELSE [e EXCEPT !.idle = IF e.running /\ @ <= StaleAfter THEN @ + 1 ELSE @,
                 !.age  = IF ~e.running /\ @ <= Retention THEN @ + 1 ELSE @]

(* An age is counted up to the first tick at which it matters.             *)
Tick ==
  /\ entry' = [p \in Portfolios |-> Aged(entry[p])]
  /\ entry' # entry
  /\ UNCHANGED <<run, saved, snapshots>>

-----------------------------------------------------------------------------
(* The handler of the optimizer.                                           *)

Mark(r, stage) ==
  entry' = [entry EXCEPT ![PortfolioOf[r]] = MarkedEntry(@, stage)]

Goto(r, place) ==
  /\ run' = [run EXCEPT ![r] = place]
  /\ UNCHANGED <<saved, snapshots>>

(* Without holdings or candidates the request ends before the registry.    *)
Refuse(r) ==
  /\ run[r] = "none"
  /\ run' = [run EXCEPT ![r] = "refused"]
  /\ UNCHANGED <<entry, saved, snapshots>>

(* A run replaces the entry of its portfolio, also that of a running one.  *)
Start(r) ==
  /\ run[r] = "none"
  /\ entry' = [entry EXCEPT ![PortfolioOf[r]] = StartedEntry(r)]
  /\ Goto(r, "scores")

(* An exception nothing catches ends the request and leaves the entry.     *)
Raise(r) ==
  /\ run' = [run EXCEPT ![r] = "error"]
  /\ UNCHANGED <<entry, saved, snapshots>>

(* Scores are gathered with one failure failing all.                       *)
ScoresArrive(r) == run[r] = "scores" /\ Goto(r, "timing") /\ UNCHANGED entry
ScoresRaise(r)  == run[r] = "scores" /\ Raise(r)

(* Timing is optional; its end leads through the execution context to the  *)
(* next await, the factor exposure, under the next stage.                  *)
TimingEnds(r) ==
  /\ run[r] = "timing"
  /\ Mark(r, "ANALYZING_CONTEXT")
  /\ Goto(r, "exposure")

ExposureArrives(r) == run[r] = "exposure" /\ Goto(r, "regime") /\ UNCHANGED entry
ExposureRaises(r)  == run[r] = "exposure" /\ Raise(r)

(* The regime is optional, as are the envelope and the policy made of it;  *)
(* then a thread prepares the layers, which may raise, and starts them.    *)
RegimeEnds(r) ==
  /\ run[r] = "regime"
  /\ Mark(r, "LAYER1_PROPOSAL")
  /\ Goto(r, "layer1")

(* A layer that fails is replaced by an empty one, and when the last has   *)
(* nothing to allocate the thread asks once more in a single shot.         *)
PreparationRaises(r) == run[r] = "regime" /\ Raise(r)

Layer1Ends(r) ==
  /\ run[r] = "layer1"
  /\ Mark(r, "LAYER2_CHALLENGE")
  /\ Goto(r, "layer2")

Layer2Ends(r) ==
  /\ run[r] = "layer2"
  /\ Mark(r, "LAYER3_ARBITRATION")
  /\ Goto(r, "layer3")

Layer3Ends(r)    == run[r] = "layer3" /\ Goto(r, "planned") /\ UNCHANGED entry
AllLayersFail(r) == run[r] = "layer3" /\ Goto(r, "single_shot") /\ UNCHANGED entry

SingleShotAnswers(r) == run[r] = "single_shot" /\ Goto(r, "planned") /\ UNCHANGED entry
SingleShotRaises(r)  == run[r] = "single_shot" /\ Raise(r)

(* Mutant: the progress is finished also when nothing was saved.           *)
FinishInFinally(r) ==
  /\ run[r] = "planned"
  /\ run' = [run EXCEPT ![r] = "error"]
  /\ entry' = [entry EXCEPT ![PortfolioOf[r]] = FinishedEntry(MarkedEntry(@, "SAVING"), TRUE)]
  /\ UNCHANGED <<saved, snapshots>>

(* The rest runs on the event loop without an await.  Each commit may fail:*)
(* of the history, which ends the request; of the signals, which ends it   *)
(* with the history saved; of the snapshot, which is logged.  A snapshot   *)
(* starts the threads of module DecisionMemory.                            *)
PlanSaveFails(r) ==
  /\ run[r] = "planned"
  /\ run' = [run EXCEPT ![r] = "error"]
  /\ Mark(r, "SAVING")
  /\ UNCHANGED <<saved, snapshots>>

SignalsFail(r) ==
  /\ run[r] = "planned"
  /\ run' = [run EXCEPT ![r] = "error"]
  /\ Mark(r, "SAVING")
  /\ saved' = Append(saved, r)
  /\ UNCHANGED <<snapshots>>

(* For the decision memory; a failure is logged.                           *)
RecordRecommendation(r) ==
  \E written \in BOOLEAN : snapshots' = IF written THEN snapshots \cup {r} ELSE snapshots

(* Nothing that the answer shows beside the plan can keep it from ending.  *)
Complete(r) ==
  /\ run[r] = "planned"
  /\ run' = [run EXCEPT ![r] = "result"]
  /\ saved' = Append(saved, r)
  /\ RecordRecommendation(r)
  /\ entry' = [entry EXCEPT ![PortfolioOf[r]] =
                 FinishedEntry(MarkedEntry(MarkedEntry(@, "STABILIZING"), "SAVING"), TRUE)]

(* The process dies, and the registry and the handlers with it.            *)
Restart ==
  /\ \E p \in Portfolios : Exists(p)
  /\ entry' = [p \in Portfolios |-> NoEntry]
  /\ run' = [r \in Runs |-> IF run[r] \in Waiting THEN "error" ELSE run[r]]
  /\ UNCHANGED <<saved, snapshots>>

Advance(r) ==
  \/ ScoresArrive(r) \/ ScoresRaise(r) \/ TimingEnds(r)
  \/ ExposureArrives(r) \/ ExposureRaises(r) \/ RegimeEnds(r) \/ PreparationRaises(r)
  \/ Layer1Ends(r) \/ Layer2Ends(r) \/ Layer3Ends(r) \/ AllLayersFail(r)
  \/ SingleShotAnswers(r) \/ SingleShotRaises(r)
  \/ PlanSaveFails(r) \/ SignalsFail(r) \/ Complete(r)

RunsNext ==
  \/ \E r \in Runs : Refuse(r) \/ Start(r) \/ Advance(r)
  \/ \E p \in Portfolios : Poll(p)
  \/ Tick \/ Restart

(* Time passes and the page polls; nothing makes a run advance.            *)
RunsFairness ==
  /\ WF_runsVars(Tick)
  /\ \A p \in Portfolios : WF_runsVars(Poll(p))

RunsSpec == RunsInit /\ [][RunsNext]_runsVars /\ RunsFairness
-----------------------------------------------------------------------------
(* Every run, entry and row has one of the states the code gives it, and   *)
(* what was saved was saved once.                                          *)
RunsTypeOK ==
  /\ \A p \in Portfolios : Exists(p) =>
       /\ entry[p].stage \in StageNames \cup {"DONE", "FAILED"}
       /\ entry[p].running <=> entry[p].stage \in StageNames
       /\ entry[p].ok = CASE entry[p].stage = "DONE" -> "yes"
                          [] entry[p].stage = "FAILED" -> "no"
                          [] OTHER -> "none"
       /\ entry[p].idle \in 0..(StaleAfter + 1) /\ entry[p].age \in 0..(Retention + 1)
       /\ entry[p].seen \subseteq StageNames /\ entry[p].since \in 0..Len(saved)
  /\ run \in [Runs -> Waiting \cup {"none", "refused", "error", "result"}]
  /\ \A i, j \in 1..Len(saved) : saved[i] = saved[j] => i = j
  /\ snapshots \subseteq {saved[i] : i \in 1..Len(saved)}

(* An entry that says a run succeeded is not older than the last recommen- *)
(* dation saved for its portfolio: also when runs overlap, one is taken    *)
(* for crashed and ends after all, or a save fails, a client that sees     *)
(* DONE finds a row saved after the entry began.                           *)
OkMeansSaved ==
  \A p \in Portfolios : Exists(p) /\ entry[p].ok = "yes" =>
    \E i \in (entry[p].since + 1)..Len(saved) : PortfolioOf[saved[i]] = p

(* What a poll shows is one of the states of a run, and DONE is true.       *)
ProgressIsTruthful == RunsTypeOK /\ OkMeansSaved

(* The page never polls a running entry for ever: a run that ends without  *)
(* a word, or hangs, is shown as failed in the end.                        *)
ProgressSettles ==
  \A p \in Portfolios :
    (Exists(p) /\ entry[p].running) ~> (~Exists(p) \/ ~entry[p].running)

=============================================================================

------------------------------ MODULE JobProofs ------------------------------
(***************************************************************************)
(* Theorems about the background work of the web process and the commands  *)
(* beside it: what the progress registry says of optimizer runs, for all   *)
(* runs, portfolios and ages; what batches of analyses do with their       *)
(* symbols, for all batches and symbols and any number of permits and      *)
(* threads; and what registration, backfill and cutover write of assets,   *)
(* for all spellings, shapes and runs; and what starts make of the         *)
(* database they find, for all tables, columns and holdings.               *)
(***************************************************************************)
EXTENDS OptimizerRuns, AnalysisJobs, AssetIdentity, StartupMigration, SetLemmas, SequenceTheorems,
        FiniteSetTheorems, TLAPS

-----------------------------------------------------------------------------
(* Entries of the progress registry.                                       *)

EntryRecord ==
  [stage : StageNames \cup {"DONE", "FAILED"}, running : BOOLEAN, ok : {"none", "yes", "no"},
   idle : 0..(StaleAfter + 1), age : 0..(Retention + 1), seen : SUBSET StageNames, since : Nat]

(* An entry says how its run ended exactly when it is not running.         *)
EntryOK(e) ==
  /\ e \in EntryRecord
  /\ e.running <=> e.stage \in StageNames
  /\ e.ok = CASE e.stage = "DONE" -> "yes" [] e.stage = "FAILED" -> "no" [] OTHER -> "none"

(* What an operation of the registry may do to an entry on its own: drop   *)
(* it, or change it without turning it into a success.                     *)
Keeps(e, f) ==
  f = NoEntry \/ (e # NoEntry /\ EntryOK(f) /\ f.since = e.since /\ (f.ok = "yes" => e.ok = "yes"))

LEMMA NamesOfStages ==
  /\ StageNames = {"PREPARING_DATA", "ANALYZING_CONTEXT", "LAYER1_PROPOSAL",
                   "LAYER2_CHALLENGE", "LAYER3_ARBITRATION", "STABILIZING", "SAVING"}
  /\ Stages[1] = "PREPARING_DATA"
<1>1. Len(Stages) = 7 /\ Stages[1] = "PREPARING_DATA" /\ Stages[2] = "ANALYZING_CONTEXT"
      /\ Stages[3] = "LAYER1_PROPOSAL" /\ Stages[4] = "LAYER2_CHALLENGE"
      /\ Stages[5] = "LAYER3_ARBITRATION" /\ Stages[6] = "STABILIZING" /\ Stages[7] = "SAVING"
  BY DEF Stages
<1>2. 1..Len(Stages) = {1, 2, 3, 4, 5, 6, 7}
  BY <1>1
<1>3. StageNames = {Stages[i] : i \in {1, 2, 3, 4, 5, 6, 7}}
  BY <1>2 DEF StageNames
<1>. QED BY <1>1, <1>3

LEMMA EntryExists == ASSUME NEW e \in EntryRecord PROVE e # NoEntry
BY NamesOfStages DEF EntryRecord, NoEntry

LEMMA MarkKeeps ==
  ASSUME NEW e, e = NoEntry \/ EntryOK(e), NEW stage
  PROVE  Keeps(e, MarkedEntry(e, stage))
<1>. DEFINE f == [e EXCEPT !.stage = stage, !.seen = @ \cup {stage}, !.idle = 0]
<1>1. CASE e = NoEntry
  BY <1>1 DEF MarkedEntry, Keeps
<1>2. CASE e # NoEntry /\ (stage \notin StageNames \/ ~e.running)
  BY <1>2 DEF MarkedEntry, Keeps
<1>3. CASE e # NoEntry /\ stage \in StageNames /\ e.running
  <2>1. e \in EntryRecord /\ 0 \in 0..(StaleAfter + 1)
    BY <1>3, RunsAssumption DEF EntryOK
  <2>2. /\ f \in EntryRecord /\ f.stage = stage /\ f.running = e.running /\ f.ok = e.ok
        /\ f.since = e.since
    BY <1>3, <2>1 DEF EntryRecord
  <2>3. e.ok = "none" /\ stage \notin {"DONE", "FAILED"}
    BY <1>3, NamesOfStages DEF EntryOK
  <2>4. EntryOK(f)
    BY <1>3, <2>2, <2>3 DEF EntryOK
  <2>5. MarkedEntry(e, stage) = f
    BY <1>3 DEF MarkedEntry
  <2>. QED BY <1>3, <2>2, <2>3, <2>4, <2>5 DEF Keeps
<1>. QED BY <1>1, <1>2, <1>3

LEMMA FinishSucceeds ==
  ASSUME NEW e, EntryOK(e)
  PROVE  EntryOK(FinishedEntry(e, TRUE)) /\ FinishedEntry(e, TRUE).since = e.since
<1>. DEFINE f == [e EXCEPT !.running = FALSE, !.ok = "yes", !.stage = "DONE", !.idle = 0, !.age = 0]
<1>1. e \in EntryRecord /\ 0 \in 0..(StaleAfter + 1) /\ 0 \in 0..(Retention + 1)
  BY RunsAssumption DEF EntryOK
<1>2. /\ f \in EntryRecord /\ f.stage = "DONE" /\ f.running = FALSE /\ f.ok = "yes"
      /\ f.since = e.since
  BY <1>1 DEF EntryRecord
<1>3. EntryOK(f)
  BY <1>2, NamesOfStages DEF EntryOK
<1>4. FinishedEntry(e, TRUE) = f
  BY <1>1, EntryExists DEF FinishedEntry
<1>. QED BY <1>2, <1>3, <1>4

LEMMA PollKeeps ==
  ASSUME NEW e, e = NoEntry \/ EntryOK(e)
  PROVE  Keeps(e, PurgedEntry(e)) /\ Keeps(e, CheckedEntry(PurgedEntry(e)))
<1>1. PurgedEntry(e) = NoEntry \/ (PurgedEntry(e) = e /\ EntryOK(e) /\ e # NoEntry)
  BY EntryExists DEF PurgedEntry, EntryOK
<1>2. CASE PurgedEntry(e) = NoEntry
  BY <1>2 DEF CheckedEntry, Keeps
<1>3. CASE PurgedEntry(e) = e /\ EntryOK(e) /\ e # NoEntry
  <2>. DEFINE f == [e EXCEPT !.running = FALSE, !.ok = "no", !.stage = "FAILED", !.age = 0]
  <2>1. e \in EntryRecord /\ 0 \in 0..(Retention + 1)
    BY <1>3, RunsAssumption DEF EntryOK
  <2>2. /\ f \in EntryRecord /\ f.stage = "FAILED" /\ f.running = FALSE /\ f.ok = "no"
        /\ f.since = e.since
    BY <2>1 DEF EntryRecord
  <2>3. EntryOK(f)
    BY <2>2, NamesOfStages DEF EntryOK
  <2>4. CheckedEntry(e) = e \/ CheckedEntry(e) = f
    BY DEF CheckedEntry
  <2>. QED BY <1>3, <2>2, <2>3, <2>4 DEF Keeps
<1>. QED BY <1>1, <1>2, <1>3

LEMMA AgeKeeps ==
  ASSUME NEW e, e = NoEntry \/ EntryOK(e)
  PROVE  Keeps(e, Aged(e))
<1>1. CASE e = NoEntry
  BY <1>1 DEF Aged, Keeps
<1>2. CASE e # NoEntry
  <2>. DEFINE idle == IF e.running /\ e.idle <= StaleAfter THEN e.idle + 1 ELSE e.idle
              age  == IF ~e.running /\ e.age <= Retention THEN e.age + 1 ELSE e.age
              f    == [e EXCEPT !.idle = idle, !.age = age]
  <2>1. e \in EntryRecord
    BY <1>2 DEF EntryOK
  <2>2. idle \in 0..(StaleAfter + 1) /\ age \in 0..(Retention + 1)
    BY <2>1, RunsAssumption DEF EntryRecord
  <2>3. Aged(e) = f
    BY <1>2, <2>1 DEF Aged, EntryRecord
  <2>. HIDE DEF idle, age
  <2>4. /\ f \in EntryRecord /\ f.stage = e.stage /\ f.running = e.running /\ f.ok = e.ok
        /\ f.since = e.since
    BY <2>1, <2>2 DEF EntryRecord
  <2>5. EntryOK(f)
    BY <1>2, <2>4 DEF EntryOK
  <2>. QED BY <1>2, <2>3, <2>4, <2>5 DEF Keeps
<1>. QED BY <1>1, <1>2

LEMMA StartedIsOK ==
  ASSUME NEW r, Len(saved) \in Nat
  PROVE  /\ EntryOK(StartedEntry(r)) /\ StartedEntry(r).since = Len(saved)
         /\ StartedEntry(r).ok = "none"
<1>1. 0 \in 0..(StaleAfter + 1) /\ 0 \in 0..(Retention + 1)
  BY RunsAssumption
<1>. QED BY <1>1, NamesOfStages DEF StartedEntry, EntryRecord, EntryOK

-----------------------------------------------------------------------------
(* Runs.                                                                   *)

Ended     == {"error", "result"}
RunStates == Waiting \cup {"none", "refused"} \cup Ended

EntriesOK ==
  /\ entry \in [Portfolios -> EntryRecord \cup {NoEntry}]
  /\ \A p \in Portfolios : entry[p] = NoEntry \/ EntryOK(entry[p])
  /\ \A p \in Portfolios : Exists(p) => entry[p].since <= Len(saved)

(* What is saved was saved by a run that has ended, so once.               *)
SavedOnce ==
  /\ run \in [Runs -> RunStates]
  /\ saved \in Seq(Runs)
  /\ \A i \in 1..Len(saved) : run[saved[i]] \in Ended
  /\ \A i, j \in 1..Len(saved) : saved[i] = saved[j] => i = j
  /\ snapshots \subseteq {saved[i] : i \in 1..Len(saved)}

ProgressInv == EntriesOK /\ SavedOnce /\ OkMeansSaved

(* Steps that save nothing and only keep entries, drop them or fail them.  *)
LEMMA KeptInv ==
  ASSUME ProgressInv,
         entry' \in [Portfolios -> EntryRecord \cup {NoEntry}],
         \A p \in Portfolios : Keeps(entry[p], entry'[p]),
         run' \in [Runs -> RunStates],
         \A r \in Runs : run[r] \in Ended => run'[r] \in Ended,
         UNCHANGED <<saved, snapshots>>
  PROVE  ProgressInv'
<1>1. EntriesOK'
  BY DEF ProgressInv, EntriesOK, Exists, Keeps
<1>2. SavedOnce'
  <2>1. \A i \in 1..Len(saved) : saved[i] \in Runs
    BY ElementOfSeq DEF ProgressInv, SavedOnce
  <2>. QED BY <2>1 DEF ProgressInv, SavedOnce
<1>3. OkMeansSaved'
  BY DEF ProgressInv, EntriesOK, OkMeansSaved, Exists, Keeps
<1>. QED BY <1>1, <1>2, <1>3 DEF ProgressInv

LEMMA KeepsItself == ASSUME NEW e, e = NoEntry \/ EntryOK(e) PROVE Keeps(e, e)
BY EntryExists DEF Keeps, EntryOK

LEMMA KeepsIsEntry == ASSUME NEW e, NEW f, Keeps(e, f) PROVE f \in EntryRecord \cup {NoEntry}
BY DEF Keeps, EntryOK

LEMMA MarkedEntries ==
  ASSUME EntriesOK, NEW r \in Runs, NEW stage, Mark(r, stage)
  PROVE  /\ entry' \in [Portfolios -> EntryRecord \cup {NoEntry}]
         /\ \A p \in Portfolios : Keeps(entry[p], entry'[p])
<1>. DEFINE p0 == PortfolioOf[r]
<1>1. p0 \in Portfolios
  BY RunsAssumption
<1>2. Keeps(entry[p0], MarkedEntry(entry[p0], stage))
  BY <1>1, MarkKeeps DEF EntriesOK
<1>3. entry' = [entry EXCEPT ![p0] = MarkedEntry(entry[p0], stage)]
  BY DEF Mark
<1>4. \A p \in Portfolios : Keeps(entry[p], entry'[p])
  BY <1>1, <1>2, <1>3, KeepsItself DEF EntriesOK
<1>5. MarkedEntry(entry[p0], stage) \in EntryRecord \cup {NoEntry}
  BY <1>2, KeepsIsEntry
<1>. QED BY <1>1, <1>3, <1>4, <1>5 DEF EntriesOK

LEMMA SameEntries ==
  ASSUME EntriesOK, UNCHANGED entry
  PROVE  /\ entry' \in [Portfolios -> EntryRecord \cup {NoEntry}]
         /\ \A p \in Portfolios : Keeps(entry[p], entry'[p])
BY KeepsItself DEF EntriesOK

(* A handler that goes from one place to another, or ends.                 *)
LEMMA HandlerInv ==
  ASSUME ProgressInv, NEW r \in Runs, NEW place \in RunStates,
         run[r] \notin Ended, run' = [run EXCEPT ![r] = place],
         UNCHANGED <<saved, snapshots>>,
         UNCHANGED entry \/ \E stage : Mark(r, stage)
  PROVE  ProgressInv'
<1>1. /\ entry' \in [Portfolios -> EntryRecord \cup {NoEntry}]
      /\ \A p \in Portfolios : Keeps(entry[p], entry'[p])
  BY SameEntries, MarkedEntries DEF ProgressInv
<1>2. /\ run' \in [Runs -> RunStates]
      /\ \A s \in Runs : run[s] \in Ended => run'[s] \in Ended
  BY DEF ProgressInv, SavedOnce
<1>. QED BY <1>1, <1>2, KeptInv

(* A run that is saved, and whose entry is finished if everything went     *)
(* well.                                                                   *)
LEMMA SavedInv ==
  ASSUME ProgressInv, NEW r \in Runs, NEW place \in Ended, run[r] = "planned",
         run' = [run EXCEPT ![r] = place],
         saved' = Append(saved, r),
         snapshots' \subseteq snapshots \cup {r},
         NEW f, entry' = [entry EXCEPT ![PortfolioOf[r]] = f],
         f = NoEntry \/ (EntryOK(f) /\ Exists(PortfolioOf[r]) /\ f.since = entry[PortfolioOf[r]].since)
  PROVE  ProgressInv'
<1>. DEFINE n  == Len(saved)
            p0 == PortfolioOf[r]
<1>1. p0 \in Portfolios
  BY RunsAssumption
<1>2. /\ n \in Nat /\ saved' \in Seq(Runs) /\ Len(saved') = n + 1
      /\ \A i \in 1..n : saved'[i] = saved[i] /\ saved[i] \in Runs
      /\ saved'[n + 1] = r
  BY AppendProperties, LenProperties, ElementOfSeq DEF ProgressInv, SavedOnce
<1>3. EntriesOK'
  <2>1. f \in EntryRecord \cup {NoEntry} /\ (f # NoEntry => f.since <= n)
    BY <1>1 DEF ProgressInv, EntriesOK, EntryOK
  <2>2. /\ entry' \in [Portfolios -> EntryRecord \cup {NoEntry}] /\ entry'[p0] = f
        /\ \A p \in Portfolios : p # p0 => entry'[p] = entry[p]
    BY <1>1, <2>1 DEF ProgressInv, EntriesOK
  <2>3. \A p \in Portfolios : entry'[p] = NoEntry \/ EntryOK(entry'[p])
    BY <2>2 DEF ProgressInv, EntriesOK
  <2>4. ASSUME NEW p \in Portfolios, entry'[p] # NoEntry
        PROVE  entry'[p].since <= n + 1
    <3>1. entry'[p].since \in Nat /\ entry'[p].since <= n
      BY <2>1, <2>2, <2>3, <2>4 DEF ProgressInv, EntriesOK, EntryOK, EntryRecord, Exists
    <3>. QED BY <1>2, <3>1
  <2>. QED BY <1>2, <2>2, <2>3, <2>4 DEF EntriesOK, Exists
<1>4. SavedOnce'
  <2>1. run' \in [Runs -> RunStates] /\ run'[r] \in Ended /\ \A s \in Runs : s # r => run'[s] = run[s]
    BY DEF ProgressInv, SavedOnce, RunStates
  <2>2. \A i \in 1..n : saved[i] # r
    BY DEF ProgressInv, SavedOnce, Ended
  <2>3. \A i \in 1..(n + 1) : run'[saved'[i]] \in Ended
    BY <1>2, <2>1, <2>2 DEF ProgressInv, SavedOnce
  <2>4. \A i, j \in 1..(n + 1) : saved'[i] = saved'[j] => i = j
    BY <1>2, <2>2 DEF ProgressInv, SavedOnce
  <2>5. snapshots' \subseteq {saved'[i] : i \in 1..(n + 1)}
    <3>1. 1..n \subseteq 1..(n + 1) /\ n + 1 \in 1..(n + 1)
      BY <1>2
    <3>2. \A x \in snapshots : \E i \in 1..n : x = saved[i]
      BY DEF ProgressInv, SavedOnce
    <3>3. \A x \in snapshots : \E i \in 1..(n + 1) : x = saved'[i]
      BY <1>2, <3>1, <3>2
    <3>. QED BY <1>2, <3>1, <3>3
  <2>. QED BY <1>2, <2>1, <2>3, <2>4, <2>5 DEF SavedOnce
<1>5. OkMeansSaved'
  <2>. SUFFICES ASSUME NEW p \in Portfolios, entry'[p] # NoEntry, entry'[p].ok = "yes"
                PROVE  \E i \in (entry'[p].since + 1)..(n + 1) : PortfolioOf[saved'[i]] = p
    BY <1>2 DEF OkMeansSaved, Exists
  <2>1. entry'[p].since \in Nat
    BY <1>3 DEF EntriesOK, EntryOK, EntryRecord
  <2>2. CASE p = p0
    <3>1. entry'[p].since <= n
      BY <1>1, <2>2 DEF ProgressInv, EntriesOK
    <3>. QED BY <1>2, <2>1, <2>2, <3>1
  <2>3. CASE p # p0
    <3>1. entry'[p] = entry[p]
      BY <2>3 DEF ProgressInv, EntriesOK
    <3>2. PICK i \in (entry[p].since + 1)..n : PortfolioOf[saved[i]] = p
      BY <3>1 DEF ProgressInv, OkMeansSaved, Exists
    <3>. QED BY <1>2, <2>1, <3>1, <3>2
  <2>. QED BY <2>2, <2>3
<1>. QED BY <1>3, <1>4, <1>5 DEF ProgressInv

LEMMA ProgressInitInv == RunsInit => ProgressInv
BY RunsAssumption, EmptySeq DEF RunsInit, ProgressInv, EntriesOK, SavedOnce, OkMeansSaved, Exists,
   RunStates

LEMMA AdvanceInv ==
  ASSUME ProgressInv, NEW r \in Runs, Advance(r)
  PROVE  ProgressInv'
<1>1. CASE \/ ScoresArrive(r) \/ TimingEnds(r) \/ ExposureArrives(r) \/ RegimeEnds(r)
           \/ Layer1Ends(r) \/ Layer2Ends(r) \/ Layer3Ends(r) \/ AllLayersFail(r)
           \/ SingleShotAnswers(r)
  <2>1. PICK place \in Waiting : Goto(r, place)
    BY <1>1 DEF Waiting, ScoresArrive, TimingEnds, ExposureArrives, RegimeEnds,
       Layer1Ends, Layer2Ends, Layer3Ends, AllLayersFail, SingleShotAnswers
  <2>2. UNCHANGED entry \/ \E stage : Mark(r, stage)
    BY <1>1 DEF ScoresArrive, TimingEnds, ExposureArrives, RegimeEnds,
       Layer1Ends, Layer2Ends, Layer3Ends, AllLayersFail, SingleShotAnswers
  <2>3. run[r] \notin Ended
    BY <1>1 DEF ScoresArrive, TimingEnds, ExposureArrives, RegimeEnds, Ended,
       Layer1Ends, Layer2Ends, Layer3Ends, AllLayersFail, SingleShotAnswers
  <2>4. place \in RunStates
    BY DEF RunStates
  <2>5. run' = [run EXCEPT ![r] = place] /\ UNCHANGED <<saved, snapshots>>
    BY <2>1 DEF Goto
  <2>. QED BY <2>2, <2>3, <2>4, <2>5, HandlerInv
<1>2. CASE \/ ScoresRaise(r) \/ ExposureRaises(r) \/ PreparationRaises(r) \/ SingleShotRaises(r)
           \/ PlanSaveFails(r)
  <2>1. /\ run[r] \notin Ended /\ run' = [run EXCEPT ![r] = "error"]
        /\ UNCHANGED <<saved, snapshots>>
        /\ UNCHANGED entry \/ \E stage : Mark(r, stage)
    BY <1>2 DEF ScoresRaise, ExposureRaises, PreparationRaises, SingleShotRaises, PlanSaveFails,
       Raise, Ended
  <2>2. "error" \in RunStates
    BY DEF RunStates, Ended
  <2>. QED BY <2>1, <2>2, HandlerInv
<1>3. CASE SignalsFail(r)
  <2>. DEFINE f == MarkedEntry(entry[PortfolioOf[r]], "SAVING")
  <2>1. PortfolioOf[r] \in Portfolios /\ "error" \in Ended
    BY RunsAssumption DEF Ended
  <2>2. Keeps(entry[PortfolioOf[r]], f)
    BY <2>1, MarkKeeps DEF ProgressInv, EntriesOK
  <2>3. f = NoEntry \/ (EntryOK(f) /\ Exists(PortfolioOf[r]) /\ f.since = entry[PortfolioOf[r]].since)
    BY <2>2 DEF Keeps, Exists
  <2>4. /\ run[r] = "planned" /\ run' = [run EXCEPT ![r] = "error"] /\ saved' = Append(saved, r)
        /\ snapshots' \subseteq snapshots \cup {r}
        /\ entry' = [entry EXCEPT ![PortfolioOf[r]] = f]
    BY <1>3 DEF SignalsFail, Mark
  <2>. HIDE DEF f
  <2>. QED BY <2>1, <2>3, <2>4, SavedInv
<1>4. CASE Complete(r)
  <2>. DEFINE e0 == entry[PortfolioOf[r]]
              e2 == MarkedEntry(MarkedEntry(e0, "STABILIZING"), "SAVING")
              f  == FinishedEntry(e2, TRUE)
  <2>1. PortfolioOf[r] \in Portfolios /\ "result" \in Ended
    BY RunsAssumption DEF Ended
  <2>2. Keeps(e0, MarkedEntry(e0, "STABILIZING"))
    BY <2>1, MarkKeeps DEF ProgressInv, EntriesOK
  <2>3. Keeps(MarkedEntry(e0, "STABILIZING"), e2)
    BY <2>2, MarkKeeps DEF Keeps
  <2>4. e2 = NoEntry \/ (EntryOK(e2) /\ Exists(PortfolioOf[r]) /\ e2.since = e0.since)
    BY <2>2, <2>3 DEF Keeps, Exists
  <2>5. f = NoEntry \/ (EntryOK(f) /\ Exists(PortfolioOf[r]) /\ f.since = e0.since)
    <3>1. CASE e2 = NoEntry
      BY <3>1 DEF FinishedEntry
    <3>2. CASE e2 # NoEntry
      <4>. HIDE DEF e2
      <4>. QED BY <2>4, <3>2, FinishSucceeds
    <3>. QED BY <3>1, <3>2
  <2>6. /\ run[r] = "planned" /\ run' = [run EXCEPT ![r] = "result"] /\ saved' = Append(saved, r)
        /\ snapshots' \subseteq snapshots \cup {r}
        /\ entry' = [entry EXCEPT ![PortfolioOf[r]] = f]
    BY <1>4 DEF Complete, RecordRecommendation
  <2>. HIDE DEF f
  <2>. QED BY <2>1, <2>5, <2>6, SavedInv
<1>. QED BY <1>1, <1>2, <1>3, <1>4 DEF Advance

LEMMA ProgressStepInv == ProgressInv /\ [RunsNext]_runsVars => ProgressInv'
<1>. SUFFICES ASSUME ProgressInv, [RunsNext]_runsVars
              PROVE  ProgressInv'
  OBVIOUS
<1>1. EntriesOK /\ run \in [Runs -> RunStates]
  BY DEF ProgressInv, SavedOnce
<1>2. ASSUME NEW r \in Runs, Refuse(r) PROVE ProgressInv'
  <2>1. "refused" \in RunStates /\ run[r] \notin Ended
    BY <1>2 DEF RunStates, Refuse, Ended
  <2>. QED BY <1>2, <2>1, HandlerInv DEF Refuse
<1>3. ASSUME NEW r \in Runs, Start(r) PROVE ProgressInv'
  <2>. DEFINE p0 == PortfolioOf[r]
              f  == StartedEntry(r)
  <2>1. /\ p0 \in Portfolios /\ Len(saved) \in Nat
        /\ \A i \in 1..Len(saved) : saved[i] \in Runs
    BY RunsAssumption, LenProperties, ElementOfSeq DEF ProgressInv, SavedOnce
  <2>2. EntryOK(f) /\ f.since = Len(saved) /\ f.ok = "none"
    BY <2>1, StartedIsOK
  <2>3. /\ run[r] = "none" /\ run' = [run EXCEPT ![r] = "scores"]
        /\ entry' = [entry EXCEPT ![p0] = f] /\ UNCHANGED <<saved, snapshots>>
    BY <1>3 DEF Start, Goto
  <2>. HIDE DEF f
  <2>4. /\ entry' \in [Portfolios -> EntryRecord \cup {NoEntry}] /\ entry'[p0] = f
        /\ \A p \in Portfolios : p # p0 => entry'[p] = entry[p]
    BY <1>1, <2>1, <2>2, <2>3 DEF EntriesOK, EntryOK
  <2>5. EntriesOK'
    BY <1>1, <2>1, <2>2, <2>3, <2>4 DEF EntriesOK, Exists
  <2>6. SavedOnce'
    <3>1. /\ run' \in [Runs -> RunStates] /\ \A s \in Runs : run[s] \in Ended => run'[s] \in Ended
      BY <1>1, <2>3 DEF RunStates, Waiting, Ended
    <3>. QED BY <2>1, <2>3, <3>1 DEF ProgressInv, SavedOnce
  <2>7. OkMeansSaved'
    BY <2>1, <2>2, <2>3, <2>4 DEF ProgressInv, OkMeansSaved, Exists
  <2>. QED BY <2>5, <2>6, <2>7 DEF ProgressInv
<1>4. ASSUME NEW r \in Runs, Advance(r) PROVE ProgressInv'
  BY <1>4, AdvanceInv
<1>5. ASSUME NEW p \in Portfolios, Poll(p) PROVE ProgressInv'
  <2>1. \A q \in Portfolios : Keeps(entry[q], entry'[q])
    BY <1>1, <1>5, PollKeeps DEF Poll, EntriesOK
  <2>2. entry' \in [Portfolios -> EntryRecord \cup {NoEntry}]
    <3>1. \A q \in Portfolios : entry'[q] \in EntryRecord \cup {NoEntry}
      BY <2>1, KeepsIsEntry
    <3>. QED BY <1>5, <3>1 DEF Poll
  <2>. QED BY <1>1, <1>5, <2>1, <2>2, KeptInv DEF Poll
<1>6. CASE Tick
  <2>1. \A q \in Portfolios : Keeps(entry[q], entry'[q])
    BY <1>1, <1>6, AgeKeeps DEF Tick, EntriesOK
  <2>2. entry' \in [Portfolios -> EntryRecord \cup {NoEntry}]
    <3>1. \A q \in Portfolios : entry'[q] \in EntryRecord \cup {NoEntry}
      BY <2>1, KeepsIsEntry
    <3>. QED BY <1>6, <3>1 DEF Tick
  <2>. QED BY <1>1, <1>6, <2>1, <2>2, KeptInv DEF Tick
<1>7. CASE Restart
  <2>1. /\ entry' \in [Portfolios -> EntryRecord \cup {NoEntry}]
        /\ \A q \in Portfolios : Keeps(entry[q], entry'[q])
    BY <1>7 DEF Restart, Keeps
  <2>2. /\ run' \in [Runs -> RunStates]
        /\ \A r \in Runs : run[r] \in Ended => run'[r] \in Ended
    BY <1>1, <1>7 DEF Restart, RunStates, Ended, Waiting
  <2>. QED BY <1>7, <2>1, <2>2, KeptInv DEF Restart
<1>8. CASE UNCHANGED runsVars
  <2>1. UNCHANGED entry /\ UNCHANGED <<saved, snapshots>> /\ run' = run
    BY <1>8 DEF runsVars
  <2>. QED BY <1>1, <2>1, SameEntries, KeptInv
<1>. QED BY <1>2, <1>3, <1>4, <1>5, <1>6, <1>7, <1>8 DEF RunsNext

(* However runs overlap, are taken for crashed, fail to save or die with   *)
(* the process: what is saved was saved once, and an entry that says a run *)
(* succeeded has a row saved after it began.                               *)
THEOREM ProgressIsAlwaysTruthful == RunsSpec => []ProgressIsTruthful
<1>1. ProgressInv => ProgressIsTruthful
  <2>. SUFFICES ASSUME ProgressInv
                PROVE  RunsTypeOK
    BY DEF ProgressIsTruthful, ProgressInv
  <2>1. ASSUME NEW p \in Portfolios, Exists(p)
        PROVE  /\ entry[p].stage \in StageNames \cup {"DONE", "FAILED"}
               /\ entry[p].running <=> entry[p].stage \in StageNames
               /\ entry[p].ok = CASE entry[p].stage = "DONE" -> "yes"
                                  [] entry[p].stage = "FAILED" -> "no"
                                  [] OTHER -> "none"
               /\ entry[p].idle \in 0..(StaleAfter + 1) /\ entry[p].age \in 0..(Retention + 1)
               /\ entry[p].seen \subseteq StageNames /\ entry[p].since \in 0..Len(saved)
    <3>1. EntryOK(entry[p]) /\ entry[p].since <= Len(saved) /\ Len(saved) \in Nat
      BY <2>1, LenProperties DEF ProgressInv, EntriesOK, SavedOnce, Exists
    <3>2. /\ entry[p].stage \in StageNames \cup {"DONE", "FAILED"}
          /\ entry[p].idle \in 0..(StaleAfter + 1) /\ entry[p].age \in 0..(Retention + 1)
          /\ entry[p].seen \subseteq StageNames /\ entry[p].since \in Nat
      BY <3>1 DEF EntryOK, EntryRecord
    <3>. QED BY <3>1, <3>2 DEF EntryOK
  <2>2. run \in [Runs -> Waiting \cup {"none", "refused", "error", "result"}]
    BY DEF ProgressInv, SavedOnce, RunStates, Ended
  <2>. QED BY <2>1, <2>2 DEF RunsTypeOK, ProgressInv, SavedOnce
<1>. QED BY <1>1, ProgressInitInv, ProgressStepInv, PTL DEF RunsSpec

-----------------------------------------------------------------------------
(* Batches of analyses.                                                    *)

TaskStates   == {"none", "waiting", "done"} \cup Holding
BatchStates  == {"none", "queued", "running", "done", "dropped"}
BatchRecord  == [stale : SUBSET Symbols, status : BatchStates, results : Seq(Symbols)]
StreamRecord == [open : BOOLEAN, sent : Seq(Symbols), complete : BOOLEAN]

AnalysisTypes ==
  /\ batch \in [Batches -> BatchRecord]
  /\ stream \in [Batches -> StreamRecord]
  /\ queued \in [Batches -> Seq(Symbols)]
  /\ task \in [Tasks -> TaskStates]
  /\ outcome \in [Tasks -> {"none", "analysis", "unsaved"}]
  /\ known \subseteq Batches /\ cached \subseteq Symbols /\ history \subseteq Tasks
  /\ orphans \in Nat

(* No more permits and threads are in use than there are.                  *)
PoolsHold == FreePermits >= 0 /\ FreeThreads >= 0

(* Only what a batch asks for has a task, and only once the batch runs.    *)
TasksAreAsked ==
  \A b \in Batches, s \in Symbols :
    /\ task[<<b, s>>] # "none" => s \in batch[b].stale
    /\ batch[b].status \in {"none", "queued"} => task[<<b, s>>] = "none"

Distinct(s) == \A i, j \in 1..Len(s) : s[i] = s[j] => i = j
Occurs(x, s) == \E i \in 1..Len(s) : s[i] = x

(* The results a batch has taken and those that wait for it are, without   *)
(* repetition, the tasks that are done.                                    *)
Accounts(b) ==
  /\ Distinct(batch[b].results \o queued[b])
  /\ \A s \in Symbols : task[<<b, s>>] = "done" <=> Occurs(s, batch[b].results \o queued[b])
  /\ batch[b].status = "done" => ToSet(batch[b].results) = batch[b].stale

AnalysisInv ==
  /\ AnalysisTypes /\ PoolsHold /\ TasksAreAsked
  /\ \A b \in Batches : Accounts(b)
  /\ StreamSendsAll
  /\ \A t \in history : task[t] = "done" /\ outcome[t] = "analysis"

-----------------------------------------------------------------------------
(* Sequences of results, and sets of tasks.                                *)

(* A result that waits is counted once if it was not there.                *)
LEMMA QueuedOnce ==
  ASSUME NEW S, NEW r \in Seq(S), NEW q \in Seq(S), NEW x \in S,
         Distinct(r \o q), ~Occurs(x, r \o q)
  PROVE  /\ Distinct(r \o Append(q, x))
         /\ \A y \in S : Occurs(y, r \o Append(q, x)) <=> (y = x \/ Occurs(y, r \o q))
<1>. DEFINE old == r \o q
            new == r \o Append(q, x)
            n   == Len(r) + Len(q)
<1>1. /\ Len(r) \in Nat /\ Len(q) \in Nat
      /\ Append(q, x) \in Seq(S) /\ Len(Append(q, x)) = Len(q) + 1
      /\ \A i \in 1..Len(q) : Append(q, x)[i] = q[i]
      /\ Append(q, x)[Len(q) + 1] = x
  BY AppendProperties, LenProperties
<1>2. /\ Len(old) = n
      /\ \A i \in 1..n : old[i] = IF i <= Len(r) THEN r[i] ELSE q[i - Len(r)]
  BY ConcatProperties
<1>3. /\ Len(new) = n + 1
      /\ \A i \in 1..(n + 1) :
           new[i] = IF i <= Len(r) THEN r[i] ELSE Append(q, x)[i - Len(r)]
  BY <1>1, ConcatProperties
<1>4. ASSUME NEW i \in 1..n PROVE new[i] = old[i]
  <2>1. CASE i <= Len(r)
    BY <1>1, <1>2, <1>3, <2>1
  <2>2. CASE i > Len(r)
    <3>1. i - Len(r) \in 1..Len(q)
      BY <1>1, <2>2
    <3>. QED BY <1>1, <1>2, <1>3, <2>2, <3>1
  <2>. QED BY <1>1, <2>1, <2>2
<1>5. new[n + 1] = x
  BY <1>1, <1>3
<1>6. n \in Nat
  BY <1>1
<1>. HIDE DEF old, new, n
<1>7. Distinct(old) /\ ~Occurs(x, old)
  BY DEF old
<1>8. Distinct(new)
  BY <1>2, <1>3, <1>4, <1>5, <1>6, <1>7 DEF Distinct, Occurs
<1>9. \A y \in S : Occurs(y, new) <=> (y = x \/ Occurs(y, old))
  <2>. SUFFICES ASSUME NEW y \in S PROVE Occurs(y, new) <=> (y = x \/ Occurs(y, old))
    OBVIOUS
  <2>1. \A i \in 1..(n + 1) : i \in 1..n \/ i = n + 1
    BY <1>6
  <2>2. ASSUME Occurs(y, new) PROVE y = x \/ Occurs(y, old)
    BY <1>2, <1>3, <1>4, <1>5, <2>1, <2>2 DEF Occurs
  <2>3. x = y => Occurs(y, new)
    BY <1>3, <1>5, <1>6 DEF Occurs
  <2>4. ASSUME Occurs(y, old) PROVE Occurs(y, new)
    <3>1. PICK i \in 1..n : old[i] = y
      BY <1>2, <2>4 DEF Occurs
    <3>2. i \in 1..(n + 1) /\ new[i] = y
      BY <1>4, <1>6, <3>1
    <3>. QED BY <1>3, <3>2 DEF Occurs
  <2>. QED BY <2>2, <2>3, <2>4
<1>. QED BY <1>8, <1>9 DEF old, new

(* A batch that takes a result moves it from the one sequence to the other.*)
LEMMA TakingMovesOne ==
  ASSUME NEW S, NEW r \in Seq(S), NEW q \in Seq(S), q # <<>>
  PROVE  /\ Append(r, Head(q)) \o Tail(q) = r \o q
         /\ Append(r, Head(q)) \in Seq(S) /\ Tail(q) \in Seq(S)
         /\ Len(Append(r, Head(q))) = Len(r) + 1
<1>. DEFINE r2 == Append(r, Head(q))
            q2 == Tail(q)
<1>1. /\ Head(q) \in S /\ q2 \in Seq(S) /\ Len(q2) = Len(q) - 1
      /\ \A i \in 1..Len(q2) : q2[i] = q[i + 1]
      /\ Head(q) = q[1] /\ Len(r) \in Nat /\ Len(q) \in Nat \ {0}
  BY HeadTailProperties, EmptySeq, LenProperties
<1>2. /\ r2 \in Seq(S) /\ Len(r2) = Len(r) + 1
      /\ \A i \in 1..Len(r) : r2[i] = r[i]
      /\ r2[Len(r) + 1] = q[1]
  BY <1>1, AppendProperties
<1>3. /\ r \o q \in Seq(S) /\ Len(r \o q) = Len(r) + Len(q)
      /\ \A i \in 1..(Len(r) + Len(q)) :
           (r \o q)[i] = IF i <= Len(r) THEN r[i] ELSE q[i - Len(r)]
  BY ConcatProperties
<1>. HIDE DEF r2, q2
<1>4. /\ r2 \o q2 \in Seq(S) /\ Len(r2 \o q2) = Len(r2) + Len(q2)
      /\ \A i \in 1..(Len(r2) + Len(q2)) :
           (r2 \o q2)[i] = IF i <= Len(r2) THEN r2[i] ELSE q2[i - Len(r2)]
  BY <1>1, <1>2, ConcatProperties
<1>5. Len(r2 \o q2) = Len(r \o q)
  BY <1>1, <1>2, <1>3, <1>4
<1>6. ASSUME NEW i \in 1..Len(r2 \o q2) PROVE (r2 \o q2)[i] = (r \o q)[i]
  <2>1. CASE i <= Len(r)
    BY <1>1, <1>2, <1>3, <1>4, <2>1
  <2>2. CASE i = Len(r) + 1
    BY <1>1, <1>2, <1>3, <1>4, <2>2
  <2>3. CASE i > Len(r) + 1
    <3>1. i - Len(r2) \in 1..Len(q2) /\ i - Len(r2) + 1 = i - Len(r)
      BY <1>1, <1>2, <1>4, <2>3
    <3>2. (r2 \o q2)[i] = q2[i - Len(r2)]
      BY <1>1, <1>2, <1>4, <2>3, <3>1
    <3>3. q2[i - Len(r2)] = q[i - Len(r)]
      BY <1>1, <3>1
    <3>4. (r \o q)[i] = q[i - Len(r)]
      BY <1>1, <1>2, <1>3, <1>4, <2>3
    <3>. QED BY <3>2, <3>3, <3>4
  <2>. QED BY <1>1, <1>3, <1>5, <2>1, <2>2, <2>3
<1>7. r2 \o q2 = r \o q
  BY <1>3, <1>4, <1>5, <1>6, SeqEqual, Zenon
<1>. QED BY <1>1, <1>2, <1>7 DEF r2, q2

(* As many distinct elements as a sequence is long.                        *)
LEMMA DistinctCount ==
  ASSUME NEW S, NEW s \in Seq(S), Distinct(s)
  PROVE  IsFiniteSet(ToSet(s)) /\ Cardinality(ToSet(s)) = Len(s)
<1>1. Len(s) \in Nat /\ s \in [1..Len(s) -> S]
  BY LenProperties
<1>2. s \in [1..Len(s) -> ToSet(s)]
  BY <1>1 DEF ToSet
<1>3. s \in Injection(1..Len(s), ToSet(s)) /\ s \in Surjection(1..Len(s), ToSet(s))
  BY <1>2 DEF Distinct, ToSet, Injection, IsInjective, Surjection
<1>4. IsFiniteSet(1..Len(s)) /\ Cardinality(1..Len(s)) = Len(s)
  BY <1>1, FS_Interval
<1>. QED BY <1>3, <1>4, FS_Surjection, Zenon

TasksIn(f, set) == {u \in Tasks : f[u] \in set}
Moved(f, g, t, to) == g \in [Tasks -> TaskStates] /\ g[t] = to /\ \A u \in Tasks \ {t} : g[u] = f[u]

(* 1 for a state of the set.                                               *)
One(x, set) == IF x \in set THEN 1 ELSE 0

LEMMA TasksAreFinite == ASSUME NEW T \in SUBSET Tasks PROVE IsFiniteSet(T) /\ Cardinality(T) \in Nat
<1>1. IsFiniteSet(Tasks)
  BY AnalysisAssumption, FS_Product DEF Tasks
<1>2. IsFiniteSet(T)
  BY <1>1, FS_Subset
<1>. QED BY <1>2, FS_CardinalityType

(* One task moves: the tasks in a set of states are one more or one less.  *)
LEMMA CountAfterMove ==
  ASSUME NEW f \in [Tasks -> TaskStates], NEW t \in Tasks, NEW to \in TaskStates, NEW set,
         NEW g, Moved(f, g, t, to)
  PROVE  /\ Cardinality(TasksIn(f, set)) \in Nat
         /\ One(f[t], set) \in {0, 1} /\ One(to, set) \in {0, 1}
         /\ Cardinality(TasksIn(g, set)) + One(f[t], set)
              = Cardinality(TasksIn(f, set)) + One(to, set)
         /\ Cardinality(TasksIn(g, set)) \in Nat
<1>. USE DEF Moved
<1>. DEFINE A == {u \in Tasks : f[u] \in set}
            B == {u \in Tasks : g[u] \in set}
<1>1. /\ IsFiniteSet(A) /\ Cardinality(A) \in Nat
      /\ IsFiniteSet(B) /\ Cardinality(B) \in Nat
  BY TasksAreFinite
<1>2. ASSUME to \in set PROVE B = A \cup {t}
  BY <1>2
<1>3. ASSUME to \notin set PROVE B = A \ {t}
  BY <1>3
<1>4. t \in A <=> f[t] \in set
  OBVIOUS
<1>. HIDE DEF A, B
<1>5. Cardinality(A \cup {t}) = IF t \in A THEN Cardinality(A) ELSE Cardinality(A) + 1
  BY <1>1, FS_AddElement
<1>6. Cardinality(A \ {t}) = IF t \in A THEN Cardinality(A) - 1 ELSE Cardinality(A)
  BY <1>1, FS_RemoveElement
<1>7. One(f[t], set) \in {0, 1} /\ One(to, set) \in {0, 1}
  BY DEF One
<1>8. Cardinality(B) + One(f[t], set) = Cardinality(A) + One(to, set)
  <2>0. One(f[t], set) = IF t \in A THEN 1 ELSE 0
    BY <1>4 DEF One
  <2>1. CASE to \in set
    <3>1. One(to, set) = 1 /\ B = A \cup {t}
      BY <1>2, <2>1 DEF One
    <3>. QED BY <1>1, <1>5, <2>0, <3>1
  <2>2. CASE to \notin set
    <3>1. One(to, set) = 0 /\ B = A \ {t}
      BY <1>3, <2>2 DEF One
    <3>. QED BY <1>1, <1>6, <2>0, <3>1
  <2>. QED BY <2>1, <2>2
<1>9. A = TasksIn(f, set) /\ B = TasksIn(g, set)
  BY DEF A, B, TasksIn
<1>. QED BY <1>1, <1>7, <1>8, <1>9

-----------------------------------------------------------------------------
(* Steps.                                                                  *)

LEMMA AnalysisInitInv == AnalysisInit => AnalysisInv
<1>. SUFFICES ASSUME AnalysisInit PROVE AnalysisInv
  OBVIOUS
<1>1. AnalysisTypes
  BY EmptySeq DEF AnalysisInit, AnalysisTypes, Idle, NoStream, BatchRecord, StreamRecord,
     BatchStates, TaskStates
<1>2. PoolsHold
  <2>1. InStatus(Holding) = {} /\ InStatus(InThread) = {}
    BY DEF AnalysisInit, InStatus, Holding, Fetching, Asking, InThread
  <2>. QED BY <2>1, FS_EmptySet, AnalysisAssumption
           DEF AnalysisInit, PoolsHold, FreePermits, FreeThreads
<1>3. TasksAreAsked
  BY DEF AnalysisInit, TasksAreAsked, Tasks
<1>4. ASSUME NEW b \in Batches PROVE Accounts(b)
  <2>1. batch[b] = Idle /\ queued[b] = <<>> /\ \A s \in Symbols : task[<<b, s>>] = "none"
    BY DEF AnalysisInit, Tasks
  <2>2. batch[b].results \o queued[b] = <<>> /\ batch[b].status = "none"
    BY <2>1, EmptySeq, ConcatEmptySeq DEF Idle
  <2>3. Distinct(<<>>) /\ \A s \in Symbols : ~Occurs(s, <<>>)
    BY DEF Distinct, Occurs
  <2>. QED BY <2>1, <2>2, <2>3 DEF Accounts
<1>5. StreamSendsAll /\ \A t \in history : task[t] = "done" /\ outcome[t] = "analysis"
  BY DEF AnalysisInit, StreamSendsAll, NoStream
<1>. QED BY <1>1, <1>2, <1>3, <1>4, <1>5 DEF AnalysisInv

(* A batch without tasks has no results.                                   *)
LEMMA NothingToCount ==
  ASSUME AnalysisTypes, NEW b \in Batches, Accounts(b),
         \A s \in Symbols : task[<<b, s>>] = "none"
  PROVE  batch[b].results = <<>> /\ queued[b] = <<>> /\ ToSet(batch[b].results) = {}
<1>. DEFINE r == batch[b].results
            q == queued[b]
<1>1. r \in Seq(Symbols) /\ q \in Seq(Symbols)
  BY DEF AnalysisTypes, BatchRecord
<1>2. r \o q \in Seq(Symbols)
  BY <1>1, ConcatProperties
<1>3. \A s \in Symbols : ~Occurs(s, r \o q)
  BY DEF Accounts
<1>. HIDE DEF r, q
<1>4. Len(r \o q) = 0
  BY <1>2, <1>3, ElementOfSeq, LenProperties DEF Occurs
<1>5. Len(r) = 0 /\ Len(q) = 0
  BY <1>1, <1>4, ConcatProperties, LenProperties
<1>6. r = <<>> /\ q = <<>>
  BY <1>1, <1>5, EmptySeq
<1>. QED BY <1>6, <1>5 DEF r, q, ToSet

(* Tasks begin to wait: those of a batch that had none.                    *)
LEMMA BatchBeginsInv ==
  ASSUME AnalysisInv, NEW b \in Batches, NEW begun \in SUBSET Symbols,
         \A s \in Symbols : task[<<b, s>>] = "none",
         NEW record \in BatchRecord, batch' = [batch EXCEPT ![b] = record],
         record.results = batch[b].results,
         record.status = "done" => record.stale = {},
         begun # {} => record.status = "running",
         begun \subseteq record.stale,
         batch[b].status # "done",
         task' = [t \in Tasks |-> IF t[1] = b /\ t[2] \in begun THEN "waiting" ELSE task[t]],
         known' \subseteq Batches,
         UNCHANGED <<outcome, queued, orphans, cached, history, stream>>
  PROVE  AnalysisInv'
<1>1. \A t \in Tasks : t = <<t[1], t[2]>> /\ t[1] \in Batches /\ t[2] \in Symbols
  BY DEF Tasks
<1>2. \A c \in Batches, s \in Symbols : <<c, s>> \in Tasks
  BY DEF Tasks
<1>3. \A t \in Tasks : task'[t] = task[t] \/ (task[t] = "none" /\ task'[t] = "waiting")
  BY <1>1
<1>4. /\ batch' \in [Batches -> BatchRecord] /\ batch'[b] = record
      /\ \A c \in Batches : c # b => batch'[c] = batch[c]
  BY DEF AnalysisInv, AnalysisTypes
<1>5. AnalysisTypes'
  <2>1. task' \in [Tasks -> TaskStates]
    BY DEF AnalysisInv, AnalysisTypes, TaskStates
  <2>. QED BY <1>4, <2>1 DEF AnalysisInv, AnalysisTypes
<1>6. PoolsHold'
  <2>1. InStatus(Holding)' = InStatus(Holding) /\ InStatus(InThread)' = InStatus(InThread)
    BY <1>3 DEF InStatus, Holding, Fetching, Asking, InThread
  <2>. QED BY <2>1 DEF AnalysisInv, PoolsHold, FreePermits, FreeThreads
<1>7. TasksAreAsked'
  <2>. SUFFICES ASSUME NEW c \in Batches, NEW s \in Symbols
                PROVE  /\ task'[<<c, s>>] # "none" => s \in batch'[c].stale
                       /\ batch'[c].status \in {"none", "queued"} => task'[<<c, s>>] = "none"
    BY DEF TasksAreAsked
  <2>1. task'[<<c, s>>] = IF c = b /\ s \in begun THEN "waiting" ELSE task[<<c, s>>]
    BY <1>2
  <2>2. CASE c = b
    BY <1>4, <2>1, <2>2
  <2>3. CASE c # b
    BY <1>4, <2>1, <2>3 DEF AnalysisInv, TasksAreAsked
  <2>. QED BY <2>2, <2>3
<1>8. ASSUME NEW c \in Batches PROVE Accounts(c)'
  <2>1. \A s \in Symbols : task'[<<c, s>>] = "done" <=> task[<<c, s>>] = "done"
    BY <1>2, <1>3
  <2>2. batch'[c].results = batch[c].results /\ queued'[c] = queued[c]
    BY <1>4
  <2>3. batch'[c].status = "done" => ToSet(batch[c].results) = batch'[c].stale
    <3>1. CASE c = b
      BY <1>4, <3>1, NothingToCount DEF AnalysisInv
    <3>2. CASE c # b
      BY <1>4, <3>2 DEF AnalysisInv, Accounts
    <3>. QED BY <3>1, <3>2
  <2>. QED BY <2>1, <2>2, <2>3 DEF AnalysisInv, Accounts
<1>9. StreamSendsAll'
  BY <1>4 DEF AnalysisInv, StreamSendsAll
<1>10. (\A t \in history : task[t] = "done" /\ outcome[t] = "analysis")'
  BY <1>3 DEF AnalysisInv, AnalysisTypes
<1>. QED BY <1>5, <1>6, <1>7, <1>8, <1>9, <1>10 DEF AnalysisInv

(* A task goes on, and neither begins nor ends.                            *)
LEMMA TaskGoesOnInv ==
  ASSUME AnalysisInv, NEW t \in Tasks, NEW to \in {"waiting"} \cup Holding,
         task[t] \notin {"none", "done"}, task' = [task EXCEPT ![t] = to], PoolsHold',
         UNCHANGED <<batch, outcome, queued, known, orphans, cached, history, stream>>
  PROVE  AnalysisInv'
<1>1. to \notin {"none", "done"} /\ to \in TaskStates
  BY DEF Holding, Fetching, Asking, TaskStates
<1>2. /\ task' \in [Tasks -> TaskStates]
      /\ \A u \in Tasks : /\ task'[u] = "none" <=> task[u] = "none"
                          /\ task'[u] = "done" <=> task[u] = "done"
  BY <1>1 DEF AnalysisInv, AnalysisTypes
<1>3. \A c \in Batches, s \in Symbols : <<c, s>> \in Tasks
  BY DEF Tasks
<1>4. AnalysisTypes'
  BY <1>2 DEF AnalysisInv, AnalysisTypes
<1>5. TasksAreAsked'
  BY <1>2, <1>3 DEF AnalysisInv, TasksAreAsked
<1>6. ASSUME NEW c \in Batches PROVE Accounts(c)'
  BY <1>2, <1>3 DEF AnalysisInv, Accounts
<1>7. StreamSendsAll'
  BY DEF AnalysisInv, StreamSendsAll
<1>8. (\A u \in history : task[u] = "done" /\ outcome[u] = "analysis")'
  BY <1>2 DEF AnalysisInv, AnalysisTypes
<1>. QED BY <1>4, <1>5, <1>6, <1>7, <1>8 DEF AnalysisInv

(* A task ends and hands its result over.                                  *)
LEMMA DeliverInv ==
  ASSUME AnalysisInv, NEW t \in Tasks, NEW result \in {"analysis", "unsaved"},
         task[t] \in Holding, Deliver(t, result), PoolsHold', orphans' \in Nat,
         cached' \subseteq Symbols,
         history' = history \/ (history' = history \cup {t} /\ result = "analysis"),
         UNCHANGED <<batch, known, stream>>
  PROVE  AnalysisInv'
<1>. DEFINE b == t[1]
            x == t[2]
<1>1. t = <<b, x>> /\ b \in Batches /\ x \in Symbols
  BY DEF Tasks
<1>2. \A c \in Batches, s \in Symbols : <<c, s>> \in Tasks
  BY DEF Tasks
<1>3. task[t] \notin {"none", "done"}
  BY DEF Holding, Fetching, Asking
<1>4. /\ task' \in [Tasks -> TaskStates] /\ task'[t] = "done"
      /\ \A u \in Tasks : u # t => task'[u] = task[u]
  BY DEF AnalysisInv, AnalysisTypes, Deliver, TaskStates
<1>5. /\ outcome' \in [Tasks -> {"none", "analysis", "unsaved"}] /\ outcome'[t] = result
      /\ \A u \in Tasks : u # t => outcome'[u] = outcome[u]
  BY DEF AnalysisInv, AnalysisTypes, Deliver
<1>6. /\ queued' \in [Batches -> Seq(Symbols)] /\ queued'[b] = Append(queued[b], x)
      /\ \A c \in Batches : c # b => queued'[c] = queued[c]
  <2>1. Append(queued[b], x) \in Seq(Symbols)
    BY <1>1, AppendProperties DEF AnalysisInv, AnalysisTypes
  <2>. QED BY <1>1, <2>1 DEF AnalysisInv, AnalysisTypes, Deliver
<1>. HIDE DEF b, x
<1>7. AnalysisTypes'
  BY <1>4, <1>5, <1>6 DEF AnalysisInv, AnalysisTypes
<1>8. TasksAreAsked'
  <2>. SUFFICES ASSUME NEW c \in Batches, NEW s \in Symbols
                PROVE  /\ task'[<<c, s>>] # "none" => s \in batch[c].stale
                       /\ batch[c].status \in {"none", "queued"} => task'[<<c, s>>] = "none"
    BY DEF TasksAreAsked
  <2>1. CASE <<c, s>> = t
    BY <1>3, <2>1 DEF AnalysisInv, TasksAreAsked
  <2>2. CASE <<c, s>> # t
    BY <1>2, <1>4, <2>2 DEF AnalysisInv, TasksAreAsked
  <2>. QED BY <2>1, <2>2
<1>9. ASSUME NEW c \in Batches PROVE Accounts(c)'
  <2>1. CASE c # b
    <3>1. \A s \in Symbols : <<c, s>> \in Tasks /\ <<c, s>> # t
      BY <1>1, <1>2, <2>1
    <3>2. \A s \in Symbols : task'[<<c, s>>] = task[<<c, s>>]
      BY <1>4, <3>1
    <3>. QED BY <1>6, <2>1, <3>2 DEF AnalysisInv, Accounts
  <2>2. CASE c = b
    <3>. DEFINE r == batch[b].results
                q == queued[b]
    <3>1. r \in Seq(Symbols) /\ q \in Seq(Symbols)
      BY <1>1 DEF AnalysisInv, AnalysisTypes, BatchRecord
    <3>2. /\ Distinct(r \o q) /\ \A s \in Symbols : task[<<b, s>>] = "done" <=> Occurs(s, r \o q)
          /\ batch[b].status = "done" => ToSet(r) = batch[b].stale
      BY <1>1 DEF AnalysisInv, Accounts
    <3>. HIDE DEF r, q
    <3>3. ~Occurs(x, r \o q)
      BY <1>1, <1>3, <3>2
    <3>4. /\ Distinct(r \o Append(q, x))
          /\ \A s \in Symbols : Occurs(s, r \o Append(q, x)) <=> (s = x \/ Occurs(s, r \o q))
      BY <1>1, <3>1, <3>2, <3>3, QueuedOnce
    <3>5. \A s \in Symbols : task'[<<b, s>>] = "done" <=> (s = x \/ task[<<b, s>>] = "done")
      <4>. SUFFICES ASSUME NEW s \in Symbols
                    PROVE  task'[<<b, s>>] = "done" <=> (s = x \/ task[<<b, s>>] = "done")
        OBVIOUS
      <4>1. CASE s = x
        BY <1>1, <1>4, <4>1
      <4>2. CASE s # x
        <5>1. <<b, s>> \in Tasks /\ <<b, s>> # t
          BY <1>1, <1>2, <4>2
        <5>. QED BY <1>4, <4>2, <5>1
      <4>. QED BY <4>1, <4>2
    <3>. QED BY <1>6, <2>2, <3>2, <3>4, <3>5 DEF Accounts, r, q
  <2>. QED BY <2>1, <2>2
<1>10. StreamSendsAll'
  BY DEF AnalysisInv, StreamSendsAll
<1>11. (\A u \in history : task[u] = "done" /\ outcome[u] = "analysis")'
  BY <1>3, <1>4, <1>5 DEF AnalysisInv, AnalysisTypes
<1>. QED BY <1>7, <1>8, <1>9, <1>10, <1>11 DEF AnalysisInv

(* A batch takes a result; with the last one it has its symbols, all of    *)
(* them, since as many distinct ones of them as there are.                 *)
LEMMA TakeResultInv ==
  ASSUME AnalysisInv, NEW b \in Batches, TakeResult(b)
  PROVE  AnalysisInv'
<1>. DEFINE r  == batch[b].results
            q  == queued[b]
            r2 == Append(r, Head(q))
            q2 == Tail(q)
            st == StatusAfter(b, Len(r) + 1)
<1>1. r \in Seq(Symbols) /\ q \in Seq(Symbols) /\ q # <<>> /\ batch[b].status = "running"
  BY DEF AnalysisInv, AnalysisTypes, BatchRecord, TakeResult
<1>2. /\ r2 \o q2 = r \o q /\ r2 \in Seq(Symbols) /\ q2 \in Seq(Symbols) /\ Len(r2) = Len(r) + 1
  BY <1>1, TakingMovesOne
<1>3. st \in BatchStates /\ (st = "done" => Len(r) + 1 = Cardinality(batch[b].stale))
  BY DEF StatusAfter, BatchStates
<1>4. st \notin {"none", "queued"}
  BY DEF StatusAfter
<1>5. /\ batch' = [batch EXCEPT ![b].results = r2, ![b].status = st]
      /\ queued' = [queued EXCEPT ![b] = q2]
      /\ UNCHANGED <<task, outcome, known, orphans, cached, history, stream>>
  BY DEF TakeResult
<1>. HIDE DEF r, q, r2, q2, st
<1>6. /\ batch' \in [Batches -> BatchRecord]
      /\ batch'[b].results = r2 /\ batch'[b].status = st /\ batch'[b].stale = batch[b].stale
      /\ \A c \in Batches : c # b => batch'[c] = batch[c]
  BY <1>2, <1>3, <1>5 DEF AnalysisInv, AnalysisTypes, BatchRecord
<1>7. /\ queued' \in [Batches -> Seq(Symbols)] /\ queued'[b] = q2
      /\ \A c \in Batches : c # b => queued'[c] = queued[c]
  BY <1>2, <1>5 DEF AnalysisInv, AnalysisTypes
<1>8. AnalysisTypes'
  BY <1>5, <1>6, <1>7 DEF AnalysisInv, AnalysisTypes
<1>9. PoolsHold'
  BY <1>5 DEF AnalysisInv, PoolsHold, FreePermits, FreeThreads, InStatus
<1>10. TasksAreAsked'
  <2>. SUFFICES ASSUME NEW c \in Batches, NEW s \in Symbols
                PROVE  /\ task[<<c, s>>] # "none" => s \in batch'[c].stale
                       /\ batch'[c].status \in {"none", "queued"} => task[<<c, s>>] = "none"
    BY <1>5 DEF TasksAreAsked
  <2>. QED BY <1>4, <1>6 DEF AnalysisInv, TasksAreAsked
<1>11. ASSUME NEW c \in Batches PROVE Accounts(c)'
  <2>1. CASE c # b
    BY <1>5, <1>6, <1>7, <2>1 DEF AnalysisInv, Accounts
  <2>2. CASE c = b
    <3>1. Distinct(r \o q) /\ \A s \in Symbols : task[<<b, s>>] = "done" <=> Occurs(s, r \o q)
      BY DEF AnalysisInv, Accounts, r, q
    <3>2. /\ Len(r2) \in Nat /\ Len(q2) \in Nat
          /\ Len(r \o q) = Len(r2) + Len(q2)
          /\ \A i \in 1..Len(r2) : (r \o q)[i] = r2[i] /\ r2[i] \in Symbols
      BY <1>2, ConcatProperties, LenProperties, ElementOfSeq
    <3>3. Distinct(r2)
      <4>1. \A i \in 1..Len(r2) : i \in 1..Len(r \o q)
        BY <3>2
      <4>. QED BY <3>1, <3>2, <4>1 DEF Distinct
    <3>4. ToSet(r2) \subseteq batch[b].stale
      <4>1. \A s \in Symbols : Occurs(s, r2) => Occurs(s, r \o q)
        <5>. SUFFICES ASSUME NEW s \in Symbols, NEW i \in 1..Len(r2), r2[i] = s PROVE Occurs(s, r \o q)
          BY DEF Occurs
        <5>1. i \in 1..Len(r \o q)
          BY <3>2
        <5>2. (r \o q)[i] = s
          BY <3>2
        <5>. QED BY <5>1, <5>2 DEF Occurs
      <4>2. \A s \in ToSet(r2) : s \in Symbols /\ Occurs(s, r2)
        BY <3>2 DEF ToSet, Occurs
      <4>. QED BY <3>1, <4>1, <4>2 DEF AnalysisInv, TasksAreAsked
    <3>5. IsFiniteSet(batch[b].stale)
      BY AnalysisAssumption, FS_Subset DEF AnalysisInv, AnalysisTypes, BatchRecord
    <3>6. Cardinality(ToSet(r2)) = Len(r2)
      BY <1>2, <3>3, DistinctCount
    <3>7. st = "done" => ToSet(r2) = batch[b].stale
      BY <1>2, <1>3, <3>4, <3>5, <3>6, FS_Subset
    <3>. QED BY <1>2, <1>5, <1>6, <1>7, <2>2, <3>1, <3>7 DEF Accounts
  <2>. QED BY <2>1, <2>2
<1>12. StreamSendsAll'
  <2>. SUFFICES ASSUME NEW c \in Batches, stream[c].complete
                PROVE  batch'[c].status = "done" /\ ToSet(stream[c].sent) = batch'[c].stale
    BY <1>5 DEF StreamSendsAll
  <2>1. batch[c].status = "done" /\ ToSet(stream[c].sent) = batch[c].stale
    BY DEF AnalysisInv, StreamSendsAll
  <2>2. c # b
    BY <1>1, <2>1
  <2>. QED BY <1>6, <2>1, <2>2
<1>13. (\A t \in history : task[t] = "done" /\ outcome[t] = "analysis")'
  BY <1>5 DEF AnalysisInv
<1>. QED BY <1>8, <1>9, <1>10, <1>11, <1>12, <1>13 DEF AnalysisInv

(* Streams read, and clients that go away leave the results where they are.*)
LEMMA ClientInv ==
  ASSUME AnalysisInv, NEW b \in Batches, OpenStream(b) \/ StreamStep(b) \/ Disconnect(b)
  PROVE  AnalysisInv'
<1>. USE DEF AnalysisInv
<1>1. CASE OpenStream(b) \/ StreamStep(b)
  <2>1. UNCHANGED <<batch, task, outcome, queued, known, orphans, cached, history>>
    BY <1>1 DEF OpenStream, StreamStep
  <2>2. /\ stream' \in [Batches -> StreamRecord]
        /\ \A c \in Batches : c # b => stream'[c] = stream[c]
        /\ \/ stream'[b].sent = stream[b].sent /\ stream'[b].complete = stream[b].complete
           \/ stream'[b].sent = batch[b].results /\ stream'[b].complete = (batch[b].status = "done")
    <3>1. CASE OpenStream(b)
      BY <3>1 DEF OpenStream, AnalysisTypes, StreamRecord
    <3>2. CASE StreamStep(b)
      <4>1. batch[b].results \in Seq(Symbols) /\ (batch[b].status = "done") \in BOOLEAN
        BY DEF AnalysisTypes, BatchRecord
      <4>. QED BY <3>2, <4>1 DEF StreamStep, AnalysisTypes, StreamRecord
    <3>. QED BY <1>1, <3>1, <3>2
  <2>3. AnalysisTypes'
    BY <2>1, <2>2 DEF AnalysisTypes
  <2>4. PoolsHold' /\ TasksAreAsked' /\ \A c \in Batches : Accounts(c)'
    BY <2>1 DEF PoolsHold, FreePermits, FreeThreads, InStatus, TasksAreAsked, Accounts
  <2>5. StreamSendsAll'
    <3>. SUFFICES ASSUME NEW c \in Batches, stream'[c].complete
                  PROVE  batch[c].status = "done" /\ ToSet(stream'[c].sent) = batch[c].stale
      BY <2>1 DEF StreamSendsAll
    <3>1. CASE stream'[c].sent = stream[c].sent /\ stream'[c].complete = stream[c].complete
      BY <3>1 DEF StreamSendsAll
    <3>2. CASE c = b /\ stream'[b].sent = batch[b].results
               /\ stream'[b].complete = (batch[b].status = "done")
      BY <3>2 DEF Accounts
    <3>. QED BY <2>2, <3>1, <3>2
  <2>. QED BY <2>1, <2>3, <2>4, <2>5
<1>2. CASE Disconnect(b)
  <2>1. /\ UNCHANGED <<task, outcome, queued, known, orphans, cached, history, stream>>
        /\ batch[b].status = "running"
    BY <1>2 DEF Disconnect
  <2>2. /\ batch' \in [Batches -> BatchRecord]
        /\ batch'[b].results = batch[b].results /\ batch'[b].stale = batch[b].stale
        /\ batch'[b].status = "dropped"
        /\ \A c \in Batches : c # b => batch'[c] = batch[c]
    BY <1>2 DEF Disconnect, AnalysisTypes, BatchRecord, BatchStates
  <2>3. AnalysisTypes'
    BY <2>1, <2>2 DEF AnalysisTypes
  <2>4. PoolsHold'
    BY <2>1 DEF PoolsHold, FreePermits, FreeThreads, InStatus
  <2>5. TasksAreAsked'
    <3>. SUFFICES ASSUME NEW c \in Batches, NEW s \in Symbols
                  PROVE  /\ task[<<c, s>>] # "none" => s \in batch'[c].stale
                         /\ batch'[c].status \in {"none", "queued"} => task[<<c, s>>] = "none"
      BY <2>1 DEF TasksAreAsked
    <3>. QED BY <2>2 DEF TasksAreAsked
  <2>6. ASSUME NEW c \in Batches PROVE Accounts(c)'
    <3>1. CASE c = b
      BY <2>1, <2>2, <3>1 DEF Accounts
    <3>2. CASE c # b
      BY <2>1, <2>2, <3>2 DEF Accounts
    <3>. QED BY <3>1, <3>2
  <2>7. StreamSendsAll'
    <3>. SUFFICES ASSUME NEW c \in Batches, stream[c].complete
                  PROVE  batch'[c].status = "done" /\ ToSet(stream[c].sent) = batch'[c].stale
      BY <2>1 DEF StreamSendsAll
    <3>1. batch[c].status = "done" /\ ToSet(stream[c].sent) = batch[c].stale
      BY DEF StreamSendsAll
    <3>2. c # b
      BY <2>1, <3>1
    <3>. QED BY <2>2, <3>1, <3>2
  <2>. QED BY <2>1, <2>3, <2>4, <2>5, <2>6, <2>7
<1>. QED BY <1>1, <1>2

(* What a step of one task does to the pools.                              *)
LEMMA PoolsAfterMove ==
  ASSUME AnalysisTypes, NEW t \in Tasks, NEW to \in TaskStates, task' = [task EXCEPT ![t] = to],
         orphans' \in Nat
  PROVE  /\ FreePermits \in Int /\ FreeThreads \in Int /\ orphans \in Nat
         /\ FreePermits' = FreePermits
              + One(task[t], Holding) - One(to, Holding)
         /\ FreeThreads' = FreeThreads + orphans - orphans'
              + One(task[t], InThread) - One(to, InThread)
<1>1. /\ task \in [Tasks -> TaskStates] /\ orphans \in Nat /\ Permits \in Nat /\ Threads \in Nat
      /\ Moved(task, task', t, to)
  BY AnalysisAssumption DEF AnalysisTypes, Moved
<1>2. /\ InStatus(Holding) = TasksIn(task, Holding) /\ InStatus(Holding)' = TasksIn(task', Holding)
      /\ InStatus(InThread) = TasksIn(task, InThread) /\ InStatus(InThread)' = TasksIn(task', InThread)
  BY DEF InStatus, TasksIn
<1>. DEFINE holding == Cardinality(TasksIn(task, Holding))
            inside  == Cardinality(TasksIn(task, InThread))
<1>3. /\ holding \in Nat /\ Cardinality(TasksIn(task', Holding)) \in Nat
      /\ One(task[t], Holding) \in {0, 1} /\ One(to, Holding) \in {0, 1}
      /\ Cardinality(TasksIn(task', Holding)) + One(task[t], Holding) = holding + One(to, Holding)
  BY <1>1, CountAfterMove
<1>4. /\ inside \in Nat /\ Cardinality(TasksIn(task', InThread)) \in Nat
      /\ One(task[t], InThread) \in {0, 1} /\ One(to, InThread) \in {0, 1}
      /\ Cardinality(TasksIn(task', InThread)) + One(task[t], InThread) = inside + One(to, InThread)
  BY <1>1, CountAfterMove
<1>5. /\ FreePermits = Permits - holding
      /\ FreePermits' = Permits - Cardinality(TasksIn(task', Holding))
      /\ FreeThreads = Threads - inside - orphans
      /\ FreeThreads' = Threads - Cardinality(TasksIn(task', InThread)) - orphans'
  BY <1>2 DEF FreePermits, FreeThreads
<1>. HIDE DEF holding, inside
<1>. QED BY <1>1, <1>3, <1>4, <1>5

LEMMA TaskStepInv ==
  ASSUME AnalysisInv, NEW t \in Tasks, TaskStep(t)
  PROVE  AnalysisInv'
<1>1. /\ "fetch_queued" \in Holding \ InThread /\ "ai_queued" \in Holding \ InThread
      /\ InThread = {"fetching", "asking"} /\ InThread \subseteq Holding
      /\ Asking = {"ai_queued", "asking"}
      /\ "waiting" \notin Holding /\ "done" \notin Holding
      /\ Holding \subseteq TaskStates /\ "done" \in TaskStates
      /\ "none" \notin Holding
  BY DEF Holding, Fetching, Asking, InThread, TaskStates
<1>2. AnalysisTypes /\ PoolsHold
  BY DEF AnalysisInv
<1>3. CASE TakePermit(t) \/ StartThread(t) \/ AgentsEnd(t)
  <2>1. PICK from, to : /\ task[t] = from /\ task' = [task EXCEPT ![t] = to]
                        /\ \/ from = "waiting" /\ to \in {"fetch_queued", "ai_queued"} /\ FreePermits > 0
                           \/ from = "fetch_queued" /\ to = "fetching" /\ FreeThreads > 0
                           \/ from = "ai_queued" /\ to = "asking" /\ FreeThreads > 0
                           \/ from = "fetching" /\ to = "ai_queued"
    BY <1>3 DEF TakePermit, StartThread, AgentsEnd, Move
  <2>2. UNCHANGED <<batch, outcome, queued, known, orphans, cached, history, stream>>
    BY <1>3 DEF TakePermit, StartThread, AgentsEnd
  <2>3. to \in Holding /\ task[t] \notin {"none", "done"}
    BY <1>1, <2>1
  <2>4. PoolsHold'
    <3>1. /\ FreePermits \in Int /\ FreeThreads \in Int /\ orphans \in Nat /\ orphans' = orphans
          /\ FreePermits' = FreePermits
               + One(task[t], Holding) - One(to, Holding)
          /\ FreeThreads' = FreeThreads + orphans - orphans'
               + One(task[t], InThread) - One(to, InThread)
      <4>1. to \in TaskStates /\ orphans' = orphans /\ orphans' \in Nat
        BY <1>1, <1>2, <2>2, <2>3 DEF AnalysisTypes
      <4>. QED BY <1>2, <2>1, <4>1, PoolsAfterMove
    <3>2. FreePermits >= 0 /\ FreeThreads >= 0
      BY <1>2 DEF PoolsHold
    <3>3. FreePermits' >= 0
      BY <1>1, <2>1, <3>1, <3>2 DEF One
    <3>4. FreeThreads' >= 0
      BY <1>1, <2>1, <3>1, <3>2 DEF One
    <3>. QED BY <3>3, <3>4 DEF PoolsHold
  <2>. QED BY <2>1, <2>2, <2>3, <2>4, TaskGoesOnInv
<1>4. CASE AgentRaises(t) \/ AiAnswers(t) \/ AiFails(t) \/ SaveFails(t) \/ AiTimesOut(t)
  <2>1. PICK result \in {"analysis", "unsaved"} :
          /\ Deliver(t, result)
          /\ history' = history \/ (history' = history \cup {t} /\ result = "analysis")
    BY <1>4 DEF AgentRaises, AiAnswers, AiFails, SaveFails, AiTimesOut
  <2>2. task[t] \in Holding
    BY <1>1, <1>4 DEF AgentRaises, AiAnswers, AiFails, SaveFails, AiTimesOut
  <2>3. \/ orphans' = orphans
        \/ orphans' = orphans + 1 /\ task[t] \in InThread
    BY <1>1, <1>4 DEF AgentRaises, AiAnswers, AiFails, SaveFails, AiTimesOut
  <2>4. UNCHANGED <<batch, known, stream>>
    BY <1>4 DEF AgentRaises, AiAnswers, AiFails, SaveFails, AiTimesOut
  <2>5. cached' \subseteq Symbols
    <3>1. t[2] \in Symbols /\ cached \subseteq Symbols
      BY <1>2 DEF Tasks, AnalysisTypes
    <3>. QED BY <1>4, <3>1 DEF AgentRaises, AiAnswers, AiFails, SaveFails, AiTimesOut
  <2>6. PoolsHold' /\ orphans' \in Nat
    <3>1. task' = [task EXCEPT ![t] = "done"]
      BY <2>1 DEF Deliver
    <3>2. orphans \in Nat /\ orphans' \in Nat
      BY <1>2, <2>3 DEF AnalysisTypes
    <3>3. /\ FreePermits \in Int /\ FreeThreads \in Int
          /\ FreePermits' = FreePermits
               + One(task[t], Holding) - One("done", Holding)
          /\ FreeThreads' = FreeThreads + orphans - orphans'
               + One(task[t], InThread) - One("done", InThread)
      BY <1>1, <1>2, <3>1, <3>2, PoolsAfterMove
    <3>4. "done" \notin InThread /\ FreePermits >= 0 /\ FreeThreads >= 0
      BY <1>1, <1>2 DEF PoolsHold
    <3>5. /\ One(task[t], Holding) = 1 /\ One("done", Holding) = 0 /\ One("done", InThread) = 0
          /\ One(task[t], InThread) \in {0, 1} /\ (task[t] \in InThread => One(task[t], InThread) = 1)
      BY <1>1, <2>2, <3>4 DEF One
    <3>6. FreePermits' >= 0
      BY <3>3, <3>4, <3>5
    <3>7. FreeThreads' >= 0
      BY <2>3, <3>2, <3>3, <3>4, <3>5
    <3>. QED BY <3>2, <3>6, <3>7 DEF PoolsHold
  <2>. QED BY <2>1, <2>2, <2>4, <2>5, <2>6, DeliverInv
<1>. QED BY <1>3, <1>4 DEF TaskStep

LEMMA AnalysisStepInv == AnalysisInv /\ [AnalysisNext]_analysisVars => AnalysisInv'
<1>. SUFFICES ASSUME AnalysisInv, [AnalysisNext]_analysisVars PROVE AnalysisInv'
  OBVIOUS
<1>1. ASSUME NEW b \in Batches, StartBatch(b) PROVE AnalysisInv'
  <2>. DEFINE stale  == Listed[b] \ cached
              state  == IF b \in Jobs THEN "queued" ELSE IF stale = {} THEN "done" ELSE "running"
              record == [stale |-> stale, results |-> <<>>, status |-> state]
              begun  == IF b \in Jobs THEN {} ELSE stale
  <2>1. batch[b] = Idle /\ batch[b].status = "none" /\ batch[b].results = <<>>
    BY <1>1 DEF StartBatch, Idle
  <2>2. \A s \in Symbols : task[<<b, s>>] = "none"
    BY <2>1 DEF AnalysisInv, TasksAreAsked
  <2>3. stale \subseteq Symbols /\ record \in BatchRecord
    BY AnalysisAssumption, EmptySeq DEF BatchRecord, BatchStates
  <2>4. known' \subseteq Batches
    BY <1>1 DEF StartBatch, CleanupJobs, AnalysisInv, AnalysisTypes
  <2>5. /\ batch' = [batch EXCEPT ![b] = record]
        /\ UNCHANGED <<outcome, queued, orphans, cached, history, stream>>
    BY <1>1 DEF StartBatch
  <2>6. task' = [t \in Tasks |-> IF t[1] = b /\ t[2] \in begun THEN "waiting" ELSE task[t]]
    BY <1>1 DEF StartBatch
  <2>7. /\ record.results = batch[b].results /\ record.status = state /\ record.stale = stale
    BY <2>1
  <2>8. /\ state = "done" => stale = {}
        /\ begun # {} => state = "running"
        /\ begun \subseteq stale /\ begun \in SUBSET Symbols
    BY <2>3
  <2>. HIDE DEF record, begun, state, stale
  <2>. QED BY <2>1, <2>2, <2>3, <2>4, <2>5, <2>6, <2>7, <2>8, BatchBeginsInv
<1>2. ASSUME NEW b \in Batches, RunJob(b) PROVE AnalysisInv'
  <2>. DEFINE stale  == batch[b].stale
              state  == IF b \notin known THEN "dropped" ELSE IF stale = {} THEN "done" ELSE "running"
              record == [batch[b] EXCEPT !.status = state]
              begun  == IF b \in known THEN stale ELSE {}
  <2>1. batch[b].status = "queued" /\ batch[b] \in BatchRecord
    BY <1>2 DEF RunJob, AnalysisInv, AnalysisTypes
  <2>2. \A s \in Symbols : task[<<b, s>>] = "none"
    BY <2>1 DEF AnalysisInv, TasksAreAsked
  <2>3. state \in BatchStates /\ stale \subseteq Symbols
    BY <2>1 DEF BatchRecord, BatchStates
  <2>4. batch' = [batch EXCEPT ![b] = record] /\ known' \subseteq Batches
    BY <1>2 DEF RunJob, AnalysisInv, AnalysisTypes
  <2>5. UNCHANGED <<outcome, queued, orphans, cached, history, stream>>
    BY <1>2 DEF RunJob
  <2>6. task' = [t \in Tasks |-> IF t[1] = b /\ t[2] \in begun THEN "waiting" ELSE task[t]]
    BY <1>2 DEF RunJob
  <2>7. /\ state = "done" => stale = {}
        /\ begun # {} => state = "running"
        /\ begun \subseteq stale /\ begun \in SUBSET Symbols
    BY <2>3
  <2>. HIDE DEF state, begun
  <2>8. /\ record \in BatchRecord
        /\ record.results = batch[b].results /\ record.status = state /\ record.stale = stale
    BY <2>1, <2>3 DEF BatchRecord
  <2>. HIDE DEF record, stale
  <2>. QED BY <2>1, <2>2, <2>4, <2>5, <2>6, <2>7, <2>8, BatchBeginsInv
<1>3. ASSUME NEW b \in Batches, TakeResult(b) \/ OpenStream(b) \/ StreamStep(b) \/ Disconnect(b)
      PROVE  AnalysisInv'
  BY <1>3, TakeResultInv, ClientInv
<1>4. ASSUME NEW t \in Tasks, TaskStep(t) PROVE AnalysisInv'
  BY <1>4, TaskStepInv
<1>5. CASE OrphanEnds
  <2>1. /\ orphans' \in Nat /\ orphans' = orphans - 1 /\ orphans \in Nat
        /\ UNCHANGED <<batch, task, outcome, queued, known, cached, history, stream>>
    BY <1>5 DEF OrphanEnds, AnalysisInv, AnalysisTypes
  <2>2. AnalysisTypes' /\ TasksAreAsked' /\ StreamSendsAll' /\ \A b \in Batches : Accounts(b)'
    BY <2>1 DEF AnalysisInv, AnalysisTypes, TasksAreAsked, StreamSendsAll, Accounts
  <2>3. PoolsHold'
    <3>1. InStatus(InThread) \in SUBSET Tasks
      BY DEF InStatus
    <3>2. Cardinality(InStatus(InThread)) \in Nat /\ Threads \in Nat
      BY <3>1, TasksAreFinite, AnalysisAssumption
    <3>3. InStatus(InThread)' = InStatus(InThread) /\ InStatus(Holding)' = InStatus(Holding)
      BY <2>1 DEF InStatus
    <3>. QED BY <2>1, <3>2, <3>3 DEF AnalysisInv, PoolsHold, FreePermits, FreeThreads
  <2>. QED BY <2>1, <2>2, <2>3 DEF AnalysisInv
<1>6. CASE UNCHANGED analysisVars
  BY <1>6 DEF analysisVars, AnalysisInv, AnalysisTypes, PoolsHold, FreePermits, FreeThreads,
     InStatus, TasksAreAsked, Accounts, StreamSendsAll
<1>. QED BY <1>1, <1>2, <1>3, <1>4, <1>5, <1>6 DEF AnalysisNext

(* Whatever becomes of agents, models, threads, saves, clients and jobs,   *)
(* every symbol a batch asks for is answered once, a batch that reports    *)
(* done and a stream that reports the end have them all, only delivered    *)
(* analyses are in the history, and permits and threads are never          *)
(* overdrawn: for any batches and symbols, permits and threads.            *)
THEOREM AnalysesAlwaysAccountedFor == AnalysisSpec => []AnalysesAreAccountedFor
<1>1. AnalysisInv => AnalysesAreAccountedFor
  <2>. SUFFICES ASSUME AnalysisInv PROVE AnalysesAreAccountedFor
    OBVIOUS
  <2>1. AnalysisTypeOK
    BY DEF AnalysisInv, AnalysisTypes, PoolsHold, AnalysisTypeOK, BatchRecord, BatchStates,
       StreamRecord, TaskStates
  <2>2. EverySymbolCountedOnce
    <3>. SUFFICES ASSUME NEW b \in Batches
                  PROVE  LET all == batch[b].results \o queued[b]
                         IN /\ Cardinality(ToSet(all)) = Len(all)
                            /\ ToSet(all) = {s \in Symbols : task[<<b, s>>] = "done"}
                            /\ batch[b].status = "done" => ToSet(batch[b].results) = batch[b].stale
      BY DEF EverySymbolCountedOnce
    <3>. DEFINE all == batch[b].results \o queued[b]
    <3>1. /\ Distinct(all) /\ \A s \in Symbols : task[<<b, s>>] = "done" <=> Occurs(s, all)
          /\ batch[b].status = "done" => ToSet(batch[b].results) = batch[b].stale
      BY DEF AnalysisInv, Accounts
    <3>2. all \in Seq(Symbols)
      <4>1. batch[b].results \in Seq(Symbols) /\ queued[b] \in Seq(Symbols)
        BY DEF AnalysisInv, AnalysisTypes, BatchRecord
      <4>. QED BY <4>1, ConcatProperties
    <3>. HIDE DEF all
    <3>3. Cardinality(ToSet(all)) = Len(all)
      BY <3>1, <3>2, DistinctCount
    <3>4. \A i \in 1..Len(all) : all[i] \in Symbols
      BY <3>2, ElementOfSeq
    <3>5. ToSet(all) = {s \in Symbols : task[<<b, s>>] = "done"}
      BY <3>1, <3>4 DEF ToSet, Occurs
    <3>. QED BY <3>1, <3>3, <3>5 DEF all
  <2>3. OnlyAnswersAreStored
    BY DEF AnalysisInv, OnlyAnswersAreStored
  <2>. QED BY <2>1, <2>2, <2>3 DEF AnalysisInv, AnalysesAreAccountedFor
<1>. QED BY <1>1, AnalysisInitInv, AnalysisStepInv, PTL DEF AnalysisSpec

-----------------------------------------------------------------------------
(* Asset ids: the registry.                                                *)

AssetIds == Nat \ {0}

IsRegistry(reg) ==
  /\ reg = [current |-> reg.current, former |-> reg.former]
  /\ reg.current \in [Spellings -> Nat]
  /\ reg.former \in [Spellings -> SUBSET AssetIds]
  /\ \A s \in Spellings : IsFiniteSet(reg.former[s])

\* The assets that hold a spelling, or have held it.
HeldIn(reg, s) == ({reg.current[s]} \union reg.former[s]) \ {0}

IsAttached(reg, a, s) == s \in Spellings /\ reg.current[s] \in {0, a}

LEMMA ShapeFields ==
  /\ ShapeIds \subseteq Nat
  /\ \A k \in ShapeIds : Shapes[k].symbol \in Spellings
<1>1. ShapeIds = 1..Len(Shapes)
  BY ShapesAssumption DEF ShapeIds
<1>2. Len(Shapes) \in Nat
  BY ShapesAssumption
<1>3. \A k \in 1..Len(Shapes) : Shapes[k].symbol \in Spellings
  <2>. TAKE k \in 1..Len(Shapes)
  <2>1. Shapes[k] \in [symbol : Spellings, currency : {Shapes[l].currency : l \in DOMAIN Shapes}]
    BY ShapesAssumption, ElementOfSeq
  <2>. QED BY <2>1
<1>. QED BY <1>1, <1>2, <1>3

LEMMA ClaimIs ==
  ASSUME NEW k \in ShapeIds
  PROVE  LET s == Shapes[k].symbol
         IN  \/ Claim(k) = <<s>> /\ s \in Spellings
             \/ Claim(k) = <<s, Canonical[s]>> /\ s \in Spellings /\ Canonical[s] \in Spellings
                /\ Canonical[s] # s
<1>1. Shapes[k].symbol \in Spellings
  BY ShapeFields
<1>. QED BY <1>1, CanonicalAssumption, BundledAssumption DEF Claim

\* Attaching a spelling that is free or the asset's own takes nothing from
\* anyone: what held a spelling has held it.
LEMMA AttachedKeeps ==
  ASSUME NEW reg, IsRegistry(reg), NEW a \in AssetIds, NEW s, IsAttached(reg, a, s)
  PROVE  /\ IsRegistry(Attached(reg, a, s))
         /\ \A t \in Spellings : HeldIn(reg, t) \subseteq HeldIn(Attached(reg, a, s), t)
         /\ \A t : IsAttached(reg, a, t) => IsAttached(Attached(reg, a, s), a, t)
<1>. DEFINE cur == [t \in Spellings |-> CASE t = s               -> a
                                          [] reg.current[t] = a  -> 0
                                          [] OTHER               -> reg.current[t]]
            old == [t \in Spellings |-> IF reg.current[t] = a
                                        THEN reg.former[t] \union {a}
                                        ELSE reg.former[t]]
            new == [current |-> cur, former |-> old]
<1>1. CASE reg.current[s] = a
  BY <1>1 DEF Attached
<1>2. CASE reg.current[s] # a
  <2>1. Attached(reg, a, s) = new
    BY <1>2 DEF Attached
  <2>2. \A t \in Spellings : reg.current[t] \in Nat /\ reg.former[t] \subseteq AssetIds /\ IsFiniteSet(reg.former[t])
    BY DEF IsRegistry
  <2>3. reg.current[s] = 0 /\ s \in Spellings
    BY <1>2 DEF IsAttached
  <2>4. \A t \in Spellings : /\ cur[t] \in Nat
                             /\ t = s => cur[t] = a
                             /\ t # s /\ reg.current[t] = a => cur[t] = 0
                             /\ t # s /\ reg.current[t] # a => cur[t] = reg.current[t]
    BY <1>2, <2>2, <2>3 DEF AssetIds
  <2>5. \A t \in Spellings : /\ old[t] \subseteq AssetIds /\ reg.former[t] \subseteq old[t]
                             /\ reg.current[t] = a => a \in old[t]
                             /\ IsFiniteSet(old[t])
    BY <2>2, FS_AddElement
  <2>6. cur \in [Spellings -> Nat] /\ old \in [Spellings -> SUBSET AssetIds]
    BY <2>4, <2>5
  <2>7. new.current = cur /\ new.former = old
    OBVIOUS
  <2>. HIDE DEF cur, old, new
  <2>8. IsRegistry(new)
    BY <2>5, <2>6, <2>7 DEF IsRegistry, new
  <2>9. \A t \in Spellings : HeldIn(reg, t) \subseteq HeldIn(new, t)
    BY <2>3, <2>4, <2>5, <2>7 DEF HeldIn
  <2>10. \A t : IsAttached(reg, a, t) => IsAttached(new, a, t)
    BY <2>4, <2>7 DEF IsAttached
  <2>. QED BY <2>1, <2>8, <2>9, <2>10
<1>. QED BY <1>1, <1>2

RegistryTyped == IsRegistry(Registered)

\* What is attached of a claim: its spellings before the first that is taken.
Attaching(a, ids) ==
  /\ ids = <<>> \/ (\E s \in Spellings : ids = <<s>>) \/ (\E s, t \in Spellings : ids = <<s, t>>)
  /\ \A i \in DOMAIN ids : current[ids[i]] \in {0, a}

LEMMA AttachAllKeeps ==
  ASSUME RegistryTyped, NEW a \in AssetIds, NEW ids, Attaching(a, ids), AttachAll(a, ids)
  PROVE  /\ RegistryTyped'
         /\ \A t \in Spellings : HeldIn(Registered, t) \subseteq HeldIn(Registered, t)'
<1>. DEFINE reg == AllAttached(a, ids)
<1>1. IsRegistry(reg) /\ \A t \in Spellings : HeldIn(Registered, t) \subseteq HeldIn(reg, t)
  <2>1. CASE ids = <<>>
    BY <2>1 DEF AllAttached, RegistryTyped
  <2>2. CASE \E s \in Spellings : ids = <<s>>
    <3>. PICK s \in Spellings : ids = <<s>>
      BY <2>2
    <3>1. reg = Attached(Registered, a, s)
      BY DEF AllAttached
    <3>2. IsAttached(Registered, a, s)
      BY DEF Attaching, IsAttached, Registered
    <3>. HIDE DEF reg
    <3>. QED BY <3>1, <3>2, AttachedKeeps DEF RegistryTyped
  <2>3. CASE \E s, t \in Spellings : ids = <<s, t>>
    <3>. PICK s \in Spellings, t \in Spellings : ids = <<s, t>>
      BY <2>3
    <3>. DEFINE one == Attached(Registered, a, s)
    <3>1. reg = Attached(one, a, t)
      BY DEF AllAttached
    <3>2. IsAttached(Registered, a, s) /\ IsAttached(Registered, a, t)
      BY DEF Attaching, IsAttached, Registered
    <3>. HIDE DEF reg
    <3>3. /\ IsRegistry(one) /\ IsAttached(one, a, t)
          /\ \A u \in Spellings : HeldIn(Registered, u) \subseteq HeldIn(one, u)
      BY <3>2, AttachedKeeps DEF RegistryTyped
    <3>. HIDE DEF one
    <3>4. IsRegistry(reg) /\ \A u \in Spellings : HeldIn(one, u) \subseteq HeldIn(reg, u)
      BY <3>1, <3>3, AttachedKeeps
    <3>. QED BY <3>3, <3>4
  <2>. QED BY <2>1, <2>2, <2>3 DEF Attaching
<1>2. current' = reg.current /\ former' = reg.former
  BY DEF AttachAll
<1>3. Registered' = [current |-> reg.current, former |-> reg.former]
  BY <1>2 DEF Registered
<1>. HIDE DEF reg
<1>4. Registered' = reg
  BY <1>1, <1>3 DEF IsRegistry
<1>5. IsRegistry(Registered')
  BY <1>1, <1>4
<1>6. \A t \in Spellings : HeldIn(Registered, t) \subseteq HeldIn(Registered', t)
  BY <1>1, <1>4
<1>. QED BY <1>5, <1>6 DEF RegistryTyped, HeldIn

LEMMA AttachableIs ==
  ASSUME NEW a, NEW k \in ShapeIds
  PROVE  Attaching(a, Attachable(a, Claim(k)))
<1>. DEFINE s == Shapes[k].symbol
            ids == Claim(k)
            conflicts == {i \in DOMAIN ids : current[ids[i]] \notin {0, a}}
<1>1. CASE ids = <<s>> /\ s \in Spellings
  <2>. HIDE DEF s
  <2>1. DOMAIN ids = {1} /\ ids[1] = s
    BY <1>1
  <2>2. CASE conflicts = {}
    BY <1>1, <2>1, <2>2 DEF Attachable, Attaching
  <2>3. CASE conflicts # {}
    <3>1. conflicts = {1}
      BY <2>1, <2>3
    <3>2. Min(conflicts) = 1
      BY <3>1 DEF Min
    <3>3. Attachable(a, ids) = <<>>
      <4>1. Attachable(a, ids) = SubSeq(ids, 1, Min(conflicts) - 1)
        BY <2>3 DEF Attachable
      <4>2. SubSeq(<<s>>, 1, 0) = <<>>
        OBVIOUS
      <4>. QED BY <1>1, <4>1, <4>2, <3>2
    <3>. QED BY <3>3 DEF Attaching
  <2>. QED BY <2>2, <2>3
<1>2. CASE ids = <<s, Canonical[s]>> /\ s \in Spellings /\ Canonical[s] \in Spellings
  <2>. DEFINE t == Canonical[s]
  <2>. HIDE DEF s, t
  <2>1. DOMAIN ids = {1, 2} /\ ids[1] = s /\ ids[2] = t /\ ids = <<s, t>>
    BY <1>2 DEF t
  <2>2. CASE conflicts = {}
    BY <1>2, <2>1, <2>2 DEF Attachable, Attaching, t
  <2>3. CASE 1 \in conflicts
    <3>2. Min(conflicts) = 1
      BY <2>1, <2>3 DEF Min
    <3>3. Attachable(a, ids) = <<>>
      <4>1. Attachable(a, ids) = SubSeq(ids, 1, Min(conflicts) - 1)
        BY <2>3 DEF Attachable
      <4>2. SubSeq(<<s, t>>, 1, 0) = <<>>
        OBVIOUS
      <4>. QED BY <2>1, <4>1, <4>2, <3>2
    <3>. QED BY <3>3 DEF Attaching
  <2>4. CASE conflicts # {} /\ 1 \notin conflicts
    <3>1. conflicts = {2}
      BY <2>1, <2>4
    <3>2. Min(conflicts) = 2
      BY <3>1 DEF Min
    <3>3. Attachable(a, ids) = <<s>>
      <4>1. Attachable(a, ids) = SubSeq(ids, 1, Min(conflicts) - 1)
        BY <2>4 DEF Attachable
      <4>2. SubSeq(<<s, t>>, 1, 1) = <<s>>
        <5>. DEFINE one == SubSeq(<<s, t>>, 1, 1)
        <5>1. one \in Seq({s, t}) /\ <<s>> \in Seq({s, t})
          OBVIOUS
        <5>2. Len(one) = 1 /\ one[1] = s /\ Len(<<s>>) = 1 /\ <<s>>[1] = s
          OBVIOUS
        <5>3. \A i \in 1..1 : i = 1
          OBVIOUS
        <5>. HIDE DEF one
        <5>4. one = <<s>>
          BY <5>1, <5>2, <5>3, SeqEqual
        <5>. QED BY <5>4 DEF one
      <4>. QED BY <2>1, <4>1, <4>2, <3>2
    <3>4. current[s] \in {0, a}
      BY <2>1, <2>4
    <3>. QED BY <1>2, <3>3, <3>4 DEF Attaching
  <2>. QED BY <2>2, <2>3, <2>4
<1>. QED BY <1>1, <1>2, ClaimIs

-----------------------------------------------------------------------------
(* Asset ids: rows, plans and the cache.                                   *)

AssetRecords == [symbol : Spellings, currency : {Shapes[k].currency : k \in DOMAIN Shapes}]
RowRecords == [shape : ShapeIds, portfolio : LedgerPortfolios, asset : Nat, misplanned : BOOLEAN]

RowsTyped ==
  /\ DOMAIN rows \subseteq Nat \ {0} /\ IsFiniteSet(DOMAIN rows)
  /\ rows = [i \in DOMAIN rows |-> rows[i]]
  /\ \A i \in DOMAIN rows : rows[i] \in RowRecords

LabelsTyped == labels \in [Places -> [Spellings -> Nat]]

CacheFits ==
  /\ cache = [s \in Spellings |-> cache[s]]
  /\ \A s \in Spellings : cache[s] # Absent => cache[s] = 0 \/ cache[s] \in HeldIn(Registered, s)

\* What a running command has left to do is about assets that held the shape,
\* and a backfill's about rows of the shape, but for those known to be misplanned.
IsTask(r, kind) ==
  /\ r.shape \in ShapeIds
  /\ kind # "bootstrap" => r.asset \in EverHeld(r.shape)
  /\ kind = "backfill" =>
       \A i \in r.ids : i \in DOMAIN rows /\ ~rows[i].misplanned => rows[i].shape = r.shape

JobFits ==
  \/ job = NoJob
  \/ /\ job = [kind |-> job.kind, run |-> job.run, todo |-> job.todo]
     /\ job.kind \in {"bootstrap", "migration", "backfill"}
     /\ job.todo # {} /\ \A r \in job.todo : IsTask(r, job.kind)

IdentityInv ==
  /\ RegistryTyped
  /\ assets \in Seq(AssetRecords)
  /\ RowsTyped
  /\ LabelsTyped
  /\ IdsNameTheListing
  /\ CacheFits
  /\ JobFits

LEMMA RowFields ==
  ASSUME IdentityInv
  PROVE  /\ DOMAIN rows \subseteq Nat \ {0} /\ IsFiniteSet(DOMAIN rows)
         /\ \A i \in DOMAIN rows :
              /\ rows[i].shape \in ShapeIds /\ rows[i].portfolio \in LedgerPortfolios
              /\ rows[i].asset \in Nat /\ rows[i].misplanned \in BOOLEAN
              /\ rows[i] = [shape |-> rows[i].shape, portfolio |-> rows[i].portfolio,
                            asset |-> rows[i].asset, misplanned |-> rows[i].misplanned]
<1>1. DOMAIN rows \subseteq Nat \ {0} /\ IsFiniteSet(DOMAIN rows)
  BY DEF IdentityInv, RowsTyped
<1>2. \A i \in DOMAIN rows : rows[i] \in RowRecords
  BY DEF IdentityInv, RowsTyped
<1>. QED BY <1>1, <1>2 DEF RowRecords

LEMMA EverHeldIs ==
  ASSUME NEW k
  PROVE  EverHeld(k) = UNION {HeldIn(Registered, Claim(k)[i]) : i \in DOMAIN Claim(k)}
BY DEF EverHeld, HeldIn, Registered

LEMMA ClaimInSpellings ==
  ASSUME NEW k \in ShapeIds
  PROVE  /\ \A i \in DOMAIN Claim(k) : Claim(k)[i] \in Spellings
         /\ 1 \in DOMAIN Claim(k) /\ Claim(k)[1] = Shapes[k].symbol
         /\ DOMAIN Claim(k) \subseteq {1, 2}
<1>. DEFINE s == Shapes[k].symbol
            t == Canonical[s]
            ids == Claim(k)
<1>1. CASE ids = <<s>> /\ s \in Spellings
  <2>. HIDE DEF s, ids
  <2>1. DOMAIN ids = {1} /\ ids[1] = s
    BY <1>1
  <2>. QED BY <1>1, <2>1 DEF s, ids
<1>2. CASE ids = <<s, t>> /\ s \in Spellings /\ t \in Spellings
  <2>. HIDE DEF s, t, ids
  <2>1. DOMAIN ids = {1, 2} /\ ids[1] = s /\ ids[2] = t
    BY <1>2
  <2>. QED BY <1>2, <2>1 DEF s, ids
<1>. QED BY <1>1, <1>2, ClaimIs

\* Whom a lookup or a plan names has held one of the spellings.
LEMMA ResolvedHasHeld ==
  ASSUME RegistryTyped, NEW ids, \A i \in DOMAIN ids : ids[i] \in Spellings, NEW currency
  PROVE  LET a == Resolve(ids, currency).asset
         IN  a = 0 \/ a \in UNION {HeldIn(Registered, ids[i]) : i \in DOMAIN ids}
<1>. DEFINE C == UNION {Contributors(ids[i]) : i \in DOMAIN ids}
            H == UNION {HeldIn(Registered, ids[i]) : i \in DOMAIN ids}
            a == Resolve(ids, currency).asset
<1>1. C \subseteq H
  <2>1. \A s \in Spellings : Contributors(s) \subseteq HeldIn(Registered, s)
    BY DEF Contributors, HeldIn, RegistryTyped, IsRegistry, Registered, AssetIds
  <2>. QED BY <2>1
<1>2. a = 0 \/ (C # {} /\ a = CHOOSE x \in C : TRUE)
  BY DEF Resolve
<1>3. C # {} => (CHOOSE x \in C : TRUE) \in C
  OBVIOUS
<1>. HIDE DEF C, H, a
<1>. QED BY <1>1, <1>2, <1>3 DEF H, a

LEMMA AnswerHasHeld ==
  ASSUME IdentityInv, NEW s \in Spellings
  PROVE  Answer(s) = 0 \/ Answer(s) \in HeldIn(Registered, s)
<1>. DEFINE ids == <<s>>
<1>1. DOMAIN ids = {1} /\ ids[1] = s
  OBVIOUS
<1>. HIDE DEF ids
<1>2. \A i \in DOMAIN ids : ids[i] \in Spellings
  BY <1>1
<1>3. UNION {HeldIn(Registered, ids[i]) : i \in DOMAIN ids} = HeldIn(Registered, s)
  BY <1>1
<1>4. LET a == Resolve(ids, NoCurrency).asset
      IN  a = 0 \/ a \in UNION {HeldIn(Registered, ids[i]) : i \in DOMAIN ids}
  BY <1>2, ResolvedHasHeld DEF IdentityInv
<1>5. LET a == Resolve(ids, NoCurrency).asset IN a = 0 \/ a \in HeldIn(Registered, s)
  BY <1>3, <1>4
<1>. QED BY <1>5 DEF Answer, ids, IdentityInv, CacheFits

LEMMA ResolutionIsTask ==
  ASSUME IdentityInv, NEW k \in ShapeIds
  PROVE  /\ Resolution(k).shape = k
         /\ Resolution(k).asset = 0 \/ Resolution(k).asset \in EverHeld(k)
         /\ Resolution(k).ids = {i \in DOMAIN rows : rows[i].shape = k}
<1>1. LET a == Resolve(Claim(k), Shapes[k].currency).asset
      IN  a = 0 \/ a \in UNION {HeldIn(Registered, Claim(k)[i]) : i \in DOMAIN Claim(k)}
  BY ClaimInSpellings, ResolvedHasHeld DEF IdentityInv
<1>2. LET a == Resolve(Claim(k), Shapes[k].currency).asset IN a = 0 \/ a \in EverHeld(k)
  BY <1>1, EverHeldIs
<1>. QED BY <1>2 DEF Resolution

LEMMA PlanIsTasks ==
  ASSUME IdentityInv, NEW kind \in {"bootstrap", "migration", "backfill"}, NEW r \in Plan(kind)
  PROVE  IsTask(r, kind)
<1>1. RecordedShapes \subseteq ShapeIds
  BY RowFields DEF RecordedShapes
<1>2. ShapesToMint \subseteq ShapeIds
  BY <1>1 DEF ShapesToMint, UnknownShapes
<1>3. PICK k \in ShapeIds : r = Resolution(k) /\ (kind # "bootstrap" => r.asset # 0)
  BY <1>1, <1>2 DEF Plan
<1>. QED BY <1>3, ResolutionIsTask DEF IsTask

LEMMA StepIsTask ==
  ASSUME IdentityInv, job # NoJob
  PROVE  Step \in job.todo /\ IsTask(Step, job.kind)
<1>. DEFINE S == {r.shape : r \in job.todo}
<1>1. /\ job.todo # {} /\ \A r \in job.todo : IsTask(r, job.kind)
  BY DEF IdentityInv, JobFits
<1>2. S # {} /\ S \in SUBSET Nat
  <2>1. \A r \in job.todo : r.shape \in ShapeIds
    BY <1>1 DEF IsTask
  <2>2. \A r \in job.todo : r.shape \in Nat
    BY <2>1, ShapeFields
  <2>. QED BY <1>1, <2>2
<1>3. PICK n \in S : \A m \in S : n <= m
  BY <1>2, LeastNumber
<1>4. \E r \in job.todo : \A q \in job.todo : r.shape <= q.shape
  BY <1>3
<1>5. Step \in job.todo
  BY <1>4 DEF Step
<1>. QED BY <1>1, <1>5

-----------------------------------------------------------------------------
(* Asset ids: the steps.                                                   *)

\* What held a spelling goes on to have held it.
HeldGrows == \A s \in Spellings : HeldIn(Registered, s) \subseteq HeldIn(Registered, s)'

\* A row that was there keeps its shape; one that is new is misplanned, or the
\* running backfill has planned nothing else for its id.
RowsKeep ==
  \A i \in DOMAIN rows' :
    \/ /\ i \in DOMAIN rows
       /\ rows'[i].shape = rows[i].shape /\ rows'[i].misplanned = rows[i].misplanned
    \/ rows'[i].misplanned
    \/ ~Misplanned(i, rows'[i].shape)

\* No row of the portfolio that is cut over is removed.
LedgerGrows == \A i \in Ledger : i \in Ledger' /\ rows'[i].shape = rows[i].shape

LEMMA EverHeldGrows ==
  ASSUME HeldGrows, NEW k \in ShapeIds
  PROVE  EverHeld(k) \subseteq EverHeld(k)'
<1>1. EverHeld(k)' = UNION {HeldIn(Registered, Claim(k)[i])' : i \in DOMAIN Claim(k)}
  BY DEF EverHeld, HeldIn, Registered, Claim
<1>2. EverHeld(k) = UNION {HeldIn(Registered, Claim(k)[i]) : i \in DOMAIN Claim(k)}
  BY EverHeldIs
<1>3. \A i \in DOMAIN Claim(k) : HeldIn(Registered, Claim(k)[i]) \subseteq HeldIn(Registered, Claim(k)[i])'
  BY ClaimInSpellings DEF HeldGrows
<1>. QED BY <1>1, <1>2, <1>3

\* Nothing but the registry, and what is left to do, changes.
LEMMA TasksStay ==
  ASSUME HeldGrows, RowsKeep, NEW kind, NEW r, IsTask(r, kind),
         kind = "backfill" => job.kind = "backfill" /\ r \in job.todo
  PROVE  IsTask(r, kind)'
<1>1. EverHeld(r.shape) \subseteq EverHeld(r.shape)'
  BY EverHeldGrows DEF IsTask
<1>2. ASSUME kind = "backfill", NEW i \in r.ids, i \in DOMAIN rows', ~rows'[i].misplanned
      PROVE  rows'[i].shape = r.shape
  <2>1. CASE i \in DOMAIN rows /\ rows'[i].shape = rows[i].shape /\ rows'[i].misplanned = rows[i].misplanned
    BY <1>2, <2>1 DEF IsTask
  <2>2. CASE ~Misplanned(i, rows'[i].shape)
    BY <1>2, <2>2 DEF Misplanned
  <2>. QED BY <1>2, <2>1, <2>2 DEF RowsKeep
<1>. QED BY <1>1, <1>2 DEF IsTask

LEMMA JobStays ==
  ASSUME IdentityInv, HeldGrows, RowsKeep,
         job' = job \/ job' = NoJob \/ (job # NoJob /\ Proceed)
  PROVE  JobFits'
<1>1. JobFits
  BY DEF IdentityInv
<1>2. CASE job' = NoJob
  BY <1>2 DEF JobFits
<1>3. CASE job' = job /\ job # NoJob
  <2>1. /\ job = [kind |-> job.kind, run |-> job.run, todo |-> job.todo]
        /\ job.kind \in {"bootstrap", "migration", "backfill"}
        /\ job.todo # {} /\ \A r \in job.todo : IsTask(r, job.kind)
    BY <1>1, <1>3 DEF JobFits
  <2>2. \A r \in job.todo : IsTask(r, job.kind)'
    BY <2>1, <1>3, TasksStay DEF IsTask
  <2>. QED BY <1>3, <2>1, <2>2 DEF JobFits
<1>4. CASE job # NoJob /\ Proceed /\ job' # NoJob
  <2>. PICK kind, id, rest : kind = job.kind /\ id = job.run /\ rest = job.todo \ {Step}
    OBVIOUS
  <2>1. /\ job = [kind |-> kind, run |-> id, todo |-> job.todo]
        /\ kind \in {"bootstrap", "migration", "backfill"}
        /\ \A r \in job.todo : IsTask(r, kind)
    BY <1>1, <1>4 DEF JobFits
  <2>2. job' = [job EXCEPT !.todo = rest] /\ job.todo # {Step}
    BY <1>4 DEF Proceed
  <2>3. rest # {} /\ rest \subseteq job.todo
    BY <1>4, <2>2, StepIsTask
  <2>4. job' = [kind |-> kind, run |-> id, todo |-> rest]
    BY <2>1, <2>2
  <2>5. \A r \in rest : IsTask(r, kind)'
    BY <2>1, <2>3, TasksStay
  <2>6. job'.kind = kind /\ job'.run = id /\ job'.todo = rest
    BY <2>4
  <2>7. \A r \in rest : IsTask(r, job.kind)'
    BY <2>5, <2>6 DEF IsTask
  <2>8. JobFits'
    BY <2>1, <2>3, <2>4, <2>6, <2>7 DEF JobFits
  <2>. QED BY <2>8
<1>. QED BY <1>2, <1>3, <1>4

\* A step of the registry: the rows and the cache stay what they are.
LEMMA RegistryStep ==
  ASSUME IdentityInv, RegistryTyped', HeldGrows, assets' \in Seq(AssetRecords),
         ledger' = ledger, cache' = cache,
         job' = job \/ job' = NoJob \/ (job # NoJob /\ Proceed)
  PROVE  IdentityInv'
<1>0. rows' = rows /\ labels' = labels
  BY DEF ledger
<1>1. RowsKeep
  BY <1>0 DEF RowsKeep
<1>2. JobFits'
  BY <1>1, JobStays
<1>3. CacheFits'
  BY DEF IdentityInv, CacheFits, HeldGrows
<1>4. RowsNameTheListing'
  <2>. SUFFICES ASSUME NEW i \in DOMAIN rows, rows[i].asset # 0, ~rows[i].misplanned
       PROVE  rows[i].asset \in EverHeld(rows[i].shape)'
    BY <1>0 DEF RowsNameTheListing
  <2>1. rows[i].asset \in EverHeld(rows[i].shape)
    BY DEF IdentityInv, IdsNameTheListing, RowsNameTheListing
  <2>2. PICK k \in ShapeIds : k = rows[i].shape
    BY RowFields
  <2>3. EverHeld(k) \subseteq EverHeld(k)'
    BY EverHeldGrows
  <2>4. EverHeld(rows[i].shape)' = EverHeld(k)'
    BY <1>0, <2>2
  <2>. QED BY <2>1, <2>2, <2>3, <2>4
<1>5. LabelsNameTheListing'
  <2>. SUFFICES ASSUME NEW p \in Places, NEW k \in ShapeIds, labels[p][Shapes[k].symbol] # 0
       PROVE  labels[p][Shapes[k].symbol] \in EverHeld(k)'
    BY <1>0 DEF LabelsNameTheListing
  <2>1. labels[p][Shapes[k].symbol] \in EverHeld(k)
    BY DEF IdentityInv, IdsNameTheListing, LabelsNameTheListing
  <2>. QED BY <2>1, EverHeldGrows
<1>6. RowsTyped' /\ LabelsTyped'
  BY <1>0 DEF IdentityInv, RowsTyped, LabelsTyped
<1>. QED BY <1>2, <1>3, <1>4, <1>5, <1>6 DEF IdentityInv, IdsNameTheListing

\* A step of the rows, the cache or a command: the registry stays what it is.
LEMMA NoRegistryStep ==
  ASSUME IdentityInv, registry' = registry
  PROVE  /\ HeldGrows /\ RegistryTyped' /\ assets' \in Seq(AssetRecords)
         /\ \A k : EverHeld(k)' = EverHeld(k)
         /\ \A s : HeldIn(Registered, s)' = HeldIn(Registered, s)
BY DEF registry, HeldGrows, RegistryTyped, Registered, HeldIn, EverHeld, IdentityInv, Claim

LEMMA HeldAreNumbers == ASSUME IdentityInv, NEW k \in ShapeIds PROVE EverHeld(k) \subseteq Nat
<1>1. RegistryTyped
  BY DEF IdentityInv
<1>2. \A s \in Spellings : HeldIn(Registered, s) \subseteq Nat
  BY <1>1 DEF RegistryTyped, IsRegistry, HeldIn, AssetIds
<1>. QED BY <1>2, EverHeldIs, ClaimInSpellings

\* Rows are written with ids of assets that have held their spellings, or none.
LEMMA RowsWritten ==
  ASSUME IdentityInv, registry' = registry, NEW ids, NEW a \in Nat, rows' = RowsWith(ids, a),
         \A i \in ids \intersect DOMAIN rows :
            ~rows[i].misplanned /\ a # 0 => a \in EverHeld(rows[i].shape)
  PROVE  RowsTyped' /\ RowsNameTheListing' /\ RowsKeep /\ LedgerGrows
<1>1. /\ rows' = [i \in DOMAIN rows |-> rows'[i]] /\ DOMAIN rows' = DOMAIN rows
      /\ \A i \in DOMAIN rows : rows'[i] = IF i \in ids THEN [rows[i] EXCEPT !.asset = a] ELSE rows[i]
  BY DEF RowsWith
<1>2. ASSUME NEW i \in DOMAIN rows
      PROVE  /\ rows'[i] \in RowRecords
             /\ rows'[i].shape = rows[i].shape /\ rows'[i].portfolio = rows[i].portfolio
             /\ rows'[i].misplanned = rows[i].misplanned
             /\ rows'[i].asset = IF i \in ids THEN a ELSE rows[i].asset
  <2>1. /\ rows[i].shape \in ShapeIds /\ rows[i].portfolio \in LedgerPortfolios
        /\ rows[i].asset \in Nat /\ rows[i].misplanned \in BOOLEAN
        /\ rows[i] = [shape |-> rows[i].shape, portfolio |-> rows[i].portfolio,
                      asset |-> rows[i].asset, misplanned |-> rows[i].misplanned]
    BY RowFields
  <2>2. rows'[i] = [shape |-> rows[i].shape, portfolio |-> rows[i].portfolio,
                    asset |-> IF i \in ids THEN a ELSE rows[i].asset, misplanned |-> rows[i].misplanned]
    BY <1>1, <2>1
  <2>. QED BY <2>1, <2>2 DEF RowRecords
<1>3. RowsTyped'
  BY <1>1, <1>2, RowFields DEF RowsTyped
<1>4. RowsNameTheListing'
  <2>. SUFFICES ASSUME NEW i \in DOMAIN rows, rows'[i].asset # 0, ~rows'[i].misplanned
       PROVE  rows'[i].asset \in EverHeld(rows'[i].shape)
    BY <1>1, NoRegistryStep DEF RowsNameTheListing
  <2>1. i \notin ids => (rows[i].asset # 0 /\ ~rows[i].misplanned => rows[i].asset \in EverHeld(rows[i].shape))
    BY DEF IdentityInv, IdsNameTheListing, RowsNameTheListing
  <2>. QED BY <1>2, <2>1
<1>5. RowsKeep
  BY <1>1, <1>2 DEF RowsKeep
<1>6. LedgerGrows
  BY <1>1, <1>2 DEF LedgerGrows, Ledger, RowsIn
<1>. QED BY <1>3, <1>4, <1>5, <1>6

\* Labels are written with ids of assets that have held their symbol, or none.
LEMMA LabelsWritten ==
  ASSUME IdentityInv, registry' = registry, labels' \in [Places -> [Spellings -> Nat]],
         \A p \in Places, k \in ShapeIds :
            LET s == Shapes[k].symbol
            IN  labels'[p][s] \in {labels[p][s], 0} \union EverHeld(k)
  PROVE  LabelsTyped' /\ LabelsNameTheListing'
<1>1. \A p \in Places, k \in ShapeIds :
        labels[p][Shapes[k].symbol] # 0 => labels[p][Shapes[k].symbol] \in EverHeld(k)
  BY DEF IdentityInv, IdsNameTheListing, LabelsNameTheListing
<1>2. \A p \in Places, k \in ShapeIds :
        labels'[p][Shapes[k].symbol] # 0 => labels'[p][Shapes[k].symbol] \in EverHeld(k)
  BY <1>1
<1>. QED BY <1>2, NoRegistryStep DEF LabelsTyped, LabelsNameTheListing

\* What holds of one shape of a symbol holds of the others.
LEMMA HeldBySymbol ==
  ASSUME NEW k \in ShapeIds, NEW l \in ShapeIds, Shapes[k].symbol = Shapes[l].symbol
  PROVE  EverHeld(k) = EverHeld(l)
<1>1. Claim(k) = Claim(l)
  BY DEF Claim
<1>. QED BY <1>1 DEF EverHeld

\* Of one symbol, at some places.
LEMMA LabelsAt ==
  ASSUME IdentityInv, NEW at, NEW k \in ShapeIds, NEW a \in EverHeld(k) \union {0},
         registry' = registry, labels' = LabelsWith(at, Shapes[k].symbol, a)
  PROVE  LabelsTyped' /\ LabelsNameTheListing'
<1>. DEFINE s == Shapes[k].symbol
<1>1. a \in Nat
  BY HeldAreNumbers
<1>2. labels \in [Places -> [Spellings -> Nat]]
  BY DEF IdentityInv, LabelsTyped
<1>3. \A p \in Places : \A t \in Spellings :
        labels'[p][t] = IF p \in at /\ t = s THEN a ELSE labels[p][t]
  BY DEF LabelsWith
<1>4. labels' \in [Places -> [Spellings -> Nat]]
  BY <1>1, <1>2 DEF LabelsWith
<1>5. ASSUME NEW p \in Places, NEW l \in ShapeIds
      PROVE  labels'[p][Shapes[l].symbol] \in {labels[p][Shapes[l].symbol], 0} \union EverHeld(l)
  <2>1. Shapes[l].symbol \in Spellings
    BY ShapeFields
  <2>2. Shapes[l].symbol = s => EverHeld(l) = EverHeld(k)
    BY HeldBySymbol
  <2>. QED BY <1>3, <2>1, <2>2
<1>. QED BY <1>4, <1>5, LabelsWritten

LEMMA IdentityInitially == IdentityInit => IdentityInv
<1>. SUFFICES ASSUME IdentityInit PROVE IdentityInv
  OBVIOUS
<1>1. RegistryTyped
  <2>1. \A s \in Spellings : former[s] = {}
    BY DEF IdentityInit
  <2>2. \A s \in Spellings : IsFiniteSet(former[s])
    BY <2>1, FS_EmptySet
  <2>. QED BY <2>2 DEF IdentityInit, RegistryTyped, IsRegistry, Registered
<1>2. assets \in Seq(AssetRecords)
  BY DEF IdentityInit
<1>3. DOMAIN rows = {} /\ rows = [i \in DOMAIN rows |-> rows[i]]
  BY DEF IdentityInit
<1>4. RowsTyped
  BY <1>3, FS_EmptySet DEF RowsTyped
<1>5. \A p \in Places, s \in Spellings : labels[p][s] = 0
  BY DEF IdentityInit, NoLabels
<1>6. LabelsTyped
  BY DEF IdentityInit, NoLabels, LabelsTyped
<1>7. RowsNameTheListing
  BY <1>3 DEF RowsNameTheListing
<1>8. LabelsNameTheListing
  BY <1>5, ShapeFields DEF LabelsNameTheListing
<1>9. CacheFits
  BY DEF IdentityInit, CacheFits
<1>10. JobFits
  BY DEF IdentityInit, JobFits
<1>. QED BY <1>1, <1>2, <1>4, <1>6, <1>7, <1>8, <1>9, <1>10 DEF IdentityInv, IdsNameTheListing

LEMMA MintKeeps ==
  ASSUME IdentityInv, NEW k \in ShapeIds, Mintable(Shapes[k].symbol),
         Mint(Shapes[k].symbol, Shapes[k].currency)
  PROVE  RegistryTyped' /\ HeldGrows /\ assets' \in Seq(AssetRecords)
<1>. DEFINE s == Shapes[k].symbol
            c == Shapes[k].currency
            new == [symbol |-> s, currency |-> c]
<1>1. s \in Spellings
  BY ShapeFields
<1>2. new \in AssetRecords
  BY <1>1 DEF AssetRecords, ShapeIds
<1>3. assets' = Append(assets, new) /\ AttachAll(Len(assets) + 1, <<s>>)
  BY DEF Mint
<1>. HIDE DEF s, new
<1>4. assets \in Seq(AssetRecords)
  BY DEF IdentityInv
<1>5. assets' \in Seq(AssetRecords) /\ Len(assets) + 1 \in AssetIds
  BY <1>2, <1>3, <1>4 DEF AssetIds
<1>6. current[s] = 0
  BY DEF Mintable, s
<1>7. DOMAIN <<s>> = {1} /\ <<s>>[1] = s
  OBVIOUS
<1>8. Attaching(Len(assets) + 1, <<s>>)
  BY <1>1, <1>6, <1>7 DEF Attaching
<1>. QED BY <1>3, <1>5, <1>8, AttachAllKeeps DEF IdentityInv, HeldGrows

LEMMA MintByHandKeeps == IdentityInv /\ MintByHand => IdentityInv'
<1>. SUFFICES ASSUME IdentityInv, MintByHand PROVE IdentityInv'
  OBVIOUS
<1>1. PICK k \in ShapeIds : /\ Mintable(Shapes[k].symbol)
                            /\ Mint(Shapes[k].symbol, Shapes[k].currency)
                            /\ UNCHANGED <<ledger, cache, commands, replay>>
  BY DEF MintByHand
<1>. QED BY <1>1, MintKeeps, RegistryStep DEF commands

LEMMA AttachByHandKeeps == IdentityInv /\ AttachByHand => IdentityInv'
<1>. SUFFICES ASSUME IdentityInv, AttachByHand PROVE IdentityInv'
  OBVIOUS
<1>1. PICK a \in DOMAIN assets, s \in Spellings :
        /\ current[s] = 0 /\ AttachAll(a, <<s>>)
        /\ UNCHANGED <<assets, ledger, cache, commands, replay>>
  BY DEF AttachByHand
<1>2. assets \in Seq(AssetRecords)
  BY DEF IdentityInv
<1>3. a \in AssetIds
  BY <1>2 DEF AssetIds
<1>4. DOMAIN <<s>> = {1} /\ <<s>>[1] = s
  OBVIOUS
<1>5. Attaching(a, <<s>>)
  BY <1>1, <1>4 DEF Attaching
<1>6. RegistryTyped' /\ HeldGrows
  BY <1>1, <1>3, <1>5, AttachAllKeeps DEF IdentityInv, HeldGrows
<1>. QED BY <1>1, <1>2, <1>6, RegistryStep DEF commands

LEMMA BootstrapStepKeeps == IdentityInv /\ BootstrapStep => IdentityInv'
<1>. SUFFICES ASSUME IdentityInv, BootstrapStep PROVE IdentityInv'
  OBVIOUS
<1>1. job # NoJob
  BY DEF BootstrapStep, NoJob
<1>2. Step.shape \in ShapeIds
  BY <1>1, StepIsTask DEF IsTask
<1>3. /\ Mintable(Shapes[Step.shape].symbol)
      /\ Mint(Shapes[Step.shape].symbol, Shapes[Step.shape].currency)
      /\ Proceed /\ ledger' = ledger /\ cache' = cache
  BY DEF BootstrapStep
<1>. QED BY <1>1, <1>2, <1>3, MintKeeps, RegistryStep

LEMMA MigrationStepKeeps == IdentityInv /\ MigrationStep => IdentityInv'
<1>. SUFFICES ASSUME IdentityInv, MigrationStep PROVE IdentityInv'
  OBVIOUS
<1>1. job # NoJob /\ job.kind = "migration"
  BY DEF MigrationStep, NoJob
<1>2. PICK a, k : a = Step.asset /\ k = Step.shape
  OBVIOUS
<1>3. k \in ShapeIds /\ a \in EverHeld(k)
  BY <1>1, <1>2, StepIsTask DEF IsTask
<1>4. AttachAll(a, Attachable(a, Claim(k))) /\ Proceed /\ ledger' = ledger /\ cache' = cache /\ assets' = assets
  BY <1>2 DEF MigrationStep
<1>5. a \in AssetIds
  <2>1. \A s \in Spellings : HeldIn(Registered, s) \subseteq AssetIds
    BY DEF IdentityInv, RegistryTyped, IsRegistry, HeldIn, AssetIds
  <2>. QED BY <1>3, <2>1, EverHeldIs, ClaimInSpellings
<1>6. Attaching(a, Attachable(a, Claim(k)))
  BY <1>3, AttachableIs
<1>7. RegistryTyped' /\ HeldGrows
  BY <1>4, <1>5, <1>6, AttachAllKeeps DEF IdentityInv, HeldGrows
<1>8. assets' \in Seq(AssetRecords)
  BY <1>4 DEF IdentityInv
<1>. QED BY <1>1, <1>4, <1>7, <1>8, RegistryStep

\* Neither rows nor labels are written.
LedgerStays == rows' = rows /\ labels' = labels

LEMMA LedgerStaysFits ==
  ASSUME IdentityInv, registry' = registry, LedgerStays
  PROVE  RowsTyped' /\ LabelsTyped' /\ IdsNameTheListing'
<1>1. RowsTyped' /\ LabelsTyped'
  BY DEF IdentityInv, RowsTyped, LabelsTyped, LedgerStays
<1>2. RowsNameTheListing'
  BY NoRegistryStep DEF IdentityInv, IdsNameTheListing, RowsNameTheListing, LedgerStays
<1>3. LabelsNameTheListing'
  BY NoRegistryStep DEF IdentityInv, IdsNameTheListing, LabelsNameTheListing, LedgerStays
<1>. QED BY <1>1, <1>2, <1>3 DEF IdsNameTheListing

\* What the cache is told is what the registry answers.
LEMMA CacheStep ==
  ASSUME IdentityInv, registry' = registry, NEW s \in Spellings,
         NEW answer \in {Answer(s), Absent}, cache' = [cache EXCEPT ![s] = answer]
  PROVE  CacheFits'
<1>1. cache = [t \in Spellings |-> cache[t]]
  BY DEF IdentityInv, CacheFits
<1>2. cache' = [t \in Spellings |-> cache'[t]] /\ \A t \in Spellings : cache'[t] = IF t = s THEN answer ELSE cache[t]
  BY <1>1
<1>3. answer # Absent => answer = 0 \/ answer \in HeldIn(Registered, s)
  BY AnswerHasHeld
<1>4. \A t \in Spellings : cache'[t] # Absent => cache'[t] = 0 \/ cache'[t] \in HeldIn(Registered, t)
  BY <1>2, <1>3 DEF IdentityInv, CacheFits
<1>5. \A t : HeldIn(Registered, t)' = HeldIn(Registered, t)
  BY NoRegistryStep
<1>. QED BY <1>2, <1>4, <1>5 DEF CacheFits

LEMMA LookUpKeeps ==
  ASSUME IdentityInv, NEW s \in Spellings, LookUp(s) \/ CacheExpires(s)
  PROVE  IdentityInv'
<1>1. registry' = registry /\ rows' = rows /\ labels' = labels /\ job' = job
  BY DEF LookUp, CacheExpires, commands, ledger
<1>2. \E answer \in {Answer(s), Absent} : cache' = [cache EXCEPT ![s] = answer]
  BY DEF LookUp, CacheExpires
<1>3. CacheFits'
  BY <1>1, <1>2, CacheStep
<1>4. RowsKeep
  BY <1>1 DEF RowsKeep
<1>5. JobFits'
  BY <1>1, <1>4, JobStays, NoRegistryStep
<1>6. LedgerStays
  BY <1>1 DEF LedgerStays
<1>. QED BY <1>1, <1>3, <1>5, <1>6, LedgerStaysFits, NoRegistryStep DEF IdentityInv

LEMMA NextIdIsNew ==
  ASSUME IdentityInv
  PROVE  NextId \in Nat \ {0} /\ NextId \notin DOMAIN rows
<1>. DEFINE S == DOMAIN rows \union {0}
<1>1. S \in SUBSET Nat /\ IsFiniteSet(S) /\ S # {}
  <2>1. IsFiniteSet({0}) /\ IsFiniteSet(DOMAIN rows)
    BY RowFields, FS_Singleton
  <2>2. IsFiniteSet(S)
    BY <2>1, FS_Union
  <2>. QED BY <2>2, RowFields
<1>2. Max(S) \in S /\ \A i \in S : Max(S) >= i
  BY <1>1, MaxOfFinite
<1>3. NextId = Max(S) + 1
  BY DEF NextId
<1>. HIDE DEF S
<1>4. NextId \in Nat \ {0} /\ NextId \notin S
  <2>. PICK m : m = Max(S)
    OBVIOUS
  <2>1. m \in Nat /\ NextId = m + 1 /\ \A i \in S : i \in Nat /\ m >= i
    BY <1>1, <1>2, <1>3
  <2>. QED BY <2>1
<1>. QED BY <1>4 DEF S

LEMMA RecordTransactionKeeps ==
  ASSUME IdentityInv, NEW p \in LedgerPortfolios, NEW k \in ShapeIds, NEW raises \in BOOLEAN,
         RecordTransaction(p, k, raises)
  PROVE  IdentityInv' /\ LedgerGrows
<1>. PICK s, asset, n, wrong :
       /\ s = Shapes[k].symbol /\ asset = (IF raises THEN 0 ELSE Answer(s))
       /\ n = NextId /\ wrong = Misplanned(n, k)
  OBVIOUS
<1>. PICK row : row = [shape |-> k, portfolio |-> p, asset |-> asset, misplanned |-> wrong]
  OBVIOUS
<1>1. /\ registry' = registry /\ job' = job
      /\ rows' = [i \in DOMAIN rows \union {n} |-> IF i = n THEN row ELSE rows[i]]
      /\ labels' = IF labels[p][s] = 0 THEN [labels EXCEPT ![p][s] = asset] ELSE labels
  BY DEF RecordTransaction, commands
<1>2. s \in Spellings
  BY ShapeFields
<1>3. CacheFits'
  <2>1. CASE raises
    BY <1>1, <2>1, NoRegistryStep DEF RecordTransaction, CacheFits, IdentityInv
  <2>2. CASE ~raises
    BY <1>1, <1>2, <2>2, CacheStep DEF RecordTransaction
  <2>. QED BY <2>1, <2>2
<1>4. asset = 0 \/ asset \in HeldIn(Registered, s)
  BY <1>2, AnswerHasHeld
<1>5. asset = 0 \/ asset \in EverHeld(k)
  BY <1>4, EverHeldIs, ClaimInSpellings
<1>6. asset \in Nat
  BY <1>5, HeldAreNumbers
<1>7. n \in Nat \ {0} /\ n \notin DOMAIN rows
  BY NextIdIsNew
<1>8. wrong \in BOOLEAN
  BY DEF Misplanned
<1>9. /\ row \in RowRecords /\ row.shape = k /\ row.portfolio = p
      /\ row.asset = asset /\ row.misplanned = wrong
  BY <1>6, <1>8 DEF RowRecords
<1>10. /\ DOMAIN rows' = DOMAIN rows \union {n} /\ rows' = [i \in DOMAIN rows' |-> rows'[i]]
       /\ rows'[n] = row /\ \A i \in DOMAIN rows : rows'[i] = rows[i]
  BY <1>1, <1>7
<1>11. RowsTyped'
  <2>1. IsFiniteSet(DOMAIN rows')
    BY <1>10, RowFields, FS_AddElement
  <2>2. DOMAIN rows' \subseteq Nat \ {0}
    BY <1>7, <1>10, RowFields
  <2>3. \A i \in DOMAIN rows' : rows'[i] \in RowRecords
    BY <1>9, <1>10 DEF IdentityInv, RowsTyped
  <2>. QED BY <1>10, <2>1, <2>2, <2>3 DEF RowsTyped
<1>12. RowsKeep
  <2>1. wrong \/ ~Misplanned(n, k)
    OBVIOUS
  <2>. QED BY <1>9, <1>10, <2>1 DEF RowsKeep
<1>13. LedgerGrows
  BY <1>10 DEF LedgerGrows, Ledger, RowsIn
<1>14. RowsNameTheListing'
  <2>. SUFFICES ASSUME NEW i \in DOMAIN rows', rows'[i].asset # 0, ~rows'[i].misplanned
       PROVE  rows'[i].asset \in EverHeld(rows'[i].shape)
    BY NoRegistryStep, <1>1 DEF RowsNameTheListing
  <2>1. CASE i \in DOMAIN rows
    BY <2>1, <1>10 DEF IdentityInv, IdsNameTheListing, RowsNameTheListing
  <2>2. CASE i = n
    BY <1>5, <1>9, <1>10, <2>2
  <2>. QED BY <1>10, <2>1, <2>2
<1>15. LabelsTyped' /\ LabelsNameTheListing'
  <2>1. labels \in [Places -> [Spellings -> Nat]] /\ p \in Places
    BY DEF IdentityInv, LabelsTyped, Places
  <2>2. labels' \in [Places -> [Spellings -> Nat]]
    BY <1>1, <1>2, <1>6, <2>1
  <2>3. ASSUME NEW q \in Places, NEW l \in ShapeIds
        PROVE  labels'[q][Shapes[l].symbol] \in {labels[q][Shapes[l].symbol], 0} \union EverHeld(l)
    <3>1. \A t \in Spellings : labels'[q][t] = labels[q][t] \/ (t = s /\ labels'[q][t] = asset)
      BY <1>1, <1>2, <2>1
    <3>2. Shapes[l].symbol \in Spellings
      BY ShapeFields
    <3>3. Shapes[l].symbol = s => EverHeld(l) = EverHeld(k)
      BY HeldBySymbol
    <3>. QED BY <1>5, <3>1, <3>2, <3>3
  <2>. QED BY <1>1, <2>2, <2>3, LabelsWritten
<1>16. JobFits'
  BY <1>1, <1>12, JobStays, NoRegistryStep
<1>. QED BY <1>1, <1>3, <1>11, <1>13, <1>14, <1>15, <1>16, NoRegistryStep DEF IdentityInv, IdsNameTheListing

LEMMA DeleteOtherKeeps == IdentityInv /\ DeleteOther => IdentityInv' /\ LedgerGrows
<1>. SUFFICES ASSUME IdentityInv, DeleteOther PROVE IdentityInv' /\ LedgerGrows
  OBVIOUS
<1>. PICK gone : gone = RowsIn("other")
  OBVIOUS
<1>1. /\ registry' = registry /\ cache' = cache /\ job' = job
      /\ rows' = [i \in DOMAIN rows \ gone |-> rows[i]]
      /\ labels' = [labels EXCEPT !["other"] = NoLabels]
  BY DEF DeleteOther, commands
<1>2. /\ DOMAIN rows' \subseteq DOMAIN rows /\ rows' = [i \in DOMAIN rows' |-> rows'[i]]
      /\ \A i \in DOMAIN rows' : rows'[i] = rows[i]
  BY <1>1
<1>3. RowsTyped'
  BY <1>2, RowFields, FS_Subset DEF IdentityInv, RowsTyped
<1>4. RowsKeep
  BY <1>2 DEF RowsKeep
<1>5. LedgerGrows
  BY <1>1 DEF LedgerGrows, Ledger, RowsIn
<1>6. RowsNameTheListing'
  BY <1>1, <1>2, NoRegistryStep DEF RowsNameTheListing, IdentityInv, IdsNameTheListing
<1>7. LabelsTyped' /\ LabelsNameTheListing'
  <2>1. labels \in [Places -> [Spellings -> Nat]] /\ NoLabels \in [Spellings -> Nat]
    BY DEF IdentityInv, LabelsTyped, NoLabels
  <2>2. labels' \in [Places -> [Spellings -> Nat]]
    BY <1>1, <2>1
  <2>3. \A p \in Places, t \in Spellings : labels'[p][t] \in {labels[p][t], 0}
    BY <1>1, <2>1 DEF NoLabels
  <2>. QED BY <1>1, <2>2, <2>3, ShapeFields, LabelsWritten
<1>8. JobFits'
  BY <1>1, <1>4, JobStays, NoRegistryStep
<1>9. CacheFits'
  BY <1>1, NoRegistryStep DEF CacheFits, IdentityInv
<1>. QED BY <1>1, <1>3, <1>5, <1>6, <1>7, <1>8, <1>9, NoRegistryStep DEF IdentityInv, IdsNameTheListing

LEMMA StartCommandKeeps ==
  ASSUME IdentityInv, NEW kind \in {"bootstrap", "migration", "backfill"}, NEW id,
         StartCommand(kind, id)
  PROVE  IdentityInv'
<1>1. PICK todo : todo = Plan(kind)
  OBVIOUS
<1>2. todo # {} /\ \A r \in todo : IsTask(r, kind)
  BY <1>1, PlanIsTasks DEF StartCommand
<1>3. /\ job' = [kind |-> kind, run |-> id, todo |-> todo] /\ registry' = registry
      /\ rows' = rows /\ labels' = labels /\ cache' = cache
  BY <1>1 DEF StartCommand, ledger
<1>4. job'.kind = kind /\ job'.run = id /\ job'.todo = todo
  BY <1>3
<1>5. \A r \in todo : IsTask(r, kind)'
  BY <1>2, <1>3, NoRegistryStep DEF IsTask
<1>6. \A r \in todo : IsTask(r, job.kind)'
  BY <1>4, <1>5 DEF IsTask
<1>7. JobFits'
  BY <1>2, <1>3, <1>4, <1>6 DEF JobFits
<1>8. CacheFits'
  BY <1>3, NoRegistryStep DEF CacheFits, IdentityInv
<1>9. RowsTyped' /\ LabelsTyped' /\ IdsNameTheListing'
  BY <1>3, LedgerStaysFits DEF LedgerStays
<1>. QED BY <1>3, <1>7, <1>8, <1>9, NoRegistryStep DEF IdentityInv

LEMMA BackfillStepKeeps == IdentityInv /\ BackfillStep => IdentityInv' /\ LedgerGrows
<1>. SUFFICES ASSUME IdentityInv, BackfillStep PROVE IdentityInv' /\ LedgerGrows
  OBVIOUS
<1>1. job # NoJob /\ job.kind = "backfill" /\ Proceed /\ registry' = registry /\ cache' = cache
  BY DEF BackfillStep, NoJob
<1>2. PICK a, k, touched, at :
        /\ a = Step.asset /\ k = Step.shape /\ touched = {i \in RowsOf(Step) : rows[i].asset # a}
        /\ rows' = RowsWith(touched, a) /\ labels' = LabelsWith(at, Shapes[k].symbol, a)
  BY DEF BackfillStep
<1>3. IsTask(Step, "backfill")
  BY <1>1, StepIsTask
<1>4. k \in ShapeIds /\ a \in EverHeld(k)
  BY <1>2, <1>3 DEF IsTask
<1>5. a \in Nat
  BY <1>4, HeldAreNumbers
<1>6. \A i \in touched \intersect DOMAIN rows : ~rows[i].misplanned => a \in EverHeld(rows[i].shape)
  BY <1>2, <1>3, <1>4 DEF IsTask, RowsOf
<1>7. RowsTyped' /\ RowsNameTheListing' /\ RowsKeep /\ LedgerGrows
  BY <1>1, <1>2, <1>5, <1>6, RowsWritten
<1>8. LabelsTyped' /\ LabelsNameTheListing'
  BY <1>1, <1>2, <1>4, LabelsAt
<1>9. JobFits'
  BY <1>1, <1>7, JobStays, NoRegistryStep
<1>10. CacheFits'
  BY <1>1, NoRegistryStep DEF CacheFits, IdentityInv
<1>. QED BY <1>1, <1>7, <1>8, <1>9, <1>10, NoRegistryStep DEF IdentityInv, IdsNameTheListing

LEMMA RollBackKeeps ==
  ASSUME IdentityInv, NEW id, RollBack(id)
  PROVE  IdentityInv' /\ LedgerGrows
<1>1. registry' = registry /\ cache' = cache /\ job' = job
  BY DEF RollBack, commands
<1>2. PICK back : rows' = RowsWith(back, 0)
  BY DEF RollBack
<1>3. \E zero \in [Places -> [Spellings -> BOOLEAN]] :
        labels' = [p \in Places |-> [s \in Spellings |-> IF zero[p][s] THEN 0 ELSE labels[p][s]]]
  <2>. DEFINE Undone(p, s) ==
                \E b \in {c \in backfills : c.run = id} :
                   p \in b.places /\ Shapes[b.shape].symbol = s /\ labels[p][s] = b.asset
              z == [p \in Places |-> [s \in Spellings |-> Undone(p, s)]]
  <2>1. labels' = [p \in Places |-> [s \in Spellings |-> IF Undone(p, s) THEN 0 ELSE labels[p][s]]]
    BY DEF RollBack
  <2>2. \A p \in Places, s \in Spellings : Undone(p, s) \in BOOLEAN
    OBVIOUS
  <2>. HIDE DEF Undone
  <2>3. z \in [Places -> [Spellings -> BOOLEAN]]
    BY <2>2
  <2>4. \A p \in Places, s \in Spellings : z[p][s] = Undone(p, s)
    OBVIOUS
  <2>5. labels' = [p \in Places |-> [s \in Spellings |-> IF z[p][s] THEN 0 ELSE labels[p][s]]]
    BY <2>1, <2>4
  <2>. QED BY <2>3, <2>5
<1>4. RowsTyped' /\ RowsNameTheListing' /\ RowsKeep /\ LedgerGrows
  BY <1>1, <1>2, RowsWritten
<1>5. LabelsTyped' /\ LabelsNameTheListing'
  <2>1. labels \in [Places -> [Spellings -> Nat]]
    BY DEF IdentityInv, LabelsTyped
  <2>2. labels' \in [Places -> [Spellings -> Nat]]
    BY <1>3, <2>1
  <2>3. \A p \in Places, t \in Spellings : labels'[p][t] \in {labels[p][t], 0}
    BY <1>3
  <2>. QED BY <1>1, <2>2, <2>3, ShapeFields, LabelsWritten
<1>6. JobFits'
  BY <1>1, <1>4, JobStays, NoRegistryStep
<1>7. CacheFits'
  BY <1>1, NoRegistryStep DEF CacheFits, IdentityInv
<1>. QED BY <1>1, <1>4, <1>5, <1>6, <1>7, NoRegistryStep DEF IdentityInv, IdsNameTheListing

LEMMA OtherStepKeeps ==
  ASSUME IdentityInv, PassOver \/ Killed \/ Cutover \/ identityVars' = identityVars
  PROVE  IdentityInv'
<1>1. registry' = registry /\ ledger' = ledger /\ cache' = cache /\ (job' = job \/ job' = NoJob \/ (job # NoJob /\ Proceed))
  BY DEF PassOver, Killed, Cutover, CaptureBaseline, StartCutover, CommitCutover, AbandonCutover,
         RollBackCutover, identityVars, commands, ledger
<1>. QED BY <1>1, NoRegistryStep, RegistryStep

LEMMA IdentityNextKeeps == IdentityInv /\ [IdentityNext]_identityVars => IdentityInv'
<1>. SUFFICES ASSUME IdentityInv, [IdentityNext]_identityVars PROVE IdentityInv'
  OBVIOUS
<1>1. CASE ByHand
  BY <1>1, MintByHandKeeps, AttachByHandKeeps DEF ByHand
<1>2. CASE Web
  BY <1>2, LookUpKeeps, RecordTransactionKeeps, DeleteOtherKeeps DEF Web
<1>3. CASE Command
  BY <1>3, StartCommandKeeps, BootstrapStepKeeps, MigrationStepKeeps, BackfillStepKeeps, RollBackKeeps,
     OtherStepKeeps DEF Command
<1>4. CASE Cutover \/ identityVars' = identityVars
  BY <1>4, OtherStepKeeps
<1>. QED BY <1>1, <1>2, <1>3, <1>4 DEF IdentityNext

\* An asset id of a row, a holding or an entry of the watchlist is one of an
\* asset that has held a spelling of it, however bootstrap, migration, backfill
\* and its rollback race with the handlers, the cache, deleted portfolios, kills
\* and edits by hand; but for rows that were given the id of a deleted one while a
\* backfill that had planned for that one was running.
THEOREM IdsAlwaysNameTheListing == IdentitySpec => []IdsNameTheListing
<1>1. IdentityInv /\ [IdentityNext]_identityVars => IdentityInv'
  BY IdentityNextKeeps
<1>2. IdentityInv => IdsNameTheListing
  BY DEF IdentityInv
<1>. QED BY IdentityInitially, <1>1, <1>2, PTL DEF IdentitySpec

-----------------------------------------------------------------------------
(* Replay by asset id: what a cutover compares.                            *)

Reported(prefer, s) == {p \in Positions(prefer) : ReportSymbol(p) = s}
LastOf(prefer, s) ==
  CHOOSE p \in Reported(prefer, s) : \A q \in Reported(prefer, s) : Min(q) <= Min(p)
ReportSymbols(prefer) == {ReportSymbol(p) : p \in Positions(prefer)}

LEMMA HoldingsTruthIs ==
  ASSUME NEW prefer
  PROVE  HoldingsTruth(prefer) = [s \in ReportSymbols(prefer) |-> Cardinality(LastOf(prefer, s))]
BY DEF HoldingsTruth, ReportSymbols, LastOf, Reported

\* Positions are a partition of the rows.
LEMMA PositionsPartition ==
  ASSUME NEW prefer
  PROVE  /\ \A p \in Positions(prefer) : p # {} /\ p \subseteq Ledger
         /\ \A i \in Ledger : \E p \in Positions(prefer) : i \in p
         /\ \A p, q \in Positions(prefer) : p \intersect q # {} => p = q
<1>. DEFINE Alike(j) == {i \in Ledger : Key(i, prefer) = Key(j, prefer)}
<1>1. Positions(prefer) = {Alike(j) : j \in Ledger}
  BY DEF Positions
<1>2. \A j \in Ledger : j \in Alike(j) /\ Alike(j) \subseteq Ledger
  OBVIOUS
<1>3. \A h, j \in Ledger : Alike(h) \intersect Alike(j) # {} => Alike(h) = Alike(j)
  OBVIOUS
<1>. HIDE DEF Alike
<1>. QED BY <1>1, <1>2, <1>3

LEMMA LedgerOfRows == Ledger \subseteq DOMAIN rows
BY DEF Ledger, RowsIn

LEMMA MinOfRows ==
  ASSUME IdentityInv, NEW p \in SUBSET Ledger, p # {}
  PROVE  Min(p) \in p /\ Min(p) \in Ledger /\ Min(p) \in Nat
<1>1. p \in SUBSET Nat
  BY RowFields, LedgerOfRows
<1>2. Min(p) \in p
  BY <1>1, MinOfNumbers
<1>. QED BY <1>1, <1>2

LEMMA LastIsReported ==
  ASSUME IdentityInv, NEW prefer, NEW s \in ReportSymbols(prefer)
  PROVE  /\ LastOf(prefer, s) \in Positions(prefer) /\ ReportSymbol(LastOf(prefer, s)) = s
<1>. DEFINE R == Reported(prefer, s)
            Firsts == {Min(p) : p \in R}
<1>1. R # {} /\ \A p \in R : p \in Positions(prefer) /\ ReportSymbol(p) = s
  BY DEF ReportSymbols, Reported
<1>2. \A p \in R : Min(p) \in Ledger /\ Min(p) \in Nat
  BY <1>1, PositionsPartition, MinOfRows
<1>3. Firsts \subseteq Ledger /\ Firsts \in SUBSET Nat /\ Firsts # {} /\ IsFiniteSet(Firsts)
  <2>1. Firsts \subseteq DOMAIN rows
    BY <1>2, LedgerOfRows
  <2>. QED BY <1>1, <1>2, <2>1, RowFields, FS_Subset
<1>. HIDE DEF R
<1>4. Max(Firsts) \in Firsts /\ \A k \in Firsts : Max(Firsts) >= k
  BY <1>3, MaxOfFinite
<1>5. PICK p \in R : Min(p) = Max(Firsts)
  BY <1>4
<1>6. \A q \in R : Min(q) <= Min(p)
  <2>. TAKE q \in R
  <2>1. Max(Firsts) >= Min(q) /\ Min(q) \in Nat /\ Min(p) \in Nat
    BY <1>2, <1>4
  <2>. QED BY <2>1, <1>5
<1>7. LastOf(prefer, s) \in R
  BY <1>6 DEF LastOf, R
<1>. QED BY <1>1, <1>7

\* By symbol, no holding hides another.
LEMMA SymbolsAreWhole ==
  ASSUME IdentityInv, NEW p \in Positions(FALSE), NEW q \in Positions(FALSE),
         ReportSymbol(p) = ReportSymbol(q)
  PROVE  p = q
<1>1. Min(p) \in p /\ Min(q) \in q
  BY PositionsPartition, MinOfRows
<1>2. \A i : Key(i, FALSE) = [symbol |-> CanonicalOf(i)]
  BY DEF Key
<1>3. PICK i \in Ledger, j \in Ledger :
        /\ p = {h \in Ledger : Key(h, FALSE) = Key(i, FALSE)}
        /\ q = {h \in Ledger : Key(h, FALSE) = Key(j, FALSE)}
  BY DEF Positions
<1>4. Key(Min(p), FALSE) = Key(i, FALSE) /\ Key(Min(q), FALSE) = Key(j, FALSE)
  BY <1>1, <1>3
<1>5. Key(Min(p), FALSE) = Key(Min(q), FALSE)
  BY <1>2 DEF ReportSymbol
<1>. QED BY <1>3, <1>4, <1>5

\* With one report by symbol and by asset id there is no room for a holding
\* that the report leaves out.
LEMMA IdenticalHidesNothing ==
  ASSUME IdentityInv, HoldingsTruth(FALSE) = HoldingsTruth(TRUE),
         NEW p \in Positions(TRUE), NEW q \in Positions(TRUE), ReportSymbol(p) = ReportSymbol(q)
  PROVE  p = q
<1>. DEFINE S == ReportSymbols(FALSE)
            D == Ledger
            F == [s \in S |-> LastOf(FALSE, s)]
            G == [s \in S |-> LastOf(TRUE, s)]
<1>0. \A r \in Positions(TRUE) : \E i \in D : i \in r
  <2>. TAKE r \in Positions(TRUE)
  <2>1. r # {} /\ r \subseteq D
    BY PositionsPartition
  <2>. QED BY <2>1
<1>1. S = ReportSymbols(TRUE) /\ \A s \in S : Cardinality(F[s]) = Cardinality(G[s])
  <2>1. HoldingsTruth(FALSE) = [s \in ReportSymbols(FALSE) |-> Cardinality(LastOf(FALSE, s))]
    BY HoldingsTruthIs
  <2>2. HoldingsTruth(TRUE) = [s \in ReportSymbols(TRUE) |-> Cardinality(LastOf(TRUE, s))]
    BY HoldingsTruthIs
  <2>3. S = ReportSymbols(TRUE)
    BY <2>1, <2>2, Zenon
  <2>4. \A s \in S : Cardinality(LastOf(FALSE, s)) = Cardinality(LastOf(TRUE, s))
    BY <2>1, <2>2, <2>3, Zenon
  <2>. QED BY <2>3, <2>4
<1>2. IsFiniteSet(D)
  BY RowFields, LedgerOfRows, FS_Subset
<1>3. IsFiniteSet(S)
  <2>. DEFINE C == {CanonicalOf(i) : i \in D}
              c == [i \in D |-> CanonicalOf(i)]
  <2>1. c \in Surjection(D, C)
    BY DEF Surjection
  <2>2. IsFiniteSet(C)
    BY <1>2, <2>1, FS_Surjection
  <2>3. \A r \in Positions(FALSE) : ReportSymbol(r) \in C
    BY PositionsPartition, MinOfRows DEF ReportSymbol
  <2>4. S \subseteq C
    BY <2>3 DEF ReportSymbols
  <2>. QED BY <2>2, <2>4, FS_Subset
<1>4. \A s \in S : F[s] \in Positions(FALSE) /\ ReportSymbol(F[s]) = s
  BY LastIsReported
<1>5. \A s \in S : G[s] \in Positions(TRUE) /\ ReportSymbol(G[s]) = s
  BY <1>1, LastIsReported
<1>. HIDE DEF S, F, G
<1>6. \A s \in S : F[s] \subseteq D /\ G[s] \subseteq D
  BY <1>4, <1>5, PositionsPartition
<1>7. \A s, t \in S : s # t => F[s] \intersect F[t] = {}
  BY <1>4, PositionsPartition
<1>8. \A s, t \in S : s # t => G[s] \intersect G[t] = {}
  <2>. SUFFICES ASSUME NEW s \in S, NEW t \in S, s # t PROVE G[s] \intersect G[t] = {}
    OBVIOUS
  <2>1. G[s] \in Positions(TRUE) /\ G[t] \in Positions(TRUE) /\ G[s] # G[t]
    BY <1>5
  <2>. QED BY <2>1, PositionsPartition
<1>9. \A i \in D : \E s \in S : i \in F[s]
  <2>. TAKE i \in D
  <2>. DEFINE r == {h \in D : Key(h, FALSE) = Key(i, FALSE)}
  <2>1. i \in r /\ r \in Positions(FALSE)
    BY DEF Positions
  <2>. HIDE DEF r
  <2>2. ReportSymbol(r) \in S
    BY <2>1 DEF S, ReportSymbols
  <2>3. F[ReportSymbol(r)] = r
    BY <1>4, <2>1, <2>2, SymbolsAreWhole
  <2>. QED BY <2>1, <2>2, <2>3
<1>. HIDE DEF D
<1>11. \A i \in D : \E s \in S : i \in G[s]
  <2>1. \A s \in S : F[s] \subseteq D /\ G[s] \subseteq D /\ Cardinality(F[s]) = Cardinality(G[s])
    BY <1>1, <1>6
  <2>2. \A s, t \in S : s # t => F[s] \intersect F[t] = {} /\ G[s] \intersect G[t] = {}
    BY <1>7, <1>8
  <2>. QED BY <1>2, <1>3, <1>9, <2>1, <2>2, SameCountsCover
<1>12. ASSUME NEW r \in Positions(TRUE) PROVE G[ReportSymbol(r)] = r
  <2>1. PICK i \in D : i \in r
    BY <1>0, Zenon
  <2>2. PICK s \in S : i \in G[s]
    BY <1>11
  <2>3. G[s] = r
    <3>1. G[s] \in Positions(TRUE) /\ i \in G[s] \intersect r
      BY <1>5, <2>1, <2>2
    <3>. QED BY <3>1, PositionsPartition
  <2>. QED BY <1>5, <2>3
<1>. QED BY <1>12

\* A baseline captured of the rows that there are, by symbol, is their replay's.
BaselineFits ==
  /\ native \in BOOLEAN
  /\ baseline # NoBaseline =>
       /\ baseline.ids \subseteq Ledger
       /\ baseline.ids = Ledger /\ ~baseline.native => baseline.truth = HoldingsTruth(FALSE)

\* What a running cutover has decided of the rows it replayed.
CutoverFits ==
  cutover # NoCutover =>
    /\ \A p \in cutover.positions : p # {} /\ p \subseteq Ledger
    /\ cutover.identical /\ cutover.legacyBaseline =>
         \A p, q \in cutover.positions : ReportSymbol(p) = ReportSymbol(q) => p = q

CutoverInv == IdentityInv /\ BaselineFits /\ CutoverFits

LEMMA IdentityNextGrows == IdentityInv /\ [IdentityNext]_identityVars => LedgerGrows
<1>. SUFFICES ASSUME IdentityInv, [IdentityNext]_identityVars PROVE LedgerGrows
  OBVIOUS
<1>1. CASE \E p \in LedgerPortfolios, k \in ShapeIds, raises \in BOOLEAN : RecordTransaction(p, k, raises)
  BY <1>1, RecordTransactionKeeps
<1>5. CASE DeleteOther
  BY <1>5, DeleteOtherKeeps
<1>2. CASE BackfillStep
  BY <1>2, BackfillStepKeeps
<1>3. CASE \E id \in RunIds : RollBack(id)
  BY <1>3, RollBackKeeps
<1>4. CASE rows' = rows
  BY <1>4 DEF LedgerGrows, Ledger, RowsIn
<1>. QED BY <1>1, <1>2, <1>3, <1>4, <1>5 DEF ledger, IdentityNext, ByHand, Web, Command, Cutover, identityVars, MintByHand,
        AttachByHand, LookUp, CacheExpires, StartCommand, BootstrapStep, MigrationStep, PassOver, Killed,
        CaptureBaseline, StartCutover, CommitCutover, AbandonCutover, RollBackCutover

LEMMA SymbolsStay ==
  ASSUME IdentityInv, LedgerGrows
  PROVE  /\ \A i \in Ledger : CanonicalOf(i)' = CanonicalOf(i)
         /\ \A p \in SUBSET Ledger : p # {} => ReportSymbol(p)' = ReportSymbol(p)
<1>1. \A i \in Ledger : CanonicalOf(i)' = CanonicalOf(i)
  BY DEF CanonicalOf, LedgerGrows
<1>2. ASSUME NEW p \in SUBSET Ledger, p # {}
      PROVE  ReportSymbol(p)' = ReportSymbol(p)
  <2>1. PICK m : m = Min(p)
    OBVIOUS
  <2>2. m \in Ledger
    BY <1>2, <2>1, MinOfRows
  <2>3. CanonicalOf(m)' = CanonicalOf(m)
    BY <1>1, <2>2
  <2>. QED BY <2>1, <2>3 DEF ReportSymbol
<1>. QED BY <1>1, <1>2

LEMMA TruthStays ==
  ASSUME IdentityInv, LedgerGrows, Ledger' = Ledger
  PROVE  HoldingsTruth(FALSE)' = HoldingsTruth(FALSE)
<1>. DEFINE P == Positions(FALSE)
<1>1. P' = P
  <2>1. \A i \in Ledger : Key(i, FALSE)' = Key(i, FALSE)
    BY SymbolsStay DEF Key
  <2>2. PICK L : L = Ledger /\ L = Ledger'
    OBVIOUS
  <2>3. Positions(FALSE) = {{i \in L : Key(i, FALSE) = Key(j, FALSE)} : j \in L}
    BY <2>2 DEF Positions
  <2>4. Positions(FALSE)' = {{i \in L : Key(i, FALSE)' = Key(j, FALSE)'} : j \in L}
    BY <2>2 DEF Positions
  <2>5. \A i \in L : Key(i, FALSE)' = Key(i, FALSE)
    BY <2>1, <2>2
  <2>6. \A j \in L : {i \in L : Key(i, FALSE)' = Key(j, FALSE)'} = {i \in L : Key(i, FALSE) = Key(j, FALSE)}
    BY <2>5
  <2>. DEFINE Then(j) == {i \in L : Key(i, FALSE)' = Key(j, FALSE)'}
              Now(j)  == {i \in L : Key(i, FALSE) = Key(j, FALSE)}
  <2>7. \A j \in L : Then(j) = Now(j)
    BY <2>6
  <2>8. Positions(FALSE) = {Now(j) : j \in L} /\ Positions(FALSE)' = {Then(j) : j \in L}
    BY <2>3, <2>4
  <2>. HIDE DEF Then, Now
  <2>. QED BY <2>7, <2>8
<1>2. \A p \in P : ReportSymbol(p)' = ReportSymbol(p)
  BY PositionsPartition, SymbolsStay
<1>3. \A s : Reported(FALSE, s)' = Reported(FALSE, s)
  BY <1>1, <1>2 DEF Reported
<1>4. \A s : LastOf(FALSE, s)' = LastOf(FALSE, s)
  <2>. TAKE s
  <2>1. PICK R : R = Reported(FALSE, s) /\ R = Reported(FALSE, s)'
    BY <1>3
  <2>2. LastOf(FALSE, s) = CHOOSE p \in R : \A q \in R : Min(q) <= Min(p)
    BY <2>1 DEF LastOf
  <2>3. LastOf(FALSE, s)' = CHOOSE p \in R : \A q \in R : Min(q) <= Min(p)
    BY <2>1 DEF LastOf
  <2>. QED BY <2>2, <2>3
<1>5. ReportSymbols(FALSE)' = ReportSymbols(FALSE)
  BY <1>1, <1>2 DEF ReportSymbols
<1>6. HoldingsTruth(FALSE) = [s \in ReportSymbols(FALSE) |-> Cardinality(LastOf(FALSE, s))]
  BY HoldingsTruthIs
<1>7. HoldingsTruth(FALSE)' = [s \in ReportSymbols(FALSE)' |-> Cardinality(LastOf(FALSE, s)')]
  BY DEF HoldingsTruth, ReportSymbols, LastOf, Reported
<1>. QED BY <1>4, <1>5, <1>6, <1>7

LEMMA BaselineStays ==
  ASSUME CutoverInv, IdentityInv', LedgerGrows, baseline' = baseline, native' \in BOOLEAN
  PROVE  BaselineFits'
<1>. SUFFICES ASSUME baseline # NoBaseline
     PROVE  /\ baseline.ids \subseteq Ledger'
            /\ baseline.ids = Ledger' /\ ~baseline.native => baseline.truth = HoldingsTruth(FALSE)'
  BY DEF BaselineFits
<1>1. /\ baseline.ids \subseteq Ledger
      /\ baseline.ids = Ledger /\ ~baseline.native => baseline.truth = HoldingsTruth(FALSE)
  BY DEF CutoverInv, BaselineFits
<1>2. Ledger \subseteq Ledger'
  BY DEF LedgerGrows
<1>3. Ledger' = Ledger => HoldingsTruth(FALSE)' = HoldingsTruth(FALSE)
  BY TruthStays DEF CutoverInv
<1>. QED BY <1>1, <1>2, <1>3

LEMMA CutoverStays ==
  ASSUME CutoverInv, LedgerGrows, cutover' = cutover
  PROVE  CutoverFits'
<1>. SUFFICES ASSUME cutover # NoCutover
     PROVE  /\ \A p \in cutover.positions : p # {} /\ p \subseteq Ledger'
            /\ cutover.identical /\ cutover.legacyBaseline =>
                 \A p, q \in cutover.positions : ReportSymbol(p)' = ReportSymbol(q)' => p = q
  BY DEF CutoverFits
<1>1. \A p \in cutover.positions : p # {} /\ p \subseteq Ledger
  BY DEF CutoverInv, CutoverFits
<1>2. \A p \in cutover.positions : ReportSymbol(p)' = ReportSymbol(p)
  BY <1>1, SymbolsStay DEF CutoverInv
<1>3. \A p \in cutover.positions : p # {} /\ p \subseteq Ledger'
  BY <1>1 DEF LedgerGrows
<1>4. cutover.identical /\ cutover.legacyBaseline =>
        \A p, q \in cutover.positions : ReportSymbol(p) = ReportSymbol(q) => p = q
  BY DEF CutoverInv, CutoverFits
<1>. QED BY <1>2, <1>3, <1>4

LEMMA CaptureKeeps ==
  ASSUME CutoverInv, IdentityInv', CaptureBaseline
  PROVE  CutoverInv'
<1>1. rows' = rows /\ native' = native /\ cutover' = cutover /\ baseline' = Baseline
  BY DEF CaptureBaseline, ledger
<1>2. LedgerGrows /\ Ledger' = Ledger
  BY <1>1 DEF LedgerGrows, Ledger, RowsIn
<1>3. CutoverFits'
  BY <1>1, <1>2, CutoverStays
<1>4. native \in BOOLEAN
  BY DEF CutoverInv, BaselineFits
<1>5. baseline'.ids = Ledger /\ baseline'.native = native /\ baseline'.truth = HoldingsTruth(native)
  BY <1>1 DEF Baseline
<1>6. ~native => HoldingsTruth(native) = HoldingsTruth(FALSE)
  BY <1>4
<1>7. HoldingsTruth(FALSE)' = HoldingsTruth(FALSE)
  BY <1>1, <1>2, TruthStays DEF CutoverInv
<1>8. /\ native' \in BOOLEAN /\ baseline'.ids \subseteq Ledger'
      /\ ~baseline'.native => baseline'.truth = HoldingsTruth(FALSE)'
  <2>1. native' \in BOOLEAN /\ baseline'.ids \subseteq Ledger'
    BY <1>1, <1>2, <1>4, <1>5
  <2>2. ~baseline'.native => baseline'.truth = HoldingsTruth(FALSE)'
    BY <1>5, <1>6, <1>7
  <2>. QED BY <2>1, <2>2
<1>9. BaselineFits'
  BY <1>8 DEF BaselineFits
<1>. QED BY <1>3, <1>9 DEF CutoverInv

LEMMA StartCutoverKeeps ==
  ASSUME CutoverInv, IdentityInv', StartCutover
  PROVE  CutoverInv'
<1>1. rows' = rows /\ native' = native /\ baseline' = baseline /\ baseline # NoBaseline
  BY DEF StartCutover, ledger
<1>2. LedgerGrows /\ Ledger' = Ledger
  BY <1>1 DEF LedgerGrows, Ledger, RowsIn
<1>3. BaselineFits'
  BY <1>1, <1>2, BaselineStays DEF CutoverInv, BaselineFits
<1>4. /\ cutover'.positions = Positions(TRUE)
      /\ cutover'.identical => baseline.truth = HoldingsTruth(TRUE)
      /\ cutover'.legacyBaseline => baseline.ids = Ledger /\ ~baseline.native
  BY DEF StartCutover, IsBitIdentical
<1>5. \A p \in Positions(TRUE) : p # {} /\ p \subseteq Ledger
  BY PositionsPartition
<1>6. ASSUME cutover'.identical, cutover'.legacyBaseline,
             NEW p \in Positions(TRUE), NEW q \in Positions(TRUE), ReportSymbol(p) = ReportSymbol(q)
      PROVE  p = q
  <2>1. baseline.truth = HoldingsTruth(FALSE)
    BY <1>1, <1>4, <1>6 DEF CutoverInv, BaselineFits
  <2>2. HoldingsTruth(FALSE) = HoldingsTruth(TRUE)
    BY <1>4, <1>6, <2>1
  <2>. QED BY <1>6, <2>2, IdenticalHidesNothing DEF CutoverInv
<1>7. \A p \in Positions(TRUE) : ReportSymbol(p)' = ReportSymbol(p)
  BY <1>2, <1>5, SymbolsStay DEF CutoverInv
<1>8. CutoverFits'
  <2>1. \A p \in Positions(TRUE) : p # {} /\ p \subseteq Ledger'
    BY <1>2, <1>5
  <2>2. cutover'.identical /\ cutover'.legacyBaseline =>
          \A p, q \in Positions(TRUE) : ReportSymbol(p)' = ReportSymbol(q)' => p = q
    BY <1>6, <1>7
  <2>. QED BY <1>4, <2>1, <2>2 DEF CutoverFits
<1>. QED BY <1>3, <1>8 DEF CutoverInv

LEMMA CutoverNextKeeps == CutoverInv /\ [IdentityNext]_identityVars => CutoverInv'
<1>. SUFFICES ASSUME CutoverInv, [IdentityNext]_identityVars PROVE CutoverInv'
  OBVIOUS
<1>1. IdentityInv' /\ LedgerGrows
  BY IdentityNextKeeps, IdentityNextGrows DEF CutoverInv
<1>2. CASE CaptureBaseline
  BY <1>1, <1>2, CaptureKeeps
<1>3. CASE StartCutover
  BY <1>1, <1>3, StartCutoverKeeps
<1>4. CASE CommitCutover \/ AbandonCutover \/ RollBackCutover
  <2>1. baseline' = baseline /\ native' \in BOOLEAN /\ (cutover' = cutover \/ cutover' = NoCutover)
    BY <1>4 DEF CommitCutover, AbandonCutover, RollBackCutover, CutoverInv, BaselineFits
  <2>2. CutoverFits'
    BY <1>1, <2>1, CutoverStays DEF CutoverFits
  <2>. QED BY <1>1, <2>1, <2>2, BaselineStays DEF CutoverInv
<1>5. CASE replay' = replay
  <2>1. baseline' = baseline /\ native' = native /\ cutover' = cutover
    BY <1>5 DEF replay
  <2>2. native' \in BOOLEAN
    BY <2>1 DEF CutoverInv, BaselineFits
  <2>. QED BY <1>1, <2>1, <2>2, BaselineStays, CutoverStays DEF CutoverInv
<1>. QED BY <1>2, <1>3, <1>4, <1>5 DEF IdentityNext, ByHand, Web, Command, Cutover, identityVars, MintByHand,
        AttachByHand, LookUp, CacheExpires, RecordTransaction, DeleteOther, StartCommand, BootstrapStep, MigrationStep,
        BackfillStep, RollBack, PassOver, Killed

\* A cutover that is committed against a baseline of the same ledger by symbol
\* replayed no two positions of one symbol: the sizes of those the report shows
\* already account for every row.
THEOREM CutoverAlwaysHidesNothing == IdentitySpec => CutoverHidesNothing
<1>1. IdentityInit => CutoverInv
  BY IdentityInitially DEF CutoverInv, IdentityInit, BaselineFits, CutoverFits
<1>2. CutoverInv /\ [IdentityNext]_identityVars => CutoverInv'
  BY CutoverNextKeeps
<1>3. CutoverInv => (CommitCutover /\ cutover.legacyBaseline =>
                       \A p, q \in cutover.positions : ReportSymbol(p) = ReportSymbol(q) => p = q)
  BY DEF CommitCutover, CutoverInv, CutoverFits
<1>. QED BY <1>1, <1>2, <1>3, PTL DEF IdentitySpec, CutoverHidesNothing
-----------------------------------------------------------------------------
(* Starts of the web process.                                              *)

Holdings(h) == h \in [DOMAIN h -> [Stocks -> Nat]]

(* The database with its first portfolio.                                  *)
WithMain(h) == IF h = <<>> THEN [p \in {1} |-> NoHoldings] ELSE h

(* The stages after the one named.                                        *)
Beyond == [tables |-> {"workspace", "main", "patches", "flat"},
           workspace |-> {"main", "patches", "flat"}, main |-> {"patches", "flat"}]

(* What a start has done so far to the database the last process that      *)
(* served requests left; the columns of the portfolios are never touched   *)
(* but by creating their table, for they are counted before; and a table   *)
(* has the indexes it had, or, when it was created since, those it is      *)
(* created with, unless it is being made or a start died making it.        *)
FarSoGood ==
  /\ \A t \in Tables :
       \/ left.columns[t] = {} /\ columns[t] \in {{}, ColumnsOf[t]}
       \/ left.columns[t] # {} /\ left.columns[t] \subseteq columns[t]
            /\ columns[t] \subseteq left.columns[t] \cup PatchedOf[t]
  /\ left.columns["portfolios"] # {} => columns["portfolios"] = left.columns["portfolios"]
  /\ \A t \in Tables :
       \/ left.columns[t] # {} /\ indexes[t] = left.indexes[t]
       \/ /\ left.columns[t] = {} /\ indexes[t] \subseteq IndexesOf[t]
          /\ columns[t] # {} => Indexed(t) \/ t \in making \cup cut
  /\ \A t \in making : left.columns[t] = {}
  /\ start # "tables" => making = {}
  /\ held \in {left.held, WithMain(left.held)}
  /\ start \in Beyond.tables => \A t \in Tables : columns[t] # {}
  /\ start \in Beyond.workspace => workspace
  /\ start \in Beyond.main => Whole("portfolios") /\ held = WithMain(left.held)
  /\ start = "flat" => \A t \in Tables : PatchedOf[t] \subseteq columns[t]

StartInv ==
  /\ start \in {"down", "tables", "up"} \cup Beyond.tables
  /\ \A t \in Tables : columns[t] \subseteq ColumnsOf[t]
  /\ columns \in [Tables -> SUBSET UNION {ColumnsOf[t] : t \in Tables}]
  /\ indexes \in [Tables -> SUBSET UNION {IndexesOf[t] : t \in Tables}]
  /\ making \subseteq Tables
  /\ start = "up" => making = {} /\ \A t \in Tables : columns[t] # {}
  /\ Holdings(held) /\ Holdings(left.held)
  /\ flat # NoFlatTable => flat.rows \in [Stocks -> Nat] /\ flat.readable \in BOOLEAN
  /\ start # "up" => FarSoGood

LEMMA StartBegins == StartInit => StartInv
<1>. SUFFICES ASSUME StartInit PROVE StartInv
  OBVIOUS
<1>. PICK d \in FirstDatabases :
       columns = d.columns /\ indexes = d.indexes /\ workspace = d.workspace /\ held = d.held
  BY DEF StartInit
<1>1. /\ d.columns \in [Tables -> SUBSET UNION {ColumnsOf[t] : t \in Tables}]
      /\ \A t \in Tables : d.columns[t] \subseteq ColumnsOf[t]
      /\ d.indexes \in [Tables -> SUBSET UNION {IndexesOf[t] : t \in Tables}]
      /\ \A t \in Tables : d.columns[t] = {} => d.indexes[t] = {}
      /\ Holdings(d.held)
  BY StartupAssumption DEF Holdings
<1>2. /\ left.columns = columns /\ left.indexes = indexes /\ left.held = held /\ start = "down"
      /\ making = {}
  BY DEF StartInit, Database
<1>3. FarSoGood
  BY <1>1, <1>2, StartupAssumption DEF FarSoGood, Beyond
<1>4. flat # NoFlatTable => flat.rows \in [Stocks -> Nat] /\ flat.readable \in BOOLEAN
  <2>1. flat # NoFlatTable => flat \in [kind : {"rows"}, rows : [Stocks -> 0..MaxShares], readable : BOOLEAN]
    BY DEF StartInit, FlatTables
  <2>2. [Stocks -> 0..MaxShares] \subseteq [Stocks -> Nat]
    BY StartupAssumption
  <2>. QED BY <2>1, <2>2
<1>. QED BY <1>1, <1>2, <1>3, <1>4 DEF StartInv

LEMMA RequestKeeps == ASSUME StartInv, Request PROVE StartInv'
<1>1. start = "up" /\ UNCHANGED <<start, schema, workspace, flat, left>>
  BY DEF Request, CreatePortfolio, DeletePortfolio, Trade, Served
<1>2. Holdings(held')
  <2>1. CASE CreatePortfolio
    BY <2>1 DEF CreatePortfolio, Holdings, NoHoldings, StartInv
  <2>2. CASE \E p \in DOMAIN held : DeletePortfolio(p)
    BY <2>2 DEF DeletePortfolio, Holdings, StartInv
  <2>3. CASE \E p \in DOMAIN held, s \in Stocks, n \in 0..MaxShares : Trade(p, s, n)
    <3>. PICK p \in DOMAIN held, s \in Stocks, n \in 0..MaxShares : Trade(p, s, n)
      BY <2>3
    <3>1. held' = [held EXCEPT ![p] = [held[p] EXCEPT ![s] = n]] /\ n \in Nat
      BY StartupAssumption DEF Trade
    <3>2. held \in [DOMAIN held -> [Stocks -> Nat]]
      BY DEF StartInv, Holdings
    <3>3. [held[p] EXCEPT ![s] = n] \in [Stocks -> Nat]
      BY <3>1, <3>2
    <3>. QED BY <3>1, <3>2, <3>3 DEF Holdings
  <2>. QED BY <2>1, <2>2, <2>3 DEF Request
<1>. QED BY <1>1, <1>2 DEF StartInv, schema

LEMMA CopyAddsWhatIsLacking ==
  ASSUME StartInv, flat # NoFlatTable
  PROVE  LET h == IF flat.readable THEN WithFlatRows(held, flat.rows) ELSE held
         IN  /\ Holdings(h)
             /\ h = [p \in DOMAIN held |->
                       IF p = First(DOMAIN held)
                       THEN [s \in Stocks |-> IF flat.readable /\ held[p][s] = 0 THEN flat.rows[s] ELSE held[p][s]]
                       ELSE held[p]]
<1>. DEFINE f == First(DOMAIN held)
            with == [s \in Stocks |-> IF held[f][s] > 0 THEN held[f][s] ELSE flat.rows[s]]
<1>1. held \in [DOMAIN held -> [Stocks -> Nat]] /\ flat.rows \in [Stocks -> Nat] /\ flat.readable \in BOOLEAN
  BY DEF StartInv, Holdings
<1>2. WithFlatRows(held, flat.rows) = [held EXCEPT ![f] = with]
  BY DEF WithFlatRows
<1>. HIDE DEF f
<1>3. ASSUME f \in DOMAIN held
      PROVE  /\ with \in [Stocks -> Nat]
             /\ with = [s \in Stocks |-> IF held[f][s] = 0 THEN flat.rows[s] ELSE held[f][s]]
             /\ held[f] = [s \in Stocks |-> held[f][s]]
  BY <1>1, <1>3
<1>4. CASE flat.readable /\ f \in DOMAIN held
  <2>1. [s \in Stocks |-> IF flat.readable /\ held[f][s] = 0 THEN flat.rows[s] ELSE held[f][s]] = with
    BY <1>3, <1>4
  <2>2. [held EXCEPT ![f] = with] \in [DOMAIN held -> [Stocks -> Nat]]
    BY <1>1, <1>3, <1>4
  <2>3. [held EXCEPT ![f] = with] = [p \in DOMAIN held |-> IF p = f THEN with ELSE held[p]]
    BY <1>1
  <2>. HIDE DEF with
  <2>. QED BY <1>2, <1>4, <2>1, <2>2, <2>3 DEF Holdings, f
<1>5. CASE ~flat.readable /\ f \in DOMAIN held
  BY <1>1, <1>3, <1>5 DEF Holdings, f
<1>6. CASE f \notin DOMAIN held
  BY <1>1, <1>2, <1>6 DEF Holdings, f
<1>. QED BY <1>1, <1>4, <1>5, <1>6

LEMMA StartStepKeeps == ASSUME StartInv, StartStep PROVE StartInv'
<1>0. /\ \A t \in Tables : ColumnsOf[t] # {} /\ PatchedOf[t] \subseteq ColumnsOf[t]
      /\ "portfolios" \in Tables /\ "portfolio_items" \in Tables
  BY StartupAssumption
<1>. USE <1>0 DEF Stage, Goes, Fails, Whole, Lacking, schema, Indexed
<1>1. CASE Begin \/ ColumnsAdded
  BY <1>1 DEF Begin, ColumnsAdded, StartInv, FarSoGood, Beyond
<1>8. CASE TablesCreated
  BY <1>8 DEF TablesCreated, StartInv, FarSoGood, Beyond
<1>2. CASE DefaultWorkspace
  BY <1>2 DEF DefaultWorkspace, StartInv, FarSoGood, Beyond
<1>3. CASE MainPortfolio
  <2>1. CASE start' = "down"
    BY <1>3, <2>1 DEF MainPortfolio, StartInv, FarSoGood, Beyond
  <2>2. CASE start' # "down"
    <3>1. /\ start = "main" /\ start' = "patches" /\ Whole("portfolios")
          /\ held' = WithMain(held) /\ UNCHANGED <<schema, workspace, flat, left>>
      BY <1>3, <2>2 DEF MainPortfolio, WithMain
    <3>2. held' = WithMain(left.held)
      BY <3>1 DEF StartInv, FarSoGood, WithMain
    <3>3. Holdings([p \in {1} |-> NoHoldings])
      BY DEF Holdings, NoHoldings
    <3>4. Holdings(held')
      BY <3>1, <3>3 DEF StartInv, WithMain
    <3>. QED BY <3>1, <3>2, <3>4 DEF StartInv, FarSoGood, Beyond
  <2>. QED BY <2>1, <2>2
<1>4. CASE CopyFlatTable
  <2>1. CASE start' = "down"
    BY <1>4, <2>1 DEF CopyFlatTable, StartInv, FarSoGood, Beyond
  <2>2. CASE start' # "down"
    <3>1. start = "flat" /\ start' = "up" /\ UNCHANGED <<schema, workspace, flat, left>>
      BY <1>4, <2>2 DEF CopyFlatTable
    <3>2. Holdings(held')
      BY <1>4, <2>2, CopyAddsWhatIsLacking DEF CopyFlatTable, StartInv
    <3>. QED BY <3>1, <3>2 DEF StartInv, FarSoGood, Beyond
  <2>. QED BY <2>1, <2>2
<1>5. CASE Die
  <2>1. CASE start = "up"
    BY <1>5, <2>1 DEF Die, Database, StartInv, FarSoGood, Beyond
  <2>2. CASE start # "up"
    BY <1>5, <2>2 DEF Die, StartInv, FarSoGood, Beyond
  <2>. QED BY <2>1, <2>2
<1>6. ASSUME NEW t \in Tables, CreateTable(t) PROVE StartInv'
  <2>1. /\ start = "tables" /\ columns[t] = {}
        /\ UNCHANGED <<start, indexes, cut, workspace, held, flat, left>>
        /\ columns' = [columns EXCEPT ![t] = ColumnsOf[t]]
        /\ making' = {t} /\ \A u \in making : Indexed(u)
    BY <1>6 DEF CreateTable
  <2>2. columns'[t] = ColumnsOf[t] /\ (\A u \in Tables \ {t} : columns'[u] = columns[u])
        /\ columns' \in [Tables -> SUBSET UNION {ColumnsOf[u] : u \in Tables}]
    BY <2>1 DEF StartInv
  <2>3. left.columns[t] = {}
    BY <2>1 DEF StartInv, FarSoGood
  <2>. QED BY <2>1, <2>2, <2>3 DEF StartInv, FarSoGood, Beyond
<1>7. ASSUME NEW t \in Tables, NEW c \in PatchedOf[t], AddColumn(t, c) PROVE StartInv'
  <2>1. /\ start = "patches" /\ c \notin columns[t]
        /\ UNCHANGED <<start, indexes, making, cut, workspace, held, flat, left>>
        /\ columns' = [columns EXCEPT ![t] = columns[t] \cup {c}]
    BY <1>7 DEF AddColumn
  <2>2. columns'[t] = columns[t] \cup {c} /\ (\A u \in Tables \ {t} : columns'[u] = columns[u])
        /\ columns' \in [Tables -> SUBSET UNION {ColumnsOf[u] : u \in Tables}]
    BY <2>1 DEF StartInv
  <2>3. t # "portfolios" /\ columns[t] # ColumnsOf[t]
    BY <2>1 DEF StartInv, FarSoGood, Beyond
  <2>4. left.columns[t] # {}
    BY <2>1, <2>3 DEF StartInv, FarSoGood, Beyond
  <2>. QED BY <2>1, <2>2, <2>3, <2>4 DEF StartInv, FarSoGood, Beyond
<1>9. ASSUME NEW t \in Tables, NEW i \in IndexesOf[t], CreateIndex(t, i) PROVE StartInv'
  <2>1. /\ t \in making /\ indexes' = [indexes EXCEPT ![t] = indexes[t] \cup {i}]
        /\ UNCHANGED <<start, columns, making, cut, workspace, held, flat, left>>
    BY <1>9 DEF CreateIndex
  <2>2. /\ indexes'[t] = indexes[t] \cup {i} /\ \A u \in Tables \ {t} : indexes'[u] = indexes[u]
        /\ indexes' \in [Tables -> SUBSET UNION {IndexesOf[u] : u \in Tables}]
    BY <2>1 DEF StartInv
  <2>3. start # "up" /\ left.columns[t] = {}
    BY <2>1 DEF StartInv, FarSoGood
  <2>. QED BY <2>1, <2>2, <2>3 DEF StartInv, FarSoGood, Beyond
<1>. QED BY <1>1, <1>2, <1>3, <1>4, <1>5, <1>6, <1>7, <1>8, <1>9 DEF StartStep

(* What a start that comes up has made of the database.                    *)
AsOneStart ==
  /\ Startable(left)
  /\ Database' = [Upgraded(left) EXCEPT !.indexes = indexes']
  /\ \A t \in Tables :
       \/ indexes'[t] = Upgraded(left).indexes[t]
       \/ t \in cut /\ indexes'[t] \subseteq Upgraded(left).indexes[t]

LEMMA ComingUp == ASSUME StartInv, StartStep, start # "up", start' = "up" PROVE AsOneStart
<1>0. /\ \A t \in Tables : ColumnsOf[t] # {} /\ PatchedOf[t] \subseteq ColumnsOf[t]
      /\ "portfolios" \in Tables /\ "portfolio_items" \in Tables
  BY StartupAssumption
<1>1. /\ CopyFlatTable /\ start = "flat" /\ UNCHANGED <<columns, indexes, workspace, flat, left>>
      /\ IF flat = NoFlatTable THEN held' = held
         ELSE Whole("portfolio_items") /\ held' = IF flat.readable THEN WithFlatRows(held, flat.rows) ELSE held
  BY DEF StartStep, Begin, TablesCreated, DefaultWorkspace, MainPortfolio, ColumnsAdded, CopyFlatTable, Die,
         CreateTable, CreateIndex, AddColumn, Goes, Fails, Stage, Lacking, StartInv, FarSoGood, schema
<1>2. /\ \A t \in Tables : columns[t] # {} /\ PatchedOf[t] \subseteq columns[t] /\ columns[t] \subseteq ColumnsOf[t]
      /\ workspace /\ Whole("portfolios") /\ held = WithMain(left.held) /\ FarSoGood
  BY <1>1 DEF StartInv, FarSoGood, Beyond
<1>3. \A t \in Tables : columns[t] = IF left.columns[t] = {} THEN ColumnsOf[t] ELSE left.columns[t] \cup PatchedOf[t]
  BY <1>2 DEF FarSoGood
<1>4. Startable(left)
  BY <1>0, <1>1, <1>2, <1>3 DEF Startable, Whole, FarSoGood
<1>5. columns' = [t \in Tables |-> IF left.columns[t] = {} THEN ColumnsOf[t] ELSE left.columns[t] \cup PatchedOf[t]]
  BY <1>1, <1>3 DEF StartInv
<1>6. held' = [p \in DOMAIN held |->
                 IF flat # NoFlatTable /\ p = First(DOMAIN held)
                 THEN [s \in Stocks |-> IF flat.readable /\ held[p][s] = 0 THEN flat.rows[s] ELSE held[p][s]]
                 ELSE held[p]]
  <2>1. CASE flat = NoFlatTable
    BY <1>1, <2>1 DEF StartInv, Holdings
  <2>2. CASE flat # NoFlatTable
    BY <1>1, <2>2, CopyAddsWhatIsLacking
  <2>. QED BY <2>1, <2>2
<1>7. workspace' = TRUE
  BY <1>1, <1>2
<1>8. PICK whole : /\ whole = [t \in Tables |-> IF left.columns[t] = {} THEN IndexesOf[t] ELSE left.indexes[t]]
                   /\ Upgraded(left) = [columns |-> columns', indexes |-> whole,
                                        workspace |-> workspace', held |-> held']
  BY <1>2, <1>5, <1>6, <1>7 DEF Upgraded, WithMain
<1>9. ASSUME NEW t \in Tables PROVE indexes[t] = whole[t] \/ (t \in cut /\ indexes[t] \subseteq whole[t])
  BY <1>1, <1>2, <1>8 DEF FarSoGood, Indexed
<1>10. Database' = [Upgraded(left) EXCEPT !.indexes = indexes']
  BY <1>8 DEF Database
<1>11. Upgraded(left).indexes = whole /\ indexes' = indexes
  BY <1>1, <1>8
<1>. QED BY <1>4, <1>9, <1>10, <1>11 DEF AsOneStart

\* However many starts fail or are cut short between two commits before one
\* comes up, that one leaves the database as a single start that nothing
\* interrupted would have, but for indexes of a table that a start died making;
\* and it comes up only over a database whose portfolios lack no column.
THEOREM InterruptedStartsShowInIndexesOnly == StartSpec => InterruptionsShowInIndexesOnly
<1>1. StartInv /\ [StartNext]_startVars => StartInv'
  <2>1. CASE UNCHANGED startVars
    BY <2>1 DEF startVars, schema, StartInv, FarSoGood, Whole, Holdings, Indexed
  <2>. QED BY <2>1, StartStepKeeps, RequestKeeps DEF StartNext
<1>2. ASSUME StartInv, [StartNext]_startVars, start' = "up", start # "up"
      PROVE  AsOneStart
  <2>1. StartStep
    BY <1>2 DEF StartNext, startVars, Request, CreatePortfolio, DeletePortfolio, Trade, Served
  <2>. QED BY <1>2, <2>1, ComingUp
<1>3. StartInv /\ [StartNext]_startVars => [start' = "up" /\ start # "up" => AsOneStart]_startVars
  BY <1>2
<1>. QED BY <1>1, <1>3, StartBegins, PTL DEF StartSpec, InterruptionsShowInIndexesOnly, AsOneStart
=============================================================================

--------------------------- MODULE IntentRevisions ---------------------------
(***************************************************************************)
(* What the lifecycle of an execution intent promises to a reader of the   *)
(* intent's history, without commands, actors, hashes or evidence: a chain *)
(* of revisions of which only the newest is open, where execution follows  *)
(* authorization and nothing that is closed opens again.                   *)
(* IntentLifecycle implements it.                                          *)
(***************************************************************************)
EXTENDS Naturals, Sequences

VARIABLE phase      \* phase[r]: how far revision r has come

(* "review" covers everything that still needs a human verdict, "closed"   *)
(* every end but completion.                                               *)
Phases == {"review", "authorized", "requested", "fulfilling", "completed", "closed"}
Open   == Phases \ {"completed", "closed"}

RevisionsInit == phase = <<>>

Submit == phase = <<>> /\ phase' = <<"review">>

Move(from, to) ==
  /\ phase # <<>>
  /\ phase[Len(phase)] \in from
  /\ phase' = [phase EXCEPT ![Len(phase)] = to]

Authorize == Move({"review"}, "authorized")
Withdraw  == Move({"authorized", "requested", "fulfilling"}, "review")
Request   == Move({"authorized"}, "requested")
Fulfil    == Move({"requested"}, "fulfilling")
Complete  == Move({"requested", "fulfilling"}, "completed")
Close     == Move(Open, "closed")

(* The old revision closes in the step that opens the new one.             *)
Replace ==
  /\ phase # <<>>
  /\ phase[Len(phase)] \in {"review", "authorized"}
  /\ \E p \in {"review", "authorized"} :
       phase' = Append([phase EXCEPT ![Len(phase)] = "closed"], p)

RevisionsNext ==
  Submit \/ Authorize \/ Withdraw \/ Request \/ Fulfil \/ Complete \/ Close \/ Replace

RevisionsSpec == RevisionsInit /\ [][RevisionsNext]_phase
=============================================================================

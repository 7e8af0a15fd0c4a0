--------------------------- MODULE IntentLifecycle ---------------------------
(***************************************************************************)
(* One execution intent: its revisions (snapshots), the append-only event  *)
(* log, and commands that may be delayed, repeated or overtaken.  The code *)
(* validates one command against one context and leaves storage to its     *)
(* caller; here the caller looks up the newest revision, asks the          *)
(* validator and appends what it accepts (external, after the module's     *)
(* docstring).  A command names the state and sequence number its sender   *)
(* saw, not the snapshot, and may arrive at any later time, so every       *)
(* moment of the log is a possible view.                                   *)
(***************************************************************************)
EXTENDS Naturals, Sequences, FiniteSets

CONSTANTS
  Keys,          \* idempotency keys, one for each command that is accepted
  Symbols,       \* symbols of terms and of ledger evidence
  Contents,      \* reviewed contents: a record [terms, complete]
  MaxRevisions,  \* bound: revisions of the intent
  NoPayload           \* no payload

ASSUME IntentAssumption ==
  /\ Contents \subseteq [terms : (SUBSET Symbols) \ {{}}, complete : BOOLEAN]
  /\ MaxRevisions \in Nat \ {0}
  /\ NoPayload \notin Contents

VARIABLES
  snapshots,     \* the revisions: content, state, last transition sequence
  log            \* transition events in the order they were appended

intentVars == <<snapshots, log>>

Terminal == {"REJECTED", "CANCELLED", "EXPIRED", "SUPERSEDED", "COMPLETED"}
States   == Terminal \cup
  {"PENDING_REVIEW", "DEFERRED", "APPROVED", "QUARANTINED",
   "EXECUTION_REQUESTED", "PARTIALLY_EXECUTED"}

HumanOnly  == {"APPROVE", "DEFER", "RESUME", "REJECT", "CANCEL", "RESOLVE_QUARANTINE"}
SystemOnly == {"EXPIRE", "QUARANTINE", "REQUEST_EXECUTION",
               "RECORD_PARTIAL_EXECUTION", "RECORD_COMPLETION"}
Actors     == {"HUMAN", "SYSTEM"}

(* The transition table: from, command, to.                                *)
Allowed ==
  [from : {"PENDING_REVIEW"}, by : {"APPROVE"}, to : {"APPROVED"}]
  \cup [from : {"PENDING_REVIEW", "APPROVED"}, by : {"DEFER"}, to : {"DEFERRED"}]
  \cup [from : {"PENDING_REVIEW"}, by : {"REJECT"}, to : {"REJECTED"}]
  \cup [from : States \ Terminal, by : {"CANCEL"}, to : {"CANCELLED"}]
  \cup [from : {"PENDING_REVIEW", "DEFERRED", "APPROVED", "QUARANTINED"},
        by : {"EXPIRE"}, to : {"EXPIRED"}]
  \cup [from : {"PENDING_REVIEW", "DEFERRED", "APPROVED", "QUARANTINED"},
        by : {"SUPERSEDE_WITH_REPLACEMENT"}, to : {"SUPERSEDED"}]
  \cup [from : {"DEFERRED"}, by : {"RESUME"}, to : {"PENDING_REVIEW"}]
  \cup [from : {"APPROVED", "EXECUTION_REQUESTED", "PARTIALLY_EXECUTED"},
        by : {"QUARANTINE"}, to : {"QUARANTINED"}]
  \cup [from : {"APPROVED"}, by : {"REQUEST_EXECUTION"}, to : {"EXECUTION_REQUESTED"}]
  \cup [from : {"QUARANTINED"}, by : {"RESOLVE_QUARANTINE"}, to : {"PENDING_REVIEW"}]
  \cup [from : {"EXECUTION_REQUESTED"}, by : {"RECORD_PARTIAL_EXECUTION"},
        to : {"PARTIALLY_EXECUTED"}]
  \cup [from : {"EXECUTION_REQUESTED", "PARTIALLY_EXECUTED"}, by : {"RECORD_COMPLETION"},
        to : {"COMPLETED"}]

(* A sender's view: a moment at which the revision had that state and      *)
(* sequence number, now or earlier.                                        *)
Views == {[revision |-> log[i].revision, state |-> log[i].to, sequence |-> log[i].sequence] :
            i \in 1..Len(log)}

(* The context the caller builds: the newest revision.                     *)
Newest  == Len(snapshots)
Current == snapshots[Newest]

UsedKeys == {log[i].key : i \in 1..Len(log)}

(* A command has a key that was used before or a new one; which new one    *)
(* makes no difference.                                                    *)
OfferedKeys == {k \in Keys : k \in UsedKeys \/ k = CHOOSE u \in Keys : u \notin UsedKeys}

(* resolve_idempotency: a key that has had its effect is answered from the *)
(* record or is a conflict, and appends nothing either way.                *)
\* Mutant: the retry is validated again.
IsNewAlways(key) == TRUE

IsNew(key) == key \notin UsedKeys

Event(revision, sequence, from, to, by, actor, key, content, evidence, seen) ==
  [revision |-> revision, sequence |-> sequence, from |-> from, to |-> to, by |-> by,
   actor |-> actor, key |-> key, content |-> content, evidence |-> evidence,
   seen |-> seen]

(* validate_transition up to the checks that depend on the command.        *)
Expected(view) ==
  /\ Current.state = view.state
  /\ Current.sequence = view.sequence

MayAct(by, actor) ==
  /\ by \in HumanOnly => actor = "HUMAN"
  /\ by \in SystemOnly => actor = "SYSTEM"
  /\ (by = "SUPERSEDE_WITH_REPLACEMENT" /\ Current.state = "APPROVED") => actor = "HUMAN"

Admits(by, actor, key, view) ==
  /\ IsNew(key)
  /\ Newest > 0
  /\ Current.state \notin Terminal
  /\ Expected(view)
  /\ MayAct(by, actor)

(* The accepted event becomes the newest one of its snapshot.              *)
Advance(by, actor, key, content, evidence, view) ==
  \E t \in Allowed :
    /\ t.from = Current.state
    /\ t.by = by
    /\ snapshots' = [snapshots EXCEPT ![Newest].state = t.to, ![Newest].sequence = @ + 1]
    /\ log' = Append(log, Event(Newest, Current.sequence + 1, t.from, t.to, by, actor, key,
                                content, evidence, view))

Snapshot(content, state, sequence) ==
  [content |-> content, state |-> state, sequence |-> sequence]

IntentInit == snapshots = <<>> /\ log = <<>>

(* SUBMIT: revision 1 of an intent that has none.                          *)
Submit(actor, key, content) ==
  /\ IsNew(key)
  /\ snapshots = <<>>
  /\ snapshots' = <<Snapshot(content, "PENDING_REVIEW", 1)>>
  /\ log' = <<Event(1, 1, NoPayload, "PENDING_REVIEW", "SUBMIT", actor, key, NoPayload, {}, NoPayload)>>

(* APPROVE carries the hash of the content its sender reviewed, which must *)
(* be the current snapshot's; incomplete provenance is never approved.     *)
\* Mutant: only the presence of a hash is checked.
ApproveAnyHash(actor, key, view) ==
  /\ Admits("APPROVE", actor, key, view)
  /\ Current.content.complete
  /\ Advance("APPROVE", actor, key, snapshots[view.revision].content, {}, view)

Approve(actor, key, view) ==
  /\ Admits("APPROVE", actor, key, view)
  /\ snapshots[view.revision].content = Current.content
  /\ Current.content.complete
  /\ Advance("APPROVE", actor, key, snapshots[view.revision].content, {}, view)

(* DEFER, RESUME, REJECT, CANCEL, RESOLVE_QUARANTINE and REQUEST_EXECUTION *)
(* have no payload; EXPIRE and QUARANTINE need a policy reference, and a   *)
(* command without it is refused.                                          *)
Decide(by, actor, key, view) ==
  /\ by \in (HumanOnly \cup SystemOnly)
       \ {"APPROVE", "RECORD_PARTIAL_EXECUTION", "RECORD_COMPLETION"}
  /\ Admits(by, actor, key, view)
  /\ Advance(by, actor, key, NoPayload, {}, view)

(* Coverage of the terms by the symbols of admitted transactions.          *)
Fulfillment(terms, evidence) ==
  IF evidence = {} THEN "NO_EVIDENCE"
  ELSE IF evidence \ terms # {} THEN "CONFLICT"
  ELSE IF evidence = terms THEN "COMPLETE" ELSE "PARTIAL"

RequiredCoverage(by) ==
  IF by = "RECORD_PARTIAL_EXECUTION" THEN "PARTIAL" ELSE "COMPLETE"

RecordExecution(by, actor, key, evidence, view) ==
  /\ by \in {"RECORD_PARTIAL_EXECUTION", "RECORD_COMPLETION"}
  /\ Admits(by, actor, key, view)
  /\ Fulfillment(Current.content.terms, evidence) = RequiredCoverage(by)
  /\ Advance(by, actor, key, NoPayload, evidence, view)

(* SUPERSEDE_WITH_REPLACEMENT: the replacement was built on the revision   *)
(* its sender saw and must succeed exactly the current one; it may be      *)
(* approved in the same command.  All events or none.                      *)
\* Mutant: the predecessor is left as it was.
ClosedOld(view) == snapshots

Superseded(view) ==
  [snapshots EXCEPT ![Newest].state = "SUPERSEDED", ![Newest].sequence = @ + 1]

Supersede(actor, key, content, alsoApprove, view) ==
  /\ Admits("SUPERSEDE_WITH_REPLACEMENT", actor, key, view)
  /\ [from |-> Current.state, by |-> "SUPERSEDE_WITH_REPLACEMENT", to |-> "SUPERSEDED"] \in Allowed
  /\ Newest < MaxRevisions
  /\ view.revision = Newest
  /\ alsoApprove => actor = "HUMAN" /\ content.complete
  /\ LET closed   == Event(Newest, Current.sequence + 1, Current.state, "SUPERSEDED",
                           "SUPERSEDE_WITH_REPLACEMENT", actor, key, NoPayload, {}, view)
         created  == Event(Newest + 1, 1, NoPayload, "PENDING_REVIEW", "SUBMIT", actor, key,
                           NoPayload, {}, view)
         approved == Event(Newest + 1, 2, "PENDING_REVIEW", "APPROVED", "APPROVE", actor, key,
                           content, {}, view)
     IN \/ /\ alsoApprove
           /\ snapshots' = Append(Superseded(view), Snapshot(content, "APPROVED", 2))
           /\ log' = log \o <<closed, created, approved>>
        \/ /\ ~alsoApprove
           /\ snapshots' = Append(Superseded(view), Snapshot(content, "PENDING_REVIEW", 1))
           /\ log' = log \o <<closed, created>>

IntentNext ==
  \E actor \in Actors, key \in OfferedKeys :
    \/ \E c \in Contents : Submit(actor, key, c)
    \/ \E view \in Views :
         \/ Approve(actor, key, view)
         \/ \E by \in HumanOnly \cup SystemOnly : Decide(by, actor, key, view)
         \/ \E by \in SystemOnly, evidence \in SUBSET Symbols :
              RecordExecution(by, actor, key, evidence, view)
         \/ \E c \in Contents, alsoApprove \in BOOLEAN :
              Supersede(actor, key, c, alsoApprove, view)

IntentSpec == IntentInit /\ [][IntentNext]_intentVars

-----------------------------------------------------------------------------
View == [revision : 1..MaxRevisions, state : States, sequence : Nat]

SnapshotRecord == [content : Contents, state : States, sequence : Nat]

EventRecord ==
  [revision : 1..MaxRevisions, sequence : Nat, from : States \cup {NoPayload}, to : States,
   by : HumanOnly \cup SystemOnly \cup {"SUBMIT", "SUPERSEDE_WITH_REPLACEMENT"},
   actor : Actors, key : Keys, content : Contents \cup {NoPayload}, evidence : SUBSET Symbols,
   seen : View \cup {NoPayload}]

(* Types, and the state and sequence number a command is checked against   *)
(* are those of the revision's last event.                                 *)
IntentTypeOK ==
  /\ snapshots \in Seq(SnapshotRecord)
  /\ Len(snapshots) <= MaxRevisions
  /\ log \in Seq(EventRecord)
  /\ \A r \in 1..Len(snapshots) : \E i \in 1..Len(log) :
       /\ log[i].revision = r
       /\ log[i].to = snapshots[r].state
       /\ log[i].sequence = snapshots[r].sequence
       /\ \A j \in (i + 1)..Len(log) : log[j].revision # r

Executing == {"EXECUTION_REQUESTED", "PARTIALLY_EXECUTED", "COMPLETED"}

(* Whatever arrives late, twice or from whom: an execution event stands on *)
(* a human's approval of exactly this snapshot's content, with nothing but *)
(* execution since, and what it records covers approved terms only, all of *)
(* them when it completes.                                                 *)
ExecutionIsAuthorized ==
  \A i \in 1..Len(log) : log[i].to \in Executing =>
    LET own(j) == log[j].revision = log[i].revision
        terms  == snapshots[log[i].revision].content.terms
    IN /\ \E j \in 1..(i - 1) :
            /\ own(j)
            /\ log[j].by = "APPROVE" /\ log[j].actor = "HUMAN"
            /\ log[j].content = snapshots[log[i].revision].content
            /\ log[j].content.complete
            /\ \A k \in (j + 1)..(i - 1) : own(k) => log[k].to \in Executing
       /\ log[i].evidence \subseteq terms
       /\ log[i].to = "COMPLETED" => log[i].evidence = terms

OneWinnerPerView ==
  \A i, j \in 1..Len(log) :
    (/\ log[i].revision = log[j].revision /\ log[i].seen = log[j].seen
     /\ log[i].seen # NoPayload /\ log[i].revision = log[i].seen.revision)
      => i = j

OneEffectPerKey ==
  \A i, j \in 1..Len(log) :
    log[i].key = log[j].key => log[i].seen = log[j].seen /\ (log[i].by = log[j].by => i = j)

(* Of the commands that were sent on the same view of a revision at most   *)
(* one advances it: expected state and sequence settle every race.  A key  *)
(* has the effect of one command, however often it is redelivered: this    *)
(* needs the record of keys, because a later revision can look like an     *)
(* earlier one.                                                            *)
CommandsTakeEffectOnce == IntentTypeOK /\ OneWinnerPerView /\ OneEffectPerKey

PhaseOf(state) ==
  CASE state \in {"PENDING_REVIEW", "DEFERRED", "QUARANTINED"} -> "review"
    [] state = "APPROVED"            -> "authorized"
    [] state = "EXECUTION_REQUESTED" -> "requested"
    [] state = "PARTIALLY_EXECUTED"  -> "fulfilling"
    [] state = "COMPLETED"           -> "completed"
    [] OTHER                         -> "closed"

PhasesOf(revisions) == [r \in 1..Len(revisions) |-> PhaseOf(revisions[r].state)]

Revisions == INSTANCE IntentRevisions WITH phase <- PhasesOf(snapshots)

(* Only the newest revision is open, execution follows authorization, and  *)
(* a replacement closes its predecessor in the same step.                  *)
ImplementsRevisions == Revisions!RevisionsSpec

=============================================================================

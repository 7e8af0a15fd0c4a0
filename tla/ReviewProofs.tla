---------------------------- MODULE ReviewProofs ----------------------------
(***************************************************************************)
(* Who may review and what a historical approval is worth, for all ages,   *)
(* lifetimes, times, certificates and payloads; and execution intents, for *)
(* all keys, symbols, contents and every number of revisions: what the log *)
(* of accepted commands says, and that the lifecycle implements the chain  *)
(* of revisions; and the Asset Registry, for all manifests of its stewards *)
(* and all evidence.                                                       *)
(***************************************************************************)
EXTENDS HumanAuthority, HistoricalAuthority, IntentLifecycle, RegistryGovernance, SetLemmas,
        SequenceTheorems, TLAPS

-----------------------------------------------------------------------------
(* Least and greatest of finitely many numbers.                            *)

LEMMA MaxOfThree ==
  ASSUME NEW a \in Nat, NEW b \in Nat, NEW c \in Nat
  PROVE  Max({a, b, c}) \in {a, b, c} /\ \A x \in {a, b, c} : Max({a, b, c}) >= x
<1>1. \E x \in {a, b, c} : \A y \in {a, b, c} : x >= y
  <2>1. CASE a >= b /\ a >= c BY <2>1
  <2>2. CASE b >= a /\ b >= c BY <2>2
  <2>3. CASE c >= a /\ c >= b BY <2>3
  <2>. QED BY <2>1, <2>2, <2>3
<1>. QED BY <1>1 DEF Max

LEMMA MinOfSix ==
  ASSUME NEW S, NEW a \in Nat, NEW b \in Nat, NEW c \in Nat, NEW d \in Nat, NEW e \in Nat, NEW f \in Nat,
         S = {a, b, c, d, e, f}
  PROVE  Min(S) \in S /\ \A x \in S : Min(S) <= x
<1>1. \E x \in S : \A y \in S : x <= y
  OBVIOUS
<1>. QED BY <1>1 DEF Min

-----------------------------------------------------------------------------
(* Humans.                                                                 *)

(* The facts a caller holds are of the past.                               *)
HumanTypeOK ==
  /\ now \in 0..MaxTime
  /\ lostAt \in [Standings -> 0..Never]
  /\ event.exists \in BOOLEAN
  /\ event.exists => event.id \in Nat /\ event.at \in 0..now /\ event.until \in Nat
  /\ status.exists \in BOOLEAN
  /\ status.exists => status.at \in 0..now /\ status.until \in Nat
  /\ grant.exists \in BOOLEAN
  /\ grant.exists => grant.at \in 0..now /\ grant.until \in Nat
  /\ validated.exists \in BOOLEAN
  /\ validated.exists => validated.until \in Nat

(* A fact that says a standing holds was stated before it was lost; so the *)
(* window of a validation ends in time both for what was lost before now   *)
(* and for what may be lost from now on.                                   *)
FactsPrecedeLoss ==
  /\ status.exists /\ status.holds => \A s \in StatusStandings : status.at <= lostAt[s]
  /\ grant.exists /\ grant.holds => grant.at <= lostAt["grant"]
  /\ validated.exists => \A s \in Standings :
       validated.until <= lostAt[s] + MaxAgeOf(s) /\ validated.until <= now + MaxAgeOf(s)

HumanInv == HumanTypeOK /\ FactsPrecedeLoss

LEMMA HumanInitInv == HumanInit => HumanInv
BY HumanAssumption DEF HumanInit, HumanInv, HumanTypeOK, FactsPrecedeLoss, Nobody, Never

LEMMA MaxAges == \A s \in Standings : MaxAgeOf(s) \in Nat
BY HumanAssumption DEF MaxAgeOf

(* A validation ends within the policy's age of each fact it rests on.     *)
LEMMA ValidationWindow ==
  ASSUME HumanTypeOK, Bound
  PROVE  /\ ValidFrom \in Nat /\ ValidUntil \in Nat
         /\ ValidUntil <= status.at + MaxStatusAge
         /\ ValidUntil <= grant.at + MaxGrantAge
<1>1. /\ event.at \in Nat /\ event.until \in Nat
      /\ status.at \in Nat /\ status.until \in Nat
      /\ grant.at \in Nat /\ grant.until \in Nat
  BY HumanAssumption DEF HumanTypeOK, Bound, Nobody
<1>2. /\ event.at + MaxAuthenticationAge \in Nat
      /\ status.at + MaxStatusAge \in Nat
      /\ grant.at + MaxGrantAge \in Nat
  BY <1>1, HumanAssumption
<1>3. ValidFrom \in Nat
  BY <1>1, MaxOfThree DEF ValidFrom
<1>. DEFINE ends == {event.until, status.until, grant.until, event.at + MaxAuthenticationAge,
                     status.at + MaxStatusAge, grant.at + MaxGrantAge}
<1>4. Min(ends) \in ends /\ \A x \in ends : Min(ends) <= x
  BY <1>1, <1>2, MinOfSix
<1>. QED BY <1>1, <1>2, <1>3, <1>4 DEF ValidUntil

LEMMA HumanStepInv == HumanInv /\ [HumanNext]_humanVars => HumanInv'
<1>. SUFFICES ASSUME HumanInv, [HumanNext]_humanVars
              PROVE  HumanInv'
  OBVIOUS
<1>. USE HumanAssumption DEF HumanInv
<1>1. CASE Tick
  <2>1. HumanTypeOK'
    BY <1>1 DEF Tick, HumanTypeOK, Never, Nobody
  <2>2. FactsPrecedeLoss'
    BY <1>1, MaxAges DEF Tick, HumanTypeOK, FactsPrecedeLoss, Nobody, MaxAgeOf
  <2>. QED BY <2>1, <2>2
<1>2. ASSUME NEW s \in Standings, Lose(s) PROVE HumanInv'
  <2>1. HumanTypeOK'
    BY <1>2 DEF Lose, HumanTypeOK, Never
  <2>2. \A r \in Standings : lostAt'[r] = lostAt[r] \/ lostAt'[r] = now
    BY <1>2 DEF Lose, HumanTypeOK
  <2>3. (status.exists /\ status.holds => \A r \in StatusStandings : status.at <= lostAt[r])'
    BY <1>2, <2>2 DEF Lose, HumanTypeOK, FactsPrecedeLoss, Nobody, Standings
  <2>4. (grant.exists /\ grant.holds => grant.at <= lostAt["grant"])'
    BY <1>2, <2>2 DEF Lose, HumanTypeOK, FactsPrecedeLoss, Nobody, Standings
  <2>5. (validated.exists => \A r \in Standings :
          validated.until <= lostAt[r] + MaxAgeOf(r) /\ validated.until <= now + MaxAgeOf(r))'
    BY <1>2, <2>2 DEF Lose, HumanTypeOK, FactsPrecedeLoss, MaxAgeOf
  <2>. QED BY <2>1, <2>3, <2>4, <2>5 DEF FactsPrecedeLoss
<1>3. ASSUME NEW lifetime \in Lifetimes, NEW direct \in BOOLEAN, Authenticate(direct, lifetime)
      PROVE  HumanInv'
  <2>1. EventCount \in Nat
    BY DEF EventCount, HumanTypeOK
  <2>2. HumanTypeOK'
    <3>1. now \in Nat /\ now \in 0..now /\ now + lifetime \in Nat /\ EventCount + 1 \in Nat
      BY <2>1 DEF HumanTypeOK
    <3>2. event'.exists = TRUE /\ event'.id = EventCount + 1 /\ event'.at = now
            /\ event'.until = now + lifetime
      BY <1>3 DEF Authenticate
    <3>3. lostAt' \in [Standings -> 0..Never]
      <4>1. Never \in 0..Never
        BY DEF Never
      <4>2. lostAt' = [lostAt EXCEPT !["login"] = Never]
        BY <1>3 DEF Authenticate
      <4>. QED BY <4>1, <4>2 DEF HumanTypeOK
    <3>. QED BY <1>3, <3>1, <3>2, <3>3 DEF Authenticate, HumanTypeOK
  <2>3. \A r \in Standings : lostAt'[r] = lostAt[r] \/ lostAt'[r] = Never
    BY <1>3 DEF Authenticate, HumanTypeOK
  <2>4. (status.exists /\ status.holds => \A r \in StatusStandings : status.at <= lostAt[r])'
    BY <1>3, <2>3 DEF Authenticate, HumanTypeOK, FactsPrecedeLoss, Nobody, Never, Standings
  <2>5. (grant.exists /\ grant.holds => grant.at <= lostAt["grant"])'
    BY <1>3, <2>3 DEF Authenticate, HumanTypeOK, FactsPrecedeLoss, Nobody, Never, Standings
  <2>6. (validated.exists => \A r \in Standings :
          validated.until <= lostAt[r] + MaxAgeOf(r) /\ validated.until <= now + MaxAgeOf(r))'
    <3>. SUFFICES ASSUME validated.exists, NEW r \in Standings
                  PROVE  /\ validated.until <= lostAt'[r] + MaxAgeOf(r)
                         /\ validated.until <= now + MaxAgeOf(r)
      BY <1>3 DEF Authenticate, MaxAgeOf
    <3>1. validated.until \in Nat /\ MaxAgeOf(r) \in Nat
      BY MaxAges DEF HumanTypeOK, Nobody
    <3>. QED BY <2>3, <3>1 DEF HumanTypeOK, FactsPrecedeLoss, Never
  <2>. QED BY <2>2, <2>4, <2>5, <2>6 DEF FactsPrecedeLoss
<1>4. ASSUME NEW lifetime \in Lifetimes, CheckStatus(lifetime) PROVE HumanInv'
  <2>1. HumanTypeOK'
    <3>1. now \in Nat /\ now \in 0..now /\ now + lifetime \in Nat
      BY DEF HumanTypeOK
    <3>2. status'.exists = TRUE /\ status'.at = now /\ status'.until = now + lifetime
      BY <1>4 DEF CheckStatus
    <3>. QED BY <1>4, <3>1, <3>2 DEF CheckStatus, HumanTypeOK
  <2>2. FactsPrecedeLoss'
    BY <1>4 DEF CheckStatus, HumanTypeOK, FactsPrecedeLoss, Never, Nobody, MaxAgeOf
  <2>. QED BY <2>1, <2>2
<1>5. ASSUME NEW lifetime \in Lifetimes, NEW suits \in BOOLEAN, CheckGrant(suits, lifetime)
      PROVE  HumanInv'
  <2>1. grant'.exists = TRUE /\ grant'.at = now /\ grant'.until = now + lifetime
          /\ grant'.holds = (suits /\ lostAt["grant"] = Never)
    BY <1>5 DEF CheckGrant
  <2>2. HumanTypeOK'
    <3>1. now \in Nat /\ now \in 0..now /\ now + lifetime \in Nat
      BY DEF HumanTypeOK
    <3>. QED BY <1>5, <2>1, <3>1 DEF CheckGrant, HumanTypeOK
  <2>3. (grant.exists /\ grant.holds => grant.at <= lostAt["grant"])'
    <3>1. now \in Nat /\ now <= Never
      BY DEF HumanTypeOK, Never
    <3>2. lostAt' = lostAt
      BY <1>5 DEF CheckGrant
    <3>. QED BY <2>1, <3>1, <3>2
  <2>4. FactsPrecedeLoss'
    BY <1>5, <2>3 DEF CheckGrant, FactsPrecedeLoss, MaxAgeOf
  <2>. QED BY <2>2, <2>4
<1>6. CASE Validate
  <2>1. /\ Bound /\ status.holds /\ grant.holds
        /\ validated' = [exists |-> TRUE, from |-> ValidFrom, until |-> ValidUntil]
        /\ UNCHANGED <<now, lostAt, event, status, grant>>
    BY <1>6 DEF Validate, Admitted
  <2>2. /\ ValidFrom \in Nat /\ ValidUntil \in Nat
        /\ ValidUntil <= status.at + MaxStatusAge
        /\ ValidUntil <= grant.at + MaxGrantAge
    BY <2>1, ValidationWindow
  <2>3. HumanTypeOK'
    BY <2>1, <2>2 DEF HumanTypeOK
  <2>4. /\ status.at \in 0..now /\ \A s \in StatusStandings : status.at <= lostAt[s]
        /\ grant.at \in 0..now /\ grant.at <= lostAt["grant"]
    BY <2>1 DEF Bound, HumanTypeOK, FactsPrecedeLoss, Nobody
  <2>5. \A s \in Standings :
          ValidUntil <= lostAt[s] + MaxAgeOf(s) /\ ValidUntil <= now + MaxAgeOf(s)
    <3>1. ASSUME NEW s \in StatusStandings
          PROVE  ValidUntil <= lostAt[s] + MaxAgeOf(s) /\ ValidUntil <= now + MaxAgeOf(s)
      <4>1. MaxAgeOf(s) = MaxStatusAge
        BY DEF MaxAgeOf, StatusStandings
      <4>. QED BY <2>2, <2>4, <4>1 DEF HumanTypeOK, Never, Standings
    <3>2. ValidUntil <= lostAt["grant"] + MaxGrantAge /\ ValidUntil <= now + MaxGrantAge
      BY <2>2, <2>4 DEF HumanTypeOK, Never, Standings
    <3>. QED BY <3>1, <3>2 DEF Standings, MaxAgeOf
  <2>6. FactsPrecedeLoss'
    BY <2>1, <2>5 DEF FactsPrecedeLoss, MaxAgeOf
  <2>. QED BY <2>3, <2>6
<1>7. CASE UNCHANGED humanVars
  BY <1>7 DEF humanVars, HumanTypeOK, FactsPrecedeLoss, MaxAgeOf
<1>. QED BY <1>1, <1>2, <1>3, <1>4, <1>5, <1>6, <1>7 DEF HumanNext

(* Whatever ages the policy has and whatever lifetimes the issuers give    *)
(* their facts, no validation result outlives a lost standing by more than *)
(* the policy's age for it.                                                *)
THEOREM LossIsEnforced == HumanSpec => []LossTakesEffect
<1>1. HumanInv => LossTakesEffect
  <2>. SUFFICES ASSUME HumanInv, Validated, NEW s \in Standings
                PROVE  now < lostAt[s] + MaxAgeOf(s)
    BY DEF LossTakesEffect
  <2>1. validated.until <= lostAt[s] + MaxAgeOf(s) /\ now < validated.until
    BY DEF Validated, HumanInv, FactsPrecedeLoss
  <2>2. now \in Nat /\ validated.until \in Nat /\ lostAt[s] \in Nat /\ MaxAgeOf(s) \in Nat
    BY HumanAssumption, MaxAges DEF Validated, HumanInv, HumanTypeOK, Nobody, Never
  <2>. QED BY <2>1, <2>2
<1>. QED BY <1>1, HumanInitInv, HumanStepInv, PTL DEF HumanSpec

-----------------------------------------------------------------------------
(* Historical approvals.                                                   *)

(* Verdicts depend on the facts of the moment only through the statuses    *)
(* that are in effect; one that revokes is never outvoted.                 *)
LEMMA RevokedIsNeverCertified ==
  ASSUME NEW c, "REVOKED" \in EffectiveStatuses(c)
  PROVE  Verify(c).level \notin {"CERTIFIED_EXACT", "CERTIFIED_PROPOSAL_ONLY"}
<1>1. Revocation(c) \in {"REVOKED", "CONFLICTING"}
  <2>1. EffectiveStatuses(c) # {} /\ EffectiveStatuses(c) # {"NOT_REVOKED"}
    OBVIOUS
  <2>. QED BY <2>1 DEF Revocation
<1>2. /\ Conflicting.level = "CONFLICTING"
      /\ \A payload : Unverifiable(payload).level = "UNVERIFIABLE"
      /\ Verdict("OUT_OF_SCOPE", FALSE, ExactFacts).level = "OUT_OF_SCOPE"
  BY DEF Conflicting, Unverifiable, Verdict
<1>. QED BY <1>1, <1>2 DEF Verify

(* An exact certificate stands alone, or beside others that are bound to   *)
(* the same payloads.                                                      *)
LEMMA ExactDoesNotConflict ==
  ASSUME NEW c, Verify(c).level = "CERTIFIED_EXACT"
  PROVE  ~Conflicts(c)
<1>1. /\ Conflicting.level = "CONFLICTING"
      /\ \A payload : Unverifiable(payload).level = "UNVERIFIABLE"
      /\ Verdict("OUT_OF_SCOPE", FALSE, ExactFacts).level = "OUT_OF_SCOPE"
  BY DEF Conflicting, Unverifiable, Verdict
<1>. QED BY <1>1 DEF Verify

(* Whatever certificates, facts and proposals there are, verified          *)
(* revocations are final and exact certificates of one event agree.        *)
THEOREM CertificatesAlwaysSettle == AuthoritySpec => []CertificatesSettle
<1>1. RevocationIsFinal
  BY RevokedIsNeverCertified DEF RevocationIsFinal
<1>2. ExactCertificatesAgree
  <2>. SUFFICES ASSUME NEW c \in issued, NEW d \in issued,
                       c.event # None, c.event = d.event,
                       Verify(c).level = "CERTIFIED_EXACT", Verify(d).level = "CERTIFIED_EXACT"
                PROVE  c.approved = d.approved
    BY DEF ExactCertificatesAgree
  <2>1. d = c \/ Binding(d) = Binding(c)
    BY ExactDoesNotConflict DEF Conflicts
  <2>2. Binding(c).approved = c.approved /\ Binding(d).approved = d.approved
    BY DEF Binding
  <2>. QED BY <2>1, <2>2
<1>3. CertificatesSettle
  BY <1>1, <1>2 DEF CertificatesSettle
<1>. QED BY <1>3, PTL

(* A candidate below exact authority carries the warning that says so, and *)
(* a preparation is the candidate that was decided on.                     *)
AuthorityInv ==
  /\ candidate # None =>
       candidate.level = "CERTIFIED_EXACT" \/ "APPROVAL_UNVERIFIED" \in candidate.warnings
  /\ PreparationIsInformed

LEMMA BuildWarns ==
  ASSUME NEW certificate, NEW verdict, NEW origin, NEW terms, NEW provenance,
         BuildFrom(certificate, verdict, origin, terms, provenance)
  PROVE  candidate'.level = "CERTIFIED_EXACT" \/ "APPROVAL_UNVERIFIED" \in candidate'.warnings
<1>1. candidate'.level = verdict.level /\ candidate'.warnings = Warnings(verdict, origin, terms)
  BY DEF BuildFrom
<1>2. verdict.level # "CERTIFIED_EXACT" =>
        "APPROVAL_UNVERIFIED" \in Warnings(verdict, origin, terms)
  BY DEF Warnings
<1>. QED BY <1>1, <1>2

LEMMA AuthorityStepInv == AuthorityInv /\ [AuthorityNext]_authorityVars => AuthorityInv'
<1>. SUFFICES ASSUME AuthorityInv, [AuthorityNext]_authorityVars
              PROVE  AuthorityInv'
  OBVIOUS
<1>. USE DEF AuthorityInv, PreparationIsInformed
<1>1. ASSUME NEW c \in Certificates, Issue(c) PROVE AuthorityInv'
  BY <1>1 DEF Issue
<1>2. ASSUME NEW c \in issued, NEW f \in RevocationFacts(c), Publish(f) PROVE AuthorityInv'
  BY <1>2 DEF Publish
<1>3. CASE Later
  BY <1>3 DEF Later
<1>4. ASSUME NEW origin \in Origins, NEW terms \in Terms \union {None},
             NEW provenance \in Completions, Build(origin, terms, provenance)
      PROVE  AuthorityInv'
  <2>1. PICK certificate, verdict : BuildFrom(certificate, verdict, origin, terms, provenance)
    BY <1>4 DEF Build
  <2>2. UNCHANGED prepared
    BY <2>1 DEF BuildFrom
  <2>. QED BY <2>1, <2>2, BuildWarns
<1>5. ASSUME NEW actor \in Deciders, NEW acknowledged, NEW terms,
             DecideProposal(actor, acknowledged, terms)
      PROVE  AuthorityInv'
  BY <1>5 DEF DecideProposal
<1>6. CASE Finalize
  <2>1. /\ candidate # None /\ decision.seen = candidate /\ decision.actor = "HUMAN"
        /\ candidate.warnings \subseteq decision.acknowledged
        /\ UNCHANGED candidate
    BY <1>6 DEF Finalize, Expects
  <2>2. /\ prepared'.certificate = candidate.certificate
        /\ prepared'.level = candidate.level
        /\ prepared'.seen = [certificate |-> candidate.certificate, level |-> candidate.level]
        /\ prepared'.actor = "HUMAN"
        /\ prepared'.unverified = ("APPROVAL_UNVERIFIED" \in decision.acknowledged)
    BY <1>6, <2>1 DEF Finalize
  <2>. QED BY <2>1, <2>2
<1>7. CASE UNCHANGED authorityVars
  BY <1>7 DEF authorityVars
<1>. QED
  BY <1>1, <1>2, <1>3, <1>4, <1>5, <1>6, <1>7 DEF AuthorityNext, CertificationNext, ProposalNext

(* Whatever was published, built and decided in between, what is prepared  *)
(* for a fresh review rests on what a human saw and acknowledged.          *)
THEOREM PreparationIsAlwaysInformed == AuthoritySpec => []PreparationIsInformed
<1>1. AuthorityInit => AuthorityInv
  BY DEF AuthorityInit, AuthorityInv, PreparationIsInformed
<1>2. AuthorityInv => PreparationIsInformed
  BY DEF AuthorityInv
<1>. QED BY <1>1, <1>2, AuthorityStepInv, PTL DEF AuthoritySpec

-----------------------------------------------------------------------------
(* The invariant.                                                          *)

IntentTypes ==
  /\ snapshots \in Seq(SnapshotRecord)
  /\ Len(snapshots) <= MaxRevisions
  /\ log \in Seq(EventRecord)

(* The events of a revision are numbered upwards to the number its         *)
(* snapshot has, and an event takes the number after the one its sender    *)
(* saw, unless the sender saw another revision.                            *)
LogIsOrdered ==
  /\ \A i \in 1..Len(log) :
       /\ log[i].revision \in 1..Len(snapshots)
       /\ log[i].sequence <= snapshots[log[i].revision].sequence
       /\ log[i].seen # NoPayload /\ log[i].revision = log[i].seen.revision =>
            log[i].sequence = log[i].seen.sequence + 1
  /\ \A i, j \in 1..Len(log) :
       i < j /\ log[i].revision = log[j].revision => log[i].sequence < log[j].sequence

(* Every snapshot is where one of its events left it.                      *)
SnapshotsFollowLog ==
  \A r \in 1..Len(snapshots) : \E i \in 1..Len(log) :
    /\ log[i].revision = r
    /\ log[i].to = snapshots[r].state
    /\ log[i].sequence = snapshots[r].sequence

(* Event j approves this content of revision r, and up to event m nothing  *)
(* but execution follows.                                                  *)
Approves(events, content, j, r, m) ==
  /\ events[j].revision = r
  /\ events[j].by = "APPROVE" /\ events[j].actor = "HUMAN"
  /\ events[j].content = content
  /\ events[j].content.complete
  /\ \A k \in (j + 1)..m : events[k].revision = r => events[k].to \in Executing

(* What is approved or executing stands on a human's approval now, and did *)
(* so at each execution event.                                             *)
ApprovalStands ==
  \A r \in 1..Len(snapshots) :
    snapshots[r].state \in {"APPROVED"} \cup Executing =>
      \E j \in 1..Len(log) : Approves(log, snapshots[r].content, j, r, Len(log))

ApprovalStood ==
  \A i \in 1..Len(log) : log[i].to \in Executing =>
    /\ \E j \in 1..(i - 1) :
         Approves(log, snapshots[log[i].revision].content, j, log[i].revision, i - 1)
    /\ log[i].evidence \subseteq snapshots[log[i].revision].content.terms
    /\ log[i].to = "COMPLETED" => log[i].evidence = snapshots[log[i].revision].content.terms

IntentInv ==
  /\ IntentTypes
  /\ LogIsOrdered
  /\ SnapshotsFollowLog
  /\ ApprovalStands
  /\ ApprovalStood
  /\ OneEffectPerKey

-----------------------------------------------------------------------------
(* The transition table.                                                   *)

LEMMA AllowedTransitions ==
  ASSUME NEW t \in Allowed
  PROVE  /\ t.from \in States \ Terminal /\ t.to \in States
         /\ t.by \in HumanOnly \cup SystemOnly \cup {"SUPERSEDE_WITH_REPLACEMENT"}
         /\ t.to = "APPROVED" => t.by = "APPROVE"
         /\ t.to \in Executing => t.from \in {"APPROVED"} \cup Executing
         /\ t.to = "COMPLETED" => t.by = "RECORD_COMPLETION"
BY DEF Allowed, States, Terminal, HumanOnly, SystemOnly, Executing

(* Moves of the abstract revisions that the table's entries are.           *)
PhaseMoves ==
  [from : {"review"}, to : {"authorized"}]
  \cup [from : {"authorized", "requested", "fulfilling"}, to : {"review"}]
  \cup [from : {"authorized"}, to : {"requested"}]
  \cup [from : {"requested"}, to : {"fulfilling"}]
  \cup [from : {"requested", "fulfilling"}, to : {"completed"}]
  \cup [from : {"review", "authorized", "requested", "fulfilling"}, to : {"closed"}]

LEMMA AllowedPhases ==
  ASSUME NEW t \in Allowed
  PROVE  \/ PhaseOf(t.from) = PhaseOf(t.to)
         \/ [from |-> PhaseOf(t.from), to |-> PhaseOf(t.to)] \in PhaseMoves
<1>1. /\ \A state \in {"PENDING_REVIEW", "DEFERRED", "QUARANTINED"} : PhaseOf(state) = "review"
      /\ PhaseOf("APPROVED") = "authorized"
      /\ PhaseOf("EXECUTION_REQUESTED") = "requested"
      /\ PhaseOf("PARTIALLY_EXECUTED") = "fulfilling"
      /\ PhaseOf("COMPLETED") = "completed"
      /\ \A state \in {"REJECTED", "CANCELLED", "EXPIRED", "SUPERSEDED"} : PhaseOf(state) = "closed"
  BY DEF PhaseOf
<1>. QED BY <1>1 DEF Allowed, States, Terminal, PhaseMoves

-----------------------------------------------------------------------------
(* One event more.                                                         *)

(* The newest snapshot in its next state.                                  *)
Moved(to) == [snapshots EXCEPT ![Newest].state = to, ![Newest].sequence = @ + 1]

LEMMA NewestMoves ==
  ASSUME IntentTypes, Newest > 0, NEW to \in States
  PROVE  /\ Newest \in Nat /\ Newest \in 1..Newest /\ Newest \in 1..MaxRevisions
         /\ \A r \in 1..Newest : snapshots[r] \in SnapshotRecord
         /\ Current = snapshots[Newest] /\ Current.sequence \in Nat
         /\ Moved(to) \in Seq(SnapshotRecord) /\ Len(Moved(to)) = Newest
         /\ \A r \in 1..Newest : r # Newest => Moved(to)[r] = snapshots[r]
         /\ Moved(to)[Newest] = Snapshot(Current.content, to, Current.sequence + 1)
<1>. DEFINE next == Snapshot(Current.content, to, Current.sequence + 1)
<1>1. /\ Newest = Len(snapshots) /\ Newest \in Nat /\ Newest \in 1..Len(snapshots)
      /\ Newest \in 1..Newest /\ Newest \in 1..MaxRevisions
  BY IntentAssumption, LenProperties DEF IntentTypes, Newest
<1>2. \A r \in 1..Newest : snapshots[r] \in SnapshotRecord
  BY <1>1, ElementOfSeq DEF IntentTypes
<1>3. Current \in SnapshotRecord /\ Current = snapshots[Newest]
  BY <1>1, <1>2 DEF Current
<1>4. Current.sequence \in Nat /\ next \in SnapshotRecord
  BY <1>3 DEF SnapshotRecord, Snapshot
<1>5. Moved(to) = [snapshots EXCEPT ![Newest] = next]
  <2>1. [[Current EXCEPT !.state = to] EXCEPT !.sequence = @ + 1] = next
    <3>1. \A c \in SnapshotRecord : [c EXCEPT !.state = to] = Snapshot(c.content, to, c.sequence)
      BY DEF SnapshotRecord, Snapshot
    <3>2. \A c \in SnapshotRecord, n \in Nat :
            [c EXCEPT !.sequence = n] = Snapshot(c.content, c.state, n)
      BY DEF SnapshotRecord, Snapshot
    <3>3. Snapshot(Current.content, to, Current.sequence) \in SnapshotRecord
      BY <1>3 DEF SnapshotRecord, Snapshot
    <3>4. [Snapshot(Current.content, to, Current.sequence) EXCEPT !.sequence = Current.sequence + 1]
            = next
      BY <1>4, <3>2, <3>3 DEF Snapshot
    <3>. QED BY <1>3, <3>1, <3>4 DEF Snapshot
  <2>2. DOMAIN snapshots = 1..Len(snapshots) /\ snapshots \in [1..Len(snapshots) -> SnapshotRecord]
    BY LenProperties DEF IntentTypes
  <2>3. Moved(to)
          = [snapshots EXCEPT ![Newest] = [[Current EXCEPT !.state = to] EXCEPT !.sequence = @ + 1]]
    BY <1>1, <2>2 DEF Current, Moved
  <2>. QED BY <2>1, <2>3
<1>6. /\ Moved(to) \in Seq(SnapshotRecord) /\ Len(Moved(to)) = Newest
      /\ \A r \in 1..Newest : r # Newest => Moved(to)[r] = snapshots[r]
      /\ Moved(to)[Newest] = next
  <2>. HIDE DEF next
  <2>. QED BY <1>1, <1>4, <1>5, ExceptSeq DEF IntentTypes
<1>. QED BY <1>1, <1>2, <1>3, <1>4, <1>6

(* What Advance does to the newest snapshot and the log.                   *)
AdvancesBy(t, by, actor, key, content, evidence, view) ==
  LET e == Event(Newest, Current.sequence + 1, t.from, t.to, by, actor, key,
                 content, evidence, view)
  IN  /\ t.from = Current.state /\ t.by = by
      /\ snapshots' = Moved(t.to)
      /\ e \in EventRecord
      /\ log' = Append(log, e)

LEMMA AdvanceShape ==
  ASSUME IntentTypes, Newest > 0,
         NEW by, NEW actor \in Actors, NEW key \in Keys, NEW content \in Contents \cup {NoPayload},
         NEW evidence \in SUBSET Symbols, NEW view \in View,
         Advance(by, actor, key, content, evidence, view)
  PROVE  \E t \in Allowed : AdvancesBy(t, by, actor, key, content, evidence, view)
<1>1. PICK t \in Allowed :
        /\ t.from = Current.state /\ t.by = by
        /\ snapshots' = Moved(t.to)
        /\ log' = Append(log, Event(Newest, Current.sequence + 1, t.from, t.to, by, actor, key,
                                    content, evidence, view))
  BY DEF Advance, Moved
<1>2. /\ t.to \in States /\ t.from \in States
      /\ t.by \in HumanOnly \cup SystemOnly \cup {"SUPERSEDE_WITH_REPLACEMENT"}
  BY AllowedTransitions
<1>3. Newest \in 1..MaxRevisions /\ Current.sequence + 1 \in Nat
  BY <1>2, NewestMoves
<1>4. Event(Newest, Current.sequence + 1, t.from, t.to, by, actor, key, content, evidence, view)
        \in EventRecord
  BY <1>1, <1>2, <1>3 DEF Event, EventRecord
<1>. QED BY <1>1, <1>4 DEF AdvancesBy

LEMMA ViewsAreSeen ==
  ASSUME IntentTypes, NEW view \in Views
  PROVE  view \in View
<1>1. PICK i \in 1..Len(log) :
        view = [revision |-> log[i].revision, state |-> log[i].to, sequence |-> log[i].sequence]
  BY DEF Views
<1>2. log[i] \in EventRecord
  BY ElementOfSeq DEF IntentTypes
<1>. QED BY <1>1, <1>2 DEF EventRecord, View

(* An accepted command other than SUBMIT and SUPERSEDE_WITH_REPLACEMENT,   *)
(* with what its own checks have established.                              *)
LEMMA AdvanceInv ==
  ASSUME IntentInv, Newest > 0,
         NEW by, NEW actor \in Actors, NEW key \in Keys, NEW content \in Contents \cup {NoPayload},
         NEW evidence \in SUBSET Symbols, NEW view \in Views,
         IsNew(key), Expected(view),
         by = "APPROVE" => actor = "HUMAN" /\ content = Current.content /\ content.complete,
         evidence \subseteq Current.content.terms,
         by = "RECORD_COMPLETION" => evidence = Current.content.terms,
         Advance(by, actor, key, content, evidence, view)
  PROVE  IntentInv'
<1>. DEFINE n == Len(log)
            e(t) == Event(Newest, Current.sequence + 1, t.from, t.to, by, actor, key,
                          content, evidence, view)
<1>1. PICK t \in Allowed :
        /\ t.from = Current.state /\ t.by = by
        /\ snapshots' = Moved(t.to)
        /\ e(t) \in EventRecord
        /\ log' = Append(log, e(t))
  <2>1. view \in View /\ IntentTypes
    BY ViewsAreSeen DEF IntentInv
  <2>2. PICK t \in Allowed : AdvancesBy(t, by, actor, key, content, evidence, view)
    BY <2>1, AdvanceShape
  <2>. QED BY <2>2 DEF AdvancesBy
<1>2. /\ e(t).revision = Newest /\ e(t).sequence = Current.sequence + 1
      /\ e(t).to = t.to /\ e(t).by = by /\ e(t).actor = actor /\ e(t).key = key
      /\ e(t).content = content /\ e(t).evidence = evidence /\ e(t).seen = view
  BY DEF Event
<1>3. /\ n \in Nat /\ log' \in Seq(EventRecord) /\ Len(log') = n + 1
      /\ \A i \in 1..n : log'[i] = log[i] /\ log[i] \in EventRecord
      /\ log'[n + 1] = e(t)
  <2>1. log \in Seq(EventRecord)
    BY DEF IntentInv, IntentTypes
  <2>2. n \in Nat /\ \A i \in 1..n : log[i] \in EventRecord
    BY <2>1, LenProperties, ElementOfSeq
  <2>. HIDE DEF e
  <2>. QED BY <1>1, <2>1, <2>2, AppendProperties
<1>4. t.to \in States /\ IntentTypes
  BY AllowedTransitions DEF IntentInv
<1>5. /\ Newest \in Nat /\ Newest \in 1..Newest
      /\ Current = snapshots[Newest] /\ Current.sequence \in Nat
      /\ snapshots' \in Seq(SnapshotRecord) /\ Len(snapshots') = Newest
      /\ \A r \in 1..Newest : snapshots[r] \in SnapshotRecord
      /\ \A r \in 1..Newest : r # Newest => snapshots'[r] = snapshots[r]
      /\ snapshots'[Newest] = Snapshot(Current.content, t.to, Current.sequence + 1)
  BY <1>1, <1>4, NewestMoves
<1>6. /\ \A r \in 1..Newest : snapshots'[r].content = snapshots[r].content
      /\ snapshots'[Newest].state = t.to
      /\ snapshots'[Newest].sequence = Current.sequence + 1
  BY <1>5 DEF Snapshot
<1>7. IntentTypes'
  BY <1>3, <1>5 DEF IntentInv, IntentTypes, Newest
<1>8. LogIsOrdered'
  <2>1. /\ view.sequence = Current.sequence
        /\ \A i \in 1..n : log[i].sequence \in Nat /\ log[i].revision \in 1..Newest
        /\ \A r \in 1..Newest : snapshots[r].sequence \in Nat
    BY <1>3, <1>5 DEF Expected, IntentInv, LogIsOrdered, Newest, EventRecord, SnapshotRecord
  <2>2. \A r \in 1..Newest : snapshots[r].sequence <= snapshots'[r].sequence
    BY <1>5, <1>6, <2>1 DEF Current
  <2>3. ASSUME NEW i \in 1..(n + 1)
        PROVE  /\ log'[i].revision \in 1..Newest
               /\ log'[i].sequence <= snapshots'[log'[i].revision].sequence
               /\ log'[i].seen # NoPayload /\ log'[i].revision = log'[i].seen.revision =>
                    log'[i].sequence = log'[i].seen.sequence + 1
    <3>1. CASE i = n + 1
      BY <1>2, <1>3, <1>5, <1>6, <2>1, <3>1
    <3>2. CASE i \in 1..n
      <4>1. /\ log[i].sequence <= snapshots[log[i].revision].sequence
            /\ log[i].seen # NoPayload /\ log[i].revision = log[i].seen.revision =>
                    log[i].sequence = log[i].seen.sequence + 1
        BY <3>2 DEF IntentInv, LogIsOrdered
      <4>2. /\ log'[i] = log[i] /\ log[i].revision \in 1..Newest
            /\ snapshots[log[i].revision].sequence <= snapshots'[log[i].revision].sequence
        BY <1>3, <2>1, <2>2, <3>2
      <4>3. \A r \in 1..Newest : snapshots'[r].sequence \in Nat
        <5>1. \A r \in 1..Newest : r = Newest \/ snapshots'[r] = snapshots[r]
          BY <1>5
        <5>2. Current.sequence + 1 \in Nat
          BY <1>5
        <5>. QED BY <1>6, <2>1, <5>1, <5>2
      <4>4. log[i].sequence <= snapshots'[log[i].revision].sequence
        BY <2>1, <3>2, <4>1, <4>2, <4>3
      <4>. QED BY <4>1, <4>2, <4>4
    <3>. QED BY <1>3, <3>1, <3>2
  <2>4. ASSUME NEW i \in 1..(n + 1), NEW j \in 1..(n + 1), i < j, log'[i].revision = log'[j].revision
        PROVE  log'[i].sequence < log'[j].sequence
    <3>1. i \in 1..n
      BY <1>3, <2>4
    <3>2. CASE j = n + 1
      <4>1. log[i].revision = Newest /\ log[i].sequence <= Current.sequence
        BY <1>2, <1>3, <2>4, <3>1, <3>2 DEF IntentInv, LogIsOrdered, Current
      <4>. QED BY <1>2, <1>3, <1>5, <2>1, <3>1, <3>2, <4>1
    <3>3. CASE j \in 1..n
      BY <1>3, <2>4, <3>1, <3>3 DEF IntentInv, LogIsOrdered
    <3>. QED BY <1>3, <3>2, <3>3
  <2>. QED BY <1>3, <1>5, <2>3, <2>4 DEF LogIsOrdered
<1>9. SnapshotsFollowLog'
  <2>. SUFFICES ASSUME NEW r \in 1..Newest
                PROVE  \E i \in 1..(n + 1) : /\ log'[i].revision = r
                                             /\ log'[i].to = snapshots'[r].state
                                             /\ log'[i].sequence = snapshots'[r].sequence
    BY <1>3, <1>5 DEF SnapshotsFollowLog
  <2>1. CASE r = Newest
    BY <1>2, <1>3, <1>6, <2>1
  <2>2. CASE r # Newest
    <3>1. PICK i \in 1..n : /\ log[i].revision = r /\ log[i].to = snapshots[r].state
                            /\ log[i].sequence = snapshots[r].sequence
      BY DEF IntentInv, SnapshotsFollowLog, Newest
    <3>. QED BY <1>3, <1>5, <2>2, <3>1
  <2>. QED BY <2>1, <2>2
<1>10. \A content_, r : \A j \in 1..n, m \in 0..n :
         Approves(log, content_, j, r, m) => Approves(log', content_, j, r, m)
  BY <1>3 DEF Approves
<1>11. ASSUME NEW r \in 1..Newest, snapshots[r].state \in {"APPROVED"} \cup Executing
       PROVE  \E j \in 1..n : /\ Approves(log', snapshots[r].content, j, r, n)
                              /\ (e(t).revision = r => e(t).to \in Executing) =>
                                    Approves(log', snapshots[r].content, j, r, n + 1)
  <2>1. PICK j \in 1..n : Approves(log, snapshots[r].content, j, r, n)
    BY <1>11 DEF IntentInv, ApprovalStands, Newest
  <2>2. Approves(log', snapshots[r].content, j, r, n)
    BY <1>3, <1>10, <2>1
  <2>3. (e(t).revision = r => e(t).to \in Executing) =>
          Approves(log', snapshots[r].content, j, r, n + 1)
    BY <1>3, <2>2 DEF Approves
  <2>. QED BY <2>2, <2>3
<1>12. ApprovalStands'
  <2>. SUFFICES ASSUME NEW r \in 1..Newest, snapshots'[r].state \in {"APPROVED"} \cup Executing
                PROVE  \E j \in 1..(n + 1) : Approves(log', snapshots[r].content, j, r, n + 1)
    BY <1>3, <1>5, <1>6 DEF ApprovalStands
  <2>1. CASE r = Newest /\ t.to = "APPROVED"
    <3>1. by = "APPROVE"
      BY <1>1, <2>1, AllowedTransitions
    <3>2. Approves(log', snapshots[r].content, n + 1, r, n + 1)
      BY <1>2, <1>3, <2>1, <3>1 DEF Approves, Current
    <3>. QED BY <1>3, <3>2
  <2>2. CASE r = Newest /\ t.to # "APPROVED"
    <3>1. t.to \in Executing
      BY <1>6, <2>2
    <3>2. snapshots[r].state \in {"APPROVED"} \cup Executing
      BY <1>1, <2>2, <3>1, AllowedTransitions DEF Current
    <3>. QED BY <1>2, <1>3, <1>11, <3>1, <3>2
  <2>3. CASE r # Newest
    <3>1. snapshots[r].state \in {"APPROVED"} \cup Executing
      BY <1>5, <2>3
    <3>. QED BY <1>2, <1>3, <1>11, <2>3, <3>1
  <2>. QED BY <2>1, <2>2, <2>3
<1>13. ApprovalStood'
  <2>. SUFFICES ASSUME NEW i \in 1..(n + 1), log'[i].to \in Executing,
                       NEW r, r = log'[i].revision
                PROVE  /\ \E j \in 1..(i - 1) : Approves(log', snapshots'[r].content, j, r, i - 1)
                       /\ log'[i].evidence \subseteq snapshots'[r].content.terms
                       /\ log'[i].to = "COMPLETED" => log'[i].evidence = snapshots'[r].content.terms
    BY <1>3 DEF ApprovalStood
  <2>1. CASE i = n + 1
    <3>1. r = Newest /\ snapshots'[r].content = snapshots[r].content /\ snapshots[r] = Current
      BY <1>2, <1>3, <1>5, <1>6, <2>1 DEF Current
    <3>2. t.to \in Executing /\ snapshots[r].state \in {"APPROVED"} \cup Executing
      BY <1>1, <1>2, <1>3, <2>1, <3>1, AllowedTransitions
    <3>3. \E j \in 1..n : Approves(log', snapshots[r].content, j, r, n)
      BY <1>5, <1>11, <3>1, <3>2
    <3>4. t.to = "COMPLETED" => by = "RECORD_COMPLETION"
      BY <1>1, AllowedTransitions
    <3>5. i - 1 = n
      BY <1>3, <2>1
    <3>. QED BY <1>2, <1>3, <2>1, <3>1, <3>3, <3>4, <3>5
  <2>2. CASE i \in 1..n
    <3>1. /\ r = log[i].revision /\ r \in 1..Newest /\ log'[i] = log[i]
          /\ snapshots'[r].content = snapshots[r].content
      BY <1>3, <1>6, <2>2 DEF IntentInv, LogIsOrdered, Newest
    <3>2. PICK j \in 1..(i - 1) : Approves(log, snapshots[r].content, j, r, i - 1)
      BY <1>3, <2>2, <3>1 DEF IntentInv, ApprovalStood
    <3>3. j \in 1..n /\ i - 1 \in 0..n
      BY <1>3, <2>2, <3>2
    <3>4. Approves(log', snapshots[r].content, j, r, i - 1)
      BY <1>10, <3>2, <3>3
    <3>5. /\ log[i].evidence \subseteq snapshots[r].content.terms
          /\ log[i].to = "COMPLETED" => log[i].evidence = snapshots[r].content.terms
      BY <2>2, <3>1 DEF IntentInv, ApprovalStood
    <3>. QED BY <3>1, <3>2, <3>4, <3>5
  <2>. QED BY <1>3, <2>1, <2>2
<1>14. OneEffectPerKey'
  <2>1. \A i \in 1..n : log[i].key # key
    BY DEF IsNew, UsedKeys
  <2>. SUFFICES ASSUME NEW i \in 1..(n + 1), NEW j \in 1..(n + 1), log'[i].key = log'[j].key
                PROVE  log'[i].seen = log'[j].seen /\ (log'[i].by = log'[j].by => i = j)
    BY <1>3 DEF OneEffectPerKey
  <2>2. CASE i = n + 1 \/ j = n + 1
    BY <1>2, <1>3, <2>1, <2>2
  <2>3. CASE i \in 1..n /\ j \in 1..n
    BY <1>3, <2>3 DEF IntentInv, OneEffectPerKey
  <2>. QED BY <1>3, <2>2, <2>3
<1>. QED BY <1>7, <1>8, <1>9, <1>12, <1>13, <1>14 DEF IntentInv

-----------------------------------------------------------------------------
(* A new revision.                                                         *)

LEMMA SubmitInv ==
  ASSUME IntentInv, NEW actor \in Actors, NEW key \in Keys, NEW content \in Contents,
         Submit(actor, key, content)
  PROVE  IntentInv'
<1>. DEFINE e == Event(1, 1, NoPayload, "PENDING_REVIEW", "SUBMIT", actor, key, NoPayload, {},
                       NoPayload)
            s == Snapshot(content, "PENDING_REVIEW", 1)
<1>1. snapshots' = <<s>> /\ log' = <<e>>
  BY DEF Submit
<1>2. /\ e.revision = 1 /\ e.sequence = 1 /\ e.to = "PENDING_REVIEW" /\ e.seen = NoPayload
      /\ s.state = "PENDING_REVIEW" /\ s.sequence = 1
  BY DEF Event, Snapshot
<1>3. e \in EventRecord /\ s \in SnapshotRecord
  BY IntentAssumption DEF Event, EventRecord, Snapshot, SnapshotRecord, States, Terminal
<1>. HIDE DEF e, s
<1>4. /\ snapshots' \in Seq(SnapshotRecord) /\ Len(snapshots') = 1 /\ snapshots'[1] = s
      /\ log' \in Seq(EventRecord) /\ Len(log') = 1 /\ log'[1] = e
  BY <1>1, <1>3
<1>5. IntentTypes'
  BY <1>4, IntentAssumption DEF IntentTypes
<1>6. LogIsOrdered' /\ SnapshotsFollowLog'
  BY <1>2, <1>4 DEF LogIsOrdered, SnapshotsFollowLog
<1>7. ApprovalStands' /\ ApprovalStood'
  BY <1>2, <1>4 DEF ApprovalStands, ApprovalStood, Executing
<1>8. OneEffectPerKey'
  BY <1>4 DEF OneEffectPerKey
<1>. QED BY <1>5, <1>6, <1>7, <1>8 DEF IntentInv

LEMMA SupersedeInv ==
  ASSUME IntentInv, NEW actor \in Actors, NEW key \in Keys, NEW content \in Contents,
         NEW alsoApprove \in BOOLEAN, NEW view \in Views,
         Supersede(actor, key, content, alsoApprove, view)
  PROVE  IntentInv'
<1>. DEFINE n        == Len(log)
            m        == IF alsoApprove THEN n + 3 ELSE n + 2
            state    == IF alsoApprove THEN "APPROVED" ELSE "PENDING_REVIEW"
            sequence == IF alsoApprove THEN 2 ELSE 1
            closed   == Event(Newest, Current.sequence + 1, Current.state, "SUPERSEDED",
                              "SUPERSEDE_WITH_REPLACEMENT", actor, key, NoPayload, {}, view)
            created  == Event(Newest + 1, 1, NoPayload, "PENDING_REVIEW", "SUBMIT", actor, key,
                              NoPayload, {}, view)
            approved == Event(Newest + 1, 2, "PENDING_REVIEW", "APPROVED", "APPROVE", actor, key,
                              content, {}, view)
<1>1. /\ IsNew(key) /\ Newest > 0 /\ Newest < MaxRevisions /\ view.revision = Newest
      /\ view.sequence = Current.sequence
      /\ alsoApprove => actor = "HUMAN" /\ content.complete
      /\ snapshots' = Append(Moved("SUPERSEDED"), Snapshot(content, state, sequence))
      /\ log' = IF alsoApprove THEN log \o <<closed, created, approved>>
                                ELSE log \o <<closed, created>>
  BY DEF Supersede, Admits, Expected, Superseded, Moved
<1>2. /\ closed.revision = Newest /\ closed.sequence = Current.sequence + 1
      /\ closed.to = "SUPERSEDED" /\ closed.by = "SUPERSEDE_WITH_REPLACEMENT"
      /\ created.revision = Newest + 1 /\ created.sequence = 1
      /\ created.to = "PENDING_REVIEW" /\ created.by = "SUBMIT"
      /\ approved.revision = Newest + 1 /\ approved.sequence = 2
      /\ approved.to = "APPROVED" /\ approved.by = "APPROVE" /\ approved.actor = actor
      /\ approved.content = content
      /\ closed.seen = view /\ created.seen = view /\ approved.seen = view
      /\ closed.key = key /\ created.key = key /\ approved.key = key
  BY DEF Event
<1>3. /\ IntentTypes /\ view \in View /\ "SUPERSEDED" \in States
      /\ "PENDING_REVIEW" \in States /\ "APPROVED" \in States
  BY ViewsAreSeen DEF IntentInv, States, Terminal
<1>4. /\ Newest \in Nat /\ Newest \in 1..Newest /\ Newest \in 1..MaxRevisions
      /\ \A r \in 1..Newest : snapshots[r] \in SnapshotRecord
      /\ Current = snapshots[Newest] /\ Current.sequence \in Nat
      /\ Moved("SUPERSEDED") \in Seq(SnapshotRecord) /\ Len(Moved("SUPERSEDED")) = Newest
      /\ \A r \in 1..Newest : r # Newest => Moved("SUPERSEDED")[r] = snapshots[r]
      /\ Moved("SUPERSEDED")[Newest] = Snapshot(Current.content, "SUPERSEDED", Current.sequence + 1)
  BY <1>1, <1>3, NewestMoves
<1>5. closed \in EventRecord /\ created \in EventRecord /\ approved \in EventRecord
  <2>1. /\ Newest + 1 \in 1..MaxRevisions /\ Current.sequence + 1 \in Nat
        /\ Current.state \in States
    <3>1. Newest + 1 \in 1..MaxRevisions
      <4>1. Newest < MaxRevisions
        BY <1>1
      <4>2. Newest \in Nat
        BY <1>4
      <4>. QED BY <4>1, <4>2, IntentAssumption
    <3>2. Current.sequence + 1 \in Nat
      BY <1>4
    <3>3. Current \in SnapshotRecord
      BY <1>4
    <3>4. Current.state \in States
      BY <3>3 DEF SnapshotRecord
    <3>. QED BY <3>1, <3>2, <3>4
  <2>2. {"SUPERSEDE_WITH_REPLACEMENT", "SUBMIT", "APPROVE"} \subseteq
          HumanOnly \cup SystemOnly \cup {"SUBMIT", "SUPERSEDE_WITH_REPLACEMENT"}
    BY DEF HumanOnly
  <2>. QED BY <1>3, <1>4, <2>1, <2>2 DEF Event, EventRecord
<1>. HIDE DEF closed, created, approved
<1>6. /\ n \in Nat /\ log' \in Seq(EventRecord) /\ Len(log') = m
      /\ \A i \in 1..n : log'[i] = log[i] /\ log[i] \in EventRecord
      /\ log'[n + 1] = closed /\ log'[n + 2] = created
      /\ alsoApprove => log'[n + 3] = approved
  <2>1. log \in Seq(EventRecord) /\ n \in Nat /\ \A i \in 1..n : log[i] \in EventRecord
    BY <1>3, LenProperties, ElementOfSeq DEF IntentTypes
  <2>2. CASE alsoApprove
    <3>. DEFINE more == <<closed, created, approved>>
    <3>1. more \in Seq(EventRecord) /\ Len(more) = 3
          /\ more[1] = closed /\ more[2] = created /\ more[3] = approved
      BY <1>5
    <3>. HIDE DEF more
    <3>2. /\ log' \in Seq(EventRecord) /\ Len(log') = n + 3
          /\ \A i \in 1..(n + 3) : log'[i] = IF i <= n THEN log[i] ELSE more[i - n]
      <4>1. log' = log \o more
        BY <1>1, <2>2 DEF more
      <4>2. /\ log \o more \in Seq(EventRecord) /\ Len(log \o more) = n + Len(more)
            /\ \A i \in 1..(n + Len(more)) :
                 (log \o more)[i] = IF i <= n THEN log[i] ELSE more[i - n]
        BY <2>1, <3>1, ConcatProperties
      <4>. QED BY <3>1, <4>1, <4>2
    <3>. QED BY <2>1, <2>2, <3>1, <3>2
  <2>3. CASE ~alsoApprove
    <3>. DEFINE more == <<closed, created>>
    <3>1. more \in Seq(EventRecord) /\ Len(more) = 2 /\ more[1] = closed /\ more[2] = created
      BY <1>5
    <3>. HIDE DEF more
    <3>2. /\ log' \in Seq(EventRecord) /\ Len(log') = n + 2
          /\ \A i \in 1..(n + 2) : log'[i] = IF i <= n THEN log[i] ELSE more[i - n]
      <4>1. log' = log \o more
        BY <1>1, <2>3 DEF more
      <4>2. /\ log \o more \in Seq(EventRecord) /\ Len(log \o more) = n + Len(more)
            /\ \A i \in 1..(n + Len(more)) :
                 (log \o more)[i] = IF i <= n THEN log[i] ELSE more[i - n]
        BY <2>1, <3>1, ConcatProperties
      <4>. QED BY <3>1, <4>1, <4>2
    <3>. QED BY <2>1, <2>3, <3>1, <3>2
  <2>. QED BY <2>2, <2>3
<1>7. /\ snapshots' \in Seq(SnapshotRecord) /\ Len(snapshots') = Newest + 1
      /\ \A r \in 1..Newest : r # Newest => snapshots'[r] = snapshots[r]
      /\ \A r \in 1..Newest : snapshots'[r].content = snapshots[r].content
      /\ snapshots'[Newest].state = "SUPERSEDED"
      /\ snapshots'[Newest].sequence = Current.sequence + 1
      /\ snapshots'[Newest + 1].content = content
      /\ snapshots'[Newest + 1].state = state
      /\ snapshots'[Newest + 1].sequence = sequence
  <2>. DEFINE s == Snapshot(content, state, sequence)
  <2>1. s \in SnapshotRecord /\ s.content = content /\ s.state = state /\ s.sequence = sequence
    BY <1>3 DEF Snapshot, SnapshotRecord
  <2>. HIDE DEF s
  <2>2. /\ snapshots' \in Seq(SnapshotRecord) /\ Len(snapshots') = Newest + 1
        /\ \A r \in 1..Newest : snapshots'[r] = Moved("SUPERSEDED")[r]
        /\ snapshots'[Newest + 1] = s
    <3>1. snapshots' = Append(Moved("SUPERSEDED"), s)
      BY <1>1 DEF s
    <3>. QED BY <1>4, <2>1, <3>1, AppendProperties
  <2>3. \A r \in 1..Newest : r # Newest => snapshots'[r] = snapshots[r]
    BY <1>4, <2>2
  <2>4. snapshots'[Newest] = Snapshot(Current.content, "SUPERSEDED", Current.sequence + 1)
    BY <1>4, <2>2
  <2>5. /\ snapshots'[Newest].content = snapshots[Newest].content
        /\ snapshots'[Newest].state = "SUPERSEDED"
        /\ snapshots'[Newest].sequence = Current.sequence + 1
    BY <1>4, <2>4 DEF Snapshot
  <2>. QED BY <2>1, <2>2, <2>3, <2>5
<1>8. IntentTypes'
  BY <1>1, <1>4, <1>6, <1>7, IntentAssumption DEF IntentTypes
<1>. /\ m \in Nat /\ n + 2 <= m /\ (alsoApprove => m = n + 3) /\ (~alsoApprove => m = n + 2)
     /\ sequence \in Nat /\ 1 <= sequence /\ (alsoApprove => sequence = 2) /\ (~alsoApprove => sequence = 1)
  BY <1>6
<1>. HIDE DEF m, sequence
<1>9. \A i \in 1..n : /\ log[i].revision \in 1..Newest /\ log[i].sequence \in Nat
                      /\ log[i].sequence <= snapshots[log[i].revision].sequence
                      /\ snapshots[log[i].revision].sequence \in Nat
  BY <1>4, <1>6 DEF IntentInv, LogIsOrdered, Newest, EventRecord, SnapshotRecord
<1>10. \A i \in 1..m : i \in 1..n \/ i = n + 1 \/ i = n + 2 \/ (alsoApprove /\ i = n + 3)
  BY <1>6
<1>11. LogIsOrdered'
  <2>1. ASSUME NEW i \in 1..m
        PROVE  /\ log'[i].revision \in 1..(Newest + 1)
               /\ log'[i].sequence <= snapshots'[log'[i].revision].sequence
               /\ log'[i].seen # NoPayload /\ log'[i].revision = log'[i].seen.revision =>
                    log'[i].sequence = log'[i].seen.sequence + 1
    <3>1. CASE i \in 1..n
      <4>1. /\ log'[i] = log[i] /\ log[i].revision \in 1..Newest
            /\ log[i].seen # NoPayload /\ log[i].revision = log[i].seen.revision =>
                    log[i].sequence = log[i].seen.sequence + 1
        BY <1>6, <1>9, <3>1 DEF IntentInv, LogIsOrdered
      <4>2. CASE log[i].revision = Newest
        <5>1. log[i].sequence <= Current.sequence /\ log[i].sequence \in Nat
          BY <1>4, <1>9, <3>1, <4>2
        <5>2. snapshots'[Newest].sequence = Current.sequence + 1 /\ Newest \in 1..(Newest + 1)
          BY <1>4, <1>7
        <5>. QED BY <1>4, <4>1, <4>2, <5>1, <5>2
      <4>3. CASE log[i].revision # Newest
        <5>1. snapshots'[log[i].revision] = snapshots[log[i].revision]
          BY <1>7, <4>1, <4>3
        <5>2. log[i].revision \in 1..(Newest + 1)
          BY <1>4, <4>1
        <5>. QED BY <1>9, <3>1, <4>1, <5>1, <5>2
      <4>. QED BY <4>2, <4>3
    <3>2. CASE i = n + 1
      <4>1. log'[i].revision = Newest /\ log'[i].sequence = Current.sequence + 1 /\ log'[i].seen = view
        BY <1>2, <1>6, <3>2
      <4>2. /\ Newest \in 1..(Newest + 1) /\ Current.sequence + 1 \in Nat
            /\ snapshots'[Newest].sequence = Current.sequence + 1
        BY <1>4, <1>7
      <4>3. view.revision = Newest /\ view.sequence = Current.sequence
        BY <1>1
      <4>. QED BY <4>1, <4>2, <4>3
    <3>3. CASE i = n + 2
      <4>1. log'[i].revision = Newest + 1 /\ log'[i].sequence = 1 /\ log'[i].seen = view
        BY <1>2, <1>6, <3>3
      <4>2. Newest + 1 \in 1..(Newest + 1) /\ Newest # Newest + 1 /\ snapshots'[Newest + 1].sequence = sequence
        BY <1>4, <1>7
      <4>3. view.revision = Newest /\ view.sequence = Current.sequence
        BY <1>1
      <4>. QED BY <4>1, <4>2, <4>3
    <3>4. CASE alsoApprove /\ i = n + 3
      <4>1. log'[i].revision = Newest + 1 /\ log'[i].sequence = 2 /\ log'[i].seen = view
        BY <1>2, <1>6, <3>4
      <4>2. Newest + 1 \in 1..(Newest + 1) /\ Newest # Newest + 1 /\ snapshots'[Newest + 1].sequence = sequence
        BY <1>4, <1>7
      <4>3. view.revision = Newest /\ sequence = 2
        BY <1>1, <3>4
      <4>. QED BY <4>1, <4>2, <4>3
    <3>. QED BY <1>10, <3>1, <3>2, <3>3, <3>4
  <2>2. ASSUME NEW i \in 1..m, NEW j \in 1..m, i < j, log'[i].revision = log'[j].revision
        PROVE  log'[i].sequence < log'[j].sequence
    <3>1. CASE j \in 1..n
      <4>1. i \in 1..n /\ log'[i] = log[i] /\ log'[j] = log[j]
        BY <1>6, <2>2, <3>1
      <4>. QED BY <2>2, <3>1, <4>1 DEF IntentInv, LogIsOrdered
    <3>2. CASE j = n + 1
      <4>1. i \in 1..n /\ log'[i] = log[i]
        BY <1>6, <2>2, <3>2
      <4>2. log[i].revision = Newest
        BY <1>2, <1>6, <2>2, <3>2, <4>1
      <4>3. log[i].sequence <= Current.sequence /\ log[i].sequence \in Nat
        BY <1>4, <1>9, <4>1, <4>2
      <4>. QED BY <1>2, <1>4, <1>6, <3>2, <4>1, <4>3, SMTT(20)
    <3>3. CASE j = n + 2
      <4>1. i \in 1..n \/ i = n + 1
        BY <1>6, <2>2, <3>3
      <4>2. log'[i].revision \in 1..Newest
        BY <1>2, <1>4, <1>6, <1>9, <4>1
      <4>. QED BY <1>2, <1>4, <1>6, <2>2, <3>3, <4>2
    <3>4. CASE alsoApprove /\ j = n + 3
      <4>1. i \in 1..n \/ i = n + 1 \/ i = n + 2
        BY <1>6, <2>2, <3>4
      <4>2. CASE i = n + 2
        BY <1>2, <1>6, <3>4, <4>2
      <4>3. CASE i # n + 2
        <5>1. log'[i].revision \in 1..Newest
          BY <1>2, <1>4, <1>6, <1>9, <4>1, <4>3
        <5>. QED BY <1>2, <1>4, <1>6, <2>2, <3>4, <5>1
      <4>. QED BY <4>2, <4>3
    <3>. QED BY <1>10, <3>1, <3>2, <3>3, <3>4
  <2>. QED BY <1>6, <1>7, <2>1, <2>2 DEF LogIsOrdered
<1>12. SnapshotsFollowLog'
  <2>. SUFFICES ASSUME NEW r \in 1..(Newest + 1)
                PROVE  \E i \in 1..m : /\ log'[i].revision = r
                                       /\ log'[i].to = snapshots'[r].state
                                       /\ log'[i].sequence = snapshots'[r].sequence
    BY <1>6, <1>7 DEF SnapshotsFollowLog
  <2>1. CASE r = Newest + 1
    <3>1. CASE alsoApprove
      BY <1>2, <1>6, <1>7, <2>1, <3>1
    <3>2. CASE ~alsoApprove
      BY <1>2, <1>6, <1>7, <2>1, <3>2
    <3>. QED BY <3>1, <3>2
  <2>2. CASE r = Newest
    <3>1. n + 1 \in 1..m
      BY <1>6
    <3>. QED BY <1>2, <1>6, <1>7, <2>2, <3>1
  <2>3. CASE r \in 1..Newest /\ r # Newest
    <3>1. PICK i \in 1..n : /\ log[i].revision = r /\ log[i].to = snapshots[r].state
                            /\ log[i].sequence = snapshots[r].sequence
      BY <2>3 DEF IntentInv, SnapshotsFollowLog, Newest
    <3>2. snapshots'[r] = snapshots[r]
      BY <1>7, <2>3
    <3>3. i \in 1..m /\ log'[i] = log[i]
      BY <1>6
    <3>. QED BY <3>1, <3>2, <3>3
  <2>4. r = Newest + 1 \/ r = Newest \/ (r \in 1..Newest /\ r # Newest)
    BY <1>4
  <2>. QED BY <2>1, <2>2, <2>3, <2>4
<1>13. \A text, r : \A j \in 1..n, u \in 0..n :
         Approves(log, text, j, r, u) => Approves(log', text, j, r, u)
  BY <1>6 DEF Approves
<1>14. ApprovalStands'
  <2>. SUFFICES ASSUME NEW r \in 1..(Newest + 1), snapshots'[r].state \in {"APPROVED"} \cup Executing
                PROVE  \E j \in 1..m : Approves(log', snapshots'[r].content, j, r, m)
    BY <1>6, <1>7 DEF ApprovalStands
  <2>1. CASE r = Newest + 1
    <3>1. alsoApprove
      BY <1>7, <2>1 DEF Executing
    <3>2. Approves(log', content, n + 3, r, m)
      BY <1>1, <1>2, <1>6, <2>1, <3>1 DEF Approves
    <3>. QED BY <1>6, <1>7, <2>1, <3>1, <3>2
  <2>2. CASE r = Newest
    BY <1>7, <2>2 DEF Executing
  <2>3. CASE r \in 1..Newest /\ r # Newest
    <3>1. PICK j \in 1..n : Approves(log, snapshots[r].content, j, r, n)
      BY <1>7, <2>3 DEF IntentInv, ApprovalStands, Newest
    <3>2. Approves(log', snapshots[r].content, j, r, n)
      BY <1>6, <1>13, <3>1
    <3>3. \A k \in (n + 1)..m : log'[k].revision # r
      <4>1. r # Newest + 1 /\ r # Newest
        BY <1>4, <2>3
      <4>2. ASSUME NEW k \in (n + 1)..m PROVE log'[k].revision \in {Newest, Newest + 1}
        <5>1. k \in {n + 1, n + 2, n + 3} /\ (k = n + 3 => alsoApprove)
          BY <1>6
        <5>. QED BY <1>2, <1>6, <5>1
      <4>. QED BY <4>1, <4>2
    <3>4. Approves(log', snapshots[r].content, j, r, m)
      BY <1>6, <1>10, <3>2, <3>3 DEF Approves
    <3>. QED BY <1>6, <1>7, <2>3, <3>4
  <2>. QED BY <1>4, <2>1, <2>2, <2>3
<1>15. ApprovalStood'
  <2>. SUFFICES ASSUME NEW i \in 1..m, log'[i].to \in Executing, NEW r, r = log'[i].revision
                PROVE  /\ \E j \in 1..(i - 1) : Approves(log', snapshots'[r].content, j, r, i - 1)
                       /\ log'[i].evidence \subseteq snapshots'[r].content.terms
                       /\ log'[i].to = "COMPLETED" => log'[i].evidence = snapshots'[r].content.terms
    BY <1>6 DEF ApprovalStood
  <2>1. i \in 1..n
    BY <1>2, <1>6, <1>10 DEF Executing
  <2>2. /\ r = log[i].revision /\ r \in 1..Newest /\ log'[i] = log[i]
        /\ snapshots'[r].content = snapshots[r].content
    BY <1>6, <1>7, <1>9, <2>1
  <2>3. PICK j \in 1..(i - 1) : Approves(log, snapshots[r].content, j, r, i - 1)
    BY <1>6, <2>1, <2>2 DEF IntentInv, ApprovalStood
  <2>4. j \in 1..n /\ i - 1 \in 0..n
    BY <1>6, <2>1, <2>3
  <2>5. Approves(log', snapshots[r].content, j, r, i - 1)
    BY <1>13, <2>3, <2>4
  <2>6. /\ log[i].evidence \subseteq snapshots[r].content.terms
        /\ log[i].to = "COMPLETED" => log[i].evidence = snapshots[r].content.terms
    BY <1>6, <2>1, <2>2 DEF IntentInv, ApprovalStood
  <2>. QED BY <2>2, <2>3, <2>5, <2>6
<1>16. OneEffectPerKey'
  <2>1. \A i \in 1..n : log[i].key # key
    BY <1>1 DEF IsNew, UsedKeys
  <2>2. \A i \in 1..m : i \notin 1..n => log'[i].key = key /\ log'[i].seen = view
    BY <1>2, <1>6, <1>10
  <2>3. \A i, j \in 1..m : i \notin 1..n /\ j \notin 1..n /\ log'[i].by = log'[j].by => i = j
    BY <1>2, <1>6, <1>10
  <2>. SUFFICES ASSUME NEW i \in 1..m, NEW j \in 1..m, log'[i].key = log'[j].key
                PROVE  log'[i].seen = log'[j].seen /\ (log'[i].by = log'[j].by => i = j)
    BY <1>6 DEF OneEffectPerKey
  <2>4. CASE i \in 1..n /\ j \in 1..n
    BY <1>6, <2>4 DEF IntentInv, OneEffectPerKey
  <2>5. CASE i \notin 1..n \/ j \notin 1..n
    BY <1>6, <2>1, <2>2, <2>3, <2>5
  <2>. QED BY <2>4, <2>5
<1>. QED BY <1>8, <1>11, <1>12, <1>14, <1>15, <1>16 DEF IntentInv

-----------------------------------------------------------------------------
(* All commands.                                                           *)

LEMMA IntentStepInv == IntentInv /\ [IntentNext]_intentVars => IntentInv'
<1>. SUFFICES ASSUME IntentInv, [IntentNext]_intentVars
              PROVE  IntentInv'
  OBVIOUS
<1>1. CASE UNCHANGED intentVars
  BY <1>1 DEF intentVars, IntentInv, IntentTypes, LogIsOrdered, SnapshotsFollowLog,
              ApprovalStands, ApprovalStood, Approves, OneEffectPerKey
<1>2. ASSUME NEW actor \in Actors, NEW key \in OfferedKeys, NEW c \in Contents, Submit(actor, key, c)
      PROVE  IntentInv'
  BY <1>2, SubmitInv DEF OfferedKeys
<1>3. ASSUME NEW actor \in Actors, NEW key \in OfferedKeys, NEW view \in Views,
             Approve(actor, key, view)
      PROVE  IntentInv'
  <2>. DEFINE content == snapshots[view.revision].content
  <2>1. /\ Newest > 0 /\ IsNew(key) /\ Expected(view) /\ actor = "HUMAN"
        /\ content = Current.content /\ content.complete
        /\ Advance("APPROVE", actor, key, content, {}, view)
    BY <1>3 DEF Approve, Admits, MayAct, HumanOnly
  <2>2. Current \in SnapshotRecord
    BY <2>1, NewestMoves, LenProperties, ElementOfSeq DEF IntentInv, IntentTypes, Current, Newest
  <2>3. content \in Contents \cup {NoPayload}
    BY <2>1, <2>2 DEF SnapshotRecord
  <2>. HIDE DEF content
  <2>. QED BY <2>1, <2>3, AdvanceInv DEF OfferedKeys
<1>4. ASSUME NEW actor \in Actors, NEW key \in OfferedKeys, NEW view \in Views,
             NEW by \in HumanOnly \cup SystemOnly, Decide(by, actor, key, view)
      PROVE  IntentInv'
  BY <1>4, AdvanceInv DEF Decide, Admits, OfferedKeys
<1>5. ASSUME NEW actor \in Actors, NEW key \in OfferedKeys, NEW view \in Views,
             NEW by \in SystemOnly, NEW evidence \in SUBSET Symbols,
             RecordExecution(by, actor, key, evidence, view)
      PROVE  IntentInv'
  <2>1. /\ Newest > 0 /\ IsNew(key) /\ Expected(view) /\ by # "APPROVE"
        /\ Advance(by, actor, key, NoPayload, evidence, view)
        /\ Fulfillment(Current.content.terms, evidence) = RequiredCoverage(by)
    BY <1>5 DEF RecordExecution, Admits
  <2>2. evidence \subseteq Current.content.terms
    BY <2>1 DEF Fulfillment, RequiredCoverage
  <2>3. by = "RECORD_COMPLETION" => evidence = Current.content.terms
    BY <2>1 DEF Fulfillment, RequiredCoverage
  <2>. QED BY <2>1, <2>2, <2>3, AdvanceInv DEF OfferedKeys
<1>6. ASSUME NEW actor \in Actors, NEW key \in OfferedKeys, NEW view \in Views, NEW c \in Contents,
             NEW alsoApprove \in BOOLEAN, Supersede(actor, key, c, alsoApprove, view)
      PROVE  IntentInv'
  BY <1>6, SupersedeInv DEF OfferedKeys
<1>. QED BY <1>1, <1>2, <1>3, <1>4, <1>5, <1>6 DEF IntentNext

LEMMA IntentAlwaysInv == IntentSpec => []IntentInv
<1>1. IntentInit => IntentInv
  BY IntentAssumption, EmptySeq DEF IntentInit, IntentInv, IntentTypes, LogIsOrdered,
     SnapshotsFollowLog, ApprovalStands, ApprovalStood, OneEffectPerKey
<1>. QED BY <1>1, IntentStepInv, PTL DEF IntentSpec

(* Whatever arrives late, twice or from whom, for any keys, contents and   *)
(* number of revisions: every execution event stands on a human's approval *)
(* of exactly this content and covers approved terms only.                 *)
THEOREM ExecutionIsAlwaysAuthorized == IntentSpec => []ExecutionIsAuthorized
<1>1. IntentInv => ExecutionIsAuthorized
  <2>. SUFFICES ASSUME IntentInv, NEW i \in 1..Len(log), log[i].to \in Executing
                PROVE  /\ \E j \in 1..(i - 1) :
                            Approves(log, snapshots[log[i].revision].content, j, log[i].revision, i - 1)
                       /\ log[i].evidence \subseteq snapshots[log[i].revision].content.terms
                       /\ log[i].to = "COMPLETED" =>
                            log[i].evidence = snapshots[log[i].revision].content.terms
    BY DEF ExecutionIsAuthorized, Approves
  <2>. QED BY DEF IntentInv, ApprovalStood
<1>. QED BY <1>1, IntentAlwaysInv, PTL

(* Of the commands sent on one view of a revision at most one advances it, *)
(* and a key has the effect of one command, however often and however late *)
(* commands arrive.                                                        *)
THEOREM CommandsAlwaysTakeEffectOnce == IntentSpec => []CommandsTakeEffectOnce
<1>1. IntentInv => CommandsTakeEffectOnce
  <2>. SUFFICES ASSUME IntentInv
                PROVE  CommandsTakeEffectOnce
    OBVIOUS
  <2>1. \A i \in 1..Len(log) : log[i].sequence \in Nat /\ Len(log) \in Nat
    <3>1. log \in Seq(EventRecord)
      BY DEF IntentInv, IntentTypes
    <3>2. Len(log) \in Nat /\ \A i \in 1..Len(log) : log[i] \in EventRecord
      BY <3>1, LenProperties, ElementOfSeq
    <3>. QED BY <3>2 DEF EventRecord
  <2>2. IntentTypeOK
    <3>. SUFFICES ASSUME NEW r \in 1..Len(snapshots)
                  PROVE  \E i \in 1..Len(log) : /\ log[i].revision = r
                                                /\ log[i].to = snapshots[r].state
                                                /\ log[i].sequence = snapshots[r].sequence
                                                /\ \A j \in (i + 1)..Len(log) : log[j].revision # r
      BY DEF IntentTypeOK, IntentInv, IntentTypes
    <3>1. PICK i \in 1..Len(log) : /\ log[i].revision = r /\ log[i].to = snapshots[r].state
                                   /\ log[i].sequence = snapshots[r].sequence
      BY DEF IntentInv, SnapshotsFollowLog
    <3>2. ASSUME NEW j \in (i + 1)..Len(log), log[j].revision = r
          PROVE  FALSE
      <4>1. j \in 1..Len(log) /\ i < j
        BY <2>1
      <4>2. log[i].sequence < log[j].sequence /\ log[j].sequence <= snapshots[r].sequence
        BY <3>1, <3>2, <4>1 DEF IntentInv, LogIsOrdered
      <4>. QED BY <2>1, <3>1, <4>1, <4>2
    <3>. QED BY <3>1, <3>2
  <2>3. OneWinnerPerView
    <3>. SUFFICES ASSUME NEW i \in 1..Len(log), NEW j \in 1..Len(log),
                         log[i].revision = log[j].revision, log[i].seen = log[j].seen,
                         log[i].seen # NoPayload, log[i].revision = log[i].seen.revision
                  PROVE  i = j
      BY DEF OneWinnerPerView
    <3>1. log[i].sequence = log[i].seen.sequence + 1 /\ log[j].sequence = log[j].seen.sequence + 1
      BY DEF IntentInv, LogIsOrdered
    <3>2. log[i].sequence = log[j].sequence
      BY <3>1
    <3>3. /\ i < j => log[i].sequence < log[j].sequence
          /\ j < i => log[j].sequence < log[i].sequence
      BY DEF IntentInv, LogIsOrdered
    <3>. QED BY <2>1, <3>2, <3>3
  <2>. QED BY <2>2, <2>3 DEF CommandsTakeEffectOnce, IntentInv
<1>. QED BY <1>1, IntentAlwaysInv, PTL

-----------------------------------------------------------------------------
(* Refinement: the phases of the revisions.                                *)

LEMMA PhasesOfSnapshots ==
  ASSUME NEW revisions \in Seq(SnapshotRecord)
  PROVE  /\ PhasesOf(revisions) \in Seq(Revisions!Phases)
         /\ Len(PhasesOf(revisions)) = Len(revisions)
         /\ \A r \in 1..Len(revisions) : PhasesOf(revisions)[r] = PhaseOf(revisions[r].state)
<1>1. Len(revisions) \in Nat
  BY LenProperties
<1>2. \A state : PhaseOf(state) \in Revisions!Phases
  BY DEF PhaseOf, Revisions!Phases
<1>3. PhasesOf(revisions) \in [1..Len(revisions) -> Revisions!Phases]
  BY <1>2 DEF PhasesOf
<1>4. PhasesOf(revisions) \in Seq(Revisions!Phases)
  BY <1>1, <1>3, SeqDef
<1>5. Len(PhasesOf(revisions)) = Len(revisions)
  BY <1>1, <1>4, LenProperties DEF PhasesOf
<1>. QED BY <1>4, <1>5 DEF PhasesOf

(* A transition of the newest snapshot moves its phase along the abstract  *)
(* revisions, or stays within it.                                          *)
LEMMA MovedPhases ==
  ASSUME IntentTypes, Newest > 0, NEW t \in Allowed,
         t.from = Current.state, snapshots' = Moved(t.to)
  PROVE  PhasesOf(snapshots') = PhasesOf(snapshots) \/ Revisions!RevisionsNext
<1>. DEFINE from == PhaseOf(t.from)
            to   == PhaseOf(t.to)
<1>1. t.to \in States
  BY AllowedTransitions
<1>2. /\ Newest = Len(snapshots) /\ Newest \in Nat /\ Newest \in 1..Newest
      /\ snapshots \in Seq(SnapshotRecord) /\ snapshots' \in Seq(SnapshotRecord)
      /\ Len(snapshots') = Newest /\ Current = snapshots[Newest]
      /\ \A r \in 1..Newest : r # Newest => snapshots'[r] = snapshots[r]
      /\ snapshots'[Newest].state = t.to
  <2>1. Newest = Len(snapshots) /\ snapshots \in Seq(SnapshotRecord)
    BY DEF Newest, IntentTypes
  <2>2. snapshots'[Newest] = Snapshot(Current.content, t.to, Current.sequence + 1)
    BY <1>1, NewestMoves
  <2>. QED BY <1>1, <2>1, <2>2, NewestMoves DEF Snapshot
<1>3. /\ PhasesOf(snapshots) \in Seq(Revisions!Phases) /\ Len(PhasesOf(snapshots)) = Newest
      /\ PhasesOf(snapshots)[Newest] = from /\ PhasesOf(snapshots) # <<>>
  BY <1>2, PhasesOfSnapshots, EmptySeq
<1>4. to \in Revisions!Phases
  BY DEF PhaseOf, Revisions!Phases
<1>5. PhasesOf(snapshots') = [PhasesOf(snapshots) EXCEPT ![Newest] = to]
  <2>. DEFINE moved == [PhasesOf(snapshots) EXCEPT ![Newest] = to]
  <2>1. /\ PhasesOf(snapshots') \in Seq(Revisions!Phases) /\ Len(PhasesOf(snapshots')) = Newest
        /\ \A r \in 1..Newest : PhasesOf(snapshots')[r] = PhaseOf(snapshots'[r].state)
    BY <1>2, PhasesOfSnapshots
  <2>2. /\ moved \in Seq(Revisions!Phases) /\ Len(moved) = Newest
        /\ \A r \in 1..Newest : moved[r] = IF r = Newest THEN to ELSE PhasesOf(snapshots)[r]
    BY <1>2, <1>3, <1>4, ExceptSeq
  <2>3. \A r \in 1..Newest : PhasesOf(snapshots')[r] = moved[r]
    BY <1>2, <2>1, <2>2, PhasesOfSnapshots
  <2>. HIDE DEF moved
  <2>4. /\ Len(PhasesOf(snapshots')) = Len(moved)
        /\ \A r \in 1..Len(PhasesOf(snapshots')) : PhasesOf(snapshots')[r] = moved[r]
    BY <2>1, <2>2, <2>3
  <2>5. PhasesOf(snapshots') = moved
    BY <2>1, <2>2, <2>4, SeqEqual, Zenon
  <2>. QED BY <2>5 DEF moved
<1>6. CASE from = to
  BY <1>2, <1>3, <1>5, <1>6, LenProperties
<1>7. CASE [from |-> from, to |-> to] \in PhaseMoves
  <2>1. \A F, p : from \in F /\ to = p => Revisions!Move(F, p)
    BY <1>3, <1>5 DEF Revisions!Move
  <2>. HIDE DEF from, to
  <2>. QED BY <1>7, <2>1 DEF PhaseMoves, Revisions!RevisionsNext, Revisions!Authorize,
             Revisions!Withdraw, Revisions!Request, Revisions!Fulfil, Revisions!Complete,
             Revisions!Close, Revisions!Open, Revisions!Phases
<1>. QED BY <1>6, <1>7, AllowedPhases

(* A replacement closes its predecessor and opens the new revision.        *)
LEMMA SupersedePhases ==
  ASSUME IntentTypes, NEW actor, NEW key, NEW content \in Contents,
         NEW alsoApprove \in BOOLEAN, NEW view,
         Supersede(actor, key, content, alsoApprove, view)
  PROVE  Revisions!Replace
<1>. DEFINE state    == IF alsoApprove THEN "APPROVED" ELSE "PENDING_REVIEW"
            sequence == IF alsoApprove THEN 2 ELSE 1
            opened   == PhaseOf(state)
            closed   == [PhasesOf(snapshots) EXCEPT ![Newest] = "closed"]
            s        == Snapshot(content, state, sequence)
<1>1. /\ Newest > 0
      /\ snapshots' = Append(Moved("SUPERSEDED"), s)
      /\ Current.state \in {"PENDING_REVIEW", "DEFERRED", "APPROVED", "QUARANTINED"}
  BY DEF Supersede, Admits, Superseded, Moved, Allowed
<1>2. /\ opened \in {"review", "authorized"} /\ PhaseOf("SUPERSEDED") = "closed"
      /\ PhaseOf(Current.state) \in {"review", "authorized"}
      /\ s \in SnapshotRecord /\ s.state = state /\ "SUPERSEDED" \in States
  <2>1. s \in SnapshotRecord /\ s.state = state /\ "SUPERSEDED" \in States
    BY DEF Snapshot, SnapshotRecord, States, Terminal
  <2>. QED BY <1>1, <2>1 DEF PhaseOf
<1>. HIDE DEF opened, s
<1>3. /\ Newest = Len(snapshots) /\ snapshots \in Seq(SnapshotRecord)
      /\ Newest \in Nat /\ Newest \in 1..Newest /\ Current = snapshots[Newest]
      /\ Moved("SUPERSEDED") \in Seq(SnapshotRecord) /\ Len(Moved("SUPERSEDED")) = Newest
      /\ \A r \in 1..Newest : r # Newest => Moved("SUPERSEDED")[r] = snapshots[r]
      /\ Moved("SUPERSEDED")[Newest].state = "SUPERSEDED"
  <2>1. Newest = Len(snapshots) /\ snapshots \in Seq(SnapshotRecord)
    BY DEF Newest, IntentTypes
  <2>2. Moved("SUPERSEDED")[Newest] = Snapshot(Current.content, "SUPERSEDED", Current.sequence + 1)
    BY <1>1, <1>2, NewestMoves
  <2>. QED BY <1>1, <1>2, <2>1, <2>2, NewestMoves DEF Snapshot
<1>4. /\ snapshots' \in Seq(SnapshotRecord) /\ Len(snapshots') = Newest + 1
      /\ \A r \in 1..Newest : snapshots'[r] = Moved("SUPERSEDED")[r]
      /\ snapshots'[Newest + 1] = s
  BY <1>1, <1>2, <1>3, AppendProperties
<1>5. /\ PhasesOf(snapshots) \in Seq(Revisions!Phases) /\ Len(PhasesOf(snapshots)) = Newest
      /\ \A r \in 1..Newest : PhasesOf(snapshots)[r] = PhaseOf(snapshots[r].state)
      /\ PhasesOf(snapshots) # <<>>
  BY <1>3, PhasesOfSnapshots, EmptySeq
<1>6. /\ PhasesOf(snapshots') \in Seq(Revisions!Phases) /\ Len(PhasesOf(snapshots')) = Newest + 1
      /\ \A r \in 1..(Newest + 1) : PhasesOf(snapshots')[r] = PhaseOf(snapshots'[r].state)
  BY <1>4, PhasesOfSnapshots
<1>7. /\ closed \in Seq(Revisions!Phases) /\ Len(closed) = Newest
      /\ \A r \in 1..Newest : closed[r] = IF r = Newest THEN "closed" ELSE PhasesOf(snapshots)[r]
  <2>1. "closed" \in Revisions!Phases
    BY DEF Revisions!Phases
  <2>. QED BY <1>3, <1>5, <2>1, ExceptSeq
<1>. HIDE DEF closed
<1>8. /\ Append(closed, opened) \in Seq(Revisions!Phases) /\ Len(Append(closed, opened)) = Newest + 1
      /\ \A r \in 1..Newest : Append(closed, opened)[r] = closed[r]
      /\ Append(closed, opened)[Newest + 1] = opened
  <2>1. opened \in Revisions!Phases
    BY <1>2 DEF Revisions!Phases
  <2>. QED BY <1>7, <2>1, AppendProperties
<1>9. PhasesOf(snapshots') = Append(closed, opened)
  <2>1. \A r \in 1..Newest : PhasesOf(snapshots')[r] = Append(closed, opened)[r]
    BY <1>2, <1>3, <1>4, <1>5, <1>6, <1>7, <1>8
  <2>2. PhasesOf(snapshots')[Newest + 1] = Append(closed, opened)[Newest + 1]
    BY <1>2, <1>3, <1>4, <1>6, <1>8 DEF opened
  <2>3. /\ Len(PhasesOf(snapshots')) = Len(Append(closed, opened))
        /\ \A r \in 1..Len(PhasesOf(snapshots')) : PhasesOf(snapshots')[r] = Append(closed, opened)[r]
    BY <1>3, <1>6, <1>8, <2>1, <2>2
  <2>. QED BY <1>6, <1>8, <2>3, SeqEqual, Zenon
<1>10. PhasesOf(snapshots)[Len(PhasesOf(snapshots))] \in {"review", "authorized"}
  BY <1>2, <1>3, <1>5
<1>11. closed = [PhasesOf(snapshots) EXCEPT ![Len(PhasesOf(snapshots))] = "closed"]
  BY <1>5 DEF closed
<1>. QED BY <1>2, <1>5, <1>9, <1>10, <1>11 DEF Revisions!Replace

(* The lifecycle implements the chain of revisions: only the newest is     *)
(* open, execution follows authorization, and nothing closed opens again.  *)
THEOREM RevisionsAreImplemented == IntentSpec => ImplementsRevisions
<1>1. IntentInit => Revisions!RevisionsInit
  BY EmptySeq, PhasesOfSnapshots DEF IntentInit, Revisions!RevisionsInit, PhasesOf
<1>2. IntentInv /\ [IntentNext]_intentVars => [Revisions!RevisionsNext]_(PhasesOf(snapshots))
  <2>. SUFFICES ASSUME IntentInv, [IntentNext]_intentVars
                PROVE  Revisions!RevisionsNext \/ PhasesOf(snapshots') = PhasesOf(snapshots)
    OBVIOUS
  <2>1. IntentTypes
    BY DEF IntentInv
  <2>2. CASE UNCHANGED intentVars
    BY <2>2 DEF intentVars
  <2>3. ASSUME NEW actor, NEW key, NEW c \in Contents, Submit(actor, key, c)
        PROVE  Revisions!RevisionsNext
    <3>1. /\ snapshots = <<>> /\ snapshots' = <<Snapshot(c, "PENDING_REVIEW", 1)>>
          /\ Snapshot(c, "PENDING_REVIEW", 1).state = "PENDING_REVIEW"
      BY <2>3 DEF Submit, Snapshot
    <3>2. PhasesOf(snapshots) = <<>> /\ PhasesOf(snapshots') = <<"review">>
      BY <3>1 DEF PhasesOf, PhaseOf
    <3>. QED BY <3>2 DEF Revisions!RevisionsNext, Revisions!Submit
  <2>4. ASSUME NEW by, NEW actor \in Actors, NEW key \in Keys, NEW content, NEW evidence, NEW view,
               Newest > 0, Advance(by, actor, key, content, evidence, view)
        PROVE  Revisions!RevisionsNext \/ PhasesOf(snapshots') = PhasesOf(snapshots)
    <3>1. PICK t \in Allowed : t.from = Current.state /\ snapshots' = Moved(t.to)
      BY <2>4 DEF Advance, Moved
    <3>. QED BY <2>1, <2>4, <3>1, MovedPhases
  <2>5. ASSUME NEW actor \in Actors, NEW key \in OfferedKeys, NEW view \in Views,
               \/ Approve(actor, key, view)
               \/ \E by \in HumanOnly \cup SystemOnly : Decide(by, actor, key, view)
               \/ \E by \in SystemOnly, evidence \in SUBSET Symbols :
                    RecordExecution(by, actor, key, evidence, view)
        PROVE  Revisions!RevisionsNext \/ PhasesOf(snapshots') = PhasesOf(snapshots)
    BY <2>4, <2>5 DEF Approve, Decide, RecordExecution, Admits, OfferedKeys
  <2>6. ASSUME NEW actor, NEW key, NEW view, NEW c \in Contents, NEW alsoApprove \in BOOLEAN,
               Supersede(actor, key, c, alsoApprove, view)
        PROVE  Revisions!RevisionsNext
    BY <2>1, <2>6, SupersedePhases DEF Revisions!RevisionsNext
  <2>. QED BY <2>2, <2>3, <2>5, <2>6 DEF IntentNext
<1>. QED BY <1>1, <1>2, IntentAlwaysInv, PTL DEF IntentSpec, ImplementsRevisions, Revisions!RevisionsSpec

-----------------------------------------------------------------------------
(* Manifests: what is done one after another.                              *)

\* The results of attaching symbols, and of a manifest, from the first on.
EachTrace(f, b, a, q) ==
  f[0] = Done(b) /\ \A n \in 1..Len(q) : f[n] = AttachNext(f[n - 1], a, q[n])

ManifestTrace(f, b, m, by) ==
  f[0] = Done(b) /\ \A n \in 1..Len(m) : f[n] = ApplyNext(f[n - 1], m[n], by)

LEMMA EachIsTraced ==
  ASSUME NEW b, NEW a, NEW q \in Seq(RegistrySymbols)
  PROVE  \E f : EachTrace(f, b, a, q) /\ AttachEach(b, a, q) = f[Len(q)]
<1>. DEFINE L == Len(q)
            Fold(g) == g = [n \in 0..L |-> IF n = 0 THEN Done(b) ELSE AttachNext(g[n - 1], a, q[n])]
            Upto(k, h) == h[0] = Done(b) /\ \A n \in 1..k : h[n] = AttachNext(h[n - 1], a, q[n])
            G == {k \in 0..L : \E h : Upto(k, h)}
            after == CHOOSE g : Fold(g)
<1>1. L \in Nat
  BY LenProperties
<1>2. 0 \in G
  <2>1. Upto(0, [n \in {0} |-> Done(b)])
    OBVIOUS
  <2>. HIDE DEF Upto
  <2>. QED BY <1>1, <2>1
<1>3. ASSUME NEW k \in 1..L, k - 1 \in G PROVE k \in G
  <2>1. PICK h : Upto(k - 1, h)
    BY <1>3
  <2>. DEFINE last == AttachNext(h[k - 1], a, q[k])
              e == [n \in 0..k |-> IF n = k THEN last ELSE h[n]]
  <2>2. e[0] = h[0] /\ e[k] = last /\ \A n \in 0..(k - 1) : e[n] = h[n]
    BY <1>1
  <2>3. ASSUME NEW n \in 1..k PROVE e[n] = AttachNext(e[n - 1], a, q[n])
    <3>. HIDE DEF e
    <3>1. CASE n = k
      <4>1. e[k - 1] = h[k - 1]
        BY <1>1, <2>2
      <4>. QED BY <2>2, <3>1, <4>1
    <3>2. CASE n # k
      <4>1. n \in 1..(k - 1) /\ n \in 0..(k - 1) /\ n - 1 \in 0..(k - 1)
        BY <1>1, <3>2
      <4>2. h[n] = AttachNext(h[n - 1], a, q[n])
        BY <2>1, <4>1
      <4>. QED BY <2>2, <4>1, <4>2
    <3>. QED BY <3>1, <3>2
  <2>. HIDE DEF e
  <2>4. Upto(k, e)
    BY <2>1, <2>2, <2>3
  <2>. HIDE DEF Upto
  <2>. QED BY <1>1, <2>4
<1>. HIDE DEF G
<1>4. 0..L \subseteq G
  BY <1>1, <1>2, <1>3, CountUp
<1>5. PICK h : Upto(L, h)
  BY <1>1, <1>4 DEF G
<1>. DEFINE e == [n \in 0..L |-> h[n]]
<1>6. ASSUME NEW n \in 0..L PROVE e[n] = IF n = 0 THEN Done(b) ELSE AttachNext(e[n - 1], a, q[n])
  <2>1. CASE n = 0
    BY <1>5, <2>1
  <2>2. CASE n # 0
    <3>1. n \in 1..L /\ n - 1 \in 0..L
      BY <1>1, <2>2
    <3>2. e[n] = h[n] /\ e[n - 1] = h[n - 1]
      BY <3>1
    <3>3. h[n] = AttachNext(h[n - 1], a, q[n])
      BY <1>5, <3>1
    <3>. QED BY <2>2, <3>2, <3>3
  <2>. QED BY <2>1, <2>2
<1>7. Fold(e)
  <2>1. e = [n \in 0..L |-> e[n]]
    OBVIOUS
  <2>. HIDE DEF e
  <2>. QED BY <1>6, <2>1
<1>8. Fold(after)
  <2>. HIDE DEF Fold, e
  <2>. QED BY <1>7
<1>9. EachTrace(after, b, a, q)
  <2>1. \A n \in 0..L : after[n] = IF n = 0 THEN Done(b) ELSE AttachNext(after[n - 1], a, q[n])
    <3>. HIDE DEF after
    <3>. QED BY <1>8
  <2>. HIDE DEF after
  <2>2. after[0] = Done(b)
    BY <1>1, <2>1
  <2>3. ASSUME NEW n \in 1..L PROVE after[n] = AttachNext(after[n - 1], a, q[n])
    BY <1>1, <2>1, <2>3
  <2>. QED BY <2>2, <2>3 DEF EachTrace
<1>10. AttachEach(b, a, q) = after[L]
  BY DEF AttachEach
<1>. HIDE DEF after
<1>. QED BY <1>9, <1>10

LEMMA ManifestIsTraced ==
  ASSUME NEW b, NEW m \in Seq(Instruction), NEW by,
         \A n \in Approved(m) : Valid(b, m[n])
  PROVE  \E f : ManifestTrace(f, b, m, by) /\ Remediate(b, m, by) = f[Len(m)]
<1>. DEFINE L == Len(m)
            Fold(g) == g = [n \in 0..L |-> IF n = 0 THEN Done(b) ELSE ApplyNext(g[n - 1], m[n], by)]
            Upto(k, h) == h[0] = Done(b) /\ \A n \in 1..k : h[n] = ApplyNext(h[n - 1], m[n], by)
            G == {k \in 0..L : \E h : Upto(k, h)}
            after == CHOOSE g : Fold(g)
<1>1. L \in Nat
  BY LenProperties
<1>2. 0 \in G
  <2>1. Upto(0, [n \in {0} |-> Done(b)])
    OBVIOUS
  <2>. HIDE DEF Upto
  <2>. QED BY <1>1, <2>1
<1>3. ASSUME NEW k \in 1..L, k - 1 \in G PROVE k \in G
  <2>1. PICK h : Upto(k - 1, h)
    BY <1>3
  <2>. DEFINE last == ApplyNext(h[k - 1], m[k], by)
              e == [n \in 0..k |-> IF n = k THEN last ELSE h[n]]
  <2>2. e[0] = h[0] /\ e[k] = last /\ \A n \in 0..(k - 1) : e[n] = h[n]
    BY <1>1
  <2>3. ASSUME NEW n \in 1..k PROVE e[n] = ApplyNext(e[n - 1], m[n], by)
    <3>. HIDE DEF e
    <3>1. CASE n = k
      <4>1. e[k - 1] = h[k - 1]
        BY <1>1, <2>2
      <4>. QED BY <2>2, <3>1, <4>1
    <3>2. CASE n # k
      <4>1. n \in 1..(k - 1) /\ n \in 0..(k - 1) /\ n - 1 \in 0..(k - 1)
        BY <1>1, <3>2
      <4>2. h[n] = ApplyNext(h[n - 1], m[n], by)
        BY <2>1, <4>1
      <4>. QED BY <2>2, <4>1, <4>2
    <3>. QED BY <3>1, <3>2
  <2>. HIDE DEF e
  <2>4. Upto(k, e)
    BY <2>1, <2>2, <2>3
  <2>. HIDE DEF Upto
  <2>. QED BY <1>1, <2>4
<1>. HIDE DEF G
<1>4. 0..L \subseteq G
  BY <1>1, <1>2, <1>3, CountUp
<1>5. PICK h : Upto(L, h)
  BY <1>1, <1>4 DEF G
<1>. DEFINE e == [n \in 0..L |-> h[n]]
<1>6. ASSUME NEW n \in 0..L PROVE e[n] = IF n = 0 THEN Done(b) ELSE ApplyNext(e[n - 1], m[n], by)
  <2>1. CASE n = 0
    BY <1>5, <2>1
  <2>2. CASE n # 0
    <3>1. n \in 1..L /\ n - 1 \in 0..L
      BY <1>1, <2>2
    <3>2. e[n] = h[n] /\ e[n - 1] = h[n - 1]
      BY <3>1
    <3>3. h[n] = ApplyNext(h[n - 1], m[n], by)
      BY <1>5, <3>1
    <3>. QED BY <2>2, <3>2, <3>3
  <2>. QED BY <2>1, <2>2
<1>7. Fold(e)
  <2>1. e = [n \in 0..L |-> e[n]]
    OBVIOUS
  <2>. HIDE DEF e
  <2>. QED BY <1>6, <2>1
<1>8. Fold(after)
  <2>. HIDE DEF Fold, e
  <2>. QED BY <1>7
<1>9. ManifestTrace(after, b, m, by)
  <2>1. \A n \in 0..L : after[n] = IF n = 0 THEN Done(b) ELSE ApplyNext(after[n - 1], m[n], by)
    <3>. HIDE DEF after
    <3>. QED BY <1>8
  <2>. HIDE DEF after
  <2>2. after[0] = Done(b)
    BY <1>1, <2>1
  <2>3. ASSUME NEW n \in 1..L PROVE after[n] = ApplyNext(after[n - 1], m[n], by)
    BY <1>1, <2>1, <2>3
  <2>. QED BY <2>2, <2>3 DEF ManifestTrace
<1>10. Remediate(b, m, by) = after[L]
  BY DEF Remediate
<1>. HIDE DEF after
<1>. QED BY <1>9, <1>10

-----------------------------------------------------------------------------
(* The registry, and what one instruction makes of it.                     *)

Receipt == [from : Nat, to : Nat, by : Nat]

BookRecord ==
  [listings : Seq(Listing), named : [RegistrySymbols -> Nat],
   outdated : [RegistrySymbols -> SUBSET Nat], receipts : SUBSET Receipt, indexes : SUBSET Nat]

\* Receipts and identifiers are those of listings.
BookFits(b) ==
  /\ b \in BookRecord
  /\ IsFiniteSet(b.receipts)
  /\ \A r \in b.receipts : r.from \in DOMAIN b.listings
  /\ \A s \in RegistrySymbols : b.named[s] = 0 \/ b.named[s] \in DOMAIN b.listings

\* Where an instruction has been followed.
Settled(b, i) ==
  /\ i.op = "MINT" => \E a \in DOMAIN b.listings : b.listings[a].symbol = i.symbol
  /\ i.op = "ATTACH" => /\ b.named[i.symbol] = i.asset
                        /\ \A t \in RegistrySymbols : b.named[t] = i.asset => t = i.symbol
  /\ i.op = "LINK" => \E r \in b.receipts : r.from = i.asset /\ r.to = i.underlying
  /\ i.op = "INDEX" => i.asset \in b.indexes

\* Whom an instruction gives identifiers, and which.
Owner(b, i) == IF i.op = "MINT" THEN Len(b.listings) + 1 ELSE IF i.op = "ATTACH" THEN i.asset ELSE 0
Taken(i) == IF i.op = "MINT" THEN ToSet(i.symbols) ELSE IF i.op = "ATTACH" THEN {i.symbol} ELSE {}

\* Only the owner is given identifiers or loses them.
Renamed(b, c, a, S) ==
  \A s \in RegistrySymbols :
    /\ b.named[s] \notin {0, a} => c.named[s] = b.named[s]
    /\ c.named[s] \in {b.named[s], 0} \/ (c.named[s] = a /\ s \in S)

\* Listings stay as they are and where they are.
Prolonged(b, c) ==
  DOMAIN b.listings \subseteq DOMAIN c.listings /\ \A k \in DOMAIN b.listings : c.listings[k] = b.listings[k]

NewlyLinked(b, c, i, by) ==
  \A r \in c.receipts \ b.receipts :
    /\ r.by = by
    /\ \/ r.from \notin DOMAIN b.listings
       \/ i.op = "LINK" /\ r.from = i.asset
            /\ \A q \in b.receipts : ~ (q.from = i.asset /\ q.to = i.underlying)

Stepped(b, c, i, by) ==
  /\ BookFits(c) /\ Prolonged(b, c) /\ Settled(c, i)
  /\ b.receipts \subseteq c.receipts /\ b.indexes \subseteq c.indexes
  /\ Renamed(b, c, Owner(b, i), Taken(i))
  /\ NewlyLinked(b, c, i, by)

\* Only the identifiers of the book are other ones.
SameElse(b, c) ==
  c \in BookRecord /\ c.listings = b.listings /\ c.receipts = b.receipts /\ c.indexes = b.indexes

LEMMA AttachFields ==
  ASSUME NEW b \in BookRecord, NEW a \in Nat, NEW s \in RegistrySymbols
  PROVE  /\ SameElse(b, Attach(b, a, s))
         /\ \A t \in RegistrySymbols :
              Attach(b, a, s).named[t] = IF t = s THEN a ELSE IF b.named[t] = a THEN 0 ELSE b.named[t]
<1>. DEFINE n == [t \in RegistrySymbols |-> IF t = s THEN a ELSE IF b.named[t] = a THEN 0 ELSE b.named[t]]
            o == [t \in RegistrySymbols |->
                    IF b.named[t] = a /\ t # s THEN b.outdated[t] \union {a} ELSE b.outdated[t]]
            c == Attach(b, a, s)
<1>1. c = [b EXCEPT !.named = n, !.outdated = o]
  BY DEF Attach
<1>2. n \in [RegistrySymbols -> Nat] /\ o \in [RegistrySymbols -> SUBSET Nat]
  BY DEF BookRecord
<1>. HIDE DEF n, o, c
<1>3. c \in BookRecord /\ c.named = n /\ c.listings = b.listings /\ c.receipts = b.receipts /\ c.indexes = b.indexes
  BY <1>1, <1>2 DEF BookRecord
<1>. QED BY <1>3 DEF SameElse, n, c

LEMMA AttachRenames ==
  ASSUME NEW b \in BookRecord, NEW a \in Nat, NEW s \in RegistrySymbols, Free(b, a, s)
  PROVE  SameElse(b, Attach(b, a, s)) /\ Renamed(b, Attach(b, a, s), a, {s})
<1>1. SameElse(b, Attach(b, a, s))
  BY AttachFields
<1>2. \A t \in RegistrySymbols :
        Attach(b, a, s).named[t] = IF t = s THEN a ELSE IF b.named[t] = a THEN 0 ELSE b.named[t]
  BY AttachFields
<1>3. b.named[s] \in {0, a}
  BY DEF Free
<1>. HIDE DEF Attach
<1>4. Renamed(b, Attach(b, a, s), a, {s})
  BY <1>2, <1>3 DEF Renamed
<1>. QED BY <1>1, <1>4

LEMMA EachRenames ==
  ASSUME NEW b \in BookRecord, NEW a \in Nat, NEW q \in Seq(RegistrySymbols)
  PROVE  \/ AttachEach(b, a, q) = Refused
         \/ \E c : AttachEach(b, a, q) = Done(c) /\ SameElse(b, c) /\ Renamed(b, c, a, ToSet(q))
<1>1. PICK f : EachTrace(f, b, a, q) /\ AttachEach(b, a, q) = f[Len(q)]
  BY EachIsTraced
<1>. DEFINE L == Len(q)
            Good(r) == \/ r = Refused
                       \/ \E c : r = Done(c) /\ SameElse(b, c) /\ Renamed(b, c, a, ToSet(q))
            G == {n \in 0..L : Good(f[n])}
<1>2. L \in Nat /\ \A n \in 1..L : q[n] \in RegistrySymbols /\ q[n] \in ToSet(q)
  BY LenProperties DEF ToSet
<1>3. f[0] = Done(b) /\ \A n \in 1..L : f[n] = AttachNext(f[n - 1], a, q[n])
  BY <1>1 DEF EachTrace
<1>4. 0 \in G
  <2>1. SameElse(b, b) /\ Renamed(b, b, a, ToSet(q))
    BY DEF SameElse, Renamed
  <2>2. Good(f[0])
    BY <1>3, <2>1
  <2>. HIDE DEF Good
  <2>. QED BY <1>2, <2>2
<1>5. ASSUME NEW n \in 1..L, n - 1 \in G PROVE n \in G
  <2>1. Good(f[n - 1]) /\ f[n] = AttachNext(f[n - 1], a, q[n])
    BY <1>3, <1>5
  <2>2. CASE f[n] = Refused
    BY <1>2, <2>2
  <2>3. CASE f[n] # Refused
    <3>1. /\ f[n - 1].ok /\ Free(f[n - 1].book, a, q[n])
          /\ f[n] = Done(Attach(f[n - 1].book, a, q[n]))
      BY <2>1, <2>3 DEF AttachNext
    <3>2. PICK c : f[n - 1] = Done(c) /\ SameElse(b, c) /\ Renamed(b, c, a, ToSet(q))
      BY <2>1, <3>1 DEF Refused
    <3>3. f[n - 1].book = c
      BY <3>2 DEF Done
    <3>. DEFINE d == Attach(c, a, q[n])
    <3>4. SameElse(c, d) /\ Renamed(c, d, a, {q[n]})
      BY <1>2, <3>1, <3>2, <3>3, AttachRenames DEF SameElse
    <3>. HIDE DEF d
    <3>5. SameElse(b, d)
      BY <3>2, <3>4 DEF SameElse
    <3>6. Renamed(b, d, a, ToSet(q))
      BY <1>2, <3>2, <3>4 DEF Renamed
    <3>7. f[n] = Done(d)
      BY <3>1, <3>3 DEF d
    <3>8. Good(f[n])
      BY <3>5, <3>6, <3>7
    <3>. HIDE DEF Good
    <3>. QED BY <1>2, <3>8
  <2>. QED BY <2>2, <2>3
<1>. HIDE DEF G
<1>6. 0..L \subseteq G
  BY <1>2, <1>4, <1>5, CountUp
<1>7. L \in G
  BY <1>2, <1>6
<1>. QED BY <1>1, <1>7 DEF G

LEMMA LinkSteps ==
  ASSUME NEW b, BookFits(b), NEW a \in DOMAIN b.listings, NEW u \in Nat, NEW by \in Nat
  PROVE  LET c == Link(b, a, u, by)
         IN  /\ BookFits(c) /\ c.listings = b.listings /\ c.named = b.named /\ c.indexes = b.indexes
             /\ b.receipts \subseteq c.receipts
             /\ \E r \in c.receipts : r.from = a /\ r.to = u
             /\ \A r \in c.receipts \ b.receipts :
                  /\ r.by = by /\ r.from = a
                  /\ \A q \in b.receipts : ~ (q.from = a /\ q.to = u)
<1>. DEFINE R == IF \E r \in b.receipts : r.from = a /\ r.to = u THEN b.receipts
                 ELSE b.receipts \union {[from |-> a, to |-> u, by |-> by]}
            c == Link(b, a, u, by)
<1>1. c = [b EXCEPT !.receipts = R]
  BY DEF Link
<1>2. b \in BookRecord /\ a \in Nat /\ IsFiniteSet(b.receipts)
  BY DEF BookFits, BookRecord
<1>3. R \in SUBSET Receipt
  BY <1>2 DEF BookRecord, Receipt
<1>4. IsFiniteSet(R)
  BY <1>2, FS_AddElement
<1>5. /\ b.receipts \subseteq R /\ \E r \in R : r.from = a /\ r.to = u
      /\ \A r \in R \ b.receipts : r.by = by /\ r.from = a /\ \A q \in b.receipts : ~ (q.from = a /\ q.to = u)
  <2>1. CASE \E r \in b.receipts : r.from = a /\ r.to = u
    <3>1. R = b.receipts
      BY <2>1
    <3>. HIDE DEF R
    <3>. QED BY <2>1, <3>1
  <2>2. CASE \A r \in b.receipts : ~ (r.from = a /\ r.to = u)
    <3>. DEFINE new == [from |-> a, to |-> u, by |-> by]
    <3>1. new.from = a /\ new.to = u /\ new.by = by
      OBVIOUS
    <3>2. R = b.receipts \union {new}
      BY <2>2
    <3>. HIDE DEF R, new
    <3>. QED BY <2>2, <3>1, <3>2
  <2>. QED BY <2>1, <2>2
<1>. HIDE DEF R, c
<1>6. /\ c \in BookRecord /\ c.receipts = R /\ c.listings = b.listings /\ c.named = b.named
      /\ c.indexes = b.indexes
  BY <1>1, <1>2, <1>3 DEF BookRecord
<1>7. BookFits(c)
  BY <1>4, <1>5, <1>6 DEF BookFits
<1>. QED BY <1>5, <1>6, <1>7 DEF c

LEMMA ClassifySteps ==
  ASSUME NEW b, BookFits(b), NEW a \in Nat
  PROVE  LET c == Classify(b, a)
         IN  /\ BookFits(c) /\ c.listings = b.listings /\ c.named = b.named /\ c.receipts = b.receipts
             /\ b.indexes \subseteq c.indexes /\ a \in c.indexes
<1>. DEFINE c == Classify(b, a)
<1>1. b \in BookRecord /\ c = [b EXCEPT !.indexes = b.indexes \union {a}]
  BY DEF Classify, BookFits
<1>. HIDE DEF c
<1>2. /\ c \in BookRecord /\ c.receipts = b.receipts /\ c.listings = b.listings /\ c.named = b.named
      /\ c.indexes = b.indexes \union {a}
  BY <1>1 DEF BookRecord
<1>3. BookFits(c)
  BY <1>2 DEF BookFits
<1>. QED BY <1>2, <1>3 DEF c
LEMMA MintNewSteps ==
  ASSUME NEW b, BookFits(b), NEW i \in Instruction, NEW by \in Nat, i.op = "MINT",
         MintNew(b, i, by) # Refused
  PROVE  \E c : MintNew(b, i, by) = Done(c) /\ Stepped(b, c, i, by)
<1>. DEFINE a == Len(b.listings) + 1
            l == [symbol |-> i.symbol, type |-> i.type, tradable |-> i.tradable, lot |-> i.lot]
            b1 == [b EXCEPT !.listings = Append(b.listings, l)]
            r == AttachEach(b1, a, i.symbols)
<1>1. /\ i.symbol \in RegistrySymbols /\ i.type \in STRING /\ i.tradable \in BOOLEAN /\ i.lot \in Nat
      /\ i.symbols \in Seq(RegistrySymbols) /\ i.underlying \in Nat
  BY DEF Instruction
<1>2. b \in BookRecord /\ b.listings \in Seq(Listing) /\ l \in Listing
  BY <1>1 DEF BookFits, BookRecord, Listing
<1>3. Len(b.listings) \in Nat /\ DOMAIN b.listings = 1..Len(b.listings) /\ a \in Nat /\ a \notin DOMAIN b.listings
  BY <1>2, LenProperties
<1>. DEFINE ls == Append(b.listings, l)
<1>4. /\ ls \in Seq(Listing) /\ Len(ls) = a /\ ls[a] = l
      /\ \A k \in DOMAIN b.listings : ls[k] = b.listings[k]
  <2>. HIDE DEF l
  <2>. QED BY <1>2, <1>3, AppendProperties
<1>5. DOMAIN ls = 1..a
  <2>. HIDE DEF ls, a
  <2>. QED BY <1>4, LenProperties
<1>6. l.symbol = i.symbol
  OBVIOUS
<1>7. MintNew(b, i, by) =
        IF ~r.ok THEN Refused
        ELSE IF i.underlying # 0 THEN Done(Link(r.book, a, i.underlying, by))
        ELSE IF i.index THEN Done(Classify(r.book, a))
        ELSE r
  BY DEF MintNew
<1>8. /\ b1 \in BookRecord /\ b1.listings = ls /\ b1.named = b.named /\ b1.receipts = b.receipts
      /\ b1.indexes = b.indexes
  <2>. HIDE DEF l
  <2>. QED BY <1>2, <1>4 DEF BookRecord
<1>. HIDE DEF l, ls, b1
<1>9. r = Refused \/ \E c : r = Done(c) /\ SameElse(b1, c) /\ Renamed(b1, c, a, ToSet(i.symbols))
  <2>. HIDE DEF a
  <2>. QED BY <1>1, <1>3, <1>8, EachRenames
<1>. HIDE DEF r
<1>10. r # Refused
  BY <1>7 DEF Refused
<1>11. PICK c : r = Done(c) /\ SameElse(b1, c) /\ Renamed(b1, c, a, ToSet(i.symbols))
  BY <1>9, <1>10
<1>12. r.ok /\ r.book = c
  BY <1>11 DEF Done
<1>13. /\ c \in BookRecord /\ c.listings = ls /\ c.receipts = b.receipts /\ c.indexes = b.indexes
  BY <1>8, <1>11 DEF SameElse
<1>14. DOMAIN b.listings \subseteq DOMAIN ls /\ a \in DOMAIN ls
  BY <1>3, <1>5
<1>. HIDE DEF a
<1>15. Renamed(b, c, a, ToSet(i.symbols))
  BY <1>8, <1>11 DEF Renamed
<1>16. BookFits(c)
  <2>1. ASSUME NEW s \in RegistrySymbols PROVE c.named[s] = 0 \/ c.named[s] \in DOMAIN c.listings
    BY <1>13, <1>14, <1>15 DEF Renamed, BookFits
  <2>. QED BY <1>13, <1>14, <2>1 DEF BookFits
<1>17. Prolonged(b, c) /\ \E k \in DOMAIN c.listings : c.listings[k].symbol = i.symbol
  BY <1>4, <1>6, <1>13, <1>14 DEF Prolonged
<1>18. a = Owner(b, i) /\ Taken(i) = ToSet(i.symbols)
  BY DEF Owner, Taken, a
<1>19. ASSUME NEW d, BookFits(d), d.listings = c.listings, d.named = c.named,
              b.receipts \subseteq d.receipts, b.indexes \subseteq d.indexes,
              \A q \in d.receipts \ b.receipts : q.by = by /\ q.from = a
       PROVE  Stepped(b, d, i, by)
  <2>1. Settled(d, i)
    BY <1>17, <1>19 DEF Settled
  <2>2. Prolonged(b, d)
    BY <1>17, <1>19 DEF Prolonged
  <2>3. Renamed(b, d, Owner(b, i), Taken(i))
    BY <1>15, <1>18, <1>19 DEF Renamed
  <2>4. NewlyLinked(b, d, i, by)
    BY <1>3, <1>19 DEF NewlyLinked
  <2>. QED BY <1>19, <2>1, <2>2, <2>3, <2>4 DEF Stepped
<1>20. CASE i.underlying # 0
  <2>. DEFINE d == Link(c, a, i.underlying, by)
  <2>1. /\ BookFits(d) /\ d.listings = c.listings /\ d.named = c.named /\ d.indexes = c.indexes
        /\ c.receipts \subseteq d.receipts
        /\ \A q \in d.receipts \ c.receipts : q.by = by /\ q.from = a
    BY <1>1, <1>13, <1>14, <1>16, LinkSteps
  <2>2. MintNew(b, i, by) = Done(d)
    BY <1>7, <1>12, <1>20
  <2>. HIDE DEF d
  <2>3. Stepped(b, d, i, by)
    BY <1>13, <1>19, <2>1
  <2>. QED BY <2>2, <2>3
<1>21. CASE i.underlying = 0 /\ i.index
  <2>. DEFINE d == Classify(c, a)
  <2>1. /\ BookFits(d) /\ d.listings = c.listings /\ d.named = c.named /\ d.receipts = c.receipts
        /\ c.indexes \subseteq d.indexes
    BY <1>3, <1>16, ClassifySteps
  <2>2. MintNew(b, i, by) = Done(d)
    BY <1>7, <1>12, <1>21
  <2>. HIDE DEF d
  <2>3. Stepped(b, d, i, by)
    BY <1>13, <1>19, <2>1
  <2>. QED BY <2>2, <2>3
<1>22. CASE i.underlying = 0 /\ ~i.index
  <2>1. MintNew(b, i, by) = Done(c)
    BY <1>7, <1>11, <1>12, <1>22
  <2>2. Stepped(b, c, i, by)
    BY <1>13, <1>16, <1>19
  <2>. QED BY <2>1, <2>2
<1>. QED BY <1>20, <1>21, <1>22

LEMMA OneSteps ==
  ASSUME NEW b, BookFits(b), NEW i \in Instruction, NEW by \in Nat,
         i.op # "MINT" => Known(b, i.asset),
         ApplyOne(b, i, by) # Refused
  PROVE  \E c : ApplyOne(b, i, by) = Done(c) /\ Stepped(b, c, i, by)
<1>1. i.op \in {"MINT", "ATTACH", "LINK", "INDEX"}
  BY DEF Instruction
<1>2. b \in BookRecord /\ b.listings \in Seq(Listing)
  BY DEF BookFits, BookRecord
<1>3. DOMAIN b.listings = 1..Len(b.listings) /\ Len(b.listings) \in Nat
  BY <1>2, LenProperties
<1>4. Prolonged(b, b) /\ \A a, S : Renamed(b, b, a, S) /\ NewlyLinked(b, b, i, by)
  BY DEF Prolonged, Renamed, NewlyLinked
<1>5. CASE i.op = "MINT"
  <2>. DEFINE same == {a \in DOMAIN b.listings : b.listings[a].symbol = i.symbol}
  <2>1. ApplyOne(b, i, by) = Mint(b, i, by)
    BY <1>5 DEF ApplyOne
  <2>2. CASE same = {}
    <3>1. Mint(b, i, by) = MintNew(b, i, by)
      BY <2>2 DEF Mint
    <3>. QED BY <1>5, <2>1, <3>1, MintNewSteps
  <2>3. CASE same # {}
    <3>1. Mint(b, i, by) = Done(b)
      BY <2>1, <2>3 DEF Mint
    <3>2. Settled(b, i)
      BY <1>5, <2>3 DEF Settled
    <3>3. Stepped(b, b, i, by)
      BY <1>4, <3>2 DEF Stepped
    <3>. QED BY <2>1, <3>1, <3>3
  <2>. QED BY <2>2, <2>3
<1>6. CASE i.op = "ATTACH"
  <2>. DEFINE a == i.asset
              s == i.symbol
              c == Attach(b, a, s)
  <2>1. a \in Nat /\ s \in RegistrySymbols /\ a \in DOMAIN b.listings
    BY <1>6 DEF Instruction, Known
  <2>2. ApplyOne(b, i, by) = Done(c) /\ Free(b, a, s)
    BY <1>6 DEF ApplyOne
  <2>3. SameElse(b, c) /\ Renamed(b, c, a, {s})
    BY <1>2, <2>1, <2>2, AttachRenames
  <2>4. \A t \in RegistrySymbols : c.named[t] = IF t = s THEN a ELSE IF b.named[t] = a THEN 0 ELSE b.named[t]
    BY <1>2, <2>1, AttachFields
  <2>. HIDE DEF c
  <2>5. BookFits(c) /\ Prolonged(b, c)
    BY <1>3, <2>1, <2>3, <2>4 DEF BookFits, SameElse, Prolonged
  <2>6. a # 0
    BY <1>3, <2>1
  <2>7. Settled(c, i)
    BY <1>6, <2>1, <2>4, <2>6 DEF Settled
  <2>8. Owner(b, i) = a /\ Taken(i) = {s}
    BY <1>6 DEF Owner, Taken
  <2>9. b.receipts = c.receipts /\ b.indexes = c.indexes
    BY <2>3 DEF SameElse
  <2>10. Stepped(b, c, i, by)
    BY <2>3, <2>5, <2>7, <2>8, <2>9 DEF Stepped, NewlyLinked
  <2>. QED BY <2>2, <2>10
<1>7. CASE i.op = "LINK"
  <2>. DEFINE a == i.asset
              c == Link(b, a, i.underlying, by)
  <2>1. a \in DOMAIN b.listings /\ i.underlying \in Nat
    BY <1>7 DEF Instruction, Known
  <2>2. ApplyOne(b, i, by) = Done(c)
    BY <1>7 DEF ApplyOne
  <2>3. /\ BookFits(c) /\ c.listings = b.listings /\ c.named = b.named /\ c.indexes = b.indexes
        /\ b.receipts \subseteq c.receipts
        /\ \E r \in c.receipts : r.from = a /\ r.to = i.underlying
        /\ \A r \in c.receipts \ b.receipts :
             /\ r.by = by /\ r.from = a
             /\ \A q \in b.receipts : ~ (q.from = a /\ q.to = i.underlying)
    BY <2>1, LinkSteps, SMTT(20)
  <2>. HIDE DEF c
  <2>4. Settled(c, i)
    BY <1>7, <2>3 DEF Settled
  <2>5. NewlyLinked(b, c, i, by)
    BY <1>7, <2>3 DEF NewlyLinked
  <2>6. Prolonged(b, c) /\ \A o, S : Renamed(b, c, o, S)
    BY <2>3 DEF Prolonged, Renamed
  <2>7. Stepped(b, c, i, by)
    BY <2>3, <2>4, <2>5, <2>6 DEF Stepped
  <2>. QED BY <2>2, <2>7
<1>8. CASE i.op = "INDEX"
  <2>. DEFINE a == i.asset
              c == Classify(b, a)
  <2>1. a \in Nat
    BY <1>3, <1>8 DEF Known
  <2>2. ApplyOne(b, i, by) = Done(c)
    BY <1>8 DEF ApplyOne
  <2>3. /\ BookFits(c) /\ c.listings = b.listings /\ c.named = b.named /\ c.receipts = b.receipts
        /\ b.indexes \subseteq c.indexes /\ a \in c.indexes
    BY <2>1, ClassifySteps
  <2>. HIDE DEF c
  <2>4. Settled(c, i)
    BY <1>8, <2>3 DEF Settled
  <2>5. NewlyLinked(b, c, i, by)
    BY <2>3 DEF NewlyLinked
  <2>6. Prolonged(b, c) /\ \A o, S : Renamed(b, c, o, S)
    BY <2>3 DEF Prolonged, Renamed
  <2>7. Stepped(b, c, i, by)
    BY <2>3, <2>4, <2>5, <2>6 DEF Stepped
  <2>. QED BY <2>2, <2>7
<1>. QED BY <1>1, <1>5, <1>6, <1>7, <1>8

\* An instruction keeps what another one had done, unless both rename one asset.
LEMMA SettledStays ==
  ASSUME NEW b, BookFits(b), NEW c, NEW k \in Instruction, NEW i \in Instruction, NEW by,
         Settled(b, k), Stepped(b, c, i, by),
         k.op = "ATTACH" => k.asset \in DOMAIN b.listings,
         k.op = "ATTACH" /\ i.op = "ATTACH" /\ k.asset = i.asset => k.symbol = i.symbol
  PROVE  Settled(c, k)
<1>1. Prolonged(b, c) /\ b.receipts \subseteq c.receipts /\ b.indexes \subseteq c.indexes /\ Settled(c, i)
      /\ Renamed(b, c, Owner(b, i), Taken(i))
  BY DEF Stepped
<1>2. k.op = "MINT" => \E a \in DOMAIN c.listings : c.listings[a].symbol = k.symbol
  BY <1>1 DEF Settled, Prolonged
<1>3. k.op = "LINK" => \E r \in c.receipts : r.from = k.asset /\ r.to = k.underlying
  BY <1>1 DEF Settled
<1>4. k.op = "INDEX" => k.asset \in c.indexes
  BY <1>1 DEF Settled
<1>5. ASSUME k.op = "ATTACH"
      PROVE  /\ c.named[k.symbol] = k.asset
             /\ \A t \in RegistrySymbols : c.named[t] = k.asset => t = k.symbol
  <2>1. DOMAIN b.listings = 1..Len(b.listings) /\ Len(b.listings) \in Nat
    BY LenProperties DEF BookFits, BookRecord
  <2>2. k.asset \in 1..Len(b.listings) /\ k.asset # 0 /\ k.symbol \in RegistrySymbols
    BY <1>5, <2>1 DEF Instruction
  <2>3. b.named[k.symbol] = k.asset /\ \A t \in RegistrySymbols : b.named[t] = k.asset => t = k.symbol
    BY <1>5 DEF Settled
  <2>4. CASE Owner(b, i) = k.asset
    <3>1. i.op = "ATTACH" /\ i.asset = k.asset
      BY <2>1, <2>2, <2>4 DEF Owner
    <3>2. i.symbol = k.symbol
      BY <1>5, <3>1
    <3>. QED BY <1>1, <3>1, <3>2 DEF Settled
  <2>5. CASE Owner(b, i) # k.asset
    BY <1>1, <2>2, <2>3, <2>5 DEF Renamed
  <2>. QED BY <2>4, <2>5
<1>. QED BY <1>2, <1>3, <1>4, <1>5 DEF Settled

\* Who may become the owner of a symbol that another asset had.
RenamesTo(b, i, s) ==
  \/ i.op = "MINT" /\ s \in ToSet(i.symbols)
  \/ i.op = "ATTACH" /\ i.symbol = s /\ i.asset # b.named[s]

\* What the first n instructions of a manifest make of a book.
Along(b, c, m, n, by) ==
  /\ BookFits(c) /\ Prolonged(b, c) /\ b.receipts \subseteq c.receipts
  /\ \A r \in c.receipts \ b.receipts : r.by = by /\ \A q \in b.receipts : q.from # r.from
  /\ ~RenamesTwice(m) => \A k \in Approved(m) : k <= n => Settled(c, m[k])
  /\ \A s \in RegistrySymbols :
       c.named[s] \in {0, b.named[s]} \/ \E k \in Approved(m) : RenamesTo(b, m[k], s)

LEMMA AlongSteps ==
  ASSUME NEW b, BookFits(b), NEW m \in Seq(Instruction), NEW n \in 1..Len(m), NEW by \in Nat,
         \A k \in Approved(m) : Valid(b, m[k]), n \in Approved(m),
         NEW c, Along(b, c, m, n - 1, by), NEW d, Stepped(c, d, m[n], by)
  PROVE  Along(b, d, m, n, by)
<1>. DEFINE i == m[n]
<1>1. DOMAIN m = 1..Len(m) /\ Len(m) \in Nat /\ i \in Instruction /\ \A k \in DOMAIN m : m[k] \in Instruction
  BY LenProperties, ElementOfSeq
<1>2. /\ BookFits(c) /\ Prolonged(b, c) /\ b.receipts \subseteq c.receipts
      /\ \A r \in c.receipts \ b.receipts : r.by = by /\ \A q \in b.receipts : q.from # r.from
      /\ ~RenamesTwice(m) => \A k \in Approved(m) : k <= n - 1 => Settled(c, m[k])
      /\ \A s \in RegistrySymbols :
           c.named[s] \in {0, b.named[s]} \/ \E k \in Approved(m) : RenamesTo(b, m[k], s)
  BY DEF Along
<1>3. /\ BookFits(d) /\ Prolonged(c, d) /\ Settled(d, i) /\ c.receipts \subseteq d.receipts
      /\ Renamed(c, d, Owner(c, i), Taken(i)) /\ NewlyLinked(c, d, i, by)
  BY DEF Stepped
<1>4. Prolonged(b, d)
  BY <1>2, <1>3 DEF Prolonged
<1>5. Valid(b, i)
  OBVIOUS
<1>. HIDE DEF i
<1>6. ASSUME NEW r \in d.receipts \ b.receipts PROVE r.by = by /\ \A q \in b.receipts : q.from # r.from
  <2>1. CASE r \in c.receipts
    BY <1>2, <2>1
  <2>2. CASE r \notin c.receipts
    <3>1. /\ r.by = by
          /\ \/ r.from \notin DOMAIN c.listings
             \/ /\ i.op = "LINK" /\ r.from = i.asset
                /\ \A q \in c.receipts : ~ (q.from = i.asset /\ q.to = i.underlying)
      BY <1>3, <2>2 DEF NewlyLinked
    <3>2. ASSUME NEW q \in b.receipts, q.from = r.from PROVE FALSE
      <4>1. q.from \in DOMAIN c.listings
        BY <1>2 DEF BookFits, Prolonged
      <4>2. /\ i.op = "LINK" /\ r.from = i.asset
            /\ \A p \in c.receipts : ~ (p.from = i.asset /\ p.to = i.underlying)
        BY <3>1, <3>2, <4>1
      <4>3. \A p \in UnderlyingsOf(b, i.asset) : p.to = i.underlying
        BY <1>5, <4>2 DEF Valid, Linkable
      <4>4. q \in UnderlyingsOf(b, i.asset)
        BY <3>2, <4>2 DEF UnderlyingsOf
      <4>. QED BY <1>2, <3>2, <4>2, <4>3, <4>4
    <3>. QED BY <3>1, <3>2
  <2>. QED BY <2>1, <2>2
<1>7. ASSUME ~RenamesTwice(m), NEW k \in Approved(m), k <= n PROVE Settled(d, m[k])
  <2>1. CASE k = n
    BY <1>3, <2>1 DEF i
  <2>2. CASE k # n
    <3>1. k \in 1..Len(m) /\ k <= n - 1
      BY <1>1, <1>7, <2>2 DEF Approved
    <3>2. Settled(c, m[k])
      BY <1>2, <1>7, <3>1
    <3>3. m[k].op = "ATTACH" => m[k].asset \in DOMAIN c.listings
      <4>1. Valid(b, m[k])
        OBVIOUS
      <4>. QED BY <1>2, <4>1 DEF Valid, Known, Prolonged
    <3>4. m[k].op = "ATTACH" /\ i.op = "ATTACH" /\ m[k].asset = i.asset => m[k].symbol = i.symbol
      BY <1>1, <1>7, <3>1 DEF RenamesTwice, i
    <3>5. m[k] \in Instruction
      BY <1>1, <3>1
    <3>. DEFINE p == m[k]
    <3>. HIDE DEF p
    <3>6. p \in Instruction /\ Settled(c, p) /\ (p.op = "ATTACH" => p.asset \in DOMAIN c.listings)
          /\ (p.op = "ATTACH" /\ i.op = "ATTACH" /\ p.asset = i.asset => p.symbol = i.symbol)
      BY <3>2, <3>3, <3>4, <3>5 DEF p
    <3>7. Stepped(c, d, i, by)
      BY DEF i
    <3>8. Settled(d, p)
      BY <1>1, <1>2, <3>6, <3>7, SettledStays
    <3>. QED BY <3>8 DEF p
  <2>. QED BY <2>1, <2>2
<1>8. ASSUME NEW s \in RegistrySymbols
      PROVE  d.named[s] \in {0, b.named[s]} \/ \E k \in Approved(m) : RenamesTo(b, m[k], s)
  <2>1. CASE d.named[s] \in {0, c.named[s]}
    BY <1>2, <2>1
  <2>2. CASE d.named[s] = Owner(c, i) /\ s \in Taken(i)
    <3>1. CASE i.op = "MINT"
      <4>1. RenamesTo(b, i, s)
        BY <2>2, <3>1 DEF RenamesTo, Taken
      <4>. QED BY <4>1 DEF i
    <3>2. CASE i.op = "ATTACH"
      <4>1. s = i.symbol /\ d.named[s] = i.asset
        BY <2>2, <3>2 DEF Owner, Taken
      <4>2. d.named[s] = b.named[s] \/ RenamesTo(b, i, s)
        BY <3>2, <4>1 DEF RenamesTo
      <4>. QED BY <4>2 DEF i
    <3>. QED BY <2>2, <3>1, <3>2 DEF Taken
  <2>. QED BY <1>3, <2>1, <2>2 DEF Renamed
<1>9. b.receipts \subseteq d.receipts
  BY <1>2, <1>3
<1>. QED BY <1>3, <1>4, <1>6, <1>7, <1>8, <1>9 DEF Along

\* A manifest that is committed.
LEMMA ManifestKeeps ==
  ASSUME NEW b, BookFits(b), NEW m \in Seq(Instruction), NEW by \in Nat, Remediate(b, m, by).ok
  PROVE  /\ \A k \in Approved(m) : Valid(b, m[k])
         /\ \E c : Remediate(b, m, by) = Done(c) /\ Along(b, c, m, Len(m), by)
<1>1. \A k \in Approved(m) : Valid(b, m[k])
  <2>1. Remediate(b, m, by) # Refused
    BY DEF Refused
  <2>. QED BY <2>1 DEF Remediate
<1>2. PICK f : ManifestTrace(f, b, m, by) /\ Remediate(b, m, by) = f[Len(m)]
  BY <1>1, ManifestIsTraced
<1>. DEFINE L == Len(m)
            Good(n) == f[n] = Refused \/ \E c : f[n] = Done(c) /\ Along(b, c, m, n, by)
            G == {n \in 0..L : Good(n)}
<1>3. L \in Nat /\ DOMAIN m = 1..L /\ \A n \in 1..L : m[n] \in Instruction
  BY LenProperties, ElementOfSeq
<1>4. f[0] = Done(b) /\ \A n \in 1..L : f[n] = ApplyNext(f[n - 1], m[n], by)
  BY <1>2 DEF ManifestTrace
<1>5. 0 \in G
  <2>1. ASSUME NEW k \in Approved(m) PROVE ~(k <= 0)
    BY <1>3 DEF Approved
  <2>2. Along(b, b, m, 0, by)
    BY <2>1 DEF Along, Prolonged
  <2>3. Good(0)
    BY <1>4, <2>2
  <2>. HIDE DEF Good
  <2>. QED BY <1>3, <2>3
<1>6. ASSUME NEW n \in 1..L, n - 1 \in G PROVE n \in G
  <2>. DEFINE i == m[n]
  <2>1. Good(n - 1) /\ f[n] = ApplyNext(f[n - 1], i, by) /\ i \in Instruction
    BY <1>3, <1>4, <1>6
  <2>. HIDE DEF i
  <2>2. CASE f[n] = Refused
    BY <1>3, <2>2
  <2>3. CASE f[n] # Refused /\ ~i.approved
    <3>1. f[n] = f[n - 1]
      BY <2>1, <2>3 DEF ApplyNext
    <3>2. PICK c : f[n] = Done(c) /\ Along(b, c, m, n - 1, by)
      BY <2>1, <2>3, <3>1
    <3>3. ASSUME NEW k \in Approved(m), k <= n PROVE k <= n - 1
      BY <1>3, <2>3, <3>3 DEF Approved, i
    <3>4. Along(b, c, m, n, by)
      BY <3>2, <3>3 DEF Along
    <3>5. Good(n)
      BY <3>2, <3>4
    <3>. HIDE DEF Good
    <3>. QED BY <1>3, <3>5
  <2>4. CASE f[n] # Refused /\ i.approved
    <3>1. f[n - 1].ok /\ f[n] = ApplyOne(f[n - 1].book, i, by)
      BY <2>1, <2>4 DEF ApplyNext
    <3>2. PICK c : f[n - 1] = Done(c) /\ Along(b, c, m, n - 1, by)
      BY <2>1, <3>1 DEF Refused
    <3>3. f[n - 1].book = c
      BY <3>2 DEF Done
    <3>4. BookFits(c) /\ Prolonged(b, c)
      BY <3>2 DEF Along
    <3>5. n \in Approved(m)
      BY <1>3, <2>4 DEF Approved, i
    <3>6. Valid(b, i)
      BY <1>1, <3>5 DEF i
    <3>7. i.op # "MINT" => Known(c, i.asset)
      <4>1. i.op \in {"MINT", "ATTACH", "LINK", "INDEX"}
        BY <2>1 DEF Instruction
      <4>. QED BY <3>4, <3>6, <4>1 DEF Valid, Known, Prolonged
    <3>8. ApplyOne(c, i, by) # Refused
      BY <2>4, <3>1, <3>3
    <3>9. PICK d : ApplyOne(c, i, by) = Done(d) /\ Stepped(c, d, i, by)
      BY <2>1, <3>4, <3>7, <3>8, OneSteps
    <3>10. Along(b, d, m, n, by)
      BY <1>1, <3>2, <3>5, <3>9, AlongSteps DEF i
    <3>11. Good(n)
      BY <3>1, <3>3, <3>9, <3>10
    <3>. HIDE DEF Good
    <3>. QED BY <1>3, <3>11
  <2>. QED BY <2>2, <2>3, <2>4
<1>. HIDE DEF G
<1>7. 0..L \subseteq G
  BY <1>3, <1>5, <1>6, CountUp
<1>8. Good(L)
  BY <1>3, <1>7 DEF G
<1>9. f[L] # Refused
  BY <1>2 DEF Refused
<1>. QED BY <1>1, <1>2, <1>8, <1>9

\* What has been done is not done again.
LEMMA OneRepeats ==
  ASSUME NEW b, BookFits(b), NEW i \in Instruction, Settled(b, i), NEW by,
         ApplyOne(b, i, by) # Refused
  PROVE  ApplyOne(b, i, by) = Done(b)
<1>1. i.op \in {"MINT", "ATTACH", "LINK", "INDEX"} /\ b \in BookRecord
  BY DEF Instruction, BookFits
<1>2. CASE i.op = "MINT"
  <2>1. {a \in DOMAIN b.listings : b.listings[a].symbol = i.symbol} # {}
    BY <1>2 DEF Settled
  <2>2. ApplyOne(b, i, by) = Mint(b, i, by)
    BY <1>2 DEF ApplyOne
  <2>. QED BY <2>1, <2>2 DEF Mint
<1>3. CASE i.op = "ATTACH"
  <2>. DEFINE a == i.asset
              s == i.symbol
              n == [t \in RegistrySymbols |-> IF t = s THEN a ELSE IF b.named[t] = a THEN 0 ELSE b.named[t]]
              o == [t \in RegistrySymbols |->
                      IF b.named[t] = a /\ t # s THEN b.outdated[t] \union {a} ELSE b.outdated[t]]
  <2>1. ApplyOne(b, i, by) = Done(Attach(b, a, s))
    BY <1>3 DEF ApplyOne
  <2>2. b.named[s] = a /\ \A t \in RegistrySymbols : b.named[t] = a => t = s
    BY <1>3 DEF Settled
  <2>3. b.named = [t \in RegistrySymbols |-> b.named[t]] /\ b.outdated = [t \in RegistrySymbols |-> b.outdated[t]]
    BY <1>1 DEF BookRecord
  <2>4. n = b.named /\ o = b.outdated
    BY <2>2, <2>3
  <2>5. Attach(b, a, s) = [b EXCEPT !.named = n, !.outdated = o]
    BY DEF Attach
  <2>. HIDE DEF n, o
  <2>6. [b EXCEPT !.named = n, !.outdated = o] = b
    BY <1>1, <2>4 DEF BookRecord
  <2>. QED BY <2>1, <2>5, <2>6
<1>4. CASE i.op = "LINK"
  <2>. DEFINE R == IF \E r \in b.receipts : r.from = i.asset /\ r.to = i.underlying THEN b.receipts
                   ELSE b.receipts \union {[from |-> i.asset, to |-> i.underlying, by |-> by]}
  <2>1. R = b.receipts
    BY <1>4 DEF Settled
  <2>2. ApplyOne(b, i, by) = Done(Link(b, i.asset, i.underlying, by))
    BY <1>4 DEF ApplyOne
  <2>3. Link(b, i.asset, i.underlying, by) = [b EXCEPT !.receipts = R]
    BY DEF Link
  <2>. HIDE DEF R
  <2>4. [b EXCEPT !.receipts = R] = b
    BY <1>1, <2>1 DEF BookRecord
  <2>. QED BY <2>2, <2>3, <2>4
<1>5. CASE i.op = "INDEX"
  <2>1. ApplyOne(b, i, by) = Done(Classify(b, i.asset))
    BY <1>5 DEF ApplyOne
  <2>. DEFINE X == b.indexes \union {i.asset}
  <2>2. X = b.indexes
    BY <1>5 DEF Settled
  <2>3. Classify(b, i.asset) = [b EXCEPT !.indexes = X]
    BY DEF Classify
  <2>. HIDE DEF X
  <2>4. [b EXCEPT !.indexes = X] = b
    BY <1>1, <2>2 DEF BookRecord
  <2>. QED BY <2>1, <2>3, <2>4
<1>. QED BY <1>1, <1>2, <1>3, <1>4, <1>5

LEMMA ManifestRepeats ==
  ASSUME NEW b, BookFits(b), NEW m \in Seq(Instruction), NEW by \in Nat,
         \A k \in Approved(m) : Settled(b, m[k]), Remediate(b, m, by).ok
  PROVE  Remediate(b, m, by).book = b
<1>1. \A k \in Approved(m) : Valid(b, m[k])
  <2>1. Remediate(b, m, by) # Refused
    BY DEF Refused
  <2>. QED BY <2>1 DEF Remediate
<1>2. PICK f : ManifestTrace(f, b, m, by) /\ Remediate(b, m, by) = f[Len(m)]
  BY <1>1, ManifestIsTraced
<1>. DEFINE L == Len(m)
            G == {n \in 0..L : f[n] \in {Refused, Done(b)}}
<1>3. L \in Nat /\ DOMAIN m = 1..L /\ \A n \in 1..L : m[n] \in Instruction
  BY LenProperties, ElementOfSeq
<1>4. f[0] = Done(b) /\ \A n \in 1..L : f[n] = ApplyNext(f[n - 1], m[n], by)
  BY <1>2 DEF ManifestTrace
<1>5. Done(b).ok /\ Done(b).book = b /\ ~Refused.ok
  BY DEF Done, Refused
<1>6. 0 \in G
  BY <1>3, <1>4
<1>7. ASSUME NEW n \in 1..L, n - 1 \in G PROVE n \in G
  <2>. DEFINE i == m[n]
  <2>1. f[n - 1] \in {Refused, Done(b)} /\ f[n] = ApplyNext(f[n - 1], i, by) /\ i \in Instruction
    BY <1>3, <1>4, <1>7
  <2>2. i.approved => Settled(b, i)
    BY <1>3 DEF Approved
  <2>. HIDE DEF i
  <2>3. CASE ~i.approved
    BY <2>1, <2>3 DEF ApplyNext
  <2>4. CASE i.approved /\ f[n - 1] = Refused
    BY <1>5, <2>1, <2>4 DEF ApplyNext
  <2>5. CASE i.approved /\ f[n - 1] = Done(b)
    <3>1. f[n] = ApplyOne(b, i, by)
      BY <1>5, <2>1, <2>5 DEF ApplyNext
    <3>2. f[n] \in {Refused, Done(b)}
      BY <2>1, <2>2, <2>5, <3>1, OneRepeats
    <3>. QED BY <3>2
  <2>. QED BY <2>1, <2>3, <2>4, <2>5
<1>. HIDE DEF G
<1>8. 0..L \subseteq G
  BY <1>3, <1>6, <1>7, CountUp
<1>9. f[L] \in {Refused, Done(b)}
  BY <1>3, <1>8 DEF G
<1>. QED BY <1>2, <1>5, <1>9

-----------------------------------------------------------------------------
(* The registry in every reachable state.                                  *)

Proposed == [op : {"ATTACH"}, approved : BOOLEAN, asset : Nat, requested : RegistrySymbols, symbol : RegistrySymbols]

\* What was approved has been done, and only one manifest links a receipt to
\* several underlyings.
GovernanceInv ==
  /\ BookFits(book)
  /\ proposals \subseteq Proposed
  /\ committed \in Seq(Seq(Instruction))
  /\ \A r, q \in book.receipts : r.from = q.from /\ r.to # q.to => r.by = q.by
  /\ committed # <<>> /\ ~RenamesTwice(Last(committed)) =>
       \A k \in Approved(Last(committed)) : Settled(book, Last(committed)[k])

LEMMA GovernanceInitInv == GovernanceInit => GovernanceInv
<1>. SUFFICES ASSUME GovernanceInit PROVE GovernanceInv
  OBVIOUS
<1>. DEFINE At(s) == {i \in DOMAIN Listings : Listings[i].symbol = s}
            n == [s \in RegistrySymbols |-> IF At(s) = {} THEN 0 ELSE CHOOSE i \in At(s) : TRUE]
            o == [s \in RegistrySymbols |-> {}]
<1>1. Listings \in Seq(Listing) /\ DOMAIN Listings = 1..Len(Listings) /\ Len(Listings) \in Nat
  BY GovernanceAssumption, LenProperties
<1>2. \A s \in RegistrySymbols : n[s] = 0 \/ n[s] \in DOMAIN Listings
  OBVIOUS
<1>3. n \in [RegistrySymbols -> Nat]
  BY <1>1
<1>4. book = [listings |-> Listings, named |-> n, outdated |-> o, receipts |-> {}, indexes |-> {}]
  BY DEF GovernanceInit
<1>5. o \in [RegistrySymbols -> SUBSET Nat]
  OBVIOUS
<1>. HIDE DEF n, o
<1>6. book \in BookRecord /\ book.listings = Listings /\ book.named = n /\ book.receipts = {}
  BY <1>1, <1>3, <1>4, <1>5 DEF BookRecord
<1>7. BookFits(book)
  BY <1>2, <1>6, FS_EmptySet DEF BookFits
<1>8. proposals = {} /\ committed = <<>>
  BY DEF GovernanceInit
<1>9. committed \in Seq(Seq(Instruction))
  BY <1>8
<1>. QED BY <1>6, <1>7, <1>8, <1>9 DEF GovernanceInv

LEMMA ReviewedAreInstructions ==
  ASSUME proposals \subseteq Proposed
  PROVE  Reviewed \subseteq Instruction
<1>1. ASSUME NEW p \in proposals PROVE [p EXCEPT !.approved = TRUE] \in Instruction
  <2>1. p \in Proposed
    OBVIOUS
  <2>2. [p EXCEPT !.approved = TRUE] \in Proposed
    BY <2>1 DEF Proposed
  <2>. QED BY <2>2 DEF Proposed, Instruction
<1>. QED BY <1>1, GovernanceAssumption DEF Reviewed

LEMMA CommitKeeps ==
  ASSUME GovernanceInv, NEW m \in Seq(Instruction), Commit(m)
  PROVE  GovernanceInv'
<1>. DEFINE by == Len(committed) + 1
<1>1. by \in Nat
  BY LenProperties DEF GovernanceInv
<1>2. BookFits(book) /\ committed \in Seq(Seq(Instruction)) /\ proposals \subseteq Proposed
      /\ \A r, q \in book.receipts : r.from = q.from /\ r.to # q.to => r.by = q.by
  BY DEF GovernanceInv
<1>3. /\ Remediate(book, m, by).ok /\ book' = Remediate(book, m, by).book
      /\ committed' = Append(committed, m) /\ proposals' = proposals
  BY DEF Commit
<1>. HIDE DEF by
<1>4. PICK c : Remediate(book, m, by) = Done(c) /\ Along(book, c, m, Len(m), by)
  BY <1>1, <1>2, <1>3, ManifestKeeps
<1>5. book' = c
  BY <1>3, <1>4 DEF Done
<1>6. BookFits(book')
  BY <1>4, <1>5 DEF Along
<1>7. committed' \in Seq(Seq(Instruction)) /\ Last(committed') = m
  BY <1>2, <1>3, AppendProperties DEF Last
<1>8. \A r \in c.receipts \ book.receipts : r.by = by /\ \A q \in book.receipts : q.from # r.from
  BY <1>4 DEF Along
<1>9. \A r, q \in book'.receipts : r.from = q.from /\ r.to # q.to => r.by = q.by
  BY <1>2, <1>5, <1>8
<1>10. ASSUME ~RenamesTwice(m), NEW k \in Approved(m) PROVE Settled(c, m[k])
  <2>1. k \in 1..Len(m) /\ Len(m) \in Nat
    BY LenProperties DEF Approved
  <2>. QED BY <1>4, <1>10, <2>1 DEF Along
<1>. QED BY <1>2, <1>3, <1>5, <1>6, <1>7, <1>9, <1>10 DEF GovernanceInv

LEMMA GovernanceNextInv == GovernanceInv /\ [GovernanceNext]_governanceVars => GovernanceInv'
<1>. SUFFICES ASSUME GovernanceInv, [GovernanceNext]_governanceVars PROVE GovernanceInv'
  OBVIOUS
<1>1. ASSUME NEW s \in RegistrySymbols, Propose(s) PROVE GovernanceInv'
  <2>. DEFINE a == CHOOSE a \in ExactCandidates(book, s) : TRUE
              p == [op |-> "ATTACH", approved |-> FALSE, asset |-> a, requested |-> s, symbol |-> s]
  <2>1. ExactCandidates(book, s) # {}
    BY <1>1, FS_EmptySet DEF Propose
  <2>2. a \in DOMAIN book.listings
    BY <2>1 DEF ExactCandidates
  <2>3. a \in Nat
    BY <2>2, LenProperties DEF GovernanceInv, BookFits, BookRecord
  <2>4. proposals' = proposals \union {p} /\ UNCHANGED <<book, committed>>
    BY <1>1 DEF Propose
  <2>. HIDE DEF a
  <2>5. p \in Proposed
    BY <2>3 DEF Proposed
  <2>. HIDE DEF p
  <2>. QED BY <2>4, <2>5 DEF GovernanceInv
<1>2. ASSUME NEW i \in Reviewed, NEW j \in Reviewed, Commit(<<i>>) \/ Commit(<<i, j>>) PROVE GovernanceInv'
  <2>1. i \in Instruction /\ j \in Instruction
    BY ReviewedAreInstructions DEF GovernanceInv
  <2>2. <<i>> \in Seq(Instruction) /\ <<i, j>> \in Seq(Instruction)
    BY <2>1
  <2>. QED BY <1>2, <2>2, CommitKeeps
<1>3. ASSUME NEW e \in LotEvidence, Supply(e) PROVE GovernanceInv'
  BY <1>3 DEF GovernanceInv, Supply
<1>4. CASE UNCHANGED governanceVars
  BY <1>4 DEF GovernanceInv, governanceVars
<1>. QED BY <1>1, <1>2, <1>3, <1>4 DEF GovernanceNext

\* A receipt of two underlyings is not traded.
LEMMA TwoUnderlyings ==
  ASSUME NEW b, BookFits(b), NEW r \in b.receipts, NEW q \in b.receipts, r.from = q.from, r.to # q.to,
         NEW s \in RegistrySymbols
  PROVE  ListingTraded(b, s) # r.from
<1>1. r.from \in DOMAIN b.listings /\ r.from # 0
  BY LenProperties DEF BookFits, BookRecord
<1>2. CASE b.named[s] # r.from
  BY <1>1, <1>2 DEF ListingTraded
<1>3. CASE b.named[s] = r.from
  <2>. DEFINE U == UnderlyingsOf(b, r.from)
  <2>1. U \in SUBSET b.receipts /\ {r, q} \in SUBSET U
    BY DEF UnderlyingsOf
  <2>2. IsFiniteSet(U) /\ Cardinality(U) \in Nat
    BY <2>1, FS_Subset, FS_CardinalityType DEF BookFits
  <2>3. U # {} /\ \A x : U # {x}
    BY <2>1
  <2>4. Cardinality(U) # 0 /\ Cardinality(U) # 1
    <3>. HIDE DEF U
    <3>. QED BY <2>2, <2>3, FS_EmptySet, FS_Singleton
  <2>5. Cardinality(UnderlyingsOf(b, b.named[s])) > 1
    BY <1>3, <2>2, <2>4
  <2>6. Facts(b, s) = "AMBIGUOUS"
    BY <1>1, <1>3, <2>5 DEF Facts
  <2>. QED BY <1>1, <2>6 DEF ListingTraded, Eligible
<1>. QED BY <1>2, <1>3

LEMMA GovernanceInvKeeps == GovernanceInv => ManifestsKeepTheRegistry
<1>. SUFFICES ASSUME GovernanceInv PROVE ManifestsKeepTheRegistry
  OBVIOUS
<1>1. BookFits(book) /\ committed \in Seq(Seq(Instruction))
  BY DEF GovernanceInv
<1>2. RerunChangesNothing
  <2>. DEFINE m == Last(committed)
              by == Len(committed) + 1
  <2>. SUFFICES ASSUME committed # <<>>, ~RenamesTwice(m), Remediate(book, m, by).ok
       PROVE  Remediate(book, m, by).book = book
    BY DEF RerunChangesNothing
  <2>1. m \in Seq(Instruction) /\ by \in Nat
    BY <1>1, LenProperties, ElementOfSeq DEF Last
  <2>2. \A k \in Approved(m) : Settled(book, m[k])
    BY DEF GovernanceInv
  <2>. HIDE DEF m, by
  <2>. QED BY <1>1, <2>1, <2>2, ManifestRepeats
<1>3. UnderlyingsComeTogether
  BY <1>1, TwoUnderlyings DEF UnderlyingsComeTogether, GovernanceInv
<1>4. ReadyEvidenceNamesItsListing
  <2>1. ASSUME NEW a \in DOMAIN book.listings, NEW t \in 0..2, LotOutcome(a, t) = "READY_FOR_REVIEW"
        PROVE  IdentityMatches(a)
    BY <2>1 DEF LotOutcome
  <2>. QED BY <2>1 DEF ReadyEvidenceNamesItsListing, IdentityMatches, IdentifiersOf
<1>. QED BY <1>2, <1>3, <1>4 DEF ManifestsKeepTheRegistry

LEMMA GovernanceIsInvariant == GovernanceSpec => []GovernanceInv
BY GovernanceInitInv, GovernanceNextInv, PTL DEF GovernanceSpec

(* apply_registry_remediation: run again right after its commit, a manifest *)
(* that gives no asset two identifiers is refused or changes nothing; the   *)
(* underlyings of a receipt come from one manifest, and with two of them it *)
(* is not traded; and evidence of a lot size is ready for review only under *)
(* the identifiers its reviewers saw, for all registries, instructions and  *)
(* manifests of any number.                                                 *)
THEOREM ManifestsAlwaysKeepTheRegistry == GovernanceSpec => []ManifestsKeepTheRegistry
BY GovernanceIsInvariant, GovernanceInvKeeps, PTL

LEMMA CommitNames ==
  ASSUME GovernanceInv, NEW m \in Seq(Instruction), Commit(m)
  PROVE  TradesAsNamed(book, book', Last(committed'))
<1>. DEFINE by == Len(committed) + 1
<1>1. by \in Nat /\ BookFits(book) /\ committed \in Seq(Seq(Instruction))
  BY LenProperties DEF GovernanceInv
<1>2. /\ Remediate(book, m, by).ok /\ book' = Remediate(book, m, by).book
      /\ committed' = Append(committed, m)
  BY DEF Commit
<1>. HIDE DEF by
<1>3. PICK c : Remediate(book, m, by) = Done(c) /\ Along(book, c, m, Len(m), by)
  BY <1>1, <1>2, ManifestKeeps
<1>4. \A k \in Approved(m) : Valid(book, m[k])
  BY <1>1, <1>2, ManifestKeeps
<1>5. book' = c /\ Last(committed') = m
  BY <1>1, <1>2, <1>3, AppendProperties DEF Done, Last
<1>6. ASSUME NEW s \in RegistrySymbols, ListingTraded(book, s) # 0,
             ListingTraded(c, s) \notin {0, ListingTraded(book, s)}
      PROVE  \E n \in DOMAIN m : \/ m[n].op = "MINT" /\ s \in ToSet(m[n].symbols)
                                 \/ m[n].op = "ATTACH" /\ m[n].symbol = s /\ m[n].requested # s
  <2>1. book.named[s] # 0 /\ c.named[s] \notin {0, book.named[s]}
    BY <1>6 DEF ListingTraded
  <2>2. PICK k \in Approved(m) : RenamesTo(book, m[k], s)
    BY <1>3, <2>1 DEF Along
  <2>3. k \in DOMAIN m
    BY DEF Approved
  <2>4. CASE m[k].op = "MINT" /\ s \in ToSet(m[k].symbols)
    BY <2>3, <2>4
  <2>5. CASE m[k].op = "ATTACH" /\ m[k].symbol = s /\ m[k].asset # book.named[s]
    <3>1. ExactCandidates(book, m[k].requested) = {m[k].asset}
      BY <1>4, <2>5 DEF Valid, SoleCandidate
    <3>2. book.named[s] \in ExactCandidates(book, s)
      BY <1>1, <2>1 DEF BookFits, ExactCandidates
    <3>3. m[k].requested # s
      BY <2>5, <3>1, <3>2
    <3>. QED BY <2>3, <2>5, <3>3
  <2>. QED BY <2>2, <2>4, <2>5 DEF RenamesTo
<1>. QED BY <1>5, <1>6 DEF TradesAsNamed

(* apply_registry_remediation and attach_identifier: no commit, however old *)
(* its proposals, makes a symbol that is traded as one listing tradable as  *)
(* another one, but by an instruction that names it on other evidence, for  *)
(* all registries and manifests.                                            *)
THEOREM SymbolsAlwaysKeepTheirListing == GovernanceSpec => SymbolsKeepTheirListing
<1>1. GovernanceInv /\ [GovernanceNext]_governanceVars
        => [TradesAsNamed(book, book', Last(committed'))]_governanceVars
  <2>. SUFFICES ASSUME GovernanceInv, GovernanceNext PROVE TradesAsNamed(book, book', Last(committed'))
    OBVIOUS
  <2>1. ASSUME NEW s \in RegistrySymbols, Propose(s) PROVE TradesAsNamed(book, book', Last(committed'))
    BY <2>1 DEF Propose, TradesAsNamed
  <2>2. ASSUME NEW i \in Reviewed, NEW j \in Reviewed, Commit(<<i>>) \/ Commit(<<i, j>>)
        PROVE  TradesAsNamed(book, book', Last(committed'))
    <3>1. <<i>> \in Seq(Instruction) /\ <<i, j>> \in Seq(Instruction)
      BY ReviewedAreInstructions DEF GovernanceInv
    <3>. QED BY <2>2, <3>1, CommitNames
  <2>3. ASSUME NEW e \in LotEvidence, Supply(e) PROVE TradesAsNamed(book, book', Last(committed'))
    BY <2>3 DEF Supply, TradesAsNamed
  <2>. QED BY <2>1, <2>2, <2>3 DEF GovernanceNext
<1>. QED BY <1>1, GovernanceIsInvariant, PTL DEF GovernanceSpec, SymbolsKeepTheirListing
=============================================================================

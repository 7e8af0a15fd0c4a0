------------------------- MODULE HistoricalAuthority -------------------------
(***************************************************************************)
(* What an approval from before execution intents existed is worth today:  *)
(* verify_authority (services/execution_intent_authority.py), and how it   *)
(* may become a proposal that a human finalizes for a fresh review         *)
(* (services/execution_intent_reconfirmation.py).                          *)
(*                                                                         *)
(* Issuers sign certificates and publish revocation facts, candidates are  *)
(* built again while a human looks at one, and decisions arrive late; who  *)
(* stores all this is external, and hands the verifier every certificate   *)
(* and fact there is.  A digest stands for the whole record it is computed *)
(* from.  Scope, kind and times of a proposal are part of its terms.       *)
(***************************************************************************)
EXTENDS Naturals, FiniteSets

CONSTANTS
  Certificates,       \* certificates that may be issued
  Payloads,           \* payloads of historical decisions
  Terms,              \* allocation terms
  None,               \* nothing there
  AllowUnverifiable,  \* the policy's allow_unverifiable_proposals
  MaxIssued,          \* bound: certificates issued
  MaxFacts            \* bound: revocation facts published

Acts        == {"APPROVED", "PARTIAL_EXECUTION", "REJECTED"}
Relations   == {"IDENTICAL", "LOSSLESS", None}
Completions == {"EXACT_FROZEN", "LEGACY_RECONSTRUCTED", "INCOMPLETE"}

\* What has to be proven besides the payloads: links to recommendation and
\* decision, who approved and by what right, when, and what was approved.
ExactFacts == {"lineage", "actor", "time", "target"}

\* Evidence of the payloads: in the certificate and its digest right or wrong,
\* not to be used (a prohibited kind, or nothing to compute a digest from), or
\* none offered.
EvidenceKinds == {"intact", "altered", "unusable", "none"}

\* event: the approval event it names, which even an exact one may leave out;
\* supported: versions and algorithms; trusted: digest, signature and issuer;
\* ambiguous: its scope is not the target's, or its lineage is ambiguous.
CertificateRecord ==
  [id : Nat, event : Nat \union {None}, act : Acts, reviewed : Payloads \union {None},
   approved : Payloads \union {None}, relation : Relations, proven : SUBSET ExactFacts,
   evidence : EvidenceKinds, ambiguous : BOOLEAN, supported : BOOLEAN, trusted : BOOLEAN]

ASSUME AuthorityAssumption ==
  /\ None \notin Terms \union Payloads
  /\ Certificates \subseteq CertificateRecord
  /\ AllowUnverifiable \in BOOLEAN
  /\ MaxIssued \in Nat /\ MaxFacts \in Nat

VARIABLES
  evaluatedAt,   \* the time for which authority is evaluated: 0, later 1
  issued,        \* certificates that exist
  facts,         \* published revocation facts
  candidate,     \* the ProposalCandidate with its id
  decision,      \* the ProposalDecision under way
  prepared       \* the last ReconfirmationPreparation: what it rests on and
                 \*   what its decision had seen

authorityVars == <<evaluatedAt, issued, facts, candidate, decision, prepared>>

Statuses == {"REVOKED", "NOT_REVOKED", "CONFLICTING"}

RevocationFacts(c) ==
  [certificate : {c}, status : Statuses, effective : {0, 1}, verified : BOOLEAN]

-----------------------------------------------------------------------------
(* verify_authority                                                        *)

Binding(c) ==
  [act |-> c.act, event |-> c.event, reviewed |-> c.reviewed, approved |-> c.approved,
   relation |-> c.relation, proven |-> c.proven]

\* Mutant: only a reused id is a conflict.
ReusesId(c) == \E d \in issued : d # c /\ d.id = c.id

\* One id for two certificates, or one approval event told in two ways; what
\* names no event is compared with nothing.
Conflicts(c) ==
  \E d \in issued \ {c} :
    \/ d.id = c.id
    \/ /\ d.id # c.id
       /\ c.event # None /\ d.event = c.event
       /\ Binding(d) # Binding(c)

HasCandidatePayload(c) == c.evidence \in {"intact", "altered"}

EvidenceHolds(c) == c.evidence \in {"intact", "none"}

EffectiveStatuses(c) ==
  {f.status : f \in {g \in facts : g.certificate = c /\ g.verified
                                     /\ g.effective <= evaluatedAt}}

Revocation(c) ==
  LET statuses == EffectiveStatuses(c)
  IN  CASE statuses = {}              -> "UNKNOWN"
        [] statuses = {"REVOKED"}     -> "REVOKED"
        [] statuses = {"NOT_REVOKED"} -> "NOT_REVOKED"
        [] OTHER                      -> "CONFLICTING"

\* No transformation is approved; without a relation the digests must agree.
PayloadsConflict(c) ==
  /\ None \notin {c.reviewed, c.approved}
  /\ c.relation = "LOSSLESS" \/ c.reviewed # c.approved

ProvesAll(c) ==
  /\ c.act # "PARTIAL_EXECUTION"
  /\ c.proven = ExactFacts
  /\ None \notin {c.reviewed, c.approved}
  /\ c.evidence = "intact"

Verdict(level, mayPropose, missing) ==
  [level |-> level, mayPropose |-> mayPropose, missing |-> missing]

Conflicting == Verdict("CONFLICTING", FALSE, ExactFacts)

Unverifiable(payload) == Verdict("UNVERIFIABLE", AllowUnverifiable /\ payload, ExactFacts)

\* A certificate that is trusted and not revoked.
VerifyStanding(c) ==
  IF c.ambiguous \/ PayloadsConflict(c) THEN Conflicting
  ELSE IF ProvesAll(c) THEN Verdict("CERTIFIED_EXACT", TRUE, {})
  ELSE IF HasCandidatePayload(c)
       THEN Verdict("CERTIFIED_PROPOSAL_ONLY", TRUE, ExactFacts \ c.proven)
       ELSE Verdict("UNVERIFIABLE", FALSE, ExactFacts)

\* The checks in the code's order: what comes first decides.
Verify(c) ==
  IF c.act = "REJECTED" THEN Verdict("OUT_OF_SCOPE", FALSE, ExactFacts)
  ELSE IF ~c.supported THEN Unverifiable(HasCandidatePayload(c))
  ELSE IF Conflicts(c) THEN Conflicting
  ELSE IF ~EvidenceHolds(c) \/ ~c.trusted THEN Unverifiable(HasCandidatePayload(c))
  ELSE IF Revocation(c) = "CONFLICTING" THEN Conflicting
  ELSE IF Revocation(c) = "REVOKED" THEN Unverifiable(FALSE)
  ELSE IF Revocation(c) = "UNKNOWN" THEN Unverifiable(HasCandidatePayload(c))
  ELSE VerifyStanding(c)

\* Evidence that nobody certified, of known scope.
VerifyUncertified(evidence) == Unverifiable(evidence = "intact")

-----------------------------------------------------------------------------
(* Issuers and time.                                                       *)

AuthorityInit ==
  /\ evaluatedAt = 0
  /\ issued = {}
  /\ facts = {}
  /\ candidate = None
  /\ decision = None
  /\ prepared = None

Issue(c) ==
  /\ Cardinality(issued) < MaxIssued
  /\ issued' = issued \union {c}
  /\ UNCHANGED <<evaluatedAt, facts, candidate, decision, prepared>>

Publish(f) ==
  /\ Cardinality(facts) < MaxFacts
  /\ facts' = facts \union {f}
  /\ UNCHANGED <<evaluatedAt, issued, candidate, decision, prepared>>

Later ==
  /\ evaluatedAt' = 1
  /\ UNCHANGED <<issued, facts, candidate, decision, prepared>>

-----------------------------------------------------------------------------
(* The proposal.                                                           *)

Deciders     == {"HUMAN", "SYSTEM"}
Origins    == {"decision", "recommendation", "shadow"}
Prohibited == {"shadow"}

Warnings(verdict, origin, terms) ==
  {"FRESH_APPROVAL", "SCOPE"}
    \union {w \in {"APPROVAL_UNVERIFIED"} : verdict.level # "CERTIFIED_EXACT"}
    \union {w \in {"ACTOR_UNVERIFIED"} : "actor" \in verdict.missing}
    \union {w \in {"RECOMMENDATION_ONLY"} : origin = "recommendation"}
    \union {w \in {"TIMEZONE_UNVERIFIED"} :
              verdict.level = "CERTIFIED_PROPOSAL_ONLY" /\ "time" \in verdict.missing}
    \union {w \in {"EDIT_REQUIRED"} : terms = None}

\* build_proposal_candidate.  Only an exact authority may say that legacy
\* provenance is frozen exactly.
BuildFrom(certificate, verdict, origin, terms, provenance) ==
  /\ origin \notin Prohibited
  /\ verdict.mayPropose
  /\ provenance = "EXACT_FROZEN" => verdict.level = "CERTIFIED_EXACT"
  /\ candidate' = [certificate |-> certificate, level |-> verdict.level, terms |-> terms,
                   warnings |-> Warnings(verdict, origin, terms), provenance |-> provenance]
  /\ UNCHANGED <<evaluatedAt, issued, facts, decision, prepared>>

Build(origin, terms, provenance) ==
  \/ \E c \in issued : BuildFrom(c, Verify(c), origin, terms, provenance)
  \/ \E evidence \in EvidenceKinds :
       BuildFrom(None, VerifyUncertified(evidence), origin, terms, provenance)

\* FINALIZE_FOR_REVIEW is decided on the candidate as it is now, and the decision
\* travels; other decisions have no effect here.
DecideProposal(actor, acknowledged, terms) ==
  /\ candidate # None
  /\ acknowledged \subseteq candidate.warnings
  /\ decision' = [seen |-> candidate, actor |-> actor,
                  acknowledged |-> acknowledged, terms |-> terms]
  /\ UNCHANGED <<evaluatedAt, issued, facts, candidate, prepared>>

\* Mutant: the decision names the proposal, not its content.
NamesCandidate(d) == candidate # None

\* The expected digest is the candidate's.
Expects(d) == d.seen = candidate

\* finalize_proposal_for_review.  Authority is not verified again.
Finalize ==
  /\ candidate # None /\ decision # None
  /\ Expects(decision)
  /\ decision.actor = "HUMAN"
  /\ candidate.warnings \subseteq decision.acknowledged
  /\ decision.terms # None
  /\ candidate.provenance # "INCOMPLETE"
  /\ prepared' = [certificate |-> candidate.certificate, level |-> candidate.level,
                  seen |-> [certificate |-> decision.seen.certificate,
                            level       |-> decision.seen.level],
                  actor |-> decision.actor,
                  unverified |-> "APPROVAL_UNVERIFIED" \in decision.acknowledged]
  /\ UNCHANGED <<evaluatedAt, issued, facts, candidate, decision>>

CertificationNext ==
  \/ \E c \in Certificates : Issue(c)
  \/ \E c \in issued : \E f \in RevocationFacts(c) : Publish(f)
  \/ Later

ProposalNext ==
  \/ \E origin \in Origins, terms \in Terms \union {None}, provenance \in Completions :
       Build(origin, terms, provenance)
  \/ /\ candidate # None
     /\ \E actor \in Deciders, acknowledged \in {candidate.warnings, {"FRESH_APPROVAL"}},
           terms \in Terms \union {None} : DecideProposal(actor, acknowledged, terms)
  \/ Finalize

AuthorityNext == CertificationNext \/ ProposalNext

AuthoritySpec == AuthorityInit /\ [][AuthorityNext]_authorityVars

-----------------------------------------------------------------------------
(* Properties.                                                             *)

\* Once a verified revocation of a certificate is in effect, nothing that is
\* published afterwards lets the certificate recreate the approval or found a
\* certified proposal again, whatever other facts contradict it.
RevocationIsFinal ==
  \A c \in issued :
    "REVOKED" \in EffectiveStatuses(c) =>
      Verify(c).level \notin {"CERTIFIED_EXACT", "CERTIFIED_PROPOSAL_ONLY"}

\* Two certificates that name one approval event and are both exact tell the
\* same: which of them is found first does not matter.  Of exact certificates
\* that name none nothing of the kind is promised.
ExactCertificatesAgree ==
  \A c, d \in issued :
    (/\ c.event # None /\ c.event = d.event
     /\ {Verify(c).level, Verify(d).level} = {"CERTIFIED_EXACT"})
      => c.approved = d.approved

\* What a certificate says of its approval is settled.
CertificatesSettle == RevocationIsFinal /\ ExactCertificatesAgree

\* What is prepared for a fresh review was finalized by a human who saw on
\* which certificate and authority it rests, and knew that the approval is not
\* verified unless the certificate was exact when the candidate was built.
PreparationIsInformed ==
  prepared # None =>
    /\ prepared.actor = "HUMAN"
    /\ prepared.seen = [certificate |-> prepared.certificate, level |-> prepared.level]
    /\ prepared.level = "CERTIFIED_EXACT" \/ prepared.unverified
=============================================================================

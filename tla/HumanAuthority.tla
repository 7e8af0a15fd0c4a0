--------------------------- MODULE HumanAuthority ---------------------------
(***************************************************************************)
(* Who may review: validate_human_authority                                *)
(* (services/execution_intent_identity.py) and the facts it is given about *)
(* one human.  The systems that state these facts, and the human's         *)
(* standing in them, are external: the validator only sees what they said  *)
(* at some earlier moment.  An unknown status counts as a lost one, and    *)
(* versions, namespaces and the kind of credential, which one event either *)
(* has or lacks, are one flag of that event.                               *)
(***************************************************************************)
EXTENDS Naturals, FiniteSets, FiniteSetsExt

CONSTANTS
  MaxAuthenticationAge, \* the validation policy's ages
  MaxStatusAge,
  MaxGrantAge,
  Lifetimes,            \* how long the issuers say their facts are valid
  MaxTime,              \* bound: the clock
  MaxEvents             \* bound: authentication events

ASSUME HumanAssumption ==
  /\ {MaxAuthenticationAge, MaxStatusAge, MaxGrantAge} \subseteq Nat \ {0}
  /\ Lifetimes \subseteq Nat \ {0}
  /\ {MaxTime, MaxEvents} \subseteq Nat

VARIABLES
  now,        \* the caller's clock
  lostAt,     \* when the human lost each standing
  event,      \* the AuthenticationEventRef the caller holds
  status,     \* the ActorStatusFact it holds
  grant,      \* the ActorAuthorityFact it holds
  validated   \* the last accepted IdentityValidationResult

humanVars == <<now, lostAt, event, status, grant, validated>>

Never == MaxTime + 1
Nobody == [exists |-> FALSE]

\* What a status fact states: the actor is active; credential and session are
\* not revoked, and the credential has the version that was authenticated.
StatusStandings == {"actor", "login"}

\* What an authority fact states: the grant is active, its scope exists.
Standings == StatusStandings \union {"grant"}

MaxAgeOf(s) == IF s = "grant" THEN MaxGrantAge ELSE MaxStatusAge

HumanInit ==
  /\ now = 0
  /\ lostAt = [s \in Standings |-> Never]
  /\ event = Nobody
  /\ status = Nobody
  /\ grant = Nobody
  /\ validated = Nobody

-----------------------------------------------------------------------------
(* The identity and authorization systems.                                 *)

Tick ==
  /\ now < MaxTime
  /\ now' = now + 1
  /\ UNCHANGED <<lostAt, event, status, grant, validated>>

Lose(s) ==
  /\ lostAt[s] = Never
  /\ lostAt' = [lostAt EXCEPT ![s] = now]
  /\ UNCHANGED <<now, event, status, grant, validated>>

EventCount == IF event.exists THEN event.id ELSE 0

\* A new session with the current version of the credential.
Authenticate(direct, lifetime) ==
  /\ EventCount < MaxEvents
  /\ lostAt["actor"] = Never
  /\ event' = [exists |-> TRUE, id |-> EventCount + 1, at |-> now,
               until |-> now + lifetime, direct |-> direct]
  /\ lostAt' = [lostAt EXCEPT !["login"] = Never]
  /\ UNCHANGED <<now, status, grant, validated>>

CheckStatus(lifetime) ==
  /\ event.exists
  /\ status' = [exists |-> TRUE, event |-> event.id, at |-> now, until |-> now + lifetime,
                holds |-> \A s \in StatusStandings : lostAt[s] = Never]
  /\ UNCHANGED <<now, lostAt, event, grant, validated>>

\* The grant of the required permission in the required scope, not inherited
\* from the workspace unless the policy allows that; or another one.
CheckGrant(suits, lifetime) ==
  /\ event.exists
  /\ grant' = [exists |-> TRUE, event |-> event.id, at |-> now, until |-> now + lifetime,
               holds |-> suits /\ lostAt["grant"] = Never]
  /\ UNCHANGED <<now, lostAt, event, status, validated>>

-----------------------------------------------------------------------------
(* validate_human_authority                                                *)

\* Neither in the future nor expired nor too old.
Fresh(fact, maxAge) ==
  /\ fact.at <= now
  /\ now < fact.until
  /\ now - fact.at <= maxAge

\* The facts are there and about this actor and this authentication.
Bound ==
  /\ event.exists /\ event.direct
  /\ status.exists /\ status.event = event.id
  /\ grant.exists /\ grant.event = event.id

Admitted ==
  /\ Bound
  /\ status.holds
  /\ Fresh(event, MaxAuthenticationAge)
  /\ Fresh(status, MaxStatusAge)
  /\ grant.holds
  /\ Fresh(grant, MaxGrantAge)

ValidFrom == Max({event.at, status.at, grant.at})

\* Mutant: the policy's ages bound the moment of the validation only.
ValidUntilExpiry == Min({event.until, status.until, grant.until})

ValidUntil ==
  Min({event.until, status.until, grant.until,
       event.at + MaxAuthenticationAge, status.at + MaxStatusAge, grant.at + MaxGrantAge})

\* A window that ends as it begins raises ValueError: a fact has just reached
\* the greatest age that passes while another was checked at this moment.
Validate ==
  /\ Admitted
  /\ ValidFrom < ValidUntil
  /\ validated' = [exists |-> TRUE, from |-> ValidFrom, until |-> ValidUntil]
  /\ UNCHANGED <<now, lostAt, event, status, grant>>

\* A command is accepted inside the window of a validation only (external).
Validated == validated.exists /\ validated.from <= now /\ now < validated.until

HumanNext ==
  \/ Tick
  \/ \E s \in Standings : Lose(s)
  \/ \E lifetime \in Lifetimes :
       \/ \E direct \in BOOLEAN : Authenticate(direct, lifetime)
       \/ CheckStatus(lifetime)
       \/ \E suits \in BOOLEAN : CheckGrant(suits, lifetime)
  \/ Validate

HumanSpec == HumanInit /\ [][HumanNext]_humanVars

-----------------------------------------------------------------------------
\* Whatever the human loses takes effect within the policy's ages: no result,
\* however long it is kept and whatever its facts' own lifetimes are, admits a
\* command later than that.  A new authentication restores session and
\* credential.
LossTakesEffect ==
  Validated => \A s \in Standings : now < lostAt[s] + MaxAgeOf(s)
=============================================================================

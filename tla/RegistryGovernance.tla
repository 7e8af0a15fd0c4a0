-------------------------- MODULE RegistryGovernance --------------------------
(***************************************************************************)
(* How humans correct the Asset Registry: proposals of identifiers         *)
(* (services/execution_registry_wave1.py), reviewed manifests              *)
(* (execution_registry_remediation.py), what a symbol is to execution      *)
(* afterwards (execution_instrument_facts.py, execution_eligibility.py,    *)
(* execution_registry_preflight.py), and the review of evidence for the    *)
(* lot size of a listing (execution_lot_capability.py).                    *)
(*                                                                         *)
(* All identifiers are PROVIDER_SYMBOLs; market, currency and the like are *)
(* given and agree.  Listings are numbered in the order of minting.  A dry *)
(* run is a commit that is rolled back, so the commit says it all; which   *)
(* authority to trust is part of a piece of evidence.                      *)
(***************************************************************************)
EXTENDS Naturals, Sequences, FiniteSets, SequencesExt

CONSTANTS
  RegistrySymbols,  \* symbols that are asked about
  Listings,         \* the listings at the outset: symbol, type, tradable, lot
  Manual,           \* instructions that a steward may write
  LotEvidence,      \* evidence of lot sizes, but for the identity it saw
  MaxCommits,       \* bound: manifests committed
  MaxEvidence       \* bound: pieces of evidence supplied

\* What the evidence says of the listing, when it holds, and what its source and
\* review are worth.
LotEvidenceRecord ==
  [asset : Nat, lot : Nat, from : Nat, until : Nat, trusted : BOOLEAN, verified : BOOLEAN,
   state : {"DRAFT", "APPROVED", "REJECTED", "QUARANTINED"}]

\* The instructions of a manifest, as they are parsed.
Instruction ==
  [op : {"MINT"}, approved : BOOLEAN, symbol : RegistrySymbols, type : STRING, tradable : BOOLEAN,
   lot : Nat, symbols : Seq(RegistrySymbols), underlying : Nat, index : BOOLEAN]
    \union [op : {"ATTACH"}, approved : BOOLEAN, asset : Nat, requested : RegistrySymbols,
            symbol : RegistrySymbols]
    \union [op : {"LINK"}, approved : BOOLEAN, asset : Nat, underlying : Nat]
    \union [op : {"INDEX"}, approved : BOOLEAN, asset : Nat]

Listing == [symbol : RegistrySymbols, type : STRING, tradable : BOOLEAN, lot : Nat]

ASSUME GovernanceAssumption ==
  /\ Listings \in Seq(Listing) /\ Manual \subseteq Instruction
  /\ \A e \in LotEvidence :
       /\ e \in LotEvidenceRecord
       /\ e.lot > 0 /\ e.from < e.until
       /\ e.state = "APPROVED" => e.verified
  /\ \A i, j \in DOMAIN Listings : Listings[i].symbol = Listings[j].symbol => i = j
  /\ MaxCommits \in Nat /\ MaxEvidence \in Nat

VARIABLES
  book,       \* the registry
  proposals,  \* identifiers proposed for review
  supplied,   \* evidence of lot sizes and the identity its reviewer saw
  committed   \* the manifests committed

governanceVars == <<book, proposals, supplied, committed>>

\* named: whose current identifier a symbol is (0: nobody's); outdated: whose
\* superseded one; receipts: DEPOSITARY_RECEIPT_OF, and the manifest that linked
\* them; indexes: assets with the current classification INDEX.
GovernanceInit ==
  /\ book = [listings |-> Listings,
             named    |-> [s \in RegistrySymbols |->
                             LET at == {i \in DOMAIN Listings : Listings[i].symbol = s}
                             IN  IF at = {} THEN 0 ELSE CHOOSE i \in at : TRUE],
             outdated |-> [s \in RegistrySymbols |-> {}],
             receipts |-> {},
             indexes  |-> {}]
  /\ proposals = {}
  /\ supplied = {}
  /\ committed = <<>>

-----------------------------------------------------------------------------
(* What the registry says of a symbol.                                     *)

Known(b, a) == a \in DOMAIN b.listings

\* Whoever has or had the symbol; the display symbol is one of these.
ExactCandidates(b, s) ==
  {a \in DOMAIN b.listings :
     b.listings[a].symbol = s \/ b.named[s] = a \/ a \in b.outdated[s]}

IdentifiersOf(b, a) == {s \in RegistrySymbols : b.named[s] = a}

UnderlyingsOf(b, a) == {r \in b.receipts : r.from = a}

\* A superseded identifier alone scores below the threshold of the resolver.
Facts(b, s) ==
  LET a == b.named[s]
  IN  IF a = 0
      THEN IF b.outdated[s] = {} THEN "UNKNOWN" ELSE "AMBIGUOUS"
      ELSE IF Cardinality(UnderlyingsOf(b, a)) > 1 THEN "AMBIGUOUS"
      ELSE IF b.listings[a].type = "OTHER" /\ a \in b.indexes THEN "REFERENCE"
      ELSE IF ~b.listings[a].tradable THEN "NOT_TRADABLE"
      ELSE "RESOLVED"

Eligible(b, s) == Facts(b, s) = "RESOLVED"

\* _preflight_outcome, for active assets: the listing a symbol is traded as.
ListingTraded(b, s) == IF Eligible(b, s) THEN b.named[s] ELSE 0

-----------------------------------------------------------------------------
(* A manifest.  Every approved instruction is validated on the registry as *)
(* it is before the first one is applied.                                  *)

\* Mutant: where the receipt points already is not looked at.
LinksKnown(b, i) == Known(b, i.underlying)

Linkable(b, i) ==
  /\ Known(b, i.underlying)
  /\ Cardinality(UnderlyingsOf(b, i.asset)) <= 1
  /\ \A r \in UnderlyingsOf(b, i.asset) : r.to = i.underlying

\* Mutant: others may have had the symbol as well.
AnyCandidate(b, i) == i.asset \in ExactCandidates(b, i.requested)

SoleCandidate(b, i) == ExactCandidates(b, i.requested) = {i.asset}

Valid(b, i) ==
  CASE i.op = "MINT"   -> /\ i.underlying # 0 => Known(b, i.underlying)
                          /\ i.index => i.type = "OTHER" /\ ~i.tradable
    [] i.op = "ATTACH" -> /\ Known(b, i.asset)
                          /\ SoleCandidate(b, i)
    [] i.op = "LINK"   -> Known(b, i.asset) /\ Linkable(b, i)
    [] i.op = "INDEX"  -> /\ Known(b, i.asset)
                          /\ b.listings[i.asset].type = "OTHER"
                          /\ ~b.listings[i.asset].tradable

\* attach_identifier: whoever else has the symbol keeps it; another symbol of
\* the same asset is superseded.
Attach(b, a, s) ==
  [b EXCEPT !.named    = [t \in RegistrySymbols |->
                            IF t = s THEN a ELSE IF @[t] = a THEN 0 ELSE @[t]],
            !.outdated = [t \in RegistrySymbols |->
                            IF b.named[t] = a /\ t # s THEN @[t] \union {a} ELSE @[t]]]

Free(b, a, s) == b.named[s] \in {0, a}

\* record_classification: INDEX becomes or stays the current asset class.
Classify(b, a) == [b EXCEPT !.indexes = @ \union {a}]

\* link_relationship: an asset has no relationship to itself.
Link(b, a, underlying, by) ==
  [b EXCEPT !.receipts =
     IF \E r \in @ : r.from = a /\ r.to = underlying THEN @
     ELSE @ \union {[from |-> a, to |-> underlying, by |-> by]}]

Refused == [ok |-> FALSE]
Done(b) == [ok |-> TRUE, book |-> b]

AttachNext(r, a, s) ==
  IF r.ok /\ Free(r.book, a, s) THEN Done(Attach(r.book, a, s)) ELSE Refused

AttachEach(b, a, symbols) ==
  LET after[n \in 0..Len(symbols)] ==
        IF n = 0 THEN Done(b) ELSE AttachNext(after[n - 1], a, symbols[n])
  IN  after[Len(symbols)]

MintNew(b, i, by) ==
  LET a  == Len(b.listings) + 1
      b1 == [b EXCEPT !.listings = Append(@, [symbol |-> i.symbol, type |-> i.type,
                                              tradable |-> i.tradable, lot |-> i.lot])]
      r  == AttachEach(b1, a, i.symbols)
  IN  IF ~r.ok THEN Refused
      ELSE IF i.underlying # 0 THEN Done(Link(r.book, a, i.underlying, by))
      ELSE IF i.index THEN Done(Classify(r.book, a))
      ELSE r

\* The same asset with everything the instruction asks for is left as it is; a
\* canonical symbol that is taken otherwise is an error.
Mint(b, i, by) ==
  LET same == {a \in DOMAIN b.listings : b.listings[a].symbol = i.symbol}
  IN  IF same = {} THEN MintNew(b, i, by)
      ELSE LET a == CHOOSE a \in same : TRUE
               l == b.listings[a]
           IN  IF /\ <<l.type, l.tradable, l.lot>> = <<i.type, i.tradable, i.lot>>
                  /\ ToSet(i.symbols) \subseteq IdentifiersOf(b, a)
                  /\ i.underlying # 0 => \E r \in UnderlyingsOf(b, a) : r.to = i.underlying
                  /\ i.index => a \in b.indexes
               THEN Done(b) ELSE Refused

\* _already_applied, and otherwise _apply_instruction.
ApplyOne(b, i, by) ==
  CASE i.op = "MINT"   -> Mint(b, i, by)
    [] i.op = "ATTACH" -> IF Free(b, i.asset, i.symbol)
                          THEN Done(Attach(b, i.asset, i.symbol)) ELSE Refused
    [] i.op = "LINK"   -> IF i.asset = i.underlying THEN Refused
                          ELSE Done(Link(b, i.asset, i.underlying, by))
    [] i.op = "INDEX"  -> Done(Classify(b, i.asset))

\* What nobody approved is passed over.
ApplyNext(r, i, by) ==
  IF ~i.approved THEN r ELSE IF r.ok THEN ApplyOne(r.book, i, by) ELSE Refused

Approved(manifest) == {n \in DOMAIN manifest : manifest[n].approved}

\* apply_registry_remediation: everything or nothing.
Remediate(b, manifest, by) ==
  LET after[n \in 0..Len(manifest)] ==
        IF n = 0 THEN Done(b) ELSE ApplyNext(after[n - 1], manifest[n], by)
  IN  IF \A n \in Approved(manifest) : Valid(b, manifest[n]) THEN after[Len(manifest)] ELSE Refused

-----------------------------------------------------------------------------
(* The steps.                                                              *)

\* _review_symbol: a symbol with one candidate that it is not the current
\* identifier of is proposed for it, for approval by a human.
Propose(s) ==
  /\ Cardinality(ExactCandidates(book, s)) = 1
  /\ book.named[s] \notin ExactCandidates(book, s)
  /\ LET a == CHOOSE a \in ExactCandidates(book, s) : TRUE
     IN  proposals' = proposals \union
           {[op |-> "ATTACH", approved |-> FALSE, asset |-> a, requested |-> s, symbol |-> s]}
  /\ UNCHANGED <<book, supplied, committed>>

\* What a steward made of proposals, however old, and instructions of their own.
Reviewed == Manual \union {[p EXCEPT !.approved = TRUE] : p \in proposals}

Commit(manifest) ==
  LET r == Remediate(book, manifest, Len(committed) + 1)
  IN  /\ r.ok
      /\ book' = r.book
      /\ committed' = Append(committed, manifest)
      /\ UNCHANGED <<proposals, supplied>>

\* Evidence for an asset, with the identity that its reviewer finds today.
Supply(e) ==
  /\ Cardinality(supplied) < MaxEvidence
  /\ Known(book, e.asset)
  /\ IdentifiersOf(book, e.asset) # {}
  /\ supplied' = supplied \union {[about |-> e, saw |-> IdentifiersOf(book, e.asset)]}
  /\ UNCHANGED <<book, proposals, committed>>

GovernanceNext ==
  \/ \E s \in RegistrySymbols : Propose(s)
  \/ /\ Len(committed) < MaxCommits
     /\ \E i, j \in Reviewed : Commit(<<i>>) \/ (i # j /\ Commit(<<i, j>>))
  \/ \E e \in LotEvidence : Supply(e)

GovernanceSpec == GovernanceInit /\ [][GovernanceNext]_governanceVars

-----------------------------------------------------------------------------
(* build_lot_capability_preflight, for one asset and the time of the       *)
(* report.  Nothing is written.                                            *)

EvidenceFor(a) == {e \in supplied : e.about.asset = a}

\* The canonical symbol of an asset never changes.
IdentityMatches(a) == \A e \in EvidenceFor(a) : e.saw = IdentifiersOf(book, a)

\* One asset type has no definition, the others permit refinement.
LotOutcome(a, now) ==
  LET evidence == {e.about : e \in EvidenceFor(a)}
      kinds    == {<<e.lot, e.from, e.until>> : e \in evidence}
  IN  IF book.listings[a].type = "OTHER" THEN "QUARANTINED"
      ELSE IF evidence = {} THEN "MISSING_EVIDENCE"
      ELSE IF Cardinality(kinds) > 1 THEN "CONFLICT"
      ELSE IF ~IdentityMatches(a) THEN "IDENTITY_MISMATCH"
      ELSE IF \E e \in evidence : e.from > now THEN "FUTURE_EFFECTIVE"
      ELSE IF \E e \in evidence : e.until <= now THEN "EXPIRED_EVIDENCE"
      ELSE IF \E e \in evidence : ~e.trusted THEN "APPROVAL_REQUIRED"
      ELSE IF \E e \in evidence : e.state \in {"REJECTED", "QUARANTINED"} \/ ~e.verified
           THEN "QUARANTINED"
      ELSE "READY_FOR_REVIEW"

-----------------------------------------------------------------------------
(* Properties.                                                             *)

\* Two identifiers of one asset in one manifest: the second supersedes the first.
RenamesTwice(manifest) ==
  \/ \E m, n \in DOMAIN manifest :
       /\ manifest[m].op = "ATTACH" /\ manifest[n].op = "ATTACH"
       /\ manifest[m].asset = manifest[n].asset
       /\ manifest[m].symbol # manifest[n].symbol
  \/ \E n \in DOMAIN manifest : manifest[n].op = "MINT" /\ Len(manifest[n].symbols) > 1

\* A reviewed manifest is safely repeatable: run again right after its commit it
\* is refused or changes nothing, unless it renames one asset twice.
RerunChangesNothing ==
  committed # <<>> /\ ~RenamesTwice(Last(committed)) =>
    LET r == Remediate(book, Last(committed), Len(committed) + 1)
    IN  r.ok => r.book = book

\* A receipt never gets a second underlying from a later manifest; it has two
\* only where one manifest linked it to both, and then it is not traded.
UnderlyingsComeTogether ==
  \A r, q \in book.receipts :
    r.from = q.from /\ r.to # q.to =>
      /\ r.by = q.by
      /\ \A s \in RegistrySymbols : ListingTraded(book, s) # r.from

\* What is ready for review was reviewed for the listing as it is named now:
\* every identifier that any of its reviewers saw still leads to this asset,
\* whatever was attached to it or to others since.
ReadyEvidenceNamesItsListing ==
  \A a \in DOMAIN book.listings, now \in 0..2 :
    LotOutcome(a, now) = "READY_FOR_REVIEW" =>
      \A e \in EvidenceFor(a) : \A s \in e.saw : book.named[s] = a

\* However manifests and evidence are applied, repeated and overtaken: the
\* registry stays what its reviewers made it.
ManifestsKeepTheRegistry ==
  RerunChangesNothing /\ UnderlyingsComeTogether /\ ReadyEvidenceNamesItsListing

\* Only what the manifest itself names so is traded as another listing.
TradesAsNamed(b, c, manifest) ==
  \A s \in RegistrySymbols :
    LET before == ListingTraded(b, s)
        after  == ListingTraded(c, s)
    IN  before # 0 /\ after \notin {0, before} =>
          \E n \in DOMAIN manifest :
            LET i == manifest[n]
            IN  \/ i.op = "MINT" /\ s \in ToSet(i.symbols)
                \/ i.op = "ATTACH" /\ i.symbol = s /\ i.requested # s

\* A symbol that is traded as one listing is not traded as another one after a
\* commit, unless an instruction attached it on the evidence of another symbol
\* or minted an asset with it, however old the proposals were.
SymbolsKeepTheirListing == [][TradesAsNamed(book, book', Last(committed'))]_governanceVars
=============================================================================

------------------------------ MODULE MCReview ------------------------------
(* The contracts of a review, one of them in each behaviour: what becomes  *)
(* of an intent, who reviews, which authority certificates have, what is   *)
(* proposed on the ground of one of them, and what reviewed manifests do   *)
(* to the registry.  They share no state, but for certificates and         *)
(* proposals, and their product is not explored.                           *)
EXTENDS IntentLifecycle, HumanAuthority, HistoricalAuthority, RegistryGovernance

VARIABLE contract

CONSTANTS termA, termB, p1, p2, t1, x, y, z

MCContents == {[terms |-> {termA, termB}, complete |-> TRUE], [terms |-> {termA}, complete |-> FALSE]}

Sound ==
  [id |-> 1, event |-> 1, act |-> "APPROVED", reviewed |-> p1, approved |-> p1,
   relation |-> "IDENTICAL", proven |-> ExactFacts, evidence |-> "intact",
   ambiguous |-> FALSE, supported |-> TRUE, trusted |-> TRUE]

Partial == [Sound EXCEPT !.id = 2, !.event = 2, !.act = "PARTIAL_EXECUTION"]

MCCertificates ==
  {Sound,
   [Sound EXCEPT !.id = 2],
   [Sound EXCEPT !.reviewed = p2, !.approved = p2],
   [Sound EXCEPT !.id = 2, !.reviewed = p2, !.approved = p2],
   [Sound EXCEPT !.event = None],
   [Sound EXCEPT !.id = 2, !.event = None, !.reviewed = p2, !.approved = p2],
   Partial,
   [Sound EXCEPT !.id = 2, !.event = 2, !.proven = {"lineage", "target"}],
   [Sound EXCEPT !.id = 2, !.event = 2, !.evidence = "altered"],
   [Sound EXCEPT !.id = 2, !.event = 2, !.approved = p2, !.relation = "LOSSLESS"]}

MCListings ==
  <<[symbol |-> x, type |-> "EQUITY", tradable |-> TRUE, lot |-> 1],
    [symbol |-> y, type |-> "EQUITY", tradable |-> TRUE, lot |-> 1]>>

\* An asset for the free symbol, as a receipt or a reference, or with the symbol
\* of another; receipts of two underlyings; identifiers attached on the evidence
\* of other symbols.
MCManual ==
  [op : {"MINT"}, approved : {TRUE}, symbol : {z}, type : {"EQUITY"}, tradable : {TRUE},
   lot : {1}, symbols : {<<z>>, <<x>>, <<z, x>>}, underlying : {0, 1}, index : {FALSE}]
  \union
  [op : {"MINT"}, approved : {TRUE}, symbol : {z}, type : {"OTHER"}, tradable : {FALSE},
   lot : {1}, symbols : {<<z>>}, underlying : {0}, index : BOOLEAN]
  \union
  {[op |-> "LINK", approved |-> TRUE, asset |-> l[1], underlying |-> l[2]] :
     l \in {<<1, 2>>, <<1, 3>>, <<2, 1>>, <<3, 3>>}}
  \union
  [op : {"ATTACH"}, approved : {TRUE, FALSE}, asset : {1}, requested : {x}, symbol : {x, z}]
  \union
  [op : {"ATTACH"}, approved : {TRUE}, asset : {2}, requested : {y}, symbol : {x, z}]
  \union
  [op : {"INDEX"}, approved : {TRUE}, asset : {2, 3}]

MCLotEvidence ==
  {[asset |-> 1, lot |-> 1, from |-> 0, until |-> 3, trusted |-> TRUE, verified |-> TRUE,
    state |-> "APPROVED"],
   [asset |-> 1, lot |-> 1, from |-> 0, until |-> 3, trusted |-> TRUE, verified |-> TRUE,
    state |-> "DRAFT"],
   [asset |-> 1, lot |-> 2, from |-> 1, until |-> 2, trusted |-> TRUE, verified |-> TRUE,
    state |-> "APPROVED"]}

ReviewInit ==
  /\ IntentInit
  /\ HumanInit
  /\ AuthorityInit
  /\ GovernanceInit
  /\ contract \in {"intent", "identity", "authority", "proposal", "registry"}

ReviewNext ==
  \/ /\ contract = "intent"
     /\ IntentNext
     /\ UNCHANGED <<humanVars, authorityVars, governanceVars, contract>>
  \/ /\ contract = "identity"
     /\ HumanNext
     /\ UNCHANGED <<intentVars, authorityVars, governanceVars, contract>>
  \/ /\ contract = "registry"
     /\ GovernanceNext
     /\ UNCHANGED <<intentVars, humanVars, authorityVars, contract>>
  \/ /\ contract = "authority"
     /\ CertificationNext
     /\ UNCHANGED <<intentVars, humanVars, governanceVars, contract>>
  \/ /\ contract = "proposal"
     /\ AuthorityNext
     /\ evaluatedAt' = 0
     /\ issued' \in SUBSET {Sound, Partial} /\ Cardinality(issued') <= 1
     /\ facts' \subseteq [certificate : {Sound, Partial}, status : {"REVOKED", "NOT_REVOKED"},
                        effective : {0}, verified : {TRUE}]
     /\ UNCHANGED <<intentVars, humanVars, governanceVars, contract>>

ReviewSpec ==
  ReviewInit /\ [][ReviewNext]_<<intentVars, humanVars, authorityVars, governanceVars, contract>>
=============================================================================

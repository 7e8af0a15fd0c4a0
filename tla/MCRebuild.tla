------------------------------ MODULE MCRebuild ------------------------------
(* One symbol that is its own canonical form. *)
EXTENDS Rebuild

CONSTANT s1

Identity == [s \in {s1} |-> s]
=============================================================================

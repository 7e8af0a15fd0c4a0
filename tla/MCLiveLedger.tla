---------------------------- MODULE MCLiveLedger ----------------------------
(* LiveLedger on a small portfolio.                                        *)
EXTENDS LiveLedger

CONSTANT s1

Identity == [s \in {s1} |-> s]
=============================================================================

--------------------------- MODULE MCAssetIdentity ---------------------------
(* One share recorded with and without its suffix.                            *)
EXTENDS AssetIdentity, TLC

CONSTANTS aot, aotBK

MCCanonical == (aot :> aotBK) @@ (aotBK :> aotBK)

MCShapes == <<[symbol |-> aot, currency |-> "THB"], [symbol |-> aotBK, currency |-> "THB"]>>
=============================================================================

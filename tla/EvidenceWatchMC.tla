------------------------- MODULE EvidenceWatchMC -------------------------
(* An instance of EvidenceWatch for TLC: two recordings in one directory.  *)
EXTENDS EvidenceWatch, TLC

CONSTANTS w1

OneDirectory == 1 :> w1 @@ 2 :> w1
=============================================================================

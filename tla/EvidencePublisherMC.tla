------------------------- MODULE EvidencePublisherMC -------------------------
(* An instance of EvidencePublisher for TLC.                               *)
EXTENDS EvidencePublisher

CONSTANTS f1, f2, a, b, p1, p2
=============================================================================

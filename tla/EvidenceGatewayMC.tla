-------------------------- MODULE EvidenceGatewayMC --------------------------
(* Instances of EvidenceGateway for TLC.                                   *)
EXTENDS EvidenceGateway, TLC

CONSTANTS r1, f1, f2, f3, q1, q2, p1, p2, u1

(* Two files of one run: a log, served as it was uploaded, and a video,    *)
(* served as two objects made from it.                                     *)
TwoRunOf == (f1 :> r1) @@ (f2 :> r1)
TwoShaOf == (f1 :> 1) @@ (f2 :> 2)
TwoKindOf == (f1 :> "text") @@ (f2 :> "video")

(* A video and two interchangeable logs of one run.                        *)
ThreeRunOf == [f \in {f1, f2, f3} |-> r1]
ThreeShaOf == [f \in {f1, f2, f3} |-> f]
MixKindOf == (f1 :> "video") @@ (f2 :> "text") @@ (f3 :> "text")

Interchangeable == Permutations(Requests) \cup Permutations(PublicIds)
Mixed == Interchangeable \cup Permutations({f2, f3})
=============================================================================

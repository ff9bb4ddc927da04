------------------------ MODULE EvidenceRetentionMC ------------------------
(* Instances of EvidenceRetention for TLC: a run with one file.            *)
EXTENDS EvidenceRetention, TLC

CONSTANTS r1, f1, q1, q2, p1, u1

OneRunOf == f1 :> r1
OneShaOf == f1 :> 1
VideoKindOf == f1 :> "video"
ReportKindOf == f1 :> "report"
=============================================================================

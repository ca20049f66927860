------------------------------- MODULE Window -------------------------------
(* The flow-control window of an RC connection: the queue depth, which is  *)
(* the number of RECVs an endpoint posts and of credits its peer starts    *)
(* with (Config.queueDepth).                                               *)
EXTENDS Naturals

CONSTANT Depth

ASSUME DepthAssumption == Depth \in Nat \ {0}
=============================================================================

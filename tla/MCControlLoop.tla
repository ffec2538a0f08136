--------------------------- MODULE MCControlLoop ---------------------------
(* A NUC with one or two HLCs, one of which can cancel a timestep.         *)
EXTENDS ControlLoop, TLC

CONSTANTS v1, v2, g1, g2

(* The goal states for an HLC reach it when it is there, and the stop      *)
(* signal ends an HLC that has told it is ready.                           *)
LoopEnds == GoalsArrive /\ StopEndsHLC
=============================================================================

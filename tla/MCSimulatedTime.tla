-------------------------- MODULE MCSimulatedTime --------------------------
(* A small experiment: two programs with different periods and offsets,   *)
(* which meet at some instants and not at others.                          *)
EXTENDS SimulatedTime, TLC

CONSTANTS middleware, vehicle, ui

PairOffset == middleware :> 0 @@ vehicle :> 1
PairPeriod == middleware :> 2 @@ vehicle :> 1
=============================================================================

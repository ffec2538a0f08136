------------------------------ MODULE LedCode -------------------------------
(***************************************************************************)
(* The code that the LED in the center of a vehicle blinks: for each id a  *)
(* number of ticks of which some are lit (led.c), and the ids that lengths *)
(* between edges fit (DetectVehicleID.cpp).                                *)
(***************************************************************************)
EXTENDS Integers

CONSTANTS
  period_ticks,   (* identification_LED_period_ticks and ..._enabled_ticks: *)
  enabled_ticks   (* functions of the id, which both programs have a copy of *)

Id == DOMAIN period_ticks \ {0}

(* Mutant: nothing but the very rhythm.                                    *)
DiffersAtAll(ticks, table) == ticks # table
(* Mutant: more tolerance.                                                 *)
DiffersMuch(ticks, table) == ticks > table + 2 \/ table > ticks + 2

Differs(ticks, table) == ticks > table + 1 \/ table > ticks + 1

Fits(high, total) ==
  {v \in Id : ~Differs(high, enabled_ticks[v]) /\ ~Differs(total, period_ticks[v])}

(* The rhythms of any two vehicles differ by more than both tolerances.    *)
Distinguishable ==
  \A v, w \in Id :
    v # w => \/ enabled_ticks[v] - enabled_ticks[w] \notin -2 .. 2
             \/ period_ticks[v] - period_ticks[w] \notin -2 .. 2
=============================================================================

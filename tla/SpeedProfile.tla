---------------------------- MODULE SpeedProfile ----------------------------
(***************************************************************************)
(* The speeds a vehicle of the example dynamic_priorities plans for the    *)
(* next steps (VehicleTrajectoryPlanningState.cpp), and how it slows down  *)
(* where it would meet others.  A place on the route is the distance to    *)
(* its beginning; speeds, and the distance of a step, are counted in one   *)
(* unit.  central_routing sets speeds in the same way, with a Cutoff of 0. *)
(***************************************************************************)
EXTENDS Integers

CONSTANTS
  N,             (* N_STEPS_SPEED_PROFILE                                  *)
  n_steps,       (* steps of the profile in a time step                    *)
  delta_v_step,
  min_speed, max_speed,
  Reduction,     (* of the speed where the profile is lowered (0.3)        *)
  Margin,        (* a speed below min_speed + Margin cannot be lowered     *)
  StepBack,      (* steps before a collision where it is lowered (10)      *)
  Cutoff         (* no speed before it is lowered                          *)

Index == 0 .. N - 1
Profile == [Index -> Nat]

Lower(a, b) == IF a < b THEN a ELSE b
Distance(i, j) == IF i < j THEN j - i ELSE i - j

(* No step is left out of the acceleration and the braking that are wanted. *)
Smooth(profile) ==
  \A i \in 0 .. N - 2 : /\ profile[i + 1] <= profile[i] + delta_v_step
                        /\ profile[i] <= profile[i + 1] + delta_v_step

(* The change of the speed in k steps.                                     *)
Gain(k) == k * delta_v_step

(* The speed that still reaches speed at index.                            *)
Tent(index, speed, i) == speed + Gain(Distance(i, index))

(* Mutant: the vehicle brakes where it has to be slower, not before.       *)
SetSpeedLate(profile, index, speed) ==
  [i \in Index |-> IF i = index THEN speed
                   ELSE IF i > index THEN Lower(Tent(index, speed, i), profile[i])
                   ELSE profile[i]]

SetSpeed(profile, index, speed) ==
  [i \in Index |-> IF i = index THEN speed
                   ELSE IF i > index \/ i >= Cutoff
                   THEN Lower(Tent(index, speed, i), profile[i])
                   ELSE profile[i]]

Reduced(profile, index) ==
  IF profile[index] - Reduction > min_speed THEN profile[index] - Reduction ELSE min_speed

(* Mutant: always from 10 steps before, however slow the vehicle is there. *)
BackOnce(profile, collision, first) == {collision - StepBack}

(* From 10 steps before the collision back, where the speed can be lowered, *)
(* or no longer behind first: a set with that one step.                    *)
BackFrom(profile, collision, first) ==
  LET steps == {i \in {collision - k * StepBack : k \in 1 .. N} :
                  i < first \/ profile[i] >= min_speed + Margin}
  IN {i \in steps : \A j \in steps : j <= i}

-----------------------------------------------------------------------------
(* get_planned_path, from where the vehicle is.                            *)
Path(way, profile) ==
  LET place[i \in Index] == IF i = 0 THEN way + profile[0] ELSE place[i - 1] + profile[i]
  IN place

Collisions(conflicts, path, other) == {i \in Index : <<path[i], other[i]>> \in conflicts}

(* The distance of a time step.                                            *)
Driven(way, profile) == Path(way, profile)[n_steps - 1]
=============================================================================

--------------------------- MODULE SpeedPlanning ----------------------------
(***************************************************************************)
(* What the vehicles of the example dynamic_priorities plan in their time  *)
(* steps: how fast they drive along their routes.  Who waits for whom, and *)
(* that all or none follow their new plans, is PriorityPlanning; here they *)
(* take turns in the order of the priorities, first the new, then the old. *)
(* Where two vehicles would touch is an input.                             *)
(***************************************************************************)
EXTENDS SpeedProfile, Sequences

CONSTANTS
  Vehicle,
  Orders,      (* of priorities: sequences of the vehicles                 *)
  Maps,        (* for pairs of vehicles, the places where both cannot be   *)
  Steps        (* bound: time steps                                        *)

VARIABLES
  conflicts,   (* the map: who cannot be where                             *)
  stage,       (* between time steps "begin", planning with the "new"      *)
               (* priorities or the "old", and "apply"                     *)
  waiting,     (* vehicles that have not planned yet, in their order       *)
  speed_profile, old_speed_profile,
  way,         (* the distance driven                                      *)
  last,        (* history: the speed of the last step driven               *)
  steps

vars == <<conflicts, stage, waiting, speed_profile, old_speed_profile, way, last, steps>>

TypeOK ==
  /\ conflicts \in DOMAIN Maps /\ stage \in {"begin", "new", "old", "apply"}
  /\ \A i \in DOMAIN waiting : waiting[i] \in Vehicle
  /\ speed_profile \in [Vehicle -> Profile] /\ old_speed_profile \in [Vehicle -> Profile]
  /\ way \in [Vehicle -> Nat] /\ last \in [Vehicle -> Nat] /\ steps \in 0 .. Steps

(* The vehicles stand where they were matched to the lanes.                *)
Init ==
  /\ conflicts \in DOMAIN Maps
  /\ stage = "begin" /\ waiting = <<>>
  /\ speed_profile = [v \in Vehicle |-> [i \in Index |-> 0]]
  /\ old_speed_profile = speed_profile
  /\ way = [v \in Vehicle |-> 0] /\ last = [v \in Vehicle |-> 0]
  /\ steps = 0

-----------------------------------------------------------------------------
(* Mutant: the horizon ends at full speed.                                 *)
FastestNeverStops(profile) ==
  [i \in Index |->
     IF i < n_steps THEN profile[i]
     ELSE Lower(profile[n_steps - 1] + Gain(i - n_steps + 1), max_speed)]

(* reset_speed_profile: as fast as possible after the current time step,   *)
(* and "each planning horizon ends with a full stop".                      *)
ResetSpeedProfile(profile) ==
  [i \in Index |->
     Lower(IF i < n_steps THEN profile[i]
           ELSE Lower(profile[n_steps - 1] + Gain(i - n_steps + 1), max_speed),
           Gain(N - 1 - i))]

Everybody(Op(_)) == [v \in Vehicle |-> Op(speed_profile[v])]

(* plan begins; with priorities by id only the old ones are tried.         *)
Begin ==
  /\ stage = "begin" /\ steps < Steps /\ steps' = steps + 1
  /\ stage' \in {"new", "old"} /\ waiting' \in Orders
  /\ old_speed_profile' = speed_profile
  /\ speed_profile' = Everybody(ResetSpeedProfile)
  /\ UNCHANGED <<conflicts, way, last>>

-----------------------------------------------------------------------------
(* avoid_collisions                                                        *)
Planned == Vehicle \ {waiting[i] : i \in DOMAIN waiting}

Met(v) ==
  UNION {Collisions(Maps[conflicts][<<v, u>>], Path(way[v], speed_profile[v]), Path(way[u], speed_profile[u]))
           : u \in Planned}

(* Mutant: no thought of the braking that has to come before.              *)
MinIndexOfStep(profile) == {n_steps}

(* min_idx_zero_speed: from the end of the current time step on, where the *)
(* vehicle could stand still; a set with that one step.                    *)
MinIndexZeroSpeed(profile) ==
  {i \in n_steps .. N - 1 :
     /\ Gain(i - n_steps + 1) >= profile[n_steps - 1]
     /\ \A j \in n_steps .. i - 1 : Gain(j - n_steps + 1) < profile[n_steps - 1]}

(* Where to slow down; too early if a collision cannot be avoided.         *)
SlowDownAt(profile, collision, first) ==
  {IF back < first /\ profile[first] > min_speed + Margin THEN first ELSE back :
     back \in BackFrom(profile, collision, first)}

SlowDown(v, index) ==
  /\ speed_profile' = [speed_profile EXCEPT ![v] = SetSpeed(@, index, Reduced(@, index))]
  /\ UNCHANGED <<conflicts, stage, waiting, old_speed_profile, way, last, steps>>

(* Mutant: the last plan is followed, though it was infeasible.            *)
KeepSpeedProfile == speed_profile' = speed_profile

RevertSpeedProfile == speed_profile' = old_speed_profile

(* All agree that the priorities are infeasible: then the old ones, and    *)
(* else "just extend the halt at the end of the horizon".                  *)
Infeasible ==
  /\ \/ stage = "new" /\ stage' = "old" /\ waiting' \in Orders
          /\ speed_profile' = Everybody(ResetSpeedProfile)
     \/ stage = "old" /\ stage' = "apply" /\ waiting' = <<>>
          /\ RevertSpeedProfile
  /\ UNCHANGED <<conflicts, old_speed_profile, way, last, steps>>

CollisionFree ==
  /\ waiting' = Tail(waiting)
  /\ stage' = IF waiting' = <<>> THEN "apply" ELSE stage
  /\ UNCHANGED <<conflicts, speed_profile, old_speed_profile, way, last, steps>>

AvoidCollisions ==
  /\ stage \in {"new", "old"}
  /\ LET v == Head(waiting)
         p == speed_profile[v]
     IN \/ Met(v) = {} /\ CollisionFree
        \/ \E collision \in Met(v), first \in MinIndexZeroSpeed(p) :
             /\ \A c \in Met(v) : collision <= c
             /\ \E index \in SlowDownAt(p, collision, first) :
                  \/ index >= first /\ SlowDown(v, index)
                  \/ index < first /\ Infeasible

-----------------------------------------------------------------------------
(* Mutant: the last step is repeated behind the end.                       *)
ShiftAndRepeat(profile) ==
  [i \in Index |-> IF i + n_steps < N THEN profile[i + n_steps] ELSE profile[n_steps]]

Shift(profile) ==
  [i \in Index |-> IF i + n_steps < N THEN profile[i + n_steps] ELSE min_speed]

Drive ==
  /\ stage' = "begin"
  /\ way' = [v \in Vehicle |-> Driven(way[v], speed_profile[v])]
  /\ last' = [v \in Vehicle |-> speed_profile[v][n_steps - 1]]
  /\ speed_profile' = Everybody(Shift)
  /\ UNCHANGED <<conflicts, waiting, old_speed_profile>>

ApplyTimestep == stage = "apply" /\ Drive /\ UNCHANGED steps

(* "Catch up planningState if we missed a timestep".                       *)
CatchUp == stage = "begin" /\ steps \in 1 .. Steps - 1 /\ Drive /\ steps' = steps + 1

Next == Begin \/ AvoidCollisions \/ ApplyTimestep \/ CatchUp

Spec == Init /\ [][Next]_vars

-----------------------------------------------------------------------------
(* PROPERTIES                                                              *)

(* "assert we haven't changed current timestep": the vehicle drives it     *)
(* already.                                                                *)
CurrentStepKept ==
  stage # "begin" => \A v \in Vehicle : \A i \in 0 .. n_steps - 1 :
    speed_profile[v][i] = old_speed_profile[v][i]

(* assert(speed_profile[N_STEPS_SPEED_PROFILE-1]==min_speed), and the      *)
(* vehicle can always brake as planned until then.                         *)
EndsStopped ==
  \A v \in Vehicle : \A i \in Index : speed_profile[v][i] <= Gain(N - 1 - i)

(* The speeds of all steps, planned and driven, differ by no more than the *)
(* acceleration allows, however often a plan was changed or given up.      *)
AlwaysSmooth ==
  /\ \A v \in Vehicle : Smooth(speed_profile[v])
  /\ stage = "begin" => \A v \in Vehicle :
       Distance(last[v], speed_profile[v][0]) <= delta_v_step

(* Whatever the vehicles follow, new plans or the end of older ones, they  *)
(* do not meet, as far as they plan.                                       *)
NobodyMeets ==
  stage \in {"begin", "apply"} => \A u, v \in Vehicle :
    u # v => Collisions(Maps[conflicts][<<u, v>>], Path(way[u], speed_profile[u]),
                                             Path(way[v], speed_profile[v])) = {}

(* A round of avoid_collisions lowers a speed, or it is the last: speeds   *)
(* cannot fall for ever, so that the loop ends.                            *)
NeverStuck == stage \in {"new", "old"} => ENABLED <<AvoidCollisions>>_vars
=============================================================================

----------------------------- MODULE MCVehicle -----------------------------
(***************************************************************************)
(* Parts of a vehicle and of the planners that drive it, one at a time:    *)
(* the link between its two controllers (SpiLink), its periodic loop       *)
(* (VehicleLoop), its localization, the LED by which the positioning       *)
(* system knows it (Identification) and the lights it is found by          *)
(* (DetectVehicles), the time step of two planners that use every mode but *)
(* the vertex ordering, one of which may be stopped, or of three that      *)
(* assess nothing, and the speeds that two planners plan.                  *)
(***************************************************************************)
EXTENDS Vehicles, Integers, TLC

KindsInUse == <<"direct", "path_tracking">>

VARIABLE part

VARIABLES mode, graph_order, planner, channel
Three == INSTANCE PriorityPlanning WITH
  Vehicle <- {1, 2, 3}, Modes <- {"id", "random", "fca"}, Fca <- {0},
  OldOrders <- {<<3, 1, 2>>}, Stoppable <- {}, Ordered <- TRUE

VARIABLES mode_of_two, graph_order_of_two, planner_of_two, channel_of_two
Two == INSTANCE PriorityPlanning WITH
  Vehicle <- {1, 2}, Modes <- {"id", "random", "fca"}, Fca <- {0, 1},
  OldOrders <- {<<1, 2>>, <<2, 1>>}, Stoppable <- {2}, Ordered <- TRUE,
  mode <- mode_of_two, graph_order <- graph_order_of_two, planner <- planner_of_two,
  channel <- channel_of_two

(* The tables of led.c and IpsPipeline.cpp.                                *)
PeriodTicks ==
  0 :> 1 @@ <<4, 7, 10, 13, 16, 7, 10, 13, 16, 19, 10, 13, 16, 19, 22, 13, 16, 19, 22, 25, 16,
              19, 22, 25, 28>>
EnabledTicks ==
  0 :> 0 @@ <<2, 2, 2, 2, 2, 5, 5, 5, 5, 5, 8, 8, 8, 8, 8, 11, 11, 11, 11, 11, 14, 14, 14, 14, 14>>

VARIABLES conflicts, stage, waiting, speed_profile, old_speed_profile, way, last, timesteps

(* Where two vehicles touch: at a crossing, after their routes have joined, *)
(* or on the same lane.                                                    *)
BothWays(S) == <<1, 2>> :> S @@ <<2, 1>> :> {<<place[2], place[1]>> : place \in S}
Crossing(a, b) == BothWays((a .. a + 14) \X (b .. b + 14))
Lane == BothWays((12 .. 72) \X (20 .. 80))
Joined == BothWays({place \in (30 .. 150) \X (30 .. 150) : place[1] - place[2] \in -6 .. 6})

(* A time step has 3 of 24 steps, not 8 of 200; full speed takes 5 steps.   *)
Speeds == INSTANCE SpeedPlanning WITH
  N <- 24, n_steps <- 3, delta_v_step <- 2, min_speed <- 0, max_speed <- 10,
  Reduction <- 5, Margin <- 3, StepBack <- 3, Cutoff <- 3,
  Vehicle <- {1, 2}, Orders <- {<<1, 2>>, <<2, 1>>}, Steps <- 6, steps <- timesteps,
  Maps <- <<Lane, Joined>> \o [k \in 1 .. 12 |-> Crossing(30 + 20 * (k % 4), 30 + 20 * (k % 3))]

link == vars
loop_vars == <<t_now, experiment, stop_signal, commands, network, readers, observation,
               stop_counter, state, ips_age, failures, signals, exchanged, stopped>>
filter == <<cycles, loop_count, state_buffer, state_buffer_index, observed, sample, l_failures,
            log, handed, reset_at>>
three == <<mode, graph_order, planner, channel>>
two == <<mode_of_two, graph_order_of_two, planner_of_two, channel_of_two>>
leds == <<id, vehicle_id, l_safe_mode_flag, tick, vehiclePointTimeseries, frames, calm, quiet, mixed>>
lights == <<shared, mat_conflicts, resolved, vehicles, candidate, is_conflict_solvable>>
speeds == <<conflicts, stage, waiting, speed_profile, old_speed_profile, way, last, timesteps>>

-----------------------------------------------------------------------------
(* Large values only where they are used.                                  *)
NoSpeeds ==
  /\ conflicts = 1 /\ stage = "begin" /\ waiting = <<>> /\ timesteps = 0
  /\ speed_profile = <<>> /\ old_speed_profile = <<>> /\ way = <<>> /\ last = <<>>

Alone(p) == part = p /\ part' = p

MCInit ==
  /\ part \in {"link", "loop", "filter", "leds", "lights", "two planners", "three planners",
               "speeds"}
  /\ Init /\ Loop!Init /\ Filter!Init
  /\ Leds!Init /\ (part = "leds" \/ (id = 1 /\ tick = 0))
  /\ Lights!Init /\ (part = "lights" \/ shared = {})
  /\ Two!Init
  /\ part = "two planners" \/ (mode_of_two = "id" /\ planner_of_two[1].prio_vec = <<1, 2>>)
  /\ Three!Init /\ (part = "three planners" \/ mode = "id")
  /\ IF part = "speeds" THEN Speeds!Init ELSE NoSpeeds

MCNext ==
  \/ Alone("link") /\ Next
       /\ UNCHANGED <<loop_vars, filter, two, three, leds, lights, speeds>>
  \/ Alone("loop") /\ Loop!Next
       /\ UNCHANGED <<link, filter, two, three, leds, lights, speeds>>
  \/ Alone("filter") /\ Filter!Next
       /\ UNCHANGED <<link, loop_vars, two, three, leds, lights, speeds>>
  \/ Alone("two planners") /\ Two!Next
       /\ UNCHANGED <<link, loop_vars, filter, three, leds, lights, speeds>>
  \/ Alone("three planners") /\ Three!Next
       /\ UNCHANGED <<link, loop_vars, filter, two, leds, lights, speeds>>
  \/ Alone("leds") /\ Leds!Next
       /\ UNCHANGED <<link, loop_vars, filter, two, three, lights, speeds>>
  \/ Alone("lights") /\ Lights!Next
       /\ UNCHANGED <<link, loop_vars, filter, two, three, leds, speeds>>
  \/ Alone("speeds") /\ Speeds!Next
       /\ UNCHANGED <<link, loop_vars, filter, two, three, leds, lights>>

mcvars == <<part, link, loop_vars, filter, two, three, leds, lights, speeds>>

(* The fairness of the parts that have one, when they run.                 *)
MCFairness ==
  /\ WF_vars(Alone("link") /\ RaspberryStep) /\ WF_vars(Alone("link") /\ LoopStep)
  /\ WF_vars(Alone("link") /\ pi = "idle" /\ WatchdogInterrupt)
  /\ \A v \in 1 .. 2 : WF_two(Alone("two planners") /\ Two!PlannerStep(v))
  /\ \A v \in 1 .. 3 : WF_three(Alone("three planners") /\ Three!PlannerStep(v))

MCSpec == MCInit /\ [][MCNext]_mcvars /\ MCFairness

-----------------------------------------------------------------------------
(* A vehicle that is cut off stops: its board from the Raspberry Pi, or    *)
(* the Raspberry Pi from the positioning system.                           *)
CutOffVehicleStops == SilenceStopsMotor /\ Loop!LostIpsStops

(* All follow their new plans or none does, a plan was made with the plans *)
(* of those before, and two planners agree which of them is first.  What   *)
(* they plan can be driven, nobody meets another on the new plans or on    *)
(* the ends of older ones, and the search for such speeds ends.            *)
PlannersAgree ==
  /\ part = "two planners" =>
       Two!TypeOK /\ Two!AllOrNobody /\ Two!PlannedAgainst /\ Two!PrioritiesAgree
  /\ part = "three planners" =>
       Three!TypeOK /\ Three!AllOrNobody /\ Three!PlannedAgainst /\ Three!PrioritiesAgree
  /\ part = "speeds" => /\ Speeds!TypeOK /\ Speeds!CurrentStepKept /\ Speeds!EndsStopped
                        /\ Speeds!AlwaysSmooth /\ Speeds!NobodyMeets /\ Speeds!NeverStuck

(* Every planner ends the time step.                                       *)
TimestepEnds ==
  /\ part = "two planners" => Two!TimestepEnds
  /\ part = "three planners" => Three!TimestepEnds
=============================================================================

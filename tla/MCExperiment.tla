---------------------------- MODULE MCExperiment ----------------------------
(***************************************************************************)
(* Three sides of an experiment, one at a time: the simulated time of two  *)
(* programs, one of them mortal and found late by discovery, with a thread *)
(* that may stop the TimerTrigger at any moment; the control loops of two  *)
(* alike HLCs in real time, which can cancel a timestep, or need not do it *)
(* in time; or two vehicles that the LCC itself drives along paths.        *)
(***************************************************************************)
EXTENDS MCSimulatedTime, Experiment

CONSTANTS v1, v2

VARIABLE part

simulated_time == vars
loops == <<lcc, lcc_trigger, unsent, mw_pc, timer_due, hlc_online, all_hlc_online,
           experiment_triggered, mw_ready, answered, goal_pc, goal_queue, goal_batch,
           buffered_goal_states, forwarded, hlc_ready, list, hlc_trigger, command, hlc_pc, planning>>
paths == <<t_now, path, vehicle_trajectories, planner, vehicle_stop_list, joystick, simulation,
           commands, stops, directs, clicks, lost, following, killed, erased>>

-----------------------------------------------------------------------------
Alone(p) == part = p /\ part' = p

(* The two HLCs can change places, and occur in the control loops only.    *)
Symmetry == Permutations({v1, v2})

MCInit ==
  /\ part \in {"simulated time", "loops", "paths"}
  /\ Init /\ Loops!Init
  /\ Paths!Init /\ (part = "paths" \/ simulation = "off")

MCNext ==
  \/ Alone("simulated time") /\ Next /\ UNCHANGED <<loops, paths>>
  \/ Alone("loops") /\ Loops!Next /\ UNCHANGED <<simulated_time, paths>>
  \/ Alone("paths") /\ Paths!Next /\ UNCHANGED <<simulated_time, loops>>

MCSpec == MCInit /\ [][MCNext]_<<part, simulated_time, loops, paths>>
=============================================================================

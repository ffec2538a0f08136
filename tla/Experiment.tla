----------------------------- MODULE Experiment -----------------------------
(***************************************************************************)
(* Three sides of an experiment that do not interact here, each with       *)
(* variables of its own: the simulated time of its programs                *)
(* (SimulatedTime), the control loops of the HLCs of a NUC (ControlLoop),  *)
(* and the vehicles that the LCC itself drives along paths (DrawnPaths).   *)
(***************************************************************************)
EXTENDS SimulatedTime, FiniteSets

CONSTANTS
  Hlc, Simulated, Cancels, Goal,                           (* ControlLoop   *)
  Vehicle, Nobody, Moves, LastTime, Clicks, ClickTimes,    (* DrawnPaths    *)
  KillTimes, PlanTime, Lossy, Losses

VARIABLES lcc, lcc_trigger, unsent, mw_pc, timer_due, hlc_online, all_hlc_online,
          experiment_triggered, mw_ready, answered, goal_pc, goal_queue, goal_batch,
          buffered_goal_states, forwarded, hlc_ready, list, hlc_trigger, command, hlc_pc, planning
Loops == INSTANCE ControlLoop WITH
  Vehicle <- Hlc, ready <- hlc_ready, trigger <- hlc_trigger

VARIABLES t_now, path, vehicle_trajectories, planner, vehicle_stop_list, joystick, simulation,
          commands, stops, directs, clicks, lost, following, killed, erased
Paths == INSTANCE DrawnPaths WITH Horizon <- LastTime

-----------------------------------------------------------------------------
ASSUME LoopsAssumption == Simulated \in BOOLEAN /\ Cancels \subseteq Hlc

(* Times are counted in steps; and a vehicle that missed ten commands in a *)
(* row would stop (command_timeout), so fewer are lost.                    *)
ASSUME PathsAssumption ==
  /\ IsFiniteSet(Vehicle) /\ Nobody \notin Vehicle /\ Lossy \subseteq Vehicle
  /\ Moves \subseteq Nat /\ LastTime \in Nat /\ Clicks \in Nat
  /\ Losses \in Nat /\ Losses < Paths!command_timeout

-----------------------------------------------------------------------------
(* PROPERTIES                                                              *)

(* The middleware is ready when all HLCs are.                              *)
ReadyMeansReady == Loops!TypeOK /\ Loops!ReadyMeansReady

(* A vehicle that the LCC drives has its path in time, and its own one;    *)
(* after a click on kill none moves, and none takes up a path erased then; *)
(* to the start poses they go one after the other.                         *)
PathsSafe ==
  /\ Paths!TypeOK /\ Paths!PathDriven /\ Paths!PathOfItsVehicle
  /\ Paths!StopHolds /\ Paths!ErasedStaysErased /\ Paths!OneAtATime
=============================================================================

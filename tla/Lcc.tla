-------------------------------- MODULE Lcc --------------------------------
(***************************************************************************)
(* How the lab control center deploys programs: the uploads of module      *)
(* Upload and, each with variables of its own, the checks for crashes of   *)
(* what runs then (CrashChecker), the shell commands by which both start,  *)
(* kill and look up programs (CommandExecution) and the obstacles that are *)
(* played meanwhile (ObstacleSimulation).  What the others have to know of *)
(* an upload, that it has begun or is finished, is part of their modules;  *)
(* what a command does is not modelled.                                    *)
(***************************************************************************)
EXTENDS Upload, Sequences

CONSTANTS
  Local, Remote, Deployments, Failures,           (* as in CrashChecker     *)
  Caller, Pool, MaxId, Capacity, Calls, Lives,    (* as in CommandExecution *)
  Scenarios, time_step_size, future_time_steps, Final, LastTime, Clicks
                                                  (* as in ObstacleSimulation *)

ASSUME CrashAssumption == Deployments \in Nat /\ Failures \in Nat
ASSUME CommandAssumption ==
  MaxId \in Nat /\ Capacity \in Nat /\ Calls \in Nat /\ Lives \in Nat \ {0}

(* The states of an obstacle are one time unit apart, from time 0 on; the  *)
(* first is always there.                                                  *)
ASSUME ScenarioAssumption ==
  /\ \A file \in Scenarios : \A o \in DOMAIN file :
       /\ file[o] \in Seq(Nat) /\ Len(file[o]) >= 1
       /\ \A i \in 1 .. Len(file[o]) : file[o][i] = i - 1
  /\ time_step_size \in Nat \ {0}
  /\ future_time_steps \in Nat \ {0, 1} /\ Final \in Nat \ {0, 1}
  /\ LastTime \in Nat /\ Clicks \in Nat

VARIABLES c_gtk, checker, crash_check_running, found, newly_crashed_participants,
          already_crashed_participants, c_dispatches, running_remote_hlcs, crashed_remote_hlcs,
          waited, c_upload_done, up, hlc_map, c_deployed, deployments, failed, c_shown, late
Crashes == INSTANCE CrashChecker WITH
  gtk <- c_gtk, dispatches <- c_dispatches, upload_done <- c_upload_done,
  deployed <- c_deployed, shown <- c_shown

VARIABLES lcc, life, current_command_id, calls, caller, request, response, reader, job_queue,
          pool, executed
Commands == INSTANCE CommandExecution WITH Worker <- Pool, worker <- pool

VARIABLES scenario, simulation_timer, standby_timer, now, current_trajectory,
          simulated_obstacle_states, toggles, load_obstacle_list, preview_enabled, o_deployed,
          clicks, o_shown, vehicle
Obstacles == INSTANCE ObstacleSimulation WITH deployed <- o_deployed, shown <- o_shown

-----------------------------------------------------------------------------
(* An answer is given to the caller whose command it is about, and nobody's *)
(* answer fills the queue.                                                 *)
AnswersMatch == Commands!TypeOK /\ Commands!OwnAnswer /\ Commands!AnswersAreAwaited

(* Nothing is reported as crashed that did not fail, old crashes were      *)
(* reported, and every NUC is either running or crashed.                   *)
CrashesTrue ==
  Crashes!TypeOK /\ Crashes!NoFalseAlarm /\ Crashes!AlreadyMeansReported /\ Crashes!RemotePartition

(* Obstacles are shown where the time of the run puts them, by one timer;  *)
(* their vehicles get trajectories they can follow, and keep none of a run *)
(* that is over.                                                           *)
ObstaclesPlayed ==
  /\ Obstacles!TypeOK
  /\ Obstacles!SegmentMatchesTime /\ Obstacles!OneTimerShows
  /\ Obstacles!TrajectoryDrivable /\ Obstacles!NothingLeftToDrive
=============================================================================

------------------------- MODULE ObstacleSimulation -------------------------
(***************************************************************************)
(* The obstacles of a CommonRoad scenario as the LCC plays them            *)
(* (ObstacleSimulationManager, ObstacleSimulation, and the clicks of       *)
(* CommonroadViewUI): a timer sends their states, or their trajectories to *)
(* vehicles that take their part; between the experiments another timer    *)
(* shows where they begin.  The GTK thread starts and stops the timers for *)
(* previews, deployments, transformations and new scenarios; stop() of a   *)
(* timer waits for its callback, so that callbacks and clicks are steps.   *)
(* Time is counted in periods of the timer from its start, a position is   *)
(* its index in the scenario, starting at 1.                               *)
(***************************************************************************)
EXTENDS Integers, Sequences

CONSTANTS
  Scenarios,          (* files: of every obstacle the times of its points  *)
  time_step_size,     (* periods of the timer in a unit of these times     *)
  future_time_steps,  (* points sent to a vehicle at most (10)             *)
  Final,              (* points it is filled up to (4)                     *)
  LastTime,           (* bound: periods of a run                           *)
  Clicks              (* bound: clicks of the user                         *)

VARIABLES
  scenario,                   (* the one loaded, <<>> after a failure      *)
  simulation_timer,           (* "none", "wait" for the start signal,      *)
                              (* "run", "ended" by a stop signal           *)
  standby_timer,              (* whether it runs                           *)
  now,                        (* t_now - start_time of the last period     *)
  current_trajectory,         (* of every obstacle                         *)
  simulated_obstacle_states,  (* "Simulated" or "On": played by a vehicle  *)
  toggles,                    (* the switches the user sees                *)
  load_obstacle_list,         (* the switches are to be made anew          *)
  preview_enabled, deployed,
  clicks,
  shown,                      (* history: the index last sent as a state   *)
  vehicle                     (* history: the last trajectory sent         *)

manager == <<scenario, simulation_timer, standby_timer, now, current_trajectory, simulated_obstacle_states>>
ui == <<toggles, load_obstacle_list, preview_enabled, deployed, clicks>>
vars == <<manager, ui, shown, vehicle>>

Obstacle == DOMAIN scenario
Times(o) == scenario[o]
Size(o) == Len(Times(o))
On == {o \in Obstacle : simulated_obstacle_states[o] = "On"}
All(S, value) == [o \in S |-> value]

TypeOK ==
  /\ scenario \in Scenarios \cup {<<>>}
  /\ simulation_timer \in {"none", "wait", "run", "ended"} /\ standby_timer \in BOOLEAN
  /\ now \in -1 .. LastTime
  /\ \A o \in Obstacle : current_trajectory[o] \in 1 .. Size(o)
  /\ simulated_obstacle_states \in [Obstacle -> {"Simulated", "On"}]
  /\ \A o \in DOMAIN toggles : toggles[o] \in {"Simulated", "On"}
  /\ {load_obstacle_list, preview_enabled, deployed} \subseteq BOOLEAN /\ clicks \in 0 .. Clicks
  /\ \A o \in Obstacle : shown[o] \in 0 .. Size(o)
  /\ \A o \in DOMAIN vehicle : \A i \in 1 .. Len(vehicle[o]) : vehicle[o][i] \in [index : Nat, t : Nat]

(* The constructor has set up the scenario, the dispatcher its switches.   *)
Init ==
  /\ scenario \in Scenarios
  /\ simulation_timer = "none" /\ standby_timer = TRUE
  /\ now = -1
  /\ current_trajectory = All(Obstacle, 1) /\ shown = All(Obstacle, 0)
  /\ simulated_obstacle_states = All(Obstacle, "Simulated")
  /\ toggles = All(Obstacle, "Simulated") /\ load_obstacle_list = FALSE
  /\ preview_enabled = FALSE /\ deployed = FALSE /\ clicks = 0
  /\ vehicle = All(UNION {DOMAIN s : s \in Scenarios}, <<>>)

-----------------------------------------------------------------------------
(* The callback of the simulation timer                                    *)

(* "Get to currently active index / trajectory point".                     *)
Advance(o, t) ==
  CHOOSE i \in current_trajectory[o] .. Size(o) :
    /\ i = Size(o) \/ t < Times(o)[i] * time_step_size
    /\ \A j \in current_trajectory[o] .. i - 1 : t >= Times(o)[j] * time_step_size

Min2(a, b) == IF a <= b THEN a ELSE b

FinalPointsFromNow(o, count, t) ==
  [k \in 1 .. Final - count |-> [index |-> Size(o), t |-> t + (k - 1) * time_step_size]]

(* The last point again and again, from time t on: count points are there. *)
FinalPoints(o, count, t) ==
  [k \in 1 .. Final - count |-> [index |-> Size(o), t |-> t + (count + k - 1) * time_step_size]]

(* get_trajectory: from the point before the current one, without the last *)
(* two, while the last has not come; then the last.                        *)
Trajectory(o, current, t) ==
  LET start == IF current > 1 THEN current - 1 ELSE 1
      last == IF t < Times(o)[Size(o)] * time_step_size
              THEN Min2(start + future_time_steps - 1, Size(o) - 2) ELSE 0
      points == [k \in 1 .. last - start + 1 |->
        [index |-> start + k - 1, t |-> Times(o)[start + k - 1] * time_step_size]]
  IN points \o (IF Len(points) < future_time_steps THEN FinalPoints(o, Len(points), t) ELSE <<>>)

(* The next period or, when the timer is late, a later one: the states of  *)
(* the simulated obstacles (get_state), then the trajectories.             *)
Callback ==
  /\ simulation_timer = "run"
  /\ \E missed \in {0, 1} : now' = now + 1 + missed /\ now' <= LastTime
  /\ current_trajectory' = [o \in Obstacle |-> Advance(o, now')]
  /\ shown' = [o \in Obstacle |-> IF o \in On THEN shown[o] ELSE current_trajectory'[o]]
  /\ vehicle' = [o \in DOMAIN vehicle |->
       IF o \in On THEN Trajectory(o, current_trajectory'[o], now') ELSE vehicle[o]]
  /\ UNCHANGED <<scenario, simulation_timer, standby_timer, simulated_obstacle_states, ui>>

(* The start signal, for which the timer of a preview does not wait, and   *)
(* the stop signal, after which the timer is of no use.                    *)
Signal ==
  /\ \/ simulation_timer = "wait" /\ simulation_timer' = "run"
     \/ simulation_timer \in {"wait", "run"} /\ simulation_timer' = "ended"
  /\ UNCHANGED <<scenario, standby_timer, now, current_trajectory, simulated_obstacle_states, ui, shown, vehicle>>

-----------------------------------------------------------------------------
(* The operations of the manager, as parts of the clicks.  Every one of    *)
(* them begins with stop_timers, which sends empty trajectories to the     *)
(* obstacles that are on.                                                  *)

StopTimers == vehicle' = [o \in DOMAIN vehicle |-> IF o \in On THEN <<>> ELSE vehicle[o]]

StopOnlyTimers ==
  /\ StopTimers
  /\ simulation_timer' = "none" /\ standby_timer' = TRUE /\ now' = -1
  /\ UNCHANGED <<scenario, simulated_obstacle_states, current_trajectory, shown>>

(* stop(): the obstacles go back, the standby timer shows them there.      *)
Stop ==
  /\ StopTimers
  /\ simulation_timer' = "none" /\ standby_timer' = TRUE /\ now' = -1
  /\ current_trajectory' = All(Obstacle, 1) /\ shown' = All(Obstacle, 0)
  /\ UNCHANGED <<scenario, simulated_obstacle_states>>

StartBeside(timer) ==
  /\ StopTimers
  /\ simulation_timer' = timer /\ now' = -1
  /\ UNCHANGED <<scenario, standby_timer, simulated_obstacle_states, current_trajectory, shown>>

(* start_helper().                                                         *)
Start(timer) ==
  /\ StopTimers
  /\ simulation_timer' = timer /\ standby_timer' = FALSE /\ now' = -1
  /\ UNCHANGED <<scenario, simulated_obstacle_states, current_trajectory, shown>>

(* reset() and setup() with what a file holds; then the states are set as  *)
(* the switches are, those of the file before.                             *)
Setup(file) ==
  /\ StopTimers
  /\ simulation_timer' = "none" /\ standby_timer' = TRUE /\ now' = -1
  /\ scenario' = file
  /\ current_trajectory' = All(DOMAIN file, 1) /\ shown' = All(DOMAIN file, 0)
  /\ simulated_obstacle_states' = [o \in DOMAIN file |-> IF o \in DOMAIN toggles THEN toggles[o] ELSE "Simulated"]

-----------------------------------------------------------------------------
(* The user.  The tab can be used while nothing is deployed.               *)

Click == clicks < Clicks /\ clicks' = clicks + 1

PreviewClicked ==
  /\ Click /\ ~deployed
  /\ IF preview_enabled THEN Stop ELSE Start("run")
  /\ preview_enabled' = ~preview_enabled
  /\ UNCHANGED <<toggles, load_obstacle_list, deployed>>

reset_preview ==
  /\ preview_enabled' = FALSE
  /\ IF preview_enabled THEN Stop ELSE UNCHANGED <<manager, shown, vehicle>>

SelectFirst(o, state) ==
  /\ simulated_obstacle_states' = [x \in Obstacle |-> IF x = o THEN state ELSE simulated_obstacle_states[x]]
  /\ preview_enabled' = FALSE
  /\ IF preview_enabled
     THEN /\ vehicle' = [x \in DOMAIN vehicle |->
               IF x \in Obstacle /\ simulated_obstacle_states'[x] = "On" THEN <<>> ELSE vehicle[x]]
          /\ simulation_timer' = "none" /\ standby_timer' = TRUE /\ now' = -1
          /\ current_trajectory' = All(Obstacle, 1) /\ shown' = All(Obstacle, 0)
     ELSE UNCHANGED <<simulation_timer, standby_timer, now, current_trajectory, shown, vehicle>>
  /\ UNCHANGED scenario

(* vehicle_selection_changed: first reset_preview, then the new state.     *)
Select(o, state) ==
  /\ preview_enabled' = FALSE
  /\ IF preview_enabled
     THEN /\ StopTimers /\ simulation_timer' = "none" /\ standby_timer' = TRUE /\ now' = -1
          /\ current_trajectory' = All(Obstacle, 1) /\ shown' = All(Obstacle, 0)
     ELSE UNCHANGED <<simulation_timer, standby_timer, now, current_trajectory, shown, vehicle>>
  /\ simulated_obstacle_states' = [x \in Obstacle |-> IF x = o THEN state ELSE simulated_obstacle_states[x]]
  /\ UNCHANGED scenario

Toggle ==
  /\ Click /\ ~deployed
  /\ \E o \in DOMAIN toggles :
       LET state == IF toggles[o] = "On" THEN "Simulated" ELSE "On"
       IN toggles' = [toggles EXCEPT ![o] = state] /\ Select(o, state)
  /\ UNCHANGED <<load_obstacle_list, deployed>>

(* A transformation, or a new length of the time steps.                    *)
Transform ==
  /\ Click /\ ~deployed
  /\ Setup(scenario)
  /\ preview_enabled' = FALSE
  /\ UNCHANGED <<toggles, load_obstacle_list, deployed>>

(* load_chosen_file: the file is read, is no scenario (clear_data, and the *)
(* exception leaves out the rest), or was loaded less than a second ago.   *)
LoadFile ==
  /\ Click /\ ~deployed
  /\ \/ /\ \E file \in Scenarios : Setup(file)
        /\ preview_enabled' = FALSE
     \/ /\ StopTimers
        /\ simulation_timer' = "none" /\ standby_timer' = FALSE /\ now' = -1
        /\ scenario' = <<>> /\ simulated_obstacle_states' = <<>>
        /\ current_trajectory' = <<>> /\ shown' = <<>>
        /\ preview_enabled' = FALSE
     \/ reset_preview
  /\ load_obstacle_list' = TRUE
  /\ UNCHANGED <<toggles, deployed>>

(* The dispatcher makes the switches of the file that was loaded.          *)
DispatcherCallback ==
  /\ load_obstacle_list /\ load_obstacle_list' = FALSE
  /\ toggles' = All(Obstacle, "Simulated")
  /\ UNCHANGED <<manager, preview_enabled, deployed, clicks, shown, vehicle>>

(* reset_preview(), stop(), start(); and stop() at the end.                *)
Deploy ==
  /\ Click /\ ~deployed /\ deployed' = TRUE
  /\ StopTimers
  /\ simulation_timer' = "wait" /\ standby_timer' = FALSE /\ now' = -1
  /\ current_trajectory' = All(Obstacle, 1) /\ shown' = All(Obstacle, 0)
  /\ preview_enabled' = FALSE
  /\ UNCHANGED <<scenario, simulated_obstacle_states, toggles, load_obstacle_list>>

Undeploy ==
  /\ deployed /\ deployed' = FALSE
  /\ Stop
  /\ UNCHANGED <<toggles, load_obstacle_list, preview_enabled, clicks>>

(* The user may not click any more.                                        *)
Next ==
  \/ Callback \/ Signal
  \/ PreviewClicked \/ Toggle \/ Transform \/ LoadFile \/ Deploy \/ Undeploy
  \/ DispatcherCallback

Spec == Init /\ [][Next]_vars

-----------------------------------------------------------------------------
(* Properties                                                              *)

(* What is shown of an obstacle is the piece of its trajectory that the    *)
(* time of the run lies in, whatever was previewed or played before: the   *)
(* index only ever grows in get_state and stop() has to take it back.      *)
SegmentMatchesTime ==
  simulation_timer = "run" => \A o \in Obstacle : shown[o] > 0 =>
    /\ \A i \in 1 .. shown[o] - 1 : Times(o)[i] * time_step_size <= now
    /\ shown[o] = Size(o) \/ now < Times(o)[shown[o]] * time_step_size

(* When nothing is played no vehicle still has a trajectory: whatever ended *)
(* the run (also a switch, a file or a transformation that changes who is   *)
(* on) sent the empty one to everyone who had been sent another.            *)
NothingLeftToDrive == simulation_timer = "none" => \A o \in DOMAIN vehicle : vehicle[o] = <<>>

(* Never do both timers write the obstacles, which would then jump between *)
(* where they are and where they begin.                                    *)
OneTimerShows == ~(standby_timer /\ simulation_timer # "none")

(* A vehicle can follow what it is sent: the times of the points increase, *)
(* from the current time or before to a time to come, also where points of *)
(* the scenario and repetitions of the last one are put together.          *)
TrajectoryDrivable ==
  simulation_timer = "run" => \A o \in On : LET v == vehicle[o] IN v # <<>> =>
    /\ \A i \in 1 .. Len(v) - 1 : v[i].t < v[i + 1].t
    /\ v[1].t <= now /\ now < v[Len(v)].t

(* The switches show who is played by a vehicle ("Get the current toggle   *)
(* state", ObstacleToggle.hpp).                                            *)
TogglesShowStates ==
  ~load_obstacle_list => \A o \in Obstacle : toggles[o] = simulated_obstacle_states[o]

=============================================================================

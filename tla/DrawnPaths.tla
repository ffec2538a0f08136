----------------------------- MODULE DrawnPaths -----------------------------
(***************************************************************************)
(* How the LCC itself drives vehicles: along paths drawn into the map view *)
(* (MapViewUi) or planned to the start poses (GoToPlanner), both sent      *)
(* piece by piece as trajectories (TrajectoryCommand); with a joystick     *)
(* (VehicleManualControl); and not at all, after a click on kill           *)
(* (VehicleAutomatedControl).  A vehicle follows what its Controller       *)
(* prefers (VehicleLoop has the rest of it).  Time is counted in steps of  *)
(* dt_nanos, 100 ms; poses are left out.                                   *)
(***************************************************************************)
EXTENDS Naturals, FiniteSets

CONSTANTS
  Vehicle,
  Nobody,      (* no vehicle: id -1, which becomes the unused id 255        *)
  Moves,       (* how long a vehicle may drive along a path                *)
  Horizon,     (* bound: time                                              *)
  Clicks,      (* bound: paths and clicks on buttons                       *)
  ClickTimes,  (* bound: when the paths and the clicks come                *)
  KillTimes,   (* bound: how long the threads of a distributed kill need   *)
  PlanTime,    (* bound: time the GoToPlanner needs for a vehicle          *)
  Lossy,       (* vehicles that may miss commands                          *)
  Losses       (* bound: commands lost                                     *)

Standstill == 15          (* at both ends of a path                        *)
max_comm_delay == 2
t_min_lead == 5
t_command_timeout == 5
MaxPoints == 20           (* of a trajectory in one command                *)
StopCommands == 5         (* "How often the command should be sent"        *)
command_timeout == 10     (* of the vehicle                                *)
Prediction == 4           (* of the MPC: it looks 360 ms ahead             *)

Halt == [kind |-> "halt"]
Joystick == [kind |-> "joystick"]
NoPath == [kind |-> "none"]

VARIABLES
  t_now,
  path,                   (* path_painting_in_progress, with the id it is for *)
  vehicle_trajectories,   (* of TrajectoryCommand                          *)
  planner,                (* the thread of the GoToPlanner: who has a plan,  *)
                          (* and total_trajectory_duration                 *)
  vehicle_stop_list,
  joystick,               (* the vehicle_id of the update_loop, if it runs  *)
  simulation,             (* off, running, or being killed                 *)
  commands,               (* trajectories in the readers of the vehicles   *)
  stops, directs,         (* when the other commands there were created    *)
  clicks, lost,
  following,              (* history: what the vehicles follow in this step *)
  killed, erased          (* history: the last click on kill; the last one *)
                          (* that erased the paths at once                 *)

lcc == <<path, vehicle_trajectories, planner, vehicle_stop_list, joystick, simulation>>
readers == <<commands, stops, directs>>
vars == <<t_now, lcc, readers, clicks, lost, following, killed, erased>>

Time == 0 .. Horizon
Path == [kind : {"path"}, of : Vehicle, round : 0 .. Clicks, set : Time, start : Nat, move : Moves]
Command == [create : Time, path : Path, until : Nat]
OffTime == Time \cup {Horizon + 1}

TypeOK ==
  /\ t_now \in Time
  /\ path \in [id : Vehicle \cup {Nobody}, of : Vehicle \cup {Nobody}]
  /\ vehicle_trajectories \in [Vehicle -> Path \cup {NoPath}]
  /\ planner \in [running : BOOLEAN, round : 0 .. Clicks, since : Time, done : SUBSET Vehicle,
                 total : Nat]
  /\ vehicle_stop_list \in [Vehicle -> 0 .. StopCommands + 1]
  /\ joystick \in Vehicle \cup {Nobody}
  /\ simulation \in {"off", "running", "killing"}
  /\ \A v \in Vehicle : commands[v] \subseteq Command
  /\ stops \in [Vehicle -> OffTime] /\ directs \in [Vehicle -> OffTime]
  /\ clicks \in 0 .. Clicks /\ lost \in 0 .. Losses
  /\ following \in [Vehicle -> Path \cup {Halt, Joystick}]
  /\ killed \in OffTime /\ erased \in OffTime

Never == Horizon + 1      (* a time that does not come                     *)

(* The experiment may already run.                                          *)
Init ==
  /\ t_now = 0
  /\ path = [id |-> Nobody, of |-> Nobody]
  /\ vehicle_trajectories = [v \in Vehicle |-> NoPath]
  /\ planner = [running |-> FALSE, round |-> 0, since |-> 0, done |-> {}, total |-> 0]
  /\ vehicle_stop_list = [v \in Vehicle |-> 0]
  /\ joystick = Nobody /\ simulation \in {"off", "running"}
  /\ commands = [v \in Vehicle |-> {}]
  /\ stops = [v \in Vehicle |-> Never] /\ directs = [v \in Vehicle |-> Never]
  /\ clicks = 0 /\ lost = 0
  /\ following = [v \in Vehicle |-> Halt]
  /\ killed = Never /\ erased = Never

-----------------------------------------------------------------------------
(* The GTK thread                                                          *)

(* Nothing happens before the first click, so it comes early.              *)
ClickTime == clicks < Clicks /\ t_now \in ClickTimes /\ (clicks = 0 => t_now <= 1)

Click == ClickTime /\ clicks' = clicks + 1

(* Mutant: the path goes on where the last one began.                      *)
PressGoesOn(focus) ==
  path' = [id |-> focus, of |-> IF path.of = Nobody THEN focus ELSE path.of]

(* The left button is pressed, or another one while it is held; a path is  *)
(* kept when there is no vehicle.                                          *)
Press(focus) == path' = [id |-> focus, of |-> IF focus = Nobody THEN path.of ELSE focus]

StartDrawing ==
  /\ ClickTime /\ path.of = Nobody
  /\ \E v \in Vehicle : Press(v)
  /\ UNCHANGED <<t_now, vehicle_trajectories, planner, vehicle_stop_list, joystick, simulation,
                 readers, clicks, lost, following, killed, erased>>

PressAnother ==
  /\ path.of # Nobody
  /\ \E focus \in Vehicle \cup {Nobody} : Press(focus)
  /\ UNCHANGED <<t_now, vehicle_trajectories, planner, vehicle_stop_list, joystick, simulation,
                 readers, clicks, lost, following, killed, erased>>

(* Mutant: the trajectory starts now.                                      *)
SetPathAtOnce(v, of, round, move, delay) ==
  vehicle_trajectories' = [vehicle_trajectories EXCEPT ![v] =
    [kind |-> "path", of |-> of, round |-> round, set |-> t_now, start |-> t_now, move |-> move]]

SetPath(v, of, round, move, delay) ==
  vehicle_trajectories' = [vehicle_trajectories EXCEPT ![v] =
    [kind |-> "path", of |-> of, round |-> round, set |-> t_now, start |-> t_now + delay,
     move |-> move]]

Duration(move) == 2 * Standstill + move

(* The button is released; a path of at most 25 points is dropped.         *)
Release ==
  /\ path.of # Nobody /\ path' = [id |-> Nobody, of |-> Nobody]
  /\ \/ \E move \in Moves :
          /\ Click
          /\ IF path.id \in Vehicle THEN SetPath(path.id, path.of, 0, move, 5)
             ELSE UNCHANGED vehicle_trajectories
     \/ UNCHANGED <<clicks, vehicle_trajectories>>
  /\ UNCHANGED <<t_now, planner, vehicle_stop_list, joystick, simulation, readers, lost,
                 following, killed, erased>>

(* go_to_poses: the GTK thread joins the last planning first.              *)
GoToStartPoses ==
  /\ Click /\ ~planner.running
  /\ planner' = [running |-> TRUE, round |-> planner.round + 1, since |-> t_now, done |-> {},
               total |-> 0]
  /\ UNCHANGED <<t_now, path, vehicle_trajectories, vehicle_stop_list, joystick, simulation,
                 readers, lost, following, killed, erased>>

Everyone(n) == [v \in Vehicle |-> n]

(* Mutant: one command has to do.                                          *)
StopOnce == vehicle_stop_list' = Everyone(1)

(* stop_vehicles                                                           *)
StopVehicles == vehicle_stop_list' = Everyone(StopCommands + 1)

(* Mutant: the kill button leaves the paths to the stop commands.          *)
KeepPaths == UNCHANGED vehicle_trajectories

StopAll == vehicle_trajectories' = [v \in Vehicle |-> NoPath]

(* kill_deployed_applications: the paths are erased with the rest when the *)
(* programs have been killed, and not at all when there are none.          *)
Kill ==
  /\ Click /\ StopVehicles /\ killed' = t_now
  /\ \/ /\ simulation # "running"
        /\ UNCHANGED <<vehicle_trajectories, simulation, erased>>
     \/ /\ simulation = "running" /\ simulation' = "killing"
        /\ UNCHANGED <<vehicle_trajectories, erased>>
     \/ /\ simulation = "running" /\ simulation' = "off"
        /\ StopAll /\ erased' = t_now
  /\ UNCHANGED <<t_now, path, planner, joystick, readers, lost, following>>

(* perform_post_kill_cleanup after the threads of a distributed kill.      *)
PostKillCleanup ==
  /\ simulation = "killing" /\ simulation' = "off" /\ t_now - killed \in KillTimes
  /\ StopAll
  /\ UNCHANGED <<t_now, path, planner, vehicle_stop_list, joystick, readers, clicks, lost,
                 following, killed, erased>>

Deploy ==
  /\ Click /\ simulation = "off" /\ simulation' = "running"
  /\ StopAll
  /\ UNCHANGED <<t_now, path, planner, vehicle_stop_list, joystick, readers, lost, following,
                 killed, erased>>

(* start and stop of the joystick.  Without the device it throws, when the *)
(* loop that may run already belongs to the other vehicle.                 *)
StartJoystick ==
  /\ Click
  /\ \E v \in Vehicle : joystick' \in IF joystick = Nobody THEN {v, Nobody} ELSE {v}
  /\ UNCHANGED <<t_now, path, vehicle_trajectories, planner, vehicle_stop_list, simulation,
                 readers, lost, following, killed, erased>>

StopJoystick ==
  /\ Click /\ joystick # Nobody /\ joystick' = Nobody
  /\ UNCHANGED <<t_now, path, vehicle_trajectories, planner, vehicle_stop_list, simulation,
                 readers, lost, following, killed, erased>>

-----------------------------------------------------------------------------
(* The thread of the GoToPlanner                                           *)

(* Mutant: every vehicle starts after the same delay.                      *)
TogetherWith == 10

(* "std::max<uint64_t>(total_trajectory_duration, planning_delay)"         *)
DelayFor == IF planner.total > 10 THEN planner.total ELSE 10

(* It plans for a vehicle that can reach its pose past the others.         *)
PlanPath ==
  /\ planner.running
  /\ \E v \in Vehicle \ planner.done, move \in Moves :
       /\ SetPath(v, v, planner.round, move, DelayFor)
       /\ planner' = [planner EXCEPT !.since = t_now, !.done = @ \cup {v},
                                      !.total = @ + Duration(move)]
  /\ UNCHANGED <<t_now, path, vehicle_stop_list, joystick, simulation, readers, clicks, lost,
                 following, killed, erased>>

(* All have plans, or none of the others can move.                         *)
PlannedAll ==
  /\ planner.running
  /\ planner' = [planner EXCEPT !.running = FALSE, !.since = 0, !.done = {}, !.total = 0]
  /\ UNCHANGED <<t_now, path, vehicle_trajectories, vehicle_stop_list, joystick, simulation,
                 readers, clicks, lost, following, killed, erased>>

-----------------------------------------------------------------------------
(* The timers                                                              *)

End(p) == p.start + Duration(p.move) - 1
Smaller(a, b) == IF a < b THEN a ELSE b

Timely(p, valid) == End(p) >= valid + t_min_lead + t_command_timeout /\ p.start <= valid

(* Mutant: always the first points of the trajectory.                      *)
SendFromStart(p, now) ==
  {c \in {[create |-> now, path |-> p, until |-> Smaller(p.start + MaxPoints - 1, End(p))]} :
     Timely(p, now + max_comm_delay + 1)}

(* send_trajectory: from the point that is active when the command becomes *)
(* valid; not when it starts too far in the future or ends too soon.       *)
SendTrajectory(p, now) ==
  LET valid == now + max_comm_delay + 1
  IN {c \in {[create |-> now, path |-> p, until |-> Smaller(valid + MaxPoints - 1, End(p))]} :
        Timely(p, valid)}

Sent(now) ==
  [v \in Vehicle |->
     IF vehicle_trajectories[v] = NoPath THEN {} ELSE SendTrajectory(vehicle_trajectories[v], now)]

(* The task loop sends a command to everybody on its list every 200 ms.    *)
Stopped(now) == {v \in Vehicle : now % 2 = 0 /\ vehicle_stop_list[v] > 0}

-----------------------------------------------------------------------------
(* The vehicles                                                            *)

Valid(v, now) == {c \in commands[v] : c.create + max_comm_delay + 1 <= now}
Newest(v, now) == {c \in Valid(v, now) : \A d \in Valid(v, now) : d.create <= c.create}

FreshDirect(v, now) == directs[v] < now /\ now < directs[v] + command_timeout
FreshStop(v, now) == stops[v] < now /\ now < stops[v] + 1 + command_timeout

(* Mutant: as in the other order of kinds.                                 *)
TrajectoryFirst(v, now) ==
  LET usable == {c \in Newest(v, now) : now < c.create + max_comm_delay + 1 + command_timeout}
  IN IF usable # {} THEN {c.path : c \in usable}
     ELSE IF FreshDirect(v, now) THEN {Joystick} ELSE {Halt}

(* receive_commands: the first kind that is not too old; and the MPC stops *)
(* when it does not see far enough.                                        *)
Follow(v, now) ==
  LET usable == {c \in Newest(v, now) :
                   /\ now < c.create + max_comm_delay + 1 + command_timeout
                   /\ c.until >= now + Prediction}
  IN CASE FreshDirect(v, now) -> {Joystick}
     []   ~FreshDirect(v, now) /\ (FreshStop(v, now) \/ usable = {}) -> {Halt}
     []   OTHER -> {c.path : c \in usable}

(* 100 ms pass: the vehicles follow what they have, and the timers send.   *)
(* A path is drawn within a step, as nobody reads it before it is complete. *)
Tick ==
  LET now == t_now + 1
      Kept(v) == {c \in commands[v] : \A n \in Newest(v, now) : n.create <= c.create}
  IN /\ t_now < Horizon /\ t_now' = now
     /\ path.of = Nobody
     /\ simulation = "killing" => \E time \in KillTimes : t_now < killed + time
     /\ planner.running => t_now < planner.since + PlanTime
     /\ following' \in {f \in [Vehicle -> UNION {Follow(v, now) : v \in Vehicle}] :
                          \A v \in Vehicle : f[v] \in Follow(v, now)}
     /\ \E drop \in SUBSET ({v \in Lossy : Sent(now)[v] # {}} \X {"trajectory"}
                              \cup (Stopped(now) \cap Lossy) \X {"stop"}) :
          /\ Cardinality(drop) + lost <= Losses /\ lost' = lost + Cardinality(drop)
          /\ commands' = [v \in Vehicle |->
               Kept(v) \cup IF <<v, "trajectory">> \in drop THEN {} ELSE Sent(now)[v]]
          /\ stops' = [v \in Vehicle |->
               IF v \in Stopped(now) /\ <<v, "stop">> \notin drop THEN now ELSE stops[v]]
     /\ directs' = [v \in Vehicle |-> IF v = joystick THEN now ELSE directs[v]]
     /\ vehicle_stop_list' = [v \in Vehicle |->
          IF v \in Stopped(now) THEN vehicle_stop_list[v] - 1 ELSE vehicle_stop_list[v]]
     /\ UNCHANGED <<path, vehicle_trajectories, planner, joystick, simulation, clicks, killed,
                    erased>>

Next ==
  \/ StartDrawing \/ PressAnother \/ Release \/ GoToStartPoses
  \/ Kill \/ PostKillCleanup \/ Deploy \/ StartJoystick \/ StopJoystick
  \/ PlanPath \/ PlannedAll \/ Tick

Spec == Init /\ [][Next]_vars

-----------------------------------------------------------------------------
(* PROPERTIES                                                              *)

Drives(v) == following[v].kind = "path"
Moving(p) == p.start + Standstill .. p.start + Standstill + p.move

(* "check for sufficient lead time": while a vehicle should move along its *)
(* path, it has the points it needs, from commands that are not too old;   *)
(* only the driver with the joystick or a stop command keeps it from it.   *)
PathDriven ==
  \A v \in Vehicle :
    /\ vehicle_trajectories[v] # NoPath /\ t_now \in Moving(vehicle_trajectories[v])
    /\ following[v] = Halt
    => t_now \in stops[v] .. stops[v] + command_timeout

(* A path is driven by the vehicle it starts at.                           *)
PathOfItsVehicle == \A v \in Vehicle : Drives(v) => following[v].of = v

(* Until all have begun to stop, and as long as the commands last.         *)
Reached == 3 + 2 * Losses
Outlived == 21 - 2 * Losses

(* "make all vehicles stop immediately": no vehicle drives along a path    *)
(* for the next two seconds.                                               *)
StopHolds ==
  t_now \in killed + Reached .. killed + Outlived => \A v \in Vehicle : ~Drives(v)

(* The stop commands outlive the trajectories the vehicles have: a path    *)
(* erased at a click on kill is not taken up again.                        *)
ErasedStaysErased ==
  t_now >= erased + Reached => \A v \in Vehicle : Drives(v) => following[v].set >= erased

(* Vehicles on their way to the start poses move one after the other, as   *)
(* each path is planned past those that stand.                             *)
OneAtATime ==
  \A u, v \in Vehicle :
    LET p == vehicle_trajectories[u]
        q == vehicle_trajectories[v]
    IN u # v /\ p # NoPath /\ q # NoPath /\ p.round > 0 /\ p.round = q.round
         => Moving(p) \cap Moving(q) = {}
=============================================================================

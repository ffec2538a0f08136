------------------------- MODULE DrawnPaths_proofs -------------------------
(***************************************************************************)
(* Proofs about DrawnPaths, for any number of vehicles, clicks and lengths *)
(* of paths, and however long a kill or a planning takes: a vehicle that   *)
(* the LCC drives follows its own path in time, unless ten commands in a   *)
(* row are lost; a click on kill stops all; an erased path is not taken up *)
(* again; and to the start poses the vehicles go one after the other.      *)
(***************************************************************************)
EXTENDS DrawnPaths, Integers, Recursion, FiniteSetTheorems, TLAPS

(* What the proofs need of the constants.                                  *)
Parameters ==
  /\ IsFiniteSet(Vehicle) /\ Nobody \notin Vehicle
  /\ Moves \subseteq Nat /\ Horizon \in Nat /\ Clicks \in Nat
  /\ Lossy \subseteq Vehicle /\ Losses \in Nat

-----------------------------------------------------------------------------
(* The inductive invariant                                                 *)

(* Every variable keeps to its type; every planning was a click.           *)
Types ==
  /\ TypeOK
  /\ commands \in [Vehicle -> SUBSET Command]
  /\ planner.round <= clicks

(* A path that is drawn, stored, sent or followed is that of its vehicle.  *)
Owners ==
  /\ path.id \in Vehicle => path.of = path.id
  /\ \A v \in Vehicle :
       /\ vehicle_trajectories[v] # NoPath => vehicle_trajectories[v].of = v
       /\ \A c \in commands[v] : c.path.of = v
       /\ Drives(v) => following[v].of = v

(* A click has been, or never is.                                          *)
Clicked == \A k \in {killed, erased} : k <= t_now \/ k = Never

(* A path is set before it starts.  What was sent since then is of that    *)
(* path; and nothing has been sent of a path from before an erasure since. *)
Sources ==
  \A v \in Vehicle :
    LET p == vehicle_trajectories[v]
    IN /\ p # NoPath => /\ p.set <= t_now /\ p.set + 5 <= p.start
                        /\ erased <= t_now => erased <= p.set
       /\ \A c \in commands[v] :
            /\ c.create <= t_now
            /\ c.until = Smaller(c.create + max_comm_delay + MaxPoints, End(c.path))
            /\ p # NoPath /\ p.set < c.create => c.path = p
            /\ c.path.set < erased => c.create <= erased

(* Since a path is being sent, a vehicle has missed no more commands in a  *)
(* row than were lost at all: it has one from about then, or a later one   *)
(* that is valid.                                                          *)
Supply ==
  \A v \in Vehicle, n \in Nat :
    LET p == vehicle_trajectories[v]
    IN /\ p # NoPath /\ n <= t_now
       /\ p.start + lost <= n + 3 /\ n + 13 <= End(p)
       => \E c \in commands[v] : n - lost <= c.create /\ (c.create <= n \/ c.create + 3 <= t_now)

Even(n) == n - (n % 2)

(* After a click on kill at k there are as many stop commands left as the  *)
(* next 1.2 seconds need, and a vehicle has missed no more of them in a row*)
(* than commands were lost at all.                                         *)
StopsAfter(k) ==
  k <= t_now =>
    \A v \in Vehicle :
      /\ t_now <= k + 12 => Even(k) + 12 <= 2 * vehicle_stop_list[v] + Even(t_now)
      /\ \A s \in Nat :
           s % 2 = 0 /\ k + 2 * lost < s /\ s <= t_now /\ s <= k + 12 =>
             stops[v] <= t_now /\ s <= stops[v] + 2 * lost

Stops == StopsAfter(killed) /\ StopsAfter(erased)

(* While a planning goes on, the paths planned so far are over in time for *)
(* the next one.                                                           *)
Rounds ==
  /\ planner.running => 0 < planner.round /\ planner.since <= t_now
  /\ \A v \in Vehicle :
       LET p == vehicle_trajectories[v]
       IN p # NoPath =>
            /\ p.round <= planner.round
            /\ planner.running /\ p.round = planner.round =>
                 p.start + p.move < planner.since + planner.total

IInv == Types /\ Clicked /\ Owners /\ Sources /\ Supply /\ Stops /\ Rounds

-----------------------------------------------------------------------------
(* What the actions do                                                     *)

(* All actions but the passing of time.                                    *)
Edit ==
  \/ StartDrawing \/ PressAnother \/ Release \/ GoToStartPoses
  \/ Kill \/ PostKillCleanup \/ Deploy \/ StartJoystick \/ StopJoystick
  \/ PlanPath \/ PlannedAll

(* Some path is set for v, and planned after all others of its round.      *)
SetNow(p, v) ==
  /\ p \in Path /\ p.of = v /\ p.set = t_now /\ t_now + 5 <= p.start
  /\ \/ p.round = 0
     \/ /\ planner.running /\ p.round = planner.round
        /\ t_now + planner.total <= p.start /\ planner.since' = t_now
        /\ p.start + p.move < t_now + planner'.total

NewPlanner ==
  /\ planner' \in [running : BOOLEAN, round : 0 .. Clicks, since : Time, done : SUBSET Vehicle,
                   total : Nat]
  /\ \/ planner' = planner
     \/ ~planner'.running /\ planner'.round = planner.round
     \/ /\ planner'.running /\ ~planner.running /\ planner'.round = planner.round + 1
        /\ planner'.since <= t_now
     \/ /\ planner.running /\ planner'.running /\ planner'.round = planner.round
        /\ planner'.since = t_now /\ planner.total <= planner'.total

(* The path of a vehicle stays, is erased or is a new one, for one of them.*)
NewPaths ==
  /\ vehicle_trajectories' \in [Vehicle -> Path \cup {NoPath}]
  /\ \A u, v \in Vehicle :
       u # v => \/ vehicle_trajectories'[u] \in {vehicle_trajectories[u], NoPath}
                \/ vehicle_trajectories'[v] \in {vehicle_trajectories[v], NoPath}
  /\ \A v \in Vehicle : \/ vehicle_trajectories'[v] \in {vehicle_trajectories[v], NoPath}
                        \/ SetNow(vehicle_trajectories'[v], v)

(* Nothing is killed; or everybody is to stop, and the paths may be erased.*)
NewStops ==
  \/ UNCHANGED <<vehicle_stop_list, killed, erased>>
  \/ /\ killed' = t_now /\ vehicle_stop_list' = Everyone(StopCommands + 1)
     /\ \/ erased' = erased
        \/ erased' = t_now /\ \A v \in Vehicle : vehicle_trajectories'[v] = NoPath

Frame == UNCHANGED <<t_now, commands, stops, directs, lost, following>>

LEMMA EditTypes ==
  ASSUME Parameters, Types, Owners, Edit
  PROVE  Types' /\ Frame
<1> USE DEF Types, TypeOK, Parameters, ClickTime, Click, Press, OffTime, Everyone
<1>1. CASE StartDrawing
  BY <1>1 DEF StartDrawing, readers, Frame
<1>2. CASE PressAnother
  BY <1>2 DEF PressAnother, readers, Frame
<1>3. CASE Release
  <2>1. /\ path' = [id |-> Nobody, of |-> Nobody] /\ clicks' \in clicks .. clicks + 1
        /\ clicks' \in 0 .. Clicks
        /\ UNCHANGED <<t_now, planner, vehicle_stop_list, joystick, simulation, readers, lost,
                       following, killed, erased>>
    BY <1>3 DEF Release
  <2>2. vehicle_trajectories' \in [Vehicle -> Path \cup {NoPath}]
    <3>1. CASE UNCHANGED vehicle_trajectories
      BY <3>1
    <3>2. ASSUME NEW move \in Moves, path.id \in Vehicle, SetPath(path.id, path.of, 0, move, 5)
          PROVE  vehicle_trajectories' \in [Vehicle -> Path \cup {NoPath}]
      <4>1. [kind |-> "path", of |-> path.of, round |-> 0, set |-> t_now, start |-> t_now + 5,
             move |-> move] \in Path
        BY <3>2 DEF Path, Owners, Time
      <4>2. QED BY <3>2, <4>1 DEF SetPath
    <3>3. QED BY <1>3, <3>1, <3>2 DEF Release
  <2>3. QED BY <2>1, <2>2 DEF readers, Frame
<1>4. CASE GoToStartPoses
  BY <1>4 DEF GoToStartPoses, readers, Frame, Time
<1>5. CASE Kill
  BY <1>5 DEF Kill, StopVehicles, StopAll, StopCommands, readers, Frame, Time
<1>6. CASE PostKillCleanup
  BY <1>6 DEF PostKillCleanup, StopAll, readers, Frame
<1>7. CASE Deploy
  BY <1>7 DEF Deploy, StopAll, readers, Frame
<1>8. CASE StartJoystick
  BY <1>8 DEF StartJoystick, readers, Frame
<1>9. CASE StopJoystick
  BY <1>9 DEF StopJoystick, readers, Frame
<1>10. CASE PlanPath
  <2>1. PICK v \in Vehicle \ planner.done, move \in Moves :
          /\ SetPath(v, v, planner.round, move, DelayFor)
          /\ planner' = [planner EXCEPT !.since = t_now, !.done = @ \cup {v},
                                         !.total = @ + Duration(move)]
    BY <1>10 DEF PlanPath
  <2>2. DelayFor \in Nat /\ Duration(move) \in Nat
    BY DEF DelayFor, Duration, Standstill
  <2>3. [kind |-> "path", of |-> v, round |-> planner.round, set |-> t_now,
         start |-> t_now + DelayFor, move |-> move] \in Path
    BY <2>2 DEF Path, Time
  <2>4. vehicle_trajectories' \in [Vehicle -> Path \cup {NoPath}]
    BY <2>1, <2>3 DEF SetPath
  <2>5. /\ planner' \in [running : BOOLEAN, round : 0 .. Clicks, since : Time,
                         done : SUBSET Vehicle, total : Nat]
        /\ planner'.round <= clicks
    <3> HIDE DEF Types, TypeOK, Parameters
    <3>1. /\ planner \in [running : BOOLEAN, round : 0 .. Clicks, since : Time,
                          done : SUBSET Vehicle, total : Nat]
          /\ t_now \in Time /\ planner.round <= clicks
      BY DEF Types, TypeOK
    <3>2. planner' = [running |-> planner.running, round |-> planner.round, since |-> t_now,
                      done |-> planner.done \cup {v}, total |-> planner.total + Duration(move)]
      BY <2>1, <3>1
    <3>3. planner.total + Duration(move) \in Nat
      BY <2>2, <3>1
    <3>4. QED BY <3>1, <3>2, <3>3
  <2>6. QED BY <1>10, <2>4, <2>5 DEF PlanPath, readers, Frame
<1>11. CASE PlannedAll
  <2>1. planner' = [running |-> FALSE, round |-> planner.round, since |-> 0, done |-> {},
                    total |-> 0]
    BY <1>11 DEF PlannedAll
  <2>2. planner'.round = planner.round /\ 0 \in Time
    BY <2>1 DEF Time
  <2>3. planner' \in [running : BOOLEAN, round : 0 .. Clicks, since : Time, done : SUBSET Vehicle,
                      total : Nat]
    BY <2>1, <2>2
  <2>4. QED BY <1>11, <2>2, <2>3 DEF PlannedAll, readers, Frame
<1>12. QED
  BY <1>1, <1>2, <1>3, <1>4, <1>5, <1>6, <1>7, <1>8, <1>9, <1>10, <1>11 DEF Edit

LEMMA EditPaths ==
  ASSUME Parameters, Types, Owners, Edit
  PROVE  NewPlanner /\ NewPaths /\ NewStops /\ (path.id \in Vehicle => path.of = path.id)'
<1>1. vehicle_trajectories' \in [Vehicle -> Path \cup {NoPath}]
  BY EditTypes DEF Types, TypeOK
<1>2. ASSUME UNCHANGED vehicle_trajectories PROVE NewPaths
  <2>1. \A v \in Vehicle : vehicle_trajectories'[v] \in {vehicle_trajectories[v], NoPath}
    BY <1>2
  <2>2. QED BY <1>1, <2>1, Zenon DEF NewPaths
<1>3. ASSUME StopAll PROVE NewPaths
  <2>1. \A v \in Vehicle : vehicle_trajectories'[v] \in {vehicle_trajectories[v], NoPath}
    BY <1>3 DEF StopAll
  <2>2. QED BY <1>1, <2>1, Zenon DEF NewPaths
<1>4. CASE Release
  <2>1. NewPlanner /\ NewStops /\ (path.id \in Vehicle => path.of = path.id)'
    BY <1>4, EditTypes DEF Release, NewPlanner, NewStops, Types, TypeOK, Parameters
  <2>2. ASSUME NEW move \in Moves, path.id \in Vehicle, SetPath(path.id, path.of, 0, move, 5)
        PROVE  NewPaths
    <3>1. vehicle_trajectories' = [vehicle_trajectories EXCEPT ![path.id] =
            [kind |-> "path", of |-> path.id, round |-> 0, set |-> t_now, start |-> t_now + 5,
             move |-> move]]
      BY <2>2 DEF SetPath, Owners
    <3>2. vehicle_trajectories \in [Vehicle -> Path \cup {NoPath}] /\ t_now \in Nat
      BY DEF Types, TypeOK, Time
    <3>3. \A v \in Vehicle \ {path.id} : vehicle_trajectories'[v] = vehicle_trajectories[v]
      BY <3>1, <3>2
    <3>4. /\ vehicle_trajectories'[path.id].of = path.id
          /\ vehicle_trajectories'[path.id].set = t_now
          /\ vehicle_trajectories'[path.id].start = t_now + 5
          /\ vehicle_trajectories'[path.id].round = 0
          /\ vehicle_trajectories'[path.id] # NoPath
      BY <2>2, <3>1, <3>2 DEF NoPath
    <3>5. vehicle_trajectories'[path.id] \in Path
      BY <1>1, <2>2, <3>4
    <3>6. SetNow(vehicle_trajectories'[path.id], path.id)
      BY <3>2, <3>4, <3>5 DEF SetNow
    <3>7. \A v \in Vehicle : \/ vehicle_trajectories'[v] \in {vehicle_trajectories[v], NoPath}
                             \/ SetNow(vehicle_trajectories'[v], v)
      BY <3>3, <3>6, Zenon
    <3>8. \A u, v \in Vehicle :
            u # v => \/ vehicle_trajectories'[u] \in {vehicle_trajectories[u], NoPath}
                     \/ vehicle_trajectories'[v] \in {vehicle_trajectories[v], NoPath}
      BY <3>3
    <3>9. QED BY <1>1, <3>7, <3>8, Zenon DEF NewPaths
  <2>3. QED BY <1>2, <1>4, <2>1, <2>2 DEF Release
<1>5. CASE PlanPath
  <2>1. PICK v \in Vehicle \ planner.done, move \in Moves :
          /\ SetPath(v, v, planner.round, move, DelayFor)
          /\ planner' = [planner EXCEPT !.since = t_now, !.done = @ \cup {v},
                                         !.total = @ + Duration(move)]
    BY <1>5 DEF PlanPath
  <2>2. /\ DelayFor \in Nat /\ planner.total <= DelayFor /\ 10 <= DelayFor
        /\ DelayFor <= planner.total + 10 /\ Duration(move) = 30 + move /\ move \in Nat
    BY DEF DelayFor, Duration, Standstill, Types, TypeOK, Parameters
  <2>3. planner \in [running : BOOLEAN, round : 0 .. Clicks, since : Time, done : SUBSET Vehicle,
                     total : Nat] /\ planner.running
    BY <1>5 DEF PlanPath, Types, TypeOK
  <2>4. /\ planner'.since = t_now /\ planner'.total = planner.total + 30 + move
        /\ planner'.running /\ planner'.round = planner.round
    BY <2>1, <2>2, <2>3
  <2>5. NewPlanner
    BY <2>2, <2>3, <2>4, EditTypes DEF NewPlanner, Types, TypeOK
  <2>6. t_now \in Nat /\ planner.total \in Nat
    BY DEF Types, TypeOK, Time, Parameters
  <2>7. NewPaths
    <3>0. \A u \in Vehicle \ {v} : vehicle_trajectories'[u] = vehicle_trajectories[u]
      BY <2>1 DEF SetPath, Types, TypeOK
    <3> SUFFICES ASSUME NEW u \in Vehicle
                 PROVE  \/ vehicle_trajectories'[u] \in {vehicle_trajectories[u], NoPath}
                        \/ SetNow(vehicle_trajectories'[u], u)
      <4>1. \A u, w \in Vehicle :
              u # w => \/ vehicle_trajectories'[u] \in {vehicle_trajectories[u], NoPath}
                       \/ vehicle_trajectories'[w] \in {vehicle_trajectories[w], NoPath}
        BY <3>0
      <4>2. QED BY <1>1, <4>1, Zenon DEF NewPaths
    <3>1. CASE u = v
      <4>1. vehicle_trajectories'[v] =
              [kind |-> "path", of |-> v, round |-> planner.round, set |-> t_now,
               start |-> t_now + DelayFor, move |-> move]
        BY <2>1 DEF SetPath, Types, TypeOK
      <4>2. vehicle_trajectories'[v] \in Path
        BY <1>1, <4>1 DEF NoPath
      <4>3. QED BY <2>2, <2>3, <2>4, <2>6, <3>1, <4>1, <4>2 DEF SetNow
    <3>2. CASE u # v
      BY <3>0, <3>2
    <3>3. QED BY <3>1, <3>2
  <2>8. QED
    BY <1>5, <2>5, <2>7 DEF PlanPath, NewStops, Owners
<1>6. CASE Kill
  BY <1>2, <1>3, <1>6, EditTypes
     DEF Kill, StopVehicles, StopAll, NewPlanner, NewStops, Owners, Types, TypeOK
<1>7. CASE GoToStartPoses
  BY <1>2, <1>7, EditTypes
     DEF GoToStartPoses, Click, ClickTime, NewPlanner, NewStops, Owners, Types, TypeOK, Time,
         Parameters
<1>8. CASE PlannedAll
  BY <1>2, <1>8, EditTypes DEF PlannedAll, NewPlanner, NewStops, Owners, Types, TypeOK
<1>9. CASE StartDrawing \/ PressAnother
  BY <1>2, <1>9, EditTypes
     DEF StartDrawing, PressAnother, Press, NewPlanner, NewStops, Owners, Types, TypeOK,
         Parameters
<1>10. CASE PostKillCleanup \/ Deploy
  BY <1>3, <1>10, EditTypes
     DEF PostKillCleanup, Deploy, NewPlanner, NewStops, Owners, Types, TypeOK
<1>11. CASE StartJoystick \/ StopJoystick
  BY <1>2, <1>11, EditTypes
     DEF StartJoystick, StopJoystick, NewPlanner, NewStops, Owners, Types, TypeOK
<1>12. QED
  BY <1>4, <1>5, <1>6, <1>7, <1>8, <1>9, <1>10, <1>11 DEF Edit

(* What a vehicle follows is a path only by the newest valid command, when *)
(* that is not too old and no other kind of command is preferred.          *)
LEMMA FollowPath ==
  ASSUME NEW v \in Vehicle, NEW now, NEW f \in Follow(v, now)
  PROVE  \/ f = Joystick
         \/ f = Halt /\ (FreshStop(v, now) \/ \A c \in Newest(v, now) :
                           ~(/\ now < c.create + max_comm_delay + 1 + command_timeout
                             /\ c.until >= now + Prediction))
         \/ \E c \in Newest(v, now) :
              /\ f = c.path /\ ~FreshStop(v, now)
              /\ now < c.create + max_comm_delay + 1 + command_timeout
<1> DEFINE usable == {c \in Newest(v, now) :
                   /\ now < c.create + max_comm_delay + 1 + command_timeout
                   /\ c.until >= now + Prediction}
<1>1. CASE FreshDirect(v, now)
  BY <1>1 DEF Follow
<1>2. CASE ~FreshDirect(v, now) /\ (FreshStop(v, now) \/ usable = {})
  BY <1>2 DEF Follow
<1>3. CASE ~FreshDirect(v, now) /\ ~(FreshStop(v, now) \/ usable = {})
  <2>1. f \in {c.path : c \in usable}
    BY <1>3 DEF Follow
  <2>2. QED BY <1>3, <2>1
<1>4. QED BY <1>1, <1>2, <1>3

(* What stays in the reader of a vehicle when time passes (as in Tick).    *)
Kept(v) == {c \in commands[v] : \A n \in Newest(v, t_now + 1) : n.create <= c.create}

LEMMA TickFacts ==
  ASSUME Parameters, Types, Tick
  PROVE  /\ t_now \in Nat /\ t_now' = t_now + 1 /\ t_now' \in Time
         /\ UNCHANGED <<path, vehicle_trajectories, planner, joystick, simulation, clicks, killed,
                        erased>>
         /\ lost \in Nat /\ lost' \in 0 .. Losses /\ lost <= lost'
         /\ \A v \in Vehicle :
              /\ following'[v] \in Follow(v, t_now + 1)
              /\ \/ commands'[v] = Kept(v) \cup Sent(t_now + 1)[v]
                 \/ commands'[v] = Kept(v) /\ lost < lost'
              /\ \/ v \in Stopped(t_now + 1) /\ stops'[v] = t_now + 1
                 \/ v \in Stopped(t_now + 1) /\ stops'[v] = stops[v] /\ lost < lost'
                 \/ v \notin Stopped(t_now + 1) /\ stops'[v] = stops[v]
              /\ vehicle_stop_list'[v] =
                   IF v \in Stopped(t_now + 1) THEN vehicle_stop_list[v] - 1
                   ELSE vehicle_stop_list[v]
<1> DEFINE now == t_now + 1
           Drops == {v \in Lossy : Sent(now)[v] # {}} \X {"trajectory"}
                      \cup (Stopped(now) \cap Lossy) \X {"stop"}
<1>1. PICK drop \in SUBSET Drops :
        /\ Cardinality(drop) + lost <= Losses /\ lost' = lost + Cardinality(drop)
        /\ commands' = [v \in Vehicle |->
             Kept(v) \cup IF <<v, "trajectory">> \in drop THEN {} ELSE Sent(now)[v]]
        /\ stops' = [v \in Vehicle |->
             IF v \in Stopped(now) /\ <<v, "stop">> \notin drop THEN now ELSE stops[v]]
  BY DEF Tick, Kept
<1>2. IsFiniteSet(drop)
  <2>1. drop \subseteq Vehicle \X {"trajectory", "stop"}
    BY DEF Parameters
  <2>2. IsFiniteSet({"trajectory", "stop"})
    <3>1. IsFiniteSet({"trajectory"} \cup {"stop"})
      BY FS_Singleton, FS_AddElement
    <3>2. {"trajectory"} \cup {"stop"} = {"trajectory", "stop"}
      OBVIOUS
    <3>3. QED BY <3>1, <3>2
  <2>3. IsFiniteSet(Vehicle \X {"trajectory", "stop"})
    BY <2>2, FS_Product DEF Parameters
  <2>4. QED BY <2>1, <2>3, FS_Subset
<1>3. Cardinality(drop) \in Nat /\ (drop # {} => Cardinality(drop) > 0)
  BY <1>2, FS_CardinalityType, FS_EmptySet
<1>4. lost \in Nat /\ lost' \in 0 .. Losses /\ lost <= lost' /\ (drop # {} => lost < lost')
  BY <1>1, <1>3 DEF Types, TypeOK, Parameters
<1>5. /\ t_now \in Nat /\ t_now' = t_now + 1 /\ t_now' \in Time
      /\ UNCHANGED <<path, vehicle_trajectories, planner, joystick, simulation, clicks, killed,
                     erased>>
  BY DEF Tick, Types, TypeOK, Time, Parameters
<1>6. ASSUME NEW v \in Vehicle
      PROVE  /\ following'[v] \in Follow(v, now)
             /\ vehicle_stop_list'[v] =
                   IF v \in Stopped(now) THEN vehicle_stop_list[v] - 1 ELSE vehicle_stop_list[v]
  BY DEF Tick
<1>7. ASSUME NEW v \in Vehicle
      PROVE  \/ commands'[v] = Kept(v) \cup Sent(now)[v]
             \/ commands'[v] = Kept(v) /\ lost < lost'
  <2>1. CASE <<v, "trajectory">> \in drop
    BY <1>1, <1>4, <2>1
  <2>2. CASE <<v, "trajectory">> \notin drop
    BY <1>1, <2>2
  <2>3. QED BY <2>1, <2>2
<1>8. ASSUME NEW v \in Vehicle
      PROVE  \/ v \in Stopped(now) /\ stops'[v] = now
             \/ v \in Stopped(now) /\ stops'[v] = stops[v] /\ lost < lost'
             \/ v \notin Stopped(now) /\ stops'[v] = stops[v]
  <2>1. CASE <<v, "stop">> \in drop
    BY <1>1, <1>4, <2>1
  <2>2. CASE <<v, "stop">> \notin drop
    BY <1>1, <2>2
  <2>3. QED BY <2>1, <2>2
<1>9. QED BY <1>4, <1>5, <1>6, <1>7, <1>8

(* A command that is sent is of the path of its vehicle, and has its next  *)
(* points.                                                                 *)
LEMMA SentFacts ==
  ASSUME Parameters, Types, NEW v \in Vehicle, t_now + 1 \in Time
  PROVE  /\ \A c \in Sent(t_now + 1)[v] :
              /\ vehicle_trajectories[v] # NoPath /\ c.path = vehicle_trajectories[v]
              /\ c \in Command /\ c.create = t_now + 1
              /\ c.until = Smaller(c.create + max_comm_delay + MaxPoints, End(c.path))
         /\ vehicle_trajectories[v] # NoPath =>
              LET p == vehicle_trajectories[v]
              IN p.start <= t_now + 4 /\ t_now + 14 <= End(p) =>
                   \E c \in Sent(t_now + 1)[v] : c.create = t_now + 1
<1> DEFINE p == vehicle_trajectories[v]
           now == t_now + 1
           valid == now + max_comm_delay + 1
           c0 == [create |-> now, path |-> p, until |-> Smaller(valid + MaxPoints - 1, End(p))]
<1>1. t_now \in Nat /\ valid = t_now + 4 /\ valid + MaxPoints - 1 = now + max_comm_delay + MaxPoints
  BY DEF Types, TypeOK, Time, Parameters, max_comm_delay, MaxPoints
<1>2. CASE p = NoPath
  BY <1>2 DEF Sent
<1>3. CASE p # NoPath
  <2>1. p \in Path /\ End(p) \in Nat
    <3>1. p \in Path
      BY <1>3 DEF Types, TypeOK
    <3>2. p.start \in Nat /\ p.move \in Nat
      BY <3>1 DEF Path, Parameters
    <3>3. QED BY <3>1, <3>2 DEF End, Duration, Standstill
  <2>2. Sent(now)[v] = {c \in {c0} : Timely(p, valid)}
    BY <1>3 DEF Sent, SendTrajectory
  <2>3. Smaller(valid + MaxPoints - 1, End(p)) \in Nat
    BY <1>1, <2>1 DEF Smaller, MaxPoints
  <2>4. c0 \in Command
    BY <2>1, <2>3 DEF Command
  <2>5. c0.until = Smaller(c0.create + max_comm_delay + MaxPoints, End(c0.path))
    BY <1>1
  <2>6. p.start <= t_now + 4 /\ t_now + 14 <= End(p) => Timely(p, valid)
    BY <1>1, <2>1 DEF Timely, t_min_lead, t_command_timeout
  <2>7. QED BY <1>3, <2>2, <2>4, <2>5, <2>6
<1>4. QED BY <1>2, <1>3

LEMMA TickTypes ==
  ASSUME Parameters, Types, Tick
  PROVE  Types'
<1>1. /\ t_now' \in Time /\ t_now' = t_now + 1 /\ lost' \in 0 .. Losses
      /\ UNCHANGED <<path, vehicle_trajectories, planner, joystick, simulation, clicks, killed,
                     erased>>
  BY TickFacts
<1>2. commands' \in [Vehicle -> SUBSET Command]
  <2>1. commands' = [v \in Vehicle |-> commands'[v]]
    BY DEF Tick
  <2>2. ASSUME NEW v \in Vehicle PROVE commands'[v] \subseteq Command
    <3>1. Kept(v) \subseteq Command
      BY DEF Kept, Types, TypeOK
    <3>2. Sent(t_now + 1)[v] \subseteq Command
      BY <1>1, SentFacts
    <3>3. commands'[v] = Kept(v) \/ commands'[v] = Kept(v) \cup Sent(t_now + 1)[v]
      BY TickFacts
    <3>4. QED BY <3>1, <3>2, <3>3
  <2>3. QED BY <2>1, <2>2
<1>3. stops' \in [Vehicle -> OffTime] /\ directs' \in [Vehicle -> OffTime]
  <2>1. stops' = [v \in Vehicle |-> stops'[v]]
    BY DEF Tick
  <2>2. \A v \in Vehicle : stops'[v] \in OffTime
    BY <1>1, TickFacts DEF Types, TypeOK, OffTime
  <2>3. directs' \in [Vehicle -> OffTime]
    BY <1>1 DEF Tick, Types, TypeOK, OffTime
  <2>4. QED BY <2>1, <2>2, <2>3
<1>4. vehicle_stop_list' \in [Vehicle -> 0 .. StopCommands + 1]
  <2>1. \A v \in Vehicle : vehicle_stop_list[v] \in 0 .. StopCommands + 1
    BY DEF Types, TypeOK
  <2>2. \A v \in Stopped(t_now + 1) : vehicle_stop_list[v] > 0
    BY DEF Stopped
  <2>3. \A v \in Vehicle : vehicle_stop_list'[v] \in 0 .. StopCommands + 1
    BY <2>1, <2>2, TickFacts DEF StopCommands
  <2>4. vehicle_stop_list' = [v \in Vehicle |-> vehicle_stop_list'[v]]
    BY DEF Tick
  <2>5. QED BY <2>3, <2>4
<1>5. following' \in [Vehicle -> Path \cup {Halt, Joystick}]
  <2>1. following' = [v \in Vehicle |-> following'[v]]
    BY DEF Tick
  <2>2. ASSUME NEW v \in Vehicle PROVE following'[v] \in Path \cup {Halt, Joystick}
    <3>1. \A c \in Newest(v, t_now + 1) : c.path \in Path
      BY DEF Newest, Valid, Types, TypeOK, Command
    <3>2. QED BY <3>1, TickFacts, FollowPath
  <2>3. QED BY <2>1, <2>2
<1>6. QED BY <1>1, <1>2, <1>3, <1>4, <1>5 DEF Types, TypeOK

(* A command leaves the reader for a newer one that is valid.              *)
LEMMA Replaced ==
  ASSUME Parameters, Types, Tick, NEW v \in Vehicle, NEW c \in commands[v]
  PROVE  \/ c \in commands'[v]
         \/ \E d \in commands'[v] : c.create < d.create /\ d.create + 3 <= t_now'
<1>1. Kept(v) \subseteq commands'[v]
  BY TickFacts
<1>2. CASE c \in Kept(v)
  BY <1>1, <1>2
<1>3. CASE c \notin Kept(v)
  <2>1. PICK d \in Newest(v, t_now + 1) : ~(d.create <= c.create)
    BY <1>3 DEF Kept
  <2>2. d \in commands[v] /\ d.create + max_comm_delay + 1 <= t_now + 1
    BY DEF Newest, Valid
  <2>3. \A e \in Newest(v, t_now + 1) : e.create <= d.create
    BY DEF Newest
  <2>4. d \in Kept(v)
    BY <2>2, <2>3 DEF Kept
  <2>5. commands[v] \subseteq Command /\ t_now \in Nat /\ t_now' = t_now + 1
    BY TickFacts DEF Types, TypeOK
  <2>6. c.create \in Nat /\ d.create \in Nat
    BY <2>2, <2>5 DEF Command, Time
  <2>7. QED BY <1>1, <2>1, <2>2, <2>4, <2>5, <2>6 DEF max_comm_delay
<1>4. QED BY <1>2, <1>3

LEMMA TickOwners ==
  ASSUME Parameters, Types, Owners, Tick
  PROVE  Owners'
<1>1. (path.id \in Vehicle => path.of = path.id)'
  BY TickFacts DEF Owners
<1> SUFFICES ASSUME NEW v \in Vehicle
             PROVE  /\ vehicle_trajectories'[v] # NoPath => vehicle_trajectories'[v].of = v
                    /\ \A c \in commands'[v] : c.path.of = v
                    /\ following'[v].kind = "path" => following'[v].of = v
  BY <1>1 DEF Owners, Drives
<1>2. vehicle_trajectories' = vehicle_trajectories
  BY TickFacts
<1>3. \A c \in commands'[v] : c.path.of = v
  <2>1. \A c \in Kept(v) : c.path.of = v
    BY DEF Kept, Owners
  <2>2. \A c \in Sent(t_now + 1)[v] : c.path.of = v
    BY TickFacts, SentFacts DEF Owners
  <2>3. QED BY <2>1, <2>2, TickFacts
<1>4. following'[v].kind = "path" => following'[v].of = v
  <2>1. \A c \in Newest(v, t_now + 1) : c.path.of = v
    BY DEF Newest, Valid, Owners
  <2>2. following'[v] \in Follow(v, t_now + 1)
    BY TickFacts
  <2>3. QED BY <2>1, <2>2, FollowPath DEF Halt, Joystick
<1>5. QED BY <1>2, <1>3, <1>4 DEF Owners

LEMMA TickSources ==
  ASSUME Parameters, Types, Clicked, Sources, Tick
  PROVE  Sources'
<1>1. /\ t_now \in Nat /\ t_now' = t_now + 1 /\ vehicle_trajectories' = vehicle_trajectories
      /\ erased' = erased /\ t_now' \in Time
  BY TickFacts
<1> SUFFICES ASSUME NEW v \in Vehicle
             PROVE  LET p == vehicle_trajectories[v]
                    IN /\ p # NoPath => /\ p.set <= t_now + 1 /\ p.set + 5 <= p.start
                                        /\ erased <= t_now + 1 => erased <= p.set
                       /\ \A c \in commands'[v] :
                            /\ c.create <= t_now + 1
                            /\ c.until = Smaller(c.create + max_comm_delay + MaxPoints, End(c.path))
                            /\ p # NoPath /\ p.set < c.create => c.path = p
                            /\ c.path.set < erased => c.create <= erased
  BY <1>1 DEF Sources
<1> DEFINE p == vehicle_trajectories[v]
<1>2. p # NoPath => p \in Path /\ p.set \in Nat
  BY DEF Types, TypeOK, Path, Time
<1>3. erased \in Nat /\ (erased <= t_now + 1 => erased <= t_now)
  BY <1>1 DEF Types, TypeOK, OffTime, Time, Never, Clicked, Parameters
<1>4. p # NoPath => /\ p.set <= t_now + 1 /\ p.set + 5 <= p.start
                    /\ erased <= t_now + 1 => erased <= p.set
  BY <1>1, <1>2, <1>3 DEF Sources
<1>5. ASSUME NEW c \in commands'[v]
      PROVE  /\ c.create <= t_now + 1
             /\ c.until = Smaller(c.create + max_comm_delay + MaxPoints, End(c.path))
             /\ p # NoPath /\ p.set < c.create => c.path = p
             /\ c.path.set < erased => c.create <= erased
  <2>1. CASE c \in commands[v]
    <3>1. c.create \in Nat
      BY <2>1 DEF Types, TypeOK, Command, Time
    <3>2. QED BY <1>1, <2>1, <3>1 DEF Sources
  <2>2. CASE c \in Sent(t_now + 1)[v]
    <3>1. c.create = t_now + 1 /\ c.path = p /\ p # NoPath
      BY <1>1, <2>2, SentFacts
    <3>2. QED BY <1>1, <1>2, <1>3, <1>4, <2>2, <3>1, SentFacts
  <2>3. QED BY <2>1, <2>2, TickFacts DEF Kept
<1>6. QED BY <1>4, <1>5

LEMMA TickSupply ==
  ASSUME Parameters, Types, Sources, Supply, Tick
  PROVE  Supply'
<1>1. /\ t_now \in Nat /\ t_now' = t_now + 1 /\ vehicle_trajectories' = vehicle_trajectories
      /\ lost \in Nat /\ lost' \in Nat /\ lost <= lost' /\ t_now' \in Time
  BY TickFacts DEF Parameters
<1> SUFFICES ASSUME NEW v \in Vehicle, NEW n \in Nat, vehicle_trajectories[v] # NoPath,
                    n <= t_now + 1, vehicle_trajectories[v].start + lost' <= n + 3,
                    n + 13 <= End(vehicle_trajectories[v])
             PROVE  \E c \in commands'[v] :
                      n - lost' <= c.create /\ (c.create <= n \/ c.create + 3 <= t_now + 1)
  BY <1>1 DEF Supply
<1> DEFINE p == vehicle_trajectories[v]
<1>2. p.start \in Nat /\ End(p) \in Nat
  <2>1. p \in Path
    BY DEF Types, TypeOK
  <2>2. p.start \in Nat /\ p.move \in Nat
    BY <2>1 DEF Path, Parameters
  <2>3. QED BY <2>2 DEF End, Duration, Standstill
<1>3. \A c \in commands[v] \cup commands'[v] : c.create \in Nat
  BY TickTypes DEF Types, TypeOK, Command, Time
<1>4. ASSUME NEW c \in commands[v], n - lost' <= c.create,
             c.create <= n \/ c.create + 3 <= t_now + 1
      PROVE  \E d \in commands'[v] :
               n - lost' <= d.create /\ (d.create <= n \/ d.create + 3 <= t_now + 1)
  <2>1. CASE c \in commands'[v]
    BY <1>4, <2>1
  <2>2. ASSUME NEW d \in commands'[v], c.create < d.create, d.create + 3 <= t_now'
        PROVE  n - lost' <= d.create /\ d.create + 3 <= t_now + 1
    BY <1>1, <1>3, <1>4, <2>2
  <2>3. QED BY <2>1, <2>2, Replaced
<1>5. CASE n <= t_now
  <2>1. PICK c \in commands[v] : n - lost <= c.create /\ (c.create <= n \/ c.create + 3 <= t_now)
    BY <1>1, <1>2, <1>5 DEF Supply
  <2>2. QED BY <1>1, <1>3, <1>4, <2>1
<1>6. CASE n = t_now + 1
  <2>1. CASE commands'[v] = Kept(v) \cup Sent(t_now + 1)[v]
    <3>1. PICK c \in Sent(t_now + 1)[v] : c.create = t_now + 1
      BY <1>1, <1>2, <1>6, SentFacts
    <3>2. QED BY <1>1, <1>6, <2>1, <3>1
  <2>2. CASE lost < lost'
    <3>1. /\ n - 1 \in Nat /\ n - 1 <= t_now
          /\ p.start + lost <= n - 1 + 3 /\ n - 1 + 13 <= End(p)
      BY <1>1, <1>2, <1>6, <2>2
    <3>2. PICK c \in commands[v] :
            n - 1 - lost <= c.create /\ (c.create <= n - 1 \/ c.create + 3 <= t_now)
      BY <3>1 DEF Supply
    <3>3. n - lost' <= c.create /\ (c.create <= n \/ c.create + 3 <= t_now + 1)
      BY <1>1, <1>3, <2>2, <3>2
    <3>4. QED BY <1>4, <3>3
  <2>3. QED BY <2>1, <2>2, TickFacts
<1>7. QED BY <1>1, <1>5, <1>6

LEMMA TickStopsAfter ==
  ASSUME Parameters, Types, Tick, NEW k \in Nat, k <= t_now, StopsAfter(k), NEW v \in Vehicle
  PROVE  /\ t_now + 1 <= k + 12 =>
              Even(k) + 12 <= 2 * vehicle_stop_list'[v] + Even(t_now + 1)
         /\ \A s \in Nat :
              s % 2 = 0 /\ k + 2 * lost' < s /\ s <= t_now + 1 /\ s <= k + 12 =>
                stops'[v] <= t_now + 1 /\ s <= stops'[v] + 2 * lost'
<1> SUFFICES ASSUME NEW l \in Nat, lost' = l
             PROVE  /\ t_now + 1 <= k + 12 =>
                         Even(k) + 12 <= 2 * vehicle_stop_list'[v] + Even(t_now + 1)
                    /\ \A s \in Nat :
                         s % 2 = 0 /\ k + 2 * l < s /\ s <= t_now + 1 /\ s <= k + 12 =>
                           stops'[v] <= t_now + 1 /\ s <= stops'[v] + 2 * l
  <2>1. lost' \in Nat
    BY TickFacts
  <2>2. QED BY <2>1
<1>1. t_now \in Nat /\ lost \in Nat /\ lost <= l
  BY TickFacts DEF Parameters
<1>2. stops[v] \in Nat /\ vehicle_stop_list[v] \in 0 .. 6
  BY DEF Types, TypeOK, OffTime, Time, StopCommands, Parameters
<1>3. /\ t_now <= k + 12 => Even(k) + 12 <= 2 * vehicle_stop_list[v] + Even(t_now)
      /\ \A s \in Nat :
           s % 2 = 0 /\ k + 2 * lost < s /\ s <= t_now /\ s <= k + 12 =>
             stops[v] <= t_now /\ s <= stops[v] + 2 * lost
  BY DEF StopsAfter
<1>4. v \in Stopped(t_now + 1) <=> (t_now + 1) % 2 = 0 /\ vehicle_stop_list[v] > 0
  BY DEF Stopped
<1>5. \/ v \in Stopped(t_now + 1) /\ stops'[v] = t_now + 1
      \/ v \in Stopped(t_now + 1) /\ stops'[v] = stops[v] /\ lost < l
      \/ v \notin Stopped(t_now + 1) /\ stops'[v] = stops[v]
  BY TickFacts
<1>6. vehicle_stop_list'[v] =
        IF v \in Stopped(t_now + 1) THEN vehicle_stop_list[v] - 1 ELSE vehicle_stop_list[v]
  BY TickFacts
<1>7. ASSUME t_now + 1 <= k + 12, (t_now + 1) % 2 = 0
      PROVE  vehicle_stop_list[v] > 0
  BY <1>1, <1>2, <1>3, <1>7 DEF Even
<1>8. ASSUME t_now + 1 <= k + 12
      PROVE  Even(k) + 12 <= 2 * vehicle_stop_list'[v] + Even(t_now + 1)
  <2>1. PICK n \in 0 .. 6 : n = vehicle_stop_list[v]
    BY <1>2
  <2>2. PICK m \in Int : m = IF v \in Stopped(t_now + 1) THEN n - 1 ELSE n
    OBVIOUS
  <2>3. Even(k) + 12 <= 2 * n + Even(t_now)
    BY <1>1, <1>3, <1>8, <2>1
  <2>4. CASE (t_now + 1) % 2 = 0
    <3>1. m = n - 1
      BY <1>4, <1>7, <1>8, <2>2, <2>4
    <3>2. Even(t_now + 1) = Even(t_now) + 2
      BY <1>1, <2>4 DEF Even
    <3>3. Even(k) \in Int /\ Even(t_now) \in Int
      BY <1>1 DEF Even
    <3>4. Even(k) + 12 <= 2 * m + Even(t_now + 1)
      BY <2>3, <3>1, <3>2, <3>3
    <3>5. QED BY <1>6, <2>1, <2>2, <3>4
  <2>5. CASE (t_now + 1) % 2 # 0
    <3>1. m = n
      BY <1>4, <2>2, <2>5
    <3>2. Even(t_now + 1) = Even(t_now)
      BY <1>1, <2>5 DEF Even
    <3>3. QED BY <1>6, <2>1, <2>2, <2>3, <3>1, <3>2
  <2>6. QED BY <2>4, <2>5
<1>9. ASSUME NEW s \in Nat, s % 2 = 0, k + 2 * l < s, s <= t_now + 1, s <= k + 12
      PROVE  stops'[v] <= t_now + 1 /\ s <= stops'[v] + 2 * l
  <2>1. CASE stops'[v] = t_now + 1
    BY <1>1, <1>9, <2>1
  <2>2. CASE stops'[v] = stops[v] /\ s <= t_now
    BY <1>1, <1>2, <1>3, <1>9, <2>2
  <2>3. CASE stops'[v] # t_now + 1 /\ stops'[v] = stops[v] /\ s = t_now + 1
    <3>1. lost < l
      BY <1>4, <1>5, <1>7, <1>9, <2>3
    <3>2. 2 * lost + 2 <= 2 * l /\ k + 2 * l < s /\ s = t_now + 1 /\ s <= k + 12
      BY <1>1, <1>9, <2>3, <3>1
    <3>3. s - 2 \in Nat /\ k + 2 * lost < s - 2 /\ s - 2 <= t_now /\ s - 2 <= k + 12
      BY <1>1, <3>2
    <3>4. (s - 2) % 2 = 0
      BY <1>9, <3>3
    <3>5. stops[v] <= t_now /\ s - 2 <= stops[v] + 2 * lost
      BY <1>3, <3>3, <3>4
    <3>6. QED BY <1>1, <1>2, <2>3, <3>1, <3>2, <3>5
  <2>4. QED BY <1>1, <1>5, <1>9, <2>1, <2>2, <2>3
<1>10. QED BY <1>8, <1>9

LEMMA TickStops ==
  ASSUME Parameters, Types, Clicked, Stops, Tick
  PROVE  Stops' /\ Clicked'
<1>1. /\ t_now \in Nat /\ t_now' = t_now + 1 /\ t_now' \in Time
      /\ killed' = killed /\ erased' = erased
  BY TickFacts
<1>2. /\ killed \in Nat /\ (killed <= t_now + 1 => killed <= t_now)
      /\ erased \in Nat /\ (erased <= t_now + 1 => erased <= t_now)
  BY <1>1 DEF Types, TypeOK, OffTime, Time, Never, Clicked, Parameters
<1>3. Clicked'
  BY <1>1, <1>2 DEF Clicked
<1>4. StopsAfter(killed)'
  <2>1. killed <= t_now => StopsAfter(killed)'
    BY <1>1, <1>2, TickStopsAfter DEF Stops, StopsAfter
  <2>2. ~(killed <= t_now) => StopsAfter(killed)'
    BY <1>1, <1>2 DEF StopsAfter
  <2>3. QED BY <2>1, <2>2
<1>5. StopsAfter(erased)'
  <2>1. erased <= t_now => StopsAfter(erased)'
    BY <1>1, <1>2, TickStopsAfter DEF Stops, StopsAfter
  <2>2. ~(erased <= t_now) => StopsAfter(erased)'
    BY <1>1, <1>2 DEF StopsAfter
  <2>3. QED BY <2>1, <2>2
<1>6. QED BY <1>3, <1>4, <1>5 DEF Stops

LEMMA TickRounds ==
  ASSUME Parameters, Types, Rounds, Tick
  PROVE  Rounds'
<1>1. /\ t_now \in Nat /\ t_now' = t_now + 1 /\ vehicle_trajectories' = vehicle_trajectories
      /\ planner' = planner
  BY TickFacts
<1>2. planner.since \in Nat
  BY DEF Types, TypeOK, Time
<1>3. QED BY <1>1, <1>2 DEF Rounds

LEMMA EditOwners ==
  ASSUME Parameters, Types, Owners, Edit
  PROVE  Owners'
<1>1. /\ UNCHANGED <<commands, following>> /\ (path.id \in Vehicle => path.of = path.id)'
      /\ \A v \in Vehicle : \/ vehicle_trajectories'[v] \in {vehicle_trajectories[v], NoPath}
                            \/ vehicle_trajectories'[v].of = v
  BY EditTypes, EditPaths DEF Frame, NewPaths, SetNow
<1>2. QED BY <1>1 DEF Owners, Drives

LEMMA EditSources ==
  ASSUME Parameters, Types, Owners, Sources, Edit
  PROVE  Sources'
<1>1. t_now' = t_now /\ commands' = commands /\ t_now \in Nat
  BY EditTypes DEF Frame, Types, TypeOK, Time
<1> SUFFICES ASSUME NEW v \in Vehicle
             PROVE  LET p == vehicle_trajectories'[v]
                    IN /\ p # NoPath => /\ p.set <= t_now /\ p.set + 5 <= p.start
                                        /\ erased' <= t_now => erased' <= p.set
                       /\ \A c \in commands[v] :
                            /\ c.create <= t_now
                            /\ c.until = Smaller(c.create + max_comm_delay + MaxPoints, End(c.path))
                            /\ p # NoPath /\ p.set < c.create => c.path = p
                            /\ c.path.set < erased' => c.create <= erased'
  BY <1>1 DEF Sources
<1> DEFINE p == vehicle_trajectories'[v]
<1>2. p = vehicle_trajectories[v] \/ p = NoPath \/ SetNow(p, v)
  BY EditPaths DEF NewPaths
<1>3. erased' = erased \/ (erased' = t_now /\ p = NoPath)
  <2>1. CASE UNCHANGED <<vehicle_stop_list, killed, erased>>
    BY <2>1
  <2>2. CASE erased' = t_now /\ \A u \in Vehicle : vehicle_trajectories'[u] = NoPath
    BY <2>2
  <2>3. QED BY <2>1, <2>2, EditPaths DEF NewStops
<1>4. \A c \in commands[v] :
        /\ c.create <= t_now
        /\ c.until = Smaller(c.create + max_comm_delay + MaxPoints, End(c.path))
        /\ c.path.set < erased => c.create <= erased
        /\ c.create \in Nat
  BY DEF Sources, Types, TypeOK, Command, Time
<1>5. \A c \in commands[v] :
        /\ c.create <= t_now
        /\ c.until = Smaller(c.create + max_comm_delay + MaxPoints, End(c.path))
        /\ c.path.set < erased' => c.create <= erased'
  BY <1>3, <1>4
<1>6. CASE p = vehicle_trajectories[v] \/ p = NoPath
  <2>1. p # NoPath => /\ p.set <= t_now /\ p.set + 5 <= p.start
                      /\ erased' <= t_now => erased' <= p.set
    BY <1>3, <1>6 DEF Sources
  <2>2. \A c \in commands[v] : p # NoPath /\ p.set < c.create => c.path = p
    BY <1>6 DEF Sources
  <2>3. QED BY <1>5, <2>1, <2>2
<1>7. CASE SetNow(p, v) /\ p # NoPath
  <2>1. p.set = t_now /\ p.set + 5 <= p.start
    BY <1>7 DEF SetNow
  <2>2. \A c \in commands[v] : ~(p.set < c.create)
    BY <1>1, <1>4, <2>1
  <2>3. QED BY <1>1, <1>3, <1>5, <1>7, <2>1, <2>2
<1>8. QED BY <1>2, <1>6, <1>7

LEMMA EditSupply ==
  ASSUME Parameters, Types, Owners, Supply, Edit
  PROVE  Supply'
<1>1. t_now' = t_now /\ commands' = commands /\ lost' = lost /\ t_now \in Nat /\ lost \in Nat
  BY EditTypes DEF Frame, Types, TypeOK, Time, Parameters
<1> SUFFICES ASSUME NEW v \in Vehicle, NEW n \in Nat, vehicle_trajectories'[v] # NoPath,
                    n <= t_now, vehicle_trajectories'[v].start + lost <= n + 3,
                    n + 13 <= End(vehicle_trajectories'[v])
             PROVE  \E c \in commands[v] :
                      n - lost <= c.create /\ (c.create <= n \/ c.create + 3 <= t_now)
  BY <1>1 DEF Supply
<1>2. CASE vehicle_trajectories'[v] = vehicle_trajectories[v]
  BY <1>2 DEF Supply
<1>3. CASE SetNow(vehicle_trajectories'[v], v)
  <2>1. PICK p \in Path : p = vehicle_trajectories'[v] /\ t_now + 5 <= p.start
    BY <1>3 DEF SetNow
  <2>2. p.start \in Nat /\ p.start + lost <= n + 3
    BY <2>1 DEF Path
  <2>3. QED BY <1>1, <2>1, <2>2
<1>4. QED BY <1>2, <1>3, EditPaths DEF NewPaths

LEMMA EditStops ==
  ASSUME Parameters, Types, Owners, Clicked, Stops, Edit
  PROVE  Stops' /\ Clicked'
<1>1. /\ t_now' = t_now /\ stops' = stops /\ lost' = lost /\ t_now \in Nat /\ lost \in Nat
  BY EditTypes DEF Frame, Types, TypeOK, Time, Parameters
<1>2. killed \in Nat /\ erased \in Nat
  BY DEF Types, TypeOK, OffTime, Time, Parameters
<1>3. CASE UNCHANGED <<vehicle_stop_list, killed, erased>>
  BY <1>1, <1>3 DEF Stops, StopsAfter, Clicked
<1>4. CASE killed' = t_now /\ vehicle_stop_list' = Everyone(StopCommands + 1)
  <2>1. \A v \in Vehicle : vehicle_stop_list'[v] = 6
    BY <1>4 DEF Everyone, StopCommands
  <2>2. \A k \in Nat : k <= t_now => Even(k) <= Even(t_now)
    BY <1>1 DEF Even
  <2>3. \A k \in Nat : k <= t_now => Even(k) + 12 <= 2 * 6 + Even(t_now)
    <3>1. \A k \in Nat : Even(k) \in Int
      BY DEF Even
    <3>2. QED BY <1>1, <2>2, <3>1
  <2>4. StopsAfter(killed)'
    <3>1. \A s \in Nat : ~(killed' + 2 * lost < s /\ s <= t_now)
      BY <1>1, <1>4
    <3>2. QED BY <1>1, <1>4, <2>1, <2>3, <3>1 DEF StopsAfter
  <2>5. StopsAfter(erased)'
    <3>1. CASE erased' = t_now
      BY <1>4, <2>4, <3>1 DEF StopsAfter
    <3>2. CASE erased' = erased
      BY <1>1, <1>2, <2>1, <2>3, <3>2 DEF StopsAfter, Stops
    <3>3. QED BY <1>2, <1>4, <3>1, <3>2, EditPaths DEF NewStops
  <2>6. Clicked'
    BY <1>1, <1>4, EditPaths DEF Clicked, NewStops
  <2>7. QED BY <2>4, <2>5, <2>6 DEF Stops
<1>5. QED BY <1>3, <1>4, EditPaths DEF NewStops

LEMMA EditRounds ==
  ASSUME Parameters, Types, Owners, Rounds, Edit
  PROVE  Rounds'
<1>1. t_now' = t_now /\ t_now \in Nat
  BY EditTypes DEF Frame, Types, TypeOK, Time
<1>2. /\ planner \in [running : BOOLEAN, round : 0 .. Clicks, since : Time, done : SUBSET Vehicle,
                      total : Nat]
      /\ planner.round \in Nat /\ planner.since \in Nat
  BY DEF Types, TypeOK, Time, Parameters
<1>3. PICK q : q = planner'
  OBVIOUS
<1>4. /\ q \in [running : BOOLEAN, round : 0 .. Clicks, since : Time, done : SUBSET Vehicle,
                total : Nat]
      /\ q.round \in Nat /\ q.since \in Nat /\ q.total \in Nat
  BY <1>3, EditPaths DEF NewPlanner, Time, Parameters
<1>5. \/ q = planner
      \/ ~q.running /\ q.round = planner.round
      \/ q.running /\ ~planner.running /\ q.round = planner.round + 1 /\ q.since <= t_now
      \/ /\ planner.running /\ q.running /\ q.round = planner.round
         /\ q.since = t_now /\ planner.total <= q.total
  BY <1>3, EditPaths DEF NewPlanner
<1>6. q.running => 0 < q.round /\ q.since <= t_now
  BY <1>2, <1>4, <1>5 DEF Rounds
<1>7. ASSUME NEW v \in Vehicle, vehicle_trajectories'[v] # NoPath
      PROVE  LET p == vehicle_trajectories'[v]
             IN /\ p.round <= q.round
                /\ q.running /\ p.round = q.round => p.start + p.move < q.since + q.total
  <2>1. PICK p \in Path : p = vehicle_trajectories'[v]
    BY <1>7, EditTypes DEF Types, TypeOK
  <2>2. p.round \in Nat /\ p.start \in Nat /\ p.move \in Nat
    <3>1. p.start \in Nat /\ p.move \in Nat
      BY <2>1 DEF Path, Parameters
    <3>2. p.round \in 0 .. Clicks
      BY <2>1 DEF Path
    <3>3. QED BY <3>1, <3>2 DEF Parameters
  <2>3. p.round <= q.round /\ (q.running /\ p.round = q.round => p.start + p.move < q.since + q.total)
    <3>1. CASE p = vehicle_trajectories[v]
      <4>1. /\ p.round <= planner.round
            /\ planner.running /\ p.round = planner.round =>
                 p.start + p.move < planner.since + planner.total
        BY <1>7, <2>1, <3>1 DEF Rounds
      <4>2. planner.running => planner.since <= t_now
        BY DEF Rounds
      <4>3. QED BY <1>1, <1>2, <1>4, <1>5, <2>2, <4>1, <4>2
    <3>2. CASE SetNow(p, v)
      <4>1. \/ p.round = 0
            \/ /\ planner.running /\ p.round = planner.round
               /\ q.since = t_now /\ p.start + p.move < t_now + q.total
        BY <1>3, <3>2 DEF SetNow
      <4>2. QED BY <1>1, <1>2, <1>4, <1>5, <1>6, <2>2, <4>1
    <3>3. QED BY <1>7, <2>1, <3>1, <3>2, EditPaths DEF NewPaths
  <2>4. QED BY <2>1, <2>3
<1>8. QED BY <1>1, <1>3, <1>6, <1>7 DEF Rounds

-----------------------------------------------------------------------------
(* The invariant is inductive                                              *)

LEMMA Initially == Parameters /\ Init => IInv
<1> SUFFICES ASSUME Parameters, Init PROVE IInv
  OBVIOUS
<1>1. Types
  BY DEF Parameters, Init, Types, TypeOK, Never, OffTime, Time, StopCommands
<1>2. Horizon \in Nat /\ t_now = 0 /\ killed = Horizon + 1 /\ erased = Horizon + 1
  BY DEF Parameters, Init, Never
<1>3. Clicked
  BY DEF Init, Clicked
<1>4. Owners /\ Sources /\ Supply /\ Rounds
  BY DEF Init, Owners, Drives, Halt, Sources, Supply, Rounds, Parameters
<1>5. Stops
  BY <1>2 DEF Stops, StopsAfter
<1>6. QED BY <1>1, <1>3, <1>4, <1>5 DEF IInv

LEMMA Steps == Parameters /\ IInv /\ [Next]_vars => IInv'
<1> SUFFICES ASSUME Parameters, IInv, [Next]_vars PROVE IInv'
  OBVIOUS
<1>1. CASE Tick
  BY <1>1, TickTypes, TickOwners, TickSources, TickSupply, TickStops, TickRounds DEF IInv
<1>2. CASE Edit
  BY <1>2, EditTypes, EditOwners, EditSources, EditSupply, EditStops, EditRounds DEF IInv
<1>3. CASE UNCHANGED vars
  <2>1. UNCHANGED <<t_now, path, vehicle_trajectories, planner, vehicle_stop_list, joystick,
                    simulation, commands, stops, directs, clicks, lost, following, killed, erased>>
    BY <1>3 DEF vars, lcc, readers
  <2>2. Types' /\ Clicked' /\ Owners'
    BY <2>1 DEF IInv, Types, TypeOK, Clicked, Owners, Drives
  <2>3. Sources' /\ Supply'
    BY <2>1 DEF IInv, Sources, Supply
  <2>4. Stops' /\ Rounds'
    BY <2>1 DEF IInv, Stops, StopsAfter, Rounds
  <2>5. QED BY <2>2, <2>3, <2>4 DEF IInv
<1>4. QED BY <1>1, <1>2, <1>3 DEF Next, Edit

LEMMA Inductive == Parameters => (Spec => []IInv)
<1> SUFFICES ASSUME Parameters PROVE Spec => []IInv
  OBVIOUS
<1>1. Init => IInv
  BY Initially
<1>2. IInv /\ [Next]_vars => IInv'
  BY Steps
<1>3. QED BY <1>1, <1>2, PTL DEF Spec

-----------------------------------------------------------------------------
(* What vehicles follow when time passes                                   *)

(* After a click on kill at k no vehicle is without a stop command that is *)
(* not too old.                                                            *)
LEMMA StopsLast ==
  ASSUME Parameters, Types, NEW k \in Nat, k <= t_now, StopsAfter(k), NEW v \in Vehicle,
         k + 3 + 2 * Losses <= t_now + 1, t_now + 1 + 2 * Losses <= k + 21
  PROVE  FreshStop(v, t_now + 1)
<1>1. t_now \in Nat /\ lost \in Nat /\ Losses \in Nat /\ lost <= Losses /\ stops[v] \in Nat
  BY DEF Parameters, Types, TypeOK, Time, OffTime
<1>2. Losses <= 4
  BY <1>1
<1>3. PICK s \in Nat : /\ s % 2 = 0 /\ k + 2 * Losses < s /\ s <= t_now /\ s <= k + 12
                       /\ t_now + 1 <= s + 10 - 2 * Losses
  <2>1. CASE t_now <= k + 12
    <3>1. PICK s \in Nat : s % 2 = 0 /\ t_now - 1 <= s /\ s <= t_now
      <4>1. Even(t_now) \in Nat /\ Even(t_now) % 2 = 0
        BY <1>1 DEF Even
      <4>2. t_now - 1 <= Even(t_now) /\ Even(t_now) <= t_now
        BY <1>1 DEF Even
      <4>3. QED BY <4>1, <4>2
    <3>2. QED BY <1>1, <1>2, <2>1, <3>1
  <2>2. CASE ~(t_now <= k + 12)
    <3>1. PICK s \in Nat : s % 2 = 0 /\ k + 11 <= s /\ s <= k + 12
      <4>1. Even(k + 12) \in Nat /\ Even(k + 12) % 2 = 0
        BY <1>1 DEF Even
      <4>2. k + 11 <= Even(k + 12) /\ Even(k + 12) <= k + 12
        BY <1>1 DEF Even
      <4>3. QED BY <4>1, <4>2
    <3>2. QED BY <1>1, <1>2, <2>2, <3>1
  <2>3. QED BY <2>1, <2>2
<1>4. k + 2 * lost < s
  BY <1>1, <1>3
<1>5. stops[v] <= t_now /\ s <= stops[v] + 2 * lost
  BY <1>3, <1>4 DEF StopsAfter
<1>6. QED BY <1>1, <1>3, <1>5 DEF FreshStop, command_timeout

(* While a vehicle should move along its path, the newest command that is  *)
(* valid is of that path, not too old, and has the points it needs.        *)
LEMMA NewestServes ==
  ASSUME Parameters, Losses < command_timeout, IInv, NEW v \in Vehicle,
         vehicle_trajectories[v] # NoPath, t_now + 1 \in Moving(vehicle_trajectories[v])
  PROVE  \E d \in Newest(v, t_now + 1) :
           /\ t_now + 1 < d.create + max_comm_delay + 1 + command_timeout
           /\ d.until >= t_now + 1 + Prediction
<1> DEFINE p == vehicle_trajectories[v]
           now == t_now + 1
<1>1. p \in Path /\ p.start \in Nat /\ p.move \in Nat /\ p.set \in Nat
  <2>1. p \in Path
    BY DEF IInv, Types, TypeOK
  <2>2. p.start \in Nat /\ p.move \in Nat
    BY <2>1 DEF Path, Parameters
  <2>3. p.set \in Nat
    BY <2>1 DEF Path, Time
  <2>4. QED BY <2>1, <2>2, <2>3
<1>2. /\ t_now \in Nat /\ lost \in Nat /\ lost <= 9
      /\ \A c \in commands[v] : c.create \in Nat
  BY DEF IInv, Types, TypeOK, Time, Parameters, Command, command_timeout
<1>3. p.start + 15 <= now /\ now <= p.start + 15 + p.move /\ p.set + 5 <= p.start
  BY <1>1, <1>2 DEF Moving, Standstill, IInv, Sources
<1>4. End(p) = p.start + 29 + p.move
  BY <1>1 DEF End, Duration, Standstill
<1>5. PICK n \in Nat : n = t_now - 2
  BY <1>1, <1>2, <1>3
<1>6. n <= t_now /\ p.start + lost <= n + 3 /\ n + 13 <= End(p)
  BY <1>1, <1>2, <1>3, <1>4, <1>5
<1>7. PICK c \in commands[v] : n - lost <= c.create /\ (c.create <= n \/ c.create + 3 <= t_now)
  BY <1>6 DEF IInv, Supply
<1>8. c \in Valid(v, now) /\ now <= c.create + 3 + lost
  BY <1>2, <1>5, <1>7 DEF Valid, max_comm_delay
<1>9. PICK d \in Newest(v, now) : TRUE
  <2>1. \A e \in Valid(v, now) : e.create \in 0 .. t_now
    BY <1>2 DEF Valid, IInv, Sources
  <2>2. PICK d \in Valid(v, now) : \A e \in Valid(v, now) : e.create <= d.create
    <3> DEFINE S == {t_now - e.create : e \in Valid(v, now)}
    <3>1. S \in SUBSET Nat /\ S # {}
      BY <1>2, <1>8, <2>1
    <3>2. PICK m \in S : \A k \in S : m <= k
      <4> HIDE DEF S
      <4>1. QED BY <3>1, Least
    <3>3. PICK d \in Valid(v, now) : m = t_now - d.create
      BY <3>2
    <3>4. ASSUME NEW e \in Valid(v, now) PROVE e.create <= d.create
      <4>1. t_now - d.create <= t_now - e.create
        BY <3>2, <3>3
      <4>2. QED BY <1>2, <2>1, <4>1
    <3>5. QED BY <3>4
  <2>3. QED BY <2>2 DEF Newest
<1>10. d \in commands[v] /\ c.create <= d.create /\ now <= d.create + 12
  BY <1>2, <1>8 DEF Newest, Valid
<1>11. d.path = p /\ d.until = Smaller(d.create + max_comm_delay + MaxPoints, End(p))
  BY <1>1, <1>2, <1>3, <1>10 DEF IInv, Sources
<1>12. d.until >= now + 4
  BY <1>1, <1>2, <1>3, <1>4, <1>10, <1>11 DEF Smaller, max_comm_delay, MaxPoints
<1>13. QED
  BY <1>2, <1>10, <1>12 DEF max_comm_delay, command_timeout, Prediction

(* The kind of what a vehicle follows tells where it comes from.           *)
LEMMA FollowKind ==
  ASSUME Parameters, Types, Tick, NEW v \in Vehicle
  PROVE  /\ following'[v] = Halt =>
              \/ FreshStop(v, t_now + 1)
              \/ \A c \in Newest(v, t_now + 1) :
                   ~(/\ t_now + 1 < c.create + max_comm_delay + 1 + command_timeout
                     /\ c.until >= t_now + 1 + Prediction)
         /\ following'[v].kind = "path" =>
              \E c \in commands[v] :
                /\ following'[v] = c.path /\ ~FreshStop(v, t_now + 1)
                /\ t_now + 1 < c.create + max_comm_delay + 1 + command_timeout
<1>1. \A c \in Newest(v, t_now + 1) : c \in commands[v] /\ c.path.kind = "path"
  BY DEF Newest, Valid, Types, TypeOK, Command, Path
<1>2. following'[v] \in Follow(v, t_now + 1)
  BY TickFacts
<1>3. Halt.kind = "halt" /\ Joystick.kind = "joystick"
  BY DEF Halt, Joystick
<1>4. QED BY <1>1, <1>2, <1>3, FollowPath

-----------------------------------------------------------------------------
(* The properties                                                          *)

(* Which of the paths that vehicles have are new is known: one at most.    *)
LEMMA PathsStep ==
  ASSUME Parameters, IInv, [Next]_vars, ~Tick
  PROVE  /\ UNCHANGED <<t_now, stops, following>>
         /\ \A v \in Vehicle : \/ vehicle_trajectories'[v] \in {vehicle_trajectories[v], NoPath}
                               \/ SetNow(vehicle_trajectories'[v], v)
         /\ \A u, v \in Vehicle :
              u # v => \/ vehicle_trajectories'[u] \in {vehicle_trajectories[u], NoPath}
                       \/ vehicle_trajectories'[v] \in {vehicle_trajectories[v], NoPath}
         /\ killed' \in {killed, t_now} /\ erased' \in {erased, t_now}
<1>1. CASE UNCHANGED vars
  BY <1>1, Zenon DEF vars, lcc, readers
<1>2. CASE Edit
  <2>1. NewPaths /\ NewStops /\ Frame
    BY <1>2, EditTypes, EditPaths DEF IInv
  <2>2. QED BY <2>1, Zenon DEF NewPaths, NewStops, Frame
<1>3. QED BY <1>1, <1>2 DEF Next, Edit

(* Every variable keeps to its type.                                       *)
THEOREM TypesCorrect == Parameters => (Spec => []TypeOK)
<1> SUFFICES ASSUME Parameters PROVE Spec => []TypeOK
  OBVIOUS
<1>1. IInv => TypeOK
  BY DEF IInv, Types
<1>2. QED BY <1>1, Inductive, PTL

(* "check for sufficient lead time": while a vehicle should move along its *)
(* path it follows it, unless somebody else commands it; ten commands in a *)
(* row would have to be lost to stop it.                                   *)
THEOREM DrivenCorrect == Parameters /\ Losses < command_timeout => (Spec => []PathDriven)
<1> SUFFICES ASSUME Parameters, Losses < command_timeout PROVE Spec => []PathDriven
  OBVIOUS
<1>1. Init => PathDriven
  BY DEF Init, PathDriven
<1>2. ASSUME IInv, PathDriven, [Next]_vars PROVE PathDriven'
  <2> SUFFICES ASSUME NEW v \in Vehicle, vehicle_trajectories'[v] # NoPath,
                      t_now' \in Moving(vehicle_trajectories'[v]), following'[v] = Halt
               PROVE  t_now' \in stops'[v] .. stops'[v] + command_timeout
    BY DEF PathDriven
  <2>1. CASE Tick
    <3>1. /\ t_now \in Nat /\ t_now' = t_now + 1 /\ vehicle_trajectories' = vehicle_trajectories
          /\ stops'[v] \in {t_now + 1, stops[v]}
      BY <1>2, <2>1, TickFacts DEF IInv
    <3>2. FreshStop(v, t_now + 1)
      BY <1>2, <2>1, <3>1, NewestServes, FollowKind DEF IInv
    <3>3. stops[v] \in Nat
      BY <1>2 DEF IInv, Types, TypeOK, Time, OffTime, Parameters
    <3>4. QED BY <3>1, <3>2, <3>3 DEF FreshStop, command_timeout
  <2>2. CASE ~Tick
    <3>1. t_now' = t_now /\ stops' = stops /\ following' = following /\ t_now \in Nat
      BY <1>2, <2>2, PathsStep DEF IInv, Types, TypeOK, Time
    <3>2. CASE vehicle_trajectories'[v] = vehicle_trajectories[v]
      BY <1>2, <3>1, <3>2 DEF PathDriven
    <3>3. CASE SetNow(vehicle_trajectories'[v], v)
      <4>1. PICK p \in Path : p = vehicle_trajectories'[v] /\ t_now + 5 <= p.start
        BY <3>3 DEF SetNow
      <4>2. p.start \in Nat /\ p.move \in Nat /\ t_now \in Moving(p)
        BY <3>1, <4>1 DEF Path, Parameters
      <4>3. QED BY <3>1, <4>1, <4>2 DEF Moving, Standstill
    <3>4. QED BY <1>2, <2>2, <3>2, <3>3, PathsStep
  <2>3. QED BY <2>1, <2>2
<1>3. QED BY <1>1, <1>2, Inductive, PTL DEF Spec

(* A path is driven by the vehicle it starts at, also when the button is   *)
(* released over another one.                                              *)
THEOREM OwnersCorrect == Parameters => (Spec => []PathOfItsVehicle)
<1> SUFFICES ASSUME Parameters PROVE Spec => []PathOfItsVehicle
  OBVIOUS
<1>1. IInv => PathOfItsVehicle
  BY DEF IInv, Owners, PathOfItsVehicle
<1>2. QED BY <1>1, Inductive, PTL

(* "make all vehicles stop immediately": after a click on kill no vehicle  *)
(* drives along a path for two seconds, minus what lost commands cost.     *)
THEOREM StopCorrect == Parameters => (Spec => []StopHolds)
<1> SUFFICES ASSUME Parameters PROVE Spec => []StopHolds
  OBVIOUS
<1>1. Init => StopHolds
  BY DEF Init, StopHolds, Drives, Halt
<1>2. ASSUME IInv, StopHolds, [Next]_vars PROVE StopHolds'
  <2> SUFFICES ASSUME (t_now \in killed + Reached .. killed + Outlived)', NEW v \in Vehicle,
                      following'[v].kind = "path"
               PROVE  FALSE
    BY DEF StopHolds, Drives
  <2>1. /\ t_now \in Nat /\ Losses \in Nat /\ killed \in Nat
        /\ (killed <= t_now \/ killed = Never)
    BY <1>2 DEF IInv, Clicked, Types, TypeOK, Time, OffTime, Parameters
  <2>2. CASE Tick
    <3>1. t_now' = t_now + 1 /\ t_now' \in Time /\ killed' = killed
      BY <1>2, <2>2, TickFacts DEF IInv
    <3>2. killed + 3 + 2 * Losses <= t_now + 1 /\ t_now + 1 + 2 * Losses <= killed + 21
      BY <2>1, <3>1 DEF Reached, Outlived
    <3>3. killed <= t_now
      BY <2>1, <3>1, <3>2 DEF Never, Time, Parameters
    <3>4. FreshStop(v, t_now + 1)
      BY <1>2, <2>1, <3>2, <3>3, StopsLast DEF IInv, Stops
    <3>5. QED BY <1>2, <2>2, <3>4, FollowKind DEF IInv
  <2>3. CASE ~Tick
    <3>1. t_now' = t_now /\ following' = following /\ killed' \in {killed, t_now}
      BY <1>2, <2>3, PathsStep
    <3>2. killed' # t_now
      BY <2>1, <3>1 DEF Reached, Outlived
    <3>3. QED BY <1>2, <3>1, <3>2 DEF StopHolds, Drives
  <2>4. QED BY <2>2, <2>3
<1>3. QED BY <1>1, <1>2, Inductive, PTL DEF Spec

(* A path erased at a click on kill is not taken up again, not even when   *)
(* the stop commands are over.                                             *)
THEOREM ErasedCorrect == Parameters => (Spec => []ErasedStaysErased)
<1> SUFFICES ASSUME Parameters PROVE Spec => []ErasedStaysErased
  OBVIOUS
<1>1. Init => ErasedStaysErased
  BY DEF Init, ErasedStaysErased, Drives, Halt
<1>2. ASSUME IInv, ErasedStaysErased, [Next]_vars PROVE ErasedStaysErased'
  <2> SUFFICES ASSUME (t_now >= erased + Reached)', NEW v \in Vehicle,
                      following'[v].kind = "path"
               PROVE  following'[v].set >= erased'
    BY DEF ErasedStaysErased, Drives
  <2>1. /\ t_now \in Nat /\ Losses \in Nat /\ erased \in Nat
        /\ (erased <= t_now \/ erased = Never)
    BY <1>2 DEF IInv, Clicked, Types, TypeOK, Time, OffTime, Parameters
  <2>2. CASE Tick
    <3>1. t_now' = t_now + 1 /\ t_now' \in Time /\ erased' = erased
      BY <1>2, <2>2, TickFacts DEF IInv
    <3>2. erased + 3 + 2 * Losses <= t_now + 1
      BY <2>1, <3>1 DEF Reached
    <3>3. erased <= t_now
      BY <2>1, <3>1, <3>2 DEF Never, Time, Parameters
    <3>4. PICK c \in commands[v] :
            /\ following'[v] = c.path /\ ~FreshStop(v, t_now + 1)
            /\ t_now + 1 < c.create + max_comm_delay + 1 + command_timeout
      BY <1>2, <2>2, FollowKind DEF IInv
    <3>5. c.create \in Nat /\ c.path.set \in Nat /\ (c.path.set < erased => c.create <= erased)
      BY <1>2 DEF IInv, Sources, Types, TypeOK, Command, Path, Time
    <3>6. ~(t_now + 1 + 2 * Losses <= erased + 21)
      BY <1>2, <2>1, <3>2, <3>3, <3>4, StopsLast DEF IInv, Stops
    <3>7. ~(c.create <= erased)
      BY <2>1, <3>2, <3>4, <3>5, <3>6 DEF max_comm_delay, command_timeout
    <3>8. QED BY <2>1, <3>1, <3>4, <3>5, <3>7
  <2>3. CASE ~Tick
    <3>1. t_now' = t_now /\ following' = following /\ erased' \in {erased, t_now}
      BY <1>2, <2>3, PathsStep
    <3>2. erased' # t_now
      BY <2>1, <3>1 DEF Reached
    <3>3. QED BY <1>2, <3>1, <3>2 DEF ErasedStaysErased, Drives
  <2>4. QED BY <2>2, <2>3
<1>3. QED BY <1>1, <1>2, Inductive, PTL DEF Spec

(* Vehicles on their way to the start poses move one after the other.      *)
THEOREM OneCorrect == Parameters => (Spec => []OneAtATime)
<1> SUFFICES ASSUME Parameters PROVE Spec => []OneAtATime
  OBVIOUS
<1>1. Init => OneAtATime
  BY DEF Init, OneAtATime
<1> DEFINE Apart(p, q) == p.round > 0 /\ p.round = q.round => Moving(p) \cap Moving(q) = {}
<1>2. ASSUME IInv, OneAtATime, [Next]_vars PROVE OneAtATime'
  <2>1. CASE Tick
    <3>1. vehicle_trajectories' = vehicle_trajectories
      BY <1>2, <2>1, TickFacts DEF IInv
    <3>2. QED BY <1>2, <3>1 DEF OneAtATime
  <2>2. CASE ~Tick
    <3>1. ASSUME NEW u \in Vehicle, NEW v \in Vehicle, vehicle_trajectories[u] # NoPath,
                 SetNow(vehicle_trajectories'[v], v)
          PROVE  /\ Apart(vehicle_trajectories[u], vehicle_trajectories'[v])
                 /\ Apart(vehicle_trajectories'[v], vehicle_trajectories[u])
      <4>1. PICK p \in Path : p = vehicle_trajectories[u]
        BY <1>2, <3>1 DEF IInv, Types, TypeOK
      <4>2. PICK q \in Path : q = vehicle_trajectories'[v]
        BY <3>1 DEF SetNow
      <4>3. /\ p.start \in Nat /\ p.move \in Nat /\ q.start \in Nat /\ q.move \in Nat
        BY <4>1, <4>2 DEF Path, Parameters
      <4>4. CASE q.round = 0
        BY <4>1, <4>2, <4>4
      <4>5. CASE q.round # p.round
        BY <4>1, <4>2, <4>5
      <4>6. CASE q.round # 0 /\ q.round = p.round
        <5>1. /\ planner.running /\ p.round = planner.round
              /\ t_now + planner.total <= q.start
          BY <3>1, <4>2, <4>6 DEF SetNow
        <5>2. p.start + p.move < planner.since + planner.total /\ planner.since <= t_now
          BY <1>2, <3>1, <4>1, <5>1 DEF IInv, Rounds
        <5>3. t_now \in Nat /\ planner.since \in Nat /\ planner.total \in Nat
          BY <1>2 DEF IInv, Types, TypeOK, Time
        <5>4. p.start + p.move < q.start
          BY <4>3, <5>1, <5>2, <5>3
        <5>5. Moving(p) \cap Moving(q) = {}
          BY <4>3, <5>4 DEF Moving, Standstill
        <5>6. QED BY <4>1, <4>2, <5>5
      <4>7. QED BY <4>4, <4>5, <4>6
    <3> SUFFICES ASSUME NEW u \in Vehicle, NEW v \in Vehicle, u # v,
                        vehicle_trajectories'[u] # NoPath, vehicle_trajectories'[v] # NoPath
                 PROVE  Apart(vehicle_trajectories'[u], vehicle_trajectories'[v])
      BY DEF OneAtATime
    <3>2. CASE vehicle_trajectories'[u] = vehicle_trajectories[u]
               /\ vehicle_trajectories'[v] = vehicle_trajectories[v]
      BY <1>2, <3>2 DEF OneAtATime
    <3>3. CASE vehicle_trajectories'[u] = vehicle_trajectories[u]
               /\ SetNow(vehicle_trajectories'[v], v)
      BY <3>1, <3>3
    <3>4. CASE vehicle_trajectories'[v] = vehicle_trajectories[v]
               /\ SetNow(vehicle_trajectories'[u], u)
      BY <3>1, <3>4
    <3>5. QED BY <1>2, <2>2, <3>2, <3>3, <3>4, PathsStep
  <2>3. QED BY <2>1, <2>2
<1>3. QED BY <1>1, <1>2, Inductive, PTL DEF Spec
=============================================================================

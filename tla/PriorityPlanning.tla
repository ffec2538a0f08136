-------------------------- MODULE PriorityPlanning --------------------------
(***************************************************************************)
(* The planner of the example with dynamic priorities: one planner per     *)
(* vehicle, all plan the same time step and agree by messages on an order  *)
(* (VehicleTrajectoryPlanner).  A planner lets those before it plan first, *)
(* avoids their trajectories and tells whether that worked.  If it did     *)
(* not for one of them, all go back to the old priorities, and if these    *)
(* do not work either, to the plans they had.  A trajectory is the number  *)
(* of the plan; whether collisions can be avoided and how large an         *)
(* assessment (fca) is are free.                                           *)
(***************************************************************************)
EXTENDS Integers, Sequences, FiniteSets

CONSTANTS
  Vehicle,     (* vehicle ids, numbers                                     *)
  Modes,       (* modes to look at, of {"id", "random", "fca",             *)
               (* "vertex_ordering"}                                       *)
  Fca,         (* the assessments, 0 among them                            *)
  OldOrders,   (* priorities that a time step may begin with               *)
  Stoppable,   (* planners whose middleware may cancel the time step       *)
  Ordered      (* the network delivers the messages of a topic to a reader *)
               (* in the order in which they were sent (only one writer's  *)
               (* are bound to be)                                         *)

VARIABLES
  mode,
  graph_order, (* compute_graph_based_priorities: the same for all         *)
  planner,     (* what a planner knows                                     *)
  channel      (* messages of a topic to a planner, on their way or in its *)
               (* reader, in the order of sending                          *)

vars == <<mode, graph_order, planner, channel>>

Topic == {"trajectory", "fca", "sync"}
Order == {s \in [1 .. Cardinality(Vehicle) -> Vehicle] :
            \A i, j \in DOMAIN s : s[i] = s[j] => i = j}
Plan == 0 .. 3
SyncId == {1, 3, 4, 5}

Planner == [
  pc : {"begin", "write fca", "read fca", "prev", "ignored", "announce", "sync", "optimal",
        "auction", "winner", "rest", "done"},
  stage : {"new", "old", "last"},        (* which of the rounds this is    *)
  prio_vec : Order, old_prio_vec : Order,
  new_prio_vec : Seq(Vehicle), active_vehicles : SUBSET Vehicle,
  own_fca : Fca, fca : [Vehicle -> Fca], (* those received                 *)
  wait : SUBSET Vehicle, received_messages : SUBSET Vehicle,
  sync_id : SyncId, feasible : BOOLEAN,
  plan : Plan,                           (* the latest trajectory          *)
  other_vehicles_buffer : [Vehicle -> Plan],
  follows : Plan,                        (* the plan kept at the end, or 0 *)
  stopFlag : BOOLEAN]

Message ==
  [from : Vehicle, type : {"Final", "Optimal"}, has_collisions : BOOLEAN, plan : Plan] \cup
  [from : Vehicle, fca : Fca] \cup [from : Vehicle, sync_id : SyncId, feasible : BOOLEAN]

TypeOK ==
  /\ mode \in Modes /\ graph_order \in Order
  /\ planner \in [Vehicle -> Planner]
  /\ channel \in [Topic -> [Vehicle -> Seq(Message)]]

Nobody == [v \in Vehicle |-> 0]

(* A time step begins with priorities all agree on.                        *)
Init ==
  /\ mode \in Modes
  /\ graph_order \in Order /\ (mode = "vertex_ordering" \/ \A i \in DOMAIN graph_order :
       \A j \in 1 .. i : graph_order[j] <= graph_order[i])
  /\ \E prio \in OldOrders :
       planner = [v \in Vehicle |->
         [pc |-> "begin", stage |-> "new", prio_vec |-> prio, old_prio_vec |-> prio,
          new_prio_vec |-> <<>>, active_vehicles |-> {}, own_fca |-> 0, fca |-> Nobody,
          wait |-> {}, received_messages |-> {}, sync_id |-> 1, feasible |-> TRUE,
          plan |-> 0, other_vehicles_buffer |-> Nobody, follows |-> 0, stopFlag |-> FALSE]]
  /\ channel = [t \in Topic |-> [v \in Vehicle |-> <<>>]]

-----------------------------------------------------------------------------
(* Messages: best effort readers that keep the last sample of a writer.    *)
(* A planner's own messages reach it at once.                              *)

Publish(topic, message) ==
  channel' = [channel EXCEPT ![topic] =
    [u \in Vehicle |-> IF u = message.from THEN @[u] ELSE Append(@[u], message)]]

(* What may have arrived: at least one, never the later of two messages of *)
(* a writer without the earlier.                                           *)
Arrival(topic, v) ==
  LET messages == channel[topic][v]
  IN {arrived \in (SUBSET DOMAIN messages) \ {{}} :
        \A i \in arrived : \A j \in 1 .. i :
          Ordered \/ messages[j].from = messages[i].from => j \in arrived}

(* take(): the latest of the messages that have arrived from a writer.     *)
Taken(topic, v, arrived) ==
  LET messages == channel[topic][v]
  IN {messages[i] : i \in {i \in arrived :
        \A j \in arrived : j > i => messages[j].from # messages[i].from}}

(* The k-th smallest of a set of numbers.                                  *)
Nth(S, k) == CHOOSE i \in S : Cardinality({j \in S : j <= i}) = k

Remove(topic, v, arrived) ==
  LET left == DOMAIN channel[topic][v] \ arrived
  IN channel' = [channel EXCEPT ![topic][v] = [k \in 1 .. Cardinality(left) |-> @[Nth(left, k)]]]

-----------------------------------------------------------------------------
(* The parts of the planning                                               *)

Senders(messages) == {m.from : m \in messages}

Position(order, v) == CHOOSE i \in DOMAIN order : order[i] = v
PrevVehicles(order, v) == {order[i] : i \in 1 .. Position(order, v) - 1}
(* Mutant: nobody is behind.                                               *)
IgnoredNobody(order, v) == {}
IgnoredVehicles(order, v) == {order[i] : i \in Position(order, v) + 1 .. Len(order)}

Waiting(p, pc, vehicles, own) ==
  [p EXCEPT !.pc = pc, !.wait = vehicles, !.received_messages = own]

(* Mutant: those who were heard in the round before are not waited for.    *)
StaticHeard(p, v, stage) ==
  [Waiting(p, "prev", PrevVehicles(p.prio_vec, v), p.received_messages) EXCEPT
     !.stage = stage, !.other_vehicles_buffer = Nobody, !.feasible = TRUE]

(* plan_static_priorities: wait for those before.                          *)
Static(p, v, stage) ==
  [Waiting(p, "prev", PrevVehicles(p.prio_vec, v), {}) EXCEPT
     !.stage = stage, !.other_vehicles_buffer = Nobody, !.feasible = TRUE]

Announce(p, id, feasible, vehicles, v) ==
  [Waiting(p, "announce", vehicles, {v}) EXCEPT !.sync_id = id, !.feasible = feasible]

Finish(p, feasible) == [p EXCEPT !.pc = "done", !.follows = IF feasible THEN p.plan ELSE 0]

(* The end of plan_static_priorities, by where it was called.              *)
StaticDone(p, v, feasible) ==
  CASE p.stage = "new"  -> Announce(p, 3, feasible, Vehicle, v)
    [] p.stage = "old"  -> Announce(p, 4, feasible, Vehicle, v)
    [] p.stage = "last" -> Finish(p, feasible)

(* What comes after a synchronisation.  With the vertex ordering planning  *)
(* is repeated in any case: plan() does not use the result.                *)
Synchronised(p, v) ==
  CASE p.sync_id = 5 /\ mode = "fca" -> [p EXCEPT !.pc = "write fca"]
    [] p.sync_id = 5 /\ mode # "fca" ->
         Static([p EXCEPT !.old_prio_vec = p.prio_vec, !.prio_vec = graph_order], v, "new")
    [] p.sync_id = 1 /\ p.feasible -> Finish(p, TRUE)
    [] p.sync_id = 1 /\ ~p.feasible -> Static(p, v, "last")
    [] p.sync_id = 3 /\ p.feasible /\ mode = "random" -> Finish(p, TRUE)
    [] p.sync_id = 3 /\ p.feasible /\ mode # "random" -> Static(p, v, "last")
    [] p.sync_id = 3 /\ ~p.feasible ->
         Static([p EXCEPT !.prio_vec = p.old_prio_vec], v,
                IF mode = "random" THEN "last" ELSE "old")
    [] p.sync_id = 4 -> Static(p, v, "last")

-----------------------------------------------------------------------------
(* Steps of a planner                                                      *)

Step(v, p) == planner' = [planner EXCEPT ![v] = p]

(* plan().                                                                 *)
Begin(v) ==
  LET p == planner[v]
  IN /\ p.pc = "begin"
     /\ \/ /\ mode = "id"
           /\ Step(v, Static(p, v, "last")) /\ UNCHANGED channel
        \/ /\ mode = "random"
           /\ \E f \in Fca : Step(v, [p EXCEPT !.pc = "write fca", !.own_fca = f])
           /\ UNCHANGED channel
        \/ /\ mode \in {"fca", "vertex_ordering"}
           /\ Publish("trajectory", [from |-> v, type |-> "Optimal", has_collisions |-> FALSE, plan |-> 0])
           /\ Step(v, Waiting(p, "optimal", Vehicle, {v}))
  /\ UNCHANGED <<mode, graph_order>>

(* The loops of read_vehicles, synchronise and get_largest_fca end when    *)
(* everybody has been heard.                                               *)
Heard(p) == p.wait \subseteq p.received_messages

(* read_vehicles and synchronise look at stopFlag, too.                    *)
Proceeds(p) == Heard(p) \/ p.stopFlag

(* One pass of the loop of read_vehicles: messages of other types, or from *)
(* planners nobody asked for, are gone.                                    *)
ReadVehicles(v) ==
  LET p == planner[v]
      type == IF p.pc = "optimal" THEN "Optimal" ELSE "Final"
  IN /\ p.pc \in {"optimal", "prev", "ignored", "winner", "rest"}
     /\ ~Proceeds(p)
     /\ \E arrived \in Arrival("trajectory", v) :
          LET read == {m \in Taken("trajectory", v, arrived) : m.type = type}
              asked == {m \in read : m.from \in p.wait}
              heard == [p EXCEPT
                !.received_messages = @ \cup Senders(read),
                !.other_vehicles_buffer = [u \in Vehicle |->
                  IF p.pc \in {"prev", "winner"} /\ u \in Senders(asked)
                  THEN (CHOOSE m \in asked : m.from = u).plan ELSE @[u]]]
          IN /\ Step(v, CASE \A m \in asked : ~m.has_collisions -> heard
                          [] (\E m \in asked : m.has_collisions) /\ p.pc \in {"prev", "ignored"} ->
                               StaticDone(p, v, FALSE)
                          [] (\E m \in asked : m.has_collisions) /\ p.pc \in {"winner", "rest"} ->
                               Announce(p, 1, FALSE, Vehicle, v))
             /\ Remove("trajectory", v, arrived)
     /\ UNCHANGED <<mode, graph_order>>

(* avoid_collisions works or not; send_plan_to_hlcs tells the others.      *)
SendPlan(v, feasible, p) ==
  /\ Publish("trajectory",
       [from |-> v, type |-> "Final", has_collisions |-> ~feasible, plan |-> planner[v].plan + 1])
  /\ Step(v, [p EXCEPT !.plan = planner[v].plan + 1])

(* plan_static_priorities, once those before have planned.                 *)
PlanAfterPrev(v) ==
  LET p == planner[v]
  IN /\ p.pc = "prev" /\ Proceeds(p)
     /\ \E feasible \in BOOLEAN : SendPlan(v, feasible,
          IF feasible THEN Waiting(p, "ignored", IgnoredVehicles(p.prio_vec, v), {})
                      ELSE [StaticDone(p, v, FALSE) EXCEPT !.follows = 0])
     /\ UNCHANGED <<mode, graph_order>>

(* ... and once those after have.                                          *)
IgnoredPlanned(v) ==
  LET p == planner[v]
  IN /\ p.pc = "ignored" /\ Proceeds(p)
     /\ Step(v, StaticDone(p, v, TRUE))
     /\ UNCHANGED <<mode, graph_order, channel>>

OptimalRead(v) ==
  LET p == planner[v]
  IN /\ p.pc = "optimal" /\ Proceeds(p)
     /\ \E f \in Fca :
          /\ mode # "fca" => f = 0
          /\ Step(v, [Announce(p, 5, TRUE, Vehicle, v) EXCEPT
                        !.active_vehicles = Vehicle, !.own_fca = f])
     /\ UNCHANGED <<mode, graph_order, channel>>

(* synchronise writes its message ...                                      *)
WriteSync(v) ==
  LET p == planner[v]
  IN /\ p.pc = "announce"
     /\ Publish("sync", [from |-> v, sync_id |-> p.sync_id, feasible |-> p.feasible])
     /\ Step(v, [p EXCEPT !.pc = "sync"])
     /\ UNCHANGED <<mode, graph_order>>

(* ... and waits for those of the others.                                  *)
ReadSync(v) ==
  LET p == planner[v]
  IN /\ p.pc = "sync" /\ ~Proceeds(p)
     /\ \E arrived \in Arrival("sync", v) :
          LET read == {m \in Taken("sync", v, arrived) : m.sync_id = p.sync_id}
          IN /\ Step(v, [p EXCEPT !.received_messages = @ \cup Senders(read),
                                  !.feasible = @ /\ \A m \in read : m.feasible])
             /\ Remove("sync", v, arrived)
     /\ UNCHANGED <<mode, graph_order>>

SyncRead(v) ==
  LET p == planner[v]
  IN /\ p.pc = "sync" /\ Proceeds(p)
     /\ Step(v, Synchronised(p, v))
     /\ UNCHANGED <<mode, graph_order, channel>>

WriteFca(v) ==
  LET p == planner[v]
  IN /\ p.pc = "write fca"
     /\ Publish("fca", [from |-> v, fca |-> p.own_fca])
     /\ Step(v, [Waiting(p, IF mode = "random" THEN "read fca" ELSE "auction",
                         IF mode = "random" THEN Vehicle ELSE p.active_vehicles, {v})
                 EXCEPT !.fca = [Nobody EXCEPT ![v] = p.own_fca]])
     /\ UNCHANGED <<mode, graph_order>>

(* The loops of fca_prio_vec and get_largest_fca.                          *)
ReadFca(v) ==
  LET p == planner[v]
  IN /\ p.pc \in {"read fca", "auction"} /\ ~Heard(p)
     /\ \E arrived \in Arrival("fca", v) :
          LET read == Taken("fca", v, arrived)
          IN /\ Step(v, [p EXCEPT
                  !.received_messages = @ \cup Senders(read),
                  !.fca = [u \in Vehicle |->
                    IF u \in Senders(read) THEN (CHOOSE m \in read : m.from = u).fca ELSE @[u]]])
             /\ Remove("fca", v, arrived)
     /\ UNCHANGED <<mode, graph_order>>

(* Mutant: a planner is before all that assess as little as it does.       *)
BehindStrict(p, v, u) == p.fca[u] > p.fca[v]

(* Whether fca_prio_vec puts u before v.                                   *)
Behind(p, v, u) == p.fca[u] > p.fca[v] \/ (p.fca[u] = p.fca[v] /\ u < v)

(* fca_prio_vec: those before and those behind, in any order (they came    *)
(* in any order).                                                          *)
RandomPriorities(v) ==
  LET p == planner[v]
  IN /\ p.pc = "read fca" /\ Heard(p)
     /\ \E order \in Order :
          /\ PrevVehicles(order, v) = {u \in Vehicle \ {v} : Behind(p, v, u)}
          /\ Step(v, Static([p EXCEPT !.old_prio_vec = p.prio_vec, !.prio_vec = order], v, "new"))
     /\ UNCHANGED <<mode, graph_order, channel>>

(* get_largest_fca.                                                        *)
Winner(p) ==
  CHOOSE u \in p.received_messages : \A w \in p.received_messages :
    p.fca[w] < p.fca[u] \/ (p.fca[w] = p.fca[u] /\ w <= u)

(* The winner plans; the others wait for its trajectory.                   *)
PlanAsWinner(v) ==
  LET p == planner[v]
  IN /\ p.pc = "auction" /\ Heard(p) /\ Winner(p) = v
     /\ \E feasible \in BOOLEAN :
          LET rest == p.active_vehicles \ {v}
              won == [p EXCEPT !.active_vehicles = rest, !.new_prio_vec = Append(@, v)]
          IN SendPlan(v, feasible, IF feasible THEN Waiting(won, "rest", rest, {})
                                               ELSE Announce(won, 1, FALSE, Vehicle, v))
     /\ UNCHANGED <<mode, graph_order>>

WaitForWinner(v) ==
  LET p == planner[v]
  IN /\ p.pc = "auction" /\ Heard(p) /\ Winner(p) # v
     /\ Step(v, [Waiting(p, "winner", {Winner(p)}, {}) EXCEPT
                   !.active_vehicles = @ \ {Winner(p)}, !.new_prio_vec = Append(@, Winner(p))])
     /\ UNCHANGED <<mode, graph_order, channel>>

(* Mutant: the winners are waited for, too.                                *)
WinnerPlannedAll(v) ==
  LET p == planner[v]
  IN /\ p.pc = "winner" /\ Proceeds(p)
     /\ \E f \in Fca :
          Step(v, [Announce(p, 5, TRUE, Vehicle, v) EXCEPT !.own_fca = f])
     /\ UNCHANGED <<mode, graph_order, channel>>

(* update_potential_collisions, and the next iteration.                    *)
WinnerPlanned(v) ==
  LET p == planner[v]
  IN /\ p.pc = "winner" /\ Proceeds(p)
     /\ \E f \in Fca :
          Step(v, [Announce(p, 5, TRUE, p.active_vehicles, v) EXCEPT !.own_fca = f])
     /\ UNCHANGED <<mode, graph_order, channel>>

(* Everybody could plan: the new priorities, with the rest in the order of *)
(* their ids.                                                              *)
RestPlanned(v) ==
  LET p == planner[v]
  IN /\ p.pc = "rest" /\ Proceeds(p)
     /\ \E order \in Order :
          /\ \A i \in DOMAIN p.new_prio_vec : order[i] = p.new_prio_vec[i]
          /\ \A i, j \in Len(p.new_prio_vec) + 1 .. Len(order) : i < j => order[i] < order[j]
          /\ Step(v, [Announce(p, 1, TRUE, Vehicle, v) EXCEPT !.prio_vec = order])
     /\ UNCHANGED <<mode, graph_order, channel>>

(* stop(): the middleware cancels the time step.                           *)
Stop(v) ==
  /\ v \in Stoppable
  /\ ~planner[v].stopFlag /\ planner[v].pc \notin {"begin", "done"}
  /\ Step(v, [planner[v] EXCEPT !.stopFlag = TRUE])
  /\ UNCHANGED <<mode, graph_order, channel>>

PlannerStep(v) ==
  \/ Begin(v) \/ ReadVehicles(v) \/ PlanAfterPrev(v) \/ IgnoredPlanned(v) \/ OptimalRead(v)
  \/ WriteSync(v) \/ ReadSync(v) \/ SyncRead(v)
  \/ WriteFca(v) \/ ReadFca(v) \/ RandomPriorities(v)
  \/ PlanAsWinner(v) \/ WaitForWinner(v) \/ WinnerPlanned(v) \/ RestPlanned(v)

Next == \E v \in Vehicle : PlannerStep(v) \/ Stop(v)

Spec == Init /\ [][Next]_vars

(* Every planner gets its time step and goes on; messages arrive.          *)
Fairness == \A v \in Vehicle : WF_vars(PlannerStep(v))

FairSpec == Spec /\ Fairness

-----------------------------------------------------------------------------
(* PROPERTIES                                                              *)

AllDone == \A v \in Vehicle : planner[v].pc = "done"
NobodyStopped == \A v \in Vehicle : ~planner[v].stopFlag

(* plan(): "if old prios don't work just extend the halt at the end of the *)
(* horizon".  A vehicle that keeps its old plan is not avoided by one that *)
(* follows a new plan: all follow the new plans or none does.              *)
AllOrNobody ==
  AllDone /\ NobodyStopped =>
    \/ \A v \in Vehicle : planner[v].follows > 0
    \/ \A v \in Vehicle : planner[v].follows = 0

(* "Waits until we received the trajs needed for planning": a planner that *)
(* follows its plan has avoided the trajectories which those before it     *)
(* follow.                                                                 *)
PlannedAgainst ==
  AllDone /\ NobodyStopped => \A v \in Vehicle :
    planner[v].follows > 0 =>
      \A u \in PrevVehicles(planner[v].prio_vec, v) :
        planner[v].other_vehicles_buffer[u] = planner[u].follows

(* Two planners agree which of them is first.                              *)
PrioritiesAgree ==
  AllDone /\ NobodyStopped => \A u, v \in Vehicle :
    u # v => (u \in PrevVehicles(planner[v].prio_vec, v)
              <=> v \notin PrevVehicles(planner[u].prio_vec, u))

(* Nobody waits for a message that was taken too early: every planner ends *)
(* the time step.                                                          *)
TimestepEnds == <>(AllDone \/ ~NobodyStopped)

=============================================================================

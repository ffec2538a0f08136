--------------------------- MODULE Planning_proofs --------------------------
(***************************************************************************)
(* The vehicles of the example dynamic_priorities agree on their plans,    *)
(* and the plans can be driven and meet nobody.                            *)
(*                                                                         *)
(* First PriorityPlanning, for any number of vehicles: who is how far in   *)
(* its time step, what it knows of the others, and what is on its way      *)
(* between two of them.  What the proof needs of the constants is Fleet.   *)
(* At the end SpeedPlanning, for every number of vehicles, every length of *)
(* the profile and of the time step, every acceleration, maximum speed and *)
(* reduction, and wherever the vehicles would touch; it needs Parameters   *)
(* and Roads.                                                              *)
(***************************************************************************)
EXTENDS PriorityPlanning, Recursion, FiniteSetTheorems, TLAPS

(* No auction, and the messages of a topic arrive in their order.          *)
Fleet ==
  /\ IsFiniteSet(Vehicle) /\ Vehicle \subseteq Nat
  /\ Modes \subseteq {"id", "random", "vertex_ordering"}
  /\ Fca \subseteq Nat /\ 0 \in Fca /\ OldOrders \subseteq Order
  /\ Ordered = TRUE

-----------------------------------------------------------------------------
(* How far a planner is in its time step: rounds of planning begin at      *)
(* RoundLevel and end with a message to all or with the time step.         *)
RoundLevel(p) == IF p.stage = "new" THEN 4 ELSE IF p.stage = "old" THEN 7 ELSE 10

Level(p) ==
  IF p.pc = "begin" THEN 0
  ELSE IF p.pc \in {"write fca", "optimal"} THEN 1
  ELSE IF p.pc = "read fca" THEN 2
  ELSE IF p.pc = "announce" THEN (IF p.sync_id = 5 THEN 2 ELSE IF p.sync_id = 3 THEN 5 ELSE 8)
  ELSE IF p.pc = "sync" THEN (IF p.sync_id = 5 THEN 3 ELSE IF p.sync_id = 3 THEN 6 ELSE 9)
  ELSE IF p.pc = "done" THEN 11
  ELSE RoundLevel(p)

Planning(p) == p.pc \in {"prev", "ignored"}
Over(p) == Level(p) > RoundLevel(p)
Good(p) == IF p.pc = "done" THEN p.follows > 0 ELSE p.feasible = TRUE

Prev(v, p) == PrevVehicles(p.prio_vec, v)
Behinds(v, p) == IgnoredVehicles(p.prio_vec, v)

(* fca_prio_vec puts u before v.                                           *)
Before(u, q, v, p) == q.own_fca > p.own_fca \/ (q.own_fca = p.own_fca /\ u < v)

(* What the control of a planner says of its priorities, ...               *)
Control(M, G, p) ==
  /\ p.pc \in {"begin", "write fca", "read fca", "optimal", "announce", "sync", "prev", "ignored", "done"}
  /\ p.pc \in {"announce", "sync"} =>
       p.sync_id \in {5, 3, 4} /\ p.stage = (IF p.sync_id = 4 THEN "old" ELSE "new")
  /\ M = "id" => p.pc \in {"begin", "prev", "ignored", "done"} /\ (p.pc # "begin" => p.stage = "last")
  /\ M = "random" => /\ p.stage \in {"new", "last"} /\ p.pc # "optimal"
                     /\ p.pc \in {"announce", "sync"} => p.sync_id = 3
  /\ M = "vertex_ordering" => /\ p.pc \notin {"write fca", "read fca"}
                              /\ p.pc = "done" => p.stage = "last"
  /\ p.pc \in {"begin", "optimal", "write fca", "read fca"} => p.stage = "new"
  /\ p.pc = "done" => p.stage \in {"new", "last"}
  /\ Level(p) < 4 => p.prio_vec = p.old_prio_vec
  /\ p.stage = "old" => p.prio_vec = p.old_prio_vec /\ M = "vertex_ordering"
  /\ p.stage = "last" => \/ p.prio_vec = p.old_prio_vec
                         \/ M = "vertex_ordering" /\ p.prio_vec = G
  /\ p.stage = "new" /\ Level(p) >= 4 /\ M = "vertex_ordering" => p.prio_vec = G

(* ... of those it waits for ...                                           *)
Waits(v, p) ==
  /\ p.pc = "prev" => p.wait = Prev(v, p)
  /\ p.pc = "ignored" => p.wait = Behinds(v, p)
  /\ p.pc \in {"read fca", "optimal", "announce", "sync"} => p.wait = Vehicle
  /\ p.pc \in {"announce", "sync", "read fca", "optimal"} => v \in p.received_messages
  /\ p.pc = "announce" => p.received_messages = {v}
  /\ p.pc = "read fca" => p.fca[v] = p.own_fca

(* ... and of its plans.                                                   *)
Plannings(p) ==
  /\ Level(p) < 4 => p.plan = 0
  /\ p.pc # "done" => p.follows = 0
  /\ p.pc = "done" => p.follows \in {0, p.plan}
  /\ p.pc = "done" /\ p.stage = "new" => p.follows > 0
  /\ p.pc = "ignored" \/ (Over(p) /\ Good(p)) => p.plan > 0
  /\ p.pc = "prev" => 3 * p.plan < RoundLevel(p) - 3
  /\ Level(p) >= 4 => 3 * p.plan < RoundLevel(p)

Local(M, G, v, p) == Control(M, G, p) /\ Waits(v, p) /\ Plannings(p)

(* Who is how far: nobody passes a synchronisation alone, and all go on    *)
(* in the same way.                                                        *)
Barriers(M, G, p, q) ==
  /\ p.old_prio_vec = q.old_prio_vec
  /\ M = "random" /\ Level(p) >= 4 => Level(q) >= 2
  /\ M = "vertex_ordering" /\ Level(p) >= 2 => Level(q) >= 1
  /\ M = "vertex_ordering" /\ Level(p) >= 4 => Level(q) >= 3
  /\ M # "id" /\ Level(p) >= 7 => Level(q) >= 6
  /\ M = "vertex_ordering" /\ Level(p) >= 10 => Level(q) \notin {7, 8}
  /\ Over(p) /\ Over(q) /\ RoundLevel(p) = RoundLevel(q) => (Good(p) <=> Good(q))
  /\ Level(p) = 6 /\ Level(q) >= 7 /\ M = "random" => (Good(p) <=> q.stage = "new")
  /\ Level(p) = 6 /\ Level(q) \in 7 .. 9 => ~Good(p)
  /\ Level(p) = 6 /\ Level(q) >= 10 /\ M = "vertex_ordering" => Good(p) /\ q.prio_vec = G
  /\ Level(p) = 9 /\ Level(q) >= 10 => q.prio_vec = q.old_prio_vec
  /\ Level(p) >= 10 /\ Level(q) >= 10 =>
       p.stage = q.stage /\ (M = "vertex_ordering" => p.prio_vec = q.prio_vec)

(* What v knows of u.                                                      *)
HeardOf(v, u, p) == u \in p.received_messages \/ (p.pc = "ignored" /\ u \in Prev(v, p))

Known(M, v, u, p, q) ==
  /\ p.pc = "optimal" /\ u \in p.received_messages => Level(q) >= 1
  /\ p.pc = "read fca" /\ u \in p.received_messages => Level(q) >= 2 /\ p.fca[u] = q.own_fca
  /\ p.pc = "sync" /\ u \in p.received_messages => Level(q) >= Level(p)
  /\ M = "random" /\ p.stage = "new" /\ Level(p) >= 4 => (u \in Prev(v, p) <=> Before(u, q, v, p))
  /\ Planning(p) /\ HeardOf(v, u, p) =>
       Level(q) >= 4 /\ RoundLevel(q) = Level(p) /\ q.pc # "prev"
  /\ Planning(p) /\ HeardOf(v, u, p) /\ u \in Prev(v, p) => p.other_vehicles_buffer[u] = q.plan
  /\ Over(p) /\ Good(p) /\ u \in Prev(v, p) /\ Level(q) >= 4 /\ RoundLevel(q) = RoundLevel(p) =>
       p.other_vehicles_buffer[u] = q.plan

Finals(v, u, p, q, m) ==
  /\ m.plan = q.plan /\ Level(q) >= 4 /\ q.pc # "prev"
  /\ Level(p) <= RoundLevel(q)
  /\ Level(p) = RoundLevel(q) => u \notin p.received_messages /\ u \in p.wait
  /\ Level(p) < RoundLevel(q) => v \notin Prev(u, q)
  /\ m.has_collisions = TRUE => Over(q) /\ ~Good(q)

Optimals(M, u, p, q, m) ==
  /\ M = "vertex_ordering"
  /\ Level(p) <= 1 /\ Level(q) >= 1
  /\ p.pc = "optimal" => u \notin p.received_messages
  /\ m.has_collisions = FALSE

(* The trajectories of u on their way to v.                                *)
Trajectories(M, v, u, p, q, s) ==
  \A i \in 1 .. Len(s) : s[i].from = u =>
    /\ s[i].type = "Final" => Finals(v, u, p, q, s[i])
    /\ s[i].type = "Optimal" => Optimals(M, u, p, q, s[i])

(* A planner that could not plan stops all that are not so far; one that   *)
(* could had heard that they had planned.                                  *)
Outcome(p, q, s) ==
  /\ Over(q) /\ ~Good(q) /\ Level(p) <= RoundLevel(q) =>
       Len(s) > 0 /\ s[Len(s)].has_collisions = TRUE
  /\ Over(q) /\ Good(q) => Level(p) > RoundLevel(q) \/ (Level(p) = RoundLevel(q) /\ p.pc # "prev")

Synced(p, q, m) ==
  /\ m.sync_id = 5 => Level(q) >= 3
  /\ m.sync_id = 3 => /\ Level(q) = 6 \/ (Level(q) > 6 /\ Level(p) >= 6)
                      /\ Level(p) \in {5, 6} => (m.feasible = TRUE <=> Good(p))
                      /\ Level(p) < 5 => (m.feasible = TRUE <=> Good(q))
  /\ m.sync_id = 4 => /\ Level(q) = 9 \/ (Level(q) > 9 /\ Level(p) >= 9)
                      /\ Level(p) \in {8, 9} => (m.feasible = TRUE <=> Good(p))
                      /\ Level(p) < 8 => (m.feasible = TRUE <=> Good(q))

Syncs(u, p, q, s) == \A i \in 1 .. Len(s) : s[i].from = u => Synced(p, q, s[i])

Fcas(u, q, s) == \A i \in 1 .. Len(s) : s[i].from = u => Level(q) >= 2 /\ s[i].fca = q.own_fca

Queue(v, s) ==
  /\ \A i, j \in 1 .. Len(s) : i # j => s[i].from # s[j].from
  /\ \A i \in 1 .. Len(s) : s[i].from # v
  /\ \A i \in 1 .. Len(s) : s[i].has_collisions = TRUE => i = Len(s)

Pair(M, G, v, u, p, q, c) ==
  /\ Barriers(M, G, p, q) /\ Known(M, v, u, p, q)
  /\ Trajectories(M, v, u, p, q, c["trajectory"]) /\ Outcome(p, q, c["trajectory"])
  /\ Syncs(u, p, q, c["sync"]) /\ Fcas(u, q, c["fca"])

Mine(c, v) == [t \in Topic |-> c[t][v]]

PlannedPath == [from : Vehicle, type : {"Final", "Optimal"}, has_collisions : BOOLEAN, plan : Plan]

MessageOf(t) ==
  CASE t = "trajectory" -> {m \in PlannedPath : m.type = "Optimal" => m.has_collisions = FALSE}
    [] t = "fca" -> [from : Vehicle, fca : Fca]
    [] t = "sync" -> [from : Vehicle, sync_id : SyncId, feasible : BOOLEAN]

(* Nobody gets its own messages.                                           *)
Others(v, s) == \A i \in 1 .. Len(s) : s[i].from # v
Foreign(c) == \A t \in Topic : \A v \in Vehicle : Others(v, c[t][v])

Type ==
  /\ mode \in Modes /\ graph_order \in Order
  /\ planner \in [Vehicle -> Planner]
  /\ channel \in [Topic -> [Vehicle -> Seq(Message)]]
  /\ \A t \in Topic : \A v \in Vehicle : channel[t][v] \in Seq(MessageOf(t))
  /\ Foreign(channel)

Agreement ==
  \A v \in Vehicle :
    /\ Queue(v, channel["trajectory"][v])
    /\ \A u \in Vehicle \ {v} :
         Pair(mode, graph_order, v, u, planner[v], planner[u], Mine(channel, v))

IInv ==
  /\ Type
  /\ \A v \in Vehicle : Local(mode, graph_order, v, planner[v])
  /\ NobodyStopped => Agreement

-----------------------------------------------------------------------------
(* An order has every vehicle once, so that of two vehicles one is before. *)
LEMMA Permuted ==
  ASSUME Fleet, NEW o \in Order
  PROVE  /\ o \in Seq(Vehicle) /\ DOMAIN o = 1 .. Len(o)
         /\ \A v \in Vehicle : Position(o, v) \in 1 .. Len(o) /\ o[Position(o, v)] = v
         /\ \A v \in Vehicle :
              /\ PrevVehicles(o, v) \subseteq Vehicle \ {v}
              /\ IgnoredVehicles(o, v) = Vehicle \ (PrevVehicles(o, v) \cup {v})
         /\ \A u, v \in Vehicle :
              u # v => (u \in PrevVehicles(o, v) <=> v \notin PrevVehicles(o, u))
<1> DEFINE n == Cardinality(Vehicle)
<1>1. IsFiniteSet(Vehicle) /\ n \in Nat
  BY FS_CardinalityType DEF Fleet
<1>2. o \in [1 .. n -> Vehicle] /\ \A i, j \in 1 .. n : o[i] = o[j] => i = j
  BY DEF Order
<1>3. o \in Seq(Vehicle) /\ Len(o) = n /\ DOMAIN o = 1 .. n
  BY <1>1, <1>2
<1>4. \A v \in Vehicle : \E i \in 1 .. n : o[i] = v
  <2>1. o \in Injection(1 .. n, Vehicle)
    BY <1>2 DEF Injection, IsInjective
  <2>2. Cardinality(1 .. n) = n
    <3>1. 1 \in Int /\ n \in Int
      BY <1>1
    <3>2. Cardinality(1 .. n) = IF 1 > n THEN 0 ELSE n - 1 + 1
      BY <3>1, FS_Interval
    <3> QED BY <3>2, <1>1
  <2>3. o \in Surjection(1 .. n, Vehicle)
    BY <2>1, <2>2, <1>1, FS_Injection
  <2> QED BY <2>3 DEF Surjection
<1>5. \A v \in Vehicle : Position(o, v) \in 1 .. n /\ o[Position(o, v)] = v
  BY <1>3, <1>4 DEF Position
<1>6. \A v \in Vehicle : Position(o, v) \in Int
  BY <1>5
<1>7. \A u, v \in Vehicle : u \in PrevVehicles(o, v) <=> Position(o, u) < Position(o, v)
  <2> SUFFICES ASSUME NEW u \in Vehicle, NEW v \in Vehicle
               PROVE  u \in PrevVehicles(o, v) <=> Position(o, u) < Position(o, v)
    OBVIOUS
  <2>1. PICK a : a = Position(o, u)
    OBVIOUS
  <2>2. PICK b : b = Position(o, v)
    OBVIOUS
  <2>3. a \in 1 .. n /\ b \in 1 .. n /\ o[a] = u
    BY <1>5, <2>1, <2>2
  <2>4. PrevVehicles(o, v) = {o[i] : i \in 1 .. b - 1}
    BY <2>2 DEF PrevVehicles
  <2>5. (\E i \in 1 .. b - 1 : o[i] = u) <=> a < b
    BY <2>3, <1>2, <1>1
  <2> QED BY <2>1, <2>2, <2>4, <2>5
<1>8. \A u, v \in Vehicle : u \in IgnoredVehicles(o, v) <=> Position(o, u) > Position(o, v)
  <2> SUFFICES ASSUME NEW u \in Vehicle, NEW v \in Vehicle
               PROVE  u \in IgnoredVehicles(o, v) <=> Position(o, u) > Position(o, v)
    OBVIOUS
  <2>1. PICK a : a = Position(o, u)
    OBVIOUS
  <2>2. PICK b : b = Position(o, v)
    OBVIOUS
  <2>3. a \in 1 .. n /\ b \in 1 .. n /\ o[a] = u
    BY <1>5, <2>1, <2>2
  <2>4. IgnoredVehicles(o, v) = {o[i] : i \in b + 1 .. n}
    BY <2>2, <1>3 DEF IgnoredVehicles
  <2>5. (\E i \in b + 1 .. n : o[i] = u) <=> a > b
    BY <2>3, <1>2, <1>1
  <2> QED BY <2>1, <2>2, <2>4, <2>5
<1>9. \A v \in Vehicle : PrevVehicles(o, v) \subseteq Vehicle /\ IgnoredVehicles(o, v) \subseteq Vehicle
  <2> TAKE v \in Vehicle
  <2>1. PICK b : b = Position(o, v)
    OBVIOUS
  <2>2. b \in 1 .. n
    BY <1>5, <2>1
  <2>3. (\A i \in 1 .. b - 1 : o[i] \in Vehicle) /\ (\A i \in b + 1 .. n : o[i] \in Vehicle)
    BY <1>2, <2>2, <1>1
  <2> QED BY <2>1, <2>3, <1>3 DEF PrevVehicles, IgnoredVehicles
<1>10. \A u, v \in Vehicle : Position(o, u) = Position(o, v) => u = v
  BY <1>5
<1>11. \A u, v \in Vehicle :
         u # v => (u \in PrevVehicles(o, v) <=> v \notin PrevVehicles(o, u))
  BY <1>6, <1>7, <1>10
<1>12. ASSUME NEW v \in Vehicle
       PROVE  /\ PrevVehicles(o, v) \subseteq Vehicle \ {v}
              /\ IgnoredVehicles(o, v) = Vehicle \ (PrevVehicles(o, v) \cup {v})
  <2>1. \A u \in Vehicle : (u \in PrevVehicles(o, v) => u # v)
                           /\ (u \in IgnoredVehicles(o, v) <=> u \notin PrevVehicles(o, v) /\ u # v)
    BY <1>6, <1>7, <1>8, <1>10
  <2> QED BY <2>1, <1>9
<1> QED BY <1>3, <1>5, <1>11, <1>12

(* A message goes to everybody else, at the end of what is on its way.     *)
LEMMA Published ==
  ASSUME Type, NEW t \in Topic, NEW m \in MessageOf(t), m.from \in Vehicle, Publish(t, m)
  PROVE  /\ channel' \in [Topic -> [Vehicle -> Seq(Message)]]
         /\ \A x \in Topic : \A u \in Vehicle : channel'[x][u] \in Seq(MessageOf(x))
         /\ Foreign(channel')
         /\ \A u \in Vehicle : channel'[t][u] =
              IF u = m.from THEN channel[t][u] ELSE Append(channel[t][u], m)
         /\ \A x \in Topic \ {t} : channel'[x] = channel[x]
<1>1. m \in Message
  BY DEF MessageOf, PlannedPath, Message, Topic
<1>2. channel' = [channel EXCEPT ![t] =
        [u \in Vehicle |-> IF u = m.from THEN channel[t][u] ELSE Append(channel[t][u], m)]]
  BY DEF Publish, Type
<1>3. \A u \in Vehicle : channel[t][u] \in Seq(Message) /\ Append(channel[t][u], m) \in Seq(Message)
  BY <1>1 DEF Type
<1>4. \A u \in Vehicle : channel[t][u] \in Seq(MessageOf(t)) /\ Append(channel[t][u], m) \in Seq(MessageOf(t))
  BY DEF Type
<1>5. channel'[t] = [u \in Vehicle |-> IF u = m.from THEN channel[t][u] ELSE Append(channel[t][u], m)]
  BY <1>2 DEF Type
<1>6. \A x \in Topic \ {t} : channel'[x] = channel[x]
  BY <1>2 DEF Type
<1>7. channel'[t] \in [Vehicle -> Seq(Message)]
  BY <1>3, <1>5
<1>8. channel' \in [Topic -> [Vehicle -> Seq(Message)]]
  BY <1>2, <1>3 DEF Type
<1>9. \A x \in Topic : \A u \in Vehicle : channel'[x][u] \in Seq(MessageOf(x))
  BY <1>4, <1>5, <1>6 DEF Type
<1>10. Foreign(channel')
  <2>1. ASSUME NEW u \in Vehicle \ {m.from}
        PROVE  Others(u, Append(channel[t][u], m))
    <3>1. Others(u, channel[t][u]) /\ channel[t][u] \in Seq(MessageOf(t))
      BY DEF Type, Foreign
    <3>2. PICK s, e : s = channel[t][u] /\ e = Append(s, m)
      OBVIOUS
    <3>3. /\ e[Len(s) + 1] = m /\ \A i \in 1 .. Len(s) : e[i] = s[i]
          /\ \A i \in 1 .. Len(e) : i \in 1 .. Len(s) \/ i = Len(s) + 1
      BY <3>1, <3>2
    <3>4. Others(u, e)
      BY <2>1, <3>1, <3>2, <3>3 DEF Others
    <3> QED BY <3>2, <3>4
  <2>2. \A u \in Vehicle : channel'[t][u] = IF u = m.from THEN channel[t][u] ELSE Append(channel[t][u], m)
    BY <1>5
  <2>3. \A x \in Topic : \A u \in Vehicle : Others(u, channel[x][u])
    BY DEF Type, Foreign
  <2>4. \A u \in Vehicle : Others(u, channel'[t][u])
    BY <2>1, <2>2, <2>3
  <2>5. \A x \in Topic : \A u \in Vehicle : Others(u, channel'[x][u])
    BY <1>6, <2>3, <2>4
  <2> QED BY <2>5 DEF Foreign
<1> QED BY <1>5, <1>6, <1>8, <1>9, <1>10

(* What is left when the first k messages have been taken.                 *)
Rest(s, k, r) == /\ Len(r) = Len(s) - k
                 /\ \A i \in 1 .. Len(r) : r[i] = s[k + i]

LEMMA Prefix ==
  ASSUME NEW n \in Nat, NEW arrived \in SUBSET (1 .. n), arrived # {},
         \A i \in arrived : \A j \in 1 .. i : j \in arrived
  PROVE  \E k \in 1 .. n : arrived = 1 .. k
<1>1. Max(arrived) \in arrived /\ \A i \in arrived : i <= Max(arrived)
  BY Greatest
<1>2. PICK k \in arrived : \A i \in arrived : i <= k
  BY <1>1
<1>3. \A i \in arrived : i \in 1 .. k
  BY <1>2
<1>4. \A j \in 1 .. k : j \in arrived
  BY <1>2
<1> QED BY <1>2, <1>3, <1>4

(* The elements behind the first k are counted on from k.                  *)
LEMMA Counting ==
  ASSUME NEW n \in Nat, NEW k \in 1 .. n, NEW kept, kept = k + 1 .. n
  PROVE  /\ Cardinality(kept) = n - k
         /\ \A j \in 1 .. n - k : k + j = Nth(kept, j)
<1>1. \A a, b \in Int : Cardinality(a .. b) = IF a > b THEN 0 ELSE b - a + 1
  BY FS_Interval
<1>2. Cardinality(k + 1 .. n) = n - k
  <2>1. Cardinality(k + 1 .. n) = IF k + 1 > n THEN 0 ELSE n - (k + 1) + 1
    BY <1>1
  <2> QED BY <2>1
<1>3. ASSUME NEW i \in kept
      PROVE  Cardinality({x \in kept : x <= i}) = i - k
  <2>1. {x \in kept : x <= i} = k + 1 .. i
    OBVIOUS
  <2>2. Cardinality(k + 1 .. i) = IF k + 1 > i THEN 0 ELSE i - (k + 1) + 1
    BY <1>1
  <2>3. Cardinality(k + 1 .. i) = i - k
    BY <2>2
  <2> QED BY <2>1, <2>3, Zenon
<1>4. ASSUME NEW j \in 1 .. n - k
      PROVE  k + j = Nth(kept, j)
  <2>1. k + j \in kept
    OBVIOUS
  <2>2. \A i \in kept : (Cardinality({x \in kept : x <= i}) = j) <=> (i = k + j)
    BY <1>3
  <2> QED BY <2>1, <2>2 DEF Nth
<1> QED BY <1>2, <1>4

(* What has arrived is the beginning of what was sent.                     *)
LEMMA Removed ==
  ASSUME Fleet, Type, NEW t \in Topic, NEW v \in Vehicle,
         NEW arrived \in Arrival(t, v), Remove(t, v, arrived)
  PROVE  /\ channel' \in [Topic -> [Vehicle -> Seq(Message)]]
         /\ \A x \in Topic : \A u \in Vehicle : channel'[x][u] \in Seq(MessageOf(x))
         /\ Foreign(channel')
         /\ \A x \in Topic : \A u \in Vehicle : x # t \/ u # v => channel'[x][u] = channel[x][u]
         /\ \E k \in 1 .. Len(channel[t][v]) :
              arrived = 1 .. k /\ Rest(channel[t][v], k, channel'[t][v])
<1> DEFINE s == channel[t][v]
           kept == DOMAIN s \ arrived
<1>1. channel' = [channel EXCEPT ![t][v] = [j \in 1 .. Cardinality(kept) |-> s[Nth(kept, j)]]]
  BY Zenon DEF Remove
<1>2. PICK n : n = Len(s)
  OBVIOUS
<1>3. s \in Seq(MessageOf(t)) /\ s \in Seq(Message) /\ n \in Nat /\ DOMAIN s = 1 .. n
  BY <1>2 DEF Type
<1>4. arrived \subseteq 1 .. n /\ arrived # {} /\ \A i \in arrived : \A j \in 1 .. i : j \in arrived
  BY <1>3 DEF Arrival, Fleet
<1>5. PICK k \in 1 .. n : arrived = 1 .. k
  BY <1>3, <1>4, Prefix
<1>6. kept = k + 1 .. n
  BY <1>3, <1>5
<1>7. n \in Nat
  BY <1>3
<1> HIDE DEF s, kept
<1>8. Cardinality(kept) = n - k /\ \A j \in 1 .. n - k : k + j = Nth(kept, j)
  BY <1>6, <1>7, Counting, Zenon
<1>9. PICK left : left = [j \in 1 .. n - k |-> s[k + j]]
  OBVIOUS
<1>10. left = [j \in 1 .. Cardinality(kept) |-> s[Nth(kept, j)]]
  BY <1>8, <1>9
<1>11. channel' = [channel EXCEPT ![t][v] = left]
  BY <1>1, <1>10, Zenon
<1>12. \A j \in 1 .. n - k : k + j \in 1 .. n
  BY <1>3
<1>13. left \in Seq(MessageOf(t)) /\ left \in Seq(Message) /\ Len(left) = n - k
  <2>1. \A j \in 1 .. n - k : s[k + j] \in MessageOf(t) /\ s[k + j] \in Message
    BY <1>2, <1>3, <1>12
  <2>2. n - k \in Nat
    BY <1>3
  <2> QED BY <1>9, <2>1, <2>2
<1>14. channel'[t] = [channel[t] EXCEPT ![v] = left] /\ \A x \in Topic \ {t} : channel'[x] = channel[x]
  BY <1>11 DEF Type
<1>15. \A u \in Vehicle : channel'[t][u] = IF u = v THEN left ELSE channel[t][u]
  BY <1>14 DEF Type
<1>16. channel' \in [Topic -> [Vehicle -> Seq(Message)]]
  BY <1>11, <1>13 DEF Type
<1>17. \A x \in Topic : \A u \in Vehicle : channel'[x][u] \in Seq(MessageOf(x))
  BY <1>13, <1>14, <1>15 DEF Type
<1>18. \A x \in Topic : \A u \in Vehicle : x # t \/ u # v => channel'[x][u] = channel[x][u]
  BY <1>14, <1>15
<1>19. Rest(s, k, left)
  BY <1>2, <1>3, <1>9, <1>13 DEF Rest
<1>20. Foreign(channel')
  <2>1. Others(v, s)
    BY DEF Type, Foreign, s
  <2>2. \A i \in 1 .. Len(left) : k + i \in 1 .. Len(s) /\ left[i] = s[k + i]
    BY <1>2, <1>3, <1>9, <1>12, <1>13
  <2>3. Others(v, left)
    BY <2>1, <2>2 DEF Others
  <2>4. \A x \in Topic : \A u \in Vehicle : Others(u, channel'[x][u])
    BY <1>15, <1>18, <2>3 DEF Type, Foreign
  <2> QED BY <2>4 DEF Foreign
<1> QED BY <1>2, <1>5, <1>15, <1>16, <1>17, <1>18, <1>19, <1>20 DEF s

-----------------------------------------------------------------------------
(* Levels                                                                  *)

LEMMA Levels ==
  ASSUME NEW M \in {"id", "random", "vertex_ordering"},
         NEW G, NEW v, NEW p, Local(M, G, v, p), p.stage \in {"new", "old", "last"}
  PROVE  /\ Level(p) \in 0 .. 11 /\ RoundLevel(p) \in {4, 7, 10}
         /\ Planning(p) <=> Level(p) = RoundLevel(p)
         /\ Level(p) < 4 => RoundLevel(p) = 4
         /\ Level(p) >= 4 => Level(p) >= RoundLevel(p)
         /\ Over(p) => Level(p) >= 5
         /\ RoundLevel(p) = 4 => Level(p) <= 6 \/ (Level(p) = 11 /\ M = "random" /\ Good(p))
         /\ RoundLevel(p) = 7 => Level(p) \in 7 .. 9 /\ M = "vertex_ordering"
         /\ RoundLevel(p) = 10 => Level(p) \in {10, 11}
         /\ M = "id" => Level(p) = 0 \/ RoundLevel(p) = 10
         /\ p.pc = "sync" <=> Level(p) \in {3, 6, 9}
         /\ p.pc = "done" <=> Level(p) = 11
<1>1. CASE p.pc \in {"begin", "write fca", "read fca", "optimal"}
  <2>1. p.stage = "new" /\ (M = "id" => p.pc = "begin")
    BY <1>1 DEF Local, Control, Waits, Plannings
  <2>2. RoundLevel(p) = 4
    BY <2>1 DEF RoundLevel
  <2>3. Level(p) \in {0, 1, 2} /\ (p.pc = "begin" => Level(p) = 0)
    BY <1>1 DEF Level
  <2>4. p.pc \notin {"prev", "ignored", "sync", "done"}
    BY <1>1
  <2>5. Level(p) \in 0 .. 2 /\ (M = "id" => Level(p) = 0)
    BY <2>1, <2>3
  <2>6. ~Planning(p) /\ ~Over(p)
    BY <2>2, <2>4, <2>5 DEF Planning, Over
  <2> QED BY <2>2, <2>4, <2>5, <2>6
<1>2. CASE p.pc \in {"announce", "sync"}
  <2>1. M # "id" /\ p.sync_id \in {5, 3, 4} /\ p.stage = (IF p.sync_id = 4 THEN "old" ELSE "new")
    BY <1>2 DEF Local, Control, Waits, Plannings
  <2>2. p.stage = "old" => M = "vertex_ordering"
    BY DEF Local, Control, Waits, Plannings
  <2>3. /\ RoundLevel(p) = IF p.sync_id = 4 THEN 7 ELSE 4
        /\ Level(p) = IF p.pc = "announce" THEN (IF p.sync_id = 5 THEN 2 ELSE IF p.sync_id = 3 THEN 5 ELSE 8)
                                           ELSE (IF p.sync_id = 5 THEN 3 ELSE IF p.sync_id = 3 THEN 6 ELSE 9)
    BY <1>2, <2>1 DEF Level, RoundLevel
  <2>4. ~Planning(p)
    BY <1>2 DEF Planning
  <2> QED BY <1>2, <2>1, <2>2, <2>3, <2>4 DEF Over
<1>3. CASE p.pc \in {"prev", "ignored"}
  <2>1. Level(p) = RoundLevel(p) /\ RoundLevel(p) \in {4, 7, 10} /\ Planning(p)
    BY <1>3 DEF Level, RoundLevel, Planning
  <2>2. /\ M = "id" => p.stage = "last"
        /\ p.stage = "old" => M = "vertex_ordering"
    BY <1>3 DEF Local, Control, Waits, Plannings
  <2>3. (M = "id" => RoundLevel(p) = 10) /\ (RoundLevel(p) = 7 => M = "vertex_ordering")
    BY <2>2 DEF RoundLevel
  <2> QED BY <1>3, <2>1, <2>3 DEF Over
<1>4. CASE p.pc = "done"
  <2>1. Level(p) = 11 /\ ~Planning(p)
    BY <1>4 DEF Level, Planning
  <2>2. /\ p.stage \in {"new", "last"} /\ (p.stage = "new" => p.follows > 0)
        /\ M = "id" => p.stage = "last"
        /\ M = "vertex_ordering" => p.stage = "last"
    BY <1>4 DEF Local, Control, Waits, Plannings
  <2>3. RoundLevel(p) = IF p.stage = "new" THEN 4 ELSE 10
    BY <2>2 DEF RoundLevel
  <2>4. RoundLevel(p) = 4 => Good(p) /\ M # "id" /\ M # "vertex_ordering"
    BY <1>4, <2>2, <2>3 DEF Good
  <2> QED BY <1>4, <2>1, <2>2, <2>3, <2>4 DEF Over
<1> QED BY <1>1, <1>2, <1>3, <1>4 DEF Local, Control, Waits, Plannings

(* Two planners in their time step, and what each knows of the other.      *)
Both(M, G, v, u, p, q) ==
  /\ M \in {"id", "random", "vertex_ordering"} /\ G \in Order
  /\ v \in Vehicle /\ u \in Vehicle /\ u # v /\ p \in Planner /\ q \in Planner
  /\ Local(M, G, v, p) /\ Local(M, G, u, q)
  /\ Barriers(M, G, p, q) /\ Barriers(M, G, q, p)
  /\ Known(M, v, u, p, q) /\ Known(M, u, v, q, p)

(* In the same round one of two is before the other.                       *)
LEMMA OneBefore ==
  ASSUME Fleet, NEW M, NEW G \in Order, NEW v \in Vehicle, NEW u \in Vehicle, u # v,
         NEW p \in Planner, NEW q \in Planner, Local(M, G, v, p), Local(M, G, u, q),
         Barriers(M, G, p, q), Level(p) >= 4, Level(q) >= 4, RoundLevel(p) = RoundLevel(q),
         M \in {"id", "random", "vertex_ordering"},
         M = "random" /\ p.stage = "new" => (u \in Prev(v, p) <=> Before(u, q, v, p)),
         M = "random" /\ q.stage = "new" => (v \in Prev(u, q) <=> Before(v, p, u, q))
  PROVE  u \in Prev(v, p) <=> v \notin Prev(u, q)
<1>1. /\ p.stage \in {"new", "old", "last"} /\ q.stage \in {"new", "old", "last"}
      /\ p.prio_vec \in Order /\ q.prio_vec \in Order
      /\ p.own_fca \in Nat /\ q.own_fca \in Nat /\ u \in Nat /\ v \in Nat
  BY DEF Planner, Fleet
<1>2. /\ Level(p) \in 0 .. 11 /\ Level(q) \in 0 .. 11
      /\ RoundLevel(p) = 10 => Level(p) \in {10, 11}
      /\ RoundLevel(q) = 10 => Level(q) \in {10, 11}
      /\ M = "id" => (Level(p) = 0 \/ RoundLevel(p) = 10)
  BY <1>1, Levels
<1>3. p.stage = q.stage
  BY <1>1 DEF RoundLevel
<1>4. CASE M = "random" /\ p.stage = "new"
  <2>1. Before(u, q, v, p) <=> ~Before(v, p, u, q)
    BY <1>1 DEF Before
  <2> QED BY <1>3, <1>4, <2>1
<1>5. CASE ~(M = "random" /\ p.stage = "new")
  <2>1. p.prio_vec = q.prio_vec
    <3>1. CASE p.stage = "new"
      <4>1. M # "id"
        BY <3>1, <1>2 DEF RoundLevel
      <4>2. M = "vertex_ordering"
        BY <3>1, <4>1, <1>5
      <4> QED BY <3>1, <4>2, <1>3 DEF Local, Control, Waits, Plannings
    <3>2. CASE p.stage = "old"
      BY <3>2, <1>3 DEF Local, Control, Waits, Plannings, Barriers
    <3>3. CASE p.stage = "last" /\ M = "vertex_ordering"
      <4>1. Level(p) >= 10 /\ Level(q) >= 10
        BY <3>3, <1>2, <1>3 DEF RoundLevel
      <4> QED BY <4>1, <3>3 DEF Barriers
    <3>4. CASE p.stage = "last" /\ M # "vertex_ordering"
      BY <3>4, <1>3 DEF Local, Control, Waits, Plannings, Barriers
    <3> QED BY <1>1, <3>1, <3>2, <3>3, <3>4
  <2>2. u \in PrevVehicles(p.prio_vec, v) <=> v \notin PrevVehicles(p.prio_vec, u)
    BY <1>1, Permuted
  <2> QED BY <2>1, <2>2 DEF Prev
<1> QED BY <1>4, <1>5

(* Nobody is a round ahead of one who still plans.                         *)
LEMMA NotAhead ==
  ASSUME NEW M, NEW G, NEW v, NEW u, NEW p, NEW q, Both(M, G, v, u, p, q),
         Planning(p), Level(p) <= RoundLevel(q), Level(q) >= 4
  PROVE  RoundLevel(q) = Level(p)
<1>1. p.stage \in {"new", "old", "last"} /\ q.stage \in {"new", "old", "last"}
  BY DEF Both, Planner
<1>2. /\ Level(p) \in 0 .. 11 /\ Level(q) \in 0 .. 11
      /\ RoundLevel(p) \in {4, 7, 10} /\ RoundLevel(q) \in {4, 7, 10}
      /\ Level(p) = RoundLevel(p) /\ Level(q) >= RoundLevel(q)
      /\ RoundLevel(p) = 7 => M = "vertex_ordering"
      /\ M = "id" => Level(p) = 0 \/ RoundLevel(p) = 10
  BY <1>1, Levels DEF Both
<1>3. /\ M # "id" /\ Level(q) >= 7 => Level(p) >= 6
      /\ M = "vertex_ordering" /\ Level(q) >= 10 => Level(p) \notin {7, 8}
  BY DEF Both, Barriers
<1> QED BY <1>2, <1>3

(* One who has ended a round that another has still to end is not in a     *)
(* round before that of a third who plans.                                 *)
LEMMA NotBehind ==
  ASSUME NEW M, NEW G, NEW v, NEW u, NEW w, NEW p, NEW q, NEW o,
         Both(M, G, v, u, p, q), Both(M, G, v, w, p, o), Both(M, G, u, w, q, o),
         Planning(p), Over(o), Level(q) <= RoundLevel(o)
  PROVE  RoundLevel(o) = Level(p)
<1>1. /\ p.stage \in {"new", "old", "last"} /\ q.stage \in {"new", "old", "last"}
      /\ o.stage \in {"new", "old", "last"}
  BY DEF Both, Planner
<1>2. /\ Level(p) \in 0 .. 11 /\ Level(q) \in 0 .. 11 /\ Level(o) \in 5 .. 11
      /\ RoundLevel(p) \in {4, 7, 10} /\ RoundLevel(q) \in {4, 7, 10} /\ RoundLevel(o) \in {4, 7, 10}
      /\ Level(p) = RoundLevel(p)
      /\ M = "id" => Level(p) = 0 \/ RoundLevel(p) = 10
      /\ M = "id" => Level(o) = 0 \/ RoundLevel(o) = 10
      /\ RoundLevel(p) = 7 => M = "vertex_ordering"
      /\ RoundLevel(o) = 7 => Level(o) \in 7 .. 9 /\ M = "vertex_ordering"
      /\ RoundLevel(o) = 10 => Level(o) \in {10, 11}
  BY <1>1, Levels DEF Both
<1>3. CASE Level(p) <= RoundLevel(o)
  BY <1>2, <1>3, NotAhead
<1>4. CASE Level(p) > RoundLevel(o)
  <2>1. M # "id" /\ Level(p) >= 7
    BY <1>2, <1>4
  <2>2. Level(q) >= 6 /\ Level(o) >= 6
    BY <2>1 DEF Both, Barriers
  <2>3. RoundLevel(o) = 7 /\ Level(p) = 10 /\ M = "vertex_ordering" /\ Level(q) \in {6, 7}
    BY <1>2, <1>4, <2>2
  <2>4. Level(q) \notin {7, 8} /\ Level(o) \notin {7, 8}
    BY <2>3 DEF Both, Barriers
  <2>5. Level(q) = 6 /\ Level(o) = 9
    BY <1>2, <2>3, <2>4
  <2>6. Good(q) /\ ~Good(q)
    BY <2>3, <2>5 DEF Both, Barriers
  <2> QED BY <2>6
<1> QED BY <1>2, <1>3, <1>4

-----------------------------------------------------------------------------
(* Steps of one of two planners                                            *)

(* One that reads stays where it is ...                                    *)
Stays(p, r) ==
  /\ r.pc = p.pc /\ r.stage = p.stage /\ r.sync_id = p.sync_id
  /\ r.prio_vec = p.prio_vec /\ r.old_prio_vec = p.old_prio_vec
  /\ r.wait = p.wait /\ r.plan = p.plan /\ r.own_fca = p.own_fca /\ r.follows = p.follows

(* ... and hears nothing new of a round that is over.                      *)
Still(p, r) == Stays(p, r) /\ (Level(p) >= 4 => r.feasible = p.feasible)

LEMMA StaysLevel ==
  ASSUME NEW p, NEW r, Stays(p, r)
  PROVE  /\ Level(r) = Level(p) /\ RoundLevel(r) = RoundLevel(p)
         /\ Over(r) <=> Over(p)
         /\ Planning(r) <=> Planning(p)
         /\ \A v : Prev(v, r) = Prev(v, p)
         /\ \A u, q, v : (Before(u, q, v, r) <=> Before(u, q, v, p))
                         /\ (Before(v, r, u, q) <=> Before(v, p, u, q))
<1>1. Level(r) = Level(p)
  BY DEF Stays, Level, RoundLevel
<1>2. RoundLevel(r) = RoundLevel(p)
  BY DEF Stays, RoundLevel
<1>3. /\ \A v : Prev(v, r) = Prev(v, p)
      /\ \A u, q, v : (Before(u, q, v, r) <=> Before(u, q, v, p))
                      /\ (Before(v, r, u, q) <=> Before(v, p, u, q))
  BY DEF Stays, Prev, Before
<1> QED BY <1>1, <1>2, <1>3 DEF Stays, Over, Planning

LEMMA StillLevel ==
  ASSUME NEW p, NEW r, Still(p, r)
  PROVE  /\ Level(r) = Level(p) /\ RoundLevel(r) = RoundLevel(p)
         /\ Over(r) <=> Over(p)
         /\ Planning(r) <=> Planning(p)
         /\ Level(p) >= 4 => (Good(r) <=> Good(p))
         /\ \A v : Prev(v, r) = Prev(v, p)
         /\ \A u, q, v : (Before(u, q, v, r) <=> Before(u, q, v, p))
                         /\ (Before(v, r, u, q) <=> Before(v, p, u, q))
<1>1. Level(p) >= 4 => (Good(r) <=> Good(p))
  BY DEF Still, Stays, Good
<1> QED BY <1>1, StaysLevel DEF Still

LEMMA StillSeen ==
  ASSUME NEW M \in {"id", "random", "vertex_ordering"}, NEW G, NEW v, NEW u, NEW p, NEW q, NEW r,
         p.stage \in {"new", "old", "last"}, q.stage \in {"new", "old", "last"},
         Local(M, G, v, p), Local(M, G, u, q), Still(p, r), NEW c, Pair(M, G, u, v, q, p, c)
  PROVE  Pair(M, G, u, v, q, r, c)
<1>1. /\ Level(r) = Level(p) /\ RoundLevel(r) = RoundLevel(p)
      /\ Over(r) <=> Over(p)
      /\ Planning(r) <=> Planning(p)
      /\ Level(p) >= 4 => (Good(r) <=> Good(p))
      /\ \A w : Prev(w, r) = Prev(w, p)
      /\ Before(v, r, u, q) <=> Before(v, p, u, q)
  BY StillLevel
<1>2. /\ r.pc = p.pc /\ r.stage = p.stage /\ r.prio_vec = p.prio_vec /\ r.old_prio_vec = p.old_prio_vec
      /\ r.plan = p.plan /\ r.own_fca = p.own_fca
  BY DEF Still, Stays
<1>3. /\ Level(p) \in 0 .. 11 /\ (Over(p) => Level(p) >= 5)
      /\ Level(q) \in 0 .. 11 /\ (Over(q) => Level(q) >= 5)
  BY Levels
<1>4. Barriers(M, G, q, r)
  BY <1>1, <1>2, <1>3 DEF Pair, Barriers
<1>5. Known(M, u, v, q, r)
  BY <1>1, <1>2, <1>3 DEF Pair, Known
<1>6. Trajectories(M, u, v, q, r, c["trajectory"])
  BY <1>1, <1>2, <1>3 DEF Pair, Trajectories, Finals, Optimals
<1>7. Outcome(q, r, c["trajectory"])
  BY <1>1, <1>2, <1>3 DEF Pair, Outcome
<1>8. Syncs(v, q, r, c["sync"])
  BY <1>1, <1>2, <1>3 DEF Pair, Syncs, Synced
<1>9. Fcas(v, r, c["fca"])
  BY <1>1, <1>2 DEF Pair, Fcas
<1> QED BY <1>4, <1>5, <1>6, <1>7, <1>8, <1>9 DEF Pair

LEMMA StillSees ==
  ASSUME NEW M \in {"id", "random", "vertex_ordering"}, NEW G, NEW v, NEW u, NEW p, NEW q, NEW r,
         p.stage \in {"new", "old", "last"}, q.stage \in {"new", "old", "last"},
         Local(M, G, v, p), Local(M, G, u, q), Still(p, r), NEW c, Pair(M, G, v, u, p, q, c)
  PROVE  /\ Barriers(M, G, r, q)
         /\ \A s : Outcome(p, q, s) => Outcome(r, q, s)
<1>1. /\ Level(r) = Level(p) /\ RoundLevel(r) = RoundLevel(p)
      /\ Over(r) <=> Over(p)
      /\ Level(p) >= 4 => (Good(r) <=> Good(p))
  BY StillLevel
<1>2. /\ r.pc = p.pc /\ r.stage = p.stage /\ r.prio_vec = p.prio_vec /\ r.old_prio_vec = p.old_prio_vec
  BY DEF Still, Stays
<1>3. /\ Level(p) \in 0 .. 11 /\ (Over(p) => Level(p) >= 5)
      /\ Level(q) \in 0 .. 11 /\ (Over(q) => Level(q) >= 5)
  BY Levels
<1>4. Barriers(M, G, r, q)
  BY <1>1, <1>2, <1>3 DEF Pair, Barriers
<1>7. \A s : Outcome(p, q, s) => Outcome(r, q, s)
  BY <1>1, <1>2, <1>3 DEF Outcome
<1> QED BY <1>4, <1>7

(* What a message of u to v says is so.                                    *)
Says(M, t, v, u, p, q, m) ==
  /\ t = "sync" => Synced(p, q, m)
  /\ t = "fca" => Level(q) >= 2 /\ m.fca = q.own_fca
  /\ t = "trajectory" => /\ m.type = "Final" => Finals(v, u, p, q, m)
                         /\ m.type = "Optimal" => Optimals(M, u, p, q, m)

(* One more message.                                                       *)
LEMMA PairAppended ==
  ASSUME NEW M, NEW G, NEW v, NEW u, NEW p, NEW q, NEW c, NEW e, NEW t \in Topic, NEW S, NEW m \in S,
         Pair(M, G, v, u, p, q, c), c[t] \in Seq(S), e[t] = Append(c[t], m),
         \A x \in Topic \ {t} : e[x] = c[x],
         m.from = u => Says(M, t, v, u, p, q, m),
         t = "trajectory" => Outcome(p, q, e["trajectory"])
  PROVE  Pair(M, G, v, u, p, q, e)
<1>1. /\ Len(e[t]) = Len(c[t]) + 1 /\ Len(c[t]) \in Nat
      /\ \A i \in 1 .. Len(c[t]) : e[t][i] = c[t][i]
      /\ e[t][Len(c[t]) + 1] = m
  OBVIOUS
<1>2. \A i \in 1 .. Len(e[t]) : i \in 1 .. Len(c[t]) \/ i = Len(c[t]) + 1
  BY <1>1
<1>3. Barriers(M, G, p, q) /\ Known(M, v, u, p, q)
  BY DEF Pair
<1>4. Trajectories(M, v, u, p, q, e["trajectory"]) /\ Outcome(p, q, e["trajectory"])
  <2>1. CASE t = "trajectory"
    BY <1>1, <1>2, <2>1 DEF Pair, Trajectories, Says
  <2>2. CASE t # "trajectory"
    BY <2>2 DEF Pair, Topic
  <2> QED BY <2>1, <2>2
<1>5. Syncs(u, p, q, e["sync"])
  <2>1. CASE t = "sync"
    BY <1>1, <1>2, <2>1 DEF Pair, Syncs, Says
  <2>2. CASE t # "sync"
    BY <2>2 DEF Pair, Topic
  <2> QED BY <2>1, <2>2
<1>6. Fcas(u, q, e["fca"])
  <2>1. CASE t = "fca"
    BY <1>1, <1>2, <2>1 DEF Pair, Fcas, Says
  <2>2. CASE t # "fca"
    BY <2>2 DEF Pair, Topic
  <2> QED BY <2>1, <2>2
<1> QED BY <1>3, <1>4, <1>5, <1>6 DEF Pair

(* Fewer messages.                                                         *)
LEMMA FewerMessages ==
  ASSUME NEW M, NEW v, NEW u, NEW p, NEW q, NEW S, NEW s \in Seq(S), NEW r \in Seq(S),
         NEW k \in 1 .. Len(s), Rest(s, k, r)
  PROVE  /\ Trajectories(M, v, u, p, q, s) => Trajectories(M, v, u, p, q, r)
         /\ Syncs(u, p, q, s) => Syncs(u, p, q, r)
         /\ Fcas(u, q, s) => Fcas(u, q, r)
         /\ Queue(v, s) => Queue(v, r)
         /\ Len(r) = 0 \/ r[Len(r)] = s[Len(s)]
<1>1. /\ Len(s) \in Nat /\ Len(r) = Len(s) - k /\ Len(r) \in Nat
      /\ \A i \in 1 .. Len(r) : k + i \in 1 .. Len(s) /\ r[i] = s[k + i]
  BY DEF Rest
<1>2. \A i, j \in 1 .. Len(r) : i # j => k + i # k + j
  BY <1>1
<1>3. \A i \in 1 .. Len(r) : k + i = Len(s) => i = Len(r)
  BY <1>1
<1>4. Trajectories(M, v, u, p, q, s) => Trajectories(M, v, u, p, q, r)
  BY <1>1 DEF Trajectories
<1>5. Syncs(u, p, q, s) => Syncs(u, p, q, r)
  BY <1>1 DEF Syncs
<1>6. Fcas(u, q, s) => Fcas(u, q, r)
  BY <1>1 DEF Fcas
<1>7. Queue(v, s) => Queue(v, r)
  <2> SUFFICES ASSUME Queue(v, s) PROVE Queue(v, r)
    OBVIOUS
  <2>1. ASSUME NEW i \in 1 .. Len(r), NEW j \in 1 .. Len(r), i # j
        PROVE  r[i].from # r[j].from
    <3>1. k + i \in 1 .. Len(s) /\ k + j \in 1 .. Len(s) /\ k + i # k + j
      BY <1>1, <2>1
    <3> QED BY <3>1, <1>1 DEF Queue
  <2>2. \A i \in 1 .. Len(r) : r[i].from # v
    BY <1>1 DEF Queue
  <2>3. ASSUME NEW i \in 1 .. Len(r), r[i].has_collisions = TRUE
        PROVE  i = Len(r)
    <3>1. k + i = Len(s)
      BY <1>1, <2>3 DEF Queue
    <3> QED BY <3>1, <1>3
  <2> QED BY <2>1, <2>2, <2>3 DEF Queue
<1>8. Len(r) = 0 \/ r[Len(r)] = s[Len(s)]
  BY <1>1
<1> QED BY <1>4, <1>5, <1>6, <1>7, <1>8

(* Before the first round nothing is decided.                              *)
Prepares(M, v, u, p, r) ==
  /\ r.stage = "new" /\ r.old_prio_vec = p.old_prio_vec
  /\ Level(p) <= Level(r) /\ Level(r) \in 1 .. 3
  /\ Level(p) >= 2 => r.own_fca = p.own_fca
  /\ r.pc \in {"read fca", "announce", "sync", "optimal"} => u \notin r.received_messages
  /\ M = "vertex_ordering" /\ Level(r) >= 2 =>
       Level(p) >= 2 \/ (p.pc = "optimal" /\ u \in p.received_messages)

LEMMA Early ==
  ASSUME NEW M \in {"id", "random", "vertex_ordering"}, NEW G, NEW v, NEW u, u # v,
         NEW p, NEW q, NEW r, NEW c, NEW d,
         p.stage \in {"new", "old", "last"}, q.stage \in {"new", "old", "last"},
         Local(M, G, v, p), Local(M, G, u, q), Local(M, G, v, r),
         Pair(M, G, v, u, p, q, c), Pair(M, G, u, v, q, p, d),
         Prepares(M, v, u, p, r)
  PROVE  Pair(M, G, v, u, r, q, c) /\ Pair(M, G, u, v, q, r, d)
<1>a. Level(p) <= Level(r) /\ Level(r) \in 1 .. 3 /\ r.stage = "new" /\ r.old_prio_vec = p.old_prio_vec
  BY DEF Prepares
<1>b. /\ Level(p) \in 0 .. 11 /\ (Level(p) < 4 => RoundLevel(p) = 4) /\ (Planning(p) <=> Level(p) = RoundLevel(p))
      /\ r.pc = "sync" <=> Level(r) \in {3, 6, 9}
  BY Levels, <1>a
<1>c. /\ Level(q) \in 0 .. 11 /\ RoundLevel(q) \in {4, 7, 10} /\ (Over(q) => Level(q) >= 5)
      /\ (Planning(q) <=> Level(q) = RoundLevel(q))
      /\ q.pc = "sync" <=> Level(q) \in {3, 6, 9}
  BY Levels
<1>d. RoundLevel(r) = 4 /\ ~Over(r) /\ ~Planning(r)
  <2>1. RoundLevel(r) = 4
    BY <1>a DEF RoundLevel
  <2>2. Planning(r) <=> Level(r) = RoundLevel(r)
    BY Levels, <1>a
  <2> QED BY <1>a, <2>1, <2>2 DEF Over
<1>e. RoundLevel(p) = 4 /\ Level(p) \in 0 .. 3 /\ ~Over(p) /\ ~Planning(p)
  BY <1>a, <1>b DEF Over
<1>2. Barriers(M, G, r, q)
  <2>1. M = "vertex_ordering" /\ Level(r) >= 2 => Level(q) >= 1
    <3>1. M = "vertex_ordering" /\ Level(p) >= 2 => Level(q) >= 1
      BY DEF Pair, Barriers
    <3>2. p.pc = "optimal" /\ u \in p.received_messages => Level(q) >= 1
      BY DEF Pair, Known
    <3> QED BY <3>1, <3>2 DEF Prepares
  <2>2. r.old_prio_vec = q.old_prio_vec
    BY <1>a DEF Pair, Barriers
  <2> QED BY <1>a, <1>d, <2>1, <2>2 DEF Barriers
<1>3. Barriers(M, G, q, r)
  <2>1. q.old_prio_vec = r.old_prio_vec
    BY <1>a DEF Pair, Barriers
  <2>2. /\ M = "random" /\ Level(q) >= 4 => Level(p) >= 2
        /\ M = "vertex_ordering" /\ Level(q) >= 4 => Level(p) >= 3
        /\ M # "id" /\ Level(q) >= 7 => Level(p) >= 6
    BY DEF Pair, Barriers
  <2> QED BY <1>a, <1>c, <1>d, <1>e, <2>1, <2>2 DEF Barriers
<1>4. Known(M, v, u, r, q)
  <2>1. r.pc \in {"read fca", "sync", "optimal"} => u \notin r.received_messages
    BY DEF Prepares
  <2>2. ~(Level(r) >= 4)
    BY <1>a
  <2> QED BY <1>d, <2>1, <2>2 DEF Known
<1>5. Known(M, u, v, q, r)
  <2>1. q.pc = "optimal" /\ v \in q.received_messages => Level(r) >= 1
    BY <1>a
  <2>2. q.pc = "read fca" /\ v \in q.received_messages => Level(r) >= 2 /\ q.fca[v] = r.own_fca
    <3>1. q.pc = "read fca" /\ v \in q.received_messages => Level(p) >= 2 /\ q.fca[v] = p.own_fca
      BY DEF Pair, Known
    <3>2. Level(p) >= 2 => r.own_fca = p.own_fca
      BY DEF Prepares
    <3>3. Level(p) >= 2 => Level(r) >= 2
      BY <1>a, <1>e
    <3> QED BY <3>1, <3>2, <3>3
  <2>3. q.pc = "sync" /\ v \in q.received_messages => Level(r) >= Level(q)
    <3>1. q.pc = "sync" /\ v \in q.received_messages => Level(p) >= Level(q)
      BY DEF Pair, Known
    <3> QED BY <3>1, <1>a, <1>c, <1>e
  <2>4. M = "random" /\ q.stage = "new" /\ Level(q) >= 4 => (v \in Prev(u, q) <=> Before(v, r, u, q))
    <3>1. M = "random" /\ Level(q) >= 4 => r.own_fca = p.own_fca
      <4>1. M = "random" /\ Level(q) >= 4 => Level(p) >= 2
        BY DEF Pair, Barriers
      <4> QED BY <4>1 DEF Prepares
    <3>2. M = "random" /\ q.stage = "new" /\ Level(q) >= 4 => (v \in Prev(u, q) <=> Before(v, p, u, q))
      BY DEF Pair, Known
    <3> QED BY <3>1, <3>2 DEF Before
  <2>5. ~(Planning(q) /\ HeardOf(u, v, q))
    <3>1. Planning(q) /\ HeardOf(u, v, q) => Level(p) >= 4
      BY DEF Pair, Known
    <3> QED BY <3>1, <1>e
  <2>6. ~(Level(r) >= 4)
    BY <1>a
  <2> QED BY <2>1, <2>2, <2>3, <2>4, <2>5, <2>6 DEF Known
<1>6. Trajectories(M, v, u, r, q, c["trajectory"])
  <2>1. ASSUME NEW m, Finals(v, u, p, q, m)
        PROVE  Finals(v, u, r, q, m)
    <3>1. /\ m.plan = q.plan /\ Level(q) >= 4 /\ q.pc # "prev" /\ v \notin Prev(u, q)
          /\ m.has_collisions = TRUE => Over(q) /\ ~Good(q)
      BY <1>c, <1>e, <2>1 DEF Finals
    <3> QED BY <1>a, <1>c, <3>1 DEF Finals
  <2>2. ASSUME NEW m, Optimals(M, u, p, q, m)
        PROVE  Optimals(M, u, r, q, m)
    <3>1. /\ M = "vertex_ordering" /\ Level(q) >= 1 /\ m.has_collisions = FALSE /\ Level(p) <= 1
          /\ p.pc = "optimal" => u \notin p.received_messages
      BY <2>2 DEF Optimals
    <3>2. ~(Level(r) >= 2)
      <4>1. M = "vertex_ordering" /\ Level(r) >= 2 =>
              Level(p) >= 2 \/ (p.pc = "optimal" /\ u \in p.received_messages)
        BY DEF Prepares
      <4>2. ~(Level(p) >= 2)
        BY <1>e, <3>1
      <4> QED BY <3>1, <4>1, <4>2
    <3>3. r.pc = "optimal" => u \notin r.received_messages
      BY DEF Prepares
    <3> QED BY <1>a, <3>1, <3>2, <3>3 DEF Optimals
  <2> QED BY <2>1, <2>2 DEF Pair, Trajectories
<1>7. Trajectories(M, u, v, q, r, d["trajectory"])
  <2>1. ASSUME NEW m, Finals(u, v, q, p, m)
        PROVE  FALSE
    BY <1>e, <2>1 DEF Finals
  <2>2. ASSUME NEW m, Optimals(M, v, q, p, m)
        PROVE  Optimals(M, v, q, r, m)
    BY <1>a, <2>2 DEF Optimals
  <2> QED BY <2>1, <2>2 DEF Pair, Trajectories
<1>8. Outcome(r, q, c["trajectory"])
  <2>1. /\ Over(q) /\ ~Good(q) /\ Level(p) <= RoundLevel(q) =>
             Len(c["trajectory"]) > 0 /\ c["trajectory"][Len(c["trajectory"])].has_collisions = TRUE
        /\ Over(q) /\ Good(q) => Level(p) > RoundLevel(q) \/ (Level(p) = RoundLevel(q) /\ p.pc # "prev")
    BY DEF Pair, Outcome
  <2>2. Level(p) <= RoundLevel(q) /\ ~(Over(q) /\ Good(q))
    BY <1>c, <1>e, <2>1
  <2> QED BY <2>1, <2>2 DEF Outcome
<1>9. Outcome(q, r, d["trajectory"])
  BY <1>d DEF Outcome
<1>10. Syncs(u, r, q, c["sync"])
  <2>1. ASSUME NEW m, Synced(p, q, m)
        PROVE  Synced(r, q, m)
    BY <1>a, <1>c, <1>e, <2>1 DEF Synced
  <2> QED BY <2>1 DEF Pair, Syncs
<1>11. Syncs(v, q, r, d["sync"])
  <2>1. ASSUME NEW m, Synced(q, p, m)
        PROVE  Synced(q, r, m)
    <3>1. m.sync_id # 3 /\ m.sync_id # 4
      BY <1>e, <2>1 DEF Synced
    <3>2. m.sync_id = 5 => Level(r) >= 3
      BY <1>a, <1>e, <2>1 DEF Synced
    <3> QED BY <3>1, <3>2 DEF Synced
  <2> QED BY <2>1 DEF Pair, Syncs
<1>12. Fcas(u, q, c["fca"]) /\ Fcas(v, r, d["fca"])
  <2>1. Level(p) >= 2 => r.own_fca = p.own_fca
    BY DEF Prepares
  <2>2. Level(p) >= 2 => Level(r) >= 2
    BY <1>a, <1>e
  <2> QED BY <2>1, <2>2 DEF Pair, Fcas
<1> QED BY <1>2, <1>3, <1>4, <1>5, <1>6, <1>7, <1>8, <1>9, <1>10, <1>11, <1>12 DEF Pair

(* Two planners that do not stop, and what is on its way between them.     *)
Two(M, G, v, u, p, q, c, d) ==
  /\ Both(M, G, v, u, p, q)
  /\ Pair(M, G, v, u, p, q, c) /\ Pair(M, G, u, v, q, p, d)

LEMMA Swapped ==
  ASSUME NEW M, NEW G, NEW v, NEW u, NEW p, NEW q, Both(M, G, v, u, p, q)
  PROVE  Both(M, G, u, v, q, p)
BY DEF Both

LEMMA BothLevels ==
  ASSUME NEW M, NEW G, NEW v, NEW u, NEW p, NEW q, Both(M, G, v, u, p, q)
  PROVE  /\ M \in {"id", "random", "vertex_ordering"}
         /\ p.stage \in {"new", "old", "last"} /\ q.stage \in {"new", "old", "last"}
         /\ Level(p) \in 0 .. 11 /\ RoundLevel(p) \in {4, 7, 10}
         /\ Level(q) \in 0 .. 11 /\ RoundLevel(q) \in {4, 7, 10}
         /\ Planning(p) <=> Level(p) = RoundLevel(p)
         /\ Planning(q) <=> Level(q) = RoundLevel(q)
         /\ Level(q) < 4 => RoundLevel(q) = 4
         /\ Level(q) >= 4 => Level(q) >= RoundLevel(q)
         /\ Over(q) => Level(q) >= 5 /\ Level(q) > RoundLevel(q)
         /\ RoundLevel(q) = 4 => Level(q) <= 6 \/ (Level(q) = 11 /\ M = "random" /\ Good(q))
         /\ RoundLevel(q) = 7 => Level(q) \in 7 .. 9 /\ M = "vertex_ordering"
         /\ RoundLevel(q) = 10 => Level(q) \in {10, 11}
         /\ M = "id" => Level(q) = 0 \/ RoundLevel(q) = 10
         /\ q.pc = "sync" <=> Level(q) \in {3, 6, 9}
<1>1. p.stage \in {"new", "old", "last"} /\ q.stage \in {"new", "old", "last"}
  BY DEF Both, Planner
<1>2. Local(M, G, v, p) /\ Local(M, G, u, q) /\ M \in {"id", "random", "vertex_ordering"}
  BY DEF Both
<1>3. /\ Level(p) \in 0 .. 11 /\ RoundLevel(p) \in {4, 7, 10}
      /\ Planning(p) <=> Level(p) = RoundLevel(p)
  BY <1>1, <1>2, Levels
<1>4. Over(q) => Level(q) > RoundLevel(q)
  BY DEF Over
<1> QED BY <1>1, <1>2, <1>3, <1>4, Levels

-----------------------------------------------------------------------------
(* A planner begins a round when it has heard from all: the levels from    *)
(* and to which it goes, and the least that another has.                   *)
Jump(M, from, to, other, good) ==
  \/ M = "id" /\ from = 0 /\ to = 10
  \/ M = "random" /\ from = 2 /\ to = 4 /\ other >= 2
  \/ M = "vertex_ordering" /\ from = 3 /\ to = 4 /\ other >= 3
  \/ M = "random" /\ from = 6 /\ to = 10 /\ other >= 6 /\ ~good
  \/ M = "vertex_ordering" /\ from = 6 /\ to = 7 /\ other >= 6 /\ ~good
  \/ M = "vertex_ordering" /\ from = 6 /\ to = 10 /\ other >= 6 /\ good
  \/ M = "vertex_ordering" /\ from = 9 /\ to = 10 /\ other >= 9

Jumped(M, v, u, p, r) ==
  \/ M = "id" /\ p.pc = "begin" /\ r.stage = "last"
  \/ /\ M = "random" /\ p.pc = "read fca" /\ r.stage = "new" /\ u \in p.received_messages
     /\ u \in Prev(v, r) <=> Behind(p, v, u)
  \/ /\ M = "vertex_ordering" /\ p.pc = "sync" /\ u \in p.received_messages
     /\ p.sync_id = 5 /\ r.stage = "new"
  \/ /\ M = "random" /\ p.pc = "sync" /\ u \in p.received_messages
     /\ p.sync_id = 3 /\ p.feasible = FALSE /\ r.stage = "last"
  \/ /\ M = "vertex_ordering" /\ p.pc = "sync" /\ u \in p.received_messages
     /\ p.sync_id = 3 /\ p.feasible = FALSE /\ r.stage = "old"
  \/ /\ M = "vertex_ordering" /\ p.pc = "sync" /\ u \in p.received_messages
     /\ p.sync_id = 3 /\ p.feasible = TRUE /\ r.stage = "last" /\ r.prio_vec = p.prio_vec
  \/ /\ M = "vertex_ordering" /\ p.pc = "sync" /\ u \in p.received_messages
     /\ p.sync_id = 4 /\ r.stage = "last" /\ r.prio_vec = p.prio_vec

Enters(M, v, u, p, r) ==
  /\ r.pc = "prev" /\ r.received_messages = {} /\ r.wait = Prev(v, r)
  /\ r.old_prio_vec = p.old_prio_vec /\ r.own_fca = p.own_fca /\ r.plan = p.plan
  /\ Jumped(M, v, u, p, r)

LEMMA Jumps ==
  ASSUME NEW M, NEW G, NEW v, NEW u, NEW p, NEW q, NEW r,
         Both(M, G, v, u, p, q), Enters(M, v, u, p, r)
  PROVE  /\ Jump(M, Level(p), Level(r), Level(q), Good(p))
         /\ RoundLevel(r) = Level(r) /\ Planning(r) /\ ~Over(r)
         /\ Level(r) = 10 <=> r.stage = "last"
         /\ ~Planning(p)
<1>1. r.pc = "prev" /\ Jumped(M, v, u, p, r)
  BY DEF Enters
<1>2. RoundLevel(r) = Level(r)
  BY <1>1 DEF Level
<1>3. /\ r.stage = "new" => Level(r) = 4
      /\ r.stage = "old" => Level(r) = 7
      /\ r.stage = "last" => Level(r) = 10
  BY <1>2 DEF RoundLevel
<1>4. /\ p.pc = "read fca" /\ u \in p.received_messages => Level(q) >= 2
      /\ p.pc = "sync" /\ u \in p.received_messages => Level(q) >= Level(p)
  BY DEF Both, Known
<1>5. /\ p.pc = "begin" => Level(p) = 0
      /\ p.pc = "read fca" => Level(p) = 2
      /\ p.pc = "sync" /\ p.sync_id = 5 => Level(p) = 3
      /\ p.pc = "sync" /\ p.sync_id = 3 => Level(p) = 6
      /\ p.pc = "sync" /\ p.sync_id = 4 => Level(p) = 9
  <2>1. p.pc = "begin" => Level(p) = 0
    BY DEF Level
  <2>2. p.pc = "read fca" => Level(p) = 2
    BY DEF Level
  <2>3. ASSUME p.pc = "sync" PROVE Level(p) = IF p.sync_id = 5 THEN 3 ELSE IF p.sync_id = 3 THEN 6 ELSE 9
    BY <2>3 DEF Level
  <2>4. p.pc = "sync" /\ p.sync_id = 5 => Level(p) = 3
    BY <2>3
  <2>5. p.pc = "sync" /\ p.sync_id = 3 => Level(p) = 6
    BY <2>3
  <2>6. p.pc = "sync" /\ p.sync_id = 4 => Level(p) = 9
    BY <2>3
  <2> QED BY <2>1, <2>2, <2>4, <2>5, <2>6
<1>10. p.pc = "sync" => (Good(p) <=> p.feasible = TRUE)
  BY DEF Good
<1>6. Jump(M, Level(p), Level(r), Level(q), Good(p))
  <2>1. CASE M = "id" /\ p.pc = "begin" /\ r.stage = "last"
    BY <1>3, <1>5, <2>1 DEF Jump
  <2>2. CASE M = "random" /\ p.pc = "read fca" /\ r.stage = "new" /\ u \in p.received_messages
    BY <1>3, <1>4, <1>5, <2>2 DEF Jump
  <2>3. CASE /\ p.pc = "sync" /\ u \in p.received_messages
             /\ \/ M = "vertex_ordering" /\ p.sync_id = 5 /\ r.stage = "new"
                \/ M = "random" /\ p.sync_id = 3 /\ p.feasible = FALSE /\ r.stage = "last"
                \/ M = "vertex_ordering" /\ p.sync_id = 3 /\ p.feasible = FALSE /\ r.stage = "old"
                \/ M = "vertex_ordering" /\ p.sync_id = 3 /\ p.feasible = TRUE /\ r.stage = "last"
                \/ M = "vertex_ordering" /\ p.sync_id = 4 /\ r.stage = "last"
    BY <1>3, <1>4, <1>5, <1>10, <2>3 DEF Jump
  <2> QED BY <1>1, <2>1, <2>2, <2>3 DEF Jumped
<1>7. Planning(r) /\ ~Over(r)
  <2>1. Level(r) \in {4, 7, 10}
    BY <1>6 DEF Jump
  <2> QED BY <1>1, <1>2, <2>1 DEF Planning, Over
<1>8. Level(r) = 10 <=> r.stage = "last"
  <2>1. r.stage \in {"new", "old", "last"}
    BY <1>1 DEF Jumped
  <2> QED BY <1>3, <2>1
<1>9. ~Planning(p)
  BY <1>1 DEF Jumped, Planning
<1> QED BY <1>2, <1>6, <1>7, <1>8, <1>9

LEMMA Entered ==
  ASSUME Fleet, NEW M, NEW G, NEW v, NEW u, NEW p, NEW q, NEW r \in Planner, NEW c, NEW d,
         Two(M, G, v, u, p, q, c, d), Local(M, G, v, r), Enters(M, v, u, p, r)
  PROVE  Pair(M, G, v, u, r, q, c) /\ Pair(M, G, u, v, q, r, d)
<1>a. Both(M, G, v, u, p, q) /\ Pair(M, G, v, u, p, q, c) /\ Pair(M, G, u, v, q, p, d)
  BY DEF Two
<1>b. /\ Jump(M, Level(p), Level(r), Level(q), Good(p))
      /\ RoundLevel(r) = Level(r) /\ Planning(r) /\ ~Over(r)
      /\ Level(r) = 10 <=> r.stage = "last"
      /\ ~Planning(p)
  BY <1>a, Jumps
<1>c. /\ M \in {"id", "random", "vertex_ordering"}
      /\ Level(q) \in 0 .. 11 /\ RoundLevel(q) \in {4, 7, 10}
      /\ Level(q) < 4 => RoundLevel(q) = 4
      /\ Level(q) >= 4 => Level(q) >= RoundLevel(q)
      /\ Over(q) => Level(q) >= 5 /\ Level(q) > RoundLevel(q)
      /\ RoundLevel(q) = 7 => Level(q) \in 7 .. 9 /\ M = "vertex_ordering"
      /\ RoundLevel(q) = 10 => Level(q) \in {10, 11}
      /\ RoundLevel(q) = 4 => Level(q) <= 6 \/ (Level(q) = 11 /\ M = "random" /\ Good(q))
      /\ Planning(q) <=> Level(q) = RoundLevel(q)
      /\ M = "id" => Level(q) = 0 \/ RoundLevel(q) = 10
  BY <1>a, BothLevels
<1>d. /\ r.pc = "prev" /\ r.received_messages = {} /\ r.wait = Prev(v, r)
      /\ r.old_prio_vec = p.old_prio_vec /\ r.own_fca = p.own_fca /\ r.plan = p.plan
  BY DEF Enters
<1>e. Barriers(M, G, p, q) /\ Barriers(M, G, q, p) /\ Known(M, v, u, p, q) /\ Known(M, u, v, q, p)
  BY <1>a DEF Both
<1>f. /\ Over(p) <=> Level(p) \in {6, 9}
      /\ Level(p) = 6 => RoundLevel(p) = 4
      /\ Level(p) = 9 => RoundLevel(p) = 7
  <2>1. /\ Level(p) \in {0, 2, 3} => RoundLevel(p) = 4
        /\ Level(p) = 6 => RoundLevel(p) = 4
        /\ Level(p) = 9 => RoundLevel(p) = 7
    BY <1>a, BothLevels, Swapped
  <2> QED BY <2>1, <1>b DEF Over, Jump
(* The round that v leaves is over for u when it is for v.                 *)
<1>g. Over(q) /\ Good(q) => Level(p) > RoundLevel(q)
  <2>1. Over(q) /\ Good(q) => Level(p) > RoundLevel(q) \/ (Level(p) = RoundLevel(q) /\ p.pc # "prev")
    BY <1>a DEF Pair, Outcome
  <2>2. Level(p) # RoundLevel(q)
    BY <1>b, <1>c DEF Jump
  <2> QED BY <2>1, <2>2
(* Messages that v has not read are of the round it begins or of a later.  *)
<1>h. Level(p) <= RoundLevel(q) /\ Level(q) >= 4 => Level(r) <= RoundLevel(q)
  <2>1. Level(p) = 6 /\ Level(q) \in 7 .. 9 => ~Good(p)
    BY <1>e DEF Barriers
  <2> QED BY <2>1, <1>b, <1>c DEF Jump
<1>i. M = "vertex_ordering" /\ r.stage = "last" => r.prio_vec = p.prio_vec
  BY DEF Enters, Jumped
<1>j. p.stage \in {"new", "old", "last"} /\ q.stage \in {"new", "old", "last"} /\ Local(M, G, v, p)
  BY <1>a, BothLevels DEF Both
<1>k. Level(p) = 6 /\ M = "vertex_ordering" => p.prio_vec = G
  <2>1. Level(p) = 6 => p.stage = "new"
    BY <1>f, <1>j DEF RoundLevel
  <2>2. p.stage = "new" /\ Level(p) >= 4 /\ M = "vertex_ordering" => p.prio_vec = G
    BY <1>j DEF Local, Control, Waits, Plannings
  <2> QED BY <2>1, <2>2
<1>l. Level(p) = 9 => p.prio_vec = p.old_prio_vec
  <2>1. Level(p) = 9 => p.stage = "old"
    BY <1>f, <1>j DEF RoundLevel
  <2> QED BY <1>j, <2>1 DEF Local, Control, Waits, Plannings
<1>m. Level(r) >= 10 /\ Level(q) >= 10 => r.stage = "last" /\ q.stage = "last"
  <2>1. Level(p) = 6 /\ Level(q) >= 7 /\ M = "random" => (Good(p) <=> q.stage = "new")
    BY <1>e DEF Barriers
  <2>2. /\ RoundLevel(q) = 10 => q.stage = "last"
        /\ RoundLevel(q) = 4 => q.stage = "new"
    BY <1>j DEF RoundLevel
  <2> QED BY <2>1, <2>2, <1>b, <1>c DEF Jump
<1>1. Barriers(M, G, r, q)
  <2>1. /\ r.old_prio_vec = q.old_prio_vec
        /\ M = "random" /\ Level(r) >= 4 => Level(q) >= 2
        /\ M = "vertex_ordering" /\ Level(r) >= 2 => Level(q) >= 1
        /\ M = "vertex_ordering" /\ Level(r) >= 4 => Level(q) >= 3
        /\ M # "id" /\ Level(r) >= 7 => Level(q) >= 6
    BY <1>b, <1>c, <1>d, <1>e DEF Barriers, Jump
  <2>2. M = "vertex_ordering" /\ Level(r) >= 10 => Level(q) \notin {7, 8}
    <3>1. Level(p) = 6 /\ Level(q) \in 7 .. 9 => ~Good(p)
      BY <1>e DEF Barriers
    <3> QED BY <3>1, <1>b, <1>c DEF Jump
  <2>3. Level(r) # 6 /\ Level(r) # 9
    BY <1>b DEF Jump
  <2>4. Level(r) >= 10 /\ Level(q) >= 10 =>
          r.stage = q.stage /\ (M = "vertex_ordering" => r.prio_vec = q.prio_vec)
    <3>1. ASSUME Level(r) >= 10, Level(q) >= 10, M = "vertex_ordering"
          PROVE  r.prio_vec = q.prio_vec
      <4>1. r.prio_vec = p.prio_vec
        BY <1>i, <1>m, <3>1
      <4>2. Level(p) = 6 \/ Level(p) = 9
        BY <1>b, <3>1 DEF Jump
      <4>3. Level(p) = 6 => q.prio_vec = G
        BY <1>e, <3>1 DEF Barriers
      <4>4. Level(p) = 9 => q.prio_vec = q.old_prio_vec /\ p.old_prio_vec = q.old_prio_vec
        BY <1>e, <3>1 DEF Barriers
      <4> QED BY <3>1, <4>1, <4>2, <4>3, <4>4, <1>k, <1>l
    <3> QED BY <3>1, <1>m
  <2> QED BY <2>1, <2>2, <2>3, <2>4, <1>b DEF Barriers
<1>2. Barriers(M, G, q, r)
  <2>1. q.old_prio_vec = r.old_prio_vec
    BY <1>d, <1>e DEF Barriers
  <2>2. /\ M = "random" /\ Level(q) >= 4 => Level(r) >= 2
        /\ M = "vertex_ordering" /\ Level(q) >= 2 => Level(r) >= 1
        /\ M = "vertex_ordering" /\ Level(q) >= 4 => Level(r) >= 3
        /\ M # "id" /\ Level(q) >= 7 => Level(r) >= 6
    <3>1. /\ M # "id" /\ Level(q) >= 7 => Level(p) >= 6
      BY <1>e DEF Barriers
    <3> QED BY <3>1, <1>b DEF Jump
  <2>3. M = "vertex_ordering" /\ Level(q) >= 10 => Level(r) \notin {7, 8}
    <3>1. Level(p) = 6 /\ Level(q) >= 10 /\ M = "vertex_ordering" => Good(p)
      BY <1>e DEF Barriers
    <3> QED BY <3>1, <1>b DEF Jump
  <2>4. Level(q) = 6 => (Over(p) /\ RoundLevel(p) = RoundLevel(q) /\ Over(q)) \/ Level(p) # 6
    BY <1>c, <1>f DEF Over
  <2>5. Level(q) = 6 /\ Level(p) = 6 => (Good(q) <=> Good(p))
    BY <2>4, <1>e DEF Barriers
  <2>6. Level(q) = 6 /\ Level(r) >= 7 => Level(p) = 6 \/ M = "id"
    BY <1>b, <1>c DEF Jump
  <2>7. Level(q) = 6 /\ Level(r) >= 7 /\ M = "random" => (Good(q) <=> r.stage = "new")
    <3>1. Level(p) = 6 /\ Level(r) >= 7 /\ M = "random" => ~Good(p) /\ r.stage = "last"
      BY <1>b DEF Jump
    <3> QED BY <2>5, <2>6, <3>1
  <2>8. Level(q) = 6 /\ Level(r) \in 7 .. 9 => ~Good(q)
    <3>1. Level(r) \in 7 .. 9 => ~Good(p) /\ Level(p) = 6
      BY <1>b DEF Jump
    <3> QED BY <2>5, <3>1
  <2>9. Level(q) = 6 /\ Level(r) >= 10 /\ M = "vertex_ordering" => Good(q) /\ r.prio_vec = G
    <3>1. Level(q) = 6 /\ Level(r) >= 10 /\ M = "vertex_ordering" => Good(p) /\ Level(p) = 6 /\ r.stage = "last"
      BY <1>b DEF Jump
    <3> QED BY <2>5, <3>1, <1>i, <1>k
  <2>10. Level(q) = 9 /\ Level(r) >= 10 => r.prio_vec = r.old_prio_vec
    <3>1. Level(p) = 6 /\ Level(q) \in 7 .. 9 => ~Good(p)
      BY <1>e DEF Barriers
    <3>2. Level(q) = 9 /\ Level(r) >= 10 => M = "vertex_ordering" /\ Level(p) = 9 /\ r.stage = "last"
      BY <3>1, <1>b, <1>c DEF Jump
    <3> QED BY <3>2, <1>d, <1>i, <1>l
  <2>11. Level(q) >= 10 /\ Level(r) >= 10 =>
           q.stage = r.stage /\ (M = "vertex_ordering" => q.prio_vec = r.prio_vec)
    <3>1. Level(r) >= 10 /\ Level(q) >= 10 => (M = "vertex_ordering" => r.prio_vec = q.prio_vec)
      BY <1>1 DEF Barriers
    <3> QED BY <3>1, <1>m
  <2> QED BY <2>1, <2>2, <2>3, <2>7, <2>8, <2>9, <2>10, <2>11, <1>b DEF Barriers
<1>3. Known(M, v, u, r, q)
  <2>1. M = "random" /\ r.stage = "new" /\ Level(r) >= 4 => (u \in Prev(v, r) <=> Before(u, q, v, r))
    <3> SUFFICES ASSUME M = "random", r.stage = "new"
                 PROVE  u \in Prev(v, r) <=> Before(u, q, v, r)
      OBVIOUS
    <3>1. p.pc = "read fca" /\ u \in p.received_messages /\ (u \in Prev(v, r) <=> Behind(p, v, u))
      BY DEF Enters, Jumped
    <3>2. p.fca[u] = q.own_fca /\ p.fca[v] = p.own_fca
      BY <3>1, <1>e, <1>j DEF Known, Local, Control, Waits, Plannings
    <3> QED BY <3>1, <3>2, <1>d DEF Before, Behind
  <2> QED BY <2>1, <1>b, <1>d DEF Known, HeardOf
<1>4. Known(M, u, v, q, r)
  <2>1. /\ q.pc = "optimal" /\ v \in q.received_messages => Level(r) >= 1
        /\ q.pc = "read fca" /\ v \in q.received_messages => Level(r) >= 2
    <3>1. Level(r) \in {4, 7, 10}
      BY <1>b DEF Jump
    <3>2. Level(r) >= 1 /\ Level(r) >= 2
      BY <3>1
    <3> QED BY <3>2
  <2>2. q.pc = "read fca" /\ v \in q.received_messages => q.fca[v] = r.own_fca
    BY <1>d, <1>e DEF Known
  <2>3. q.pc = "sync" /\ v \in q.received_messages => Level(r) >= Level(q)
    <3>1. q.pc = "sync" /\ v \in q.received_messages => Level(p) >= Level(q)
      BY <1>e DEF Known
    <3> QED BY <3>1, <1>b, <1>c DEF Jump
  <2>4. M = "random" /\ q.stage = "new" /\ Level(q) >= 4 => (v \in Prev(u, q) <=> Before(v, r, u, q))
    BY <1>d, <1>e DEF Known, Before
  <2>5. ~(Planning(q) /\ HeardOf(u, v, q))
    <3>1. Planning(q) /\ HeardOf(u, v, q) => Level(p) >= 4 /\ RoundLevel(p) = Level(q)
      BY <1>e DEF Known
    <3> QED BY <3>1, <1>b, <1>f DEF Jump
  <2>6. ~(Over(q) /\ Good(q) /\ RoundLevel(r) = RoundLevel(q))
    BY <1>b, <1>c, <1>g DEF Jump
  <2> QED BY <2>1, <2>2, <2>3, <2>4, <2>5, <2>6 DEF Known
<1>5. Trajectories(M, v, u, r, q, c["trajectory"])
  <2>1. ASSUME NEW m, Finals(v, u, p, q, m)
        PROVE  Finals(v, u, r, q, m)
    <3>1. /\ m.plan = q.plan /\ Level(q) >= 4 /\ q.pc # "prev" /\ Level(p) <= RoundLevel(q)
          /\ Level(p) < RoundLevel(q) => v \notin Prev(u, q)
          /\ m.has_collisions = TRUE => Over(q) /\ ~Good(q)
      BY <2>1 DEF Finals
    <3>2. Level(r) <= RoundLevel(q) /\ v \notin Prev(u, q)
      <4>1. Level(p) < RoundLevel(q)
        BY <3>1, <1>b, <1>c DEF Jump
      <4> QED BY <3>1, <4>1, <1>h
    <3>3. Level(r) = RoundLevel(q) => u \in r.wait
      <4> SUFFICES ASSUME RoundLevel(r) = RoundLevel(q)
                   PROVE  u \in Prev(v, r)
        BY <1>b, <1>d
      <4>1. /\ M = "random" /\ r.stage = "new" => (u \in Prev(v, r) <=> Before(u, q, v, r))
            /\ M = "random" /\ q.stage = "new" => (v \in Prev(u, q) <=> Before(v, r, u, q))
        <5>1. Level(r) >= 4
          BY <1>b DEF Jump
        <5> QED BY <5>1, <3>1, <1>3, <1>4 DEF Known
      <4>2. Level(r) >= 4
        BY <1>b DEF Jump
      <4>3. G \in Order /\ v \in Vehicle /\ u \in Vehicle /\ u # v /\ q \in Planner /\ Local(M, G, u, q)
        BY <1>a DEF Both
      <4> QED BY <3>1, <3>2, <4>1, <4>2, <4>3, <1>1, <1>c, OneBefore
    <3> QED BY <3>1, <3>2, <3>3, <1>d DEF Finals
  <2>2. ASSUME NEW m, Optimals(M, u, p, q, m)
        PROVE  FALSE
    BY <2>2, <1>b DEF Optimals, Jump
  <2> QED BY <1>a, <2>1, <2>2 DEF Pair, Trajectories
<1>6. Trajectories(M, u, v, q, r, d["trajectory"])
  <2>1. ASSUME NEW m, Finals(u, v, q, p, m)
        PROVE  FALSE
    <3>1. Level(p) >= 4 /\ Level(q) <= RoundLevel(p)
      BY <2>1 DEF Finals
    <3>2. Level(p) = 6 \/ Level(p) = 9
      BY <3>1, <1>b DEF Jump
    <3>3. Level(p) = 6 => Level(q) >= 6
      BY <1>b DEF Jump
    <3>4. Level(p) = 9 => Level(q) >= 9
      BY <1>b DEF Jump
    <3> QED BY <3>1, <3>2, <3>3, <3>4, <1>c, <1>f
  <2>2. ASSUME NEW m, Optimals(M, v, q, p, m)
        PROVE  Optimals(M, v, q, r, m)
    <3>1. Level(r) >= 1
      BY <1>b DEF Jump
    <3> QED BY <2>2, <3>1 DEF Optimals
  <2> QED BY <1>a, <2>1, <2>2 DEF Pair, Trajectories
<1>7. Outcome(r, q, c["trajectory"])
  <2>1. Over(q) /\ ~Good(q) /\ Level(p) <= RoundLevel(q) =>
          Len(c["trajectory"]) > 0 /\ c["trajectory"][Len(c["trajectory"])].has_collisions = TRUE
    BY <1>a DEF Pair, Outcome
  <2>2. Level(r) <= RoundLevel(q) => Level(p) <= RoundLevel(q)
    BY <1>b, <1>c DEF Jump
  <2>3. Over(q) /\ Good(q) => Level(r) > RoundLevel(q)
    BY <1>b, <1>c, <1>g DEF Jump
  <2> QED BY <2>1, <2>2, <2>3 DEF Outcome
<1>8. Outcome(q, r, d["trajectory"])
  BY <1>b DEF Outcome
<1>9. Syncs(u, r, q, c["sync"])
  <2>1. ASSUME NEW m, Synced(p, q, m)
        PROVE  Synced(r, q, m)
    <3>1. m.sync_id = 5 => Level(q) >= 3
      BY <2>1 DEF Synced
    <3>2. m.sync_id = 3 => /\ Level(q) = 6 \/ (Level(q) > 6 /\ Level(p) >= 6)
                           /\ Level(p) < 5 => (m.feasible = TRUE <=> Good(q))
      BY <2>1 DEF Synced
    <3>3. m.sync_id = 4 => /\ Level(q) = 9 \/ (Level(q) > 9 /\ Level(p) >= 9)
                           /\ Level(p) < 8 => (m.feasible = TRUE <=> Good(q))
      BY <2>1 DEF Synced
    <3>4. /\ Level(r) \notin {5, 6, 8, 9} /\ (Level(r) < 5 => Level(p) < 5) /\ (Level(r) < 8 => Level(p) < 8)
          /\ (Level(p) >= 6 => Level(r) >= 6) /\ (Level(p) >= 9 => Level(r) >= 9)
      BY <1>b DEF Jump
    <3> QED BY <3>1, <3>2, <3>3, <3>4 DEF Synced
  <2> QED BY <2>1, <1>a DEF Pair, Syncs
<1>10. Syncs(v, q, r, d["sync"])
  <2>1. ASSUME NEW m, Synced(q, p, m)
        PROVE  Synced(q, r, m)
    <3>1. /\ m.sync_id = 5 => Level(p) >= 3
          /\ m.sync_id = 3 => Level(p) = 6 \/ (Level(p) > 6 /\ Level(q) >= 6)
          /\ m.sync_id = 4 => Level(p) = 9 \/ (Level(p) > 9 /\ Level(q) >= 9)
      BY <2>1 DEF Synced
    <3>2. m.sync_id = 5 => Level(r) >= 3
      BY <3>1, <1>b DEF Jump
    <3>3. m.sync_id = 3 => Level(r) > 6 /\ Level(q) >= 6
      BY <3>1, <1>b DEF Jump
    <3>4. m.sync_id = 4 => Level(r) > 9 /\ Level(q) >= 9
      BY <3>1, <1>b DEF Jump
    <3>5. /\ m.sync_id = 3 /\ Level(q) \in {5, 6} => (m.feasible = TRUE <=> Good(q))
          /\ m.sync_id = 4 /\ Level(q) \in {8, 9} => (m.feasible = TRUE <=> Good(q))
      BY <2>1 DEF Synced
    <3>6. (m.sync_id = 3 => ~(Level(q) < 5)) /\ (m.sync_id = 4 => ~(Level(q) < 8))
      BY <3>3, <3>4, <1>c
    <3> QED BY <3>2, <3>3, <3>4, <3>5, <3>6 DEF Synced
  <2> QED BY <2>1, <1>a DEF Pair, Syncs
<1>11. Fcas(u, q, c["fca"]) /\ Fcas(v, r, d["fca"])
  <2>1. Level(p) >= 2 => Level(r) >= 2
    BY <1>b DEF Jump
  <2> QED BY <2>1, <1>a, <1>d DEF Pair, Fcas
<1> QED BY <1>1, <1>2, <1>3, <1>4, <1>5, <1>6, <1>7, <1>8, <1>9, <1>10, <1>11 DEF Pair

-----------------------------------------------------------------------------
(* A planner sends the outcome of a round.                                 *)
Confirms(u, p, r) ==
  /\ p.pc = "announce" /\ r.pc = "sync" /\ p.sync_id \in {3, 4} /\ r.sync_id = p.sync_id
  /\ r.stage = p.stage /\ r.prio_vec = p.prio_vec /\ r.old_prio_vec = p.old_prio_vec
  /\ r.own_fca = p.own_fca /\ r.plan = p.plan /\ r.feasible = p.feasible
  /\ r.other_vehicles_buffer = p.other_vehicles_buffer /\ u \notin r.received_messages

LEMMA Confirmed ==
  ASSUME Fleet, NEW M, NEW G, NEW v, NEW u, NEW p, NEW q, NEW r \in Planner, NEW c, NEW d,
         Two(M, G, v, u, p, q, c, d), Confirms(u, p, r)
  PROVE  /\ Pair(M, G, v, u, r, q, c) /\ Pair(M, G, u, v, q, r, d)
         /\ \A m : m.sync_id = p.sync_id /\ m.feasible = p.feasible => Synced(q, r, m)
<1>a. Both(M, G, v, u, p, q) /\ Pair(M, G, v, u, p, q, c) /\ Pair(M, G, u, v, q, p, d)
  BY DEF Two
<1>b. /\ M \in {"id", "random", "vertex_ordering"}
      /\ Level(q) \in 0 .. 11 /\ RoundLevel(q) \in {4, 7, 10}
      /\ Level(q) < 4 => RoundLevel(q) = 4
      /\ Level(q) >= 4 => Level(q) >= RoundLevel(q)
      /\ Over(q) => Level(q) >= 5 /\ Level(q) > RoundLevel(q)
      /\ RoundLevel(q) = 7 => Level(q) \in 7 .. 9 /\ M = "vertex_ordering"
      /\ RoundLevel(q) = 10 => Level(q) \in {10, 11}
      /\ RoundLevel(q) = 4 => Level(q) <= 6 \/ (Level(q) = 11 /\ M = "random" /\ Good(q))
      /\ Planning(q) <=> Level(q) = RoundLevel(q)
      /\ M = "id" => Level(q) = 0 \/ RoundLevel(q) = 10
  BY <1>a, BothLevels
<1>c. /\ r.pc = "sync" /\ p.pc = "announce" /\ u \notin r.received_messages /\ p.sync_id \in {3, 4}
      /\ r.old_prio_vec = p.old_prio_vec /\ r.own_fca = p.own_fca /\ r.plan = p.plan
      /\ r.stage = p.stage /\ r.prio_vec = p.prio_vec
      /\ r.other_vehicles_buffer = p.other_vehicles_buffer
  BY DEF Confirms
<1>d. /\ Barriers(M, G, p, q) /\ Barriers(M, G, q, p) /\ Known(M, v, u, p, q) /\ Known(M, u, v, q, p)
      /\ Local(M, G, v, p)
  BY <1>a DEF Both
<1>e. p.stage = (IF p.sync_id = 4 THEN "old" ELSE "new") /\ M # "id" /\ (p.stage = "old" => M = "vertex_ordering")
  BY <1>c, <1>d DEF Local, Control, Waits, Plannings
<1>f. \/ p.sync_id = 3 /\ Level(p) = 5 /\ Level(r) = 6 /\ RoundLevel(p) = 4
      \/ p.sync_id = 4 /\ Level(p) = 8 /\ Level(r) = 9 /\ RoundLevel(p) = 7 /\ M = "vertex_ordering"
  <2>1. CASE p.sync_id = 3
    <3>1. p.stage = "new" /\ r.sync_id = 3
      BY <1>e, <2>1 DEF Confirms
    <3> QED BY <1>c, <2>1, <3>1 DEF Level, RoundLevel
  <2>2. CASE p.sync_id = 4
    <3>1. p.stage = "old" /\ r.sync_id = 4
      BY <1>e, <2>2 DEF Confirms
    <3> QED BY <1>c, <1>e, <2>2, <3>1 DEF Level, RoundLevel
  <2> QED BY <1>c, <2>1, <2>2
<1>g. RoundLevel(r) = RoundLevel(p) /\ Prev(v, r) = Prev(v, p)
  BY <1>c DEF RoundLevel, Prev
<1>h. Over(r) /\ Over(p) /\ ~Planning(r) /\ ~Planning(p)
  BY <1>c, <1>f, <1>g DEF Over, Planning
<1>i. Good(r) <=> Good(p)
  BY DEF Confirms, Good
<1>j. \A o : /\ Before(u, o, v, r) <=> Before(u, o, v, p)
             /\ Before(v, r, u, o) <=> Before(v, p, u, o)
  BY <1>c DEF Before
<1>1. Barriers(M, G, r, q)
  <2>1. /\ r.old_prio_vec = q.old_prio_vec
        /\ M = "random" /\ Level(r) >= 4 => Level(q) >= 2
        /\ M = "vertex_ordering" /\ Level(r) >= 2 => Level(q) >= 1
        /\ M = "vertex_ordering" /\ Level(r) >= 4 => Level(q) >= 3
        /\ M # "id" /\ Level(r) >= 7 => Level(q) >= 6
        /\ M = "vertex_ordering" /\ Level(r) >= 10 => Level(q) \notin {7, 8}
    BY <1>c, <1>d, <1>f DEF Barriers
  <2>2. Over(r) /\ Over(q) /\ RoundLevel(r) = RoundLevel(q) => (Good(r) <=> Good(q))
    BY <1>d, <1>g, <1>h, <1>i DEF Barriers
  <2>3. Level(r) = 6 => ~(Level(q) >= 7)
    <3>1. M # "id" /\ Level(q) >= 7 => Level(p) >= 6
      BY <1>d DEF Barriers
    <3> QED BY <3>1, <1>e, <1>f
  <2>4. Level(r) = 9 => ~(Level(q) >= 10)
    <3>1. M = "vertex_ordering" /\ Level(q) >= 10 => Level(p) \notin {7, 8}
      BY <1>d DEF Barriers
    <3> QED BY <3>1, <1>f
  <2>5. Level(r) = 6 => ~(Level(q) \in 7 .. 9) /\ ~(Level(q) >= 10)
    BY <2>3, <1>b
  <2>6. ~(Level(r) >= 10)
    BY <1>f
  <2> QED BY <2>1, <2>2, <2>3, <2>4, <2>5, <2>6 DEF Barriers
<1>2. Barriers(M, G, q, r)
  <2>1. /\ q.old_prio_vec = r.old_prio_vec
        /\ M = "random" /\ Level(q) >= 4 => Level(r) >= 2
        /\ M = "vertex_ordering" /\ Level(q) >= 2 => Level(r) >= 1
        /\ M = "vertex_ordering" /\ Level(q) >= 4 => Level(r) >= 3
        /\ M # "id" /\ Level(q) >= 7 => Level(r) >= 6
        /\ M = "vertex_ordering" /\ Level(q) >= 10 => Level(r) \notin {7, 8}
    BY <1>c, <1>d, <1>f DEF Barriers
  <2>2. Over(q) /\ Over(r) /\ RoundLevel(q) = RoundLevel(r) => (Good(q) <=> Good(r))
    BY <1>d, <1>g, <1>h, <1>i DEF Barriers
  <2>3. M = "random" => ~(Level(r) >= 7)
    BY <1>f
  <2>4. Level(r) \in 7 .. 9 => Level(p) \in 7 .. 9
    BY <1>f
  <2>5. Level(q) = 6 /\ Level(p) \in 7 .. 9 => ~Good(q)
    BY <1>d DEF Barriers
  <2>6. ~(Level(r) >= 10)
    BY <1>f
  <2> QED BY <2>1, <2>2, <2>3, <2>4, <2>5, <2>6 DEF Barriers
<1>3. Known(M, v, u, r, q)
  <2>1. M = "random" /\ r.stage = "new" /\ Level(r) >= 4 => (u \in Prev(v, r) <=> Before(u, q, v, r))
    <3>1. M = "random" /\ p.stage = "new" => (u \in Prev(v, p) <=> Before(u, q, v, p))
      <4>1. Level(p) >= 4
        BY <1>f
      <4> QED BY <4>1, <1>d DEF Known
    <3> QED BY <3>1, <1>c, <1>g, <1>j
  <2>2. Over(r) /\ Good(r) /\ u \in Prev(v, r) /\ Level(q) >= 4 /\ RoundLevel(q) = RoundLevel(r) =>
          r.other_vehicles_buffer[u] = q.plan
    BY <1>c, <1>d, <1>g, <1>h, <1>i DEF Known
  <2> QED BY <2>1, <2>2, <1>c, <1>h DEF Known
<1>4. Known(M, u, v, q, r)
  <2>1. /\ q.pc = "optimal" /\ v \in q.received_messages => Level(r) >= 1
        /\ q.pc = "read fca" /\ v \in q.received_messages => Level(r) >= 2 /\ q.fca[v] = r.own_fca
    <3>1. Level(r) >= 1 /\ Level(r) >= 2
      BY <1>f
    <3> QED BY <3>1, <1>c, <1>d DEF Known
  <2>2. q.pc = "sync" /\ v \in q.received_messages => Level(r) >= Level(q)
    <3>1. q.pc = "sync" /\ v \in q.received_messages => Level(p) >= Level(q)
      BY <1>d DEF Known
    <3> QED BY <3>1, <1>b, <1>f
  <2>3. M = "random" /\ q.stage = "new" /\ Level(q) >= 4 => (v \in Prev(u, q) <=> Before(v, r, u, q))
    BY <1>d, <1>j DEF Known
  <2>4. Planning(q) /\ HeardOf(u, v, q) =>
          Level(r) >= 4 /\ RoundLevel(r) = Level(q) /\ r.pc # "prev"
    <3>1. Planning(q) /\ HeardOf(u, v, q) => RoundLevel(p) = Level(q)
      BY <1>d DEF Known
    <3>2. Level(r) >= 4
      BY <1>f
    <3> QED BY <3>1, <3>2, <1>c, <1>g
  <2>5. Planning(q) /\ HeardOf(u, v, q) /\ v \in Prev(u, q) => q.other_vehicles_buffer[v] = r.plan
    BY <1>c, <1>d DEF Known
  <2>6. Over(q) /\ Good(q) /\ v \in Prev(u, q) /\ Level(r) >= 4 /\ RoundLevel(r) = RoundLevel(q) =>
          q.other_vehicles_buffer[v] = r.plan
    <3>1. Level(p) >= 4
      BY <1>f
    <3> QED BY <3>1, <1>c, <1>d, <1>g DEF Known
  <2> QED BY <2>1, <2>2, <2>3, <2>4, <2>5, <2>6 DEF Known
<1>5. Trajectories(M, v, u, r, q, c["trajectory"])
  <2>1. ASSUME NEW m, Finals(v, u, p, q, m)
        PROVE  Finals(v, u, r, q, m)
    <3>1. /\ m.plan = q.plan /\ Level(q) >= 4 /\ q.pc # "prev" /\ Level(p) <= RoundLevel(q)
          /\ Level(p) < RoundLevel(q) => v \notin Prev(u, q)
          /\ m.has_collisions = TRUE => Over(q) /\ ~Good(q)
      BY <2>1 DEF Finals
    <3>2. Level(r) < RoundLevel(q) /\ Level(p) < RoundLevel(q) /\ Level(r) <= RoundLevel(q) /\ Level(r) # RoundLevel(q)
      BY <3>1, <1>b, <1>f
    <3> QED BY <3>1, <3>2 DEF Finals
  <2>2. ASSUME NEW m, Optimals(M, u, p, q, m)
        PROVE  FALSE
    BY <2>2, <1>f DEF Optimals
  <2> QED BY <1>a, <2>1, <2>2 DEF Pair, Trajectories
<1>6. Trajectories(M, u, v, q, r, d["trajectory"])
  <2>1. ASSUME NEW m, Finals(u, v, q, p, m)
        PROVE  Finals(u, v, q, r, m)
    <3>1. Level(r) >= 4 /\ r.pc # "prev"
      BY <1>c, <1>f
    <3> QED BY <2>1, <3>1, <1>c, <1>g, <1>h, <1>i DEF Finals
  <2>2. ASSUME NEW m, Optimals(M, v, q, p, m)
        PROVE  Optimals(M, v, q, r, m)
    <3>1. Level(r) >= 1
      BY <1>f
    <3> QED BY <2>2, <3>1 DEF Optimals
  <2> QED BY <1>a, <2>1, <2>2 DEF Pair, Trajectories
<1>7. Outcome(r, q, c["trajectory"])
  <2>1. /\ Over(q) /\ ~Good(q) /\ Level(p) <= RoundLevel(q) =>
             Len(c["trajectory"]) > 0 /\ c["trajectory"][Len(c["trajectory"])].has_collisions = TRUE
        /\ Over(q) /\ Good(q) => Level(p) > RoundLevel(q) \/ (Level(p) = RoundLevel(q) /\ p.pc # "prev")
    BY <1>a DEF Pair, Outcome
  <2>2. Level(r) <= RoundLevel(q) => Level(p) <= RoundLevel(q)
    BY <1>b, <1>f
  <2>3. Over(q) /\ Good(q) => Level(r) > RoundLevel(q)
    BY <2>1, <1>b, <1>f
  <2> QED BY <2>1, <2>2, <2>3 DEF Outcome
<1>8. Outcome(q, r, d["trajectory"])
  BY <1>a, <1>g, <1>h, <1>i DEF Pair, Outcome
<1>9. Syncs(u, r, q, c["sync"])
  <2>1. ASSUME NEW m, Synced(p, q, m)
        PROVE  Synced(r, q, m)
    <3>1. m.sync_id = 5 => Level(q) >= 3
      BY <2>1 DEF Synced
    <3>2. m.sync_id = 3 => /\ Level(q) = 6 \/ (Level(q) > 6 /\ Level(r) >= 6)
                           /\ Level(r) \in {5, 6} => (m.feasible = TRUE <=> Good(r))
                           /\ ~(Level(r) < 5)
      <4>1. m.sync_id = 3 => Level(q) = 6 \/ (Level(q) > 6 /\ Level(p) >= 6)
        BY <2>1 DEF Synced
      <4>2. m.sync_id = 3 /\ Level(p) \in {5, 6} => (m.feasible = TRUE <=> Good(p))
        BY <2>1 DEF Synced
      <4>3. Level(r) >= 6 /\ ~(Level(r) < 5) /\ (Level(r) \in {5, 6} => Level(p) \in {5, 6})
        BY <1>f
      <4> QED BY <4>1, <4>2, <4>3, <1>i
    <3>3. m.sync_id = 4 => /\ Level(q) = 9 \/ (Level(q) > 9 /\ Level(r) >= 9)
                           /\ Level(r) \in {8, 9} => (m.feasible = TRUE <=> Good(r))
                           /\ Level(r) < 8 => (m.feasible = TRUE <=> Good(q))
      <4>1. /\ m.sync_id = 4 => Level(q) = 9 \/ (Level(q) > 9 /\ Level(p) >= 9)
            /\ m.sync_id = 4 /\ Level(p) \in {8, 9} => (m.feasible = TRUE <=> Good(p))
            /\ m.sync_id = 4 /\ Level(p) < 8 => (m.feasible = TRUE <=> Good(q))
        BY <2>1 DEF Synced
      <4>2. /\ Level(p) >= 9 => Level(r) >= 9
            /\ Level(r) \in {8, 9} => Level(p) \in {8, 9}
            /\ Level(r) < 8 => Level(p) < 8
        BY <1>f
      <4> QED BY <4>1, <4>2, <1>i
    <3> QED BY <3>1, <3>2, <3>3 DEF Synced
  <2> QED BY <2>1, <1>a DEF Pair, Syncs
<1>10. Syncs(v, q, r, d["sync"])
  <2>1. ASSUME NEW m, Synced(q, p, m)
        PROVE  Synced(q, r, m)
    <3>1. /\ m.sync_id = 5 => Level(p) >= 3
          /\ m.sync_id = 3 => Level(p) = 6 \/ (Level(p) > 6 /\ Level(q) >= 6)
          /\ m.sync_id = 4 => Level(p) = 9 \/ (Level(p) > 9 /\ Level(q) >= 9)
      BY <2>1 DEF Synced
    <3>2. /\ m.sync_id = 5 => Level(r) >= 3
          /\ m.sync_id = 3 => Level(r) > 6 /\ Level(q) >= 6
          /\ m.sync_id # 4
      BY <3>1, <1>f
    <3>3. m.sync_id = 3 /\ Level(q) \in {5, 6} => (m.feasible = TRUE <=> Good(q))
      BY <2>1 DEF Synced
    <3>4. m.sync_id = 3 => ~(Level(q) < 5)
      BY <3>2, <1>b
    <3> QED BY <3>2, <3>3, <3>4 DEF Synced
  <2> QED BY <2>1, <1>a DEF Pair, Syncs
<1>11. Fcas(u, q, c["fca"]) /\ Fcas(v, r, d["fca"])
  <2>1. Level(r) >= 2
    BY <1>f
  <2> QED BY <2>1, <1>a, <1>c DEF Pair, Fcas
<1>12. ASSUME NEW m, m.sync_id = p.sync_id, m.feasible = p.feasible
       PROVE  Synced(q, r, m)
  <2>1. m.feasible = TRUE <=> Good(r)
    BY <1>12, <1>c, <1>i DEF Good
  <2>2. m.sync_id # 5 /\ (m.sync_id = 3 => Level(r) = 6) /\ (m.sync_id = 4 => Level(r) = 9)
    BY <1>12, <1>f
  <2>3. m.sync_id = 3 /\ Level(q) \in {5, 6} => (Good(r) <=> Good(q))
    <3>1. m.sync_id = 3 /\ Level(q) \in {5, 6} => Over(q) /\ RoundLevel(q) = 4 /\ RoundLevel(r) = 4
      <4>1. m.sync_id = 3 => RoundLevel(r) = 4
        BY <1>12, <1>f, <1>g
      <4>2. Level(q) \in {5, 6} => RoundLevel(q) = 4
        BY <1>b
      <4> QED BY <4>1, <4>2 DEF Over
    <3> QED BY <3>1, <1>1, <1>h DEF Barriers
  <2>4. m.sync_id = 4 /\ Level(q) \in {8, 9} => (Good(r) <=> Good(q))
    <3>1. m.sync_id = 4 /\ Level(q) \in {8, 9} => Over(q) /\ RoundLevel(q) = 7 /\ RoundLevel(r) = 7
      <4>1. m.sync_id = 4 => RoundLevel(r) = 7
        BY <1>12, <1>f, <1>g
      <4>2. Level(q) \in {8, 9} => RoundLevel(q) = 7
        BY <1>b
      <4> QED BY <4>1, <4>2 DEF Over
    <3> QED BY <3>1, <1>1, <1>h DEF Barriers
  <2> QED BY <2>1, <2>2, <2>3, <2>4 DEF Synced
<1> QED BY <1>1, <1>2, <1>3, <1>4, <1>5, <1>6, <1>7, <1>8, <1>9, <1>10, <1>11, <1>12 DEF Pair

(* With drawn priorities a round that worked for all is the last.          *)
Settles(u, p, r) ==
  /\ p.pc = "sync" /\ r.pc = "done" /\ p.sync_id = 3 /\ p.feasible = TRUE
  /\ r.stage = p.stage /\ r.prio_vec = p.prio_vec /\ r.old_prio_vec = p.old_prio_vec
  /\ r.own_fca = p.own_fca /\ r.plan = p.plan /\ r.follows > 0
  /\ r.other_vehicles_buffer = p.other_vehicles_buffer /\ u \in p.received_messages

LEMMA Settled ==
  ASSUME Fleet, NEW G, NEW v, NEW u, NEW p, NEW q, NEW r \in Planner, NEW c, NEW d,
         Two("random", G, v, u, p, q, c, d), Settles(u, p, r)
  PROVE  Pair("random", G, v, u, r, q, c) /\ Pair("random", G, u, v, q, r, d)
<1> DEFINE M == "random"
<1>a. Both(M, G, v, u, p, q) /\ Pair(M, G, v, u, p, q, c) /\ Pair(M, G, u, v, q, p, d)
  BY DEF Two
<1>b. /\ Level(q) \in 0 .. 11 /\ RoundLevel(q) \in {4, 7, 10}
      /\ Level(q) < 4 => RoundLevel(q) = 4
      /\ Level(q) >= 4 => Level(q) >= RoundLevel(q)
      /\ Over(q) => Level(q) >= 5 /\ Level(q) > RoundLevel(q)
      /\ RoundLevel(q) # 7
      /\ RoundLevel(q) = 10 => Level(q) \in {10, 11}
      /\ RoundLevel(q) = 4 => Level(q) <= 6 \/ (Level(q) = 11 /\ Good(q))
      /\ Planning(q) <=> Level(q) = RoundLevel(q)
      /\ q.stage \in {"new", "old", "last"}
  BY <1>a, BothLevels
<1>c. /\ r.pc = "done" /\ p.pc = "sync" /\ p.sync_id = 3
      /\ r.old_prio_vec = p.old_prio_vec /\ r.own_fca = p.own_fca /\ r.plan = p.plan
      /\ r.stage = p.stage /\ r.prio_vec = p.prio_vec
      /\ r.other_vehicles_buffer = p.other_vehicles_buffer
  BY DEF Settles
<1>d. /\ Barriers(M, G, p, q) /\ Barriers(M, G, q, p) /\ Known(M, v, u, p, q) /\ Known(M, u, v, q, p)
      /\ Local(M, G, v, p)
  BY <1>a DEF Both
<1>e. p.stage = "new"
  BY <1>c, <1>d DEF Local, Control, Waits, Plannings
<1>f. Level(p) = 6 /\ Level(r) = 11 /\ RoundLevel(p) = 4 /\ RoundLevel(r) = 4
  BY <1>c, <1>e DEF Level, RoundLevel
<1>g. Over(r) /\ Over(p) /\ ~Planning(r) /\ ~Planning(p) /\ Prev(v, r) = Prev(v, p)
  BY <1>c, <1>f DEF Over, Planning, Prev
<1>h. Good(r) /\ Good(p)
  BY DEF Settles, Good
<1>i. \A o : /\ Before(u, o, v, r) <=> Before(u, o, v, p)
             /\ Before(v, r, u, o) <=> Before(v, p, u, o)
  BY <1>c DEF Before
<1>j. Level(q) >= 6
  <2>1. p.pc = "sync" /\ u \in p.received_messages => Level(q) >= Level(p)
    BY <1>d DEF Known
  <2> QED BY <2>1, <1>f DEF Settles
<1>k. RoundLevel(q) = 4 /\ q.stage = "new" /\ Over(q)
  <2>1. Level(p) = 6 /\ Level(q) >= 7 => (Good(p) <=> q.stage = "new")
    BY <1>d DEF Barriers
  <2>2. Level(q) >= 7 => q.stage = "new"
    BY <2>1, <1>f, <1>h
  <2>3. q.stage # "new" => Level(q) >= 7
    BY <1>b DEF RoundLevel
  <2>4. q.stage = "new"
    BY <2>2, <2>3
  <2>5. RoundLevel(q) = 4
    BY <2>4 DEF RoundLevel
  <2> QED BY <2>4, <2>5, <1>b, <1>j DEF Over
<1>l. Good(q)
  BY <1>d, <1>f, <1>g, <1>h, <1>k DEF Barriers
<1>m. M # "id" /\ M # "vertex_ordering" /\ M = "random"
  OBVIOUS
<1> HIDE DEF M
<1>n. Level(q) = 6 \/ Level(q) = 11
  BY <1>b, <1>j, <1>k
<1>1. Barriers(M, G, r, q)
  <2>1. /\ r.old_prio_vec = q.old_prio_vec
        /\ M = "random" /\ Level(r) >= 4 => Level(q) >= 2
        /\ M # "id" /\ Level(r) >= 7 => Level(q) >= 6
    BY <1>c, <1>d, <1>n DEF Barriers
  <2>2. Level(r) # 6 /\ Level(r) # 9
    BY <1>f
  <2> QED BY <2>1, <2>2, <1>c, <1>e, <1>h, <1>k, <1>l, <1>m DEF Barriers
<1>2. Barriers(M, G, q, r)
  <2>1. /\ q.old_prio_vec = r.old_prio_vec
        /\ M = "random" /\ Level(q) >= 4 => Level(r) >= 2
        /\ M # "id" /\ Level(q) >= 7 => Level(r) >= 6
    BY <1>c, <1>d, <1>f DEF Barriers
  <2>2. Level(q) # 9 /\ ~(Level(r) \in 7 .. 9)
    BY <1>f, <1>n
  <2> QED BY <2>1, <2>2, <1>c, <1>e, <1>h, <1>k, <1>l, <1>m DEF Barriers
<1>3. Known(M, v, u, r, q)
  <2>1. r.stage = "new" => (u \in Prev(v, r) <=> Before(u, q, v, r))
    <3>1. Level(p) >= 4
      BY <1>f
    <3>2. M = "random" /\ p.stage = "new" => (u \in Prev(v, p) <=> Before(u, q, v, p))
      BY <3>1, <1>d DEF Known
    <3> QED BY <3>2, <1>e, <1>g, <1>i, <1>m
  <2>2. u \in Prev(v, r) /\ Level(q) >= 4 => r.other_vehicles_buffer[u] = q.plan
    BY <1>c, <1>d, <1>f, <1>g, <1>h, <1>k DEF Known
  <2> QED BY <2>1, <2>2, <1>c, <1>g DEF Known
<1>4. Known(M, u, v, q, r)
  <2>1. Level(r) >= 1 /\ Level(r) >= 2 /\ Level(r) >= 4 /\ Level(p) >= 4
    BY <1>f
  <2>2. /\ q.pc = "read fca" /\ v \in q.received_messages => q.fca[v] = r.own_fca
    BY <1>c, <1>d DEF Known
  <2>3. Level(r) >= Level(q)
    BY <1>b, <1>f
  <2>4. M = "random" /\ q.stage = "new" /\ Level(q) >= 4 => (v \in Prev(u, q) <=> Before(v, r, u, q))
    BY <1>d, <1>i DEF Known
  <2>5. ~Planning(q)
    BY <1>b, <1>k, <1>n
  <2>6. v \in Prev(u, q) => q.other_vehicles_buffer[v] = r.plan
    BY <2>1, <1>c, <1>d, <1>f, <1>k, <1>l DEF Known
  <2> QED BY <2>1, <2>2, <2>3, <2>4, <2>5, <2>6 DEF Known
<1>5. Trajectories(M, v, u, r, q, c["trajectory"])
  <2>1. ASSUME NEW m, Finals(v, u, p, q, m)
        PROVE  FALSE
    BY <2>1, <1>f, <1>k DEF Finals
  <2>2. ASSUME NEW m, Optimals(M, u, p, q, m)
        PROVE  FALSE
    BY <2>2, <1>f DEF Optimals
  <2> QED BY <1>a, <2>1, <2>2, <1>m DEF Pair, Trajectories, M
<1>6. Trajectories(M, u, v, q, r, d["trajectory"])
  <2>1. ASSUME NEW m, Finals(u, v, q, p, m)
        PROVE  FALSE
    BY <2>1, <1>f, <1>n DEF Finals
  <2>2. ASSUME NEW m, Optimals(M, v, q, p, m)
        PROVE  FALSE
    BY <2>2, <1>m DEF Optimals
  <2> QED BY <1>a, <2>1, <2>2, <1>m DEF Pair, Trajectories, M
<1>7. Outcome(r, q, c["trajectory"])
  <2>1. ~(Level(r) <= RoundLevel(q)) /\ Level(r) > RoundLevel(q)
    BY <1>f, <1>k
  <2> QED BY <2>1 DEF Outcome
<1>8. Outcome(q, r, d["trajectory"])
  <2>1. Level(q) > RoundLevel(r)
    BY <1>f, <1>n
  <2> QED BY <2>1, <1>h DEF Outcome
<1>9. Syncs(u, r, q, c["sync"])
  <2>1. ASSUME NEW m, Synced(p, q, m)
        PROVE  Synced(r, q, m)
    <3>1. /\ m.sync_id = 5 => Level(q) >= 3
          /\ m.sync_id = 3 => Level(q) = 6 \/ (Level(q) > 6 /\ Level(r) >= 6)
          /\ m.sync_id = 4 => Level(q) = 9 \/ (Level(q) > 9 /\ Level(r) >= 9)
      BY <2>1, <1>f, <1>n DEF Synced
    <3>2. Level(r) \notin {5, 6} /\ Level(r) \notin {8, 9} /\ ~(Level(r) < 5) /\ ~(Level(r) < 8)
      BY <1>f
    <3> QED BY <3>1, <3>2 DEF Synced
  <2> QED BY <2>1, <1>a DEF Pair, Syncs
<1>10. Syncs(v, q, r, d["sync"])
  <2>1. ASSUME NEW m, Synced(q, p, m)
        PROVE  Synced(q, r, m)
    <3>1. /\ m.sync_id = 5 => Level(r) >= 3
          /\ m.sync_id = 3 => Level(r) > 6 /\ Level(q) >= 6
          /\ m.sync_id # 4
      BY <2>1, <1>f, <1>n DEF Synced
    <3>2. m.sync_id = 3 /\ Level(q) \in {5, 6} => (m.feasible = TRUE <=> Good(q))
      BY <2>1 DEF Synced
    <3>3. m.sync_id = 3 => ~(Level(q) < 5)
      BY <3>1, <1>b
    <3> QED BY <3>1, <3>2, <3>3 DEF Synced
  <2> QED BY <2>1, <1>a DEF Pair, Syncs
<1>11. Fcas(u, q, c["fca"]) /\ Fcas(v, r, d["fca"])
  <2>1. Level(r) >= 2
    BY <1>f
  <2> QED BY <2>1, <1>a, <1>c DEF Pair, Fcas
<1> QED BY <1>1, <1>2, <1>3, <1>4, <1>5, <1>6, <1>7, <1>8, <1>9, <1>10, <1>11 DEF Pair, M

-----------------------------------------------------------------------------
(* A round                                                                 *)

Trajectory(m) == m.type \in {"Final", "Optimal"}

(* One who has heard all it waits for has no message unread.               *)
LEMMA AllRead ==
  ASSUME NEW M, NEW G, NEW v, NEW u, NEW p, NEW q, NEW s, NEW i \in 1 .. Len(s),
         Both(M, G, v, u, p, q), Trajectories(M, v, u, p, q, s), Planning(p), Heard(p),
         Trajectory(s[i])
  PROVE  s[i].from # u
<1> SUFFICES ASSUME s[i].from = u PROVE FALSE
  OBVIOUS
<1>1. Level(p) = RoundLevel(p) /\ RoundLevel(p) \in {4, 7, 10}
  BY BothLevels
<1>2. CASE s[i].type = "Final"
  <2>1. Finals(v, u, p, q, s[i])
    BY <1>2 DEF Trajectories
  <2>2. RoundLevel(q) = Level(p)
    BY <2>1, NotAhead DEF Finals
  <2>3. u \in p.wait /\ u \notin p.received_messages
    BY <2>1, <2>2 DEF Finals
  <2> QED BY <2>3 DEF Heard
<1>3. CASE s[i].type = "Optimal"
  <2>1. Optimals(M, u, p, q, s[i])
    BY <1>3 DEF Trajectories
  <2> QED BY <2>1, <1>1 DEF Optimals
<1> QED BY <1>2, <1>3 DEF Trajectory

(* Then nobody has ended the round of one that has not planned yet.        *)
LEMMA NobodyOver ==
  ASSUME NEW p, NEW q, NEW s, Outcome(p, q, s), Len(s) = 0, p.pc = "prev",
         Level(p) \in Int, RoundLevel(q) \in Int
  PROVE  ~(Over(q) /\ Level(p) <= RoundLevel(q))
BY DEF Outcome

(* Those who get the trajectory of one that plans have not planned, if it  *)
(* is before them, and wait for it if they are in the same round.          *)
Expected(u, v, q, p) ==
  /\ Level(q) <= Level(p)
  /\ Level(q) = Level(p) => v \notin q.received_messages /\ v \in q.wait
  /\ Level(q) < Level(p) => u \notin Prev(v, p)

LEMMA Expecting ==
  ASSUME Fleet, NEW M, NEW G, NEW v, NEW u, NEW p, NEW q, NEW c, NEW d, Two(M, G, v, u, p, q, c, d),
         p.pc = "prev", Heard(p), ~(Over(q) /\ Level(p) <= RoundLevel(q))
  PROVE  Expected(u, v, q, p)
<1>a. Both(M, G, v, u, p, q)
  BY DEF Two
<1>b. /\ M \in {"id", "random", "vertex_ordering"}
      /\ Level(q) \in 0 .. 11 /\ RoundLevel(q) \in {4, 7, 10}
      /\ Level(q) < 4 => RoundLevel(q) = 4
      /\ Level(q) >= 4 => Level(q) >= RoundLevel(q)
      /\ RoundLevel(q) = 7 => Level(q) \in 7 .. 9 /\ M = "vertex_ordering"
      /\ RoundLevel(q) = 10 => Level(q) \in {10, 11}
      /\ RoundLevel(q) = 4 => Level(q) <= 6 \/ (Level(q) = 11 /\ M = "random" /\ Good(q))
      /\ Planning(q) <=> Level(q) = RoundLevel(q)
      /\ p.stage \in {"new", "old", "last"} /\ q.stage \in {"new", "old", "last"}
  BY <1>a, BothLevels
<1>c. Planning(p) /\ Level(p) = RoundLevel(p) /\ RoundLevel(p) \in {4, 7, 10}
  <2>1. Planning(p)
    BY DEF Planning
  <2> QED BY <2>1, <1>a, BothLevels
<1>d. /\ Barriers(M, G, p, q) /\ Barriers(M, G, q, p) /\ Known(M, v, u, p, q) /\ Known(M, u, v, q, p)
      /\ Local(M, G, v, p) /\ Local(M, G, u, q)
      /\ G \in Order /\ v \in Vehicle /\ u \in Vehicle /\ u # v /\ p \in Planner /\ q \in Planner
  BY <1>a DEF Both
<1>e. p.wait = Prev(v, p) /\ (u \in Prev(v, p) => u \in p.received_messages)
  BY <1>d DEF Local, Control, Waits, Plannings, Heard
<1>f. u \in Prev(v, p) => Level(q) >= 4 /\ RoundLevel(q) = Level(p) /\ q.pc # "prev"
  BY <1>c, <1>d, <1>e DEF Known, HeardOf
<1>g. ~(Planning(q) /\ HeardOf(u, v, q))
  BY <1>d DEF Known
<1>1. Level(q) <= Level(p)
  <2> SUFFICES ASSUME Level(q) > Level(p) PROVE FALSE
    BY <1>b, <1>c
  <2>1. Level(q) >= 4
    BY <1>b, <1>c
  <2>2. CASE Level(p) <= RoundLevel(q)
    <3>1. RoundLevel(q) = Level(p)
      BY <2>1, <2>2, <1>a, <1>c, NotAhead
    <3> QED BY <3>1, <2>2, <1>b, <1>c DEF Over
  <2>3. CASE Level(p) > RoundLevel(q)
    <3>1. Level(p) = 10 /\ Level(q) = 11 /\ RoundLevel(q) = 4
      <4>1. RoundLevel(p) = 7 => M = "vertex_ordering"
        BY <1>a, BothLevels, Swapped
      <4>2. Level(p) = 10 \/ (Level(p) = 7 /\ M = "vertex_ordering")
        BY <4>1, <2>3, <1>b, <1>c
      <4>3. RoundLevel(q) = 7 => Level(p) = 10 /\ Level(q) \in 7 .. 9
        BY <4>2, <2>3, <1>b
      <4>4. RoundLevel(q) = 4
        BY <4>3, <2>3, <1>b, <1>c
      <4> QED BY <4>2, <4>4, <1>b, <1>c
    <3>2. p.stage = q.stage
      BY <3>1, <1>d DEF Barriers
    <3>3. RoundLevel(p) = RoundLevel(q)
      BY <3>2 DEF RoundLevel
    <3> QED BY <3>1, <3>3, <1>c
  <2> QED BY <2>2, <2>3, <1>b, <1>c
<1>2. ASSUME Level(q) = Level(p)
      PROVE  v \notin q.received_messages /\ v \in q.wait
  <2>1. RoundLevel(q) = Level(p) /\ Level(q) >= 4 /\ Level(p) >= 4
    <3>1. Level(q) >= 4 /\ Level(q) \in {4, 7, 10}
      BY <1>2, <1>c
    <3> QED BY <3>1, <1>2, <1>b
  <2>2. Planning(q)
    BY <2>1, <1>2, <1>b
  <2>3. v \notin q.received_messages
    BY <2>2, <1>g DEF HeardOf
  <2>4. u \in Prev(v, p) <=> v \notin Prev(u, q)
    <3>1. /\ M = "random" /\ p.stage = "new" => (u \in Prev(v, p) <=> Before(u, q, v, p))
          /\ M = "random" /\ q.stage = "new" => (v \in Prev(u, q) <=> Before(v, p, u, q))
      BY <2>1, <1>d DEF Known
    <3> QED BY <3>1, <2>1, <1>b, <1>c, <1>d, OneBefore
  <2>5. CASE q.pc = "prev"
    <3>1. q.wait = Prev(u, q)
      BY <2>5, <1>d DEF Local, Control, Waits, Plannings
    <3> QED BY <3>1, <2>3, <2>4, <2>5, <1>f
  <2>6. CASE q.pc = "ignored"
    <3>1. q.wait = Behinds(u, q) /\ q.prio_vec \in Order
      BY <2>6, <1>d DEF Local, Control, Waits, Plannings, Planner
    <3>2. Behinds(u, q) = Vehicle \ (Prev(u, q) \cup {u})
      BY <3>1, <1>d, Permuted DEF Behinds, Prev
    <3>3. v \notin Prev(u, q)
      BY <2>2, <2>6, <1>g DEF HeardOf
    <3> QED BY <3>1, <3>2, <3>3, <2>3, <1>d
  <2> QED BY <2>2, <2>5, <2>6 DEF Planning
<1>3. Level(q) < Level(p) => u \notin Prev(v, p)
  BY <1>b, <1>c, <1>f
<1> QED BY <1>1, <1>2, <1>3 DEF Expected

(* One that plans has no trajectory of this time step on its way.          *)
LEMMA NoneSent ==
  ASSUME NEW M, NEW G, NEW v, NEW u, NEW p, NEW q, NEW s, NEW i \in 1 .. Len(s),
         Both(M, G, v, u, p, q), Trajectories(M, u, v, q, p, s), p.pc = "prev",
         Trajectory(s[i])
  PROVE  s[i].from # v
<1> SUFFICES ASSUME s[i].from = v PROVE FALSE
  OBVIOUS
<1>1. CASE s[i].type = "Final"
  BY <1>1 DEF Trajectories, Finals
<1>2. CASE s[i].type = "Optimal"
  <2>1. M = "vertex_ordering" /\ Level(q) <= 1
    BY <1>2 DEF Trajectories, Optimals
  <2>2. Level(p) >= 4
    <3>1. Level(p) = RoundLevel(p)
      BY DEF Level
    <3>2. RoundLevel(p) \in {4, 7, 10}
      BY BothLevels
    <3> QED BY <3>1, <3>2
  <2>3. Level(q) >= 3
    BY <2>1, <2>2 DEF Both, Barriers
  <2>4. Level(q) \in 0 .. 11
    BY BothLevels
  <2> QED BY <2>1, <2>3, <2>4
<1> QED BY <1>1, <1>2 DEF Trajectory

(* One that has planned goes on to those behind.                           *)
Plans(v, p, r) ==
  /\ p.pc = "prev" /\ r.pc = "ignored" /\ r.received_messages = {} /\ r.wait = Behinds(v, r)
  /\ r.stage = p.stage /\ r.prio_vec = p.prio_vec /\ r.old_prio_vec = p.old_prio_vec
  /\ r.own_fca = p.own_fca /\ r.other_vehicles_buffer = p.other_vehicles_buffer

LEMMA Planned ==
  ASSUME Fleet, NEW M, NEW G, NEW v, NEW u, NEW p, NEW q, NEW r \in Planner, NEW c, NEW d,
         Two(M, G, v, u, p, q, c, d), Plans(v, p, r), Heard(p),
         ~(Over(q) /\ Level(p) <= RoundLevel(q)),
         \A i \in 1 .. Len(c["trajectory"]) : c["trajectory"][i].from # u,
         \A i \in 1 .. Len(d["trajectory"]) : d["trajectory"][i].from # v
  PROVE  /\ Pair(M, G, v, u, r, q, c) /\ Pair(M, G, u, v, q, r, d)
         /\ \A m : m.plan = r.plan /\ m.has_collisions = FALSE => Finals(u, v, q, r, m)
<1>a. Both(M, G, v, u, p, q) /\ Pair(M, G, v, u, p, q, c) /\ Pair(M, G, u, v, q, p, d)
  BY DEF Two
<1>b. /\ r.pc = "ignored" /\ p.pc = "prev" /\ r.received_messages = {}
      /\ r.old_prio_vec = p.old_prio_vec /\ r.own_fca = p.own_fca
      /\ r.stage = p.stage /\ r.prio_vec = p.prio_vec
      /\ r.other_vehicles_buffer = p.other_vehicles_buffer
  BY DEF Plans
<1>c. RoundLevel(r) = RoundLevel(p) /\ Level(r) = RoundLevel(r) /\ Level(p) = RoundLevel(p)
      /\ RoundLevel(p) \in {4, 7, 10}
  <2>1. RoundLevel(r) = RoundLevel(p) /\ Level(r) = RoundLevel(r) /\ Level(p) = RoundLevel(p)
    BY <1>b DEF Level, RoundLevel
  <2> QED BY <2>1, <1>a, BothLevels
<1>d. /\ Level(q) \in 0 .. 11 /\ RoundLevel(q) \in {4, 7, 10}
      /\ Over(q) => Level(q) > RoundLevel(q)
  BY <1>a, BothLevels
<1>e. /\ Barriers(M, G, p, q) /\ Barriers(M, G, q, p) /\ Known(M, v, u, p, q) /\ Known(M, u, v, q, p)
      /\ Local(M, G, v, p)
  BY <1>a DEF Both
<1>f. /\ ~Over(r) /\ ~Over(p) /\ Planning(r) /\ Planning(p) /\ Prev(v, r) = Prev(v, p)
      /\ Level(r) = Level(p) /\ Level(r) >= 1 /\ Level(r) >= 4 /\ Level(r) # 6 /\ Level(r) # 9
  BY <1>b, <1>c DEF Over, Planning, Prev
<1>g. \A o : /\ Before(u, o, v, r) <=> Before(u, o, v, p)
             /\ Before(v, r, u, o) <=> Before(v, p, u, o)
  BY <1>b DEF Before
<1>h. Expected(u, v, q, p)
  BY <1>b, Expecting
<1>1. Barriers(M, G, r, q)
  BY <1>b, <1>c, <1>e, <1>f DEF Barriers
<1>2. Barriers(M, G, q, r)
  BY <1>b, <1>c, <1>e, <1>f DEF Barriers
<1>3. Known(M, v, u, r, q)
  <2>1. M = "random" /\ r.stage = "new" => (u \in Prev(v, r) <=> Before(u, q, v, r))
    BY <1>b, <1>e, <1>f, <1>g DEF Known
  <2>2. HeardOf(v, u, r) => HeardOf(v, u, p) /\ u \in Prev(v, p)
    <3>1. p.wait = Prev(v, p)
      BY <1>b, <1>e DEF Local, Control, Waits, Plannings
    <3> QED BY <3>1, <1>b, <1>f DEF HeardOf, Heard
  <2>3. HeardOf(v, u, r) => Level(q) >= 4 /\ RoundLevel(q) = Level(r) /\ q.pc # "prev"
    BY <2>2, <1>e, <1>f DEF Known
  <2>4. HeardOf(v, u, r) => r.other_vehicles_buffer[u] = q.plan
    BY <2>2, <1>b, <1>e, <1>f DEF Known
  <2> QED BY <2>1, <2>3, <2>4, <1>b, <1>f DEF Known
<1>4. Known(M, u, v, q, r)
  <2>1. Level(r) >= 2
    BY <1>c
  <2>2. /\ q.pc = "read fca" /\ v \in q.received_messages => q.fca[v] = r.own_fca
        /\ q.pc = "sync" /\ v \in q.received_messages => Level(r) >= Level(q)
        /\ M = "random" /\ q.stage = "new" /\ Level(q) >= 4 => (v \in Prev(u, q) <=> Before(v, r, u, q))
    BY <1>b, <1>e, <1>f, <1>g DEF Known
  <2>3. ~(Planning(q) /\ HeardOf(u, v, q))
    BY <1>b, <1>e DEF Known
  <2>4. ~(Over(q) /\ RoundLevel(r) = RoundLevel(q))
    BY <1>c, <1>d
  <2> QED BY <2>1, <2>2, <2>3, <2>4, <1>f DEF Known
<1>5. Trajectories(M, v, u, r, q, c["trajectory"]) /\ Trajectories(M, u, v, q, r, d["trajectory"])
  BY DEF Trajectories
<1>6. Outcome(r, q, c["trajectory"]) /\ Outcome(q, r, d["trajectory"])
  BY <1>a, <1>b, <1>f DEF Pair, Outcome
<1>7. Syncs(u, r, q, c["sync"]) /\ Syncs(v, q, r, d["sync"])
  <2>1. \A m : Synced(p, q, m) => Synced(r, q, m)
    BY <1>c, <1>f DEF Synced
  <2>2. ASSUME NEW m, Synced(q, p, m)
        PROVE  Synced(q, r, m)
    <3>1. /\ m.sync_id = 5 => Level(r) >= 3
          /\ m.sync_id = 3 => Level(r) > 6 /\ Level(q) >= 6
          /\ m.sync_id = 4 => Level(r) > 9 /\ Level(q) >= 9
      BY <2>2, <1>c, <1>f DEF Synced
    <3>2. /\ m.sync_id = 3 /\ Level(q) \in {5, 6} => (m.feasible = TRUE <=> Good(q))
          /\ m.sync_id = 4 /\ Level(q) \in {8, 9} => (m.feasible = TRUE <=> Good(q))
      BY <2>2 DEF Synced
    <3>3. (m.sync_id = 3 => ~(Level(q) < 5)) /\ (m.sync_id = 4 => ~(Level(q) < 8))
      BY <3>1, <1>d
    <3> QED BY <3>1, <3>2, <3>3 DEF Synced
  <2> QED BY <1>a, <2>1, <2>2 DEF Pair, Syncs
<1>8. Fcas(u, q, c["fca"]) /\ Fcas(v, r, d["fca"])
  BY <1>a, <1>b, <1>f DEF Pair, Fcas
<1>9. ASSUME NEW m, m.plan = r.plan, m.has_collisions = FALSE
      PROVE  Finals(u, v, q, r, m)
  <2>1. /\ Level(q) <= RoundLevel(r)
        /\ Level(q) = RoundLevel(r) => v \notin q.received_messages /\ v \in q.wait
        /\ Level(q) < RoundLevel(r) => u \notin Prev(v, r)
    BY <1>c, <1>f, <1>h DEF Expected
  <2>2. m.has_collisions # TRUE
    BY <1>9
  <2> QED BY <2>1, <2>2, <1>9, <1>b, <1>f DEF Finals
<1> QED BY <1>1, <1>2, <1>3, <1>4, <1>5, <1>6, <1>7, <1>8, <1>9 DEF Pair

(* A round ends for one: it works or it does not.                          *)
Ends(v, p, r) ==
  /\ Planning(p) /\ r.pc \in {"announce", "done"}
  /\ r.pc = "done" => p.stage = "last"
  /\ r.pc = "announce" => \/ p.stage = "new" /\ r.sync_id = 3
                          \/ p.stage = "old" /\ r.sync_id = 4
  /\ r.stage = p.stage /\ r.prio_vec = p.prio_vec /\ r.old_prio_vec = p.old_prio_vec
  /\ r.own_fca = p.own_fca /\ r.other_vehicles_buffer = p.other_vehicles_buffer
  /\ p.pc = "ignored" => r.plan = p.plan

(* Where one that plans may go when the round ends.                        *)
Ending(M, from, to, round) ==
  \/ M # "id" /\ from = 4 /\ to = 5 /\ round = 4
  \/ M = "vertex_ordering" /\ from = 7 /\ to = 8 /\ round = 7
  \/ from = 10 /\ to = 11 /\ round = 10

LEMMA Endings ==
  ASSUME NEW M, NEW G, NEW v, NEW u, NEW p, NEW q, NEW r, Both(M, G, v, u, p, q), Ends(v, p, r)
  PROVE  /\ Ending(M, Level(p), Level(r), RoundLevel(p))
         /\ RoundLevel(r) = RoundLevel(p) /\ Over(r) /\ ~Over(p) /\ ~Planning(r)
<1>1. /\ Level(p) = RoundLevel(p) /\ p.stage \in {"new", "old", "last"}
      /\ RoundLevel(p) = 7 => M = "vertex_ordering"
      /\ M = "id" => Level(p) = 0 \/ RoundLevel(p) = 10
  BY BothLevels, Swapped DEF Ends
<1>2. RoundLevel(r) = RoundLevel(p)
  BY DEF Ends, RoundLevel
<1>3. /\ r.pc = "done" => p.stage = "last" /\ Level(r) = 11
      /\ r.pc = "announce" => \/ p.stage = "new" /\ Level(r) = 5
                              \/ p.stage = "old" /\ Level(r) = 8
  <2>1. CASE r.pc = "done"
    BY <2>1 DEF Ends, Level
  <2>2. CASE r.pc = "announce"
    <3>1. (p.stage = "new" /\ r.sync_id = 3) \/ (p.stage = "old" /\ r.sync_id = 4)
      BY <2>2 DEF Ends
    <3>2. r.sync_id = 3 => Level(r) = 5
      BY <2>2 DEF Level
    <3>3. r.sync_id = 4 => Level(r) = 8
      BY <2>2 DEF Level
    <3> QED BY <2>2, <3>1, <3>2, <3>3
  <2>3. r.pc \in {"announce", "done"}
    BY DEF Ends
  <2> QED BY <2>1, <2>2, <2>3
<1>4. /\ p.stage = "new" => RoundLevel(p) = 4
      /\ p.stage = "old" => RoundLevel(p) = 7
      /\ p.stage = "last" => RoundLevel(p) = 10
  BY DEF RoundLevel
<1>5. r.pc \in {"announce", "done"}
  BY DEF Ends
<1>6. Ending(M, Level(p), Level(r), RoundLevel(p))
  BY <1>1, <1>3, <1>4, <1>5 DEF Ending
<1>7. Level(r) > RoundLevel(r) /\ ~(Level(p) > RoundLevel(p)) /\ ~Planning(r)
  BY <1>1, <1>2, <1>5, <1>6 DEF Ending, Planning
<1> QED BY <1>2, <1>6, <1>7 DEF Over

LEMMA Ended ==
  ASSUME Fleet, NEW M, NEW G, NEW v, NEW u, NEW p, NEW q, NEW r \in Planner, NEW c, NEW d, NEW cc, NEW dd,
         Two(M, G, v, u, p, q, c, d), Ends(v, p, r),
         \A i \in 1 .. Len(cc["trajectory"]) : cc["trajectory"][i].from # u,
         cc["sync"] = c["sync"], cc["fca"] = c["fca"], dd["sync"] = d["sync"], dd["fca"] = d["fca"],
         Trajectories(M, u, v, q, r, dd["trajectory"]), Outcome(q, r, dd["trajectory"]),
         Over(q) /\ RoundLevel(q) = Level(p) => (Good(r) <=> Good(q)),
         Good(r) => p.pc = "ignored"
  PROVE  Pair(M, G, v, u, r, q, cc) /\ Pair(M, G, u, v, q, r, dd)
<1>a. Both(M, G, v, u, p, q) /\ Pair(M, G, v, u, p, q, c) /\ Pair(M, G, u, v, q, p, d)
  BY DEF Two
<1>b. /\ r.pc \in {"announce", "done"} /\ p.pc \in {"prev", "ignored"}
      /\ r.old_prio_vec = p.old_prio_vec /\ r.own_fca = p.own_fca
      /\ r.stage = p.stage /\ r.prio_vec = p.prio_vec
      /\ r.other_vehicles_buffer = p.other_vehicles_buffer
      /\ p.pc = "ignored" => r.plan = p.plan
  BY DEF Ends, Planning
<1>c. /\ Ending(M, Level(p), Level(r), RoundLevel(p))
      /\ RoundLevel(r) = RoundLevel(p) /\ Over(r) /\ ~Over(p) /\ ~Planning(r)
  BY <1>a, Endings
<1>d. /\ M \in {"id", "random", "vertex_ordering"}
      /\ Level(q) \in 0 .. 11 /\ RoundLevel(q) \in {4, 7, 10}
      /\ Level(q) < 4 => RoundLevel(q) = 4
      /\ Level(q) >= 4 => Level(q) >= RoundLevel(q)
      /\ Over(q) => Level(q) >= 5 /\ Level(q) > RoundLevel(q)
  BY <1>a, BothLevels
<1>e. /\ Barriers(M, G, p, q) /\ Barriers(M, G, q, p) /\ Known(M, v, u, p, q) /\ Known(M, u, v, q, p)
      /\ Local(M, G, v, p)
  BY <1>a DEF Both
<1>f. Planning(p) /\ Prev(v, r) = Prev(v, p)
  BY <1>b DEF Planning, Prev
<1>g. \A o : /\ Before(u, o, v, r) <=> Before(u, o, v, p)
             /\ Before(v, r, u, o) <=> Before(v, p, u, o)
  BY <1>b DEF Before
<1>h. Level(p) \in {4, 7, 10} /\ Level(r) = Level(p) + 1 /\ RoundLevel(p) = Level(p)
  BY <1>c DEF Ending
<1>i. Over(q) /\ Good(q) => Level(p) >= RoundLevel(q) /\ (p.pc = "prev" => Level(p) > RoundLevel(q))
  <2>1. Over(q) /\ Good(q) => Level(p) > RoundLevel(q) \/ (Level(p) = RoundLevel(q) /\ p.pc # "prev")
    BY <1>a DEF Pair, Outcome
  <2> QED BY <2>1, <1>d, <1>h
<1>1. Barriers(M, G, r, q)
  <2>1. /\ r.old_prio_vec = q.old_prio_vec
        /\ M = "random" /\ Level(r) >= 4 => Level(q) >= 2
        /\ M = "vertex_ordering" /\ Level(r) >= 2 => Level(q) >= 1
        /\ M = "vertex_ordering" /\ Level(r) >= 4 => Level(q) >= 3
        /\ M # "id" /\ Level(r) >= 7 => Level(q) >= 6
        /\ M = "vertex_ordering" /\ Level(r) >= 10 => Level(q) \notin {7, 8}
    BY <1>b, <1>e, <1>h DEF Barriers
  <2>2. Over(q) /\ RoundLevel(q) = RoundLevel(r) => (Good(r) <=> Good(q))
    BY <1>c, <1>h
  <2>3. Level(r) # 6 /\ Level(r) # 9
    BY <1>h
  <2>4. Level(r) >= 10 => Level(p) >= 10
    BY <1>h
  <2>5. Level(r) >= 10 /\ Level(q) >= 10 =>
          r.stage = q.stage /\ (M = "vertex_ordering" => r.prio_vec = q.prio_vec)
    BY <2>4, <1>b, <1>e DEF Barriers
  <2> QED BY <2>1, <2>2, <2>3, <2>5 DEF Barriers
<1>2. Barriers(M, G, q, r)
  <2>1. /\ q.old_prio_vec = r.old_prio_vec
        /\ M = "random" /\ Level(q) >= 4 => Level(r) >= 2
        /\ M = "vertex_ordering" /\ Level(q) >= 2 => Level(r) >= 1
        /\ M = "vertex_ordering" /\ Level(q) >= 4 => Level(r) >= 3
        /\ M # "id" /\ Level(q) >= 7 => Level(r) >= 6
        /\ M = "vertex_ordering" /\ Level(q) >= 10 => Level(r) \notin {7, 8}
    BY <1>b, <1>e, <1>h DEF Barriers
  <2>2. Over(q) /\ RoundLevel(q) = RoundLevel(r) => (Good(q) <=> Good(r))
    BY <1>c, <1>h
  <2>3. /\ Level(r) >= 7 => Level(p) >= 7
        /\ Level(r) \in 7 .. 9 => Level(p) \in 7 .. 9
        /\ Level(r) >= 10 => Level(p) >= 10
    BY <1>h
  <2>4. /\ Level(q) = 6 /\ Level(r) >= 7 /\ M = "random" => (Good(q) <=> r.stage = "new")
        /\ Level(q) = 6 /\ Level(r) \in 7 .. 9 => ~Good(q)
        /\ Level(q) = 6 /\ Level(r) >= 10 /\ M = "vertex_ordering" => Good(q) /\ r.prio_vec = G
    BY <2>3, <1>b, <1>e DEF Barriers
  <2>5. /\ Level(q) = 9 /\ Level(r) >= 10 => r.prio_vec = r.old_prio_vec
        /\ Level(q) >= 10 /\ Level(r) >= 10 =>
             q.stage = r.stage /\ (M = "vertex_ordering" => q.prio_vec = r.prio_vec)
    BY <2>3, <1>b, <1>e DEF Barriers
  <2> QED BY <2>1, <2>2, <2>4, <2>5 DEF Barriers
<1>3. Known(M, v, u, r, q)
  <2>1. Level(p) >= 4
    BY <1>h
  <2>2. M = "random" /\ r.stage = "new" => (u \in Prev(v, r) <=> Before(u, q, v, r))
    BY <2>1, <1>b, <1>e, <1>f, <1>g DEF Known
  <2>3. Good(r) /\ u \in Prev(v, r) => r.other_vehicles_buffer[u] = q.plan
    <3>1. Good(r) /\ u \in Prev(v, r) => HeardOf(v, u, p) /\ u \in Prev(v, p)
      BY <1>f DEF HeardOf
    <3> QED BY <3>1, <1>b, <1>e, <1>f DEF Known
  <2> QED BY <2>2, <2>3, <1>b, <1>c DEF Known
<1>4. Known(M, u, v, q, r)
  <2>1. Level(r) >= 1 /\ Level(r) >= 2 /\ Level(r) >= 4 /\ Level(p) >= 4
    BY <1>h
  <2>2. /\ q.pc = "read fca" /\ v \in q.received_messages => q.fca[v] = r.own_fca
        /\ M = "random" /\ q.stage = "new" /\ Level(q) >= 4 => (v \in Prev(u, q) <=> Before(v, r, u, q))
    BY <1>b, <1>e, <1>g DEF Known
  <2>3. q.pc = "sync" /\ v \in q.received_messages => Level(r) >= Level(q)
    <3>1. q.pc = "sync" /\ v \in q.received_messages => Level(p) >= Level(q)
      BY <1>e DEF Known
    <3> QED BY <3>1, <1>d, <1>h
  <2>4. Planning(q) /\ HeardOf(u, v, q) => RoundLevel(r) = Level(q) /\ p.pc # "prev" /\ r.pc # "prev"
    BY <1>b, <1>c, <1>e DEF Known
  <2>5. Planning(q) /\ HeardOf(u, v, q) /\ v \in Prev(u, q) => q.other_vehicles_buffer[v] = r.plan
    <3>1. Planning(q) /\ HeardOf(u, v, q) /\ v \in Prev(u, q) => q.other_vehicles_buffer[v] = p.plan
      BY <1>e DEF Known
    <3> QED BY <3>1, <2>4, <1>b
  <2>6. Over(q) /\ Good(q) /\ v \in Prev(u, q) /\ RoundLevel(r) = RoundLevel(q) =>
          q.other_vehicles_buffer[v] = r.plan
    <3>1. Over(q) /\ Good(q) /\ RoundLevel(r) = RoundLevel(q) => p.pc = "ignored"
      BY <1>b, <1>c, <1>h, <1>i
    <3>2. Over(q) /\ Good(q) /\ v \in Prev(u, q) /\ RoundLevel(p) = RoundLevel(q) =>
            q.other_vehicles_buffer[v] = p.plan
      BY <2>1, <1>e DEF Known
    <3> QED BY <3>1, <3>2, <1>b, <1>c
  <2> QED BY <2>1, <2>2, <2>3, <2>4, <2>5, <2>6 DEF Known
<1>5. Trajectories(M, v, u, r, q, cc["trajectory"])
  BY DEF Trajectories
<1>6. Outcome(r, q, cc["trajectory"])
  <2>1. Over(q) /\ Good(q) => Level(r) > RoundLevel(q)
    BY <1>d, <1>h, <1>i
  <2>2. ~(Over(q) /\ Level(r) <= RoundLevel(q))
    <3> SUFFICES ASSUME Over(q), Level(r) <= RoundLevel(q) PROVE FALSE
      OBVIOUS
    <3>1. Level(q) >= 4 /\ Level(p) <= RoundLevel(q) /\ Level(p) # RoundLevel(q)
      BY <1>d, <1>h
    <3>2. RoundLevel(q) = Level(p)
      BY <3>1, <1>a, <1>f, NotAhead
    <3> QED BY <3>1, <3>2
  <2> QED BY <2>1, <2>2 DEF Outcome
<1>7. Syncs(u, r, q, cc["sync"])
  <2>1. ASSUME NEW m, Synced(p, q, m)
        PROVE  Synced(r, q, m)
    <3>1. m.sync_id = 5 => Level(q) >= 3
      BY <2>1 DEF Synced
    <3>2. m.sync_id = 3 => /\ Level(q) = 6 \/ (Level(q) > 6 /\ Level(r) >= 6)
                           /\ Level(r) \in {5, 6} => (m.feasible = TRUE <=> Good(r))
                           /\ ~(Level(r) < 5)
      <4>1. m.sync_id = 3 => Level(q) = 6 \/ (Level(q) > 6 /\ Level(p) >= 6)
        BY <2>1 DEF Synced
      <4>2. m.sync_id = 3 /\ Level(p) < 5 => (m.feasible = TRUE <=> Good(q))
        BY <2>1 DEF Synced
      <4>3. (Level(p) >= 6 => Level(r) >= 6) /\ ~(Level(r) < 5)
        BY <1>h
      <4>4. Level(r) \in {5, 6} => Level(p) = 4
        BY <1>h
      <4>5. m.sync_id = 3 /\ Level(r) \in {5, 6} => (m.feasible = TRUE <=> Good(r))
        <5> SUFFICES ASSUME m.sync_id = 3, Level(r) \in {5, 6}
                     PROVE  m.feasible = TRUE <=> Good(r)
          OBVIOUS
        <5>1. Level(p) = 4 /\ Level(p) < 5 /\ ~(Level(p) >= 6)
          BY <4>4
        <5>2. Level(q) = 6
          BY <4>1, <5>1
        <5>3. RoundLevel(q) = 4 /\ Over(q)
          <6>1. RoundLevel(q) = 4
            BY <5>2, <1>a, BothLevels
          <6> QED BY <6>1, <5>2 DEF Over
        <5>4. Good(r) <=> Good(q)
          BY <5>1, <5>3
        <5> QED BY <4>2, <5>1, <5>4
      <4> QED BY <4>1, <4>3, <4>5
    <3>3. m.sync_id = 4 => /\ Level(q) = 9 \/ (Level(q) > 9 /\ Level(r) >= 9)
                           /\ Level(r) \in {8, 9} => (m.feasible = TRUE <=> Good(r))
                           /\ Level(r) < 8 => (m.feasible = TRUE <=> Good(q))
      <4>1. m.sync_id = 4 => Level(q) = 9 \/ (Level(q) > 9 /\ Level(p) >= 9)
        BY <2>1 DEF Synced
      <4>2. m.sync_id = 4 /\ Level(p) < 8 => (m.feasible = TRUE <=> Good(q))
        BY <2>1 DEF Synced
      <4>3. (Level(p) >= 9 => Level(r) >= 9) /\ (Level(r) < 8 => Level(p) < 8)
        BY <1>h
      <4>4. Level(r) \in {8, 9} => Level(p) = 7
        BY <1>h
      <4>5. m.sync_id = 4 /\ Level(r) \in {8, 9} => (m.feasible = TRUE <=> Good(r))
        <5> SUFFICES ASSUME m.sync_id = 4, Level(r) \in {8, 9}
                     PROVE  m.feasible = TRUE <=> Good(r)
          OBVIOUS
        <5>1. Level(p) = 7 /\ Level(p) < 8 /\ ~(Level(p) >= 9)
          BY <4>4
        <5>2. Level(q) = 9
          BY <4>1, <5>1
        <5>3. RoundLevel(q) = 7 /\ Over(q)
          <6>1. RoundLevel(q) = 7
            BY <5>2, <1>a, BothLevels
          <6> QED BY <6>1, <5>2 DEF Over
        <5>4. Good(r) <=> Good(q)
          BY <5>1, <5>3
        <5> QED BY <4>2, <5>1, <5>4
      <4> QED BY <4>1, <4>2, <4>3, <4>5
    <3> QED BY <3>1, <3>2, <3>3 DEF Synced
  <2> QED BY <2>1, <1>a DEF Pair, Syncs
<1>8. Syncs(v, q, r, dd["sync"])
  <2>1. ASSUME NEW m, Synced(q, p, m)
        PROVE  Synced(q, r, m)
    <3>1. /\ m.sync_id = 5 => Level(p) >= 3
          /\ m.sync_id = 3 => Level(p) = 6 \/ (Level(p) > 6 /\ Level(q) >= 6)
          /\ m.sync_id = 4 => Level(p) = 9 \/ (Level(p) > 9 /\ Level(q) >= 9)
      BY <2>1 DEF Synced
    <3>2. /\ m.sync_id = 5 => Level(r) >= 3
          /\ m.sync_id = 3 => Level(r) > 6 /\ Level(q) >= 6
          /\ m.sync_id = 4 => Level(r) > 9 /\ Level(q) >= 9
      BY <3>1, <1>h
    <3>3. /\ m.sync_id = 3 /\ Level(q) \in {5, 6} => (m.feasible = TRUE <=> Good(q))
          /\ m.sync_id = 4 /\ Level(q) \in {8, 9} => (m.feasible = TRUE <=> Good(q))
      BY <2>1 DEF Synced
    <3>4. (m.sync_id = 3 => ~(Level(q) < 5)) /\ (m.sync_id = 4 => ~(Level(q) < 8))
      BY <3>2, <1>d
    <3> QED BY <3>2, <3>3, <3>4 DEF Synced
  <2> QED BY <2>1, <1>a DEF Pair, Syncs
<1>9. Fcas(u, q, cc["fca"]) /\ Fcas(v, r, dd["fca"])
  <2>1. Level(r) >= 2
    BY <1>h
  <2> QED BY <2>1, <1>a, <1>b DEF Pair, Fcas
<1> QED BY <1>1, <1>2, <1>3, <1>4, <1>5, <1>6, <1>7, <1>8, <1>9 DEF Pair

(* The trajectories of one whose plan is the same.                         *)
LEMMA EndedTrajectories ==
  ASSUME Fleet, NEW M, NEW G, NEW v, NEW u, NEW p, NEW q, NEW r, NEW s,
         Both(M, G, v, u, p, q), Ends(v, p, r), r.plan = p.plan, Trajectories(M, u, v, q, p, s)
  PROVE  Trajectories(M, u, v, q, r, s)
<1>1. /\ Ending(M, Level(p), Level(r), RoundLevel(p))
      /\ RoundLevel(r) = RoundLevel(p) /\ Over(r) /\ ~Over(p)
  BY Endings
<1>2. r.pc # "prev" /\ Prev(v, r) = Prev(v, p) /\ Level(r) >= 4 /\ Level(r) >= 1
  <2>1. r.pc # "prev" /\ Prev(v, r) = Prev(v, p)
    BY DEF Ends, Prev
  <2> QED BY <2>1, <1>1 DEF Ending
<1>3. \A m : Finals(u, v, q, p, m) => Finals(u, v, q, r, m)
  BY <1>1, <1>2 DEF Finals
<1>4. \A m : Optimals(M, v, q, p, m) => Optimals(M, v, q, r, m)
  BY <1>2 DEF Optimals
<1> QED BY <1>3, <1>4 DEF Trajectories

-----------------------------------------------------------------------------
(* The parts of the planning                                               *)

LEMMA StaticFields ==
  ASSUME Fleet, NEW p \in Planner, NEW v \in Vehicle, NEW stage \in {"new", "old", "last"},
         NEW r, r = Static(p, v, stage)
  PROVE  /\ r.pc = "prev" /\ r.stage = stage /\ r.wait = Prev(v, r) /\ r.received_messages = {}
         /\ r.prio_vec = p.prio_vec /\ r.old_prio_vec = p.old_prio_vec
         /\ r.own_fca = p.own_fca /\ r.plan = p.plan
         /\ r.follows = p.follows /\ r.stopFlag = p.stopFlag
         /\ r \in Planner
<1>1. PrevVehicles(p.prio_vec, v) \in SUBSET Vehicle
  BY Permuted DEF Planner
<1>2. Nobody \in [Vehicle -> Plan]
  BY DEF Nobody, Plan
<1> QED BY <1>1, <1>2 DEF Static, Waiting, Planner, Prev

LEMMA AnnounceFields ==
  ASSUME NEW p \in Planner, NEW v \in Vehicle, NEW id \in SyncId, NEW feasible \in BOOLEAN,
         NEW r, r = Announce(p, id, feasible, Vehicle, v)
  PROVE  /\ r.pc = "announce" /\ r.sync_id = id /\ r.feasible = feasible
         /\ r.wait = Vehicle /\ r.received_messages = {v}
         /\ r.stage = p.stage /\ r.prio_vec = p.prio_vec /\ r.old_prio_vec = p.old_prio_vec
         /\ r.own_fca = p.own_fca /\ r.plan = p.plan
         /\ r.other_vehicles_buffer = p.other_vehicles_buffer
         /\ r.follows = p.follows /\ r.stopFlag = p.stopFlag
         /\ r \in Planner
BY DEF Announce, Waiting, Planner

LEMMA FinishFields ==
  ASSUME NEW p \in Planner, NEW feasible \in BOOLEAN, NEW r, r = Finish(p, feasible)
  PROVE  /\ r.pc = "done" /\ r.follows = (IF feasible THEN p.plan ELSE 0)
         /\ r.stage = p.stage /\ r.prio_vec = p.prio_vec /\ r.old_prio_vec = p.old_prio_vec
         /\ r.own_fca = p.own_fca /\ r.plan = p.plan
         /\ r.other_vehicles_buffer = p.other_vehicles_buffer /\ r.stopFlag = p.stopFlag
         /\ r \in Planner
<1>1. PICK f : f = IF feasible THEN p.plan ELSE 0
  OBVIOUS
<1>2. f \in Plan
  <2>1. p.plan \in Plan
    BY DEF Planner
  <2>2. 0 \in Plan
    BY DEF Plan
  <2>3. f = p.plan \/ f = 0
    BY <1>1
  <2> QED BY <2>1, <2>2, <2>3
<1>3. r = [p EXCEPT !.pc = "done", !.follows = f]
  BY <1>1 DEF Finish
<1> QED BY <1>1, <1>2, <1>3 DEF Planner

LEMMA StaticDoneFields ==
  ASSUME NEW p \in Planner, NEW v \in Vehicle, NEW feasible \in BOOLEAN,
         NEW r, r = StaticDone(p, v, feasible), p.pc \in {"prev", "ignored"}, p.follows = 0
  PROVE  /\ r \in Planner /\ Ends(v, p, r) /\ r.plan = p.plan /\ r.stopFlag = p.stopFlag
         /\ r.pc = "announce" => r.wait = Vehicle /\ r.received_messages = {v} /\ r.follows = 0
         /\ r.pc = "done" => r.follows = (IF feasible THEN p.plan ELSE 0)
         /\ p.plan > 0 \/ ~feasible => (Good(r) <=> feasible)
<1>1. p.stage \in {"new", "old", "last"} /\ 3 \in SyncId /\ 4 \in SyncId
  BY DEF Planner, SyncId
<1>2. CASE p.stage = "new"
  <2>1. r = Announce(p, 3, feasible, Vehicle, v)
    BY <1>2 DEF StaticDone
  <2>2. /\ r.pc = "announce" /\ r.sync_id = 3 /\ r.feasible = feasible
        /\ r.wait = Vehicle /\ r.received_messages = {v}
        /\ r.stage = p.stage /\ r.prio_vec = p.prio_vec /\ r.old_prio_vec = p.old_prio_vec
        /\ r.own_fca = p.own_fca /\ r.plan = p.plan
        /\ r.other_vehicles_buffer = p.other_vehicles_buffer
        /\ r.follows = p.follows /\ r.stopFlag = p.stopFlag /\ r \in Planner
    BY <1>1, <2>1, AnnounceFields
  <2> QED BY <1>2, <2>2 DEF Ends, Planning, Good
<1>3. CASE p.stage = "old"
  <2>1. r = Announce(p, 4, feasible, Vehicle, v)
    BY <1>3 DEF StaticDone
  <2>2. /\ r.pc = "announce" /\ r.sync_id = 4 /\ r.feasible = feasible
        /\ r.wait = Vehicle /\ r.received_messages = {v}
        /\ r.stage = p.stage /\ r.prio_vec = p.prio_vec /\ r.old_prio_vec = p.old_prio_vec
        /\ r.own_fca = p.own_fca /\ r.plan = p.plan
        /\ r.other_vehicles_buffer = p.other_vehicles_buffer
        /\ r.follows = p.follows /\ r.stopFlag = p.stopFlag /\ r \in Planner
    BY <1>1, <2>1, AnnounceFields
  <2> QED BY <1>3, <2>2 DEF Ends, Planning, Good
<1>4. CASE p.stage = "last"
  <2>1. r = Finish(p, feasible)
    BY <1>4 DEF StaticDone
  <2>2. /\ r.pc = "done" /\ r.follows = (IF feasible THEN p.plan ELSE 0)
        /\ r.stage = p.stage /\ r.prio_vec = p.prio_vec /\ r.old_prio_vec = p.old_prio_vec
        /\ r.own_fca = p.own_fca /\ r.plan = p.plan
        /\ r.other_vehicles_buffer = p.other_vehicles_buffer /\ r.stopFlag = p.stopFlag
        /\ r \in Planner
    BY <2>1, FinishFields
  <2>3. r.pc # "announce" /\ Ends(v, p, r)
    BY <1>4, <2>2 DEF Ends, Planning
  <2>4. p.plan > 0 \/ ~feasible => (Good(r) <=> feasible)
    BY <2>2 DEF Good
  <2> QED BY <2>2, <2>3, <2>4
<1> QED BY <1>1, <1>2, <1>3, <1>4

-----------------------------------------------------------------------------
(* What holds of every planner                                             *)

Begins(M, G, p, r) ==
  \/ M = "id" /\ p.pc = "begin" /\ r.stage = "last" /\ r.prio_vec = p.prio_vec
  \/ M = "random" /\ p.pc = "read fca" /\ r.stage = "new"
  \/ M = "vertex_ordering" /\ p.pc = "sync" /\ p.sync_id = 5 /\ r.stage = "new" /\ r.prio_vec = G
  \/ M = "random" /\ p.pc = "sync" /\ p.sync_id = 3 /\ r.stage = "last" /\ r.prio_vec = p.old_prio_vec
  \/ M = "vertex_ordering" /\ p.pc = "sync" /\ p.sync_id = 3 /\ r.stage = "old" /\ r.prio_vec = p.old_prio_vec
  \/ M = "vertex_ordering" /\ p.pc = "sync" /\ p.sync_id = 3 /\ r.stage = "last" /\ r.prio_vec = p.prio_vec
  \/ M = "vertex_ordering" /\ p.pc = "sync" /\ p.sync_id = 4 /\ r.stage = "last" /\ r.prio_vec = p.prio_vec

LEMMA LevelRange ==
  ASSUME NEW p
  PROVE  Level(p) \in 0 .. 11
<1>1. CASE p.pc = "begin" \/ p.pc = "write fca" \/ p.pc = "optimal" \/ p.pc = "read fca"
  <2>1. p.pc = "begin" => Level(p) = 0
    BY DEF Level
  <2>2. p.pc \in {"write fca", "optimal"} => Level(p) = 1
    BY DEF Level
  <2>3. p.pc = "read fca" => Level(p) = 2
    BY DEF Level
  <2>4. Level(p) = 0 \/ Level(p) = 1 \/ Level(p) = 2
    BY <1>1, <2>1, <2>2, <2>3
  <2> QED BY <2>4
<1>2. CASE p.pc = "announce"
  <2>1. Level(p) = IF p.sync_id = 5 THEN 2 ELSE IF p.sync_id = 3 THEN 5 ELSE 8
    BY <1>2 DEF Level
  <2> QED BY <2>1
<1>3. CASE p.pc = "sync"
  <2>1. Level(p) = IF p.sync_id = 5 THEN 3 ELSE IF p.sync_id = 3 THEN 6 ELSE 9
    BY <1>3 DEF Level
  <2> QED BY <2>1
<1>4. CASE p.pc = "done"
  BY <1>4 DEF Level
<1>5. CASE p.pc \notin {"begin", "write fca", "optimal", "read fca", "announce", "sync", "done"}
  <2>1. Level(p) = RoundLevel(p)
    BY <1>5 DEF Level
  <2> QED BY <2>1 DEF RoundLevel
<1> QED BY <1>1, <1>2, <1>3, <1>4, <1>5

LEMMA LevelsApart ==
  ASSUME NEW p
  PROVE  /\ p.pc \in {"begin", "read fca"} => Level(p) < 4
         /\ Over(p) => Level(p) >= 4
<1>1. p.pc = "begin" => Level(p) = 0
  BY DEF Level
<1>2. p.pc = "read fca" => Level(p) = 2
  BY DEF Level
<1>3. RoundLevel(p) \in {4, 7, 10} /\ Level(p) \in 0 .. 11
  BY LevelRange DEF RoundLevel
<1>4. Over(p) => Level(p) > RoundLevel(p)
  BY DEF Over
<1>5. Over(p) => Level(p) >= 4
  BY <1>3, <1>4
<1>6. p.pc \in {"begin", "read fca"} => Level(p) < 4
  <2>1. CASE p.pc = "begin"
    <3>1. Level(p) = 0
      BY <1>1, <2>1
    <3>2. Level(p) < 4
      BY <3>1
    <3> QED BY <3>2
  <2>2. CASE p.pc = "read fca"
    <3>1. Level(p) = 2
      BY <1>2, <2>2
    <3>2. Level(p) < 4
      BY <3>1
    <3> QED BY <3>2
  <2> QED BY <2>1, <2>2
<1> QED BY <1>5, <1>6

LEMMA EnteredLocal ==
  ASSUME NEW M, NEW G, NEW v \in Vehicle, NEW p \in Planner, NEW r \in Planner, Local(M, G, v, p),
         r.pc = "prev", r.wait = Prev(v, r), r.received_messages = {}, r.follows = 0,
         r.old_prio_vec = p.old_prio_vec, r.plan = p.plan, Begins(M, G, p, r)
  PROVE  Local(M, G, v, r)
<1>1. /\ Level(r) = RoundLevel(r) /\ r.stage \in {"new", "old", "last"} /\ p.plan \in 0 .. 3
      /\ p.stage \in {"new", "old", "last"}
  BY DEF Level, Planner, Plan
<1>2. /\ RoundLevel(r) = IF r.stage = "new" THEN 4 ELSE IF r.stage = "old" THEN 7 ELSE 10
      /\ RoundLevel(p) = IF p.stage = "new" THEN 4 ELSE IF p.stage = "old" THEN 7 ELSE 10
  BY DEF RoundLevel
<1>3. ~Over(r) /\ Level(r) >= 4
  BY <1>1, <1>2 DEF Over
<1>4. /\ p.pc \in {"begin", "read fca"} => Level(p) < 4
      /\ p.pc = "sync" /\ p.sync_id = 5 => Level(p) < 4
      /\ p.pc = "sync" /\ p.sync_id = 3 => Level(p) >= 4 /\ p.stage = "new"
      /\ p.pc = "sync" /\ p.sync_id = 4 => Level(p) >= 4 /\ p.stage = "old"
  <2>1. p.pc = "sync" => p.stage = (IF p.sync_id = 4 THEN "old" ELSE "new")
    BY DEF Local, Control, Waits, Plannings
  <2>2. p.pc \in {"begin", "read fca"} => Level(p) < 4
    BY LevelsApart
  <2>3. p.pc = "sync" => Level(p) = IF p.sync_id = 5 THEN 3 ELSE IF p.sync_id = 3 THEN 6 ELSE 9
    BY DEF Level
  <2>4. p.pc = "sync" /\ p.sync_id = 5 => Level(p) < 4
    BY <2>3
  <2>5. p.pc = "sync" /\ p.sync_id = 3 => Level(p) >= 4 /\ p.stage = "new"
    BY <2>1, <2>3
  <2>6. p.pc = "sync" /\ p.sync_id = 4 => Level(p) >= 4 /\ p.stage = "old"
    BY <2>1, <2>3
  <2> QED BY <2>2, <2>4, <2>5, <2>6
<1>5. /\ Level(p) < 4 => p.prio_vec = p.old_prio_vec /\ p.plan = 0
      /\ Level(p) >= 4 => 3 * p.plan < RoundLevel(p)
      /\ p.stage = "old" => p.prio_vec = p.old_prio_vec
      /\ p.stage = "new" /\ Level(p) >= 4 /\ M = "vertex_ordering" => p.prio_vec = G
  BY DEF Local, Control, Waits, Plannings
<1>6. 3 * r.plan < RoundLevel(r) - 3
  <2>1. r.plan = 0 \/ (r.plan = p.plan /\ 3 * p.plan < 4 /\ RoundLevel(r) >= 7)
                   \/ (r.plan = p.plan /\ 3 * p.plan < 7 /\ RoundLevel(r) = 10)
    <3>1. CASE p.pc \in {"begin", "read fca"} \/ (p.pc = "sync" /\ p.sync_id = 5)
      BY <3>1, <1>4, <1>5
    <3>2. CASE p.pc = "sync" /\ p.sync_id = 3 /\ r.stage \in {"old", "last"}
      <4>1. RoundLevel(p) = 4 /\ 3 * p.plan < RoundLevel(p)
        BY <3>2, <1>2, <1>4, <1>5
      <4>2. RoundLevel(r) >= 7
        BY <3>2, <1>2
      <4> QED BY <4>1, <4>2
    <3>3. CASE p.pc = "sync" /\ p.sync_id = 4 /\ r.stage = "last"
      <4>1. RoundLevel(p) = 7 /\ 3 * p.plan < RoundLevel(p)
        BY <3>3, <1>2, <1>4, <1>5
      <4>2. RoundLevel(r) = 10
        BY <3>3, <1>2
      <4> QED BY <4>1, <4>2
    <3> QED BY <3>1, <3>2, <3>3 DEF Begins
  <2>2. RoundLevel(r) \in {4, 7, 10}
    BY <1>2
  <2> QED BY <1>1, <2>1, <2>2
<1>7. 3 * r.plan < RoundLevel(r)
  <2>1. r.plan \in 0 .. 3 /\ RoundLevel(r) \in {4, 7, 10}
    BY <1>1, <1>2
  <2> QED BY <2>1, <1>6
<1>8. /\ r.stage = "old" => r.prio_vec = r.old_prio_vec /\ M = "vertex_ordering"
      /\ r.stage = "last" => r.prio_vec = r.old_prio_vec \/ (M = "vertex_ordering" /\ r.prio_vec = G)
      /\ r.stage = "new" /\ M = "vertex_ordering" => r.prio_vec = G
      /\ M = "id" => r.stage = "last"
      /\ M = "random" => r.stage \in {"new", "last"}
  BY <1>4, <1>5 DEF Begins
<1>9. r.pc = "prev"
  OBVIOUS
<1>10. ~(Level(r) < 4)
  BY <1>1, <1>2
<1>11. Control(M, G, r)
  BY <1>8, <1>9, <1>10 DEF Control
<1>12. Waits(v, r)
  BY <1>9 DEF Waits
<1>13. Plannings(r)
  BY <1>3, <1>6, <1>7, <1>9, <1>10 DEF Plannings
<1> QED BY <1>11, <1>12, <1>13 DEF Local

LEMMA PlannedLocal ==
  ASSUME NEW M, NEW G, NEW v \in Vehicle, NEW p \in Planner, NEW r \in Planner, Local(M, G, v, p),
         Plans(v, p, r), r.follows = 0, r.plan = p.plan + 1
  PROVE  Local(M, G, v, r)
<1>1. /\ Level(r) = RoundLevel(r) /\ Level(p) = RoundLevel(p) /\ RoundLevel(r) = RoundLevel(p)
      /\ p.plan \in 0 .. 3 /\ p.stage \in {"new", "old", "last"} /\ p.pc = "prev" /\ r.pc = "ignored"
      /\ r.wait = Behinds(v, r) /\ r.stage = p.stage /\ r.prio_vec = p.prio_vec /\ r.old_prio_vec = p.old_prio_vec
  BY DEF Level, RoundLevel, Plans, Planner, Plan
<1>2. RoundLevel(p) \in {4, 7, 10}
  BY <1>1 DEF RoundLevel
<1>3. ~Over(r) /\ Level(r) >= 4
  BY <1>1, <1>2 DEF Over
<1>4. 3 * p.plan < RoundLevel(p) - 3
  BY <1>1 DEF Local, Control, Waits, Plannings
<1>5. 3 * r.plan < RoundLevel(r) /\ r.plan > 0
  BY <1>1, <1>2, <1>4
<1>6. Level(p) >= 4
  BY <1>1, <1>2
<1>7. /\ M = "id" => r.stage = "last"
      /\ M = "random" => r.stage \in {"new", "last"}
      /\ r.stage = "old" => r.prio_vec = r.old_prio_vec /\ M = "vertex_ordering"
      /\ r.stage = "last" => r.prio_vec = r.old_prio_vec \/ (M = "vertex_ordering" /\ r.prio_vec = G)
      /\ r.stage = "new" /\ M = "vertex_ordering" => r.prio_vec = G
  BY <1>1, <1>6 DEF Local, Control, Waits, Plannings
<1>8. ~(Level(r) < 4)
  BY <1>1, <1>2
<1>9. Control(M, G, r)
  BY <1>1, <1>7, <1>8 DEF Control
<1>10. Waits(v, r)
  BY <1>1 DEF Waits
<1>11. Plannings(r)
  BY <1>1, <1>3, <1>5, <1>8 DEF Plannings
<1> QED BY <1>9, <1>10, <1>11 DEF Local

LEMMA EndedLocal ==
  ASSUME NEW M, NEW G, NEW v \in Vehicle, NEW p \in Planner, NEW r \in Planner, Local(M, G, v, p),
         Ends(v, p, r), r.pc = "announce" => r.wait = Vehicle /\ r.received_messages = {v} /\ r.follows = 0,
         r.pc = "done" => r.follows \in {0, r.plan},
         Good(r) => r.plan > 0, 3 * r.plan < RoundLevel(p)
  PROVE  Local(M, G, v, r)
<1>1. /\ RoundLevel(r) = RoundLevel(p) /\ Level(p) = RoundLevel(p)
      /\ p.stage \in {"new", "old", "last"} /\ p.pc \in {"prev", "ignored"} /\ r.pc \in {"announce", "done"}
      /\ r.stage = p.stage /\ r.prio_vec = p.prio_vec /\ r.old_prio_vec = p.old_prio_vec
  BY DEF Level, RoundLevel, Ends, Planning, Planner
<1>2. RoundLevel(p) \in {4, 7, 10}
  BY <1>1 DEF RoundLevel
<1>3. Level(p) >= 4
  BY <1>1, <1>2
<1>4. Level(r) >= 4 /\ ~(Level(r) < 4)
  <2>1. CASE r.pc = "done"
    BY <2>1 DEF Level
  <2>2. CASE r.pc = "announce"
    <3>1. r.sync_id = 3 \/ r.sync_id = 4
      BY <2>2 DEF Ends
    <3>2. Level(r) = IF r.sync_id = 5 THEN 2 ELSE IF r.sync_id = 3 THEN 5 ELSE 8
      BY <2>2 DEF Level
    <3>3. CASE r.sync_id = 3
      BY <3>2, <3>3
    <3>4. CASE r.sync_id = 4
      BY <3>2, <3>4
    <3> QED BY <3>1, <3>3, <3>4
  <2> QED BY <1>1, <2>1, <2>2
<1>5. /\ r.pc = "announce" => r.sync_id \in {5, 3, 4} /\ r.stage = (IF r.sync_id = 4 THEN "old" ELSE "new")
      /\ r.pc = "announce" => r.sync_id # 5 /\ (r.stage = "new" => r.sync_id = 3) /\ r.stage \in {"new", "old"}
      /\ r.pc = "done" => r.stage = "last"
  BY <1>1 DEF Ends
<1>6. /\ M = "id" => r.stage = "last"
      /\ M = "random" => r.stage \in {"new", "last"}
      /\ r.stage = "old" => r.prio_vec = r.old_prio_vec /\ M = "vertex_ordering"
      /\ r.stage = "last" => r.prio_vec = r.old_prio_vec \/ (M = "vertex_ordering" /\ r.prio_vec = G)
      /\ r.stage = "new" /\ M = "vertex_ordering" => r.prio_vec = G
  BY <1>1, <1>3 DEF Local, Control, Waits, Plannings
<1>7. /\ M = "id" => r.pc = "done"
      /\ M = "random" /\ r.pc = "announce" => r.sync_id = 3
  BY <1>1, <1>5, <1>6
<1>8. 3 * r.plan < RoundLevel(r)
  BY <1>1
<1>9. Control(M, G, r)
  BY <1>1, <1>4, <1>5, <1>6, <1>7 DEF Control
<1>10. Waits(v, r)
  BY <1>1 DEF Waits
<1>11. Plannings(r)
  BY <1>1, <1>4, <1>5, <1>8 DEF Plannings
<1> QED BY <1>9, <1>10, <1>11 DEF Local

(* One that reads, or sends what it has to.                                *)
LEMMA StaysLocal ==
  ASSUME NEW M, NEW G, NEW v \in Vehicle, NEW p \in Planner, NEW r, Local(M, G, v, p), Stays(p, r), Good(r) => Good(p),
         p.pc # "announce", p.received_messages \subseteq r.received_messages,
         p.pc = "read fca" => r.fca[v] = p.fca[v]
  PROVE  Local(M, G, v, r)
<1>1. /\ Level(r) = Level(p) /\ RoundLevel(r) = RoundLevel(p)
      /\ Over(r) <=> Over(p)
      /\ Prev(v, r) = Prev(v, p)
  BY StaysLevel
<1>2. /\ r.pc = p.pc /\ r.stage = p.stage /\ r.sync_id = p.sync_id
      /\ r.prio_vec = p.prio_vec /\ r.old_prio_vec = p.old_prio_vec
      /\ r.wait = p.wait /\ r.plan = p.plan /\ r.own_fca = p.own_fca /\ r.follows = p.follows
      /\ Behinds(v, r) = Behinds(v, p)
  BY DEF Stays, Behinds
<1>3. Over(p) => Level(p) >= 4
  BY LevelsApart
<1>4. p.pc = "ignored" \/ (Over(r) /\ Good(r)) => p.plan > 0
  BY <1>1, <1>3 DEF Local, Control, Waits, Plannings
<1>5. /\ p.pc \in {"sync", "read fca", "optimal"} => v \in r.received_messages
      /\ p.pc = "read fca" => r.fca[v] = r.own_fca
  BY <1>2 DEF Local, Control, Waits, Plannings
<1>6. Control(M, G, r)
  BY <1>1, <1>2 DEF Local, Control
<1>7. Waits(v, r)
  BY <1>1, <1>2, <1>5 DEF Local, Waits
<1>8. Plannings(r)
  BY <1>1, <1>2, <1>4 DEF Local, Plannings
<1> QED BY <1>6, <1>7, <1>8 DEF Local

LEMMA ConfirmedLocal ==
  ASSUME NEW M, NEW G, NEW v \in Vehicle, NEW p \in Planner, NEW r, Local(M, G, v, p),
         p.pc = "announce", r = [p EXCEPT !.pc = "sync"]
  PROVE  Local(M, G, v, r)
<1>1. /\ r.pc = "sync" /\ r.stage = p.stage /\ r.sync_id = p.sync_id
      /\ r.prio_vec = p.prio_vec /\ r.old_prio_vec = p.old_prio_vec /\ r.feasible = p.feasible
      /\ r.wait = p.wait /\ r.plan = p.plan /\ r.own_fca = p.own_fca /\ r.follows = p.follows
      /\ r.received_messages = p.received_messages
  BY DEF Planner
<1>2. RoundLevel(r) = RoundLevel(p) /\ (Good(r) <=> Good(p))
  BY <1>1 DEF RoundLevel, Good
<1>3. p.sync_id \in {5, 3, 4} /\ p.stage = (IF p.sync_id = 4 THEN "old" ELSE "new")
  BY DEF Local, Control, Waits, Plannings
<1>4. /\ Level(r) < 4 <=> Level(p) < 4
      /\ Level(r) >= 4 <=> Level(p) >= 4
      /\ Over(r) <=> Over(p)
  <2>1. /\ Level(p) = IF p.sync_id = 5 THEN 2 ELSE IF p.sync_id = 3 THEN 5 ELSE 8
        /\ Level(r) = IF p.sync_id = 5 THEN 3 ELSE IF p.sync_id = 3 THEN 6 ELSE 9
    BY <1>1 DEF Level
  <2>2. RoundLevel(p) = IF p.sync_id = 4 THEN 7 ELSE 4
    BY <1>3 DEF RoundLevel
  <2>3. CASE p.sync_id = 5
    BY <2>1, <2>2, <2>3, <1>2 DEF Over
  <2>4. CASE p.sync_id = 3
    BY <2>1, <2>2, <2>4, <1>2 DEF Over
  <2>5. CASE p.sync_id = 4
    BY <2>1, <2>2, <2>5, <1>2 DEF Over
  <2> QED BY <2>3, <2>4, <2>5, <1>3
<1> QED BY <1>1, <1>2, <1>4 DEF Local, Control, Waits, Plannings

-----------------------------------------------------------------------------
(* What a step of one planner leaves alone                                 *)

LEMMA Twos ==
  ASSUME Fleet, IInv, NobodyStopped, NEW v \in Vehicle, NEW u \in Vehicle, u # v
  PROVE  Two(mode, graph_order, v, u, planner[v], planner[u], Mine(channel, v), Mine(channel, u))
<1>1. /\ mode \in {"id", "random", "vertex_ordering"} /\ graph_order \in Order
      /\ planner[v] \in Planner /\ planner[u] \in Planner
      /\ Local(mode, graph_order, v, planner[v]) /\ Local(mode, graph_order, u, planner[u])
  BY DEF IInv, Type, Fleet
<1>2. /\ Pair(mode, graph_order, v, u, planner[v], planner[u], Mine(channel, v))
      /\ Pair(mode, graph_order, u, v, planner[u], planner[v], Mine(channel, u))
  BY DEF IInv, Agreement
<1>3. /\ Barriers(mode, graph_order, planner[v], planner[u]) /\ Known(mode, v, u, planner[v], planner[u])
      /\ Barriers(mode, graph_order, planner[u], planner[v]) /\ Known(mode, u, v, planner[u], planner[v])
  BY <1>2 DEF Pair
<1> QED BY <1>1, <1>2, <1>3 DEF Two, Both

(* Only what one planner knows changes.                                    *)
Moves(v, r) == planner' = [planner EXCEPT ![v] = r] /\ mode' = mode /\ graph_order' = graph_order

LEMMA Moved ==
  ASSUME Type, NEW v \in Vehicle, NEW r, Moves(v, r)
  PROVE  /\ planner'[v] = r /\ \A u \in Vehicle \ {v} : planner'[u] = planner[u]
         /\ mode' = mode /\ graph_order' = graph_order
BY DEF Moves, Type

LEMMA Concluded ==
  ASSUME Fleet, IInv, NEW v \in Vehicle, NEW r \in Planner, Moves(v, r),
         channel' \in [Topic -> [Vehicle -> Seq(Message)]],
         \A t \in Topic : \A u \in Vehicle : channel'[t][u] \in Seq(MessageOf(t)),
         Foreign(channel'),
         Local(mode, graph_order, v, r), r.stopFlag = planner[v].stopFlag,
         NobodyStopped => Agreement'
  PROVE  IInv'
<1>1. /\ planner'[v] = r /\ \A u \in Vehicle \ {v} : planner'[u] = planner[u]
      /\ mode' = mode /\ graph_order' = graph_order
  BY Moved DEF IInv
<1>2. planner' \in [Vehicle -> Planner]
  BY DEF Moves, IInv, Type
<1>3. Type'
  BY <1>1, <1>2 DEF IInv, Type
<1>4. \A u \in Vehicle : Local(mode', graph_order', u, planner'[u])
  BY <1>1 DEF IInv
<1>5. NobodyStopped' => NobodyStopped
  BY <1>1 DEF NobodyStopped
<1> QED BY <1>3, <1>4, <1>5 DEF IInv

LEMMA Framed ==
  ASSUME Type, Agreement, NEW v \in Vehicle, NEW r, Moves(v, r),
         \A u \in Vehicle : Queue(u, channel'["trajectory"][u]),
         \A u \in Vehicle \ {v} :
           /\ Pair(mode, graph_order, v, u, r, planner[u], Mine(channel', v))
           /\ Pair(mode, graph_order, u, v, planner[u], r, Mine(channel', u)),
         \A u, w \in Vehicle \ {v} :
           u # w => Pair(mode, graph_order, u, w, planner[u], planner[w], Mine(channel', u))
  PROVE  Agreement'
<1>1. /\ planner'[v] = r /\ \A u \in Vehicle \ {v} : planner'[u] = planner[u]
      /\ mode' = mode /\ graph_order' = graph_order
  BY Moved
<1> SUFFICES ASSUME NEW u \in Vehicle, NEW w \in Vehicle \ {u}
             PROVE  Pair(mode', graph_order', u, w, planner'[u], planner'[w], Mine(channel', u))
  BY DEF Agreement
<1>2. CASE u = v
  BY <1>1, <1>2
<1>3. CASE w = v
  BY <1>1, <1>3
<1>4. CASE u # v /\ w # v
  BY <1>1, <1>4
<1> QED BY <1>2, <1>3, <1>4

(* Nothing is sent or read.                                                *)
LEMMA FramedSilent ==
  ASSUME Type, Agreement, NEW v \in Vehicle, NEW r, Moves(v, r), channel' = channel,
         \A u \in Vehicle \ {v} :
           /\ Pair(mode, graph_order, v, u, r, planner[u], Mine(channel, v))
           /\ Pair(mode, graph_order, u, v, planner[u], r, Mine(channel, u))
  PROVE  Agreement'
<1>1. \A u \in Vehicle : Queue(u, channel'["trajectory"][u])
  BY DEF Agreement
<1>2. \A u \in Vehicle \ {v} :
        /\ Pair(mode, graph_order, v, u, r, planner[u], Mine(channel', v))
        /\ Pair(mode, graph_order, u, v, planner[u], r, Mine(channel', u))
  OBVIOUS
<1>3. \A u, w \in Vehicle \ {v} :
        u # w => Pair(mode, graph_order, u, w, planner[u], planner[w], Mine(channel', u))
  BY DEF Agreement
<1> QED BY <1>1, <1>2, <1>3, Framed

(* Something is read: what is on its way to the others stays.              *)
LEMMA FramedRead ==
  ASSUME Type, Agreement, NEW v \in Vehicle, NEW r, Moves(v, r), NEW t \in Topic,
         \A x \in Topic : \A u \in Vehicle : x # t \/ u # v => channel'[x][u] = channel[x][u],
         Queue(v, channel'["trajectory"][v]),
         \A u \in Vehicle \ {v} :
           /\ Pair(mode, graph_order, v, u, r, planner[u], Mine(channel', v))
           /\ Pair(mode, graph_order, u, v, planner[u], r, Mine(channel, u))
  PROVE  Agreement'
<1>1. \A u \in Vehicle \ {v} : Mine(channel', u) = Mine(channel, u)
  BY DEF Mine
<1>2. "trajectory" \in Topic
  BY DEF Topic
<1>3. \A u \in Vehicle : Queue(u, channel'["trajectory"][u])
  BY <1>2 DEF Agreement
<1>4. \A u \in Vehicle \ {v} :
        /\ Pair(mode, graph_order, v, u, r, planner[u], Mine(channel', v))
        /\ Pair(mode, graph_order, u, v, planner[u], r, Mine(channel', u))
  BY <1>1
<1>5. \A u, w \in Vehicle \ {v} :
        u # w => Pair(mode, graph_order, u, w, planner[u], planner[w], Mine(channel', u))
  BY <1>1 DEF Agreement
<1> QED BY <1>3, <1>4, <1>5, Framed

(* Something is sent: it is not from a third planner.                      *)
LEMMA FramedSent ==
  ASSUME Type, Agreement, NEW v \in Vehicle, NEW r, Moves(v, r),
         NEW t \in Topic, NEW m \in MessageOf(t), m.from = v, Publish(t, m),
         t = "trajectory" => \A u \in Vehicle \ {v} : Queue(u, Append(channel[t][u], m)),
         t = "trajectory" => \A u, w \in Vehicle \ {v} :
           u # w => Outcome(planner[u], planner[w], Append(channel[t][u], m)),
         \A u \in Vehicle \ {v} :
           /\ Pair(mode, graph_order, v, u, r, planner[u], Mine(channel, v))
           /\ Pair(mode, graph_order, u, v, planner[u], r, Mine(channel', u))
  PROVE  Agreement'
<1>1. /\ \A u \in Vehicle : channel'[t][u] =
              IF u = v THEN channel[t][u] ELSE Append(channel[t][u], m)
      /\ \A x \in Topic \ {t} : channel'[x] = channel[x]
  BY Published
<1>2. "trajectory" \in Topic
  BY DEF Topic
<1>3. \A x \in Topic : channel'[x][v] = channel[x][v]
  BY <1>1
<1>4. Mine(channel', v) = Mine(channel, v)
  BY <1>3 DEF Mine
<1>5. \A u \in Vehicle : Queue(u, channel'["trajectory"][u])
  <2>1. CASE t = "trajectory"
    BY <1>1, <2>1 DEF Agreement
  <2>2. CASE t # "trajectory"
    BY <1>1, <1>2, <2>2 DEF Agreement
  <2> QED BY <2>1, <2>2
<1>6. \A u \in Vehicle \ {v} :
        /\ Pair(mode, graph_order, v, u, r, planner[u], Mine(channel', v))
        /\ Pair(mode, graph_order, u, v, planner[u], r, Mine(channel', u))
  BY <1>4
<1>7. ASSUME NEW u \in Vehicle \ {v}, NEW w \in Vehicle \ {v}, u # w
      PROVE  Pair(mode, graph_order, u, w, planner[u], planner[w], Mine(channel', u))
  <2>1. Pair(mode, graph_order, u, w, planner[u], planner[w], Mine(channel, u))
    BY <1>7 DEF Agreement
  <2>2. /\ Mine(channel, u)[t] \in Seq(MessageOf(t))
        /\ Mine(channel', u)[t] = Append(Mine(channel, u)[t], m)
        /\ \A x \in Topic \ {t} : Mine(channel', u)[x] = Mine(channel, u)[x]
    BY <1>1 DEF Mine, Type
  <2>3. m.from # w
    OBVIOUS
  <2>4. t = "trajectory" => Outcome(planner[u], planner[w], Mine(channel', u)["trajectory"])
    BY <1>1, <1>2, <1>7 DEF Mine
  <2> QED BY <2>1, <2>2, <2>3, <2>4, PairAppended
<1> QED BY <1>5, <1>6, <1>7, Framed

-----------------------------------------------------------------------------
(* Every action keeps it                                                   *)

Afresh(v, p, r) ==
  /\ r \in Planner /\ r.pc = "prev" /\ r.wait = Prev(v, r) /\ r.received_messages = {}
  /\ r.old_prio_vec = p.old_prio_vec /\ r.own_fca = p.own_fca /\ r.plan = p.plan
  /\ r.follows = p.follows /\ r.stopFlag = p.stopFlag

LEMMA Unchanged ==
  ASSUME IInv, channel' = channel
  PROVE  /\ channel' \in [Topic -> [Vehicle -> Seq(Message)]]
         /\ \A t \in Topic : \A u \in Vehicle : channel'[t][u] \in Seq(MessageOf(t))
         /\ Foreign(channel')
BY DEF IInv, Type

LEMMA EnteringStep ==
  ASSUME Fleet, IInv, NEW v \in Vehicle, NEW p, p = planner[v], NEW r, Afresh(v, p, r),
         Begins(mode, graph_order, p, r), NobodyStopped => \A u \in Vehicle \ {v} : Jumped(mode, v, u, p, r),
         Moves(v, r), channel' = channel
  PROVE  IInv'
<1>1. p \in Planner /\ Local(mode, graph_order, v, p)
  BY DEF IInv, Type
<1>2. r \in Planner /\ r.stopFlag = planner[v].stopFlag
  BY DEF Afresh
<1>3. Local(mode, graph_order, v, r)
  <2>1. p.pc # "done"
    BY DEF Begins
  <2>2. p.follows = 0
    BY <1>1, <2>1 DEF Local, Plannings
  <2>3. /\ r.pc = "prev" /\ r.wait = Prev(v, r) /\ r.received_messages = {} /\ r.follows = 0
        /\ r.old_prio_vec = p.old_prio_vec /\ r.plan = p.plan
    BY <2>2 DEF Afresh
  <2> QED BY <1>1, <1>2, <2>3, EnteredLocal
<1>4. ASSUME NobodyStopped
      PROVE  Agreement'
  <2>1. ASSUME NEW u \in Vehicle \ {v}
        PROVE  /\ Pair(mode, graph_order, v, u, r, planner[u], Mine(channel, v))
               /\ Pair(mode, graph_order, u, v, planner[u], r, Mine(channel, u))
    <3>1. Two(mode, graph_order, v, u, p, planner[u], Mine(channel, v), Mine(channel, u))
      BY <1>4, Twos
    <3>2. Enters(mode, v, u, p, r)
      BY <1>4 DEF Enters, Afresh
    <3> QED BY <1>2, <1>3, <3>1, <3>2, Entered
  <2> QED BY <1>4, <2>1, FramedSilent DEF IInv
<1> QED BY <1>2, <1>3, <1>4, Concluded, Unchanged

(* plan() with the ids as priorities, or at first.                         *)
LEMMA BeginIdStep ==
  ASSUME Fleet, IInv, NEW v \in Vehicle, planner[v].pc = "begin", mode = "id",
         Moves(v, Static(planner[v], v, "last")), channel' = channel
  PROVE  IInv'
<1>1. PICK p : p = planner[v]
  OBVIOUS
<1>2. PICK r : r = Static(p, v, "last")
  OBVIOUS
<1>3. p \in Planner
  BY <1>1 DEF IInv, Type
<1>4. Afresh(v, p, r) /\ r.stage = "last" /\ r.prio_vec = p.prio_vec
  BY <1>2, <1>3, StaticFields DEF Afresh
<1>5. Begins(mode, graph_order, p, r)
  BY <1>1, <1>4 DEF Begins
<1>6. \A u \in Vehicle \ {v} : Jumped(mode, v, u, p, r)
  BY <1>1, <1>4 DEF Jumped
<1> QED BY <1>1, <1>2, <1>4, <1>5, <1>6, EnteringStep

(* fca_prio_vec.                                                           *)
LEMMA RandomPrioritiesStep ==
  ASSUME Fleet, IInv, NEW v \in Vehicle, RandomPriorities(v)
  PROVE  IInv'
<1>1. PICK p : p = planner[v]
  OBVIOUS
<1>2. p.pc = "read fca" /\ Heard(p) /\ channel' = channel /\ mode' = mode /\ graph_order' = graph_order
  BY <1>1 DEF RandomPriorities
<1>3. PICK order \in Order :
        /\ PrevVehicles(order, v) = {u \in Vehicle \ {v} : Behind(p, v, u)}
        /\ Step(v, Static([p EXCEPT !.old_prio_vec = p.prio_vec, !.prio_vec = order], v, "new"))
  BY <1>1 DEF RandomPriorities
<1>4. PICK o : o = [p EXCEPT !.old_prio_vec = p.prio_vec, !.prio_vec = order]
  OBVIOUS
<1>5. PICK r : r = Static(o, v, "new")
  OBVIOUS
<1>6. Moves(v, r)
  BY <1>2, <1>3, <1>4, <1>5 DEF Step, Moves
<1>7. p \in Planner /\ Local(mode, graph_order, v, p)
  BY <1>1 DEF IInv, Type
<1>8. p.prio_vec = p.old_prio_vec
  <2>1. Level(p) < 4
    BY <1>2, LevelsApart
  <2> QED BY <1>7, <2>1 DEF Local, Control
<1>9. /\ o \in Planner /\ o.prio_vec = order /\ o.old_prio_vec = p.old_prio_vec
      /\ o.own_fca = p.own_fca /\ o.plan = p.plan /\ o.follows = p.follows /\ o.stopFlag = p.stopFlag
  BY <1>4, <1>7, <1>8 DEF Planner
<1>10. /\ r.pc = "prev" /\ r.stage = "new" /\ r.wait = Prev(v, r) /\ r.received_messages = {}
       /\ r.prio_vec = o.prio_vec /\ r.old_prio_vec = o.old_prio_vec
       /\ r.own_fca = o.own_fca /\ r.plan = o.plan
       /\ r.follows = o.follows /\ r.stopFlag = o.stopFlag
       /\ r \in Planner
  BY <1>5, <1>9, StaticFields
<1>11. Afresh(v, p, r)
  BY <1>9, <1>10 DEF Afresh
<1>12. mode = "random"
  <2>1. mode \in {"id", "random", "vertex_ordering"}
    BY DEF IInv, Type, Fleet
  <2>2. /\ mode = "id" => p.pc \in {"begin", "prev", "ignored", "done"}
        /\ mode = "vertex_ordering" => p.pc \notin {"write fca", "read fca"}
    BY <1>7 DEF Local, Control
  <2> QED BY <1>2, <2>1, <2>2
<1>13. Begins(mode, graph_order, p, r)
  BY <1>2, <1>10, <1>12 DEF Begins
<1>14. ASSUME NEW u \in Vehicle \ {v}
       PROVE  Jumped(mode, v, u, p, r)
  <2>1. u \in Prev(v, r) <=> Behind(p, v, u)
    BY <1>3, <1>9, <1>10 DEF Prev
  <2>2. p.wait = Vehicle
    BY <1>2, <1>7 DEF Local, Waits
  <2>3. u \in p.received_messages
    BY <1>2, <2>2 DEF Heard
  <2> QED BY <1>2, <1>10, <1>12, <2>1, <2>3 DEF Jumped
<1> QED BY <1>1, <1>2, <1>6, <1>11, <1>13, <1>14, EnteringStep

Works(p) == p.feasible = TRUE
Fails(p) == p.feasible = FALSE

(* What a planner after a synchronisation knows.                           *)
LEMMA AfterSync ==
  ASSUME Fleet, IInv, NEW v \in Vehicle, NEW p, p = planner[v], p.pc = "sync", Proceeds(p)
  PROVE  /\ mode \in {"random", "vertex_ordering"} /\ p.sync_id \in {5, 3, 4}
         /\ mode = "random" => p.sync_id = 3
         /\ p \in Planner /\ Local(mode, graph_order, v, p)
         /\ NobodyStopped => \A u \in Vehicle : u \in p.received_messages
<1>1. p \in Planner /\ Local(mode, graph_order, v, p) /\ mode \in {"id", "random", "vertex_ordering"}
  BY DEF IInv, Type, Fleet
<1>2. /\ p.sync_id \in {5, 3, 4} /\ mode # "id" /\ (mode = "random" => p.sync_id = 3)
      /\ p.wait = Vehicle
  BY <1>1 DEF Local, Control, Waits
<1>3. NobodyStopped => Heard(p)
  BY DEF Proceeds, NobodyStopped
<1> QED BY <1>1, <1>2, <1>3 DEF Heard

(* Priorities by the vertex ordering.                                      *)
LEMMA SyncGraphStep ==
  ASSUME Fleet, IInv, NEW v \in Vehicle, NEW p, p = planner[v], p.pc = "sync", Proceeds(p), p.sync_id = 5,
         Moves(v, Static([p EXCEPT !.old_prio_vec = p.prio_vec, !.prio_vec = graph_order], v, "new")),
         channel' = channel
  PROVE  IInv'
<1>1. /\ mode \in {"random", "vertex_ordering"}
      /\ mode = "random" => p.sync_id = 3
      /\ p \in Planner /\ Local(mode, graph_order, v, p)
      /\ NobodyStopped => \A u \in Vehicle : u \in p.received_messages
  BY AfterSync
<1>2. PICK o : o = [p EXCEPT !.old_prio_vec = p.prio_vec, !.prio_vec = graph_order]
  OBVIOUS
<1>3. PICK r : r = Static(o, v, "new")
  OBVIOUS
<1>4. p.prio_vec = p.old_prio_vec
  <2>1. Level(p) = 3
    BY DEF Level
  <2>2. Level(p) < 4
    BY <2>1
  <2> QED BY <1>1, <2>2 DEF Local, Control
<1>5. graph_order \in Order
  BY DEF IInv, Type
<1>6. /\ o \in Planner /\ o.prio_vec = graph_order /\ o.old_prio_vec = p.old_prio_vec
      /\ o.own_fca = p.own_fca /\ o.plan = p.plan /\ o.follows = p.follows /\ o.stopFlag = p.stopFlag
  BY <1>1, <1>2, <1>4, <1>5 DEF Planner
<1>7. /\ r.pc = "prev" /\ r.stage = "new" /\ r.wait = Prev(v, r) /\ r.received_messages = {}
      /\ r.prio_vec = o.prio_vec /\ r.old_prio_vec = o.old_prio_vec
      /\ r.own_fca = o.own_fca /\ r.plan = o.plan
      /\ r.follows = o.follows /\ r.stopFlag = o.stopFlag
      /\ r \in Planner
  BY <1>3, <1>6, StaticFields
<1>8. Afresh(v, p, r)
  BY <1>6, <1>7 DEF Afresh
<1>9. mode = "vertex_ordering"
  BY <1>1
<1>10. Begins(mode, graph_order, p, r)
  BY <1>6, <1>7, <1>9 DEF Begins
<1>11. NobodyStopped => \A u \in Vehicle \ {v} : Jumped(mode, v, u, p, r)
  BY <1>1, <1>7, <1>9 DEF Jumped
<1> QED BY <1>2, <1>3, <1>8, <1>10, <1>11, EnteringStep

(* Back to the old priorities.                                             *)
LEMMA SyncOldStep ==
  ASSUME Fleet, IInv, NEW v \in Vehicle, NEW p, p = planner[v], p.pc = "sync", Proceeds(p), p.sync_id = 3,
         Fails(p), NEW stage, stage = IF mode = "random" THEN "last" ELSE "old",
         NEW r, r = Static([p EXCEPT !.prio_vec = p.old_prio_vec], v, stage), Moves(v, r),
         channel' = channel
  PROVE  IInv'
<1>1. /\ mode \in {"random", "vertex_ordering"}
      /\ p \in Planner /\ Local(mode, graph_order, v, p)
      /\ NobodyStopped => \A u \in Vehicle : u \in p.received_messages
  BY AfterSync
<1>2. PICK o : o = [p EXCEPT !.prio_vec = p.old_prio_vec]
  OBVIOUS
<1>3. (stage = "last" /\ mode = "random") \/ (stage = "old" /\ mode = "vertex_ordering")
  <2>1. mode = "random" => stage = "last"
    OBVIOUS
  <2>2. mode # "random" => stage = "old"
    OBVIOUS
  <2> QED BY <1>1, <2>1, <2>2
<1>4. r = Static(o, v, stage)
  BY <1>2
<1>5. /\ o \in Planner /\ o.prio_vec = p.old_prio_vec /\ o.old_prio_vec = p.old_prio_vec
      /\ o.own_fca = p.own_fca /\ o.plan = p.plan /\ o.follows = p.follows /\ o.stopFlag = p.stopFlag
  BY <1>1, <1>2 DEF Planner
<1>6. stage \in {"new", "old", "last"}
  BY <1>3
<1>7. /\ r.pc = "prev" /\ r.stage = stage /\ r.wait = Prev(v, r) /\ r.received_messages = {}
      /\ r.prio_vec = o.prio_vec /\ r.old_prio_vec = o.old_prio_vec
      /\ r.own_fca = o.own_fca /\ r.plan = o.plan
      /\ r.follows = o.follows /\ r.stopFlag = o.stopFlag
      /\ r \in Planner
  <2>1. o \in Planner
    BY <1>5
  <2> QED BY <1>4, <1>6, <2>1, StaticFields
<1>8. Afresh(v, p, r)
  BY <1>5, <1>7 DEF Afresh
<1>9. Begins(mode, graph_order, p, r)
  BY <1>1, <1>3, <1>5, <1>7 DEF Begins, Fails
<1>10. NobodyStopped => \A u \in Vehicle \ {v} : Jumped(mode, v, u, p, r)
  BY <1>1, <1>3, <1>7 DEF Jumped, Fails
<1> QED BY <1>8, <1>9, <1>10, EnteringStep

(* The last round.                                                         *)
LEMMA SyncLastStep ==
  ASSUME Fleet, IInv, NEW v \in Vehicle, NEW p, p = planner[v], p.pc = "sync", Proceeds(p),
         \/ p.sync_id = 3 /\ Works(p) /\ mode # "random"
         \/ p.sync_id = 4,
         Moves(v, Static(p, v, "last")), channel' = channel
  PROVE  IInv'
<1>1. /\ mode \in {"random", "vertex_ordering"}
      /\ mode = "random" => p.sync_id = 3
      /\ p \in Planner
      /\ NobodyStopped => \A u \in Vehicle : u \in p.received_messages
  BY AfterSync
<1>2. mode = "vertex_ordering"
  BY <1>1
<1>3. PICK r : r = Static(p, v, "last")
  OBVIOUS
<1>4. Afresh(v, p, r) /\ r.stage = "last" /\ r.prio_vec = p.prio_vec
  BY <1>1, <1>3, StaticFields DEF Afresh
<1>5. Begins(mode, graph_order, p, r)
  BY <1>2, <1>4 DEF Begins, Works
<1>6. NobodyStopped => \A u \in Vehicle \ {v} : Jumped(mode, v, u, p, r)
  BY <1>1, <1>2, <1>4 DEF Jumped, Works
<1> QED BY <1>3, <1>4, <1>5, <1>6, EnteringStep

(* The round with drawn priorities worked.                                 *)
LEMMA SyncDoneStep ==
  ASSUME Fleet, IInv, NEW v \in Vehicle, NEW p, p = planner[v], p.pc = "sync", Proceeds(p),
         p.sync_id = 3, Works(p), mode = "random",
         Moves(v, Finish(p, TRUE)), channel' = channel
  PROVE  IInv'
<1>1. /\ p \in Planner /\ Local(mode, graph_order, v, p)
      /\ NobodyStopped => \A u \in Vehicle : u \in p.received_messages
  BY AfterSync
<1>2. PICK r : r = Finish(p, TRUE)
  OBVIOUS
<1>3. /\ r.pc = "done" /\ r.follows = p.plan
      /\ r.stage = p.stage /\ r.prio_vec = p.prio_vec /\ r.old_prio_vec = p.old_prio_vec
      /\ r.own_fca = p.own_fca /\ r.plan = p.plan
      /\ r.other_vehicles_buffer = p.other_vehicles_buffer /\ r.stopFlag = p.stopFlag
      /\ r \in Planner
  <2>1. r = [p EXCEPT !.pc = "done", !.follows = p.plan]
    BY <1>2 DEF Finish
  <2> QED BY <1>1, <2>1 DEF Planner
<1>4. p.stage = "new"
  BY <1>1 DEF Local, Control
<1>5. Level(p) = 6 /\ RoundLevel(p) = 4 /\ Level(r) = 11 /\ RoundLevel(r) = 4
  BY <1>3, <1>4 DEF Level, RoundLevel
<1>6. Over(p) /\ Good(p) /\ Over(r)
  BY <1>5 DEF Over, Good, Works
<1>7. p.plan > 0 /\ 3 * p.plan < 4
  <2>1. Level(p) >= 4
    BY <1>5
  <2> QED BY <2>1, <1>1, <1>5, <1>6 DEF Local, Plannings
<1>8. Local(mode, graph_order, v, r)
  <2>1. Level(r) >= 4 /\ ~(Level(r) < 4)
    BY <1>5
  <2>2. Control(mode, graph_order, r)
    BY <1>3, <1>4, <2>1 DEF Control
  <2>3. Waits(v, r)
    BY <1>3 DEF Waits
  <2>4. Plannings(r)
    BY <1>3, <1>5, <1>7, <2>1 DEF Plannings
  <2> QED BY <2>2, <2>3, <2>4 DEF Local
<1>9. r.follows > 0
  BY <1>3, <1>7
<1>10. ASSUME NobodyStopped
       PROVE  Agreement'
  <2>1. ASSUME NEW u \in Vehicle \ {v}
        PROVE  /\ Pair(mode, graph_order, v, u, r, planner[u], Mine(channel, v))
               /\ Pair(mode, graph_order, u, v, planner[u], r, Mine(channel, u))
    <3>1. Two("random", graph_order, v, u, p, planner[u], Mine(channel, v), Mine(channel, u))
      BY <1>10, Twos
    <3>2. Settles(u, p, r)
      BY <1>1, <1>3, <1>9, <1>10 DEF Settles, Works
    <3> QED BY <1>3, <3>1, <3>2, Settled
  <2> QED BY <1>2, <1>10, <2>1, FramedSilent DEF IInv
<1>11. r.stopFlag = planner[v].stopFlag
  BY <1>3
<1> QED BY <1>2, <1>3, <1>8, <1>10, <1>11, Concluded, Unchanged

LEMMA SyncReadStep ==
  ASSUME Fleet, IInv, NEW v \in Vehicle, SyncRead(v)
  PROVE  IInv'
<1>1. PICK p : p = planner[v]
  OBVIOUS
<1>2. p.pc = "sync" /\ Proceeds(p) /\ channel' = channel /\ Moves(v, Synchronised(p, v))
  BY <1>1 DEF SyncRead, Step, Moves
<1>3. mode \in {"random", "vertex_ordering"} /\ p.sync_id \in {5, 3, 4} /\ (Works(p) \/ Fails(p))
      /\ (mode = "random" => p.sync_id = 3)
  <2>1. /\ mode \in {"random", "vertex_ordering"} /\ p.sync_id \in {5, 3, 4}
        /\ mode = "random" => p.sync_id = 3
        /\ p \in Planner
    BY <1>1, <1>2, AfterSync
  <2>2. Works(p) \/ Fails(p)
    BY <2>1 DEF Planner, Works, Fails
  <2> QED BY <2>1, <2>2
<1>4. CASE p.sync_id = 5
  <2>1. Synchronised(p, v) =
          Static([p EXCEPT !.old_prio_vec = p.prio_vec, !.prio_vec = graph_order], v, "new")
    BY <1>3, <1>4, mode # "fca" DEF Synchronised
  <2> QED BY <1>1, <1>2, <1>4, <2>1, SyncGraphStep
<1>5. CASE p.sync_id = 3 /\ Fails(p)
  <2>1. PICK stage : stage = IF mode = "random" THEN "last" ELSE "old"
    OBVIOUS
  <2>2. ~p.feasible
    BY <1>5 DEF Fails
  <2>3. Synchronised(p, v) = Static([p EXCEPT !.prio_vec = p.old_prio_vec], v, stage)
    BY <1>5, <2>1, <2>2 DEF Synchronised
  <2>4. PICK r : r = Static([p EXCEPT !.prio_vec = p.old_prio_vec], v, stage)
    OBVIOUS
  <2>5. Moves(v, r)
    BY <1>2, <2>3, <2>4
  <2> QED BY <1>1, <1>2, <1>5, <2>1, <2>4, <2>5, SyncOldStep
<1>6. CASE p.sync_id = 3 /\ Works(p) /\ mode = "random"
  <2>1. p.feasible
    BY <1>6 DEF Works
  <2>2. Synchronised(p, v) = Finish(p, TRUE)
    BY <1>6, <2>1 DEF Synchronised
  <2> QED BY <1>1, <1>2, <1>6, <2>2, SyncDoneStep
<1>7. CASE p.sync_id = 3 /\ Works(p) /\ mode # "random"
  <2>1. p.feasible
    BY <1>7 DEF Works
  <2>2. Synchronised(p, v) = Static(p, v, "last")
    BY <1>7, <2>1 DEF Synchronised
  <2> QED BY <1>1, <1>2, <1>7, <2>2, SyncLastStep
<1>8. CASE p.sync_id = 4
  <2>1. Synchronised(p, v) = Static(p, v, "last")
    BY <1>8 DEF Synchronised
  <2> QED BY <1>1, <1>2, <1>8, <2>1, SyncLastStep
<1> QED BY <1>3, <1>4, <1>5, <1>6, <1>7, <1>8

-----------------------------------------------------------------------------
(* Steps before the first round                                            *)

Readies(M, v, p, r) ==
  /\ p.pc \in {"begin", "write fca", "read fca", "optimal"}
  /\ \/ M = "random" /\ r.pc = "write fca"
     \/ M = "random" /\ r.pc = "read fca" /\ r.wait = Vehicle /\ r.received_messages = {v}
                     /\ r.fca[v] = r.own_fca
     \/ M = "vertex_ordering" /\ r.pc = "optimal" /\ r.wait = Vehicle /\ r.received_messages = {v}
     \/ M = "vertex_ordering" /\ r.pc = "announce" /\ r.wait = Vehicle /\ r.received_messages = {v}
                              /\ r.sync_id = 5
  /\ r.stage = p.stage /\ r.prio_vec = p.prio_vec /\ r.old_prio_vec = p.old_prio_vec
  /\ r.plan = p.plan /\ r.follows = p.follows

LEMMA EarlyLocal ==
  ASSUME NEW M, NEW G, NEW v \in Vehicle, NEW p \in Planner, NEW r \in Planner, Local(M, G, v, p),
         Readies(M, v, p, r)
  PROVE  Local(M, G, v, r)
<1>1. Level(p) \in {0, 1, 2} /\ Level(r) \in {1, 2} /\ ~(Over(r) /\ Good(r))
  <2>1. Level(p) \in {0, 1, 2}
    BY DEF Readies, Level
  <2>2. Level(r) \in {1, 2}
    BY DEF Readies, Level
  <2>3. RoundLevel(r) \in {4, 7, 10}
    BY DEF RoundLevel
  <2> QED BY <2>1, <2>2, <2>3 DEF Over
<1>2. Level(p) < 4 /\ Level(r) < 4 /\ ~(Level(r) >= 4)
  BY <1>1
<1>3. p.stage = "new" /\ p.prio_vec = p.old_prio_vec /\ p.plan = 0 /\ p.follows = 0
  <2>1. p.stage = "new" /\ p.pc # "done"
    BY DEF Local, Control, Readies
  <2> QED BY <1>2, <2>1 DEF Local, Control, Plannings
<1>4. Control(M, G, r)
  <2>1. r.stage = "new" /\ r.prio_vec = r.old_prio_vec
    BY <1>3 DEF Readies
  <2>2. /\ r.pc \in {"write fca", "read fca", "optimal", "announce"}
        /\ r.pc = "announce" => M = "vertex_ordering" /\ r.sync_id = 5
        /\ M \in {"random", "vertex_ordering"}
        /\ M = "random" => r.pc \in {"write fca", "read fca"}
        /\ M = "vertex_ordering" => r.pc \in {"optimal", "announce"}
    BY DEF Readies
  <2>3. /\ r.pc \notin {"sync", "prev", "ignored", "done", "begin"}
        /\ r.stage \notin {"old", "last"} /\ M # "id"
        /\ r.pc = "announce" => M # "random"
    BY <2>1, <2>2
  <2>4. /\ r.pc \in {"announce", "sync"} =>
             r.sync_id \in {5, 3, 4} /\ r.stage = (IF r.sync_id = 4 THEN "old" ELSE "new")
    <3>1. r.pc \in {"announce", "sync"} => r.sync_id = 5
      BY <2>2, <2>3
    <3>2. r.sync_id = 5 => r.sync_id \in {5, 3, 4} /\ r.sync_id # 4
      OBVIOUS
    <3> QED BY <2>1, <3>1, <3>2
  <2>5. /\ M = "random" => /\ r.stage \in {"new", "last"} /\ r.pc # "optimal"
                            /\ r.pc \in {"announce", "sync"} => r.sync_id = 3
        /\ M = "vertex_ordering" => /\ r.pc \notin {"write fca", "read fca"}
                                     /\ r.pc = "done" => r.stage = "last"
    BY <2>1, <2>2
  <2> QED BY <1>2, <2>1, <2>2, <2>3, <2>4, <2>5 DEF Control
<1>5. Waits(v, r)
  BY DEF Waits, Readies
<1>6. Plannings(r)
  <2>1. r.pc \notin {"prev", "ignored", "done"}
    BY DEF Readies
  <2>2. r.plan = 0 /\ r.follows = 0
    BY <1>3 DEF Readies
  <2> QED BY <1>1, <1>2, <2>1, <2>2 DEF Plannings
<1> QED BY <1>4, <1>5, <1>6 DEF Local

LEMMA Prepared ==
  ASSUME NEW M, NEW G, NEW v \in Vehicle, NEW u \in Vehicle, u # v, NEW p \in Planner, NEW r \in Planner,
         Local(M, G, v, p), Readies(M, v, p, r),
         Level(p) <= Level(r), Level(p) >= 2 => r.own_fca = p.own_fca,
         r.pc = "announce" => p.pc = "optimal" /\ u \in p.received_messages
  PROVE  Prepares(M, v, u, p, r)
<1>1. r.pc = "write fca" => Level(r) = 1
  BY DEF Level
<1>2. r.pc = "optimal" => Level(r) = 1
  BY DEF Level
<1>3. r.pc \in {"read fca", "announce"} => Level(r) = 2
  BY DEF Level, Readies
<1>4. r.pc \in {"write fca", "optimal", "read fca", "announce"}
  BY DEF Readies
<1>5. Level(r) \in 1 .. 3 /\ (Level(r) >= 2 => r.pc \in {"read fca", "announce"})
  <2>1. Level(r) = 1 \/ (Level(r) = 2 /\ r.pc \in {"read fca", "announce"})
    BY <1>1, <1>2, <1>3, <1>4
  <2>2. Level(r) = 1 => Level(r) \in 1 .. 3 /\ ~(Level(r) >= 2)
    OBVIOUS
  <2>3. Level(r) = 2 => Level(r) \in 1 .. 3
    OBVIOUS
  <2> QED BY <2>1, <2>2, <2>3
<1>6. /\ p.stage = "new" /\ r.stage = p.stage /\ r.old_prio_vec = p.old_prio_vec
  BY DEF Local, Control, Readies
<1>7. r.pc \in {"read fca", "announce", "sync", "optimal"} => u \notin r.received_messages
  BY DEF Readies
<1>8. M = "vertex_ordering" => r.pc # "read fca"
  BY DEF Readies
<1> QED BY <1>5, <1>6, <1>7, <1>8 DEF Prepares

LEMMA EarlyPair ==
  ASSUME NEW M, NEW G, NEW v, NEW u, NEW p, NEW q, NEW r, NEW c, NEW d,
         Two(M, G, v, u, p, q, c, d), Local(M, G, v, r), Prepares(M, v, u, p, r)
  PROVE  Pair(M, G, v, u, r, q, c) /\ Pair(M, G, u, v, q, r, d)
<1>1. /\ M \in {"id", "random", "vertex_ordering"} /\ u # v
      /\ p.stage \in {"new", "old", "last"} /\ q.stage \in {"new", "old", "last"}
      /\ Local(M, G, v, p) /\ Local(M, G, u, q)
      /\ Pair(M, G, v, u, p, q, c) /\ Pair(M, G, u, v, q, p, d)
  BY DEF Two, Both, Planner
<1> QED BY <1>1, Early

LEMMA ReadyStep ==
  ASSUME Fleet, IInv, NEW v \in Vehicle, NEW p, p = planner[v], NEW r \in Planner,
         Readies(mode, v, p, r), r.stopFlag = p.stopFlag,
         NobodyStopped => \A u \in Vehicle \ {v} : Prepares(mode, v, u, p, r),
         Moves(v, r), channel' = channel
  PROVE  IInv'
<1>1. p \in Planner /\ Local(mode, graph_order, v, p)
  BY DEF IInv, Type
<1>2. Local(mode, graph_order, v, r)
  BY <1>1, EarlyLocal
<1>3. ASSUME NobodyStopped
      PROVE  Agreement'
  <2>1. ASSUME NEW u \in Vehicle \ {v}
        PROVE  /\ Pair(mode, graph_order, v, u, r, planner[u], Mine(channel, v))
               /\ Pair(mode, graph_order, u, v, planner[u], r, Mine(channel, u))
    <3>1. Two(mode, graph_order, v, u, p, planner[u], Mine(channel, v), Mine(channel, u))
      BY <1>3, Twos
    <3>2. Prepares(mode, v, u, p, r)
      BY <1>3
    <3> QED BY <1>2, <3>1, <3>2, EarlyPair
  <2> QED BY <1>3, <2>1, FramedSilent DEF IInv
<1> QED BY <1>2, <1>3, Concluded, Unchanged

(* plan() with random priorities.                                          *)
LEMMA BeginRandomStep ==
  ASSUME Fleet, IInv, NEW v \in Vehicle, planner[v].pc = "begin", mode = "random", NEW f \in Fca,
         Moves(v, [planner[v] EXCEPT !.pc = "write fca", !.own_fca = f]), channel' = channel
  PROVE  IInv'
<1>1. PICK p : p = planner[v]
  OBVIOUS
<1>2. PICK r : r = [p EXCEPT !.pc = "write fca", !.own_fca = f]
  OBVIOUS
<1>3. p \in Planner /\ Local(mode, graph_order, v, p)
  BY <1>1 DEF IInv, Type
<1>4. /\ r \in Planner /\ r.pc = "write fca" /\ r.stage = p.stage /\ r.prio_vec = p.prio_vec
      /\ r.old_prio_vec = p.old_prio_vec /\ r.plan = p.plan /\ r.follows = p.follows
      /\ r.stopFlag = p.stopFlag
  BY <1>2, <1>3 DEF Planner
<1>5. Readies(mode, v, p, r)
  BY <1>1, <1>4 DEF Readies
<1>6. Level(p) = 0 /\ Level(r) = 1
  BY <1>1, <1>4 DEF Level
<1>7. ASSUME NEW u \in Vehicle \ {v}
      PROVE  Prepares(mode, v, u, p, r)
  <2>1. Level(p) <= Level(r) /\ ~(Level(p) >= 2) 
    BY <1>6
  <2>2. r.pc # "announce"
    BY <1>4
  <2> QED BY <1>3, <1>4, <1>5, <2>1, <2>2, Prepared
<1> QED BY <1>1, <1>2, <1>4, <1>5, <1>7, ReadyStep

(* The optimal trajectories of the others have been read.                  *)
LEMMA OptimalReadStep ==
  ASSUME Fleet, IInv, NEW v \in Vehicle, OptimalRead(v)
  PROVE  IInv'
<1>1. PICK p : p = planner[v]
  OBVIOUS
<1>2. p.pc = "optimal" /\ Proceeds(p) /\ channel' = channel /\ mode' = mode /\ graph_order' = graph_order
  BY <1>1 DEF OptimalRead
<1>3. PICK f \in Fca :
        Step(v, [Announce(p, 5, TRUE, Vehicle, v) EXCEPT !.active_vehicles = Vehicle, !.own_fca = f])
  BY <1>1 DEF OptimalRead
<1>4. PICK o : o = Announce(p, 5, TRUE, Vehicle, v)
  OBVIOUS
<1>5. PICK r : r = [o EXCEPT !.active_vehicles = Vehicle, !.own_fca = f]
  OBVIOUS
<1>6. Moves(v, r)
  BY <1>2, <1>3, <1>4, <1>5 DEF Step, Moves
<1>7. p \in Planner /\ Local(mode, graph_order, v, p)
  BY <1>1 DEF IInv, Type
<1>8. /\ o.pc = "announce" /\ o.sync_id = 5
      /\ o.wait = Vehicle /\ o.received_messages = {v}
      /\ o.stage = p.stage /\ o.prio_vec = p.prio_vec /\ o.old_prio_vec = p.old_prio_vec
      /\ o.plan = p.plan /\ o.follows = p.follows /\ o.stopFlag = p.stopFlag /\ o \in Planner
  <2>1. PICK id \in SyncId : id = 5
    BY DEF SyncId
  <2>2. PICK feasible \in BOOLEAN : feasible = TRUE
    OBVIOUS
  <2>3. o = Announce(p, id, feasible, Vehicle, v)
    BY <1>4, <2>1, <2>2
  <2>4. /\ o.pc = "announce" /\ o.sync_id = id
        /\ o.wait = Vehicle /\ o.received_messages = {v}
        /\ o.stage = p.stage /\ o.prio_vec = p.prio_vec /\ o.old_prio_vec = p.old_prio_vec
        /\ o.plan = p.plan /\ o.follows = p.follows /\ o.stopFlag = p.stopFlag /\ o \in Planner
    BY <1>7, <2>3, AnnounceFields
  <2> QED BY <2>1, <2>4
<1>9. /\ r \in Planner /\ r.pc = o.pc /\ r.sync_id = o.sync_id /\ r.wait = o.wait
      /\ r.received_messages = o.received_messages
      /\ r.stage = o.stage /\ r.prio_vec = o.prio_vec /\ r.old_prio_vec = o.old_prio_vec
      /\ r.plan = o.plan /\ r.follows = o.follows /\ r.stopFlag = o.stopFlag
  BY <1>5, <1>8 DEF Planner
<1>10. mode = "vertex_ordering"
  <2>1. mode \in {"id", "random", "vertex_ordering"}
    BY DEF IInv, Type, Fleet
  <2>2. /\ mode = "id" => p.pc \in {"begin", "prev", "ignored", "done"}
        /\ mode = "random" => p.pc # "optimal"
    BY <1>7 DEF Local, Control
  <2> QED BY <1>2, <2>1, <2>2
<1>11. Readies(mode, v, p, r)
  BY <1>2, <1>8, <1>9, <1>10 DEF Readies
<1>12. Level(p) = 1 /\ Level(r) = 2
  BY <1>2, <1>8, <1>9 DEF Level
<1>13. Level(p) <= Level(r) /\ ~(Level(p) >= 2)
  BY <1>12
<1>14. ASSUME NobodyStopped, NEW u \in Vehicle \ {v}
       PROVE  Prepares(mode, v, u, p, r)
  <2>1. p.wait = Vehicle
    BY <1>2, <1>7 DEF Local, Waits
  <2>2. Heard(p)
    BY <1>1, <1>2, <1>14 DEF Proceeds, NobodyStopped
  <2>3. u \in p.received_messages
    BY <2>1, <2>2 DEF Heard
  <2> QED BY <1>2, <1>7, <1>9, <1>11, <1>13, <2>3, Prepared
<1>15. r.stopFlag = p.stopFlag
  BY <1>8, <1>9
<1> QED BY <1>1, <1>2, <1>6, <1>9, <1>11, <1>14, <1>15, ReadyStep

(* Something is sent.                                                      *)
LEMMA SentStep ==
  ASSUME Fleet, IInv, NEW v \in Vehicle, NEW p, p = planner[v], NEW r \in Planner, Moves(v, r),
         Local(mode, graph_order, v, r), r.stopFlag = p.stopFlag,
         NEW t \in Topic, NEW m \in MessageOf(t), m.from = v, Publish(t, m),
         NobodyStopped => \A u \in Vehicle \ {v} :
           /\ Pair(mode, graph_order, v, u, r, planner[u], Mine(channel, v))
           /\ Pair(mode, graph_order, u, v, planner[u], r, Mine(channel, u))
           /\ Says(mode, t, u, v, planner[u], r, m)
           /\ t = "trajectory" =>
                /\ Queue(u, Append(channel[t][u], m))
                /\ Outcome(planner[u], r, Append(channel[t][u], m))
                /\ \A w \in Vehicle \ {v} :
                     u # w => Outcome(planner[u], planner[w], Append(channel[t][u], m))
  PROVE  IInv'
<1>1. /\ channel' \in [Topic -> [Vehicle -> Seq(Message)]]
      /\ \A x \in Topic : \A u \in Vehicle : channel'[x][u] \in Seq(MessageOf(x))
      /\ Foreign(channel')
      /\ \A u \in Vehicle : channel'[t][u] =
              IF u = v THEN channel[t][u] ELSE Append(channel[t][u], m)
      /\ \A x \in Topic \ {t} : channel'[x] = channel[x]
  BY Published DEF IInv
<1>2. ASSUME NobodyStopped
      PROVE  Agreement'
  <2>1. ASSUME NEW u \in Vehicle \ {v}
        PROVE  Pair(mode, graph_order, u, v, planner[u], r, Mine(channel', u))
    <3>1. Mine(channel, u)[t] \in Seq(MessageOf(t))
      BY DEF Mine, IInv, Type
    <3>2. /\ Mine(channel', u)[t] = Append(Mine(channel, u)[t], m)
          /\ Mine(channel, u)[t] = channel[t][u]
          /\ \A x \in Topic \ {t} : Mine(channel', u)[x] = Mine(channel, u)[x]
      BY <1>1 DEF Mine
    <3>3. Says(mode, t, u, v, planner[u], r, m)
      BY <1>2
    <3>4. t = "trajectory" => Outcome(planner[u], r, Mine(channel', u)["trajectory"])
      BY <1>2, <3>2
    <3>5. Pair(mode, graph_order, u, v, planner[u], r, Mine(channel, u))
      BY <1>2
    <3> QED BY <3>1, <3>2, <3>3, <3>4, <3>5, PairAppended
  <2>2. /\ t = "trajectory" => \A u \in Vehicle \ {v} : Queue(u, Append(channel[t][u], m))
        /\ t = "trajectory" => \A u, w \in Vehicle \ {v} :
             u # w => Outcome(planner[u], planner[w], Append(channel[t][u], m))
    BY <1>2
  <2>3. \A u \in Vehicle \ {v} : Pair(mode, graph_order, v, u, r, planner[u], Mine(channel, v))
    BY <1>2
  <2>4. Type /\ Agreement
    BY <1>2 DEF IInv
  <2> QED BY <2>1, <2>2, <2>3, <2>4, FramedSent
<1> QED BY <1>1, <1>2, Concluded

(* write_fca.                                                              *)
LEMMA WriteFcaStep ==
  ASSUME Fleet, IInv, NEW v \in Vehicle, WriteFca(v)
  PROVE  IInv'
<1>1. PICK p : p = planner[v]
  OBVIOUS
<1>2. p.pc = "write fca" /\ mode' = mode /\ graph_order' = graph_order
  BY <1>1 DEF WriteFca
<1>3. p \in Planner /\ Local(mode, graph_order, v, p)
  BY <1>1 DEF IInv, Type
<1>4. mode = "random"
  <2>1. mode \in {"id", "random", "vertex_ordering"}
    BY DEF IInv, Type, Fleet
  <2>2. /\ mode = "id" => p.pc \in {"begin", "prev", "ignored", "done"}
        /\ mode = "vertex_ordering" => p.pc \notin {"write fca", "read fca"}
    BY <1>3 DEF Local, Control
  <2> QED BY <1>2, <2>1, <2>2
<1>5. PICK o : o = Waiting(p, "read fca", Vehicle, {v})
  OBVIOUS
<1>6. PICK r : r = [o EXCEPT !.fca = [Nobody EXCEPT ![v] = p.own_fca]]
  OBVIOUS
<1>7. Step(v, [Waiting(p, "read fca", Vehicle, {v}) EXCEPT !.fca = [Nobody EXCEPT ![v] = p.own_fca]])
  BY <1>1, <1>4 DEF WriteFca
<1>8. Moves(v, r)
  BY <1>2, <1>5, <1>6, <1>7 DEF Step, Moves
<1>9. /\ o.pc = "read fca" /\ o.wait = Vehicle /\ o.received_messages = {v}
      /\ o.stage = p.stage /\ o.prio_vec = p.prio_vec /\ o.old_prio_vec = p.old_prio_vec
      /\ o.own_fca = p.own_fca
      /\ o.plan = p.plan /\ o.follows = p.follows /\ o.stopFlag = p.stopFlag /\ o \in Planner
  <2>1. o = [p EXCEPT !.pc = "read fca", !.wait = Vehicle, !.received_messages = {v}]
    BY <1>5 DEF Waiting
  <2> QED BY <1>3, <2>1 DEF Planner
<1>10. [Nobody EXCEPT ![v] = p.own_fca] \in [Vehicle -> Fca] /\ [Nobody EXCEPT ![v] = p.own_fca][v] = p.own_fca
  BY <1>3 DEF Nobody, Planner, Fleet
<1>11. /\ r \in Planner /\ r.pc = o.pc /\ r.wait = o.wait /\ r.received_messages = o.received_messages
       /\ r.stage = o.stage /\ r.prio_vec = o.prio_vec /\ r.old_prio_vec = o.old_prio_vec
       /\ r.own_fca = o.own_fca /\ r.fca[v] = p.own_fca
       /\ r.plan = o.plan /\ r.follows = o.follows /\ r.stopFlag = o.stopFlag
  BY <1>6, <1>9, <1>10 DEF Planner
<1>12. Readies(mode, v, p, r)
  BY <1>2, <1>4, <1>9, <1>11 DEF Readies
<1>13. Local(mode, graph_order, v, r)
  BY <1>3, <1>11, <1>12, EarlyLocal
<1>14. Level(p) = 1 /\ Level(r) = 2
  BY <1>2, <1>9, <1>11 DEF Level
<1>15. PICK m : m = [from |-> v, fca |-> p.own_fca]
  OBVIOUS
<1>16. "fca" \in Topic /\ m \in MessageOf("fca") /\ m.from = v /\ Publish("fca", m)
  <2>1. p.own_fca \in Fca
    BY <1>3 DEF Planner
  <2>2. Publish("fca", [from |-> v, fca |-> p.own_fca])
    BY <1>1 DEF WriteFca
  <2>3. MessageOf("fca") = [from : Vehicle, fca : Fca]
    BY DEF MessageOf
  <2>4. m.from = v /\ m \in MessageOf("fca")
    BY <1>15, <2>1, <2>3
  <2>5. "fca" \in Topic
    BY DEF Topic
  <2> QED BY <1>15, <2>2, <2>4, <2>5
<1>17. \A u, q : Says(mode, "fca", u, v, q, r, m)
  <2>1. m.fca = r.own_fca
    BY <1>9, <1>11, <1>15
  <2>2. Level(r) >= 2
    BY <1>14
  <2> QED BY <2>1, <2>2 DEF Says
<1>18. ASSUME NobodyStopped, NEW u \in Vehicle \ {v}
       PROVE  /\ Pair(mode, graph_order, v, u, r, planner[u], Mine(channel, v))
              /\ Pair(mode, graph_order, u, v, planner[u], r, Mine(channel, u))
  <2>1. Two(mode, graph_order, v, u, p, planner[u], Mine(channel, v), Mine(channel, u))
    BY <1>1, <1>18, Twos
  <2>2. Level(p) <= Level(r) /\ ~(Level(p) >= 2)
    BY <1>14
  <2>3. r.pc # "announce"
    BY <1>9, <1>11
  <2>4. Prepares(mode, v, u, p, r)
    BY <1>3, <1>11, <1>12, <2>2, <2>3, Prepared
  <2> QED BY <1>13, <2>1, <2>4, EarlyPair
<1>19. r.stopFlag = p.stopFlag
  BY <1>9, <1>11
<1> QED BY <1>1, <1>8, <1>11, <1>13, <1>16, <1>17, <1>18, <1>19, SentStep

(* synchronise writes its message.                                         *)
LEMMA WriteSyncStep ==
  ASSUME Fleet, IInv, NEW v \in Vehicle, WriteSync(v)
  PROVE  IInv'
<1>1. PICK p : p = planner[v]
  OBVIOUS
<1>2. PICK r : r = [p EXCEPT !.pc = "sync"]
  OBVIOUS
<1>3. p.pc = "announce" /\ Moves(v, r)
  BY <1>1, <1>2 DEF WriteSync, Step, Moves
<1>4. p \in Planner /\ Local(mode, graph_order, v, p)
  BY <1>1 DEF IInv, Type
<1>5. /\ r \in Planner /\ r.pc = "sync" /\ r.stage = p.stage /\ r.sync_id = p.sync_id
      /\ r.prio_vec = p.prio_vec /\ r.old_prio_vec = p.old_prio_vec
      /\ r.own_fca = p.own_fca /\ r.plan = p.plan /\ r.feasible = p.feasible
      /\ r.other_vehicles_buffer = p.other_vehicles_buffer
      /\ r.received_messages = p.received_messages /\ r.stopFlag = p.stopFlag
  BY <1>2, <1>4 DEF Planner
<1>6. Local(mode, graph_order, v, r)
  BY <1>2, <1>3, <1>4, ConfirmedLocal
<1>7. /\ p.sync_id \in {5, 3, 4} /\ p.received_messages = {v}
      /\ p.stage = (IF p.sync_id = 4 THEN "old" ELSE "new")
  BY <1>3, <1>4 DEF Local, Control, Waits
<1>8. PICK m : m = [from |-> v, sync_id |-> p.sync_id, feasible |-> p.feasible]
  OBVIOUS
<1>9. /\ "sync" \in Topic /\ m \in MessageOf("sync") /\ m.from = v /\ Publish("sync", m)
      /\ m.sync_id = p.sync_id /\ m.feasible = p.feasible
  <2>1. p.sync_id \in SyncId /\ p.feasible \in BOOLEAN
    BY <1>4 DEF Planner
  <2>2. Publish("sync", [from |-> v, sync_id |-> p.sync_id, feasible |-> p.feasible])
    BY <1>1 DEF WriteSync
  <2>3. MessageOf("sync") = [from : Vehicle, sync_id : SyncId, feasible : BOOLEAN]
    BY DEF MessageOf
  <2>4. m.from = v /\ m \in MessageOf("sync") /\ m.sync_id = p.sync_id /\ m.feasible = p.feasible
    BY <1>8, <2>1, <2>3
  <2>5. "sync" \in Topic
    BY DEF Topic
  <2> QED BY <1>8, <2>2, <2>4, <2>5
<1>10. ASSUME NobodyStopped, NEW u \in Vehicle \ {v}
       PROVE  /\ Pair(mode, graph_order, v, u, r, planner[u], Mine(channel, v))
              /\ Pair(mode, graph_order, u, v, planner[u], r, Mine(channel, u))
              /\ Says(mode, "sync", u, v, planner[u], r, m)
  <2>1. Two(mode, graph_order, v, u, p, planner[u], Mine(channel, v), Mine(channel, u))
    BY <1>1, <1>10, Twos
  <2>2. CASE p.sync_id = 5
    <3>1. Level(p) = 2 /\ Level(r) = 3
      BY <1>3, <1>5, <2>2 DEF Level
    <3>2. Level(p) <= Level(r) /\ Level(r) \in 1 .. 3 /\ Level(p) >= 2 /\ Level(r) >= 3
      BY <3>1
    <3>3. p.stage = "new"
      BY <1>7, <2>2
    <3>4. u \notin r.received_messages
      BY <1>5, <1>7
    <3>5. Prepares(mode, v, u, p, r)
      BY <1>5, <3>2, <3>3, <3>4 DEF Prepares
    <3>6. m.sync_id = 5 /\ m.sync_id # 3 /\ m.sync_id # 4
      BY <1>9, <2>2
    <3>7. Synced(planner[u], r, m)
      BY <3>2, <3>6 DEF Synced
    <3>8. Says(mode, "sync", u, v, planner[u], r, m)
      BY <3>7 DEF Says
    <3> QED BY <1>6, <2>1, <3>5, <3>8, EarlyPair
  <2>3. CASE p.sync_id \in {3, 4}
    <3>1. u \notin r.received_messages
      BY <1>5, <1>7
    <3>2. Confirms(u, p, r)
      BY <1>3, <1>5, <2>3, <3>1 DEF Confirms
    <3>3. /\ Pair(mode, graph_order, v, u, r, planner[u], Mine(channel, v))
          /\ Pair(mode, graph_order, u, v, planner[u], r, Mine(channel, u))
          /\ Synced(planner[u], r, m)
      BY <1>5, <1>9, <2>1, <3>2, Confirmed
    <3> QED BY <3>3 DEF Says
  <2> QED BY <1>7, <2>2, <2>3
<1> QED BY <1>1, <1>3, <1>5, <1>6, <1>9, <1>10, SentStep

LEMMA PathFields ==
  ASSUME NEW m \in MessageOf("trajectory")
  PROVE  /\ m.from \in Vehicle /\ m.type \in {"Final", "Optimal"}
         /\ m.has_collisions \in BOOLEAN /\ m.plan \in Plan
         /\ m.type = "Optimal" => m.has_collisions = FALSE
<1>1. MessageOf("trajectory") = {x \in PlannedPath : x.type = "Optimal" => x.has_collisions = FALSE}
  BY DEF MessageOf
<1>2. m \in PlannedPath /\ (m.type = "Optimal" => m.has_collisions = FALSE)
  BY <1>1
<1>3. m.from \in Vehicle /\ m.type \in {"Final", "Optimal"}
  BY <1>2 DEF PlannedPath
<1>4. m.has_collisions \in BOOLEAN /\ m.plan \in Plan
  BY <1>2 DEF PlannedPath
<1> QED BY <1>2, <1>3, <1>4

LEMMA MessageFields ==
  ASSUME NEW s \in Seq(MessageOf("trajectory")), NEW i \in 1 .. Len(s)
  PROVE  /\ s[i].from \in Vehicle /\ s[i].type \in {"Final", "Optimal"}
         /\ s[i].has_collisions \in BOOLEAN /\ s[i].plan \in Plan
<1>1. PICK m, S : m = s[i] /\ S = MessageOf("trajectory")
  OBVIOUS
<1>2. s \in Seq(S)
  BY <1>1
<1>3. m \in S
  BY <1>1, <1>2
<1>4. m \in MessageOf("trajectory")
  BY <1>1, <1>3
<1> QED BY <1>1, <1>4, PathFields

LEMMA QueueAppended ==
  ASSUME NEW S, NEW s \in Seq(S), NEW m \in S, NEW u, Queue(u, s), m.from # u,
         \A i \in 1 .. Len(s) : s[i].from # m.from /\ s[i].has_collisions # TRUE
  PROVE  Queue(u, Append(s, m))
<1>1. PICK e : e = Append(s, m)
  OBVIOUS
<1>2. /\ Len(e) = Len(s) + 1 /\ Len(s) \in Nat /\ e[Len(s) + 1] = m
      /\ \A i \in 1 .. Len(s) : e[i] = s[i]
      /\ \A i \in 1 .. Len(e) : i \in 1 .. Len(s) \/ i = Len(s) + 1
  BY <1>1
<1>3. \A i, j \in 1 .. Len(e) : i # j => e[i].from # e[j].from
  BY <1>2 DEF Queue
<1>4. \A i \in 1 .. Len(e) : e[i].from # u
  BY <1>2 DEF Queue
<1>5. \A i \in 1 .. Len(e) : e[i].has_collisions = TRUE => i = Len(e)
  BY <1>2
<1> QED BY <1>1, <1>3, <1>4, <1>5 DEF Queue

(* Nobody is further than the first message when one has not begun.        *)
LEMMA NobodyFar ==
  ASSUME Fleet, IInv, NobodyStopped, NEW v \in Vehicle, planner[v].pc = "begin", mode = "vertex_ordering",
         NEW u \in Vehicle \ {v}
  PROVE  Level(planner[u]) <= 1 /\ ~Over(planner[u]) /\ ~(Level(planner[u]) >= 4)
<1>1. Level(planner[v]) = 0
  BY DEF Level
<1>2. Pair(mode, graph_order, u, v, planner[u], planner[v], Mine(channel, u))
  BY DEF IInv, Agreement
<1>3. ~(Level(planner[u]) >= 2)
  <2>1. Level(planner[u]) >= 2 => Level(planner[v]) >= 1
    BY <1>2 DEF Pair, Barriers
  <2> QED BY <1>1, <2>1
<1>4. Level(planner[u]) \in 0 .. 11
  BY LevelRange
<1>5. Over(planner[u]) => Level(planner[u]) >= 4
  BY LevelsApart
<1> QED BY <1>3, <1>4, <1>5

OptimalOf(v) == [from |-> v, type |-> "Optimal", has_collisions |-> FALSE, plan |-> 0]

(* plan() with the vertex ordering.                                        *)
LEMMA BeginVertexStep ==
  ASSUME Fleet, IInv, NEW v \in Vehicle, planner[v].pc = "begin", mode = "vertex_ordering",
         NEW m, m = OptimalOf(v),
         Publish("trajectory", m),
         Moves(v, Waiting(planner[v], "optimal", Vehicle, {v}))
  PROVE  IInv'
<1>1. PICK p : p = planner[v]
  OBVIOUS
<1>2. PICK r : r = Waiting(p, "optimal", Vehicle, {v})
  OBVIOUS
<1>3. p \in Planner /\ Local(mode, graph_order, v, p)
  BY <1>1 DEF IInv, Type
<1>4. /\ r.pc = "optimal" /\ r.wait = Vehicle /\ r.received_messages = {v}
      /\ r.stage = p.stage /\ r.prio_vec = p.prio_vec /\ r.old_prio_vec = p.old_prio_vec
      /\ r.plan = p.plan /\ r.follows = p.follows /\ r.stopFlag = p.stopFlag /\ r \in Planner
  <2>1. r = [p EXCEPT !.pc = "optimal", !.wait = Vehicle, !.received_messages = {v}]
    BY <1>2 DEF Waiting
  <2> QED BY <1>3, <2>1 DEF Planner
<1>5. Readies(mode, v, p, r)
  BY <1>1, <1>4 DEF Readies
<1>6. Local(mode, graph_order, v, r)
  BY <1>3, <1>4, <1>5, EarlyLocal
<1>7. Level(p) = 0 /\ Level(r) = 1
  BY <1>1, <1>4 DEF Level
<1>8. Level(p) <= Level(r) /\ ~(Level(p) >= 2) /\ ~(Level(p) >= 1) /\ Level(r) >= 1 /\ ~(Level(r) >= 4)
      /\ ~(Level(p) >= 4)
  BY <1>7
<1>9. ~Over(r)
  BY <1>8, LevelsApart
<1>10. /\ m.from = v /\ m.type = "Optimal" /\ m.has_collisions = FALSE
       /\ "trajectory" \in Topic /\ m \in MessageOf("trajectory")
  <2>1. 0 \in Plan
    BY DEF Plan
  <2>2. MessageOf("trajectory") = {x \in PlannedPath : x.type = "Optimal" => x.has_collisions = FALSE}
    BY DEF MessageOf
  <2>3. /\ m \in MessageOf("trajectory") /\ m.from = v /\ m.type = "Optimal" /\ m.has_collisions = FALSE
    BY <2>1, <2>2 DEF OptimalOf, PlannedPath
  <2>4. "trajectory" \in Topic
    BY DEF Topic
  <2> QED BY <2>3, <2>4
<1>11. ASSUME NobodyStopped, NEW u \in Vehicle \ {v}
       PROVE  /\ Pair(mode, graph_order, v, u, r, planner[u], Mine(channel, v))
              /\ Pair(mode, graph_order, u, v, planner[u], r, Mine(channel, u))
              /\ Says(mode, "trajectory", u, v, planner[u], r, m)
              /\ Queue(u, Append(channel["trajectory"][u], m))
              /\ Outcome(planner[u], r, Append(channel["trajectory"][u], m))
              /\ \A w \in Vehicle \ {v} :
                   u # w => Outcome(planner[u], planner[w], Append(channel["trajectory"][u], m))
  <2>1. Two(mode, graph_order, v, u, p, planner[u], Mine(channel, v), Mine(channel, u))
    BY <1>1, <1>11, Twos
  <2>2. /\ Pair(mode, graph_order, v, u, r, planner[u], Mine(channel, v))
        /\ Pair(mode, graph_order, u, v, planner[u], r, Mine(channel, u))
    <3>1. r.pc # "announce"
      BY <1>4
    <3>2. Prepares(mode, v, u, p, r)
      BY <1>3, <1>4, <1>5, <1>8, <3>1, Prepared
    <3> QED BY <1>6, <2>1, <3>2, EarlyPair
  <2>3. \A w \in Vehicle \ {v} :
          Level(planner[w]) <= 1 /\ ~Over(planner[w]) /\ ~(Level(planner[w]) >= 4)
    BY <1>11, NobodyFar
  <2>4. Optimals(mode, v, planner[u], r, m)
    <3>1. planner[u].pc = "optimal" => v \notin planner[u].received_messages
      <4>1. Known(mode, u, v, planner[u], p)
        BY <2>1 DEF Two, Pair
      <4> QED BY <1>8, <4>1 DEF Known
    <3> QED BY <1>8, <1>10, <2>3, <3>1 DEF Optimals
  <2>5. Says(mode, "trajectory", u, v, planner[u], r, m)
    <3>1. m.type # "Final"
      BY <1>10
    <3> QED BY <2>4, <3>1 DEF Says
  <2>6. PICK s : s = channel["trajectory"][u]
    OBVIOUS
  <2>7. s \in Seq(MessageOf("trajectory")) /\ Queue(u, s)
    BY <1>10, <1>11, <2>6 DEF IInv, Type, Agreement
  <2>8. ASSUME NEW i \in 1 .. Len(s)
        PROVE  s[i].from # m.from /\ s[i].has_collisions # TRUE
    <3>1. s[i].type \in {"Final", "Optimal"} /\ s[i].from \in Vehicle
      BY <2>7, MessageFields
    <3>2. s[i].from # u
      BY <2>7 DEF Queue
    <3>3. ASSUME s[i].from = v
          PROVE  FALSE
      <4>1. Trajectories(mode, u, v, planner[u], p, s)
        BY <1>10, <2>1, <2>6 DEF Two, Pair, Mine
      <4>2. Finals(u, v, planner[u], p, s[i]) \/ Optimals(mode, v, planner[u], p, s[i])
        BY <3>1, <3>3, <4>1 DEF Trajectories
      <4> QED BY <1>8, <4>2 DEF Finals, Optimals
    <3>4. ASSUME s[i].has_collisions = TRUE
          PROVE  FALSE
      <4>1. PICK w \in Vehicle \ {v, u} : w = s[i].from
        BY <3>1, <3>2, <3>3
      <4>2. Trajectories(mode, u, w, planner[u], planner[w], s)
        BY <1>10, <1>11, <2>6, <4>1 DEF IInv, Agreement, Pair, Mine
      <4>3. Finals(u, w, planner[u], planner[w], s[i]) \/ Optimals(mode, w, planner[u], planner[w], s[i])
        BY <3>1, <4>1, <4>2 DEF Trajectories
      <4>4. ~Finals(u, w, planner[u], planner[w], s[i])
        BY <2>3, <4>1 DEF Finals
      <4>5. ~Optimals(mode, w, planner[u], planner[w], s[i])
        BY <3>4 DEF Optimals
      <4> QED BY <4>3, <4>4, <4>5
    <3> QED BY <1>10, <3>3, <3>4
  <2>9. Queue(u, Append(s, m))
    BY <1>10, <2>7, <2>8, QueueAppended
  <2>10. \A w \in Vehicle \ {v} : Outcome(planner[u], planner[w], Append(s, m))
    BY <2>3 DEF Outcome
  <2>11. Outcome(planner[u], r, Append(s, m))
    BY <1>9 DEF Outcome
  <2> QED BY <2>2, <2>5, <2>6, <2>9, <2>10, <2>11
<1>12. r.stopFlag = p.stopFlag
  BY <1>4
<1>13. Moves(v, r)
  BY <1>1, <1>2
<1>14. PICK t : t = "trajectory"
  OBVIOUS
<1>15. NobodyStopped => \A u \in Vehicle \ {v} :
           /\ Pair(mode, graph_order, v, u, r, planner[u], Mine(channel, v))
           /\ Pair(mode, graph_order, u, v, planner[u], r, Mine(channel, u))
           /\ Says(mode, t, u, v, planner[u], r, m)
           /\ t = "trajectory" =>
                /\ Queue(u, Append(channel[t][u], m))
                /\ Outcome(planner[u], r, Append(channel[t][u], m))
                /\ \A w \in Vehicle \ {v} :
                     u # w => Outcome(planner[u], planner[w], Append(channel[t][u], m))
  BY <1>11, <1>14
<1>16. t \in Topic /\ m \in MessageOf(t) /\ m.from = v /\ Publish(t, m)
  BY <1>10, <1>14
<1> QED BY <1>1, <1>4, <1>6, <1>12, <1>13, <1>15, <1>16, SentStep

LEMMA BeginStep ==
  ASSUME Fleet, IInv, NEW v \in Vehicle, Begin(v)
  PROVE  IInv'
<1>1. planner[v].pc = "begin" /\ mode' = mode /\ graph_order' = graph_order
  BY DEF Begin
<1>2. mode \in {"id", "random", "vertex_ordering"}
  BY DEF IInv, Type, Fleet
<1>3. CASE mode = "id"
  <2>1. Step(v, Static(planner[v], v, "last")) /\ channel' = channel
    BY <1>3 DEF Begin
  <2> QED BY <1>1, <1>3, <2>1, BeginIdStep DEF Step, Moves
<1>4. CASE mode = "random"
  <2>1. PICK f \in Fca : Step(v, [planner[v] EXCEPT !.pc = "write fca", !.own_fca = f])
    BY <1>4 DEF Begin
  <2>2. channel' = channel
    BY <1>4 DEF Begin
  <2>3. Moves(v, [planner[v] EXCEPT !.pc = "write fca", !.own_fca = f])
    BY <1>1, <2>1 DEF Step, Moves
  <2> QED BY <1>1, <1>4, <2>2, <2>3, BeginRandomStep
<1>5. CASE mode = "vertex_ordering"
  <2>1. /\ Publish("trajectory", [from |-> v, type |-> "Optimal", has_collisions |-> FALSE, plan |-> 0])
        /\ Step(v, Waiting(planner[v], "optimal", Vehicle, {v}))
    BY <1>5 DEF Begin
  <2>2. PICK m : m = OptimalOf(v)
    OBVIOUS
  <2>3. Publish("trajectory", m)
    BY <2>1, <2>2 DEF OptimalOf, PlannedPath
  <2>4. Moves(v, Waiting(planner[v], "optimal", Vehicle, {v}))
    BY <1>1, <2>1 DEF Step, Moves
  <2> QED BY <1>1, <1>5, <2>2, <2>3, <2>4, BeginVertexStep
<1> QED BY <1>2, <1>3, <1>4, <1>5

-----------------------------------------------------------------------------
(* Reading                                                                 *)

(* What is taken is from another planner and says what is so.              *)
LEMMA TakenType ==
  ASSUME Type, NEW v \in Vehicle, NEW t \in Topic, NEW arrived \in Arrival(t, v),
         NEW m \in Taken(t, v, arrived)
  PROVE  /\ m \in MessageOf(t) /\ m.from \in Vehicle \ {v}
         /\ \E i \in arrived : i \in 1 .. Len(channel[t][v]) /\ m = channel[t][v][i]
<1>1. PICK s : s = channel[t][v]
  OBVIOUS
<1>2. s \in Seq(MessageOf(t)) /\ DOMAIN s = 1 .. Len(s)
  BY <1>1 DEF Type
<1>3. PICK i \in arrived : m = s[i]
  BY <1>1 DEF Taken
<1>4. i \in 1 .. Len(s)
  BY <1>1, <1>2 DEF Arrival
<1>5. m \in MessageOf(t)
  BY <1>2, <1>3, <1>4
<1>6. m.from \in Vehicle
  BY <1>5 DEF MessageOf, PlannedPath, Topic
<1>7. m.from # v
  BY <1>1, <1>3, <1>4 DEF Type, Foreign, Others
<1> QED BY <1>1, <1>3, <1>4, <1>5, <1>6, <1>7

LEMMA TakenMessages ==
  ASSUME Fleet, IInv, NobodyStopped, NEW v \in Vehicle, NEW t \in Topic, NEW arrived \in Arrival(t, v),
         NEW m \in Taken(t, v, arrived)
  PROVE  /\ m.from \in Vehicle \ {v}
         /\ t = "sync" => Synced(planner[v], planner[m.from], m)
         /\ t = "fca" => Level(planner[m.from]) >= 2 /\ m.fca = planner[m.from].own_fca
         /\ t = "trajectory" =>
              /\ m.type = "Final" => Finals(v, m.from, planner[v], planner[m.from], m)
              /\ m.type = "Optimal" => Optimals(mode, m.from, planner[v], planner[m.from], m)
<1>1. PICK s : s = channel[t][v]
  OBVIOUS
<1>2. m.from \in Vehicle \ {v}
  BY TakenType DEF IInv
<1>3. PICK i \in 1 .. Len(s) : m = s[i]
  BY <1>1, TakenType DEF IInv
<1>8. PICK u \in Vehicle \ {v} : u = m.from
  BY <1>2
<1>9. PICK q : q = planner[u]
  OBVIOUS
<1>10. /\ Trajectories(mode, v, u, planner[v], q, channel["trajectory"][v])
       /\ Syncs(u, planner[v], q, channel["sync"][v]) /\ Fcas(u, q, channel["fca"][v])
  BY <1>9 DEF IInv, Agreement, Pair, Mine, Topic
<1>11. t = "sync" => Synced(planner[v], q, m)
  BY <1>1, <1>3, <1>8, <1>10 DEF Syncs
<1>12. t = "fca" => Level(q) >= 2 /\ m.fca = q.own_fca
  BY <1>1, <1>3, <1>8, <1>10 DEF Fcas
<1>13. t = "trajectory" =>
         /\ m.type = "Final" => Finals(v, u, planner[v], q, m)
         /\ m.type = "Optimal" => Optimals(mode, u, planner[v], q, m)
  BY <1>1, <1>3, <1>8, <1>10 DEF Trajectories
<1> QED BY <1>8, <1>9, <1>11, <1>12, <1>13

LEMMA StillSyncs ==
  ASSUME NEW u, NEW p, NEW q, NEW r, NEW s, Still(p, r), Syncs(u, p, q, s)
  PROVE  Syncs(u, r, q, s)
<1>1. /\ Level(r) = Level(p) /\ Level(p) \in 0 .. 11
      /\ Level(p) >= 4 => (Good(r) <=> Good(p))
  BY StillLevel, LevelRange
<1>2. ASSUME NEW m, Synced(p, q, m)
      PROVE  Synced(r, q, m)
  BY <1>1, <1>2 DEF Synced
<1> QED BY <1>2 DEF Syncs

LEMMA ReadPair ==
  ASSUME Fleet, NEW M, NEW G, NEW v, NEW u, NEW p, NEW q, NEW r, NEW c, NEW d, NEW e,
         Two(M, G, v, u, p, q, c, d), Still(p, r),
         Known(M, v, u, r, q), Trajectories(M, v, u, r, q, e["trajectory"]), Outcome(r, q, e["trajectory"]),
         Syncs(u, r, q, c["sync"]) => Syncs(u, r, q, e["sync"]),
         Fcas(u, q, c["fca"]) => Fcas(u, q, e["fca"])
  PROVE  Pair(M, G, v, u, r, q, e) /\ Pair(M, G, u, v, q, r, d)
<1>1. /\ M \in {"id", "random", "vertex_ordering"}
      /\ p.stage \in {"new", "old", "last"} /\ q.stage \in {"new", "old", "last"}
      /\ Local(M, G, v, p) /\ Local(M, G, u, q)
      /\ Pair(M, G, v, u, p, q, c) /\ Pair(M, G, u, v, q, p, d)
  BY DEF Two, Both, Planner
<1>2. Pair(M, G, u, v, q, r, d)
  BY <1>1, StillSeen
<1>3. Barriers(M, G, r, q) /\ Syncs(u, r, q, c["sync"])
  <2>1. Barriers(M, G, r, q)
    BY <1>1, StillSees
  <2>2. Syncs(u, p, q, c["sync"])
    BY <1>1 DEF Pair
  <2>3. Syncs(u, r, q, c["sync"])
    BY <2>2, StillSyncs
  <2> QED BY <2>1, <2>3
<1>4. Fcas(u, q, c["fca"])
  BY <1>1 DEF Pair
<1> QED BY <1>2, <1>3, <1>4 DEF Pair

LEMMA ReadStep ==
  ASSUME Fleet, IInv, NEW v \in Vehicle, NEW p, p = planner[v], NEW r \in Planner, Moves(v, r),
         Stays(p, r), Good(r) => Good(p), r.stopFlag = p.stopFlag, p.pc # "announce",
         p.received_messages \subseteq r.received_messages,
         p.pc = "read fca" => r.fca[v] = p.fca[v],
         NEW t \in Topic, NEW arrived \in Arrival(t, v), Remove(t, v, arrived),
         NobodyStopped => Still(p, r),
         NobodyStopped => \A u \in Vehicle \ {v} :
           /\ Known(mode, v, u, r, planner[u])
           /\ Trajectories(mode, v, u, r, planner[u], channel'["trajectory"][v])
           /\ Outcome(r, planner[u], channel'["trajectory"][v])
  PROVE  IInv'
<1>1. p \in Planner /\ Local(mode, graph_order, v, p)
  BY DEF IInv, Type
<1>2. Local(mode, graph_order, v, r)
  BY <1>1, StaysLocal
<1>3. /\ channel' \in [Topic -> [Vehicle -> Seq(Message)]]
      /\ \A x \in Topic : \A u \in Vehicle : channel'[x][u] \in Seq(MessageOf(x))
      /\ Foreign(channel')
      /\ \A x \in Topic : \A u \in Vehicle : x # t \/ u # v => channel'[x][u] = channel[x][u]
      /\ \E k \in 1 .. Len(channel[t][v]) :
           arrived = 1 .. k /\ Rest(channel[t][v], k, channel'[t][v])
  BY Removed DEF IInv
<1>4. ASSUME NobodyStopped
      PROVE  Agreement'
  <2>1. PICK S, s, e : S = MessageOf(t) /\ s = channel[t][v] /\ e = channel'[t][v]
    OBVIOUS
  <2>2. PICK k \in 1 .. Len(s) : Rest(s, k, e)
    BY <1>3, <2>1
  <2>3. s \in Seq(S) /\ e \in Seq(S)
    BY <1>3, <2>1 DEF IInv, Type
  <2>4. Queue(v, channel["trajectory"][v])
    BY <1>4 DEF IInv, Agreement
  <2>5. Queue(v, s) => Queue(v, e)
    BY <2>2, <2>3, FewerMessages
  <2>6. "trajectory" \in Topic /\ "sync" \in Topic /\ "fca" \in Topic
    BY DEF Topic
  <2>7. Queue(v, channel'["trajectory"][v])
    BY <1>3, <2>1, <2>4, <2>5, <2>6
  <2>8. ASSUME NEW u \in Vehicle \ {v}
        PROVE  /\ Pair(mode, graph_order, v, u, r, planner[u], Mine(channel', v))
               /\ Pair(mode, graph_order, u, v, planner[u], r, Mine(channel, u))
    <3>1. Two(mode, graph_order, v, u, p, planner[u], Mine(channel, v), Mine(channel, u))
      BY <1>4, Twos
    <3>2. \A x \in Topic : Mine(channel', v)[x] = channel'[x][v] /\ Mine(channel, v)[x] = channel[x][v]
      BY DEF Mine
    <3>3. PICK q : q = planner[u]
      OBVIOUS
    <3>4. /\ Syncs(u, r, q, s) => Syncs(u, r, q, e)
          /\ Fcas(u, q, s) => Fcas(u, q, e)
      BY <2>2, <2>3, FewerMessages
    <3>5. /\ Syncs(u, r, q, Mine(channel, v)["sync"]) => Syncs(u, r, q, Mine(channel', v)["sync"])
          /\ Fcas(u, q, Mine(channel, v)["fca"]) => Fcas(u, q, Mine(channel', v)["fca"])
      BY <1>3, <2>1, <2>6, <3>2, <3>4
    <3>6. /\ Known(mode, v, u, r, q)
          /\ Trajectories(mode, v, u, r, q, Mine(channel', v)["trajectory"])
          /\ Outcome(r, q, Mine(channel', v)["trajectory"])
      BY <1>4, <2>6, <3>2, <3>3
    <3> QED BY <1>4, <3>1, <3>3, <3>5, <3>6, ReadPair
  <2> QED BY <1>3, <1>4, <2>7, <2>8, FramedRead DEF IInv
<1> QED BY <1>2, <1>3, <1>4, Concluded

(* What one that does not plan knows.                                      *)
LEMMA StillKnown ==
  ASSUME NEW M, NEW v, NEW u, NEW p, NEW q, NEW r, Still(p, r), Known(M, v, u, p, q),
         p.pc \in {"read fca", "sync"}, r.other_vehicles_buffer = p.other_vehicles_buffer,
         p.pc = "read fca" /\ u \in r.received_messages => Level(q) >= 2 /\ r.fca[u] = q.own_fca,
         p.pc = "sync" /\ u \in r.received_messages => Level(q) >= Level(p)
  PROVE  Known(M, v, u, r, q)
<1>1. /\ Level(r) = Level(p) /\ RoundLevel(r) = RoundLevel(p)
      /\ Over(r) <=> Over(p)
      /\ Planning(r) <=> Planning(p)
      /\ Level(p) >= 4 => (Good(r) <=> Good(p))
      /\ Prev(v, r) = Prev(v, p)
      /\ Before(u, q, v, r) <=> Before(u, q, v, p)
  BY StillLevel
<1>2. r.pc = p.pc /\ r.stage = p.stage /\ r.pc # "optimal" /\ ~Planning(r)
  BY DEF Still, Stays, Planning
<1>3. Over(p) => Level(p) >= 4
  BY LevelsApart
<1>4. /\ r.pc = "read fca" /\ u \in r.received_messages => Level(q) >= 2 /\ r.fca[u] = q.own_fca
      /\ r.pc = "sync" /\ u \in r.received_messages => Level(q) >= Level(r)
  BY <1>1, <1>2
<1>5. M = "random" /\ r.stage = "new" /\ Level(r) >= 4 => (u \in Prev(v, r) <=> Before(u, q, v, r))
  BY <1>1, <1>2 DEF Known
<1>6. Over(r) /\ Good(r) /\ u \in Prev(v, r) /\ Level(q) >= 4 /\ RoundLevel(q) = RoundLevel(r) =>
        r.other_vehicles_buffer[u] = q.plan
  BY <1>1, <1>3 DEF Known
<1> QED BY <1>2, <1>4, <1>5, <1>6 DEF Known

LEMMA LevelsDiffer ==
  \A a \in {2, 3, 6, 9} : \A b \in {4, 7, 10} : a # b
OBVIOUS

LEMMA StillOutcome ==
  ASSUME NEW p, NEW q, NEW r, NEW s, Still(p, r), Outcome(p, q, s)
  PROVE  Outcome(r, q, s)
<1>1. /\ Level(r) = Level(p) /\ r.pc = p.pc
  BY StillLevel DEF Still, Stays
<1> QED BY <1>1 DEF Outcome

LEMMA StillTrajectories ==
  ASSUME NEW M, NEW v, NEW u, NEW p, NEW q, NEW r, NEW s, Still(p, r),
         p.pc \in {"read fca", "sync"}, Trajectories(M, v, u, p, q, s)
  PROVE  Trajectories(M, v, u, r, q, s)
<1>1. /\ Level(r) = Level(p) /\ r.pc = p.pc
  BY StillLevel DEF Still, Stays
<1>2. Level(p) \in {2, 3, 6, 9} /\ RoundLevel(q) \in {4, 7, 10}
  <2>1. p.pc = "read fca" => Level(p) = 2
    BY DEF Level
  <2>2. p.pc = "sync" => Level(p) = 3 \/ Level(p) = 6 \/ Level(p) = 9
    BY DEF Level
  <2>3. RoundLevel(q) \in {4, 7, 10}
    BY DEF RoundLevel
  <2> QED BY <2>1, <2>2, <2>3
<1>3. Level(p) # RoundLevel(q)
  BY <1>2, LevelsDiffer
<1>4. ASSUME NEW m, Finals(v, u, p, q, m)
      PROVE  Finals(v, u, r, q, m)
  BY <1>1, <1>3, <1>4 DEF Finals
<1>5. ASSUME NEW m, Optimals(M, u, p, q, m)
      PROVE  Optimals(M, u, r, q, m)
  BY <1>1, <1>5 DEF Optimals
<1> QED BY <1>4, <1>5 DEF Trajectories

(* The messages of a synchronisation.                                      *)
LEMMA ReadSyncStep ==
  ASSUME Fleet, IInv, NEW v \in Vehicle, ReadSync(v)
  PROVE  IInv'
<1>1. PICK p : p = planner[v]
  OBVIOUS
<1>2. p.pc = "sync" /\ mode' = mode /\ graph_order' = graph_order
  BY <1>1 DEF ReadSync
<1>3. PICK arrived \in Arrival("sync", v) :
        LET read == {m \in Taken("sync", v, arrived) : m.sync_id = p.sync_id}
        IN /\ Step(v, [p EXCEPT !.received_messages = @ \cup Senders(read),
                                !.feasible = @ /\ \A m \in read : m.feasible])
           /\ Remove("sync", v, arrived)
  BY <1>1 DEF ReadSync
<1>4. PICK read : read = {m \in Taken("sync", v, arrived) : m.sync_id = p.sync_id}
  OBVIOUS
<1>5. PICK works : works = (p.feasible /\ \A m \in read : m.feasible)
  OBVIOUS
<1>6. PICK heard : heard = p.received_messages \cup Senders(read)
  OBVIOUS
<1>7. PICK r : r = [p EXCEPT !.received_messages = heard, !.feasible = works]
  OBVIOUS
<1>8. Moves(v, r) /\ Remove("sync", v, arrived)
  BY <1>2, <1>3, <1>4, <1>5, <1>6, <1>7 DEF Step, Moves
<1>9. p \in Planner /\ Local(mode, graph_order, v, p)
  BY <1>1 DEF IInv, Type
<1>10. "sync" \in Topic /\ "trajectory" \in Topic
  BY DEF Topic
<1>11. MessageOf("sync") = [from : Vehicle, sync_id : SyncId, feasible : BOOLEAN]
  BY DEF MessageOf
<1>12. ASSUME NEW m \in read
       PROVE  m \in Taken("sync", v, arrived) /\ m.sync_id = p.sync_id
                /\ m.from \in Vehicle \ {v} /\ m.feasible \in BOOLEAN
  <2>1. m \in Taken("sync", v, arrived) /\ m.sync_id = p.sync_id
    BY <1>4
  <2>2. m \in MessageOf("sync") /\ m.from \in Vehicle \ {v}
    BY <1>10, <2>1, TakenType DEF IInv
  <2>3. m \in [from : Vehicle, sync_id : SyncId, feasible : BOOLEAN]
    BY <1>11, <2>2
  <2> QED BY <2>1, <2>2, <2>3
<1>13. heard \in SUBSET Vehicle /\ works \in BOOLEAN
  <2>1. p.received_messages \in SUBSET Vehicle
    BY <1>9 DEF Planner
  <2> QED BY <1>5, <1>6, <1>12, <2>1 DEF Senders
<1>14. /\ r \in Planner /\ r.received_messages = heard /\ r.feasible = works
       /\ r.fca = p.fca /\ r.other_vehicles_buffer = p.other_vehicles_buffer
       /\ r.stopFlag = p.stopFlag
       /\ Stays(p, r)
  BY <1>7, <1>9, <1>13 DEF Planner, Stays
<1>15. Good(r) => Good(p)
  <2>1. works = TRUE => p.feasible = TRUE
    BY <1>5, <1>9 DEF Planner
  <2>2. r.pc = "sync"
    BY <1>2, <1>14 DEF Stays
  <2> QED BY <1>2, <1>14, <2>1, <2>2 DEF Good
<1>16. p.received_messages \subseteq r.received_messages
  BY <1>6, <1>14
<1>17. ASSUME NobodyStopped, NEW m \in read
       PROVE  /\ m.from \in Vehicle \ {v} /\ Level(planner[m.from]) >= Level(p)
              /\ Level(p) >= 4 => (m.feasible = TRUE <=> Good(p))
  <2>1. m.from \in Vehicle \ {v} /\ Synced(p, planner[m.from], m)
    BY <1>1, <1>10, <1>12, <1>17, TakenMessages
  <2>2. p.sync_id \in {5, 3, 4}
    BY <1>2, <1>9 DEF Local, Control
  <2>3. PICK q : q = planner[m.from]
    OBVIOUS
  <2>4. m.sync_id = p.sync_id
    BY <1>12
  <2>5. CASE p.sync_id = 5
    <3>1. Level(p) = 3
      BY <1>2, <2>5 DEF Level
    <3>2. Level(q) >= 3
      BY <2>1, <2>3, <2>4, <2>5 DEF Synced
    <3> QED BY <2>1, <2>3, <3>1, <3>2
  <2>6. CASE p.sync_id = 3
    <3>1. Level(p) = 6
      BY <1>2, <2>6 DEF Level
    <3>2. Level(p) \in {5, 6}
      BY <3>1
    <3>3. (Level(q) = 6 \/ Level(q) > 6) /\ (m.feasible = TRUE <=> Good(p))
      BY <2>1, <2>3, <2>4, <2>6, <3>2 DEF Synced
    <3>4. Level(q) >= Level(p)
      <4>1. Level(q) \in 0 .. 11
        BY LevelRange
      <4> QED BY <3>1, <3>3, <4>1
    <3> QED BY <2>1, <2>3, <3>3, <3>4
  <2>7. CASE p.sync_id = 4
    <3>1. Level(p) = 9
      BY <1>2, <2>7 DEF Level
    <3>2. Level(p) \in {8, 9}
      BY <3>1
    <3>3. (Level(q) = 9 \/ Level(q) > 9) /\ (m.feasible = TRUE <=> Good(p))
      BY <2>1, <2>3, <2>4, <2>7, <3>2 DEF Synced
    <3>4. Level(q) >= Level(p)
      <4>1. Level(q) \in 0 .. 11
        BY LevelRange
      <4> QED BY <3>1, <3>3, <4>1
    <3> QED BY <2>1, <2>3, <3>3, <3>4
  <2> QED BY <2>2, <2>5, <2>6, <2>7
<1>18. ASSUME NobodyStopped
       PROVE  Still(p, r)
  <2>1. ASSUME Level(p) >= 4
        PROVE  works = p.feasible
    <3>1. Good(p) <=> p.feasible = TRUE
      BY <1>2 DEF Good
    <3>2. p.feasible = TRUE => \A m \in read : m.feasible = TRUE
      BY <1>17, <1>18, <2>1, <3>1
    <3> QED BY <1>5, <1>9, <1>13, <3>2 DEF Planner
  <2> QED BY <1>14, <2>1 DEF Still
<1>19. ASSUME NobodyStopped, NEW u \in Vehicle \ {v}
       PROVE  /\ Known(mode, v, u, r, planner[u])
              /\ Trajectories(mode, v, u, r, planner[u], channel'["trajectory"][v])
              /\ Outcome(r, planner[u], channel'["trajectory"][v])
  <2>1. PICK q : q = planner[u]
    OBVIOUS
  <2>2. Two(mode, graph_order, v, u, p, q, Mine(channel, v), Mine(channel, u))
    BY <1>1, <1>19, <2>1, Twos
  <2>3. channel'["trajectory"][v] = channel["trajectory"][v]
    BY <1>8, <1>10, Removed DEF IInv
  <2>4. /\ Known(mode, v, u, p, q)
        /\ Trajectories(mode, v, u, p, q, channel'["trajectory"][v])
        /\ Outcome(p, q, channel'["trajectory"][v])
    BY <1>10, <2>2, <2>3 DEF Two, Pair, Mine
  <2>5. u \in r.received_messages => Level(q) >= Level(p)
    <3>1. u \in p.received_messages => Level(q) >= Level(p)
      BY <1>2, <2>4 DEF Known
    <3>2. u \in Senders(read) => Level(q) >= Level(p)
      BY <1>17, <1>19, <2>1 DEF Senders
    <3> QED BY <1>6, <1>14, <3>1, <3>2
  <2>6. Still(p, r)
    BY <1>18, <1>19
  <2>7. Known(mode, v, u, r, q)
    <3>1. /\ p.pc \in {"read fca", "sync"} /\ p.pc # "read fca"
          /\ r.other_vehicles_buffer = p.other_vehicles_buffer
      BY <1>2, <1>14
    <3> QED BY <2>4, <2>5, <2>6, <3>1, StillKnown
  <2>8. Trajectories(mode, v, u, r, q, channel'["trajectory"][v])
    BY <1>2, <2>4, <2>6, StillTrajectories
  <2>9. Outcome(r, q, channel'["trajectory"][v])
    BY <2>4, <2>6, StillOutcome
  <2> QED BY <2>1, <2>7, <2>8, <2>9
<1>20. p.pc # "announce" /\ p.pc # "read fca"
  BY <1>2
<1> QED BY <1>1, <1>8, <1>10, <1>14, <1>15, <1>16, <1>18, <1>19, <1>20, ReadStep

(* The assessments of the others.                                          *)
LEMMA ReadFcaStep ==
  ASSUME Fleet, IInv, NEW v \in Vehicle, ReadFca(v)
  PROVE  IInv'
<1>1. PICK p : p = planner[v]
  OBVIOUS
<1>2. p \in Planner /\ Local(mode, graph_order, v, p)
  BY <1>1 DEF IInv, Type
<1>3. p.pc = "read fca" /\ mode' = mode /\ graph_order' = graph_order
  <2>1. p.pc \in {"read fca", "auction"} /\ mode' = mode /\ graph_order' = graph_order
    BY <1>1 DEF ReadFca
  <2>2. p.pc # "auction"
    BY <1>2 DEF Local, Control
  <2> QED BY <2>1, <2>2
<1>4. PICK arrived \in Arrival("fca", v) :
        /\ Step(v, [planner[v] EXCEPT
                !.received_messages = @ \cup Senders(Taken("fca", v, arrived)),
                !.fca = [u \in Vehicle |->
                  IF u \in Senders(Taken("fca", v, arrived))
                  THEN (CHOOSE m \in Taken("fca", v, arrived) : m.from = u).fca ELSE @[u]]])
        /\ Remove("fca", v, arrived)
  BY Zenon DEF ReadFca
<1> DEFINE read == Taken("fca", v, arrived)
           heard == planner[v].received_messages \cup Senders(read)
           known == [u \in Vehicle |->
             IF u \in Senders(read) THEN (CHOOSE m \in read : m.from = u).fca ELSE planner[v].fca[u]]
<1>5. Step(v, [planner[v] EXCEPT !.received_messages = heard, !.fca = known]) /\ Remove("fca", v, arrived)
  BY <1>4, Zenon
<1>6. \A u \in Vehicle : known[u] =
         IF u \in Senders(read) THEN (CHOOSE m \in read : m.from = u).fca ELSE p.fca[u]
  BY <1>1
<1>7. known = [u \in Vehicle |-> known[u]] /\ heard = p.received_messages \cup Senders(read)
  BY <1>1
<1>c. read = Taken("fca", v, arrived)
  OBVIOUS
<1> HIDE DEF read, heard, known
<1>8. PICK r : r = [p EXCEPT !.received_messages = heard, !.fca = known]
  OBVIOUS
<1>9. Moves(v, r) /\ Remove("fca", v, arrived)
  BY <1>1, <1>3, <1>5, <1>8 DEF Step, Moves
<1>10. "fca" \in Topic /\ "trajectory" \in Topic
  BY DEF Topic
<1>11. MessageOf("fca") = [from : Vehicle, fca : Fca]
  BY DEF MessageOf
<1>12. ASSUME NEW m \in read
       PROVE  m.from \in Vehicle \ {v} /\ m.fca \in Fca
  <2>1. m \in MessageOf("fca") /\ m.from \in Vehicle \ {v}
    BY <1>c, <1>10, TakenType DEF IInv
  <2>2. m \in [from : Vehicle, fca : Fca]
    BY <1>11, <2>1
  <2> QED BY <2>1, <2>2
<1>13. ASSUME NEW u \in Senders(read)
       PROVE  \E m \in read : m.from = u /\ (CHOOSE x \in read : x.from = u) = m
  <2>1. \E m \in read : m.from = u
    BY DEF Senders
  <2> QED BY <2>1
<1>15. ASSUME NEW u \in Senders(read), u \in Vehicle
       PROVE  \E m \in read : m.from = u /\ known[u] = m.fca
  BY <1>6, <1>13, <1>15
<1>16. ASSUME NEW u \in Vehicle, u \notin Senders(read)
       PROVE  known[u] = p.fca[u]
  BY <1>6, <1>16
<1>17. heard \in SUBSET Vehicle /\ known \in [Vehicle -> Fca]
  <2>1. p.received_messages \in SUBSET Vehicle /\ p.fca \in [Vehicle -> Fca]
    BY <1>2 DEF Planner
  <2>2. heard \in SUBSET Vehicle
    BY <1>7, <1>12, <2>1 DEF Senders
  <2>3. \A u \in Vehicle : known[u] \in Fca
    BY <1>12, <1>15, <1>16, <2>1
  <2>4. known = [u \in Vehicle |-> known[u]]
    BY <1>7
  <2> QED BY <2>2, <2>3, <2>4
<1>18. /\ r \in Planner /\ r.received_messages = heard /\ r.feasible = p.feasible
       /\ r.fca = known /\ r.other_vehicles_buffer = p.other_vehicles_buffer
       /\ r.stopFlag = p.stopFlag
       /\ Stays(p, r)
  BY <1>2, <1>8, <1>17 DEF Planner, Stays
<1>19. Still(p, r)
  BY <1>18 DEF Still
<1>20. Good(r) => Good(p)
  BY <1>3, <1>18 DEF Good, Stays
<1>21. p.received_messages \subseteq r.received_messages /\ r.fca[v] = p.fca[v]
  <2>1. v \notin Senders(read)
    BY <1>12 DEF Senders
  <2> QED BY <1>7, <1>16, <1>18, <2>1
<1>22. ASSUME NobodyStopped, NEW u \in Vehicle \ {v}
       PROVE  /\ Known(mode, v, u, r, planner[u])
              /\ Trajectories(mode, v, u, r, planner[u], channel'["trajectory"][v])
              /\ Outcome(r, planner[u], channel'["trajectory"][v])
  <2>1. PICK q : q = planner[u]
    OBVIOUS
  <2>2. Two(mode, graph_order, v, u, p, q, Mine(channel, v), Mine(channel, u))
    BY <1>1, <1>22, <2>1, Twos
  <2>3. channel'["trajectory"][v] = channel["trajectory"][v]
    BY <1>9, <1>10, Removed DEF IInv
  <2>4. /\ Known(mode, v, u, p, q)
        /\ Trajectories(mode, v, u, p, q, channel'["trajectory"][v])
        /\ Outcome(p, q, channel'["trajectory"][v])
    BY <1>10, <2>2, <2>3 DEF Two, Pair, Mine
  <2>5. u \in r.received_messages => Level(q) >= 2 /\ r.fca[u] = q.own_fca
    <3>1. u \notin Senders(read) /\ u \in p.received_messages => Level(q) >= 2 /\ known[u] = q.own_fca
      BY <1>3, <1>16, <2>4 DEF Known
    <3>2. \A m \in read : m.from = u => Level(q) >= 2 /\ m.fca = q.own_fca
      BY <1>c, <1>10, <1>22, <2>1, TakenMessages
    <3>3. u \in Senders(read) => Level(q) >= 2 /\ known[u] = q.own_fca
      BY <1>15, <3>2
    <3> QED BY <1>7, <1>18, <3>1, <3>3
  <2>6. Known(mode, v, u, r, q)
    <3>1. /\ p.pc \in {"read fca", "sync"} /\ p.pc # "sync"
          /\ r.other_vehicles_buffer = p.other_vehicles_buffer
      BY <1>3, <1>18
    <3> QED BY <1>19, <2>4, <2>5, <3>1, StillKnown
  <2>7. Trajectories(mode, v, u, r, q, channel'["trajectory"][v])
    BY <1>3, <1>19, <2>4, StillTrajectories
  <2>8. Outcome(r, q, channel'["trajectory"][v])
    BY <1>19, <2>4, StillOutcome
  <2> QED BY <2>1, <2>6, <2>7, <2>8
<1>23. p.pc # "announce"
  BY <1>3
<1> QED BY <1>1, <1>9, <1>10, <1>18, <1>19, <1>20, <1>21, <1>22, <1>23, ReadStep

-----------------------------------------------------------------------------
(* The trajectories of the others                                          *)

(* The trajectory of u has come.                                           *)
Came(M, p, q) ==
  /\ p.pc = "optimal" => Level(q) >= 1
  /\ Planning(p) => Level(q) >= 4 /\ q.pc # "prev" /\ Level(p) <= RoundLevel(q)

LEMMA HeardKnown ==
  ASSUME NEW M, NEW G, NEW v, NEW u, NEW p, NEW q, NEW r, Both(M, G, v, u, p, q), Still(p, r),
         p.pc \in {"optimal", "prev", "ignored"},
         u \in r.received_messages => u \in p.received_messages \/ Came(M, p, q),
         r.other_vehicles_buffer[u] = p.other_vehicles_buffer[u] \/ r.other_vehicles_buffer[u] = q.plan,
         p.pc = "prev" /\ u \in r.received_messages =>
           u \in p.received_messages \/ r.other_vehicles_buffer[u] = q.plan,
         p.pc = "ignored" => r.other_vehicles_buffer[u] = p.other_vehicles_buffer[u]
  PROVE  Known(M, v, u, r, q)
<1>1. /\ Level(r) = Level(p) /\ RoundLevel(r) = RoundLevel(p)
      /\ Over(r) <=> Over(p)
      /\ Planning(r) <=> Planning(p)
      /\ Prev(v, r) = Prev(v, p)
      /\ Before(u, q, v, r) <=> Before(u, q, v, p)
  BY StillLevel
<1>2. r.pc = p.pc /\ r.stage = p.stage
  BY DEF Still, Stays
<1>3. Known(M, v, u, p, q)
  BY DEF Both
<1>4. ~Over(r)
  <2>1. p.pc = "optimal" => Level(p) = 1 /\ RoundLevel(p) \in {4, 7, 10}
    BY DEF Level, RoundLevel
  <2>2. p.pc \in {"prev", "ignored"} => Level(p) = RoundLevel(p) /\ RoundLevel(p) \in {4, 7, 10}
    BY DEF Level, RoundLevel
  <2> QED BY <1>1, <2>1, <2>2 DEF Over
<1>5. p.pc = "optimal" /\ u \in r.received_messages => Level(q) >= 1
  BY <1>3 DEF Known, Came
<1>6. Planning(p) /\ Came(M, p, q) => Level(q) >= 4 /\ RoundLevel(q) = Level(p) /\ q.pc # "prev"
  BY NotAhead DEF Came
<1>7. Planning(p) /\ HeardOf(v, u, r) => Level(q) >= 4 /\ RoundLevel(q) = Level(p) /\ q.pc # "prev"
  BY <1>1, <1>2, <1>3, <1>6 DEF Known, HeardOf
<1>8. Planning(p) /\ HeardOf(v, u, r) /\ u \in Prev(v, p) => r.other_vehicles_buffer[u] = q.plan
  <2>1. CASE p.pc = "prev"
    BY <1>2, <1>3, <2>1 DEF Known, HeardOf
  <2>2. CASE p.pc = "ignored"
    BY <1>2, <1>3, <2>2 DEF Known, HeardOf
  <2> QED BY <2>1, <2>2 DEF Planning
<1>9. M = "random" /\ r.stage = "new" /\ Level(r) >= 4 => (u \in Prev(v, r) <=> Before(u, q, v, r))
  BY <1>1, <1>2, <1>3 DEF Known
<1>10. r.pc # "read fca" /\ r.pc # "sync"
  BY <1>2
<1> QED BY <1>1, <1>2, <1>4, <1>5, <1>7, <1>8, <1>9, <1>10 DEF Known

LEMMA HeardTrajectories ==
  ASSUME NEW M, NEW v, NEW u, NEW p, NEW q, NEW r, NEW S, NEW s \in Seq(S), NEW e \in Seq(S),
         NEW k \in 1 .. Len(s), Rest(s, k, e), Still(p, r), Queue(v, s), Trajectories(M, v, u, p, q, s),
         u \in r.received_messages \ p.received_messages => \E i \in 1 .. k : s[i].from = u
  PROVE  Trajectories(M, v, u, r, q, e)
<1>1. Level(r) = Level(p) /\ r.pc = p.pc /\ r.wait = p.wait
  BY StillLevel DEF Still, Stays
<1>2. /\ Len(s) \in Nat /\ Len(e) = Len(s) - k /\ Len(e) \in Nat
      /\ \A i \in 1 .. Len(e) : k + i \in 1 .. Len(s) /\ e[i] = s[k + i]
  BY DEF Rest
<1>3. ASSUME NEW i \in 1 .. Len(e), e[i].from = u
      PROVE  u \in r.received_messages => u \in p.received_messages
  <2>1. ASSUME NEW j \in 1 .. k
        PROVE  s[j].from # u
    <3>1. k + i # j /\ j \in 1 .. Len(s) /\ k + i \in 1 .. Len(s)
      BY <1>2
    <3>2. s[k + i].from = u
      BY <1>2, <1>3
    <3>3. PICK n \in 1 .. Len(s) : n = k + i
      BY <3>1
    <3> QED BY <3>1, <3>2, <3>3 DEF Queue
  <2> QED BY <2>1
<1>4. ASSUME NEW i \in 1 .. Len(e), e[i].from = u
      PROVE  /\ e[i].type = "Final" => Finals(v, u, r, q, e[i])
             /\ e[i].type = "Optimal" => Optimals(M, u, r, q, e[i])
  <2>1. PICK m : m = e[i]
    OBVIOUS
  <2>2. /\ m.type = "Final" => Finals(v, u, p, q, m)
        /\ m.type = "Optimal" => Optimals(M, u, p, q, m)
    BY <1>2, <1>4, <2>1 DEF Trajectories
  <2>3. Finals(v, u, p, q, m) => Finals(v, u, r, q, m)
    BY <1>1, <1>3, <1>4 DEF Finals
  <2>4. Optimals(M, u, p, q, m) => Optimals(M, u, r, q, m)
    BY <1>1, <1>3, <1>4 DEF Optimals
  <2> QED BY <2>1, <2>2, <2>3, <2>4
<1> QED BY <1>4 DEF Trajectories

LEMMA HeardOutcome ==
  ASSUME NEW p, NEW q, NEW r, NEW S, NEW s \in Seq(S), NEW e \in Seq(S),
         NEW k \in 1 .. Len(s), Rest(s, k, e), Still(p, r), Outcome(p, q, s),
         k = Len(s) => ~(Over(q) /\ ~Good(q) /\ Level(p) <= RoundLevel(q))
  PROVE  Outcome(r, q, e)
<1>1. Level(r) = Level(p) /\ r.pc = p.pc
  BY StillLevel DEF Still, Stays
<1>2. Len(e) = Len(s) - k /\ Len(s) \in Nat /\ (Len(e) > 0 => e[Len(e)] = s[Len(s)])
  BY DEF Rest
<1>3. k # Len(s) => Len(e) > 0
  BY <1>2
<1>4. Over(q) /\ ~Good(q) /\ Level(r) <= RoundLevel(q) =>
        Len(e) > 0 /\ e[Len(e)].has_collisions = TRUE
  BY <1>1, <1>2, <1>3 DEF Outcome
<1> QED BY <1>1, <1>4 DEF Outcome

(* A planner that could not plan is waited for.                            *)
LEMMA FinalAwaited ==
  ASSUME NEW M, NEW G, NEW v, NEW u, NEW p, NEW q, NEW m, Both(M, G, v, u, p, q),
         Finals(v, u, p, q, m), p.pc \in {"optimal", "prev", "ignored"}
  PROVE  Planning(p) /\ RoundLevel(q) = Level(p) /\ u \in p.wait /\ m.plan = q.plan
<1>1. Level(q) >= 4 /\ Level(p) <= RoundLevel(q) /\ m.plan = q.plan
  BY DEF Finals
<1>2. p.pc # "optimal"
  <2>1. ASSUME p.pc = "optimal"
        PROVE  FALSE
    <3>1. Level(p) = 1
      BY <2>1 DEF Level
    <3>2. M = "vertex_ordering"
      <4>1. M \in {"id", "random", "vertex_ordering"} /\ Local(M, G, v, p)
        BY DEF Both
      <4> QED BY <2>1, <4>1 DEF Local, Control
    <3>3. Level(p) >= 3
      BY <1>1, <3>2 DEF Both, Barriers
    <3> QED BY <3>1, <3>3
  <2> QED BY <2>1
<1>3. Planning(p)
  BY <1>2 DEF Planning
<1>4. RoundLevel(q) = Level(p)
  BY <1>1, <1>3, NotAhead
<1> QED BY <1>1, <1>3, <1>4 DEF Finals

(* What read_vehicles makes of what has arrived.                           *)
Wanted(p) == IF p.pc = "optimal" THEN "Optimal" ELSE "Final"
Reads(v, p, arrived) == {m \in Taken("trajectory", v, arrived) : m.type = Wanted(p)}
Asked(v, p, arrived) == {m \in Reads(v, p, arrived) : m.from \in p.wait}
HeardNow(v, p, arrived) ==
  [p EXCEPT
     !.received_messages = @ \cup Senders(Reads(v, p, arrived)),
     !.other_vehicles_buffer = [u \in Vehicle |->
        IF p.pc \in {"prev", "winner"} /\ u \in Senders(Asked(v, p, arrived))
        THEN (CHOOSE m \in Asked(v, p, arrived) : m.from = u).plan ELSE @[u]]]

LEMMA ReadMessages ==
  ASSUME IInv, NEW v \in Vehicle, NEW p, NEW arrived \in Arrival("trajectory", v),
         NEW m \in Reads(v, p, arrived)
  PROVE  /\ m \in Taken("trajectory", v, arrived) /\ m \in MessageOf("trajectory")
         /\ m.type = Wanted(p) /\ m.from \in Vehicle \ {v} /\ m.plan \in Plan
         /\ \E i \in arrived : i \in 1 .. Len(channel["trajectory"][v]) /\ m = channel["trajectory"][v][i]
<1>1. "trajectory" \in Topic
  BY DEF Topic
<1>2. m \in Taken("trajectory", v, arrived) /\ m.type = Wanted(p)
  BY DEF Reads
<1>3. /\ m \in MessageOf("trajectory") /\ m.from \in Vehicle \ {v}
      /\ \E i \in arrived : i \in 1 .. Len(channel["trajectory"][v]) /\ m = channel["trajectory"][v][i]
  BY <1>1, <1>2, TakenType DEF IInv
<1>4. m.plan \in Plan
  BY <1>3, PathFields
<1> QED BY <1>2, <1>3, <1>4

LEMMA HeardNowFields ==
  ASSUME IInv, NEW v \in Vehicle, NEW p \in Planner, NEW arrived \in Arrival("trajectory", v),
         NEW r, r = HeardNow(v, p, arrived)
  PROVE  /\ r \in Planner /\ Still(p, r) /\ r.stopFlag = p.stopFlag
         /\ r.received_messages = p.received_messages \cup Senders(Reads(v, p, arrived))
         /\ \A u \in Vehicle :
              \/ r.other_vehicles_buffer[u] = p.other_vehicles_buffer[u]
                 /\ (p.pc = "prev" => u \notin Senders(Asked(v, p, arrived)))
              \/ p.pc \in {"prev", "winner"} /\ \E m \in Asked(v, p, arrived) :
                   m.from = u /\ r.other_vehicles_buffer[u] = m.plan
<1> DEFINE asked == Asked(v, p, arrived)
           heard == p.received_messages \cup Senders(Reads(v, p, arrived))
           buffer == [u \in Vehicle |->
             IF p.pc \in {"prev", "winner"} /\ u \in Senders(asked)
             THEN (CHOOSE m \in asked : m.from = u).plan ELSE p.other_vehicles_buffer[u]]
<1>1. r = [p EXCEPT !.received_messages = heard, !.other_vehicles_buffer = buffer]
  BY Zenon DEF HeardNow
<1>2. \A u \in Vehicle : buffer[u] =
        IF p.pc \in {"prev", "winner"} /\ u \in Senders(asked)
        THEN (CHOOSE m \in asked : m.from = u).plan ELSE p.other_vehicles_buffer[u]
  OBVIOUS
<1>3. buffer = [u \in Vehicle |-> buffer[u]]
  OBVIOUS
<1>4. heard = p.received_messages \cup Senders(Reads(v, p, arrived)) /\ asked = Asked(v, p, arrived)
  OBVIOUS
<1> HIDE DEF asked, heard, buffer
<1>5. \A u \in Senders(asked) : \E m \in asked : m.from = u /\ (CHOOSE x \in asked : x.from = u) = m
  <2> SUFFICES ASSUME NEW u \in Senders(asked)
               PROVE  \E m \in asked : m.from = u /\ (CHOOSE x \in asked : x.from = u) = m
    OBVIOUS
  <2>1. \E m \in asked : m.from = u
    BY DEF Senders
  <2> QED BY <2>1
<1>6. ASSUME NEW u \in Vehicle
      PROVE  \/ buffer[u] = p.other_vehicles_buffer[u] /\ (p.pc = "prev" => u \notin Senders(asked))
             \/ p.pc \in {"prev", "winner"} /\ \E m \in asked : m.from = u /\ buffer[u] = m.plan
  <2>1. CASE p.pc \in {"prev", "winner"} /\ u \in Senders(asked)
    BY <1>2, <1>5, <2>1
  <2>2. CASE ~(p.pc \in {"prev", "winner"} /\ u \in Senders(asked))
    BY <1>2, <2>2
  <2> QED BY <2>1, <2>2
<1>7. \A m \in asked : m.plan \in Plan
  BY <1>4, ReadMessages DEF Asked
<1>8. heard \in SUBSET Vehicle /\ buffer \in [Vehicle -> Plan]
  <2>1. p.received_messages \in SUBSET Vehicle /\ p.other_vehicles_buffer \in [Vehicle -> Plan]
    BY DEF Planner
  <2>2. heard \in SUBSET Vehicle
    BY <1>4, <2>1, ReadMessages DEF Senders
  <2>3. \A u \in Vehicle : buffer[u] \in Plan
    BY <1>6, <1>7, <2>1
  <2> QED BY <1>3, <2>2, <2>3
<1>9. /\ r \in Planner /\ Stays(p, r) /\ r.feasible = p.feasible /\ r.stopFlag = p.stopFlag
      /\ r.received_messages = heard /\ r.other_vehicles_buffer = buffer
  BY <1>1, <1>8 DEF Planner, Stays
<1> QED BY <1>4, <1>6, <1>9 DEF Still

(* Nobody tells of a collision.                                            *)
LEMMA HeardStep ==
  ASSUME Fleet, IInv, NEW v \in Vehicle, NEW p, p = planner[v], p.pc \in {"optimal", "prev", "ignored"},
         NEW arrived \in Arrival("trajectory", v), Remove("trajectory", v, arrived),
         \A m \in Asked(v, p, arrived) : ~m.has_collisions,
         Moves(v, HeardNow(v, p, arrived))
  PROVE  IInv'
<1>1. PICK r : r = HeardNow(v, p, arrived)
  OBVIOUS
<1>2. p \in Planner
  BY DEF IInv, Type
<1>3. /\ r \in Planner /\ Still(p, r) /\ r.stopFlag = p.stopFlag
      /\ r.received_messages = p.received_messages \cup Senders(Reads(v, p, arrived))
      /\ \A u \in Vehicle :
           \/ r.other_vehicles_buffer[u] = p.other_vehicles_buffer[u]
              /\ (p.pc = "prev" => u \notin Senders(Asked(v, p, arrived)))
           \/ p.pc \in {"prev", "winner"} /\ \E m \in Asked(v, p, arrived) :
                m.from = u /\ r.other_vehicles_buffer[u] = m.plan
  BY <1>1, <1>2, HeardNowFields
<1>4. Good(r) => Good(p)
  <2>1. r.pc # "done" /\ p.pc # "done" /\ r.pc = p.pc
    BY <1>3 DEF Still, Stays
  <2>2. r.feasible = p.feasible
    BY <1>1 DEF HeardNow, Planner
  <2> QED BY <2>1, <2>2 DEF Good
<1>5. PICK s, e, S : s = channel["trajectory"][v] /\ e = channel'["trajectory"][v] /\ S = MessageOf("trajectory")
  OBVIOUS
<1>6. "trajectory" \in Topic
  BY DEF Topic
<1>7. s \in Seq(S) /\ e \in Seq(S)
  BY <1>5, <1>6, Removed DEF IInv, Type
<1>8. PICK k \in 1 .. Len(s) : arrived = 1 .. k /\ Rest(s, k, e)
  BY <1>5, <1>6, Removed DEF IInv
<1>9. ASSUME NobodyStopped, NEW u \in Vehicle \ {v}
      PROVE  /\ Known(mode, v, u, r, planner[u])
             /\ Trajectories(mode, v, u, r, planner[u], e)
             /\ Outcome(r, planner[u], e)
  <2>1. PICK q : q = planner[u]
    OBVIOUS
  <2>2. Two(mode, graph_order, v, u, p, q, Mine(channel, v), Mine(channel, u))
    BY <1>9, <2>1, Twos
  <2>3. /\ Both(mode, graph_order, v, u, p, q) /\ Trajectories(mode, v, u, p, q, s) /\ Outcome(p, q, s)
    BY <1>5, <1>6, <2>2 DEF Two, Pair, Mine
  <2>4. Queue(v, s)
    BY <1>5, <1>9 DEF IInv, Agreement
  <2>5. ASSUME NEW m \in Reads(v, p, arrived), m.from = u
        PROVE  /\ Came(mode, p, q)
               /\ p.pc # "optimal" => u \in p.wait /\ m.plan = q.plan /\ m \in Asked(v, p, arrived)
    <3>1. /\ m \in Taken("trajectory", v, arrived) /\ m.type = Wanted(p)
      BY ReadMessages
    <3>2. /\ m.type = "Final" => Finals(v, u, p, q, m)
          /\ m.type = "Optimal" => Optimals(mode, u, p, q, m)
      BY <1>6, <1>9, <2>1, <2>5, <3>1, TakenMessages
    <3>3. CASE p.pc = "optimal"
      <4>1. m.type = "Optimal" /\ ~Planning(p)
        BY <3>1, <3>3 DEF Wanted, Planning
      <4> QED BY <3>2, <3>3, <4>1 DEF Optimals, Came
    <3>4. CASE p.pc # "optimal"
      <4>1. Finals(v, u, p, q, m)
        BY <3>1, <3>2, <3>4 DEF Wanted
      <4>2. u \in p.wait /\ m.plan = q.plan
        BY <2>3, <4>1, FinalAwaited
      <4> QED BY <2>5, <3>4, <4>1, <4>2 DEF Finals, Came, Asked
    <3> QED BY <3>3, <3>4
  <2>6. ASSUME NEW m \in Asked(v, p, arrived), m.from = u
        PROVE  p.pc # "optimal" => m.plan = q.plan
    BY <2>5, <2>6 DEF Asked
  <2>7. u \in Senders(Reads(v, p, arrived)) =>
          Came(mode, p, q) /\ (p.pc # "optimal" => u \in Senders(Asked(v, p, arrived)))
    BY <2>5 DEF Senders
  <2>8. Known(mode, v, u, r, q)
    <3>1. u \in r.received_messages => u \in p.received_messages \/ Came(mode, p, q)
      BY <1>3, <2>7
    <3>2. r.other_vehicles_buffer[u] = p.other_vehicles_buffer[u] \/ r.other_vehicles_buffer[u] = q.plan
      BY <1>3, <2>6
    <3>3. p.pc = "prev" /\ u \in r.received_messages =>
            u \in p.received_messages \/ r.other_vehicles_buffer[u] = q.plan
      BY <1>3, <2>6, <2>7
    <3>4. p.pc = "ignored" => r.other_vehicles_buffer[u] = p.other_vehicles_buffer[u]
      BY <1>3
    <3> QED BY <1>3, <2>3, <3>1, <3>2, <3>3, <3>4, HeardKnown
  <2>9. Trajectories(mode, v, u, r, q, e)
    <3>1. u \in r.received_messages \ p.received_messages => \E i \in 1 .. k : s[i].from = u
      <4>1. ASSUME NEW m \in Reads(v, p, arrived), m.from = u
            PROVE  \E i \in 1 .. k : s[i].from = u
        BY <1>5, <1>8, <4>1, ReadMessages
      <4> QED BY <1>3, <4>1 DEF Senders
    <3> QED BY <1>3, <1>7, <1>8, <2>3, <2>4, <3>1, HeardTrajectories
  <2>10. k = Len(s) => ~(Over(q) /\ ~Good(q) /\ Level(p) <= RoundLevel(q))
    <3>1. ASSUME k = Len(s), Over(q) /\ ~Good(q) /\ Level(p) <= RoundLevel(q)
          PROVE  FALSE
      <4>1. Len(s) > 0 /\ s[Len(s)].has_collisions = TRUE
        BY <2>3, <3>1 DEF Outcome
      <4>2. PICK m : m = s[Len(s)]
        OBVIOUS
      <4>3. m \in Taken("trajectory", v, arrived)
        BY <1>5, <1>8, <3>1, <4>2, <1>7 DEF Taken
      <4>4. /\ m \in MessageOf("trajectory") /\ m.from \in Vehicle \ {v}
        BY <1>6, <4>3, TakenType DEF IInv
      <4>5. m.type = "Final"
        BY <4>1, <4>2, <4>4, PathFields
      <4>6. PICK w \in Vehicle \ {v} : w = m.from
        BY <4>4
      <4>7. Finals(v, w, p, planner[w], m)
        BY <1>6, <1>9, <4>3, <4>5, <4>6, TakenMessages
      <4>8. Both(mode, graph_order, v, w, p, planner[w])
        BY <1>9, Twos DEF Two
      <4>9. Planning(p) /\ w \in p.wait
        BY <4>7, <4>8, FinalAwaited
      <4>10. m \in Asked(v, p, arrived)
        BY <4>3, <4>5, <4>6, <4>9 DEF Asked, Reads, Wanted, Planning
      <4> QED BY <4>1, <4>2, <4>10
    <3> QED BY <3>1
  <2>11. Outcome(r, q, e)
    BY <1>3, <1>7, <1>8, <2>3, <2>10, HeardOutcome
  <2> QED BY <2>1, <2>8, <2>9, <2>11
<1>10. /\ Stays(p, r) /\ p.pc # "announce" /\ p.pc # "read fca"
       /\ p.received_messages \subseteq r.received_messages
  BY <1>3 DEF Still
<1>11. Moves(v, r)
  BY <1>1
<1> QED BY <1>3, <1>4, <1>5, <1>6, <1>9, <1>10, <1>11, ReadStep

-----------------------------------------------------------------------------
(* The end of a round                                                      *)

(* One who has heard all it waits for has read all.                        *)
LEMMA Emptied ==
  ASSUME Fleet, IInv, NobodyStopped, NEW v \in Vehicle, NEW p, p = planner[v], Planning(p), Heard(p)
  PROVE  Len(channel["trajectory"][v]) = 0
<1>1. "trajectory" \in Topic
  BY DEF Topic
<1>2. PICK s : s = channel["trajectory"][v]
  OBVIOUS
<1>3. s \in Seq(MessageOf("trajectory")) /\ Others(v, s)
  BY <1>1, <1>2 DEF IInv, Type, Foreign
<1>4. ASSUME NEW i \in 1 .. Len(s)
      PROVE  FALSE
  <2>1. s[i].from \in Vehicle /\ Trajectory(s[i])
    BY <1>3, MessageFields DEF Trajectory
  <2>2. PICK u \in Vehicle \ {v} : u = s[i].from
    BY <1>3, <2>1 DEF Others
  <2>3. Two(mode, graph_order, v, u, p, planner[u], Mine(channel, v), Mine(channel, u))
    BY <2>2, Twos
  <2>4. Both(mode, graph_order, v, u, p, planner[u]) /\ Trajectories(mode, v, u, p, planner[u], s)
    BY <1>1, <1>2, <2>3 DEF Two, Pair, Mine
  <2>5. s[i].from # u
    BY <2>1, <2>4, AllRead
  <2> QED BY <2>2, <2>5
<1>5. Len(s) \in Nat
  BY <1>3
<1>6. ~(Len(s) > 0)
  BY <1>4, <1>5
<1> QED BY <1>2, <1>5, <1>6

(* Those after have planned.                                               *)
LEMMA IgnoredPlannedStep ==
  ASSUME Fleet, IInv, NEW v \in Vehicle, IgnoredPlanned(v)
  PROVE  IInv'
<1>1. PICK p : p = planner[v]
  OBVIOUS
<1>2. PICK feasible \in BOOLEAN : feasible = TRUE
  OBVIOUS
<1>3. PICK r : r = StaticDone(p, v, feasible)
  OBVIOUS
<1>4. p.pc = "ignored" /\ Proceeds(p) /\ channel' = channel /\ Moves(v, r)
  BY <1>1, <1>2, <1>3 DEF IgnoredPlanned, Step, Moves
<1>5. p \in Planner /\ Local(mode, graph_order, v, p)
  BY <1>1 DEF IInv, Type
<1>6. /\ p.follows = 0 /\ p.plan > 0 /\ p.wait = Behinds(v, p)
      /\ Level(p) >= 4 => 3 * p.plan < RoundLevel(p)
  BY <1>4, <1>5 DEF Local, Plannings, Waits
<1>7. /\ r \in Planner /\ Ends(v, p, r) /\ r.plan = p.plan /\ r.stopFlag = p.stopFlag
      /\ r.pc = "announce" => r.wait = Vehicle /\ r.received_messages = {v} /\ r.follows = 0
      /\ r.pc = "done" => r.follows = (IF feasible THEN p.plan ELSE 0)
      /\ p.plan > 0 \/ ~feasible => (Good(r) <=> feasible)
  BY <1>3, <1>4, <1>5, <1>6, StaticDoneFields
<1>8. Good(r)
  BY <1>2, <1>6, <1>7
<1>9. Level(p) = RoundLevel(p) /\ RoundLevel(p) \in {4, 7, 10} /\ Planning(p)
  BY <1>4 DEF Level, RoundLevel, Planning
<1>10. Local(mode, graph_order, v, r)
  <2>1. r.pc = "done" => r.follows \in {0, r.plan}
    BY <1>7
  <2>2. Level(p) >= 4
    BY <1>9
  <2>3. 3 * r.plan < RoundLevel(p) /\ r.plan > 0
    BY <1>6, <1>7, <2>2
  <2> QED BY <1>5, <1>7, <2>1, <2>3, EndedLocal
<1>11. ASSUME NobodyStopped, NEW u \in Vehicle \ {v}
       PROVE  /\ Pair(mode, graph_order, v, u, r, planner[u], Mine(channel, v))
              /\ Pair(mode, graph_order, u, v, planner[u], r, Mine(channel, u))
  <2>1. PICK q, c, d : q = planner[u] /\ c = Mine(channel, v) /\ d = Mine(channel, u)
    OBVIOUS
  <2>2. Two(mode, graph_order, v, u, p, q, c, d)
    BY <1>1, <1>11, <2>1, Twos
  <2>3. /\ Both(mode, graph_order, v, u, p, q)
        /\ Trajectories(mode, u, v, q, p, d["trajectory"]) /\ Outcome(p, q, c["trajectory"])
    BY <2>2 DEF Two, Pair
  <2>4. Heard(p)
    BY <1>1, <1>4, <1>11 DEF Proceeds, NobodyStopped
  <2>5. Len(c["trajectory"]) = 0
    <3>1. c["trajectory"] = channel["trajectory"][v]
      BY <2>1 DEF Mine, Topic
    <3> QED BY <1>1, <1>9, <1>11, <2>4, <3>1, Emptied
  <2>6. \A i \in 1 .. Len(c["trajectory"]) : c["trajectory"][i].from # u
    BY <2>5
  <2>7. Trajectories(mode, u, v, q, r, d["trajectory"])
    BY <1>7, <2>3, EndedTrajectories
  <2>8. HeardOf(v, u, p)
    <3>1. p.prio_vec \in Order
      BY <1>5 DEF Planner
    <3>2. Behinds(v, p) = Vehicle \ (Prev(v, p) \cup {v})
      BY <3>1, Permuted DEF Behinds, Prev
    <3> QED BY <1>4, <1>6, <2>4, <3>2 DEF HeardOf, Heard
  <2>9. Level(q) >= 4 /\ RoundLevel(q) = Level(p) /\ q.pc # "prev" /\ Level(q) >= RoundLevel(q)
    <3>1. Level(q) >= 4 /\ RoundLevel(q) = Level(p) /\ q.pc # "prev"
      BY <1>9, <2>3, <2>8 DEF Both, Known
    <3> QED BY <2>3, <3>1, BothLevels
  <2>10. RoundLevel(r) = RoundLevel(p)
    BY <1>7, <2>3, Endings
  <2>11. Outcome(q, r, d["trajectory"])
    <3>1. Level(q) \in 0 .. 11
      BY LevelRange
    <3>2. Level(q) > RoundLevel(r) \/ Level(q) = RoundLevel(r)
      BY <1>9, <2>9, <2>10, <3>1
    <3> QED BY <1>8, <2>9, <3>2 DEF Outcome
  <2>12. Over(q) => Good(q)
    <3>1. Level(p) <= RoundLevel(q)
      BY <1>9, <2>9
    <3>2. ~(Len(c["trajectory"]) > 0)
      BY <2>5
    <3> QED BY <2>3, <3>1, <3>2 DEF Outcome
  <2>13. Good(r) => p.pc = "ignored"
    BY <1>4
  <2>14. Over(q) /\ RoundLevel(q) = Level(p) => (Good(r) <=> Good(q))
    BY <1>8, <2>12
  <2>15. Pair(mode, graph_order, v, u, r, q, c) /\ Pair(mode, graph_order, u, v, q, r, d)
    BY <1>7, <2>2, <2>6, <2>7, <2>11, <2>13, <2>14, Ended
  <2> QED BY <2>1, <2>15
<1>12. NobodyStopped => Agreement'
  <2> SUFFICES ASSUME NobodyStopped PROVE Agreement'
    OBVIOUS
  <2>1. Type /\ Agreement
    BY DEF IInv
  <2> QED BY <1>4, <1>11, <2>1, FramedSilent
<1>13. r.stopFlag = planner[v].stopFlag
  BY <1>1, <1>7
<1> QED BY <1>4, <1>7, <1>10, <1>12, <1>13, Unchanged, Concluded

(* A planner x could not plan, and v ends its round too without a plan.    *)
LEMMA GivesUp ==
  ASSUME Fleet, IInv, NobodyStopped, NEW v \in Vehicle, NEW p, p = planner[v], NEW r \in Planner,
         Ends(v, p, r), r.plan = p.plan, ~Good(r),
         NEW x \in Vehicle \ {v}, Over(planner[x]), ~Good(planner[x]), RoundLevel(planner[x]) = Level(p),
         NEW u \in Vehicle \ {v}, NEW cc,
         Len(cc["trajectory"]) = 0,
         cc["sync"] = Mine(channel, v)["sync"], cc["fca"] = Mine(channel, v)["fca"]
  PROVE  /\ Pair(mode, graph_order, v, u, r, planner[u], cc)
         /\ Pair(mode, graph_order, u, v, planner[u], r, Mine(channel, u))
<1>1. PICK q, c, d, o : /\ q = planner[u] /\ c = Mine(channel, v) /\ d = Mine(channel, u)
                        /\ o = planner[x]
  OBVIOUS
<1>2. Two(mode, graph_order, v, u, p, q, c, d)
  BY <1>1, Twos
<1>3. Both(mode, graph_order, v, u, p, q) /\ Trajectories(mode, u, v, q, p, d["trajectory"])
  BY <1>2 DEF Two, Pair
<1>4. RoundLevel(r) = RoundLevel(p) /\ Level(p) = RoundLevel(p)
  <2>1. Planning(p)
    BY DEF Ends
  <2>2. Level(p) = RoundLevel(p)
    BY <1>3, <2>1, BothLevels
  <2>3. RoundLevel(r) = RoundLevel(p)
    BY <1>3, Endings
  <2> QED BY <2>2, <2>3
<1>5. Trajectories(mode, u, v, q, r, d["trajectory"])
  BY <1>3, EndedTrajectories
<1>6. /\ Level(q) <= RoundLevel(r) => Len(d["trajectory"]) > 0
           /\ d["trajectory"][Len(d["trajectory"])].has_collisions = TRUE
      /\ Over(q) /\ RoundLevel(q) = Level(p) => ~Good(q)
  <2>1. CASE u = x
    <3>1. Level(q) > RoundLevel(q) /\ ~Good(q) /\ RoundLevel(q) = RoundLevel(r)
      BY <1>1, <1>4, <2>1 DEF Over
    <3>2. Level(q) \in 0 .. 11 /\ RoundLevel(q) \in {4, 7, 10}
      BY <1>3, BothLevels
    <3>3. ~(Level(q) <= RoundLevel(r))
      BY <3>1, <3>2
    <3> QED BY <3>1, <3>3
  <2>2. CASE u # x
    <3>1. Two(mode, graph_order, u, x, q, o, d, Mine(channel, x))
      BY <1>1, <2>2, Twos
    <3>2. Outcome(q, o, d["trajectory"]) /\ Barriers(mode, graph_order, q, o)
      BY <3>1 DEF Two, Pair
    <3>3. Over(o) /\ ~Good(o) /\ RoundLevel(o) = RoundLevel(r) /\ RoundLevel(o) = Level(p)
      BY <1>1, <1>4
    <3>4. Level(q) <= RoundLevel(r) => Len(d["trajectory"]) > 0
            /\ d["trajectory"][Len(d["trajectory"])].has_collisions = TRUE
      BY <3>2, <3>3 DEF Outcome
    <3>5. Over(q) /\ RoundLevel(q) = Level(p) => ~Good(q)
      BY <3>2, <3>3 DEF Barriers
    <3> QED BY <3>4, <3>5
  <2> QED BY <2>1, <2>2
<1>7. Outcome(q, r, d["trajectory"])
  BY <1>6 DEF Outcome
<1>8. \A i \in 1 .. Len(cc["trajectory"]) : cc["trajectory"][i].from # u
  OBVIOUS
<1>9. Over(q) /\ RoundLevel(q) = Level(p) => (Good(r) <=> Good(q))
  BY <1>6
<1>10. Good(r) => p.pc = "ignored"
  OBVIOUS
<1>11. Pair(mode, graph_order, v, u, r, q, cc) /\ Pair(mode, graph_order, u, v, q, r, d)
  BY <1>1, <1>2, <1>5, <1>7, <1>8, <1>9, <1>10, Ended
<1> QED BY <1>1, <1>11

(* Somebody could not plan.                                                *)
LEMMA CollisionStep ==
  ASSUME Fleet, IInv, NEW v \in Vehicle, NEW p, p = planner[v], p.pc \in {"prev", "ignored"},
         NEW arrived \in Arrival("trajectory", v), Remove("trajectory", v, arrived),
         NEW m \in Asked(v, p, arrived), m.has_collisions,
         NEW feasible \in BOOLEAN, ~feasible, Moves(v, StaticDone(p, v, feasible))
  PROVE  IInv'
<1>1. PICK r : r = StaticDone(p, v, feasible)
  OBVIOUS
<1>2. Moves(v, r)
  BY <1>1
<1>3. p \in Planner /\ Local(mode, graph_order, v, p)
  BY DEF IInv, Type
<1>4. p.follows = 0 /\ (Level(p) >= 4 => 3 * p.plan < RoundLevel(p))
  BY <1>3 DEF Local, Plannings
<1>5. /\ r \in Planner /\ Ends(v, p, r) /\ r.plan = p.plan /\ r.stopFlag = p.stopFlag
      /\ r.pc = "announce" => r.wait = Vehicle /\ r.received_messages = {v} /\ r.follows = 0
      /\ r.pc = "done" => r.follows = (IF feasible THEN p.plan ELSE 0)
      /\ p.plan > 0 \/ ~feasible => (Good(r) <=> feasible)
  BY <1>1, <1>3, <1>4, StaticDoneFields
<1>6. ~Good(r)
  BY <1>5
<1>7. Level(p) = RoundLevel(p) /\ RoundLevel(p) \in {4, 7, 10}
  BY DEF Level, RoundLevel
<1>8. Local(mode, graph_order, v, r)
  <2>1. r.pc = "done" => r.follows \in {0, r.plan}
    BY <1>5
  <2>2. Level(p) >= 4
    BY <1>7
  <2>3. 3 * r.plan < RoundLevel(p)
    BY <1>4, <1>5, <2>2
  <2> QED BY <1>3, <1>5, <1>6, <2>1, <2>3, EndedLocal
<1>9. PICK s, e : s = channel["trajectory"][v] /\ e = channel'["trajectory"][v]
  OBVIOUS
<1>10. {"trajectory", "sync", "fca"} \subseteq Topic
  BY DEF Topic
<1>11. /\ channel' \in [Topic -> [Vehicle -> Seq(Message)]]
       /\ \A x \in Topic : \A u \in Vehicle : channel'[x][u] \in Seq(MessageOf(x))
       /\ Foreign(channel')
       /\ \A x \in Topic : \A u \in Vehicle : x # "trajectory" \/ u # v => channel'[x][u] = channel[x][u]
  BY <1>10, Removed DEF IInv
<1>12. PICK k \in 1 .. Len(s) : arrived = 1 .. k /\ Rest(s, k, e)
  BY <1>9, <1>10, Removed DEF IInv
<1>13. s \in Seq(MessageOf("trajectory")) /\ e \in Seq(MessageOf("trajectory"))
  BY <1>9, <1>10, <1>11 DEF IInv, Type
<1>14. /\ m \in Taken("trajectory", v, arrived) /\ m \in MessageOf("trajectory")
       /\ m.type = Wanted(p) /\ m.from \in Vehicle \ {v}
       /\ \E i \in arrived : i \in 1 .. Len(s) /\ m = s[i]
  BY <1>9, ReadMessages DEF Asked
<1>15. ASSUME NobodyStopped
       PROVE  Agreement'
  <2>1. Queue(v, s)
    BY <1>9, <1>15 DEF IInv, Agreement
  <2>2. PICK i \in arrived : i \in 1 .. Len(s) /\ m = s[i]
    BY <1>14
  <2>3. m.has_collisions = TRUE
    BY <1>14, PathFields
  <2>4. i = Len(s)
    BY <2>1, <2>2, <2>3 DEF Queue
  <2>5. Len(e) = 0
    BY <1>12, <1>13, <2>2, <2>4 DEF Rest
  <2>6. PICK x \in Vehicle \ {v} : x = m.from
    BY <1>14
  <2>7. Finals(v, x, p, planner[x], m)
    <3>1. m.type = "Final"
      BY <1>14 DEF Wanted
    <3> QED BY <1>10, <1>14, <1>15, <2>6, <3>1, TakenMessages
  <2>8. Both(mode, graph_order, v, x, p, planner[x])
    BY <1>15, Twos DEF Two
  <2>9. RoundLevel(planner[x]) = Level(p)
    BY <2>7, <2>8, FinalAwaited
  <2>10. Over(planner[x]) /\ ~Good(planner[x])
    BY <2>3, <2>7 DEF Finals
  <2>11. PICK cc : cc = Mine(channel', v)
    OBVIOUS
  <2>12. /\ cc["trajectory"] = e
         /\ cc["sync"] = Mine(channel, v)["sync"] /\ cc["fca"] = Mine(channel, v)["fca"]
    <3>1. \A t \in Topic : cc[t] = channel'[t][v] /\ Mine(channel, v)[t] = channel[t][v]
      BY <2>11 DEF Mine
    <3> QED BY <1>9, <1>10, <1>11, <3>1
  <2>13. ASSUME NEW u \in Vehicle \ {v}
         PROVE  /\ Pair(mode, graph_order, v, u, r, planner[u], Mine(channel', v))
                /\ Pair(mode, graph_order, u, v, planner[u], r, Mine(channel, u))
    <3>1. Len(cc["trajectory"]) = 0
      BY <2>5, <2>12
    <3>2. /\ Pair(mode, graph_order, v, u, r, planner[u], cc)
          /\ Pair(mode, graph_order, u, v, planner[u], r, Mine(channel, u))
      BY <1>5, <1>6, <1>15, <2>9, <2>10, <2>12, <3>1, GivesUp
    <3> QED BY <2>11, <3>2
  <2>14. Queue(v, channel'["trajectory"][v])
    <3>1. Queue(v, e)
      BY <2>5 DEF Queue
    <3> QED BY <1>9, <3>1
  <2>15. Type /\ Agreement
    BY <1>15 DEF IInv
  <2>16. PICK t \in Topic : t = "trajectory"
    BY <1>10
  <2>17. \A y \in Topic : \A u \in Vehicle : y # t \/ u # v => channel'[y][u] = channel[y][u]
    BY <1>11, <2>16
  <2> QED BY <1>2, <2>13, <2>14, <2>15, <2>17, FramedRead
<1>16. r.stopFlag = planner[v].stopFlag
  BY <1>5
<1> QED BY <1>2, <1>5, <1>8, <1>11, <1>15, <1>16, Concluded

(* read_vehicles.                                                          *)
LEMMA ReadVehiclesStep ==
  ASSUME Fleet, IInv, NEW v \in Vehicle, ReadVehicles(v)
  PROVE  IInv'
<1> DEFINE p == planner[v]
           kept(arrived) == Asked(v, planner[v], arrived)
<1>1. /\ p.pc \in {"optimal", "prev", "ignored", "winner", "rest"}
      /\ mode' = mode /\ graph_order' = graph_order
  BY DEF ReadVehicles
<1>2. \E arrived \in Arrival("trajectory", v) :
        /\ Step(v, CASE \A m \in Asked(v, planner[v], arrived) : ~m.has_collisions ->
                          HeardNow(v, planner[v], arrived)
                     [] (\E m \in Asked(v, planner[v], arrived) : m.has_collisions)
                        /\ planner[v].pc \in {"prev", "ignored"} -> StaticDone(planner[v], v, FALSE)
                     [] (\E m \in Asked(v, planner[v], arrived) : m.has_collisions)
                        /\ planner[v].pc \in {"winner", "rest"} ->
                          Announce(planner[v], 1, FALSE, Vehicle, v))
        /\ Remove("trajectory", v, arrived)
  BY Zenon DEF ReadVehicles, HeardNow, Asked, Reads, Wanted
<1>3. PICK arrived \in Arrival("trajectory", v) :
        /\ Step(v, CASE \A m \in Asked(v, p, arrived) : ~m.has_collisions -> HeardNow(v, p, arrived)
                     [] (\E m \in Asked(v, p, arrived) : m.has_collisions)
                        /\ p.pc \in {"prev", "ignored"} -> StaticDone(p, v, FALSE)
                     [] (\E m \in Asked(v, p, arrived) : m.has_collisions)
                        /\ p.pc \in {"winner", "rest"} -> Announce(p, 1, FALSE, Vehicle, v))
        /\ Remove("trajectory", v, arrived)
  BY Zenon, <1>2
<1>4. p.pc \in {"optimal", "prev", "ignored"}
  <2>1. Control(mode, graph_order, p)
    BY DEF IInv, Local
  <2> QED BY <1>1, <2>1 DEF Control
<1> HIDE DEF p
<1>5. p = planner[v]
  BY DEF p
<1>6. CASE \A m \in Asked(v, p, arrived) : ~m.has_collisions
  <2>1. Step(v, HeardNow(v, p, arrived))
    BY <1>3, <1>6
  <2>2. Moves(v, HeardNow(v, p, arrived))
    BY <1>1, <2>1 DEF Step, Moves
  <2> QED BY <1>3, <1>4, <1>5, <1>6, <2>2, HeardStep
<1>7. CASE \E m \in Asked(v, p, arrived) : m.has_collisions
  <2>1. PICK m \in Asked(v, p, arrived) : m.has_collisions
    BY <1>7
  <2>2. m \in MessageOf("trajectory") /\ m.type = Wanted(p)
    BY ReadMessages DEF Asked
  <2>3. p.pc # "optimal"
    BY <2>1, <2>2, PathFields DEF Wanted
  <2>4. p.pc \in {"prev", "ignored"}
    BY <1>4, <2>3
  <2>5. ~(\A x \in Asked(v, p, arrived) : ~x.has_collisions)
    BY <2>1
  <2>6. PICK feasible \in BOOLEAN : feasible = FALSE
    OBVIOUS
  <2>7. p.pc \notin {"winner", "rest"}
    BY <2>4
  <2>8. Step(v, StaticDone(p, v, FALSE))
    BY <1>3, <1>7, <2>4, <2>5, <2>7
  <2>9. Moves(v, StaticDone(p, v, feasible))
    BY <1>1, <2>6, <2>8 DEF Step, Moves
  <2>10. ~feasible
    BY <2>6
  <2> QED BY <1>3, <1>5, <2>1, <2>4, <2>9, <2>10, CollisionStep
<1> QED BY <1>6, <1>7

-----------------------------------------------------------------------------
(* plan_static_priorities, once those before have planned                  *)

(* One that has heard of those before, and of no collision.                *)
Clear(v, p) == p = planner[v] /\ p.pc = "prev" /\ Heard(p)

LEMMA NobodyFailed ==
  ASSUME Fleet, IInv, NobodyStopped, NEW v \in Vehicle, NEW p, Clear(v, p), NEW u \in Vehicle \ {v}
  PROVE  /\ Len(channel["trajectory"][v]) = 0
         /\ ~(Over(planner[u]) /\ Level(p) <= RoundLevel(planner[u]))
<1>1. Len(channel["trajectory"][v]) = 0
  BY Emptied DEF Clear, Planning
<1>2. PICK q, s : q = planner[u] /\ s = channel["trajectory"][v]
  OBVIOUS
<1>3. Two(mode, graph_order, v, u, p, q, Mine(channel, v), Mine(channel, u))
  BY <1>2, Twos DEF Clear
<1>4. Both(mode, graph_order, v, u, p, q) /\ Outcome(p, q, s)
  <2>1. Mine(channel, v)["trajectory"] = s
    BY <1>2 DEF Mine, Topic
  <2> QED BY <1>3, <2>1 DEF Two, Pair
<1>5. Level(p) \in Int /\ RoundLevel(q) \in Int
  BY <1>4, BothLevels
<1>6. ~(Over(q) /\ Level(p) <= RoundLevel(q))
  BY <1>1, <1>2, <1>4, <1>5, NobodyOver DEF Clear
<1> QED BY <1>1, <1>2, <1>6

LEMMA NobodyWaits ==
  ASSUME Fleet, IInv, NobodyStopped, NEW v \in Vehicle, NEW p, Clear(v, p),
         NEW u \in Vehicle \ {v}, NEW w \in Vehicle \ {v}, u # w
  PROVE  ~(Over(planner[w]) /\ Level(planner[u]) <= RoundLevel(planner[w]))
<1>1. PICK q, o : q = planner[u] /\ o = planner[w]
  OBVIOUS
<1>2. Both(mode, graph_order, v, u, p, q) /\ Both(mode, graph_order, v, w, p, o)
  BY <1>1, Twos DEF Clear, Two
<1>3. Both(mode, graph_order, u, w, q, o)
  BY <1>1, Twos DEF Two
<1>4. SUFFICES ASSUME Over(o), Level(q) <= RoundLevel(o) PROVE FALSE
  BY <1>1
<1>5. Planning(p)
  BY DEF Clear, Planning
<1>6. RoundLevel(o) = Level(p)
  BY <1>2, <1>3, <1>4, <1>5, NotBehind
<1>7. ~(Over(o) /\ Level(p) <= RoundLevel(o))
  BY <1>1, NobodyFailed
<1>8. Level(p) \in 0 .. 11
  BY LevelRange
<1> QED BY <1>4, <1>6, <1>7, <1>8

LEMMA Unspoken ==
  ASSUME Fleet, IInv, NobodyStopped, NEW v \in Vehicle, NEW p, Clear(v, p),
         NEW u \in Vehicle \ {v}, NEW i \in 1 .. Len(channel["trajectory"][u])
  PROVE  channel["trajectory"][u][i].from # v /\ channel["trajectory"][u][i].has_collisions # TRUE
<1>1. "trajectory" \in Topic
  BY DEF Topic
<1>2. PICK q, s : q = planner[u] /\ s = channel["trajectory"][u]
  OBVIOUS
<1>3. s \in Seq(MessageOf("trajectory")) /\ Others(u, s) /\ i \in 1 .. Len(s)
  BY <1>1, <1>2 DEF IInv, Type, Foreign
<1>4. PICK m \in MessageOf("trajectory") : m = s[i]
  BY <1>3
<1>5. Trajectory(s[i]) /\ s[i].from \in Vehicle /\ s[i].from # u
  BY <1>3, MessageFields DEF Trajectory, Others
<1>6. Two(mode, graph_order, v, u, p, q, Mine(channel, v), Mine(channel, u))
  BY <1>2, Twos DEF Clear
<1>7. Both(mode, graph_order, v, u, p, q) /\ Trajectories(mode, u, v, q, p, s)
  <2>1. Mine(channel, u)["trajectory"] = s
    BY <1>1, <1>2 DEF Mine
  <2> QED BY <1>6, <2>1 DEF Two, Pair
<1>8. s[i].from # v
  BY <1>3, <1>5, <1>7, NoneSent DEF Clear
<1>9. ASSUME m.has_collisions = TRUE
      PROVE  FALSE
  <2>1. m.type = "Final"
    BY <1>9, PathFields
  <2>2. PICK w \in Vehicle \ {v} : w = m.from /\ w # u
    BY <1>4, <1>5, <1>8
  <2>3. PICK o : o = planner[w]
    OBVIOUS
  <2>4. Two(mode, graph_order, u, w, q, o, Mine(channel, u), Mine(channel, w))
    BY <1>2, <2>2, <2>3, Twos
  <2>5. Trajectories(mode, u, w, q, o, s)
    <3>1. Mine(channel, u)["trajectory"] = s
      BY <1>1, <1>2 DEF Mine
    <3> QED BY <2>4, <3>1 DEF Two, Pair
  <2>6. Finals(u, w, q, o, m)
    BY <1>3, <1>4, <2>1, <2>2, <2>5 DEF Trajectories
  <2>7. Over(o) /\ Level(q) <= RoundLevel(o)
    BY <1>9, <2>6 DEF Finals
  <2> QED BY <1>2, <2>2, <2>3, <2>7, NobodyWaits
<1> QED BY <1>2, <1>4, <1>8, <1>9

(* What is sent of a plan.                                                 *)
Tells(v, n, m) == m \in MessageOf("trajectory") /\ m.from = v /\ m.type = "Final" /\ m.plan = n
TellsGood(v, n, m) == Tells(v, n, m) /\ m.has_collisions = FALSE
TellsBad(v, n, m) == Tells(v, n, m) /\ m.has_collisions = TRUE

Succeeded(v, p, n) == [Waiting(p, "ignored", Behinds(v, p), {}) EXCEPT !.plan = n]

(* There is a way, and those after hear of it.                             *)
LEMMA PlanWorksStep ==
  ASSUME Fleet, IInv, NEW v \in Vehicle, NEW p, p = planner[v], p.pc = "prev", Proceeds(p),
         NEW n, n = p.plan + 1, NEW m, TellsGood(v, n, m), Publish("trajectory", m),
         Moves(v, Succeeded(v, p, n))
  PROVE  IInv'
<1>1. p \in Planner /\ Local(mode, graph_order, v, p)
  BY DEF IInv, Type
<1>2. Level(p) = RoundLevel(p) /\ RoundLevel(p) \in {4, 7, 10}
  BY DEF Level, RoundLevel
<1>3. p.follows = 0 /\ 3 * p.plan < RoundLevel(p) - 3 /\ p.plan \in 0 .. 3
  BY <1>1 DEF Local, Plannings, Planner, Plan
<1>4. n \in Plan
  BY <1>2, <1>3 DEF Plan
<1>6. PICK o : o = Waiting(p, "ignored", Behinds(v, p), {})
  OBVIOUS
<1>7. PICK r : r = [o EXCEPT !.plan = n]
  OBVIOUS
<1>8. Moves(v, r)
  BY <1>6, <1>7 DEF Succeeded
<1>9. Behinds(v, p) \in SUBSET Vehicle
  <2>1. p.prio_vec \in Order
    BY <1>1 DEF Planner
  <2> QED BY <2>1, Permuted DEF Behinds
<1>10. /\ r \in Planner /\ r.pc = "ignored" /\ r.received_messages = {} /\ r.wait = Behinds(v, p)
       /\ r.stage = p.stage /\ r.prio_vec = p.prio_vec /\ r.old_prio_vec = p.old_prio_vec
       /\ r.own_fca = p.own_fca /\ r.other_vehicles_buffer = p.other_vehicles_buffer
       /\ r.follows = p.follows /\ r.stopFlag = p.stopFlag /\ r.plan = n
  <2>1. /\ o.pc = "ignored" /\ o.wait = Behinds(v, p) /\ o.received_messages = {}
        /\ o.stage = p.stage /\ o.prio_vec = p.prio_vec /\ o.old_prio_vec = p.old_prio_vec
        /\ o.own_fca = p.own_fca /\ o.other_vehicles_buffer = p.other_vehicles_buffer
        /\ o.follows = p.follows /\ o.stopFlag = p.stopFlag /\ o \in Planner
    <3>1. o = [p EXCEPT !.pc = "ignored", !.wait = Behinds(v, p), !.received_messages = {}]
      BY <1>6 DEF Waiting
    <3> QED BY <1>1, <1>9, <3>1 DEF Planner
  <2> QED BY <1>4, <1>7, <2>1 DEF Planner
<1>11. Plans(v, p, r)
  BY <1>10 DEF Plans, Behinds
<1>12. Local(mode, graph_order, v, r)
  BY <1>1, <1>3, <1>10, <1>11, PlannedLocal
<1>14. /\ m \in MessageOf("trajectory") /\ m.from = v /\ m.type = "Final" /\ m.plan = n
       /\ m.has_collisions = FALSE
  BY DEF TellsGood, Tells
<1>15. PICK t \in Topic : t = "trajectory"
  BY DEF Topic
<1>16. Publish(t, m) /\ m \in MessageOf(t)
  BY <1>14, <1>15
<1>17. ASSUME NobodyStopped, NEW u \in Vehicle \ {v}
       PROVE  /\ Pair(mode, graph_order, v, u, r, planner[u], Mine(channel, v))
              /\ Pair(mode, graph_order, u, v, planner[u], r, Mine(channel, u))
              /\ Says(mode, t, u, v, planner[u], r, m)
              /\ Queue(u, Append(channel[t][u], m))
              /\ Outcome(planner[u], r, Append(channel[t][u], m))
              /\ \A w \in Vehicle \ {v} :
                   u # w => Outcome(planner[u], planner[w], Append(channel[t][u], m))
  <2>1. PICK q, c, d, s : /\ q = planner[u] /\ c = Mine(channel, v) /\ d = Mine(channel, u)
                          /\ s = channel[t][u]
    OBVIOUS
  <2>2. Clear(v, p)
    BY <1>17 DEF Clear, Proceeds, NobodyStopped
  <2>3. Two(mode, graph_order, v, u, p, q, c, d)
    BY <1>17, <2>1, Twos
  <2>4. ~(Over(q) /\ Level(p) <= RoundLevel(q)) /\ Len(channel["trajectory"][v]) = 0
    BY <1>17, <2>1, <2>2, NobodyFailed
  <2>5. c["trajectory"] = channel["trajectory"][v] /\ d["trajectory"] = s
    BY <1>15, <2>1 DEF Mine, Topic
  <2>6. \A i \in 1 .. Len(s) : s[i].from # v /\ s[i].has_collisions # TRUE
    BY <1>15, <1>17, <2>1, <2>2, Unspoken
  <2>7. /\ \A i \in 1 .. Len(c["trajectory"]) : c["trajectory"][i].from # u
        /\ \A i \in 1 .. Len(d["trajectory"]) : d["trajectory"][i].from # v
    <3>1. Len(c["trajectory"]) = 0
      BY <2>4, <2>5
    <3>2. \A i \in 1 .. Len(d["trajectory"]) : d["trajectory"][i].from # v
      BY <2>5, <2>6
    <3> QED BY <3>1, <3>2
  <2>8. /\ Pair(mode, graph_order, v, u, r, q, c) /\ Pair(mode, graph_order, u, v, q, r, d)
        /\ \A x : x.plan = r.plan /\ x.has_collisions = FALSE => Finals(u, v, q, r, x)
    BY <1>10, <1>11, <2>2, <2>3, <2>4, <2>7, Planned DEF Clear
  <2>9. Finals(u, v, q, r, m)
    BY <1>10, <1>14, <2>8
  <2>10. Says(mode, t, u, v, q, r, m)
    <3>1. m.type # "Optimal" /\ t # "sync" /\ t # "fca"
      BY <1>14, <1>15
    <3> QED BY <2>9, <3>1 DEF Says
  <2>11. Queue(u, Append(s, m))
    <3>1. Queue(u, s)
      BY <1>15, <1>17, <2>1 DEF IInv, Agreement
    <3>2. s \in Seq(MessageOf(t))
      BY <2>1 DEF IInv, Type
    <3>3. m.from # u
      BY <1>14
    <3>4. \A i \in 1 .. Len(s) : s[i].from # m.from /\ s[i].has_collisions # TRUE
      BY <1>14, <2>6
    <3> QED BY <1>16, <3>1, <3>2, <3>3, <3>4, QueueAppended
  <2>12. Outcome(q, r, Append(s, m))
    <3>1. ~Over(r)
      <4>1. Level(r) = RoundLevel(r) /\ RoundLevel(r) \in {4, 7, 10}
        BY <1>10 DEF Level, RoundLevel
      <4> QED BY <4>1 DEF Over
    <3> QED BY <3>1 DEF Outcome
  <2>13. ASSUME NEW w \in Vehicle \ {v}, u # w
         PROVE  Outcome(q, planner[w], Append(s, m))
    <3>1. ~(Over(planner[w]) /\ Level(q) <= RoundLevel(planner[w]))
      BY <1>17, <2>1, <2>2, <2>13, NobodyWaits
    <3>2. Two(mode, graph_order, u, w, q, planner[w], d, Mine(channel, w))
      BY <1>17, <2>1, <2>13, Twos
    <3>3. Outcome(q, planner[w], s)
      BY <2>5, <3>2 DEF Two, Pair
    <3> QED BY <3>1, <3>3 DEF Outcome
  <2> QED BY <2>1, <2>8, <2>10, <2>11, <2>12, <2>13
<1>18. r.stopFlag = p.stopFlag
  BY <1>10
<1>19. ASSUME NobodyStopped, NEW u \in Vehicle \ {v}
       PROVE  /\ Pair(mode, graph_order, v, u, r, planner[u], Mine(channel, v))
              /\ Pair(mode, graph_order, u, v, planner[u], r, Mine(channel, u))
              /\ Says(mode, t, u, v, planner[u], r, m)
              /\ t = "trajectory" =>
                   /\ Queue(u, Append(channel[t][u], m))
                   /\ Outcome(planner[u], r, Append(channel[t][u], m))
                   /\ \A w \in Vehicle \ {v} :
                        u # w => Outcome(planner[u], planner[w], Append(channel[t][u], m))
  BY <1>17, <1>19
<1> QED BY <1>8, <1>10, <1>12, <1>14, <1>16, <1>18, <1>19, SentStep

(* There is no way.                                                        *)
Failed(v, p, n, feasible) ==
  [[StaticDone(p, v, feasible) EXCEPT !.follows = 0] EXCEPT !.plan = n]

LEMMA FailedFields ==
  ASSUME Fleet, NEW p \in Planner, NEW v \in Vehicle, NEW n \in Plan, NEW feasible \in BOOLEAN, ~feasible,
         NEW r, r = Failed(v, p, n, feasible), p.pc = "prev", p.follows = 0
  PROVE  /\ r \in Planner /\ Ends(v, p, r) /\ r.plan = n /\ r.stopFlag = p.stopFlag
         /\ r.pc = "announce" => r.wait = Vehicle /\ r.received_messages = {v} /\ r.follows = 0
         /\ r.pc = "done" => r.follows \in {0, r.plan}
         /\ ~Good(r)
<1>1. PICK o : o = StaticDone(p, v, feasible)
  OBVIOUS
<1>2. /\ o \in Planner /\ Ends(v, p, o) /\ o.plan = p.plan /\ o.stopFlag = p.stopFlag
      /\ o.pc = "announce" => o.wait = Vehicle /\ o.received_messages = {v} /\ o.follows = 0
      /\ o.pc = "done" => o.follows = (IF feasible THEN p.plan ELSE 0)
      /\ p.plan > 0 \/ ~feasible => (Good(o) <=> feasible)
  <2>1. p.pc \in {"prev", "ignored"}
    OBVIOUS
  <2> QED BY <1>1, <2>1, StaticDoneFields
<1>3. 0 \in Plan
  BY DEF Plan
<1>4. PICK a : a = [o EXCEPT !.follows = 0]
  OBVIOUS
<1>5. r = [a EXCEPT !.plan = n]
  BY <1>1, <1>4 DEF Failed
<1>6. /\ a \in Planner /\ a.follows = 0 /\ a.pc = o.pc /\ a.stage = o.stage /\ a.sync_id = o.sync_id
      /\ a.wait = o.wait /\ a.received_messages = o.received_messages /\ a.feasible = o.feasible
      /\ a.prio_vec = o.prio_vec /\ a.old_prio_vec = o.old_prio_vec /\ a.own_fca = o.own_fca
      /\ a.other_vehicles_buffer = o.other_vehicles_buffer /\ a.stopFlag = o.stopFlag
  BY <1>2, <1>3, <1>4 DEF Planner
<1>7. /\ r \in Planner /\ r.follows = 0 /\ r.plan = n /\ r.pc = o.pc /\ r.stage = o.stage /\ r.sync_id = o.sync_id
      /\ r.wait = o.wait /\ r.received_messages = o.received_messages /\ r.feasible = o.feasible
      /\ r.prio_vec = o.prio_vec /\ r.old_prio_vec = o.old_prio_vec /\ r.own_fca = o.own_fca
      /\ r.other_vehicles_buffer = o.other_vehicles_buffer /\ r.stopFlag = o.stopFlag
  BY <1>5, <1>6 DEF Planner
<1>8. Ends(v, p, r)
  BY <1>2, <1>7 DEF Ends
<1>9. ~Good(r)
  <2>1. ~Good(o)
    BY <1>2
  <2>2. CASE r.pc = "done"
    <3>1. ~(r.follows > 0)
      BY <1>7
    <3> QED BY <2>2, <3>1 DEF Good
  <2>3. CASE r.pc # "done"
    BY <1>7, <2>1, <2>3 DEF Good
  <2> QED BY <2>2, <2>3
<1> QED BY <1>2, <1>7, <1>8, <1>9

LEMMA PlanFailsStep ==
  ASSUME Fleet, IInv, NEW v \in Vehicle, NEW p, p = planner[v], p.pc = "prev", Proceeds(p),
         NEW n, n = p.plan + 1, NEW m, TellsBad(v, n, m), Publish("trajectory", m),
         NEW feasible \in BOOLEAN, ~feasible, Moves(v, Failed(v, p, n, feasible))
  PROVE  IInv'
<1>1. p \in Planner /\ Local(mode, graph_order, v, p)
  BY DEF IInv, Type
<1>2. Level(p) = RoundLevel(p) /\ RoundLevel(p) \in {4, 7, 10}
  BY DEF Level, RoundLevel
<1>3. p.follows = 0 /\ 3 * p.plan < RoundLevel(p) - 3 /\ p.plan \in 0 .. 3
  BY <1>1 DEF Local, Plannings, Planner, Plan
<1>4. n \in Plan /\ 3 * n < RoundLevel(p)
  BY <1>2, <1>3 DEF Plan
<1>5. PICK r : r = Failed(v, p, n, feasible)
  OBVIOUS
<1>6. Moves(v, r)
  BY <1>5
<1>7. /\ r \in Planner /\ Ends(v, p, r) /\ r.plan = n /\ r.stopFlag = p.stopFlag
      /\ r.pc = "announce" => r.wait = Vehicle /\ r.received_messages = {v} /\ r.follows = 0
      /\ r.pc = "done" => r.follows \in {0, r.plan}
      /\ ~Good(r)
  BY <1>1, <1>3, <1>4, <1>5, FailedFields
<1>8. Local(mode, graph_order, v, r)
  <2>1. 3 * r.plan < RoundLevel(p)
    BY <1>4, <1>7
  <2> QED BY <1>1, <1>7, <2>1, EndedLocal
<1>9. PICK t \in Topic : t = "trajectory"
  BY DEF Topic
<1>10. /\ m \in MessageOf(t) /\ m.from = v /\ m.type = "Final" /\ m.plan = n
       /\ m.has_collisions = TRUE
  BY <1>9 DEF TellsBad, Tells
<1>11. Publish(t, m)
  BY <1>9
<1>12. /\ channel' \in [Topic -> [Vehicle -> Seq(Message)]]
       /\ \A x \in Topic : \A u \in Vehicle : channel'[x][u] \in Seq(MessageOf(x))
       /\ Foreign(channel')
       /\ \A u \in Vehicle : channel'[t][u] =
               IF u = m.from THEN channel[t][u] ELSE Append(channel[t][u], m)
       /\ \A x \in Topic \ {t} : channel'[x] = channel[x]
  BY <1>10, <1>11, Published DEF IInv
<1>13. ASSUME NobodyStopped, NEW u \in Vehicle \ {v}
       PROVE  /\ Pair(mode, graph_order, v, u, r, planner[u], Mine(channel, v))
              /\ Pair(mode, graph_order, u, v, planner[u], r, Mine(channel', u))
              /\ Queue(u, Append(channel[t][u], m))
              /\ \A w \in Vehicle \ {v} :
                   u # w => Outcome(planner[u], planner[w], Append(channel[t][u], m))
  <2>1. PICK q, c, d, s : /\ q = planner[u] /\ c = Mine(channel, v) /\ d = Mine(channel, u)
                          /\ s = channel[t][u]
    OBVIOUS
  <2>2. PICK e, dd : e = Append(s, m) /\ dd = Mine(channel', u)
    OBVIOUS
  <2>3. Clear(v, p)
    BY <1>13 DEF Clear, Proceeds, NobodyStopped
  <2>4. Two(mode, graph_order, v, u, p, q, c, d)
    BY <1>13, <2>1, Twos
  <2>5. ~(Over(q) /\ Level(p) <= RoundLevel(q)) /\ Len(channel["trajectory"][v]) = 0
    BY <1>13, <2>1, <2>3, NobodyFailed
  <2>6. c["trajectory"] = channel["trajectory"][v] /\ d["trajectory"] = s
    BY <1>9, <2>1 DEF Mine, Topic
  <2>7. \A i \in 1 .. Len(s) : s[i].from # v /\ s[i].has_collisions # TRUE
    BY <1>9, <1>13, <2>1, <2>3, Unspoken
  <2>8. /\ dd["trajectory"] = e /\ dd["sync"] = d["sync"] /\ dd["fca"] = d["fca"]
    <3>1. \A x \in Topic : dd[x] = channel'[x][u] /\ d[x] = channel[x][u]
      BY <2>1, <2>2 DEF Mine
    <3>2. channel'[t][u] = e
      BY <1>10, <1>12, <2>1, <2>2
    <3>3. "sync" \in Topic \ {t} /\ "fca" \in Topic \ {t}
      BY <1>9 DEF Topic
    <3>4. dd[t] = e
      BY <3>1, <3>2
    <3>5. \A x \in Topic \ {t} : dd[x] = d[x]
      BY <1>12, <3>1
    <3> QED BY <1>9, <3>3, <3>4, <3>5
  <2>9. s \in Seq(MessageOf(t))
    BY <2>1 DEF IInv, Type
  <2>10. /\ Len(e) = Len(s) + 1 /\ Len(s) \in Nat
         /\ \A i \in 1 .. Len(s) : e[i] = s[i]
         /\ e[Len(s) + 1] = m
    BY <1>10, <2>2, <2>9
  <2>11. Both(mode, graph_order, v, u, p, q)
    BY <2>4 DEF Two
  <2>12. /\ RoundLevel(r) = RoundLevel(p) /\ Over(r) /\ Prev(v, r) = Prev(v, p)
    <3>1. RoundLevel(r) = RoundLevel(p) /\ Over(r)
      BY <1>7, <2>11, Endings
    <3>2. r.prio_vec = p.prio_vec
      BY <1>7 DEF Ends
    <3> QED BY <3>1, <3>2 DEF Prev
  <2>13. Finals(u, v, q, r, m)
    <3>1. Expected(u, v, q, p)
      BY <2>3, <2>4, <2>5, Expecting DEF Clear
    <3>2. Level(r) >= 4 /\ r.pc # "prev"
      BY <1>7, <2>12, LevelsApart DEF Ends
    <3>3. RoundLevel(r) = Level(p)
      BY <1>2, <2>12
    <3>4. m.plan = r.plan
      BY <1>7, <1>10
    <3> QED BY <1>7, <2>12, <3>1, <3>2, <3>3, <3>4 DEF Finals, Expected
  <2>14. Trajectories(mode, u, v, q, r, e)
    <3>1. ASSUME NEW i \in 1 .. Len(e), e[i].from = v
          PROVE  e[i] = m
      <4>1. i \in 1 .. Len(s) \/ i = Len(s) + 1
        BY <2>10
      <4> QED BY <2>7, <2>10, <3>1, <4>1
    <3>2. m.type # "Optimal"
      BY <1>10
    <3> QED BY <2>13, <3>1, <3>2 DEF Trajectories
  <2>15. Outcome(q, r, e)
    <3>1. Len(e) > 0 /\ e[Len(e)] = m
      BY <2>10
    <3> QED BY <1>7, <1>10, <3>1 DEF Outcome
  <2>16. /\ Trajectories(mode, u, v, q, r, dd["trajectory"])
         /\ Outcome(q, r, dd["trajectory"])
    BY <2>8, <2>14, <2>15
  <2>17. \A i \in 1 .. Len(c["trajectory"]) : c["trajectory"][i].from # u
    <3>1. Len(c["trajectory"]) = 0
      BY <2>5, <2>6
    <3> QED BY <3>1
  <2>18. Over(q) /\ RoundLevel(q) = Level(p) => (Good(r) <=> Good(q))
    <3>1. ~(Over(q) /\ RoundLevel(q) = Level(p))
      BY <1>2, <2>5
    <3> QED BY <3>1
  <2>19. Good(r) => p.pc = "ignored"
    BY <1>7
  <2>20. Pair(mode, graph_order, v, u, r, q, c) /\ Pair(mode, graph_order, u, v, q, r, dd)
    <3>1. r \in Planner /\ Ends(v, p, r)
      BY <1>7
    <3>2. dd["sync"] = d["sync"] /\ dd["fca"] = d["fca"]
      BY <2>8
    <3> QED BY <2>4, <2>16, <2>17, <2>18, <2>19, <3>1, <3>2, Ended
  <2>21. Queue(u, e)
    <3>1. Queue(u, s)
      BY <1>9, <1>13, <2>1 DEF IInv, Agreement
    <3>2. m.from # u
      BY <1>10
    <3>3. \A i \in 1 .. Len(s) : s[i].from # m.from /\ s[i].has_collisions # TRUE
      BY <1>10, <2>7
    <3> QED BY <1>10, <2>2, <2>9, <3>1, <3>2, <3>3, QueueAppended
  <2>22. ASSUME NEW w \in Vehicle \ {v}, u # w
         PROVE  Outcome(q, planner[w], e)
    <3>1. ~(Over(planner[w]) /\ Level(q) <= RoundLevel(planner[w]))
      BY <1>13, <2>1, <2>3, <2>22, NobodyWaits
    <3>2. Two(mode, graph_order, u, w, q, planner[w], d, Mine(channel, w))
      BY <1>13, <2>1, <2>22, Twos
    <3>3. Outcome(q, planner[w], s)
      BY <2>6, <3>2 DEF Two, Pair
    <3> QED BY <3>1, <3>3 DEF Outcome
  <2> QED BY <2>1, <2>2, <2>20, <2>21, <2>22
<1>14. NobodyStopped => Agreement'
  <2> SUFFICES ASSUME NobodyStopped PROVE Agreement'
    OBVIOUS
  <2>1. Type /\ Agreement
    BY DEF IInv
  <2>2. t = "trajectory" => \A u \in Vehicle \ {v} : Queue(u, Append(channel[t][u], m))
    BY <1>13
  <2>3. t = "trajectory" => \A u, w \in Vehicle \ {v} :
           u # w => Outcome(planner[u], planner[w], Append(channel[t][u], m))
    BY <1>13
  <2>4. \A u \in Vehicle \ {v} :
          /\ Pair(mode, graph_order, v, u, r, planner[u], Mine(channel, v))
          /\ Pair(mode, graph_order, u, v, planner[u], r, Mine(channel', u))
    BY <1>13
  <2> QED BY <1>6, <1>10, <1>11, <2>1, <2>2, <2>3, <2>4, FramedSent
<1>15. r.stopFlag = planner[v].stopFlag
  BY <1>7
<1> QED BY <1>6, <1>7, <1>8, <1>12, <1>14, <1>15, Concluded

LEMMA PlanOfFields ==
  ASSUME NEW v \in Vehicle, NEW n \in Plan, NEW m, NEW bad \in BOOLEAN,
         m = [from |-> v, type |-> "Final", has_collisions |-> bad, plan |-> n]
  PROVE  /\ bad = FALSE => TellsGood(v, n, m)
         /\ bad = TRUE => TellsBad(v, n, m)
<1>1. m \in PlannedPath /\ m.from = v /\ m.type = "Final" /\ m.plan = n /\ m.has_collisions = bad
  BY DEF PlannedPath
<1>2. m \in MessageOf("trajectory")
  <2>1. m.type # "Optimal"
    BY <1>1
  <2> QED BY <1>1, <2>1 DEF MessageOf
<1>3. Tells(v, n, m)
  BY <1>1, <1>2 DEF Tells
<1> QED BY <1>1, <1>3 DEF TellsGood, TellsBad

(* plan_static_priorities.                                                 *)
LEMMA PlanAfterPrevStep ==
  ASSUME Fleet, IInv, NEW v \in Vehicle, PlanAfterPrev(v)
  PROVE  IInv'
<1>1. PICK p : p = planner[v]
  OBVIOUS
<1>2. p.pc = "prev" /\ Proceeds(p) /\ mode' = mode /\ graph_order' = graph_order
  BY <1>1 DEF PlanAfterPrev
<1>3. PICK n : n = p.plan + 1
  OBVIOUS
<1>4. n \in Plan
  <2>1. p \in Planner /\ Local(mode, graph_order, v, p)
    BY <1>1 DEF IInv, Type
  <2>2. 3 * p.plan < RoundLevel(p) - 3 /\ p.plan \in 0 .. 3
    BY <1>2, <2>1 DEF Local, Plannings, Planner, Plan
  <2>3. RoundLevel(p) \in {4, 7, 10}
    BY DEF RoundLevel
  <2> QED BY <1>3, <2>2, <2>3 DEF Plan
<1>5. PICK feasible \in BOOLEAN :
        SendPlan(v, feasible,
          IF feasible THEN Waiting(planner[v], "ignored", IgnoredVehicles(planner[v].prio_vec, v), {})
                      ELSE [StaticDone(planner[v], v, FALSE) EXCEPT !.follows = 0])
  BY Zenon DEF PlanAfterPrev
<1>6. CASE feasible
  <2>1. SendPlan(v, TRUE, Waiting(p, "ignored", Behinds(v, p), {}))
    <3>1. feasible = TRUE
      BY <1>6
    <3> QED BY <1>1, <1>5, <3>1, Zenon DEF Behinds
  <2>2. PICK bad \in BOOLEAN : bad = FALSE
    OBVIOUS
  <2>3. PICK m : m = [from |-> v, type |-> "Final", has_collisions |-> bad, plan |-> n]
    OBVIOUS
  <2>4. TellsGood(v, n, m)
    BY <1>4, <2>2, <2>3, PlanOfFields
  <2>5. Publish("trajectory", m) /\ Step(v, Succeeded(v, p, n))
    BY <1>1, <1>3, <2>1, <2>2, <2>3 DEF SendPlan, Succeeded
  <2>6. Moves(v, Succeeded(v, p, n))
    BY <1>2, <2>5 DEF Step, Moves
  <2> QED BY <1>1, <1>2, <1>3, <2>4, <2>5, <2>6, PlanWorksStep
<1>7. CASE ~feasible
  <2>1. SendPlan(v, FALSE, [StaticDone(p, v, FALSE) EXCEPT !.follows = 0])
    <3>1. feasible = FALSE
      BY <1>7
    <3> QED BY <1>1, <1>5, <3>1, Zenon
  <2>2. PICK bad \in BOOLEAN : bad = TRUE
    OBVIOUS
  <2>3. PICK m : m = [from |-> v, type |-> "Final", has_collisions |-> bad, plan |-> n]
    OBVIOUS
  <2>4. TellsBad(v, n, m)
    BY <1>4, <2>2, <2>3, PlanOfFields
  <2>5. PICK no \in BOOLEAN : no = FALSE
    OBVIOUS
  <2>6. Publish("trajectory", m) /\ Step(v, Failed(v, p, n, no))
    BY <1>1, <1>3, <2>1, <2>2, <2>3, <2>5 DEF SendPlan, Failed
  <2>7. Moves(v, Failed(v, p, n, no)) /\ ~no
    BY <1>2, <2>5, <2>6 DEF Step, Moves
  <2> QED BY <1>1, <1>2, <1>3, <2>4, <2>6, <2>7, PlanFailsStep
<1> QED BY <1>6, <1>7

-----------------------------------------------------------------------------
(* stop() only takes the promises away.                                    *)
LEMMA StopStep ==
  ASSUME Fleet, IInv, NEW v \in Vehicle, Stop(v)
  PROVE  IInv'
<1>1. PICK p : p = planner[v]
  OBVIOUS
<1>2. PICK r : r = [p EXCEPT !.stopFlag = TRUE]
  OBVIOUS
<1>3. planner' = [planner EXCEPT ![v] = r] /\ mode' = mode /\ graph_order' = graph_order /\ channel' = channel
  BY <1>1, <1>2 DEF Stop, Step
<1>4. p \in Planner /\ Local(mode, graph_order, v, p)
  BY <1>1 DEF IInv, Type
<1>5. /\ r \in Planner /\ Stays(p, r) /\ r.stopFlag = TRUE /\ r.feasible = p.feasible
      /\ r.received_messages = p.received_messages /\ r.fca = p.fca
  BY <1>2, <1>4 DEF Planner, Stays
<1>6. /\ Level(r) = Level(p) /\ RoundLevel(r) = RoundLevel(p) /\ (Over(r) <=> Over(p))
      /\ Prev(v, r) = Prev(v, p) /\ Behinds(v, r) = Behinds(v, p) /\ (Good(r) <=> Good(p))
  <2>1. /\ Level(r) = Level(p) /\ RoundLevel(r) = RoundLevel(p) /\ (Over(r) <=> Over(p))
        /\ Prev(v, r) = Prev(v, p)
    BY <1>5, StaysLevel
  <2>2. Behinds(v, r) = Behinds(v, p) /\ (Good(r) <=> Good(p))
    BY <1>5 DEF Stays, Behinds, Good
  <2> QED BY <2>1, <2>2
<1>7. Local(mode, graph_order, v, r)
  <2>1. Control(mode, graph_order, r)
    BY <1>4, <1>5, <1>6 DEF Local, Control, Stays
  <2>2. Waits(v, r)
    BY <1>4, <1>5, <1>6 DEF Local, Waits, Stays
  <2>3. Plannings(r)
    BY <1>4, <1>5, <1>6 DEF Local, Plannings, Stays
  <2> QED BY <2>1, <2>2, <2>3 DEF Local
<1>8. Type'
  <2>1. planner' \in [Vehicle -> Planner]
    BY <1>3, <1>5 DEF IInv, Type
  <2> QED BY <1>3, <2>1, Unchanged DEF IInv, Type
<1>9. planner'[v] = r /\ \A u \in Vehicle \ {v} : planner'[u] = planner[u]
  BY <1>3 DEF IInv, Type
<1>10. \A u \in Vehicle : Local(mode, graph_order, u, planner'[u])
  BY <1>7, <1>9 DEF IInv
<1>11. ~NobodyStopped'
  BY <1>5, <1>9 DEF NobodyStopped
<1> QED BY <1>3, <1>8, <1>10, <1>11 DEF IInv

(* The auction is not reached.                                             *)
LEMMA NoAuction ==
  ASSUME Fleet, IInv, NEW v \in Vehicle
  PROVE  ~(PlanAsWinner(v) \/ WaitForWinner(v) \/ WinnerPlanned(v) \/ RestPlanned(v))
<1>1. planner[v].pc \notin {"auction", "winner", "rest"}
  BY DEF IInv, Local, Control
<1>2. PlanAsWinner(v) \/ WaitForWinner(v) => planner[v].pc = "auction"
  BY DEF PlanAsWinner, WaitForWinner
<1>3. WinnerPlanned(v) => planner[v].pc = "winner"
  BY DEF WinnerPlanned
<1>4. RestPlanned(v) => planner[v].pc = "rest"
  BY DEF RestPlanned
<1> QED BY <1>1, <1>2, <1>3, <1>4

LEMMA NextStep ==
  ASSUME Fleet, IInv, [Next]_vars
  PROVE  IInv'
<1>1. CASE UNCHANGED vars
  BY <1>1 DEF vars, IInv, Type, Foreign, Agreement, NobodyStopped, Mine
<1>2. ASSUME NEW v \in Vehicle, PlannerStep(v)
      PROVE  IInv'
  <2>1. CASE Begin(v)
    BY <2>1, BeginStep
  <2>2. CASE ReadVehicles(v)
    BY <2>2, ReadVehiclesStep
  <2>3. CASE PlanAfterPrev(v)
    BY <2>3, PlanAfterPrevStep
  <2>4. CASE IgnoredPlanned(v)
    BY <2>4, IgnoredPlannedStep
  <2>5. CASE OptimalRead(v)
    BY <2>5, OptimalReadStep
  <2>6. CASE WriteSync(v)
    BY <2>6, WriteSyncStep
  <2>7. CASE ReadSync(v)
    BY <2>7, ReadSyncStep
  <2>8. CASE SyncRead(v)
    BY <2>8, SyncReadStep
  <2>9. CASE WriteFca(v)
    BY <2>9, WriteFcaStep
  <2>10. CASE ReadFca(v)
    BY <2>10, ReadFcaStep
  <2>11. CASE RandomPriorities(v)
    BY <2>11, RandomPrioritiesStep
  <2> QED BY <1>2, <2>1, <2>2, <2>3, <2>4, <2>5, <2>6, <2>7, <2>8, <2>9, <2>10, <2>11, NoAuction
             DEF PlannerStep
<1>3. CASE Next
  BY <1>2, <1>3, StopStep DEF Next
<1> QED BY <1>1, <1>3

(* A planner at the beginning of its time step.                            *)
Fresh(prio) ==
  [pc |-> "begin", stage |-> "new", prio_vec |-> prio, old_prio_vec |-> prio,
   new_prio_vec |-> <<>>, active_vehicles |-> {}, own_fca |-> 0, fca |-> Nobody,
   wait |-> {}, received_messages |-> {}, sync_id |-> 1, feasible |-> TRUE,
   plan |-> 0, other_vehicles_buffer |-> Nobody, follows |-> 0, stopFlag |-> FALSE]

LEMMA FreshFields ==
  ASSUME Fleet, NEW prio \in OldOrders, NEW p, p = Fresh(prio)
  PROVE  /\ p \in Planner /\ p.pc = "begin" /\ p.stage = "new"
         /\ p.prio_vec = prio /\ p.old_prio_vec = prio /\ p.plan = 0 /\ p.follows = 0
<1>1. prio \in Order /\ 0 \in Fca /\ 0 \in Plan /\ 1 \in SyncId
  BY DEF Fleet, Plan, SyncId
<1>2. Nobody \in [Vehicle -> Fca] /\ Nobody \in [Vehicle -> Plan]
  BY <1>1 DEF Nobody
<1>3. <<>> \in Seq(Vehicle)
  OBVIOUS
<1> QED BY <1>1, <1>2, <1>3 DEF Fresh, Planner

LEMMA FreshLocal ==
  ASSUME NEW M, NEW G, NEW v, NEW p, p.pc = "begin", p.stage = "new",
         p.prio_vec = p.old_prio_vec, p.plan = 0, p.follows = 0,
         M \in {"id", "random", "vertex_ordering"}
  PROVE  Local(M, G, v, p) /\ Level(p) = 0 /\ RoundLevel(p) = 4
<1>1. Level(p) = 0 /\ RoundLevel(p) = 4
  BY DEF Level, RoundLevel
<1>2. ~Over(p) /\ ~(Level(p) >= 4)
  BY <1>1 DEF Over
<1>3. Control(M, G, p)
  BY <1>2 DEF Control
<1>4. Waits(v, p)
  BY DEF Waits
<1>5. Plannings(p)
  BY <1>2 DEF Plannings
<1> QED BY <1>1, <1>3, <1>4, <1>5 DEF Local

LEMMA FreshPair ==
  ASSUME NEW M, NEW G, NEW v, NEW u, NEW p, NEW q, NEW c, p.pc = "begin", q.pc = "begin",
         Level(p) = 0, Level(q) = 0, RoundLevel(p) = 4, RoundLevel(q) = 4, p.old_prio_vec = q.old_prio_vec,
         \A t \in Topic : Len(c[t]) = 0
  PROVE  Pair(M, G, v, u, p, q, c)
<1>1. \A n \in 1 .. 11 : ~(Level(p) >= n) /\ ~(Level(q) >= n) /\ Level(p) # n /\ Level(q) # n
  OBVIOUS
<1>2. ~Over(p) /\ ~Over(q) /\ ~Planning(p)
  BY DEF Over, Planning
<1>3. Level(q) \notin 7 .. 9
  OBVIOUS
<1>4. Barriers(M, G, p, q)
  BY <1>1, <1>2, <1>3 DEF Barriers
<1>5. Known(M, v, u, p, q)
  BY <1>1, <1>2 DEF Known
<1>6. Len(c["trajectory"]) = 0 /\ Len(c["sync"]) = 0 /\ Len(c["fca"]) = 0
  BY DEF Topic
<1>7. Trajectories(M, v, u, p, q, c["trajectory"]) /\ Outcome(p, q, c["trajectory"])
  BY <1>2, <1>6 DEF Trajectories, Outcome
<1>8. Syncs(u, p, q, c["sync"]) /\ Fcas(u, q, c["fca"])
  BY <1>6 DEF Syncs, Fcas
<1> QED BY <1>4, <1>5, <1>7, <1>8 DEF Pair

LEMMA InitIInv ==
  ASSUME Fleet, Init
  PROVE  IInv
<1>1. mode \in Modes /\ graph_order \in Order
  BY DEF Init
<1>2. mode \in {"id", "random", "vertex_ordering"}
  BY <1>1 DEF Fleet
<1>3. PICK prio \in OldOrders : planner = [v \in Vehicle |-> Fresh(prio)]
  BY Zenon DEF Init, Fresh
<1>4. PICK f : f = Fresh(prio)
  OBVIOUS
<1>5. planner = [v \in Vehicle |-> f]
  BY <1>3, <1>4
<1>6. /\ f \in Planner /\ f.pc = "begin" /\ f.stage = "new"
      /\ f.prio_vec = prio /\ f.old_prio_vec = prio /\ f.plan = 0 /\ f.follows = 0
  BY <1>4, FreshFields
<1>7. channel = [t \in Topic |-> [v \in Vehicle |-> <<>>]]
  BY DEF Init
<1>8. \A t \in Topic : \A v \in Vehicle : channel[t][v] = <<>>
  BY <1>7
<1>9. \A v \in Vehicle : planner[v] = f
  BY <1>5
<1>10. \A v : Local(mode, graph_order, v, f) /\ Level(f) = 0 /\ RoundLevel(f) = 4
  BY <1>2, <1>6, FreshLocal
<1>11. \A S : <<>> \in Seq(S) /\ Len(<<>>) = 0
  OBVIOUS
<1>12. Type
  <2>1. planner \in [Vehicle -> Planner]
    BY <1>5, <1>6
  <2>2. channel \in [Topic -> [Vehicle -> Seq(Message)]]
    BY <1>7, <1>11
  <2>3. \A t \in Topic : \A v \in Vehicle : channel[t][v] \in Seq(MessageOf(t))
    BY <1>8, <1>11
  <2>4. Foreign(channel)
    BY <1>8, <1>11 DEF Foreign, Others
  <2> QED BY <1>1, <2>1, <2>2, <2>3, <2>4 DEF Type
<1>13. \A v \in Vehicle : Local(mode, graph_order, v, planner[v])
  BY <1>9, <1>10
<1>14. Agreement
  <2>1. \A v \in Vehicle : Queue(v, channel["trajectory"][v])
    <3>1. \A v \in Vehicle : Len(channel["trajectory"][v]) = 0
      BY <1>8, <1>11 DEF Topic
    <3> QED BY <3>1 DEF Queue
  <2>2. ASSUME NEW v \in Vehicle, NEW u \in Vehicle \ {v}
        PROVE  Pair(mode, graph_order, v, u, planner[v], planner[u], Mine(channel, v))
    <3>1. \A t \in Topic : Len(Mine(channel, v)[t]) = 0
      BY <1>8, <1>11 DEF Mine
    <3>2. Pair(mode, graph_order, v, u, f, f, Mine(channel, v))
      BY <1>6, <1>10, <3>1, FreshPair
    <3> QED BY <1>9, <3>2
  <2> QED BY <2>1, <2>2 DEF Agreement
<1> QED BY <1>12, <1>13, <1>14 DEF IInv

-----------------------------------------------------------------------------
(* Everybody is done                                                       *)

LEMMA AtTheEnd ==
  ASSUME Fleet, IInv, AllDone, NobodyStopped, NEW v \in Vehicle, NEW u \in Vehicle, u # v,
         NEW p, NEW q, p = planner[v], q = planner[u]
  PROVE  /\ p.follows > 0 <=> q.follows > 0
         /\ p.follows > 0 /\ u \in Prev(v, p) => p.other_vehicles_buffer[u] = q.follows
         /\ u \in Prev(v, p) <=> v \notin Prev(u, q)
<1>1. Two(mode, graph_order, v, u, p, q, Mine(channel, v), Mine(channel, u))
  BY Twos
<1>2. Both(mode, graph_order, v, u, p, q)
  BY <1>1 DEF Two
<1>3. p.pc = "done" /\ q.pc = "done"
  BY DEF AllDone
<1>4. /\ Level(p) = 11 /\ Level(q) = 11
      /\ RoundLevel(p) \in {4, 7, 10} /\ RoundLevel(q) \in {4, 7, 10}
  BY <1>3 DEF Level, RoundLevel
<1>5. /\ Level(p) >= 10 /\ Level(q) >= 10 /\ Level(p) >= 4 /\ Level(q) >= 4
      /\ Over(p) /\ Over(q)
  BY <1>4 DEF Over
<1>6. p.stage = q.stage
  BY <1>2, <1>5 DEF Both, Barriers
<1>7. RoundLevel(p) = RoundLevel(q)
  BY <1>6 DEF RoundLevel
<1>8. Good(p) <=> Good(q)
  BY <1>2, <1>5, <1>7 DEF Both, Barriers
<1>9. (Good(p) <=> p.follows > 0) /\ (Good(q) <=> q.follows > 0)
  BY <1>3 DEF Good
<1>10. ASSUME p.follows > 0, u \in Prev(v, p)
       PROVE  p.other_vehicles_buffer[u] = q.follows
  <2>1. p.other_vehicles_buffer[u] = q.plan
    BY <1>2, <1>5, <1>7, <1>9, <1>10 DEF Both, Known
  <2>2. q.follows > 0 /\ q.follows \in {0, q.plan}
    <3>1. Plannings(q)
      BY <1>2 DEF Both, Local
    <3> QED BY <1>3, <1>8, <1>9, <1>10, <3>1 DEF Plannings
  <2>3. q.follows = q.plan
    BY <2>2
  <2> QED BY <2>1, <2>3
<1>11. u \in Prev(v, p) <=> v \notin Prev(u, q)
  <2>1. /\ mode = "random" /\ p.stage = "new" => (u \in Prev(v, p) <=> Before(u, q, v, p))
        /\ mode = "random" /\ q.stage = "new" => (v \in Prev(u, q) <=> Before(v, p, u, q))
    BY <1>2, <1>5 DEF Both, Known
  <2>2. /\ mode \in {"id", "random", "vertex_ordering"} /\ graph_order \in Order
        /\ p \in Planner /\ q \in Planner
        /\ Local(mode, graph_order, v, p) /\ Local(mode, graph_order, u, q)
        /\ Barriers(mode, graph_order, p, q)
    BY <1>2 DEF Both
  <2> QED BY <1>5, <1>7, <2>1, <2>2, OneBefore
<1> QED BY <1>8, <1>9, <1>10, <1>11

LEMMA Agreed ==
  ASSUME Fleet, IInv
  PROVE  TypeOK /\ AllOrNobody /\ PlannedAgainst /\ PrioritiesAgree
<1>1. TypeOK
  BY DEF IInv, Type, TypeOK
<1>2. ASSUME AllDone, NobodyStopped, NEW v \in Vehicle, NEW u \in Vehicle, u # v
      PROVE  /\ planner[v].follows > 0 <=> planner[u].follows > 0
             /\ planner[v].follows > 0 /\ u \in PrevVehicles(planner[v].prio_vec, v) =>
                  planner[v].other_vehicles_buffer[u] = planner[u].follows
             /\ u \in PrevVehicles(planner[v].prio_vec, v) <=> v \notin PrevVehicles(planner[u].prio_vec, u)
  BY <1>2, AtTheEnd DEF Prev
<1>3. \A v \in Vehicle : planner[v].follows \in Plan /\ planner[v].prio_vec \in Order
  BY DEF IInv, Type, Planner
<1>4. AllOrNobody
  <2>1. SUFFICES ASSUME AllDone, NobodyStopped, NEW v \in Vehicle, ~(planner[v].follows > 0)
                 PROVE  \A u \in Vehicle : planner[u].follows = 0
    BY DEF AllOrNobody
  <2>2. \A u \in Vehicle : ~(planner[u].follows > 0)
    BY <1>2, <2>1
  <2> QED BY <1>3, <2>2 DEF Plan
<1>5. PlannedAgainst
  <2>1. SUFFICES ASSUME AllDone, NobodyStopped, NEW v \in Vehicle, planner[v].follows > 0,
                        NEW u \in PrevVehicles(planner[v].prio_vec, v)
                 PROVE  planner[v].other_vehicles_buffer[u] = planner[u].follows
    BY DEF PlannedAgainst
  <2>2. u \in Vehicle /\ u # v
    BY <1>3, Permuted
  <2> QED BY <1>2, <2>1, <2>2
<1>6. PrioritiesAgree
  BY <1>2 DEF PrioritiesAgree
<1> QED BY <1>1, <1>4, <1>5, <1>6

(* Without an auction, and when the messages of a topic arrive in their    *)
(* order: when all planners have come to the end of the time step, all     *)
(* follow their new plans or none does, each has avoided the trajectories  *)
(* which those before it follow, and of two planners they agree which is   *)
(* first (plan and plan_static_priorities, VehicleTrajectoryPlanner.cpp).  *)
THEOREM PlanningCorrect ==
  ASSUME Fleet
  PROVE  Spec => [](TypeOK /\ AllOrNobody /\ PlannedAgainst /\ PrioritiesAgree)
<1>1. Init => IInv
  BY InitIInv
<1>2. IInv /\ [Next]_vars => IInv'
  BY NextStep
<1>3. IInv => TypeOK /\ AllOrNobody /\ PlannedAgainst /\ PrioritiesAgree
  BY Agreed
<1> QED BY <1>1, <1>2, <1>3, PTL DEF Spec

-----------------------------------------------------------------------------
(* The speeds of the vehicles, with the constants and variables of         *)
(* SpeedPlanning.                                                          *)
CONSTANTS
  N, n_steps, delta_v_step, min_speed, max_speed, Reduction, Margin, StepBack, Cutoff,
  Orders, Maps, Steps

VARIABLES
  conflicts, stage, waiting, speed_profile, old_speed_profile, way, last, steps

Speeds == INSTANCE SpeedPlanning

(* min_speed and the constructor's assertions; the 8 of set_speed has to be *)
(* the number of steps in a time step, and a profile goes beyond it.       *)
Parameters ==
  /\ N \in Nat /\ n_steps \in 1 .. N - 1
  /\ delta_v_step \in Nat /\ max_speed \in Nat /\ min_speed = 0
  /\ Reduction \in Nat /\ Margin \in Nat /\ StepBack \in Nat
  /\ Cutoff = n_steps

(* What is kept of a single profile.                                       *)
Drivable(p) ==
  /\ p \in Speeds!Profile /\ Speeds!Smooth(p)
  /\ \A i \in Speeds!Index : p[i] <= max_speed /\ p[i] <= Speeds!Gain(N - 1 - i)

SameStart(p, q) == \A i \in 0 .. n_steps - 1 : p[i] = q[i]

(* The inductive invariant.  The plan to go back to is drivable as well,   *)
(* and while planning it begins like the plan that is changed.             *)
SpeedInv ==
  /\ speed_profile \in [Vehicle -> Speeds!Profile] /\ old_speed_profile \in [Vehicle -> Speeds!Profile]
  /\ \A v \in Vehicle :
       /\ Drivable(speed_profile[v]) /\ Drivable(old_speed_profile[v])
       /\ stage # "begin" => SameStart(speed_profile[v], old_speed_profile[v])
       /\ stage = "begin" => /\ last[v] \in Nat
                             /\ Speeds!Distance(last[v], speed_profile[v][0]) <= delta_v_step

-----------------------------------------------------------------------------
(* The speed gained grows by delta_v_step a step.                          *)
LEMMA GainGrows ==
  ASSUME delta_v_step \in Nat
  PROVE  /\ Speeds!Gain(0) = 0 /\ Speeds!Gain(1) = delta_v_step
         /\ \A k \in Nat : Speeds!Gain(k) \in Nat /\ Speeds!Gain(k + 1) = Speeds!Gain(k) + delta_v_step
         /\ \A k, l \in Nat : k <= l => Speeds!Gain(k) <= Speeds!Gain(l)
<1>1. Speeds!Gain(0) = 0 /\ Speeds!Gain(1) = delta_v_step
  BY DEF Speeds!Gain
<1>2. \A k \in Nat : Speeds!Gain(k) \in Nat /\ Speeds!Gain(k + 1) = Speeds!Gain(k) + delta_v_step
  BY DEF Speeds!Gain
<1>3. ASSUME NEW k \in Nat, NEW l \in Nat, k <= l
      PROVE  Speeds!Gain(k) <= Speeds!Gain(l)
  <2>1. l * delta_v_step = k * delta_v_step + (l - k) * delta_v_step
    OBVIOUS
  <2>2. (l - k) * delta_v_step >= 0
    BY <1>3
  <2> QED BY <2>1, <2>2 DEF Speeds!Gain
<1> QED BY <1>1, <1>2, <1>3

(* The lower of two smooth profiles is smooth.                             *)
LEMMA LowerSmooth ==
  ASSUME Parameters, NEW p, NEW q, NEW r,
         \A i \in Speeds!Index : p[i] \in Nat /\ q[i] \in Nat /\ r[i] = Speeds!Lower(p[i], q[i]),
         Speeds!Smooth(p), Speeds!Smooth(q)
  PROVE  Speeds!Smooth(r)
BY DEF Speeds!Smooth, Speeds!Lower, Speeds!Index, Parameters

(* reset_speed_profile keeps the current time step and a profile that can  *)
(* be driven.                                                              *)
LEMMA ResetDrivable ==
  ASSUME Parameters, NEW p, Drivable(p)
  PROVE  Drivable(Speeds!ResetSpeedProfile(p)) /\ SameStart(Speeds!ResetSpeedProfile(p), p)
<1> DEFINE Rise == [i \in Speeds!Index |->
                      IF i < n_steps THEN p[i]
                      ELSE Speeds!Lower(p[n_steps - 1] + Speeds!Gain(i - n_steps + 1), max_speed)]
           Fall == [i \in Speeds!Index |-> Speeds!Gain(N - 1 - i)]
           r == Speeds!ResetSpeedProfile(p)
<1>1. /\ n_steps - 1 \in Speeds!Index /\ delta_v_step \in Nat /\ max_speed \in Nat
      /\ N \in Nat /\ n_steps \in Nat
  BY DEF Parameters, Speeds!Index
<1>2. \A i \in Speeds!Index : p[i] \in Nat /\ p[i] <= max_speed /\ p[i] <= Speeds!Gain(N - 1 - i)
  BY DEF Drivable, Speeds!Profile
<1>9. \A i \in Speeds!Index :
        /\ i < n_steps => Rise[i] = p[i]
        /\ i >= n_steps => Rise[i] = Speeds!Lower(p[n_steps - 1] + Speeds!Gain(i - n_steps + 1), max_speed)
  BY <1>1 DEF Speeds!Index
<1>3. \A i \in Speeds!Index : /\ Rise[i] \in Nat /\ Rise[i] <= max_speed
                              /\ Fall[i] \in Nat
                              /\ r[i] = Speeds!Lower(Rise[i], Fall[i])
  <2>1. ASSUME NEW i \in Speeds!Index
        PROVE  /\ N - 1 - i \in Nat /\ Speeds!Gain(N - 1 - i) \in Nat
               /\ i >= n_steps => i - n_steps + 1 \in Nat /\ Speeds!Gain(i - n_steps + 1) \in Nat
    <3>1. N - 1 - i \in Nat /\ (i >= n_steps => i - n_steps + 1 \in Nat)
      BY <1>1 DEF Speeds!Index
    <3> QED BY <3>1, <1>1, GainGrows
  <2>2. ASSUME NEW i \in Speeds!Index
        PROVE  Rise[i] \in Nat /\ Rise[i] <= max_speed
    <3> HIDE DEF Rise
    <3>1. CASE i < n_steps
      BY <3>1, <1>2, <1>9
    <3>2. CASE i >= n_steps
      <4>1. Rise[i] = Speeds!Lower(p[n_steps - 1] + Speeds!Gain(i - n_steps + 1), max_speed)
        BY <3>2, <1>9
      <4>2. p[n_steps - 1] \in Nat /\ Speeds!Gain(i - n_steps + 1) \in Nat
        BY <3>2, <1>1, <1>2, <2>1
      <4> QED BY <4>1, <4>2, <1>1 DEF Speeds!Lower
    <3> QED BY <3>1, <3>2, <1>1 DEF Speeds!Index
  <2>3. \A i \in Speeds!Index : r[i] = Speeds!Lower(Rise[i], Fall[i])
    BY DEF Speeds!ResetSpeedProfile
  <2> QED BY <2>1, <2>2, <2>3
<1> HIDE DEF Fall, r
<1> HIDE DEF Rise
<1>4. Speeds!Smooth(Rise)
  <2> SUFFICES ASSUME NEW i \in 0 .. N - 2, NEW j \in Speeds!Index, j = i + 1
               PROVE  Rise[j] <= Rise[i] + delta_v_step /\ Rise[i] <= Rise[j] + delta_v_step
    BY <1>1 DEF Speeds!Smooth, Speeds!Index
  <2>1. i \in Speeds!Index /\ i \in Int /\ j \in Int
    BY <1>1 DEF Speeds!Index
  <2>2. CASE j < n_steps
    <3>1. Rise[j] = p[i + 1] /\ Rise[i] = p[i]
      BY <2>1, <2>2, <1>1, <1>9
    <3> QED BY <3>1 DEF Drivable, Speeds!Smooth
  <2>3. CASE j = n_steps
    <3>1. i = n_steps - 1 /\ i < n_steps /\ j - n_steps + 1 = 1
      BY <2>1, <2>3, <1>1
    <3>2. /\ Rise[i] = p[n_steps - 1]
          /\ Rise[j] = Speeds!Lower(p[n_steps - 1] + Speeds!Gain(j - n_steps + 1), max_speed)
      BY <3>1, <2>1, <2>3, <1>1, <1>9
    <3>3. Speeds!Gain(j - n_steps + 1) = delta_v_step
      BY <3>1, <1>1, GainGrows
    <3> QED BY <3>2, <3>3, <1>1, <1>2 DEF Speeds!Lower
  <2>4. CASE j > n_steps
    <3>1. i - n_steps + 1 \in Nat /\ i >= n_steps /\ j >= n_steps /\ j - n_steps + 1 = (i - n_steps + 1) + 1
      BY <2>1, <2>4, <1>1
    <3>2. /\ Rise[i] = Speeds!Lower(p[n_steps - 1] + Speeds!Gain(i - n_steps + 1), max_speed)
          /\ Rise[j] = Speeds!Lower(p[n_steps - 1] + Speeds!Gain(j - n_steps + 1), max_speed)
      BY <3>1, <2>1, <1>9
    <3>3. /\ Speeds!Gain(i - n_steps + 1) \in Nat
          /\ Speeds!Gain(j - n_steps + 1) = Speeds!Gain(i - n_steps + 1) + delta_v_step
      BY <3>1, <1>1, GainGrows
    <3> QED BY <3>2, <3>3, <1>1, <1>2 DEF Speeds!Lower
  <2> QED BY <2>1, <2>2, <2>3, <2>4, <1>1
<1>5. Speeds!Smooth(Fall)
  <2> SUFFICES ASSUME NEW i \in 0 .. N - 2
               PROVE  Fall[i + 1] <= Fall[i] + delta_v_step /\ Fall[i] <= Fall[i + 1] + delta_v_step
    BY DEF Speeds!Smooth
  <2> DEFINE k == N - 1 - (i + 1)
  <2>1. /\ i \in Speeds!Index /\ i + 1 \in Speeds!Index /\ k \in Nat /\ N - 1 - i = k + 1
    BY <1>1 DEF Speeds!Index
  <2>2. Fall[i] = Speeds!Gain(k + 1) /\ Fall[i + 1] = Speeds!Gain(k)
    BY <2>1 DEF Fall
  <2>3. Speeds!Gain(k) \in Nat /\ Speeds!Gain(k + 1) = Speeds!Gain(k) + delta_v_step
    BY <2>1, <1>1, GainGrows
  <2> HIDE DEF k
  <2> QED BY <2>2, <2>3, <1>1
<1>6. Speeds!Smooth(r)
  BY <1>3, <1>4, <1>5, LowerSmooth
<1>7. r \in Speeds!Profile /\ \A i \in Speeds!Index : r[i] <= max_speed /\ r[i] <= Speeds!Gain(N - 1 - i)
  <2>1. r = [i \in Speeds!Index |-> r[i]]
    BY DEF r, Speeds!ResetSpeedProfile
  <2>2. \A i \in Speeds!Index : r[i] \in Nat /\ r[i] <= max_speed /\ r[i] <= Fall[i]
    BY <1>1, <1>3 DEF Speeds!Lower
  <2>3. \A i \in Speeds!Index : Fall[i] = Speeds!Gain(N - 1 - i)
    BY DEF Fall
  <2> QED BY <2>1, <2>2, <2>3 DEF Speeds!Profile
<1>8. SameStart(r, p)
  <2> SUFFICES ASSUME NEW i \in 0 .. n_steps - 1
               PROVE  r[i] = p[i]
    BY DEF SameStart
  <2>1. i \in Speeds!Index /\ i < n_steps
    BY DEF Speeds!Index, Parameters
  <2>2. Fall[i] = Speeds!Gain(N - 1 - i)
    BY <2>1 DEF Fall
  <2>3. r[i] = Speeds!Lower(p[i], Fall[i]) /\ p[i] <= Fall[i] /\ p[i] \in Nat /\ Fall[i] \in Nat
    BY <2>1, <2>2, <1>2, <1>3, <1>9
  <2> QED BY <2>3 DEF Speeds!Lower
<1> QED BY <1>6, <1>7, <1>8 DEF Drivable, r

(* The next time step begins within the acceleration of the last one.      *)
LEMMA ShiftDrivable ==
  ASSUME Parameters, NEW p, Drivable(p)
  PROVE  /\ Drivable(Speeds!Shift(p))
         /\ p[n_steps - 1] \in Nat /\ Speeds!Distance(p[n_steps - 1], Speeds!Shift(p)[0]) <= delta_v_step
<1> DEFINE r == Speeds!Shift(p)
<1>1. /\ n_steps - 1 \in Speeds!Index /\ n_steps \in Speeds!Index /\ 0 \in Speeds!Index
      /\ delta_v_step \in Nat
      /\ N \in Nat /\ n_steps \in Nat /\ n_steps > 0 /\ min_speed = 0 /\ max_speed \in Nat
  BY DEF Parameters, Speeds!Index
<1>2. \A i \in Speeds!Index : p[i] \in Nat /\ p[i] <= max_speed /\ p[i] <= Speeds!Gain(N - 1 - i)
  BY DEF Drivable, Speeds!Profile
<1>3. \A i \in Speeds!Index : /\ i + n_steps < N => i + n_steps \in Speeds!Index /\ r[i] = p[i + n_steps]
                              /\ ~(i + n_steps < N) => r[i] = 0
  BY <1>1 DEF Speeds!Shift, Speeds!Index
<1>4. p[N - 1] = 0
  <2>1. N - 1 \in Speeds!Index /\ N - 1 - (N - 1) = 0
    BY <1>1 DEF Speeds!Index
  <2>2. p[N - 1] \in Nat /\ p[N - 1] <= Speeds!Gain(0)
    BY <2>1, <1>2
  <2>3. Speeds!Gain(0) = 0
    BY <1>1, GainGrows
  <2> QED BY <2>2, <2>3
<1>5. \A i \in Speeds!Index : r[i] \in Nat /\ r[i] <= max_speed /\ r[i] <= Speeds!Gain(N - 1 - i)
  <2> SUFFICES ASSUME NEW i \in Speeds!Index
               PROVE  r[i] \in Nat /\ r[i] <= max_speed /\ r[i] <= Speeds!Gain(N - 1 - i)
    OBVIOUS
  <2>1. N - 1 - i \in Nat /\ Speeds!Gain(N - 1 - i) \in Nat
    <3>1. N - 1 - i \in Nat
      BY <1>1 DEF Speeds!Index
    <3> QED BY <3>1, <1>1, GainGrows
  <2>2. CASE i + n_steps < N
    <3>1. N - 1 - (i + n_steps) \in Nat /\ N - 1 - (i + n_steps) <= N - 1 - i
      BY <2>2, <1>1 DEF Speeds!Index
    <3>2. /\ Speeds!Gain(N - 1 - (i + n_steps)) <= Speeds!Gain(N - 1 - i)
          /\ Speeds!Gain(N - 1 - (i + n_steps)) \in Nat
      BY <3>1, <2>1, <1>1, GainGrows
    <3>3. r[i] \in Nat /\ r[i] <= max_speed /\ r[i] <= Speeds!Gain(N - 1 - (i + n_steps))
      BY <2>2, <1>2, <1>3
    <3> HIDE DEF r
    <3> QED BY <3>2, <3>3, <2>1
  <2>3. CASE ~(i + n_steps < N)
    <3>1. r[i] = 0
      BY <2>3, <1>3
    <3> HIDE DEF r
    <3> QED BY <3>1, <2>1, <1>1
  <2> QED BY <2>2, <2>3
<1>6. Speeds!Smooth(r)
  <2> SUFFICES ASSUME NEW i \in 0 .. N - 2
               PROVE  r[i + 1] <= r[i] + delta_v_step /\ r[i] <= r[i + 1] + delta_v_step
    BY DEF Speeds!Smooth
  <2>1. i \in Speeds!Index /\ i + 1 \in Speeds!Index /\ i \in Int
    BY <1>1 DEF Speeds!Index
  <2>2. CASE i + 1 + n_steps < N
    <3>1. /\ r[i] = p[i + n_steps] /\ r[i + 1] = p[(i + n_steps) + 1]
          /\ i + n_steps \in 0 .. N - 2
      BY <2>1, <2>2, <1>1, <1>3
    <3> HIDE DEF r
    <3> QED BY <3>1 DEF Drivable, Speeds!Smooth
  <2>3. CASE ~(i + 1 + n_steps < N)
    <3>1. r[i + 1] = 0 /\ r[i] = 0
      <4>1. r[i + 1] = 0
        BY <2>1, <2>3, <1>3
      <4>2. CASE i + n_steps < N
        <5>1. i + n_steps = N - 1
          BY <4>2, <2>1, <2>3, <1>1
        <5> QED BY <4>1, <4>2, <5>1, <2>1, <1>3, <1>4
      <4>3. CASE ~(i + n_steps < N)
        BY <4>1, <4>3, <2>1, <1>3
      <4> QED BY <4>2, <4>3
    <3> HIDE DEF r
    <3> QED BY <3>1, <1>1
  <2> QED BY <2>2, <2>3
<1>7. r \in Speeds!Profile
  <2>1. r = [i \in Speeds!Index |-> r[i]]
    BY DEF Speeds!Shift
  <2> HIDE DEF r
  <2> QED BY <2>1, <1>5 DEF Speeds!Profile
<1>8. p[n_steps - 1] \in Nat /\ Speeds!Distance(p[n_steps - 1], r[0]) <= delta_v_step
  <2>1. r[0] = p[n_steps]
    BY <1>1, <1>3 DEF Parameters
  <2>2. /\ p[n_steps] <= p[n_steps - 1] + delta_v_step
        /\ p[n_steps - 1] <= p[n_steps] + delta_v_step
    <3>1. n_steps - 1 \in 0 .. N - 2 /\ (n_steps - 1) + 1 = n_steps
      BY DEF Parameters
    <3> QED BY <3>1 DEF Drivable, Speeds!Smooth
  <2> HIDE DEF r
  <2> QED BY <2>1, <2>2, <1>1, <1>2 DEF Speeds!Distance
<1> QED BY <1>5, <1>6, <1>7, <1>8 DEF Drivable

(* set_speed where the vehicle could already stand: it neither changes the *)
(* current time step nor asks for more than the acceleration.              *)
LEMMA SetSpeedDrivable ==
  ASSUME Parameters, NEW p, Drivable(p), NEW first \in Speeds!MinIndexZeroSpeed(p),
         NEW index \in Speeds!Index, index >= first
  PROVE  /\ Drivable(Speeds!SetSpeed(p, index, Speeds!Reduced(p, index)))
         /\ SameStart(Speeds!SetSpeed(p, index, Speeds!Reduced(p, index)), p)
<1> DEFINE s == Speeds!Reduced(p, index)
           tent == [i \in Speeds!Index |-> Speeds!Tent(index, s, i)]
           r == Speeds!SetSpeed(p, index, s)
<1>1. /\ n_steps - 1 \in Speeds!Index /\ delta_v_step \in Nat /\ max_speed \in Nat
      /\ N \in Nat /\ n_steps \in Nat /\ n_steps > 0 /\ index \in Nat
  BY DEF Parameters, Speeds!Index
<1>2. \A i \in Speeds!Index : p[i] \in Nat /\ p[i] <= max_speed /\ p[i] <= Speeds!Gain(N - 1 - i)
  BY DEF Drivable, Speeds!Profile
<1>3. /\ first \in Speeds!Index /\ first \in Nat /\ first >= n_steps
      /\ Speeds!Gain(first - n_steps + 1) >= p[n_steps - 1]
  BY <1>1 DEF Speeds!MinIndexZeroSpeed, Speeds!Index
<1>4. s \in Nat /\ s <= p[index]
  BY <1>2 DEF Speeds!Reduced, Parameters
<1> HIDE DEF s
<1>5. \A i \in Speeds!Index :
        Speeds!Distance(i, index) \in Nat /\ Speeds!Gain(Speeds!Distance(i, index)) \in Nat
  <2>1. \A i \in Speeds!Index : Speeds!Distance(i, index) \in Nat
    BY <1>1 DEF Speeds!Distance, Speeds!Index
  <2> QED BY <2>1, <1>1, GainGrows
<1>6. \A i \in Speeds!Index : tent[i] = s + Speeds!Gain(Speeds!Distance(i, index)) /\ tent[i] \in Nat
  BY <1>4, <1>5 DEF Speeds!Tent
<1> HIDE DEF tent
<1>7. Speeds!Smooth(tent)
  <2> SUFFICES ASSUME NEW i \in 0 .. N - 2, NEW j \in Speeds!Index, j = i + 1
               PROVE  tent[j] <= tent[i] + delta_v_step /\ tent[i] <= tent[j] + delta_v_step
    BY <1>1 DEF Speeds!Smooth, Speeds!Index
  <2>1. i \in Speeds!Index /\ i \in Int /\ j \in Int
    BY <1>1 DEF Speeds!Index
  <2>2. /\ Speeds!Distance(i, index) \in Nat /\ Speeds!Distance(j, index) \in Nat
        /\ \/ Speeds!Distance(j, index) = Speeds!Distance(i, index) + 1
           \/ Speeds!Distance(i, index) = Speeds!Distance(j, index) + 1
    BY <2>1, <1>1, <1>5 DEF Speeds!Distance
  <2>3. /\ Speeds!Gain(Speeds!Distance(i, index)) \in Nat /\ Speeds!Gain(Speeds!Distance(j, index)) \in Nat
        /\ \/ Speeds!Gain(Speeds!Distance(j, index)) = Speeds!Gain(Speeds!Distance(i, index)) + delta_v_step
           \/ Speeds!Gain(Speeds!Distance(i, index)) = Speeds!Gain(Speeds!Distance(j, index)) + delta_v_step
    BY <2>2, <1>1, GainGrows
  <2> QED BY <2>1, <2>3, <1>1, <1>4, <1>6
<1>8. \A i \in Speeds!Index : /\ i >= n_steps => r[i] = Speeds!Lower(tent[i], p[i])
                              /\ i < n_steps => r[i] = p[i]
  <2>1. Speeds!Distance(index, index) = 0 /\ Speeds!Gain(0) = 0
    BY <1>1, GainGrows DEF Speeds!Distance
  <2>2. tent[index] = s
    <3>1. tent[index] = s + Speeds!Gain(Speeds!Distance(index, index))
      BY <1>6
    <3> QED BY <3>1, <2>1, <1>4
  <2>3. r[index] = s /\ s = Speeds!Lower(tent[index], p[index]) /\ index >= n_steps
    BY <2>2, <1>1, <1>2, <1>3, <1>4 DEF Speeds!SetSpeed, Speeds!Lower
  <2>4. \A i \in Speeds!Index :
          i # index => r[i] = IF i > index \/ i >= Cutoff THEN Speeds!Lower(tent[i], p[i]) ELSE p[i]
    BY DEF Speeds!SetSpeed, tent
  <2>5. Cutoff = n_steps
    BY DEF Parameters
  <2> HIDE DEF r
  <2> QED BY <2>3, <2>4, <2>5, <1>1 DEF Speeds!Index
<1>9. r = [i \in Speeds!Index |-> r[i]]
  BY DEF Speeds!SetSpeed
<1> HIDE DEF r
<1>10. \A i \in Speeds!Index : r[i] \in Nat /\ r[i] <= p[i]
  BY <1>1, <1>2, <1>6, <1>8 DEF Speeds!Lower, Speeds!Index
<1>11. Speeds!Smooth(r)
  <2> SUFFICES ASSUME NEW i \in 0 .. N - 2, NEW j \in Speeds!Index, j = i + 1
               PROVE  r[j] <= r[i] + delta_v_step /\ r[i] <= r[j] + delta_v_step
    BY <1>1 DEF Speeds!Smooth, Speeds!Index
  <2>1. /\ i \in Speeds!Index /\ i \in Int /\ j \in Int
        /\ p[j] <= p[i] + delta_v_step /\ p[i] <= p[j] + delta_v_step
        /\ tent[j] <= tent[i] + delta_v_step /\ tent[i] <= tent[j] + delta_v_step
    BY <1>1, <1>7 DEF Speeds!Index, Speeds!Smooth, Drivable
  <2>2. CASE j < n_steps
    <3>1. r[j] = p[j] /\ r[i] = p[i]
      BY <2>1, <2>2, <1>1, <1>8
    <3> QED BY <3>1, <2>1
  <2>3. CASE j = n_steps
    <3>1. i = n_steps - 1 /\ r[i] = p[i] /\ r[j] = Speeds!Lower(tent[j], p[j])
      BY <2>1, <2>3, <1>1, <1>8
    <3>2. tent[j] + delta_v_step >= p[i]
      <4> DEFINE k == first - n_steps
      <4>1. k \in Nat /\ first - n_steps + 1 = k + 1 /\ Speeds!Distance(j, index) >= k
            /\ Speeds!Distance(j, index) \in Nat
        BY <2>1, <2>3, <1>1, <1>3, <1>5 DEF Speeds!Distance
      <4>2. Speeds!Gain(k) \in Nat /\ Speeds!Gain(k) <= Speeds!Gain(Speeds!Distance(j, index))
            /\ Speeds!Gain(first - n_steps + 1) = Speeds!Gain(k) + delta_v_step
        <5> HIDE DEF k
        <5> QED BY <4>1, <1>1, GainGrows
      <4>3. p[i] <= Speeds!Gain(first - n_steps + 1)
        BY <3>1, <1>3
      <4> QED BY <4>2, <4>3, <1>1, <1>2, <1>4, <1>5, <1>6, <2>1
    <3> QED BY <3>1, <3>2, <2>1, <1>1, <1>2, <1>6 DEF Speeds!Lower
  <2>4. CASE j > n_steps
    <3>1. r[j] = Speeds!Lower(tent[j], p[j]) /\ r[i] = Speeds!Lower(tent[i], p[i])
      BY <2>1, <2>4, <1>1, <1>8
    <3> QED BY <3>1, <2>1, <1>1, <1>2, <1>6 DEF Speeds!Lower
  <2> QED BY <2>1, <2>2, <2>3, <2>4, <1>1
<1>12. \A i \in Speeds!Index : r[i] \in Nat /\ r[i] <= max_speed /\ r[i] <= Speeds!Gain(N - 1 - i)
  <2>1. \A i \in Speeds!Index : Speeds!Gain(N - 1 - i) \in Nat
    <3>1. \A i \in Speeds!Index : N - 1 - i \in Nat
      BY <1>1 DEF Speeds!Index
    <3> QED BY <3>1, <1>1, GainGrows
  <2> QED BY <2>1, <1>1, <1>2, <1>10
<1>13. SameStart(r, p)
  BY <1>1, <1>8 DEF SameStart, Speeds!Index
<1> QED BY <1>9, <1>11, <1>12, <1>13 DEF Drivable, Speeds!Profile, r, s

-----------------------------------------------------------------------------
LEMMA Initially ==
  ASSUME Parameters
  PROVE  Speeds!Init => SpeedInv
<1> SUFFICES ASSUME Speeds!Init PROVE SpeedInv
  OBVIOUS
<1> DEFINE rest == [i \in Speeds!Index |-> 0]
<1>1. /\ N \in Nat /\ delta_v_step \in Nat /\ max_speed \in Nat /\ 0 \in Speeds!Index
  BY DEF Parameters, Speeds!Index
<1>2. Drivable(rest)
  <2>1. \A i \in Speeds!Index : N - 1 - i \in Nat
    BY <1>1 DEF Speeds!Index
  <2>2. \A i \in Speeds!Index : Speeds!Gain(N - 1 - i) \in Nat
    BY <2>1, <1>1, GainGrows
  <2>3. \A i \in Speeds!Index : rest[i] <= max_speed /\ rest[i] <= Speeds!Gain(N - 1 - i)
    BY <2>2, <1>1
  <2>4. Speeds!Smooth(rest)
    BY <1>1 DEF Speeds!Smooth, Speeds!Index
  <2>5. rest \in Speeds!Profile
    BY DEF Speeds!Profile
  <2> HIDE DEF rest
  <2> QED BY <2>3, <2>4, <2>5 DEF Drivable
<1>3. /\ speed_profile = [v \in Vehicle |-> rest] /\ old_speed_profile = speed_profile
      /\ stage = "begin" /\ last = [v \in Vehicle |-> 0] /\ rest[0] = 0
  BY <1>1 DEF Speeds!Init
<1> HIDE DEF rest
<1> QED BY <1>1, <1>2, <1>3 DEF SpeedInv, Drivable, Speeds!Distance

(* The plans of all are changed by an operator that keeps them drivable.   *)
LEMMA Preserved ==
  ASSUME Parameters
  PROVE  SpeedInv /\ [Speeds!Next]_(Speeds!vars) => SpeedInv'
<1> SUFFICES ASSUME SpeedInv, [Speeds!Next]_(Speeds!vars) PROVE SpeedInv'
  OBVIOUS
<1>1. /\ speed_profile \in [Vehicle -> Speeds!Profile] /\ old_speed_profile \in [Vehicle -> Speeds!Profile]
      /\ \A v \in Vehicle : Drivable(speed_profile[v]) /\ Drivable(old_speed_profile[v])
  BY DEF SpeedInv
<1>2. CASE Speeds!Begin
  <2>1. /\ stage' # "begin" /\ old_speed_profile' = speed_profile
        /\ speed_profile' = [v \in Vehicle |-> Speeds!ResetSpeedProfile(speed_profile[v])]
    BY <1>2 DEF Speeds!Begin, Speeds!Everybody
  <2>2. \A v \in Vehicle : /\ Drivable(Speeds!ResetSpeedProfile(speed_profile[v]))
                           /\ SameStart(Speeds!ResetSpeedProfile(speed_profile[v]), speed_profile[v])
    BY <1>1, ResetDrivable
  <2> QED BY <1>1, <2>1, <2>2 DEF SpeedInv, Drivable
<1>3. CASE Speeds!AvoidCollisions
  <2>1. stage # "begin" /\ \A v \in Vehicle : SameStart(speed_profile[v], old_speed_profile[v])
    BY <1>3 DEF Speeds!AvoidCollisions, SpeedInv
  <2>2. CASE Speeds!CollisionFree
    BY <1>1, <2>1, <2>2 DEF Speeds!CollisionFree, SpeedInv
  <2>3. CASE Speeds!Infeasible
    <3>1. old_speed_profile' = old_speed_profile /\ stage' # "begin"
      BY <2>3 DEF Speeds!Infeasible
    <3>2. CASE speed_profile' = [v \in Vehicle |-> Speeds!ResetSpeedProfile(speed_profile[v])]
      <4>1. \A v \in Vehicle : /\ Drivable(Speeds!ResetSpeedProfile(speed_profile[v]))
                               /\ SameStart(Speeds!ResetSpeedProfile(speed_profile[v]), speed_profile[v])
        BY <1>1, ResetDrivable
      <4>2. \A v \in Vehicle : SameStart(Speeds!ResetSpeedProfile(speed_profile[v]), old_speed_profile[v])
        BY <2>1, <4>1 DEF SameStart
      <4> QED BY <1>1, <3>1, <3>2, <4>1, <4>2 DEF SpeedInv, Drivable
    <3>3. CASE speed_profile' = old_speed_profile
      BY <1>1, <3>1, <3>3 DEF SpeedInv, SameStart
    <3> QED BY <2>3, <3>2, <3>3 DEF Speeds!Infeasible, Speeds!Everybody, Speeds!RevertSpeedProfile
  <2>4. ASSUME NEW v, NEW collision \in Speeds!Index, NEW first \in Speeds!MinIndexZeroSpeed(speed_profile[v]),
               NEW index \in Speeds!SlowDownAt(speed_profile[v], collision, first),
               index >= first, Speeds!SlowDown(v, index), v \in Vehicle
        PROVE  SpeedInv'
    <3> DEFINE q == Speeds!SetSpeed(speed_profile[v], index, Speeds!Reduced(speed_profile[v], index))
    <3>1. first \in Speeds!Index
      BY DEF Speeds!MinIndexZeroSpeed, Speeds!Index, Parameters
    <3>2. index \in Speeds!Index
      <4>1. PICK back \in Speeds!BackFrom(speed_profile[v], collision, first) : index = back \/ index = first
        BY DEF Speeds!SlowDownAt
      <4>2. PICK k \in 1 .. N : back = collision - k * StepBack
        BY DEF Speeds!BackFrom
      <4>3. k * StepBack \in Nat
        <5>1. k \in Nat /\ StepBack \in Nat
          BY DEF Parameters
        <5> QED BY <5>1
      <4> HIDE DEF q
      <4> QED BY <2>4, <3>1, <4>1, <4>2, <4>3 DEF Speeds!Index, Parameters
    <3>3. Drivable(q) /\ SameStart(q, speed_profile[v])
      BY <1>1, <2>4, <3>2, SetSpeedDrivable
    <3>4. /\ speed_profile' = [speed_profile EXCEPT ![v] = q]
          /\ old_speed_profile' = old_speed_profile /\ stage' = stage
      BY <2>4 DEF Speeds!SlowDown
    <3>5. SameStart(q, old_speed_profile[v])
      BY <2>1, <2>4, <3>3 DEF SameStart
    <3> HIDE DEF q
    <3> QED BY <1>1, <2>1, <3>3, <3>4, <3>5 DEF SpeedInv, Drivable
  <2>5. ASSUME NEW v, NEW index, Speeds!SlowDown(v, index), v \notin Vehicle
        PROVE  SpeedInv'
    <3>1. speed_profile' = speed_profile /\ old_speed_profile' = old_speed_profile /\ stage' = stage
      BY <1>1, <2>5 DEF Speeds!SlowDown
    <3> QED BY <1>1, <2>1, <3>1 DEF SpeedInv
  <2> DEFINE w == Head(waiting)
  <2>6. Speeds!Met(w) \subseteq Speeds!Index
    BY DEF Speeds!Met, Speeds!Collisions
  <2> HIDE DEF w
  <2>7. \/ Speeds!CollisionFree
        \/ Speeds!Infeasible
        \/ \E collision \in Speeds!Met(w), first \in Speeds!MinIndexZeroSpeed(speed_profile[w]) :
             \E index \in Speeds!SlowDownAt(speed_profile[w], collision, first) :
                index >= first /\ Speeds!SlowDown(w, index)
    BY <1>3 DEF Speeds!AvoidCollisions, w
  <2> QED BY <2>2, <2>3, <2>4, <2>5, <2>6, <2>7
<1>4. CASE Speeds!Drive
  <2>1. /\ stage' = "begin" /\ old_speed_profile' = old_speed_profile
        /\ last' = [v \in Vehicle |-> speed_profile[v][n_steps - 1]]
        /\ speed_profile' = [v \in Vehicle |-> Speeds!Shift(speed_profile[v])]
    BY <1>4 DEF Speeds!Drive, Speeds!Everybody
  <2>2. \A v \in Vehicle :
          /\ Drivable(Speeds!Shift(speed_profile[v])) /\ speed_profile[v][n_steps - 1] \in Nat
          /\ Speeds!Distance(speed_profile[v][n_steps - 1], Speeds!Shift(speed_profile[v])[0]) <= delta_v_step
    BY <1>1, ShiftDrivable
  <2> QED BY <1>1, <2>1, <2>2 DEF SpeedInv, Drivable
<1>5. CASE UNCHANGED Speeds!vars
  BY <1>5 DEF Speeds!vars, SpeedInv
<1> QED BY <1>2, <1>3, <1>4, <1>5 DEF Speeds!Next, Speeds!ApplyTimestep, Speeds!CatchUp

(* Whatever is planned, changed and given up, and however many time steps  *)
(* are missed: the current time step is not changed                        *)
(* (VehicleTrajectoryPlanningState.cpp:386), every plan ends with a full   *)
(* stop (107), and neither a plan nor the change from one to the next asks *)
(* for more than the acceleration (401).                                   *)
THEOREM PlansDrivable ==
  ASSUME Parameters
  PROVE  Speeds!Spec => [](Speeds!CurrentStepKept /\ Speeds!EndsStopped /\ Speeds!AlwaysSmooth)
<1>1. Speeds!Init => SpeedInv
  BY Initially
<1>2. SpeedInv /\ [Speeds!Next]_(Speeds!vars) => SpeedInv'
  BY Preserved
<1>3. SpeedInv => Speeds!CurrentStepKept /\ Speeds!EndsStopped /\ Speeds!AlwaysSmooth
  BY DEF SpeedInv, Speeds!CurrentStepKept, Speeds!EndsStopped, Speeds!AlwaysSmooth, Drivable, SameStart
<1> QED BY <1>1, <1>2, <1>3, PTL DEF Speeds!Spec

-----------------------------------------------------------------------------
(* Nobody meets                                                            *)

(* All plan, in some order; a map says of both vehicles the same, and at   *)
(* the beginning they are apart.                                           *)
Roads ==
  /\ Orders \subseteq Seq(Vehicle) /\ Steps \in Nat
  /\ \A order \in Orders : order # <<>> /\ \A v \in Vehicle : \E i \in DOMAIN order : order[i] = v
  /\ \A m \in DOMAIN Maps : \A u, v \in Vehicle : u # v =>
       /\ <<0, 0>> \notin Maps[m][<<u, v>>]
       /\ \A place \in Maps[m][<<u, v>>] : <<place[2], place[1]>> \in Maps[m][<<v, u>>]

(* The places on a path: it is a sum over the speeds, so that each of the  *)
(* two definitions of it is unfolded by induction.                         *)
IsPath(f, w, p) ==
  /\ f \in [Speeds!Index -> Nat] /\ f[0] = w + p[0]
  /\ \A i \in 1 .. N - 1 : f[i] = f[i - 1] + p[i]

LEMMA PathIs ==
  ASSUME Parameters, NEW w \in Nat, NEW p \in Speeds!Profile
  PROVE  IsPath(Speeds!Path(w, p), w, p)
<1>1. N \in Nat /\ N > 1 /\ 0 \in Speeds!Index /\ \A i \in Speeds!Index : i \in Nat /\ p[i] \in Nat
  BY DEF Parameters, Speeds!Index, Speeds!Profile
<1> DEFINE S == {n \in Nat : n < N => \E f \in [0 .. n -> Nat] :
                   f[0] = w + p[0] /\ \A i \in 1 .. n : f[i] = f[i - 1] + p[i]}
<1>2. 0 \in S
  <2>1. [i \in 0 .. 0 |-> w + p[0]] \in [0 .. 0 -> Nat] /\ 1 .. 0 = {} /\ 0 \in 0 .. 0
    BY <1>1
  <2> QED BY <2>1
<1>3. ASSUME NEW n \in Nat, n \in S PROVE n + 1 \in S
  <2> SUFFICES ASSUME n + 1 < N
               PROVE  \E f \in [0 .. n + 1 -> Nat] :
                        f[0] = w + p[0] /\ \A i \in 1 .. n + 1 : f[i] = f[i - 1] + p[i]
    OBVIOUS
  <2>1. PICK f \in [0 .. n -> Nat] : f[0] = w + p[0] /\ \A i \in 1 .. n : f[i] = f[i - 1] + p[i]
    <3>1. n < N
      BY <1>1
    <3> QED BY <1>3, <3>1
  <2> DEFINE g == [i \in 0 .. n + 1 |-> IF i <= n THEN f[i] ELSE f[n] + p[n + 1]]
  <2>2. n \in 0 .. n /\ f[n] \in Nat /\ n + 1 \in Speeds!Index /\ p[n + 1] \in Nat
    BY <1>1 DEF Speeds!Index
  <2>3. g \in [0 .. n + 1 -> Nat]
    BY <2>2
  <2>4. g[0] = w + p[0]
    BY <2>1
  <2>5. ASSUME NEW i \in 1 .. n + 1 PROVE g[i] = g[i - 1] + p[i]
    <3>1. CASE i <= n
      BY <2>1, <3>1
    <3>2. CASE ~(i <= n)
      <4>1. i = n + 1 /\ i - 1 = n
        BY <3>2
      <4> QED BY <4>1, <2>2
    <3> QED BY <3>1, <3>2
  <2> HIDE DEF g
  <2> QED BY <2>3, <2>4, <2>5
<1> HIDE DEF S
<1>4. N - 1 \in S
  BY <1>1, <1>2, <1>3, Induct
<1>5. PICK f \in [Speeds!Index -> Nat] : f[0] = w + p[0] /\ \A i \in 1 .. N - 1 : f[i] = f[i - 1] + p[i]
  <2>1. N - 1 \in Nat /\ N - 1 < N
    BY <1>1
  <2>2. \E f \in [0 .. N - 1 -> Nat] :
          f[0] = w + p[0] /\ \A i \in 1 .. N - 1 : f[i] = f[i - 1] + p[i]
    BY <1>4, <2>1 DEF S
  <2> QED BY <2>2 DEF Speeds!Index
<1> DEFINE Is(g) == g = [i \in Speeds!Index |-> IF i = 0 THEN w + p[0] ELSE g[i - 1] + p[i]]
<1>6. Is(f)
  <2>1. f = [i \in Speeds!Index |-> f[i]]
    OBVIOUS
  <2>2. ASSUME NEW i \in Speeds!Index PROVE f[i] = IF i = 0 THEN w + p[0] ELSE f[i - 1] + p[i]
    <3>1. i # 0 => i \in 1 .. N - 1
      BY <1>1 DEF Speeds!Index
    <3> QED BY <1>5, <3>1
  <2> QED BY <2>1, <2>2
<1>7. Speeds!Path(w, p) = CHOOSE g : Is(g)
  BY DEF Speeds!Path
<1>8. Is(Speeds!Path(w, p))
  <2> HIDE DEF Is
  <2> QED BY <1>6, <1>7
<1> DEFINE g == Speeds!Path(w, p)
<1>9. g = [i \in Speeds!Index |-> IF i = 0 THEN w + p[0] ELSE g[i - 1] + p[i]]
  BY <1>8
<1> HIDE DEF g, Is
<1>10. g[0] = w + p[0] /\ \A i \in 1 .. N - 1 : i \in Speeds!Index /\ g[i] = g[i - 1] + p[i]
  <2>1. \A i \in 1 .. N - 1 : i \in Speeds!Index /\ i # 0
    BY <1>1 DEF Speeds!Index
  <2> QED BY <1>1, <1>9, <2>1
<1> DEFINE T == {n \in Nat : n < N => g[n] \in Nat}
<1>11. 0 \in T
  BY <1>1, <1>10
<1>12. ASSUME NEW n \in Nat, n \in T PROVE n + 1 \in T
  <2> SUFFICES ASSUME n + 1 < N PROVE g[n + 1] \in Nat
    OBVIOUS
  <2>1. n + 1 \in 1 .. N - 1 /\ n + 1 \in Speeds!Index /\ (n + 1) - 1 = n /\ g[n] \in Nat
    BY <1>1, <1>12 DEF Speeds!Index
  <2> QED BY <1>1, <1>10, <2>1
<1> HIDE DEF T
<1>13. \A n \in Nat : n \in T
  BY <1>11, <1>12, Induct
<1>14. \A i \in Speeds!Index : g[i] \in Nat
  BY <1>1, <1>13 DEF T, Speeds!Index
<1>15. g \in [Speeds!Index -> Nat]
  <2>1. DOMAIN g = Speeds!Index /\ g = [i \in Speeds!Index |-> g[i]]
    BY <1>9
  <2> QED BY <1>14, <2>1
<1> QED BY <1>10, <1>15 DEF IsPath, g

(* What is driven is behind the vehicle; the rest of the path stays where  *)
(* it was, and the vehicle at its end.                                     *)
LEMMA PathShift ==
  ASSUME Parameters, NEW w \in Nat, NEW p, Drivable(p)
  PROVE  /\ Speeds!Driven(w, p) \in Nat
         /\ \A i \in Speeds!Index : Speeds!Path(Speeds!Driven(w, p), Speeds!Shift(p))[i] =
              Speeds!Path(w, p)[IF i + n_steps < N THEN i + n_steps ELSE N - 1]
<1>1. /\ N \in Nat /\ n_steps \in Nat /\ 1 <= n_steps /\ n_steps <= N - 1 /\ min_speed = 0
      /\ n_steps - 1 \in Speeds!Index /\ p \in Speeds!Profile
  BY DEF Parameters, Speeds!Index, Drivable
<1> DEFINE q == Speeds!Shift(p)
           f == Speeds!Path(w, p)
           x == Speeds!Driven(w, p)
           g == Speeds!Path(x, q)
<1>2. IsPath(f, w, p) /\ x \in Nat /\ x = f[n_steps - 1]
  <2>1. IsPath(f, w, p)
    BY <1>1, PathIs
  <2> QED BY <1>1, <2>1 DEF Speeds!Driven, IsPath
<1>3. q \in Speeds!Profile /\ \A i \in Speeds!Index : q[i] = IF i + n_steps < N THEN p[i + n_steps] ELSE 0
  <2>1. q \in Speeds!Profile
    BY ShiftDrivable DEF Drivable
  <2> QED BY <1>1, <2>1 DEF Speeds!Shift
<1> HIDE DEF q, x
<1>4. IsPath(g, x, q)
  BY <1>2, <1>3, PathIs
<1> HIDE DEF f, g
<1> DEFINE at(i) == IF i + n_steps < N THEN i + n_steps ELSE N - 1
           S == {n \in Nat : n < N => g[n] = f[at(n)]}
<1>5. 0 \in S
  <2>1. at(0) = n_steps /\ n_steps \in 1 .. N - 1 /\ 0 \in Speeds!Index /\ q[0] = p[n_steps]
    BY <1>1, <1>3 DEF Speeds!Index
  <2> QED BY <1>2, <1>4, <2>1 DEF IsPath
<1>6. ASSUME NEW n \in Nat, n \in S PROVE n + 1 \in S
  <2> SUFFICES ASSUME n + 1 < N PROVE g[n + 1] = f[at(n + 1)]
    OBVIOUS
  <2>1. /\ n + 1 \in 1 .. N - 1 /\ (n + 1) - 1 = n /\ n + 1 \in Speeds!Index /\ n \in Speeds!Index
        /\ g[n] = f[at(n)]
    BY <1>1, <1>6 DEF Speeds!Index
  <2>2. g[n + 1] = g[n] + q[n + 1]
    BY <1>4, <2>1 DEF IsPath
  <2>3. CASE n + 1 + n_steps < N
    <3>1. at(n + 1) = n + 1 + n_steps /\ at(n) = n + n_steps /\ n + 1 + n_steps \in 1 .. N - 1
          /\ (n + 1 + n_steps) - 1 = n + n_steps
      BY <1>1, <2>3
    <3>2. f[n + 1 + n_steps] = f[n + n_steps] + p[n + 1 + n_steps]
      BY <1>2, <3>1 DEF IsPath
    <3>3. q[n + 1] = p[n + 1 + n_steps]
      BY <1>3, <2>1, <2>3
    <3> HIDE DEF at
    <3> QED BY <2>1, <2>2, <3>1, <3>2, <3>3
  <2>4. CASE ~(n + 1 + n_steps < N)
    <3>1. at(n + 1) = N - 1 /\ at(n) = N - 1 /\ N - 1 \in Speeds!Index
      BY <1>1, <2>4 DEF Speeds!Index
    <3>2. q[n + 1] = 0
      BY <1>3, <2>1, <2>4
    <3>3. f[N - 1] \in Nat
      BY <1>2, <3>1 DEF IsPath
    <3> HIDE DEF at
    <3> QED BY <2>1, <2>2, <3>1, <3>2, <3>3
  <2> QED BY <2>3, <2>4
<1> HIDE DEF S, at
<1>7. \A n \in Nat : n \in S
  BY <1>5, <1>6, Induct
<1>8. \A i \in Speeds!Index : g[i] = f[at(i)]
  BY <1>1, <1>7 DEF S, Speeds!Index
<1> QED BY <1>2, <1>8 DEF f, g, at, x, q

(* Some vehicles do not meet on their plans.                               *)
Apart(profile, S) ==
  \A u, v \in S : u # v =>
    Speeds!Collisions(Maps[conflicts][<<u, v>>],
                      Speeds!Path(way[u], profile[u]), Speeds!Path(way[v], profile[v])) = {}

(* The inductive invariant for that: between time steps all are apart; and *)
(* while they plan, those who have planned are, and all are on the plans   *)
(* to go back to.                                                          *)
RoadInv ==
  /\ conflicts \in DOMAIN Maps /\ stage \in {"begin", "new", "old", "apply"}
  /\ waiting \in Seq(Vehicle) /\ (stage \in {"new", "old"} => waiting # <<>>)
  /\ way \in [Vehicle -> Nat] /\ last \in [Vehicle -> Nat] /\ steps \in 0 .. Steps
  /\ stage \in {"begin", "apply"} => Apart(speed_profile, Vehicle)
  /\ stage # "begin" => Apart(old_speed_profile, Vehicle)
  /\ stage \in {"new", "old"} => Apart(speed_profile, Speeds!Planned)

(* Nobody moves, and nobody meets another standing.                        *)
LEMMA RoadInit ==
  ASSUME Parameters, Roads
  PROVE  Speeds!Init => RoadInv
<1> SUFFICES ASSUME Speeds!Init PROVE RoadInv
  OBVIOUS
<1> DEFINE rest == [i \in Speeds!Index |-> 0]
           f == Speeds!Path(0, rest)
<1>1. /\ N \in Nat /\ rest \in Speeds!Profile /\ \A i \in Speeds!Index : rest[i] = 0
  BY DEF Parameters, Speeds!Profile
<1> HIDE DEF rest
<1>2. IsPath(f, 0, rest)
  BY <1>1, PathIs
<1> HIDE DEF f
<1> DEFINE S == {n \in Nat : n < N => f[n] = 0}
<1>3. 0 \in S
  <2>1. 0 \in Speeds!Index
    BY <1>1 DEF Speeds!Index, Parameters
  <2> QED BY <1>1, <1>2, <2>1 DEF IsPath
<1>4. ASSUME NEW n \in Nat, n \in S PROVE n + 1 \in S
  <2> SUFFICES ASSUME n + 1 < N PROVE f[n + 1] = 0
    OBVIOUS
  <2>1. n + 1 \in 1 .. N - 1 /\ n + 1 \in Speeds!Index /\ (n + 1) - 1 = n /\ f[n] = 0
    BY <1>1, <1>4 DEF Speeds!Index
  <2> QED BY <1>1, <1>2, <2>1 DEF IsPath
<1> HIDE DEF S
<1>5. \A n \in Nat : n \in S
  BY <1>3, <1>4, Induct
<1>6. \A i \in Speeds!Index : f[i] = 0
  BY <1>1, <1>5 DEF S, Speeds!Index
<1>7. /\ conflicts \in DOMAIN Maps /\ stage = "begin" /\ waiting = <<>> /\ steps = 0
      /\ way = [v \in Vehicle |-> 0] /\ last = [v \in Vehicle |-> 0]
      /\ speed_profile = [v \in Vehicle |-> rest]
  BY DEF Speeds!Init, rest
<1>8. Apart(speed_profile, Vehicle)
  <2> SUFFICES ASSUME NEW u \in Vehicle, NEW v \in Vehicle, u # v,
                      NEW i \in Speeds!Collisions(Maps[conflicts][<<u, v>>], f, f)
               PROVE  FALSE
    BY <1>7 DEF Apart, f
  <2>1. i \in Speeds!Index /\ <<f[i], f[i]>> \in Maps[conflicts][<<u, v>>]
    BY DEF Speeds!Collisions
  <2> QED BY <1>6, <1>7, <2>1 DEF Roads
<1>9. steps \in 0 .. Steps
  BY <1>7 DEF Roads
<1> QED BY <1>7, <1>8, <1>9 DEF RoadInv

(* Who is apart stays so while all drive.                                  *)
LEMMA ApartDriven ==
  ASSUME Parameters, SpeedInv, way \in [Vehicle -> Nat], Apart(speed_profile, Vehicle), Speeds!Drive
  PROVE  way' \in [Vehicle -> Nat] /\ Apart(speed_profile, Vehicle)'
<1>1. /\ conflicts' = conflicts
      /\ way' = [v \in Vehicle |-> Speeds!Driven(way[v], speed_profile[v])]
      /\ speed_profile' = [v \in Vehicle |-> Speeds!Shift(speed_profile[v])]
  BY DEF Speeds!Drive, Speeds!Everybody
<1>2. ASSUME NEW v \in Vehicle
      PROVE  /\ Speeds!Driven(way[v], speed_profile[v]) \in Nat
             /\ \A i \in Speeds!Index : Speeds!Path(way'[v], speed_profile'[v])[i] =
                  Speeds!Path(way[v], speed_profile[v])[IF i + n_steps < N THEN i + n_steps ELSE N - 1]
  <2>1. Drivable(speed_profile[v]) /\ way[v] \in Nat
    BY DEF SpeedInv
  <2>2. way'[v] = Speeds!Driven(way[v], speed_profile[v]) /\ speed_profile'[v] = Speeds!Shift(speed_profile[v])
    BY <1>1
  <2> QED BY <2>1, <2>2, PathShift
<1>3. way' \in [Vehicle -> Nat]
  BY <1>1, <1>2
<1>4. ASSUME NEW u \in Vehicle, NEW v \in Vehicle, u # v,
             NEW i \in Speeds!Collisions(Maps[conflicts][<<u, v>>], Speeds!Path(way'[u], speed_profile'[u]),
                                                             Speeds!Path(way'[v], speed_profile'[v]))
      PROVE  FALSE
  <2> DEFINE at == IF i + n_steps < N THEN i + n_steps ELSE N - 1
  <2>1. i \in Speeds!Index /\ at \in Speeds!Index
    BY DEF Speeds!Collisions, Speeds!Index, Parameters
  <2>2. <<Speeds!Path(way'[u], speed_profile'[u])[i], Speeds!Path(way'[v], speed_profile'[v])[i]>>
          \in Maps[conflicts][<<u, v>>]
    BY DEF Speeds!Collisions
  <2>3. /\ Speeds!Path(way'[u], speed_profile'[u])[i] = Speeds!Path(way[u], speed_profile[u])[at]
        /\ Speeds!Path(way'[v], speed_profile'[v])[i] = Speeds!Path(way[v], speed_profile[v])[at]
    BY <1>2, <2>1
  <2> HIDE DEF at
  <2>4. at \in Speeds!Collisions(Maps[conflicts][<<u, v>>], Speeds!Path(way[u], speed_profile[u]),
                                                     Speeds!Path(way[v], speed_profile[v]))
    BY <2>1, <2>2, <2>3 DEF Speeds!Collisions
  <2> QED BY <1>4, <2>4 DEF Apart
<1> QED BY <1>1, <1>3, <1>4 DEF Apart

(* With the one who has found a way all are apart who have planned.        *)
LEMMA ApartPlanned ==
  ASSUME Roads, RoadInv, waiting # <<>>, Apart(speed_profile, Speeds!Planned), Speeds!Met(Head(waiting)) = {}
  PROVE  Apart(speed_profile, Speeds!Planned \cup {Head(waiting)})
<1> DEFINE w == Head(waiting)
           C(u, v) == Speeds!Collisions(Maps[conflicts][<<u, v>>], Speeds!Path(way[u], speed_profile[u]),
                                                           Speeds!Path(way[v], speed_profile[v]))
<1>1. w \in Vehicle /\ Speeds!Planned \subseteq Vehicle /\ conflicts \in DOMAIN Maps
  BY DEF RoadInv, Speeds!Planned
<1> HIDE DEF w
<1>2. \A u \in Speeds!Planned : C(w, u) = {}
  BY DEF Speeds!Met, w
<1>3. ASSUME NEW u \in Vehicle, NEW v \in Vehicle, u # v, C(u, v) = {} PROVE C(v, u) = {}
  <2> SUFFICES ASSUME NEW i \in C(v, u) PROVE FALSE
    OBVIOUS
  <2> DEFINE x == Speeds!Path(way[u], speed_profile[u])[i]
             y == Speeds!Path(way[v], speed_profile[v])[i]
  <2>1. i \in Speeds!Index /\ <<y, x>> \in Maps[conflicts][<<v, u>>]
    BY DEF Speeds!Collisions
  <2>2. <<x, y>> \in Maps[conflicts][<<u, v>>]
    <3> HIDE DEF x, y
    <3>1. <<(<<y, x>>)[2], (<<y, x>>)[1]>> \in Maps[conflicts][<<u, v>>]
      BY <1>1, <1>3, <2>1 DEF Roads
    <3> QED BY <3>1
  <2>3. i \in C(u, v)
    BY <2>1, <2>2 DEF Speeds!Collisions
  <2> QED BY <1>3, <2>3
<1>4. ASSUME NEW u \in Speeds!Planned \cup {w}, NEW v \in Speeds!Planned \cup {w}, u # v PROVE C(u, v) = {}
  <2>1. CASE u \in Speeds!Planned /\ v \in Speeds!Planned
    BY <1>4, <2>1 DEF Apart
  <2>2. CASE u = w /\ v \in Speeds!Planned
    BY <1>2, <2>2
  <2>3. CASE v = w /\ u \in Speeds!Planned
    BY <1>1, <1>2, <1>3, <1>4, <2>3
  <2> QED BY <1>4, <2>1, <2>2, <2>3
<1> QED BY <1>4 DEF Apart, w

(* A time step begins, or begins again, with everybody still to plan.      *)
LEMMA NobodyPlanned ==
  ASSUME Roads, waiting' \in Orders
  PROVE  waiting' \in Seq(Vehicle) /\ waiting' # <<>> /\ Speeds!Planned' = {}
BY DEF Roads, Speeds!Planned

LEMMA RoadStep ==
  ASSUME Parameters, Roads
  PROVE  SpeedInv /\ RoadInv /\ [Speeds!Next]_(Speeds!vars) => RoadInv'
<1> SUFFICES ASSUME SpeedInv, RoadInv, [Speeds!Next]_(Speeds!vars) PROVE RoadInv'
  OBVIOUS
<1>1. /\ conflicts \in DOMAIN Maps /\ stage \in {"begin", "new", "old", "apply"}
      /\ waiting \in Seq(Vehicle) /\ (stage \in {"new", "old"} => waiting # <<>>)
      /\ way \in [Vehicle -> Nat] /\ last \in [Vehicle -> Nat]
      /\ steps \in 0 .. Steps /\ Steps \in Nat
      /\ stage \in {"begin", "apply"} => Apart(speed_profile, Vehicle)
      /\ stage # "begin" => Apart(old_speed_profile, Vehicle)
      /\ stage \in {"new", "old"} => Apart(speed_profile, Speeds!Planned)
  BY DEF RoadInv, Roads
<1>2. CASE Speeds!Begin
  <2>1. /\ stage = "begin" /\ steps' \in 0 .. Steps /\ stage' \in {"new", "old"}
        /\ old_speed_profile' = speed_profile /\ UNCHANGED <<conflicts, way, last>>
    BY <1>1, <1>2 DEF Speeds!Begin
  <2>2. waiting' \in Seq(Vehicle) /\ waiting' # <<>> /\ Speeds!Planned' = {}
    BY <1>2, NobodyPlanned DEF Speeds!Begin
  <2>3. Apart(old_speed_profile, Vehicle)'
    BY <1>1, <2>1 DEF Apart
  <2>4. Apart(speed_profile, Speeds!Planned)'
    BY <2>2 DEF Apart
  <2> QED BY <1>1, <2>1, <2>2, <2>3, <2>4 DEF RoadInv
<1>3. CASE Speeds!AvoidCollisions
  <2>1. /\ stage \in {"new", "old"} /\ waiting # <<>> /\ Head(waiting) \in Vehicle
        /\ Head(waiting) \notin Speeds!Planned
    BY <1>1, <1>3 DEF Speeds!AvoidCollisions, Speeds!Planned
  <2>2. CASE Speeds!Met(Head(waiting)) = {} /\ Speeds!CollisionFree
    <3>1. /\ waiting' = Tail(waiting) /\ waiting' \in Seq(Vehicle)
          /\ stage' = (IF waiting' = <<>> THEN "apply" ELSE stage)
          /\ UNCHANGED <<conflicts, speed_profile, old_speed_profile, way, last, steps>>
      BY <1>1, <2>1, <2>2 DEF Speeds!CollisionFree
    <3>2. Apart(speed_profile, Speeds!Planned \cup {Head(waiting)})
      BY <1>1, <2>1, <2>2, ApartPlanned
    <3>3. Speeds!Planned' \subseteq Speeds!Planned \cup {Head(waiting)}
      <4> SUFFICES ASSUME NEW v \in Vehicle, v # Head(waiting), NEW i \in DOMAIN waiting,
                          waiting[i] = v
                   PROVE  \E k \in DOMAIN waiting' : waiting'[k] = v
        BY <3>1 DEF Speeds!Planned
      <4>1. i # 1 /\ i \in 1 .. Len(waiting)
        BY <1>1, <2>1
      <4>2. i - 1 \in 1 .. Len(waiting) - 1 /\ (i - 1) + 1 = i
        BY <1>1, <4>1
      <4>3. /\ DOMAIN Tail(waiting) = 1 .. Len(waiting) - 1
            /\ Tail(waiting)[i - 1] = waiting[(i - 1) + 1]
        BY <1>1, <2>1, <4>2
      <4> QED BY <3>1, <4>2, <4>3
    <3>4. Apart(speed_profile, Speeds!Planned)' /\ Apart(old_speed_profile, Vehicle)'
      BY <1>1, <2>1, <3>1, <3>2, <3>3 DEF Apart
    <3>5. stage' = "apply" => Speeds!Planned' = Vehicle
      <4> SUFFICES ASSUME stage' = "apply" PROVE Speeds!Planned' = Vehicle
        OBVIOUS
      <4>1. waiting' = <<>>
        BY <2>1, <3>1
      <4> QED BY <4>1 DEF Speeds!Planned
    <3>6. stage' = "apply" => Apart(speed_profile, Vehicle)'
      BY <3>4, <3>5 DEF Apart
    <3> QED BY <1>1, <2>1, <3>1, <3>4, <3>6 DEF RoadInv
  <2>3. CASE Speeds!Infeasible
    <3>1. /\ UNCHANGED <<conflicts, old_speed_profile, way, last, steps>>
          /\ \/ stage' = "old" /\ waiting' \in Orders
             \/ stage' = "apply" /\ waiting' = <<>> /\ speed_profile' = old_speed_profile
      BY <2>3 DEF Speeds!Infeasible, Speeds!RevertSpeedProfile
    <3>2. Apart(old_speed_profile, Vehicle)'
      BY <1>1, <2>1, <3>1 DEF Apart
    <3>3. CASE stage' = "old" /\ waiting' \in Orders
      <4>1. waiting' \in Seq(Vehicle) /\ waiting' # <<>> /\ Speeds!Planned' = {}
        BY <3>3, NobodyPlanned
      <4>2. Apart(speed_profile, Speeds!Planned)'
        BY <4>1 DEF Apart
      <4> QED BY <1>1, <3>1, <3>2, <3>3, <4>1, <4>2 DEF RoadInv
    <3>4. CASE stage' = "apply" /\ waiting' = <<>> /\ speed_profile' = old_speed_profile
      <4>1. Apart(speed_profile, Vehicle)'
        BY <3>1, <3>2, <3>4 DEF Apart
      <4>2. waiting' \in Seq(Vehicle)
        BY <3>4
      <4> QED BY <1>1, <3>1, <3>2, <3>4, <4>1, <4>2 DEF RoadInv
    <3> QED BY <3>1, <3>3, <3>4
  <2>4. ASSUME NEW index, Speeds!SlowDown(Head(waiting), index) PROVE RoadInv'
    <3>1. /\ UNCHANGED <<conflicts, stage, waiting, old_speed_profile, way, last, steps>>
          /\ \A u \in Speeds!Planned : speed_profile'[u] = speed_profile[u]
      BY <2>1, <2>4 DEF Speeds!SlowDown, SpeedInv, Speeds!Planned
    <3>2. Speeds!Planned' = Speeds!Planned
      BY <3>1 DEF Speeds!Planned
    <3>3. Apart(speed_profile, Speeds!Planned)' /\ Apart(old_speed_profile, Vehicle)'
      BY <1>1, <2>1, <3>1, <3>2 DEF Apart
    <3> QED BY <1>1, <2>1, <3>1, <3>3 DEF RoadInv
  <2> QED BY <1>3, <2>2, <2>3, <2>4 DEF Speeds!AvoidCollisions
<1>4. CASE Speeds!Drive /\ stage \in {"begin", "apply"} /\ steps' \in 0 .. Steps
  <2>1. /\ stage' = "begin" /\ UNCHANGED <<conflicts, waiting, old_speed_profile>>
        /\ last' = [v \in Vehicle |-> speed_profile[v][n_steps - 1]]
    BY <1>4 DEF Speeds!Drive
  <2>2. way' \in [Vehicle -> Nat] /\ Apart(speed_profile, Vehicle)'
    BY <1>1, <1>4, ApartDriven
  <2>3. last' \in [Vehicle -> Nat]
    BY <2>1, ShiftDrivable DEF SpeedInv
  <2> QED BY <1>1, <1>4, <2>1, <2>2, <2>3 DEF RoadInv
<1>5. CASE UNCHANGED Speeds!vars
  <2>1. UNCHANGED <<conflicts, stage, waiting, speed_profile, old_speed_profile, way, last, steps>>
    BY <1>5 DEF Speeds!vars
  <2>2. Speeds!Planned' = Speeds!Planned
    BY <2>1 DEF Speeds!Planned
  <2>3. /\ stage' \in {"begin", "apply"} => Apart(speed_profile, Vehicle)'
        /\ stage' # "begin" => Apart(old_speed_profile, Vehicle)'
        /\ stage' \in {"new", "old"} => Apart(speed_profile, Speeds!Planned)'
    BY <1>1, <2>1, <2>2 DEF Apart
  <2> QED BY <1>1, <2>1, <2>3 DEF RoadInv
<1>6. Speeds!ApplyTimestep \/ Speeds!CatchUp =>
        Speeds!Drive /\ stage \in {"begin", "apply"} /\ steps' \in 0 .. Steps
  BY <1>1 DEF Speeds!ApplyTimestep, Speeds!CatchUp
<1> QED BY <1>2, <1>3, <1>4, <1>5, <1>6 DEF Speeds!Next

(* Vehicles never meet on what they follow, whether they follow new plans, *)
(* older ones or the ends of these (avoid_collisions,                      *)
(* VehicleTrajectoryPlanningState.cpp:269), and all variables have their   *)
(* types.                                                                  *)
THEOREM NobodyMeetsCorrect ==
  ASSUME Parameters, Roads
  PROVE  Speeds!Spec => [](Speeds!TypeOK /\ Speeds!NobodyMeets)
<1>1. Speeds!Init => SpeedInv /\ RoadInv
  BY Initially, RoadInit
<1>2. SpeedInv /\ RoadInv /\ [Speeds!Next]_(Speeds!vars) => SpeedInv' /\ RoadInv'
  BY Preserved, RoadStep
<1>3. SpeedInv /\ RoadInv => Speeds!TypeOK /\ Speeds!NobodyMeets
  <2> SUFFICES ASSUME SpeedInv, RoadInv PROVE Speeds!TypeOK /\ Speeds!NobodyMeets
    OBVIOUS
  <2>1. \A i \in DOMAIN waiting : waiting[i] \in Vehicle
    BY DEF RoadInv
  <2>2. Speeds!TypeOK
    BY <2>1 DEF SpeedInv, RoadInv, Speeds!TypeOK
  <2>3. Speeds!NobodyMeets
    BY DEF RoadInv, Speeds!NobodyMeets, Apart
  <2> QED BY <2>2, <2>3
<1> QED BY <1>1, <1>2, <1>3, PTL DEF Speeds!Spec
=============================================================================

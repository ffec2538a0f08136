------------------------- MODULE ControlLoop_proofs -------------------------
(***************************************************************************)
(* Proofs about ControlLoop, for any number of vehicles and goal states,   *)
(* in real and in simulated time: what the middleware says of the HLCs is  *)
(* true, a goal state is forwarded once, and an HLC plans one timestep at  *)
(* a time.                                                                 *)
(***************************************************************************)
EXTENDS ControlLoop, TLAPS

USE SimulatedAssumption, CancelsAssumption

(* The reader holds a goal state while it forwards or buffers it, and an   *)
(* HLC comes to a new planning when it has none, or none that runs.        *)
Types ==
  /\ TypeOK
  /\ goal_pc \in {"forward", "buffer"} => goal_batch # <<>>
  /\ \A v \in Vehicle : hlc_pc[v] = "plan" => planning[v] \in {"none", "done"}

(* The steps an HLC has part in.                                           *)
LocalStep(v) == HandleCommand(v) \/ Communicator(v) \/ Planner(v)

(* Who is online: an HLC counts as online from its ready message on, and   *)
(* the middleware acts on all of them being there only when they are.      *)
Online ==
  /\ \A v \in hlc_online \cup ready : hlc_pc[v] \notin {"before", "ready"}
  /\ all_hlc_online => Vehicle \subseteq hlc_online
  /\ \/ mw_ready
     \/ forwarded # <<>>
     \/ goal_pc = "forward"
     \/ mw_pc = "flush"
     => all_hlc_online

-----------------------------------------------------------------------------
(* Sequences without repetitions                                           *)

Distinct(s) == \A i, j \in 1..Len(s) : s[i] = s[j] => i = j
In(s) == {s[i] : i \in 1..Len(s)}

(* A concatenation has the elements of both, and repeats none if they have *)
(* none in common.                                                         *)
LEMMA ConcatDistinct ==
  ASSUME NEW S, NEW s \in Seq(S), NEW t \in Seq(S)
  PROVE  /\ s \o t \in Seq(S)
         /\ In(s \o t) = In(s) \cup In(t)
         /\ Distinct(s) /\ Distinct(t) /\ In(s) \cap In(t) = {} => Distinct(s \o t)
<1>1. /\ Len(s) \in Nat /\ Len(t) \in Nat /\ s \o t \in Seq(S)
      /\ Len(s \o t) = Len(s) + Len(t)
  OBVIOUS
<1>2. \A i \in 1..Len(s \o t) :
        (s \o t)[i] = IF i <= Len(s) THEN s[i] ELSE t[i - Len(s)]
  OBVIOUS
<1>3. In(s \o t) = In(s) \cup In(t)
  <2>1. ASSUME NEW i \in 1..Len(s \o t) PROVE (s \o t)[i] \in In(s) \cup In(t)
    <3>1. CASE i <= Len(s)
      BY <1>1, <1>2, <3>1 DEF In
    <3>2. CASE ~(i <= Len(s))
      <4>1. i - Len(s) \in 1..Len(t)
        BY <1>1, <3>2
      <4>2. QED BY <1>2, <3>2, <4>1 DEF In
    <3>3. QED BY <3>1, <3>2
  <2>2. ASSUME NEW i \in 1..Len(s) PROVE s[i] \in In(s \o t)
    <3>1. i \in 1..Len(s \o t) /\ i <= Len(s)
      BY <1>1
    <3>2. (s \o t)[i] = s[i]
      BY <1>2, <3>1
    <3>3. QED BY <3>1, <3>2 DEF In
  <2>3. ASSUME NEW i \in 1..Len(t) PROVE t[i] \in In(s \o t)
    <3>1. /\ Len(s) + i \in 1..Len(s \o t) /\ ~(Len(s) + i <= Len(s))
          /\ (Len(s) + i) - Len(s) = i
      BY <1>1
    <3>2. (s \o t)[Len(s) + i] = t[i]
      BY <1>2, <3>1
    <3>3. QED BY <3>1, <3>2 DEF In
  <2>4. QED BY <2>1, <2>2, <2>3 DEF In
<1>4. ASSUME Distinct(s), Distinct(t), In(s) \cap In(t) = {}, NEW i \in 1..Len(s \o t),
             NEW j \in 1..Len(s \o t), (s \o t)[i] = (s \o t)[j]
      PROVE  i = j
  <2>1. \A k \in 1..Len(s), l \in 1..Len(t) : s[k] # t[l]
    BY <1>4 DEF In
  <2>2. \A k \in 1..Len(s \o t) : \/ k \in 1..Len(s) /\ (s \o t)[k] = s[k]
                                  \/ k - Len(s) \in 1..Len(t) /\ (s \o t)[k] = t[k - Len(s)]
    BY <1>1, <1>2
  <2>3. QED BY <1>1, <1>4, <2>1, <2>2 DEF Distinct
<1>5. QED BY <1>1, <1>3, <1>4 DEF Distinct

LEMMA AppendDistinct ==
  ASSUME NEW S, NEW s \in Seq(S), NEW x \in S
  PROVE  /\ Append(s, x) \in Seq(S)
         /\ In(Append(s, x)) = In(s) \cup {x}
         /\ Distinct(s) /\ x \notin In(s) => Distinct(Append(s, x))
<1>1. /\ Len(s) \in Nat /\ Append(s, x) \in Seq(S) /\ Len(Append(s, x)) = Len(s) + 1
      /\ \A i \in 1..Len(s) : Append(s, x)[i] = s[i]
      /\ Append(s, x)[Len(s) + 1] = x
  OBVIOUS
<1>2. 1..Len(Append(s, x)) = (1..Len(s)) \cup {Len(s) + 1}
  BY <1>1
<1>3. In(Append(s, x)) = In(s) \cup {x}
  <2>1. ASSUME NEW i \in 1..Len(Append(s, x)) PROVE Append(s, x)[i] \in In(s) \cup {x}
    BY <1>1, <1>2 DEF In
  <2>2. ASSUME NEW i \in 1..Len(s) PROVE s[i] \in In(Append(s, x))
    <3>1. i \in 1..Len(Append(s, x)) /\ Append(s, x)[i] = s[i]
      BY <1>1, <1>2
    <3>2. QED BY <3>1 DEF In
  <2>3. x \in In(Append(s, x))
    <3>1. Len(s) + 1 \in 1..Len(Append(s, x))
      BY <1>2
    <3>2. QED BY <1>1, <3>1 DEF In
  <2>4. QED BY <2>1, <2>2, <2>3 DEF In
<1>4. ASSUME Distinct(s), x \notin In(s), NEW i \in 1..Len(Append(s, x)),
             NEW j \in 1..Len(Append(s, x)), Append(s, x)[i] = Append(s, x)[j]
      PROVE  i = j
  <2>1. \A k \in 1..Len(s) : s[k] # x
    BY <1>4 DEF In
  <2>2. CASE i \in 1..Len(s) /\ j \in 1..Len(s)
    BY <1>1, <1>4, <2>2 DEF Distinct
  <2>3. CASE i \notin 1..Len(s) \/ j \notin 1..Len(s)
    BY <1>1, <1>2, <1>4, <2>1, <2>3
  <2>4. QED BY <2>2, <2>3
<1>5. QED BY <1>1, <1>3, <1>4 DEF Distinct

(* The head of a sequence without repetitions is not in its tail.          *)
LEMMA TailDistinct ==
  ASSUME NEW S, NEW s \in Seq(S), s # <<>>
  PROVE  /\ Tail(s) \in Seq(S) /\ Head(s) \in S
         /\ In(s) = In(Tail(s)) \cup {Head(s)}
         /\ Distinct(s) => Distinct(Tail(s)) /\ Head(s) \notin In(Tail(s))
<1>1. /\ Len(s) \in Nat /\ Len(s) >= 1 /\ Head(s) = s[1] /\ Head(s) \in S
      /\ Tail(s) \in Seq(S) /\ Len(Tail(s)) = Len(s) - 1
      /\ \A i \in 1..Len(Tail(s)) : Tail(s)[i] = s[i + 1]
  OBVIOUS
<1>2. In(s) = In(Tail(s)) \cup {Head(s)}
  <2>1. ASSUME NEW i \in 1..Len(s) PROVE s[i] \in In(Tail(s)) \cup {Head(s)}
    <3>1. CASE i = 1
      BY <1>1, <3>1
    <3>2. CASE i # 1
      <4>1. i - 1 \in 1..Len(Tail(s)) /\ (i - 1) + 1 = i
        BY <1>1, <3>2
      <4>2. Tail(s)[i - 1] = s[i]
        BY <1>1, <4>1
      <4>3. QED BY <4>1, <4>2 DEF In
    <3>3. QED BY <3>1, <3>2
  <2>2. ASSUME NEW i \in 1..Len(Tail(s)) PROVE Tail(s)[i] \in In(s)
    <3>1. i + 1 \in 1..Len(s)
      BY <1>1
    <3>2. QED BY <1>1, <3>1 DEF In
  <2>3. Head(s) \in In(s)
    BY <1>1 DEF In
  <2>4. QED BY <2>1, <2>2, <2>3 DEF In
<1>3. ASSUME Distinct(s) PROVE Distinct(Tail(s)) /\ Head(s) \notin In(Tail(s))
  <2>1. \A i \in 1..Len(Tail(s)) : i + 1 \in 1..Len(s) /\ i + 1 # 1
    BY <1>1
  <2>2. 1 \in 1..Len(s)
    BY <1>1
  <2>3. QED BY <1>1, <1>3, <2>1, <2>2 DEF Distinct, In
<1>4. QED BY <1>1, <1>2, <1>3

LEMMA NoElements == In(<<>>) = {} /\ Distinct(<<>>)
BY DEF In, Distinct


(* Where the goal states are: with the LCC, or in one of the four          *)
(* sequences, once; none is remembered after the flush.                    *)
GoalsApart ==
  /\ In(forwarded) \cap In(buffered_goal_states) = {}
  /\ In(forwarded) \cap In(goal_batch) = {}
  /\ In(forwarded) \cap In(goal_queue) = {}
  /\ In(buffered_goal_states) \cap In(goal_batch) = {}
  /\ In(buffered_goal_states) \cap In(goal_queue) = {}
  /\ In(goal_batch) \cap In(goal_queue) = {}
  /\ unsent \cap (In(forwarded) \cup In(buffered_goal_states)
                     \cup In(goal_batch) \cup In(goal_queue)) = {}

GoalsDistinct ==
  /\ Distinct(forwarded) /\ Distinct(buffered_goal_states)
  /\ Distinct(goal_batch) /\ Distinct(goal_queue)

BufferEmptied ==
  /\ goal_pc = "buffer" => (~all_hlc_online \/ mw_pc = "flush")
  /\ all_hlc_online /\ mw_pc # "flush" => buffered_goal_states = <<>>

-----------------------------------------------------------------------------
(* Types                                                                   *)

LEMMA TypesInit == Init => Types
<1> SUFFICES ASSUME Init PROVE Types
  OBVIOUS
<1>1. timer_due \in BOOLEAN
  BY DEF Init
<1>2. /\ trigger \in [Vehicle -> Signal \cup {"none"}]
      /\ hlc_pc \in [Vehicle -> HlcPc] /\ \A v \in Vehicle : hlc_pc[v] # "plan"
      /\ planning \in [Vehicle -> Planning]
  BY DEF Init, Signal, HlcPc, Planning
<1>3. /\ lcc_trigger \in Seq(Signal) /\ goal_queue \in Seq(Goal) /\ goal_batch \in Seq(Goal)
      /\ buffered_goal_states \in Seq(Goal) /\ forwarded \in Seq(Goal) /\ goal_batch = <<>>
  BY DEF Init
<1>4. /\ lcc \in LccState /\ mw_pc \in MwPc /\ goal_pc \in GoalPc
      /\ goal_pc \notin {"forward", "buffer"}
  BY DEF Init, LccState, MwPc, GoalPc
<1>5. /\ unsent \subseteq Goal /\ hlc_online \subseteq Vehicle /\ answered \subseteq Vehicle
      /\ ready \subseteq Vehicle /\ list \subseteq Vehicle /\ command \subseteq Vehicle
      /\ all_hlc_online \in BOOLEAN /\ experiment_triggered \in BOOLEAN /\ mw_ready \in BOOLEAN
  BY DEF Init
<1>6. QED BY <1>1, <1>2, <1>3, <1>4, <1>5 DEF Types, TypeOK

(* A type is that of the steps of a period, of the readers, of an HLC.     *)
LEMMA TypesTimer ==
  ASSUME Types, SendStart \/ SendStop \/ (\E g \in Goal : SendGoal(g)) \/ TimerCallback
  PROVE  Types'
<1> USE DEF Types, TypeOK, LccState, MwPc, GoalPc, Signal, HlcPc, Planning, lcc_vars, online,
            goal_vars, local_vars, hlc_vars
<1>1. CASE SendStart
  BY <1>1 DEF SendStart
<1>2. CASE SendStop
  BY <1>2 DEF SendStop
<1>3. ASSUME NEW g \in Goal, SendGoal(g) PROVE Types'
  BY <1>3 DEF SendGoal
<1>4. CASE NextPeriod
  BY <1>4 DEF NextPeriod
<1>5. CASE AnnounceReady
  BY <1>5 DEF AnnounceReady
<1>6. CASE CollectReady
  BY <1>6 DEF CollectReady
<1>7. CASE AllOnline
  BY <1>7 DEF AllOnline
<1>8. CASE FlushGoals
  <2>1. forwarded' \in Seq(Goal)
    BY <1>8 DEF FlushGoals
  <2>2. buffered_goal_states' \in Seq(Goal)
    BY <1>8 DEF FlushGoals
  <2>3. QED BY <1>8, <2>1, <2>2 DEF FlushGoals
<1>9. CASE SendToHLC
  BY <1>9 DEF SendToHLC
<1>10. CASE CheckHLCResponseTime
  BY <1>10 DEF CheckHLCResponseTime
<1> HIDE DEF Types
<1>11. QED BY <1>1, <1>2, <1>3, <1>4, <1>5, <1>6, <1>7, <1>8, <1>9, <1>10 DEF TimerCallback

LEMMA TypesReader == ASSUME Types, Reader PROVE Types'
<1> USE DEF Types, TypeOK, LccState, MwPc, GoalPc, Signal, HlcPc, Planning, lcc_vars, online,
            goal_vars, local_vars, hlc_vars
<1>1. CASE PassThroughSystemTrigger
  <2>1. Head(lcc_trigger) \in Signal /\ Tail(lcc_trigger) \in Seq(Signal)
    BY <1>1 DEF PassThroughSystemTrigger
  <2>2. QED BY <1>1, <2>1 DEF PassThroughSystemTrigger
<1>2. CASE TakeGoals
  BY <1>2 DEF TakeGoals
<1>3. CASE TestOnline
  BY <1>3 DEF TestOnline
<1>4. CASE PassGoal
  <2>1. goal_batch # <<>> /\ goal_batch \in Seq(Goal)
    BY <1>4 DEF PassGoal
  <2>2. Head(goal_batch) \in Goal /\ Tail(goal_batch) \in Seq(Goal)
    BY <2>1
  <2>3. /\ Append(forwarded, Head(goal_batch)) \in Seq(Goal)
        /\ Append(buffered_goal_states, Head(goal_batch)) \in Seq(Goal)
    BY <2>2
  <2>4. forwarded' \in Seq(Goal) /\ buffered_goal_states' \in Seq(Goal)
    BY <1>4, <2>3 DEF PassGoal
  <2>5. QED BY <1>4, <2>2, <2>4 DEF PassGoal
<1>5. CASE ReleaseGoals
  BY <1>5 DEF ReleaseGoals
<1> HIDE DEF Types
<1>6. QED BY <1>1, <1>2, <1>3, <1>4, <1>5 DEF Reader

LEMMA TypesHlc == ASSUME Types, NEW v \in Vehicle, LocalStep(v) PROVE Types'
<1> USE DEF Types, TypeOK, LccState, MwPc, GoalPc, Signal, HlcPc, Planning, lcc_vars, online,
            goal_vars, local_vars, hlc_vars, Goto
<1>1. CASE HandleCommand(v)
  BY <1>1 DEF HandleCommand
<1>2. ASSUME NEW hlc_is_ready \in BOOLEAN, BeforeControlLoop(v, hlc_is_ready) PROVE Types'
  BY <1>2 DEF BeforeControlLoop
<1>3. CASE SendReadyMessage(v)
  BY <1>3 DEF SendReadyMessage
<1>4. CASE WaitForSystemTrigger(v)
  BY <1>4 DEF WaitForSystemTrigger
<1>5. CASE TakeStateList(v)
  BY <1>5 DEF TakeStateList
<1>6. CASE PreviousPlanning(v)
  <2>1. planning' = planning \/ planning' = [planning EXCEPT ![v] = "done"]
    BY <1>6 DEF PreviousPlanning
  <2>2. planning' \in [Vehicle -> Planning]
    BY <2>1
  <2>3. hlc_pc' = [hlc_pc EXCEPT ![v] = "join"]
    BY <1>6 DEF PreviousPlanning
  <2>4. \A u \in Vehicle : hlc_pc'[u] = "plan" => hlc_pc[u] = "plan" /\ planning'[u] = planning[u]
    BY <2>1, <2>3
  <2>5. hlc_pc' \in [Vehicle -> HlcPc]
    BY <2>3
  <2>6. UNCHANGED <<lcc_vars, mw_pc, timer_due, online, answered, goal_vars, local_vars>>
    BY <1>6 DEF PreviousPlanning
  <2>7. TypeOK'
    BY <2>2, <2>5, <2>6
  <2>8. QED BY <2>4, <2>6, <2>7
<1>7. CASE JoinPlanning(v)
  BY <1>7 DEF JoinPlanning
<1>8. CASE StartPlanning(v)
  BY <1>8 DEF StartPlanning
<1>9. CASE StopSignalReceived(v)
  BY <1>9 DEF StopSignalReceived
<1>10. CASE OnStop(v)
  BY <1>10 DEF OnStop
<1>11. CASE SendCommand(v)
  BY <1>11 DEF SendCommand
<1>12. CASE FinishPlanning(v)
  BY <1>12 DEF FinishPlanning
<1> HIDE DEF Types
<1>13. QED
  BY <1>1, <1>2, <1>3, <1>4, <1>5, <1>6, <1>7, <1>8, <1>9, <1>10, <1>11, <1>12
     DEF LocalStep, Communicator, Planner

LEMMA TypesStep == Types /\ [Next]_vars => Types'
<1> SUFFICES ASSUME Types, [Next]_vars PROVE Types'
  OBVIOUS
<1>1. CASE UNCHANGED vars
  BY <1>1 DEF Types, TypeOK, vars, lcc_vars, online, goal_vars, local_vars, hlc_vars
<1>2. CASE Next
  BY <1>2, TypesTimer, TypesReader, TypesHlc DEF Next, LocalStep
<1>3. QED BY <1>1, <1>2

(* Every variable keeps to its type, the state of the reader to the goal   *)
(* states it holds.                                                        *)
THEOREM TypeCorrect == Spec => []TypeOK
<1>1. Init => Types
  BY TypesInit
<1>2. Types /\ [Next]_vars => Types'
  BY TypesStep
<1>3. Types => TypeOK
  BY DEF Types
<1>4. QED BY <1>1, <1>2, <1>3, PTL DEF Spec

-----------------------------------------------------------------------------
(* What a step leaves alone                                                *)

LEMMA Frames ==
  ASSUME [Next]_vars
  PROVE  /\ UNCHANGED hlc_pc \/ \E v \in Vehicle : Communicator(v)
         /\ \/ UNCHANGED <<hlc_online, ready>>
            \/ CollectReady
            \/ \E v \in Vehicle : SendReadyMessage(v)
         /\ UNCHANGED all_hlc_online \/ AllOnline
         /\ UNCHANGED mw_ready \/ AnnounceReady
         /\ \/ UNCHANGED planning
            \/ \E v \in Vehicle : StartPlanning(v) \/ PreviousPlanning(v) \/ Planner(v)
         /\ UNCHANGED mw_pc \/ TimerCallback
         /\ \/ UNCHANGED <<goal_vars, unsent>>
            \/ (\E g \in Goal : SendGoal(g)) \/ FlushGoals
            \/ TakeGoals \/ TestOnline \/ PassGoal \/ ReleaseGoals
BY DEF Next, vars, lcc_vars, online, goal_vars, local_vars, hlc_vars, SendStart, SendStop,
   TimerCallback, NextPeriod, AnnounceReady, CollectReady, AllOnline, SendToHLC,
   CheckHLCResponseTime, Reader, PassThroughSystemTrigger, SendGoal, FlushGoals, TakeGoals,
   TestOnline, PassGoal, ReleaseGoals, HandleCommand, Planner, SendCommand,
   FinishPlanning, Communicator, BeforeControlLoop, SendReadyMessage, WaitForSystemTrigger,
   TakeStateList, PreviousPlanning, JoinPlanning, StartPlanning, StopSignalReceived, OnStop

-----------------------------------------------------------------------------
(* Coming online                                                           *)

(* Only the HLC itself leaves its preparation, and none returns to it.     *)
LEMMA PreparedStays ==
  ASSUME Types, [Next]_vars, NEW v \in Vehicle, hlc_pc[v] \notin {"before", "ready"}
  PROVE  hlc_pc'[v] \notin {"before", "ready"}
<1>1. ASSUME NEW u \in Vehicle, Communicator(u) PROVE hlc_pc'[v] \notin {"before", "ready"}
  BY <1>1 DEF Types, TypeOK, Communicator, BeforeControlLoop, SendReadyMessage,
     WaitForSystemTrigger, TakeStateList, PreviousPlanning, JoinPlanning, StartPlanning,
     StopSignalReceived, OnStop, Goto
<1>2. CASE UNCHANGED hlc_pc
  BY <1>2
<1>3. QED BY <1>1, <1>2, Frames

(* Only a prepared HLC sends a ready message, and only those are collected. *)
LEMMA OnlineGrows ==
  ASSUME Types, Online, [Next]_vars
  PROVE  /\ hlc_online \subseteq hlc_online'
         /\ \A v \in (hlc_online \cup ready)' :
              v \in hlc_online \cup ready \/ hlc_pc'[v] \notin {"before", "ready"}
<1>1. CASE CollectReady
  BY <1>1 DEF CollectReady
<1>2. ASSUME NEW v \in Vehicle, SendReadyMessage(v)
      PROVE  /\ hlc_online' = hlc_online /\ ready' = ready \cup {v}
             /\ hlc_pc'[v] = "await_trigger"
  BY <1>2 DEF SendReadyMessage, Goto, Types, TypeOK, online
<1>3. CASE UNCHANGED <<hlc_online, ready>>
  BY <1>3
<1>4. QED BY <1>1, <1>2, <1>3, Frames

(* The flag, and what follows from it.                                     *)
LEMMA FlagStep ==
  ASSUME Types, Online, [Next]_vars
  PROVE  /\ all_hlc_online' => Vehicle \subseteq hlc_online'
         /\ \/ mw_ready'
            \/ forwarded' # <<>>
            \/ goal_pc' = "forward"
            \/ mw_pc' = "flush"
            => all_hlc_online'
<1>1. hlc_online \subseteq hlc_online'
  BY OnlineGrows
<1>2. CASE all_hlc_online'
  <2>1. all_hlc_online \/ AllOnline
    BY <1>2, Frames
  <2>2. QED BY <1>1, <1>2, <2>1 DEF Online, AllOnline
<1>3. CASE ~all_hlc_online'
  <2>1. ~AllOnline /\ ~all_hlc_online
    <3>1. ~AllOnline
      BY <1>3 DEF AllOnline
    <3>2. all_hlc_online' = all_hlc_online
      BY <3>1, Frames
    <3>3. QED BY <1>3, <3>1, <3>2
  <2>2. ~mw_ready /\ forwarded = <<>> /\ goal_pc # "forward" /\ mw_pc # "flush"
    BY <2>1 DEF Online
  <2>3. ~mw_ready'
    BY <2>1, <2>2, Frames DEF AnnounceReady
  <2>4. mw_pc' # "flush"
    BY <2>1, <2>2, Frames DEF TimerCallback, NextPeriod, AnnounceReady, CollectReady,
       FlushGoals, SendToHLC, CheckHLCResponseTime
  <2>5. forwarded' = <<>> /\ goal_pc' # "forward"
    <3>1. CASE UNCHANGED <<goal_vars, unsent>>
      BY <2>2, <3>1 DEF goal_vars
    <3>2. ASSUME NEW g \in Goal, SendGoal(g) PROVE forwarded' = <<>> /\ goal_pc' # "forward"
      BY <2>2, <3>2 DEF SendGoal
    <3>3. CASE FlushGoals
      BY <2>2, <3>3 DEF FlushGoals
    <3>4. CASE TakeGoals \/ TestOnline \/ ReleaseGoals
      BY <2>1, <2>2, <3>4 DEF TakeGoals, TestOnline, ReleaseGoals
    <3>5. CASE PassGoal
      BY <2>2, <3>5 DEF PassGoal
    <3>6. QED BY <3>1, <3>2, <3>3, <3>4, <3>5, Frames
  <2>6. QED BY <1>3, <2>3, <2>4, <2>5
<1>4. QED BY <1>2, <1>3

LEMMA OnlineStep == Types /\ Online /\ [Next]_vars => Online'
<1> SUFFICES ASSUME Types, Online, [Next]_vars PROVE Online'
  OBVIOUS
<1>1. \A v \in (hlc_online \cup ready)' : hlc_pc'[v] \notin {"before", "ready"}
  <2> SUFFICES ASSUME NEW v \in (hlc_online \cup ready)' PROVE hlc_pc'[v] \notin {"before", "ready"}
    OBVIOUS
  <2>1. CASE v \in hlc_online \cup ready
    <3>1. v \in Vehicle /\ hlc_pc[v] \notin {"before", "ready"}
      BY <2>1 DEF Types, TypeOK, Online
    <3>2. QED BY <3>1, PreparedStays
  <2>2. QED BY <2>1, OnlineGrows
<1>2. QED BY <1>1, FlagStep DEF Online

(* The middleware calls itself ready, and forwards goal states, only when  *)
(* all HLCs have been through before_control_loop.                         *)
THEOREM ReadyCorrect == Spec => []ReadyMeansReady
<1>1. Init => Types /\ Online
  <2>1. Init => Online
    BY DEF Init, Online
  <2>2. QED BY <2>1, TypesInit
<1>2. Types /\ Online /\ [Next]_vars => Types' /\ Online'
  BY TypesStep, OnlineStep
<1>3. Types /\ Online => ReadyMeansReady
  BY DEF Online, ReadyMeansReady
<1>4. QED BY <1>1, <1>2, <1>3, PTL DEF Spec

-----------------------------------------------------------------------------
(* Planning                                                                *)

(* An HLC begins to plan when it comes to StartPlanning, and then it has    *)
(* no planning that runs.                                                   *)
THEOREM PlanningCorrect == Spec => PlanningAlone
<1>1. ASSUME Types, [Next]_vars, NEW v \in Vehicle, planning'[v] = "running",
             planning[v] # "running"
      PROVE  planning[v] \in {"none", "done"}
  <2>1. planning \in [Vehicle -> Planning]
    BY <1>1 DEF Types, TypeOK
  <2>2. PICK u \in Vehicle : StartPlanning(u) \/ PreviousPlanning(u) \/ Planner(u)
    BY <1>1, Frames
  <2>3. ~PreviousPlanning(u)
    BY <1>1, <2>1 DEF PreviousPlanning
  <2>4. ~Planner(u)
    BY <1>1, <2>1 DEF Planner, SendCommand, FinishPlanning
  <2>5. u = v /\ hlc_pc[u] = "plan"
    BY <1>1, <2>1, <2>2, <2>3, <2>4 DEF StartPlanning
  <2>6. QED BY <1>1, <2>5 DEF Types
<1>2. Types /\ [Next]_vars =>
        [\A v \in Vehicle : planning'[v] = "running" /\ planning[v] # "running" =>
           planning[v] \in {"none", "done"}]_vars
  BY <1>1
<1>3. QED BY <1>2, TypesInit, TypesStep, PTL DEF Spec, PlanningAlone

-----------------------------------------------------------------------------
(* Goal states                                                             *)

LEMMA GoalsStay ==
  ASSUME GoalsApart, GoalsDistinct,
         UNCHANGED <<unsent, forwarded, buffered_goal_states, goal_batch, goal_queue>>
  PROVE  GoalsApart' /\ GoalsDistinct'
<1>1. /\ In(forwarded)' = In(forwarded) /\ In(buffered_goal_states)' = In(buffered_goal_states)
      /\ In(goal_batch)' = In(goal_batch) /\ In(goal_queue)' = In(goal_queue)
  BY DEF In
<1>2. GoalsApart'
  BY <1>1 DEF GoalsApart
<1>3. GoalsDistinct'
  BY DEF GoalsDistinct, Distinct
<1>4. QED BY <1>2, <1>3

(* The elements move from one holder to another; none is copied.           *)
LEMMA GoalsMove ==
  ASSUME Types, GoalsApart, GoalsDistinct, [Next]_vars
  PROVE  GoalsApart' /\ GoalsDistinct'
<1> USE DEF Types, TypeOK
<1>1. CASE UNCHANGED <<goal_vars, unsent>>
  BY <1>1, GoalsStay DEF goal_vars
<1>2. ASSUME NEW g \in Goal, SendGoal(g) PROVE GoalsApart' /\ GoalsDistinct'
  <2>1. g \in unsent /\ goal_queue \in Seq(Goal)
    BY <1>2 DEF SendGoal
  <2>2. /\ unsent' = unsent \ {g} /\ In(goal_queue)' = In(goal_queue) \cup {g}
        /\ g \notin In(goal_queue) /\ Distinct(goal_queue)'
    BY <1>2, <2>1, AppendDistinct DEF SendGoal, GoalsApart, GoalsDistinct
  <2>3. UNCHANGED <<forwarded, buffered_goal_states, goal_batch>>
    BY <1>2 DEF SendGoal
  <2>4. QED BY <2>1, <2>2, <2>3 DEF GoalsApart, GoalsDistinct
<1>3. CASE FlushGoals
  <2>1. /\ In(forwarded)' = In(forwarded) \cup In(buffered_goal_states)
        /\ Distinct(forwarded)'
    BY <1>3, ConcatDistinct DEF FlushGoals, GoalsApart, GoalsDistinct
  <2>2. In(buffered_goal_states)' = {} /\ Distinct(buffered_goal_states)'
    BY <1>3, NoElements DEF FlushGoals
  <2>3. UNCHANGED <<unsent, goal_batch, goal_queue>>
    BY <1>3 DEF FlushGoals, lcc_vars
  <2>4. QED BY <2>1, <2>2, <2>3 DEF GoalsApart, GoalsDistinct
<1>4. CASE TakeGoals
  <2>1. /\ In(goal_batch)' = In(goal_queue) /\ Distinct(goal_batch)'
        /\ In(goal_queue)' = {} /\ Distinct(goal_queue)'
    BY <1>4, NoElements DEF TakeGoals, GoalsDistinct
  <2>2. UNCHANGED <<unsent, forwarded, buffered_goal_states>>
    BY <1>4 DEF TakeGoals, lcc_vars
  <2>3. QED BY <2>1, <2>2 DEF GoalsApart, GoalsDistinct
<1>5. CASE TestOnline \/ ReleaseGoals
  <2>1. UNCHANGED <<unsent, forwarded, buffered_goal_states, goal_batch, goal_queue>>
    BY <1>5 DEF TestOnline, ReleaseGoals, lcc_vars
  <2>2. QED BY <2>1, GoalsStay
<1>6. CASE PassGoal
  <2> DEFINE g == Head(goal_batch)
  <2>1. /\ goal_batch # <<>> /\ UNCHANGED <<unsent, goal_queue>>
        /\ goal_batch' = Tail(goal_batch)
    BY <1>6 DEF PassGoal, lcc_vars
  <2>2. /\ In(goal_batch) = In(goal_batch)' \cup {g} /\ g \notin In(goal_batch)'
        /\ Distinct(goal_batch)' /\ g \in Goal
    BY <2>1, TailDistinct DEF GoalsDistinct
  <2>3. CASE goal_pc = "forward"
    <3>1. forwarded' = Append(forwarded, g) /\ UNCHANGED buffered_goal_states
      BY <1>6, <2>3 DEF PassGoal
    <3>2. In(forwarded)' = In(forwarded) \cup {g} /\ Distinct(forwarded)'
      BY <2>2, <3>1, AppendDistinct DEF GoalsApart, GoalsDistinct
    <3>3. QED BY <2>1, <2>2, <3>1, <3>2 DEF GoalsApart, GoalsDistinct
  <2>4. CASE goal_pc # "forward"
    <3>1. buffered_goal_states' = Append(buffered_goal_states, g) /\ UNCHANGED forwarded
      BY <1>6, <2>4 DEF PassGoal
    <3>2. /\ In(buffered_goal_states)' = In(buffered_goal_states) \cup {g}
          /\ Distinct(buffered_goal_states)'
      BY <2>2, <3>1, AppendDistinct DEF GoalsApart, GoalsDistinct
    <3>3. QED BY <2>1, <2>2, <3>1, <3>2 DEF GoalsApart, GoalsDistinct
  <2>5. QED BY <2>3, <2>4
<1>7. QED BY <1>1, <1>2, <1>3, <1>4, <1>5, <1>6, Frames

(* The flag is set before the timer thread waits for the mutex, so the      *)
(* reader that still found it clear has buffered before the flush.          *)
LEMMA BufferStep ==
  ASSUME Types, BufferEmptied, [Next]_vars
  PROVE  BufferEmptied'
<1>1. CASE AllOnline
  <2>1. mw_pc' = "flush"
    BY <1>1 DEF AllOnline
  <2>2. QED BY <2>1 DEF BufferEmptied
<1>2. CASE FlushGoals
  <2>1. goal_pc' = "idle" /\ buffered_goal_states' = <<>>
    BY <1>2 DEF FlushGoals
  <2>2. QED BY <2>1 DEF BufferEmptied
<1>3. CASE ~AllOnline /\ ~FlushGoals
  <2>1. all_hlc_online' = all_hlc_online
    BY <1>3, Frames
  <2>2. mw_pc' = "flush" <=> mw_pc = "flush"
    BY <1>3, Frames DEF TimerCallback, NextPeriod, AnnounceReady, CollectReady, SendToHLC,
       CheckHLCResponseTime
  <2>3. CASE UNCHANGED <<goal_vars, unsent>>
    BY <2>1, <2>2, <2>3 DEF goal_vars, BufferEmptied
  <2>4. ASSUME NEW g \in Goal, SendGoal(g) PROVE BufferEmptied'
    BY <2>1, <2>2, <2>4 DEF SendGoal, BufferEmptied
  <2>5. CASE TakeGoals \/ TestOnline \/ ReleaseGoals
    BY <2>1, <2>2, <2>5 DEF TakeGoals, TestOnline, ReleaseGoals, BufferEmptied
  <2>6. CASE PassGoal
    BY <2>1, <2>2, <2>6 DEF PassGoal, BufferEmptied
  <2>7. QED BY <1>3, <2>3, <2>4, <2>5, <2>6, Frames
<1>4. QED BY <1>1, <1>2, <1>3

(* What is in no two of the sequences is in their concatenation once.      *)
LEMMA OneSequence ==
  ASSUME Types, GoalsApart, GoalsDistinct
  PROVE  IsInjective(forwarded \o buffered_goal_states \o goal_batch \o goal_queue)
<1> DEFINE a == forwarded \o buffered_goal_states
           b == a \o goal_batch
           c == b \o goal_queue
<1>1. /\ forwarded \in Seq(Goal) /\ buffered_goal_states \in Seq(Goal)
      /\ goal_batch \in Seq(Goal) /\ goal_queue \in Seq(Goal)
  BY DEF Types, TypeOK
<1>2. /\ a \in Seq(Goal) /\ Distinct(a)
      /\ In(a) = In(forwarded) \cup In(buffered_goal_states)
  BY <1>1, ConcatDistinct DEF GoalsApart, GoalsDistinct
<1> HIDE DEF a
<1>3. /\ b \in Seq(Goal) /\ Distinct(b) /\ In(b) = In(a) \cup In(goal_batch)
  <2>1. In(a) \cap In(goal_batch) = {}
    BY <1>2 DEF GoalsApart
  <2>2. QED BY <1>1, <1>2, <2>1, ConcatDistinct DEF GoalsDistinct
<1> HIDE DEF b
<1>4. c \in Seq(Goal) /\ Distinct(c)
  <2>1. In(b) \cap In(goal_queue) = {}
    BY <1>2, <1>3 DEF GoalsApart
  <2>2. QED BY <1>1, <1>3, <2>1, ConcatDistinct DEF GoalsDistinct
<1> HIDE DEF c
<1>5. DOMAIN c = 1..Len(c)
  BY <1>4
<1>6. IsInjective(c)
  BY <1>4, <1>5 DEF IsInjective, Distinct
<1>7. QED BY <1>6 DEF a, b, c

(* A goal state is forwarded once, and none stays in the buffer, in         *)
(* whichever order the timer thread and the reader come to the flag and    *)
(* the mutex.                                                              *)
THEOREM GoalsCorrect == Spec => []GoalsOnce
<1>1. Init => Types /\ GoalsApart /\ GoalsDistinct /\ BufferEmptied
  BY TypesInit, NoElements DEF Init, GoalsApart, GoalsDistinct, BufferEmptied
<1>2. Types /\ GoalsApart /\ GoalsDistinct /\ BufferEmptied /\ [Next]_vars =>
        Types' /\ GoalsApart' /\ GoalsDistinct' /\ BufferEmptied'
  BY TypesStep, GoalsMove, BufferStep
<1>3. Types /\ GoalsApart /\ GoalsDistinct /\ BufferEmptied => GoalsOnce
  BY OneSequence DEF GoalsOnce, BufferEmptied
<1>4. QED BY <1>1, <1>2, <1>3, PTL DEF Spec

=============================================================================

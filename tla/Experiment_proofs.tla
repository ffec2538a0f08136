-------------------------- MODULE Experiment_proofs --------------------------
(***************************************************************************)
(* Proofs about Experiment: SimulatedTime, for every set of participants,  *)
(* every offset and period, any number of stopping threads and every       *)
(* horizon; and, for any number of HLCs and vehicles, what the middleware  *)
(* says of its HLCs and the paths that the LCC drives vehicles along, from *)
(* ControlLoop_proofs and DrawnPaths_proofs.                               *)
(***************************************************************************)
EXTENDS Experiment, TLAPS

USE OffsetAssumption, PeriodAssumption, KnownAssumption, SymbolAssumption

(* No trigger in the network lies ahead of the clock.                      *)
TriggersInPast ==
  \A p \in Participant :
    /\ trigger_wire[p] \in Nat => trigger_wire[p] <= current_simulated_time
    /\ trigger_cache[p] \in Nat => trigger_cache[p] <= current_simulated_time

(* No request lies ahead of the deadline of the participant that sent it,  *)
(* and a timer that was not started has its first deadline.                *)
RequestsBelow ==
  \A p \in Participant :
    /\ next_timestep[p] # None => next_timestep[p] <= deadline[p]
    /\ ready[p] # None => ready[p] <= deadline[p]
    /\ timer_pc[p] = "off" => deadline[p] = Offset[p]

(* The inductive invariant.                                                *)
IInv ==
  /\ TypeOK
  /\ TriggersInPast
  /\ RequestsBelow
  /\ PictureExact
  /\ StatusAgrees

-----------------------------------------------------------------------------
(* Every variable keeps its type: stamps are natural numbers, and None and *)
(* STOP are told apart from them.                                          *)
LEMMA TypeStep == TypeOK /\ [Next]_vars => TypeOK'
<1> SUFFICES ASSUME TypeOK, [Next]_vars PROVE TypeOK'
  OBVIOUS
<1> USE DEF TypeOK, LccPc, StopPc, TimerPc, Status
<1>1. CASE LccStep
  <2>1. CASE LeaveCollect \/ LoopTest \/ DrainEmpty \/ CheckSignals \/ SendNothing
    BY <2>1 DEF LeaveCollect, LoopTest, DrainEmpty, CheckSignals, SendNothing,
                dds_vars, timer_vars
  <2>2. ASSUME NEW p \in Participant, SendNextSignal(p) PROVE TypeOK'
    BY <2>2 DEF SendNextSignal, WriteTrigger, MarkWorking, timer_vars
  <2>3. QED BY <1>1, <2>1, <2>2 DEF LccStep
<1>2. ASSUME NEW batch \in SUBSET Participant, Obtain(batch) PROVE TypeOK'
  <2>1. ObtainNewReadySignals(batch) /\ lcc_pc' \in LccPc
    BY <1>2 DEF Obtain, Collect, Drain, Wait
  <2>2. /\ next_timestep' \in [Participant -> Nat \cup {None}]
        /\ participant_status' \in [Participant -> Status \cup {None}]
        /\ ready' \in [Participant -> Nat \cup {None}]
    BY <2>1 DEF ObtainNewReadySignals, Newer, StatusOf
  <2>3. QED BY <2>1, <2>2 DEF ObtainNewReadySignals, timer_vars
<1>3. CASE SendStartSignal
  BY <1>3 DEF SendStartSignal, dds_vars, timer_vars
<1>4. ASSUME NEW c \in Stopper, SendStopSignal(c) \/ HaltTimer(c) \/ Join(c)
      PROVE TypeOK'
  BY <1>4 DEF SendStopSignal, HaltTimer, Join, WriteTrigger, lcc_vars, dds_vars, timer_vars
<1>5. ASSUME NEW p \in Participant,
             DeliverTrigger(p) \/ DiscoverTriggerReader(p) \/ DiscoverReadyWriter(p)
      PROVE TypeOK'
  BY <1>5 DEF DeliverTrigger, DiscoverTriggerReader, DiscoverReadyWriter, lcc_vars, timer_vars
<1>6. ASSUME NEW p \in Participant, StartTimer(p) PROVE TypeOK'
  BY <1>6 DEF StartTimer, lcc_vars, dds_vars
<1>7. ASSUME NEW p \in Participant, TimerStep(p) PROVE TypeOK'
  <2>1. CASE Announce(p)
    BY <2>1 DEF Announce, WriteReady, lcc_vars
  <2>2. CASE AnnounceTimeout(p)
    BY <2>2 DEF AnnounceTimeout, lcc_vars, dds_vars
  <2>3. CASE BeginCallback(p) \/ TakeStop(p) \/ IgnoreTrigger(p)
    BY <2>3 DEF BeginCallback, TakeStop, IgnoreTrigger, TakeTrigger, lcc_vars
  <2>4. CASE EndCallback(p)
    <3>1. deadline[p] + Period[p] \in Nat
      OBVIOUS
    <3>2. QED BY <2>4, <3>1 DEF EndCallback, WriteReady, lcc_vars
  <2>5. QED BY <1>7, <2>1, <2>2, <2>3, <2>4 DEF TimerStep
<1>8. ASSUME NEW p \in Participant, Die(p) PROVE TypeOK'
  BY <1>8 DEF Die, lcc_vars
<1>9. CASE UNCHANGED vars
  BY <1>9 DEF vars, lcc_vars, dds_vars, timer_vars
<1>10. QED
  BY <1>1, <1>2, <1>3, <1>4, <1>5, <1>6, <1>7, <1>8, <1>9 DEF Next

LEMMA TypeInit == Init => TypeOK
<1> SUFFICES ASSUME Init PROVE TypeOK
  OBVIOUS
<1>1. /\ next_timestep \in [Participant -> Nat \cup {None}]
      /\ participant_status \in [Participant -> Status \cup {None}]
      /\ ready \in [Participant -> Nat \cup {None}]
  BY DEF Init
<1>2. /\ trigger_wire \in [Participant -> Nat \cup {None, Stop}]
      /\ trigger_cache \in [Participant -> Nat \cup {None, Stop}]
  BY DEF Init
<1>3. /\ timer_pc \in [Participant -> TimerPc]
      /\ stop_pc \in [Stopper -> StopPc]
      /\ current_time \in [Participant -> Nat]
  BY DEF Init, TimerPc, StopPc
<1>4. deadline \in [Participant -> Nat]
  BY DEF Init
<1>5. QED
  BY <1>1, <1>2, <1>3, <1>4 DEF Init, TypeOK, LccPc

THEOREM TypeCorrect == Spec => []TypeOK
BY TypeInit, TypeStep, PTL DEF Spec

-----------------------------------------------------------------------------
(* The LCC stores the samples that take() returned: the picture stays      *)
(* exact because a stored stamp is only replaced by a stamp of its sender. *)
LEMMA ObtainStep ==
  ASSUME NEW batch \in SUBSET Participant, IInv, Obtain(batch), TypeOK'
  PROVE  IInv'
<1>1. ObtainNewReadySignals(batch)
  BY DEF Obtain, Collect, Drain, Wait
<1>2. /\ UNCHANGED <<current_simulated_time, trigger_wire, trigger_cache>>
      /\ UNCHANGED <<timer_pc, deadline, current_time>>
  BY <1>1 DEF ObtainNewReadySignals, timer_vars
<1>3. TriggersInPast'
  BY <1>2 DEF IInv, TriggersInPast
<1>4. \A p \in Participant : /\ next_timestep'[p] \in {next_timestep[p], ready[p]}
                             /\ ready'[p] \in {ready[p], None}
  BY <1>1 DEF ObtainNewReadySignals, Newer
<1>5. RequestsBelow' /\ PictureExact'
  BY <1>2, <1>4 DEF IInv, TypeOK, RequestsBelow, PictureExact, Registered
<1>6. StatusAgrees'
  <2> SUFFICES ASSUME NEW p \in Participant, next_timestep'[p] # None
               PROVE  participant_status'[p] = StatusOf(next_timestep[p])'
    BY DEF StatusAgrees, Registered
  <2>1. CASE p \in Newer(batch)
    BY <1>1, <1>2, <2>1 DEF ObtainNewReadySignals, StatusOf, IInv, TypeOK
  <2>2. CASE p \notin Newer(batch)
    BY <1>1, <1>2, <2>2 DEF ObtainNewReadySignals, StatusOf, IInv, TypeOK, StatusAgrees, Registered
  <2>3. QED BY <2>1, <2>2
<1>7. QED BY <1>3, <1>5, <1>6 DEF IInv

(* The clock moves to the smallest request: every other stored request     *)
(* stays at or after it, so the past only grows.                           *)
LEMMA SendStep ==
  ASSUME NEW p \in Participant, IInv, SendNextSignal(p), TypeOK'
  PROVE  IInv'
<1> DEFINE t == next_timestep[p]
<1>1. /\ t \in Nat /\ current_simulated_time \in Nat
      /\ t >= current_simulated_time
      /\ current_simulated_time' = t
      /\ \A q \in Registered : t <= next_timestep[q]
      /\ UNCHANGED <<next_timestep, ready, trigger_cache, timer_pc, deadline, current_time>>
  BY DEF SendNextSignal, Smallest, timer_vars, IInv, TypeOK
<1>2. \A q \in Participant : trigger_wire'[q] \in {trigger_wire[q], t}
  BY DEF SendNextSignal, WriteTrigger
<1>3. TriggersInPast'
  BY <1>1, <1>2 DEF IInv, TypeOK, TriggersInPast
<1>4. RequestsBelow'
  BY <1>1 DEF IInv, RequestsBelow
<1>5. PictureExact'
  BY <1>1 DEF IInv, TypeOK, PictureExact, Registered
<1>6. StatusAgrees'
  <2> SUFFICES ASSUME NEW q \in Participant, next_timestep[q] # None
               PROVE  participant_status'[q] = StatusOf(next_timestep[q])'
    BY <1>1 DEF StatusAgrees, Registered
  <2>1. next_timestep[q] \in Nat /\ t <= next_timestep[q]
    BY <1>1 DEF IInv, TypeOK, Registered
  <2>2. CASE next_timestep[q] = t
    BY <1>1, <2>2 DEF SendNextSignal, MarkWorking, StatusOf
  <2>3. CASE next_timestep[q] # t
    <3>1. participant_status'[q] = participant_status[q]
      BY <2>3 DEF SendNextSignal, MarkWorking
    <3>2. participant_status[q] = "WAITING"
      BY <1>1, <2>1, <2>3 DEF IInv, StatusAgrees, Registered, StatusOf
    <3>3. QED BY <1>1, <2>1, <2>3, <3>1, <3>2 DEF StatusOf
  <2>4. QED BY <2>2, <2>3
<1>7. QED BY <1>3, <1>4, <1>5, <1>6 DEF IInv

(* A participant acts: it runs its callback only on a trigger for its own  *)
(* deadline, which lies in the past of the clock.                          *)
LEMMA ParticipantStep ==
  ASSUME NEW p \in Participant, IInv, StartTimer(p) \/ TimerStep(p) \/ Die(p), TypeOK'
  PROVE  IInv'
<1>1. UNCHANGED lcc_vars
  BY DEF TimerStep, StartTimer, Announce, AnnounceTimeout, BeginCallback, TakeStop,
         IgnoreTrigger, TakeTrigger, EndCallback, Die
<1>2. StatusAgrees'
  BY <1>1 DEF IInv, StatusAgrees, StatusOf, Registered, lcc_vars
<1>3. CASE StartTimer(p) \/ AnnounceTimeout(p) \/ Die(p)
  <2>1. /\ UNCHANGED <<trigger_wire, trigger_cache, deadline>>
        /\ \A q \in Participant : ready'[q] \in {ready[q], None}
        /\ \A q \in Participant : timer_pc'[q] \in {timer_pc[q], "announce", "dead"}
    BY <1>3 DEF StartTimer, AnnounceTimeout, Die, dds_vars, IInv, TypeOK, RequestsBelow
  <2>2. QED
    BY <1>1, <1>2, <2>1 DEF lcc_vars, IInv, TypeOK, TriggersInPast, RequestsBelow,
                            PictureExact, Registered
<1>4. CASE Announce(p)
  <2>1. /\ UNCHANGED <<trigger_wire, trigger_cache, deadline>>
        /\ \A q \in Participant : \/ ready'[q] = ready[q]
                                  \/ q = p /\ ready'[q] = deadline[p]
        /\ \A q \in Participant : timer_pc'[q] \in {timer_pc[q], "await_any"}
    BY <1>4 DEF Announce, WriteReady, IInv, TypeOK
  <2>2. QED
    BY <1>1, <1>2, <2>1 DEF lcc_vars, IInv, TypeOK, TriggersInPast, RequestsBelow,
                            PictureExact, Registered
<1>5. CASE BeginCallback(p) \/ TakeStop(p) \/ IgnoreTrigger(p)
  <2>1. /\ UNCHANGED <<trigger_wire, ready, deadline>>
        /\ \A q \in Participant : trigger_cache'[q] \in {trigger_cache[q], None}
        /\ \A q \in Participant : \/ timer_pc'[q] \in {timer_pc[q], "await", "over"}
                                  \/ /\ q = p /\ timer_pc'[q] = "callback"
                                     /\ trigger_cache[p] = deadline[p]
    BY <1>5 DEF BeginCallback, TakeStop, IgnoreTrigger, TakeTrigger, Matches, IInv, TypeOK
  <2>2. QED
    BY <1>1, <1>2, <2>1 DEF lcc_vars, IInv, TypeOK, TriggersInPast, RequestsBelow,
                            PictureExact, Registered
<1>6. CASE EndCallback(p)
  <2> DEFINE d == deadline[p] + Period[p]
  <2>1. /\ deadline[p] \in Nat /\ d \in Nat /\ deadline[p] < d
        /\ deadline[p] <= current_simulated_time
        /\ deadline' = [deadline EXCEPT ![p] = d]
        /\ UNCHANGED <<trigger_wire, trigger_cache>>
        /\ \A q \in Participant : \/ ready'[q] = ready[q]
                                  \/ q = p /\ ready'[q] = d
        /\ \A q \in Participant : \/ q # p /\ timer_pc'[q] = timer_pc[q]
                                  \/ q = p /\ timer_pc'[q] = "await"
    BY <1>6 DEF EndCallback, WriteReady, IInv, TypeOK, PictureExact
  <2>2. \A q \in Participant : \/ q # p /\ deadline'[q] = deadline[q]
                               \/ q = p /\ deadline'[q] = d
    BY <2>1 DEF IInv, TypeOK
  <2>3. TriggersInPast'
    BY <1>1, <2>1 DEF lcc_vars, IInv, TriggersInPast
  <2>4. RequestsBelow' /\ PictureExact'
    <3> SUFFICES ASSUME NEW q \in Participant
                 PROVE  /\ next_timestep[q] # None =>
                             /\ next_timestep[q] <= deadline'[q]
                             /\ \/ next_timestep[q] = deadline'[q]
                                \/ next_timestep[q] <= current_simulated_time
                        /\ ready'[q] # None =>
                             /\ ready'[q] <= deadline'[q]
                             /\ \/ ready'[q] = deadline'[q]
                                \/ ready'[q] <= current_simulated_time
                        /\ timer_pc'[q] = "off" => deadline'[q] = Offset[q]
                        /\ timer_pc'[q] = "callback" =>
                             deadline'[q] <= current_simulated_time
      BY <1>1 DEF lcc_vars, RequestsBelow, PictureExact, Registered
    <3>1. CASE q = p
      BY <2>1, <2>2, <3>1 DEF IInv, TypeOK, RequestsBelow, PictureExact, Registered
    <3>2. CASE q # p
      BY <2>1, <2>2, <3>2 DEF IInv, RequestsBelow, PictureExact, Registered
    <3>3. QED BY <3>1, <3>2
  <2>5. QED BY <1>2, <2>3, <2>4 DEF IInv
<1>7. QED BY <1>3, <1>4, <1>5, <1>6 DEF TimerStep

(* DDS moves samples, and threads of the LCC start and stop: none of them  *)
(* touches a request, and STOP is not an instant.                          *)
LEMMA OtherStep ==
  ASSUME IInv, TypeOK',
         \/ LeaveCollect \/ LoopTest \/ DrainEmpty \/ CheckSignals \/ SendNothing
         \/ SendStartSignal
         \/ \E c \in Stopper : SendStopSignal(c) \/ HaltTimer(c) \/ Join(c)
         \/ \E p \in Participant : \/ DeliverTrigger(p) \/ DiscoverTriggerReader(p)
                                   \/ DiscoverReadyWriter(p)
         \/ UNCHANGED vars
  PROVE  IInv'
<1>1. /\ UNCHANGED <<current_simulated_time, next_timestep, participant_status>>
      /\ UNCHANGED <<ready, timer_pc, deadline>>
  BY DEF LeaveCollect, LoopTest, DrainEmpty, CheckSignals, SendNothing, SendStartSignal,
         SendStopSignal, HaltTimer, Join, DeliverTrigger, DiscoverTriggerReader,
         DiscoverReadyWriter, vars, lcc_vars, dds_vars, timer_vars
<1>2. \A q \in Participant :
        /\ trigger_wire'[q] \in {trigger_wire[q], None, Stop}
        /\ trigger_cache'[q] \in {trigger_cache[q], trigger_wire[q]}
  BY DEF LeaveCollect, LoopTest, DrainEmpty, CheckSignals, SendNothing, SendStartSignal,
         SendStopSignal, HaltTimer, Join, DeliverTrigger, DiscoverTriggerReader,
         DiscoverReadyWriter, WriteTrigger, vars, dds_vars, IInv, TypeOK
<1>3. TriggersInPast'
  BY <1>1, <1>2 DEF IInv, TriggersInPast
<1>4. RequestsBelow' /\ PictureExact' /\ StatusAgrees'
  BY <1>1 DEF IInv, RequestsBelow, PictureExact, StatusAgrees, StatusOf, Registered
<1>5. QED BY <1>3, <1>4 DEF IInv

LEMMA IInvInit == Init => IInv
BY TypeInit DEF Init, IInv, TriggersInPast, RequestsBelow, PictureExact, StatusAgrees, Registered

LEMMA IInvStep == IInv /\ [Next]_vars => IInv'
<1> SUFFICES ASSUME IInv, [Next]_vars PROVE IInv'
  OBVIOUS
<1>1. TypeOK'
  BY TypeStep DEF IInv
<1>2. ASSUME NEW batch \in SUBSET Participant, Obtain(batch) PROVE IInv'
  BY <1>1, <1>2, ObtainStep
<1>3. ASSUME NEW p \in Participant, SendNextSignal(p) PROVE IInv'
  BY <1>1, <1>3, SendStep
<1>4. ASSUME NEW p \in Participant, StartTimer(p) \/ TimerStep(p) \/ Die(p) PROVE IInv'
  BY <1>1, <1>4, ParticipantStep
<1>5. QED
  BY <1>1, <1>2, <1>3, <1>4, OtherStep DEF Next, LccStep

LEMMA Inductive == Spec => []IInv
BY IInvInit, IInvStep, PTL DEF Spec

-----------------------------------------------------------------------------
(* The timer tab of the Lab Control Center shows the truth.                *)
THEOREM StatusCorrect == Spec => []StatusAgrees
<1>1. IInv => StatusAgrees
  BY DEF IInv
<1>2. QED BY <1>1, Inductive, PTL

(* The LCC's stored requests for the future are the real deadlines.        *)
THEOREM PictureCorrect == Spec => []PictureExact
<1>1. IInv => PictureExact
  BY DEF IInv
<1>2. QED BY <1>1, Inductive, PTL

(* The callbacks of the lab happen in the order of time.                   *)
THEOREM LockstepCorrect == Spec => []Lockstep
<1>1. IInv => Lockstep
  <2> SUFFICES ASSUME IInv, NEW p \in Participant, NEW q \in Participant,
                      timer_pc[p] = "callback", q \in Registered,
                      participant_status[q] # "OUT_OF_SYNC"
               PROVE  deadline[p] <= deadline[q]
    BY DEF Lockstep
  <2>1. deadline[p] <= current_simulated_time
    BY DEF IInv, PictureExact
  <2>2. next_timestep[q] >= current_simulated_time
    BY DEF IInv, TypeOK, StatusAgrees, StatusOf, Registered
  <2>3. next_timestep[q] <= deadline[q]
    BY DEF IInv, RequestsBelow, Registered
  <2>4. QED BY <2>1, <2>2, <2>3 DEF IInv, TypeOK, Registered
<1>2. QED BY <1>1, Inductive, PTL

(* When the clock moves to t, the stored requests are all real deadlines   *)
(* at or after t, and those in a callback are behind the old time.         *)
LEMMA TickStep ==
  ASSUME IInv, NEW p \in Participant, SendNextSignal(p),
         current_simulated_time' # current_simulated_time
  PROVE  /\ current_simulated_time' = deadline[p]
         /\ current_simulated_time' > current_simulated_time
         /\ p \in Registered
         /\ \A q \in Registered : /\ timer_pc[q] # "callback"
                                  /\ current_simulated_time' <= deadline[q]
<1>1. /\ p \in Registered
      /\ current_simulated_time' = next_timestep[p]
      /\ current_simulated_time' > current_simulated_time
      /\ \A q \in Registered : current_simulated_time' <= next_timestep[q]
  BY DEF SendNextSignal, Smallest, Registered, IInv, TypeOK
<1>2. \A q \in Registered : next_timestep[q] = deadline[q] /\ next_timestep[q] \in Nat
  BY <1>1 DEF IInv, TypeOK, PictureExact, Registered
<1>3. \A q \in Registered : timer_pc[q] # "callback"
  BY <1>1, <1>2 DEF IInv, TypeOK, PictureExact, Registered
<1>4. QED BY <1>1, <1>2, <1>3

(* Only the LCC moves the clock.                                           *)
LEMMA OnlySendMovesClock ==
  ASSUME [Next]_vars, current_simulated_time' # current_simulated_time
  PROVE  \E p \in Participant : SendNextSignal(p)
BY DEF Next, LccStep, Obtain, Collect, Drain, Wait, ObtainNewReadySignals, LeaveCollect,
       LoopTest, DrainEmpty, CheckSignals, SendNothing, SendStartSignal, SendStopSignal,
       HaltTimer, Join, DeliverTrigger, DiscoverTriggerReader, DiscoverReadyWriter,
       StartTimer, TimerStep, Announce, AnnounceTimeout, BeginCallback, TakeStop,
       IgnoreTrigger, TakeTrigger, EndCallback, Die, vars, lcc_vars, dds_vars, timer_vars

(* The clock waits for every participant the LCC knows.                    *)
THEOREM ClockWaitsCorrect == Spec => ClockWaits
<1> DEFINE Changes == current_simulated_time' # current_simulated_time
           Waits == /\ \A p \in Registered : /\ timer_pc[p] # "callback"
                                             /\ current_simulated_time' <= deadline[p]
                    /\ \E p \in Registered : current_simulated_time' = deadline[p]
<1>1. IInv /\ [Next]_vars => [Changes => Waits]_vars
  <2> SUFFICES ASSUME IInv, [Next]_vars, Changes PROVE Waits
    OBVIOUS
  <2>1. PICK p \in Participant : SendNextSignal(p)
    BY OnlySendMovesClock
  <2>2. QED BY <2>1, TickStep
<1>2. QED BY <1>1, Inductive, PTL DEF Spec, ClockWaits

-----------------------------------------------------------------------------
(* Every step of the implementation is a step of the logical clock, or     *)
(* leaves now, member, due and busy alone.                                 *)
LEMMA LogicalStep ==
  ASSUME IInv, IInv', [Next]_vars
  PROVE  [Logical!Next]_(Logical!vars)
<1> DEFINE Busy == {p \in Participant : timer_pc[p] = "callback"}
<1> USE DEF Logical!vars, Logical!Next
<1>1. ASSUME NEW batch \in SUBSET Participant, Obtain(batch)
      PROVE  Logical!Next
  <2>1. ObtainNewReadySignals(batch)
    BY <1>1 DEF Obtain, Collect, Drain, Wait
  <2>2. /\ UNCHANGED <<current_simulated_time, deadline, timer_pc>>
        /\ next_timestep \in [Participant -> Nat \cup {None}]
        /\ next_timestep' \in [Participant -> Nat \cup {None}]
        /\ \A p \in Participant : ready[p] = None => p \notin batch
        /\ \A p \in Participant : next_timestep'[p] \in {next_timestep[p], ready[p]}
        /\ \A p \in Participant : next_timestep'[p] # next_timestep[p] => p \in batch
    BY <2>1 DEF ObtainNewReadySignals, Newer, timer_vars, IInv, TypeOK
  <2>3. Registered' = Registered \cup (Registered' \ Registered)
    BY <2>2 DEF Registered
  <2>4. Logical!Join(Registered' \ Registered)
    BY <2>2, <2>3 DEF Logical!Join
  <2>5. Registered' \ Registered \in SUBSET Participant
    BY DEF Registered
  <2>6. QED BY <2>4, <2>5
<1>2. ASSUME NEW p \in Participant, SendNextSignal(p)
      PROVE  Logical!Next \/ UNCHANGED Logical!vars
  <2>1. UNCHANGED <<next_timestep, deadline, timer_pc>>
    BY <1>2 DEF SendNextSignal, timer_vars
  <2>2. CASE current_simulated_time' = current_simulated_time
    BY <2>1, <2>2 DEF Registered
  <2>3. CASE current_simulated_time' # current_simulated_time
    <3>1. Logical!Tick(deadline[p]) /\ p \in Registered
      BY <1>2, <2>1, <2>3, TickStep DEF Logical!Tick, Registered
    <3>2. QED BY <3>1
  <2>4. QED BY <2>2, <2>3
<1>3. ASSUME NEW p \in Participant, BeginCallback(p)
      PROVE  Logical!Next
  <2>1. /\ UNCHANGED <<current_simulated_time, next_timestep, deadline>>
        /\ timer_pc' = [timer_pc EXCEPT ![p] = "callback"]
        /\ timer_pc[p] # "callback" /\ timer_pc \in [Participant -> TimerPc]
        /\ deadline'[p] <= current_simulated_time'
    BY <1>3 DEF BeginCallback, TakeTrigger, lcc_vars, IInv, TypeOK, PictureExact
  <2>2. Logical!Begin(p)
    BY <2>1 DEF Logical!Begin, Registered
  <2>3. QED BY <2>2
<1>4. ASSUME NEW p \in Participant, EndCallback(p)
      PROVE  Logical!Next
  <2>1. /\ UNCHANGED <<current_simulated_time, next_timestep>>
        /\ deadline' = [deadline EXCEPT ![p] = @ + Period[p]]
        /\ timer_pc' = [timer_pc EXCEPT ![p] = "await"]
        /\ timer_pc[p] = "callback" /\ timer_pc \in [Participant -> TimerPc]
    BY <1>4 DEF EndCallback, lcc_vars, IInv, TypeOK
  <2>2. Logical!End(p)
    BY <2>1 DEF Logical!End, Registered
  <2>3. QED BY <2>2
<1>5. ASSUME NEW p \in Participant, Die(p)
      PROVE  Logical!Next \/ UNCHANGED Logical!vars
  <2>1. /\ UNCHANGED <<current_simulated_time, next_timestep, deadline>>
        /\ timer_pc' = [timer_pc EXCEPT ![p] = "dead"]
        /\ timer_pc \in [Participant -> TimerPc]
    BY <1>5 DEF Die, lcc_vars, IInv, TypeOK
  <2>2. CASE timer_pc[p] = "callback"
    <3>1. Logical!Abandon(p)
      BY <2>1, <2>2 DEF Logical!Abandon, Registered
    <3>2. QED BY <3>1
  <2>3. CASE timer_pc[p] # "callback"
    BY <2>1, <2>3 DEF Registered
  <2>4. QED BY <2>2, <2>3
<1>6. ASSUME NEW p \in Participant,
             \/ StartTimer(p) \/ Announce(p) \/ AnnounceTimeout(p)
             \/ TakeStop(p) \/ IgnoreTrigger(p)
      PROVE  UNCHANGED Logical!vars
  <2>1. /\ UNCHANGED <<current_simulated_time, next_timestep, deadline>>
        /\ timer_pc[p] # "callback" /\ timer_pc \in [Participant -> TimerPc]
        /\ \E l \in TimerPc \ {"callback"} : timer_pc' = [timer_pc EXCEPT ![p] = l]
    <3>0. timer_pc \in [Participant -> TimerPc]
      BY DEF IInv, TypeOK
    <3>1. CASE StartTimer(p)
      <4>1. deadline' = deadline
        BY <3>1 DEF StartTimer, IInv, TypeOK, RequestsBelow
      <4>2. QED BY <3>0, <3>1, <4>1 DEF StartTimer, lcc_vars, TimerPc
    <3>2. CASE Announce(p)
      BY <3>0, <3>2 DEF Announce, lcc_vars, TimerPc
    <3>3. CASE AnnounceTimeout(p)
      BY <3>0, <3>3 DEF AnnounceTimeout, lcc_vars, TimerPc
    <3>4. CASE TakeStop(p)
      <4>1. CASE p \in KeepsRunning
        BY <3>0, <3>4, <4>1 DEF TakeStop, TakeTrigger, lcc_vars, TimerPc
      <4>2. CASE p \notin KeepsRunning
        BY <3>0, <3>4, <4>2 DEF TakeStop, TakeTrigger, lcc_vars, TimerPc
      <4>3. QED BY <4>1, <4>2
    <3>5. CASE IgnoreTrigger(p)
      BY <3>0, <3>5 DEF IgnoreTrigger, TakeTrigger, lcc_vars, TimerPc
    <3>6. QED BY <1>6, <3>1, <3>2, <3>3, <3>4, <3>5
  <2>2. QED BY <2>1 DEF Registered
<1>7. ASSUME \/ LeaveCollect \/ LoopTest \/ DrainEmpty \/ CheckSignals \/ SendNothing
             \/ SendStartSignal
             \/ \E c \in Stopper : SendStopSignal(c) \/ HaltTimer(c) \/ Join(c)
             \/ \E p \in Participant : \/ DeliverTrigger(p) \/ DiscoverTriggerReader(p)
                                       \/ DiscoverReadyWriter(p)
             \/ UNCHANGED vars
      PROVE  UNCHANGED Logical!vars
  <2>1. UNCHANGED <<current_simulated_time, next_timestep, timer_pc, deadline>>
    BY <1>7 DEF LeaveCollect, LoopTest, DrainEmpty, CheckSignals, SendNothing,
         SendStartSignal, SendStopSignal, HaltTimer, Join, DeliverTrigger,
         DiscoverTriggerReader, DiscoverReadyWriter, vars, lcc_vars, dds_vars, timer_vars
  <2>2. QED BY <2>1 DEF Registered
<1>8. QED
  BY <1>1, <1>2, <1>3, <1>4, <1>5, <1>6, <1>7 DEF Next, LccStep, TimerStep

(* The TimerTrigger and its participants implement the logical clock.      *)
THEOREM Refinement == Spec => ImplementsLogicalTime
<1>1. Init => Logical!Init
  BY DEF Init, Logical!Init, Registered
<1>2. IInv /\ IInv' /\ [Next]_vars => [Logical!Next]_(Logical!vars)
  BY LogicalStep
<1>3. QED
  BY <1>1, <1>2, Inductive, PTL DEF Spec, ImplementsLogicalTime, Logical!Spec

-----------------------------------------------------------------------------
(* Who is matched stays matched; and once such a timer has announced       *)
(* itself, its request is stored or on its way until it is killed.         *)
Announced ==
  \A p \in Known :
    /\ p \in heard_ready
    /\ timer_pc[p] \in {"await_any", "await", "callback"} =>
         next_timestep[p] # None \/ ready[p] # None

(* A sample that take() has returned is stored, or an older one was.       *)
LEMMA AnnouncedObtain ==
  ASSUME NEW batch \in SUBSET Participant, TypeOK, Announced, Obtain(batch)
  PROVE  Announced'
<1>1. ObtainNewReadySignals(batch)
  BY DEF Obtain, Collect, Drain, Wait
<1>2. UNCHANGED <<heard_ready, timer_pc>>
  BY <1>1 DEF ObtainNewReadySignals, timer_vars
<1>3. \A p \in Participant : next_timestep[p] # None \/ ready[p] # None =>
                             next_timestep'[p] # None \/ ready'[p] # None
  BY <1>1 DEF ObtainNewReadySignals, Newer, TypeOK
<1>4. QED BY <1>2, <1>3 DEF Announced

(* A timer gets past its announcement only by writing its request, and the *)
(* LCC hears it.                                                           *)
LEMMA AnnouncedParticipant ==
  ASSUME NEW p \in Participant, TypeOK, Announced, StartTimer(p) \/ TimerStep(p) \/ Die(p)
  PROVE  Announced'
<1> USE DEF Announced, TypeOK
<1>1. UNCHANGED <<next_timestep, heard_ready>>
  BY DEF TimerStep, StartTimer, Announce, AnnounceTimeout, BeginCallback, TakeStop,
         IgnoreTrigger, TakeTrigger, EndCallback, Die, lcc_vars, dds_vars
<1>2. CASE StartTimer(p) \/ AnnounceTimeout(p)
  <2>1. /\ UNCHANGED ready
        /\ \A q \in Participant : timer_pc'[q] \in {timer_pc[q], "announce"}
    BY <1>2 DEF StartTimer, AnnounceTimeout, dds_vars
  <2>2. QED BY <1>1, <2>1
<1>3. CASE Die(p)
  <2>1. \A q \in Participant : \/ q = p /\ timer_pc'[q] = "dead"
                               \/ timer_pc'[q] = timer_pc[q] /\ ready'[q] = ready[q]
    BY <1>3 DEF Die
  <2>2. QED BY <1>1, <2>1
<1>4. CASE BeginCallback(p) \/ TakeStop(p) \/ IgnoreTrigger(p)
  <2>1. /\ UNCHANGED ready
        /\ timer_pc[p] \in {"await_any", "await"}
        /\ \A q \in Participant : q # p => timer_pc'[q] = timer_pc[q]
    BY <1>4 DEF BeginCallback, TakeStop, IgnoreTrigger, TakeTrigger
  <2>2. QED BY <1>1, <2>1
<1>5. CASE Announce(p) \/ EndCallback(p)
  <2>1. \A q \in Participant : q # p => timer_pc'[q] = timer_pc[q] /\ ready'[q] = ready[q]
    BY <1>5 DEF Announce, EndCallback, WriteReady
  <2>2. p \in heard_ready => ready'[p] # None
    <3>1. deadline[p] # None /\ deadline[p] + Period[p] # None
      <4>1. deadline[p] \in Nat /\ deadline[p] + Period[p] \in Nat
        OBVIOUS
      <4>2. QED BY <4>1
    <3>2. QED BY <1>5, <3>1 DEF Announce, EndCallback, WriteReady
  <2>3. QED BY <1>1, <2>1, <2>2
<1>6. QED BY <1>2, <1>3, <1>4, <1>5 DEF TimerStep

LEMMA AnnouncedStep == TypeOK /\ Announced /\ [Next]_vars => Announced'
<1> SUFFICES ASSUME TypeOK, Announced, [Next]_vars PROVE Announced'
  OBVIOUS
<1>1. CASE \/ LccStep \/ SendStartSignal
           \/ \E c \in Stopper : SendStopSignal(c) \/ HaltTimer(c) \/ Join(c)
           \/ \E p \in Participant : \/ DeliverTrigger(p) \/ DiscoverTriggerReader(p)
                                     \/ DiscoverReadyWriter(p)
           \/ UNCHANGED vars
  <2>1. /\ UNCHANGED <<next_timestep, ready, timer_pc>>
        /\ heard_ready \subseteq heard_ready'
    BY <1>1 DEF LccStep, LeaveCollect, LoopTest, DrainEmpty, CheckSignals, SendNothing,
         SendNextSignal, SendStartSignal, SendStopSignal, HaltTimer, Join, DeliverTrigger,
         DiscoverTriggerReader, DiscoverReadyWriter, vars, lcc_vars, dds_vars, timer_vars
  <2>2. QED BY <2>1 DEF Announced
<1>2. QED BY <1>1, AnnouncedObtain, AnnouncedParticipant DEF Next

(* Discovery cannot leave a timer behind that was matched in time.         *)
THEOREM NoOrphanCorrect == Spec => []NoOrphan
<1>1. Init => Announced
  BY DEF Init, Announced
<1>2. Announced => NoOrphan
  BY DEF Announced, NoOrphan, Orphan, Registered
<1>3. QED BY <1>1, <1>2, AnnouncedStep, TypeCorrect, PTL DEF Spec

-----------------------------------------------------------------------------
(* ControlLoop and DrawnPaths: what ControlLoop_proofs and                 *)
(* DrawnPaths_proofs prove holds of Loops and Paths, as all definitions of *)
(* theirs are the same.                                                    *)
LoopProofs == INSTANCE ControlLoop_proofs WITH
  Vehicle <- Hlc, ready <- hlc_ready, trigger <- hlc_trigger
PathProofs == INSTANCE DrawnPaths_proofs WITH Horizon <- LastTime

LEMMA LoopsInit == Loops!Init <=> LoopProofs!Init
BY DEF Loops!Init, LoopProofs!Init

LEMMA LoopsNext == [Loops!Next]_Loops!vars <=> [LoopProofs!Next]_LoopProofs!vars
BY
  DEF Loops!Next, LoopProofs!Next, Loops!vars, LoopProofs!vars, Loops!SendStart,
      LoopProofs!SendStart, Loops!SendStop, LoopProofs!SendStop, Loops!SendGoal,
      LoopProofs!SendGoal, Loops!TimerCallback, LoopProofs!TimerCallback, Loops!Reader,
      LoopProofs!Reader, Loops!HandleCommand, LoopProofs!HandleCommand, Loops!Communicator,
      LoopProofs!Communicator, Loops!Planner, LoopProofs!Planner, Loops!lcc_vars,
      LoopProofs!lcc_vars, Loops!online, LoopProofs!online, Loops!goal_vars, LoopProofs!goal_vars,
      Loops!local_vars, LoopProofs!local_vars, Loops!hlc_vars, LoopProofs!hlc_vars,
      Loops!NextPeriod, LoopProofs!NextPeriod, Loops!AnnounceReady, LoopProofs!AnnounceReady,
      Loops!CollectReady, LoopProofs!CollectReady, Loops!AllOnline, LoopProofs!AllOnline,
      Loops!FlushGoals, LoopProofs!FlushGoals, Loops!SendToHLC, LoopProofs!SendToHLC,
      Loops!CheckHLCResponseTime, LoopProofs!CheckHLCResponseTime, Loops!PassThroughSystemTrigger,
      LoopProofs!PassThroughSystemTrigger, Loops!TakeGoals, LoopProofs!TakeGoals,
      Loops!TestOnline, LoopProofs!TestOnline, Loops!PassGoal, LoopProofs!PassGoal,
      Loops!ReleaseGoals, LoopProofs!ReleaseGoals, Loops!BeforeControlLoop,
      LoopProofs!BeforeControlLoop, Loops!SendReadyMessage, LoopProofs!SendReadyMessage,
      Loops!WaitForSystemTrigger, LoopProofs!WaitForSystemTrigger, Loops!TakeStateList,
      LoopProofs!TakeStateList, Loops!PreviousPlanning, LoopProofs!PreviousPlanning,
      Loops!JoinPlanning, LoopProofs!JoinPlanning, Loops!StartPlanning, LoopProofs!StartPlanning,
      Loops!StopSignalReceived, LoopProofs!StopSignalReceived, Loops!OnStop, LoopProofs!OnStop,
      Loops!SendCommand, LoopProofs!SendCommand, Loops!FinishPlanning, LoopProofs!FinishPlanning,
      Loops!Goto, LoopProofs!Goto

LEMMA PathsInit == Paths!Init <=> PathProofs!Init
BY DEF Paths!Init, PathProofs!Init, Paths!NoPath, PathProofs!NoPath, Paths!Never, PathProofs!Never,
    Paths!Halt, PathProofs!Halt

LEMMA PathsNext == [Paths!Next]_Paths!vars <=> [PathProofs!Next]_PathProofs!vars
<1>1. Paths!StartDrawing <=> PathProofs!StartDrawing
  BY
  DEF Paths!StartDrawing, PathProofs!StartDrawing, Paths!ClickTime, PathProofs!ClickTime,
      Paths!Press, PathProofs!Press, Paths!readers, PathProofs!readers
<1>2. Paths!PressAnother <=> PathProofs!PressAnother
  BY
  DEF Paths!PressAnother, PathProofs!PressAnother, Paths!Press, PathProofs!Press, Paths!readers,
      PathProofs!readers
<1>3. Paths!Release <=> PathProofs!Release
  BY
  DEF Paths!Release, PathProofs!Release, Paths!Click, PathProofs!Click, Paths!SetPath,
      PathProofs!SetPath, Paths!readers, PathProofs!readers, Paths!ClickTime, PathProofs!ClickTime
<1>4. Paths!GoToStartPoses <=> PathProofs!GoToStartPoses
  BY
  DEF Paths!GoToStartPoses, PathProofs!GoToStartPoses, Paths!Click, PathProofs!Click,
      Paths!readers, PathProofs!readers, Paths!ClickTime, PathProofs!ClickTime
<1>5. Paths!Kill <=> PathProofs!Kill
  BY
  DEF Paths!Kill, PathProofs!Kill, Paths!Click, PathProofs!Click, Paths!StopVehicles,
      PathProofs!StopVehicles, Paths!StopAll, PathProofs!StopAll, Paths!readers,
      PathProofs!readers, Paths!ClickTime, PathProofs!ClickTime, Paths!Everyone,
      PathProofs!Everyone, Paths!StopCommands, PathProofs!StopCommands, Paths!NoPath,
      PathProofs!NoPath
<1>6. Paths!PostKillCleanup <=> PathProofs!PostKillCleanup
  BY
  DEF Paths!PostKillCleanup, PathProofs!PostKillCleanup, Paths!StopAll, PathProofs!StopAll,
      Paths!readers, PathProofs!readers, Paths!NoPath, PathProofs!NoPath
<1>7. Paths!Deploy <=> PathProofs!Deploy
  BY
  DEF Paths!Deploy, PathProofs!Deploy, Paths!Click, PathProofs!Click, Paths!StopAll,
      PathProofs!StopAll, Paths!readers, PathProofs!readers, Paths!ClickTime,
      PathProofs!ClickTime, Paths!NoPath, PathProofs!NoPath
<1>8. Paths!StartJoystick <=> PathProofs!StartJoystick
  BY
  DEF Paths!StartJoystick, PathProofs!StartJoystick, Paths!Click, PathProofs!Click, Paths!readers,
      PathProofs!readers, Paths!ClickTime, PathProofs!ClickTime
<1>9. Paths!StopJoystick <=> PathProofs!StopJoystick
  BY
  DEF Paths!StopJoystick, PathProofs!StopJoystick, Paths!Click, PathProofs!Click, Paths!readers,
      PathProofs!readers, Paths!ClickTime, PathProofs!ClickTime
<1>10. Paths!PlanPath <=> PathProofs!PlanPath
  BY
  DEF Paths!PlanPath, PathProofs!PlanPath, Paths!SetPath, PathProofs!SetPath, Paths!DelayFor,
      PathProofs!DelayFor, Paths!Duration, PathProofs!Duration, Paths!readers, PathProofs!readers,
      Paths!Standstill, PathProofs!Standstill
<1>11. Paths!PlannedAll <=> PathProofs!PlannedAll
  BY
  DEF Paths!PlannedAll, PathProofs!PlannedAll, Paths!readers, PathProofs!readers
<1>12. Paths!Tick <=> PathProofs!Tick
  <2>1. \A s : Paths!Cardinality(s) = PathProofs!Cardinality(s)
    BY Zenon DEF Paths!Cardinality, PathProofs!Cardinality
  <2>2. QED BY <2>1
  DEF Paths!Tick, PathProofs!Tick, Paths!Newest, PathProofs!Newest, Paths!Follow,
      PathProofs!Follow, Paths!Sent, PathProofs!Sent, Paths!Stopped, PathProofs!Stopped,
      Paths!Valid, PathProofs!Valid, Paths!max_comm_delay, PathProofs!max_comm_delay,
      Paths!command_timeout, PathProofs!command_timeout, Paths!Prediction, PathProofs!Prediction,
      Paths!FreshDirect, PathProofs!FreshDirect, Paths!Joystick, PathProofs!Joystick,
      Paths!FreshStop, PathProofs!FreshStop, Paths!Halt, PathProofs!Halt, Paths!NoPath,
      PathProofs!NoPath, Paths!SendTrajectory, PathProofs!SendTrajectory, Paths!Smaller,
      PathProofs!Smaller, Paths!MaxPoints, PathProofs!MaxPoints, Paths!End, PathProofs!End,
      Paths!Timely, PathProofs!Timely, Paths!Duration, PathProofs!Duration, Paths!t_min_lead,
      PathProofs!t_min_lead, Paths!t_command_timeout, PathProofs!t_command_timeout,
      Paths!Standstill, PathProofs!Standstill
<1>20. QED
  BY <1>1, <1>2, <1>3, <1>4, <1>5, <1>6, <1>7, <1>8, <1>9, <1>10, <1>11, <1>12
  DEF Paths!Next, PathProofs!Next, Paths!vars, PathProofs!vars, Paths!lcc, PathProofs!lcc,
      Paths!readers, PathProofs!readers

(* The middleware calls itself ready, and forwards goal states, only when  *)
(* all HLCs of the NUC have been through before_control_loop.              *)
THEOREM ReadyCorrect == Loops!Spec => []ReadyMeansReady
<1>1. LoopProofs!Spec => []LoopProofs!TypeOK
  BY LoopProofs!TypeCorrect, LoopsAssumption
<1>2. LoopProofs!Spec => []LoopProofs!ReadyMeansReady
  BY LoopProofs!ReadyCorrect, LoopsAssumption
<1>3. LoopProofs!TypeOK /\ LoopProofs!ReadyMeansReady => ReadyMeansReady
  BY DEF ReadyMeansReady, LoopProofs!TypeOK, Loops!TypeOK, LoopProofs!ReadyMeansReady,
         Loops!ReadyMeansReady, LoopProofs!LccState, Loops!LccState, LoopProofs!MwPc, Loops!MwPc,
         LoopProofs!GoalPc, Loops!GoalPc, LoopProofs!Signal, Loops!Signal, LoopProofs!HlcPc,
         Loops!HlcPc, LoopProofs!Planning, Loops!Planning
<1>4. QED
  BY <1>1, <1>2, <1>3, LoopsInit, LoopsNext, PTL DEF Loops!Spec, LoopProofs!Spec

(* A vehicle that the LCC drives has its path in time, and its own one;    *)
(* after a click on kill none moves, and none takes up a path erased then; *)
(* to the start poses they go one after the other.                         *)
THEOREM PathsCorrect == Paths!Spec => []PathsSafe
<1>1. PathProofs!Parameters /\ Losses < PathProofs!command_timeout
  <2>1. IsFiniteSet(Vehicle) <=> PathProofs!IsFiniteSet(Vehicle)
    BY Zenon DEF IsFiniteSet, PathProofs!IsFiniteSet
  <2>2. QED
    BY <2>1, PathsAssumption DEF PathProofs!Parameters, PathProofs!command_timeout,
                                 Paths!command_timeout
<1>2. PathProofs!Spec => []PathProofs!TypeOK
  BY <1>1, PathProofs!TypesCorrect
<1>3. PathProofs!Spec => []PathProofs!PathDriven
  BY <1>1, PathProofs!DrivenCorrect
<1>4. PathProofs!Spec => []PathProofs!PathOfItsVehicle
  BY <1>1, PathProofs!OwnersCorrect
<1>5. PathProofs!Spec => []PathProofs!StopHolds
  BY <1>1, PathProofs!StopCorrect
<1>6. PathProofs!Spec => []PathProofs!ErasedStaysErased
  BY <1>1, PathProofs!ErasedCorrect
<1>7. PathProofs!Spec => []PathProofs!OneAtATime
  BY <1>1, PathProofs!OneCorrect
<1>8. PathProofs!TypeOK => Paths!TypeOK
  BY DEF Paths!TypeOK, PathProofs!TypeOK, Paths!Time, PathProofs!Time, Paths!Path,
         PathProofs!Path, Paths!Command, PathProofs!Command, Paths!OffTime, PathProofs!OffTime,
         Paths!NoPath, PathProofs!NoPath, Paths!StopCommands, PathProofs!StopCommands,
         Paths!Halt, PathProofs!Halt, Paths!Joystick, PathProofs!Joystick
<1>9. /\ PathProofs!PathDriven => Paths!PathDriven
      /\ PathProofs!PathOfItsVehicle => Paths!PathOfItsVehicle
      /\ PathProofs!StopHolds => Paths!StopHolds
      /\ PathProofs!ErasedStaysErased => Paths!ErasedStaysErased
      /\ PathProofs!OneAtATime => Paths!OneAtATime
  BY DEF Paths!PathDriven, PathProofs!PathDriven, Paths!Moving, PathProofs!Moving,
         Paths!Standstill, PathProofs!Standstill, Paths!NoPath, PathProofs!NoPath, Paths!Halt,
         PathProofs!Halt, Paths!command_timeout, PathProofs!command_timeout,
         Paths!PathOfItsVehicle, PathProofs!PathOfItsVehicle, Paths!Drives, PathProofs!Drives,
         Paths!StopHolds, PathProofs!StopHolds, Paths!Reached, PathProofs!Reached,
         Paths!Outlived, PathProofs!Outlived, Paths!ErasedStaysErased,
         PathProofs!ErasedStaysErased, Paths!OneAtATime, PathProofs!OneAtATime
<1>10. QED
  BY <1>2, <1>3, <1>4, <1>5, <1>6, <1>7, <1>8, <1>9, PathsInit, PathsNext, PTL
     DEF Paths!Spec, PathProofs!Spec, PathsSafe
=============================================================================

---------------------------- MODULE ControlLoop ----------------------------
(***************************************************************************)
(* One NUC of the lab: the middleware (middleware/src) between the Lab     *)
(* Control Center and the high level controllers, each of which runs an    *)
(* HLCCommunicator (cpm_lib/src/HLCCommunicator.cpp).                      *)
(*                                                                         *)
(* Processes: the timer thread of the middleware, its asynchronous readers *)
(* (system trigger, goal states, commands), the LCC that starts and stops  *)
(* the experiment, and per HLC the thread in start() and the thread that   *)
(* std::async plans in.  Time is not counted: what matters of a time stamp *)
(* is whether a list or an answer belongs to the current period.           *)
(***************************************************************************)
EXTENDS Naturals, Sequences, SequencesExt

CONSTANTS
  Vehicle,     (* assigned vehicle ids, one HLC for each                   *)
  Simulated,   (* simulated_time                                           *)
  Cancels,     (* HLCs that registered on_cancel_timestep                  *)
  Goal         (* goal states the LCC sends once                           *)

ASSUME SimulatedAssumption == Simulated \in BOOLEAN
ASSUME CancelsAssumption == Cancels \subseteq Vehicle

VARIABLES
  (* LCC *)
  lcc,                  (* has it started or stopped the experiment        *)
  lcc_trigger,          (* system triggers on their way to the middleware  *)
  unsent,               (* goal states it has not sent yet                 *)
  (* middleware *)
  mw_pc,                (* where the timer callback is                     *)
  timer_due,            (* the next period or instant has come             *)
  hlc_online, all_hlc_online, experiment_triggered,
  mw_ready,             (* it has announced "MW for muCars ... ready."     *)
  answered,             (* HLCs whose last response time is the current one*)
  goal_pc,              (* where the reader of goal states is: it holds    *)
                        (* hlc_goal_state_writer_mutex unless it is idle   *)
  goal_queue,           (* goal states not taken by the reader             *)
  goal_batch,           (* goal states the reader is handling              *)
  buffered_goal_states,
  (* the local DDS domain between middleware and HLCs *)
  forwarded,            (* goal states written to the HLCs                 *)
  ready,                (* HLC ready messages not taken yet                *)
  list,                 (* HLCs with a vehicle state list to take          *)
  trigger,              (* system trigger each HLC can take, KEEP_LAST(1)  *)
  command,              (* HLCs with a command on its way                  *)
  (* HLC *)
  hlc_pc,
  planning              (* what planning_future stands for                 *)

lcc_vars == <<lcc, lcc_trigger, unsent>>
online == <<hlc_online, all_hlc_online, experiment_triggered, mw_ready>>
goal_vars == <<goal_pc, goal_queue, goal_batch, buffered_goal_states, forwarded>>
local_vars == <<ready, list, trigger, command>>
hlc_vars == <<hlc_pc, planning>>
vars == <<lcc_vars, mw_pc, timer_due, online, answered, goal_vars, local_vars, hlc_vars>>

LccState == {"idle", "started", "stopped"}
MwPc == {"sleep", "check", "flush", "send", "respond", "over"}
GoalPc == {"idle", "test", "forward", "buffer"}
Signal == {"start", "stop"}
HlcPc == {"before", "ready", "await_trigger", "loop", "previous", "join", "plan",
          "check_stop", "on_stop", "ended"}
Planning == {"none", "running", "sent", "done"}

TypeOK ==
  /\ lcc \in LccState
  /\ lcc_trigger \in Seq(Signal)
  /\ unsent \subseteq Goal
  /\ mw_pc \in MwPc
  /\ timer_due \in BOOLEAN
  /\ hlc_online \subseteq Vehicle
  /\ all_hlc_online \in BOOLEAN /\ experiment_triggered \in BOOLEAN /\ mw_ready \in BOOLEAN
  /\ answered \subseteq Vehicle
  /\ goal_pc \in GoalPc
  /\ goal_queue \in Seq(Goal) /\ goal_batch \in Seq(Goal)
  /\ goal_batch # <<>> => goal_pc # "idle"
  /\ buffered_goal_states \in Seq(Goal) /\ forwarded \in Seq(Goal)
  /\ ready \subseteq Vehicle /\ list \subseteq Vehicle /\ command \subseteq Vehicle
  /\ trigger \in [Vehicle -> Signal \cup {"none"}]
  /\ hlc_pc \in [Vehicle -> HlcPc]
  /\ planning \in [Vehicle -> Planning]

Init ==
  /\ lcc = "idle" /\ lcc_trigger = <<>> /\ unsent = Goal
  /\ mw_pc = "sleep"
  /\ timer_due = ~Simulated
  /\ hlc_online = {} /\ all_hlc_online = FALSE
  /\ experiment_triggered = FALSE /\ mw_ready = FALSE
  /\ answered = {}
  /\ goal_pc = "idle" /\ goal_queue = <<>> /\ goal_batch = <<>>
  /\ buffered_goal_states = <<>> /\ forwarded = <<>>
  /\ ready = {} /\ list = {} /\ command = {}
  /\ trigger = [v \in Vehicle |-> "none"]
  /\ hlc_pc = [v \in Vehicle |-> "before"]
  /\ planning = [v \in Vehicle |-> "none"]

-----------------------------------------------------------------------------
(* The Lab Control Center, as the middleware sees it.                      *)

(* The start signal; in simulated time an instant of the middleware, which *)
(* comes when the middleware is ready for it (SimulatedTime).              *)
SendStart ==
  /\ IF Simulated THEN lcc # "stopped" /\ mw_pc = "sleep" /\ ~timer_due
                  ELSE lcc = "idle"
  /\ lcc' = "started"
  /\ timer_due' = TRUE
  /\ lcc_trigger' = Append(lcc_trigger, "start")
  /\ UNCHANGED <<unsent, mw_pc, online, answered, goal_vars, local_vars, hlc_vars>>

SendStop ==
  /\ lcc # "stopped"
  /\ lcc' = "stopped"
  /\ lcc_trigger' = Append(lcc_trigger, "stop")
  /\ UNCHANGED <<unsent, mw_pc, timer_due, online, answered, goal_vars, local_vars,
                 hlc_vars>>

SendGoal(g) ==
  /\ g \in unsent
  /\ unsent' = unsent \ {g}
  /\ goal_queue' = Append(goal_queue, g)
  /\ UNCHANGED <<lcc, lcc_trigger, mw_pc, timer_due, online, answered, goal_pc,
                 goal_batch, buffered_goal_states, forwarded, local_vars, hlc_vars>>

-----------------------------------------------------------------------------
(* The timer callback of the middleware (main.cpp).                        *)

(* A period begins: no HLC has answered in it yet.                         *)
NextPeriod ==
  /\ mw_pc = "sleep" /\ timer_due
  /\ timer_due' = ~Simulated
  /\ answered' = {}
  /\ mw_pc' = "check"
  /\ UNCHANGED <<lcc_vars, online, goal_vars, local_vars, hlc_vars>>

(* check_hlcs_online: everybody is known to be online; until the first     *)
(* system trigger the LCC is told so in every period.                      *)
AnnounceReady ==
  /\ mw_pc = "check" /\ all_hlc_online
  /\ mw_ready' = (mw_ready \/ ~experiment_triggered)
  /\ mw_pc' = "send"
  /\ UNCHANGED <<lcc_vars, timer_due, hlc_online, all_hlc_online, experiment_triggered,
                 answered, goal_vars, local_vars, hlc_vars>>

(* Somebody is missing: the ready messages of the HLCs are taken.          *)
CollectReady ==
  /\ mw_pc = "check" /\ ~all_hlc_online
  /\ ~(Vehicle \subseteq hlc_online)
  /\ hlc_online' = hlc_online \cup ready
  /\ ready' = {}
  /\ mw_pc' = "send"
  /\ UNCHANGED <<lcc_vars, timer_due, all_hlc_online, experiment_triggered, mw_ready,
                 answered, goal_vars, list, trigger, command, hlc_vars>>

(* Nobody is missing.  As AllOnline, for a middleware content with one HLC. *)
SomeOnline ==
  /\ mw_pc = "check" /\ ~all_hlc_online
  /\ hlc_online # {}
  /\ all_hlc_online' = TRUE
  /\ mw_pc' = "flush"
  /\ UNCHANGED <<lcc_vars, timer_due, hlc_online, experiment_triggered, mw_ready,
                 answered, goal_vars, local_vars, hlc_vars>>

(* Nobody is missing: the flag is set before the mutex is taken.           *)
AllOnline ==
  /\ mw_pc = "check" /\ ~all_hlc_online
  /\ Vehicle \subseteq hlc_online
  /\ all_hlc_online' = TRUE
  /\ mw_pc' = "flush"
  /\ UNCHANGED <<lcc_vars, timer_due, hlc_online, experiment_triggered, mw_ready,
                 answered, goal_vars, local_vars, hlc_vars>>

(* As FlushGoals, without hlc_goal_state_writer_mutex.                      *)
FlushUnlocked ==
  /\ mw_pc = "flush"
  /\ forwarded' = forwarded \o buffered_goal_states
  /\ buffered_goal_states' = <<>>
  /\ mw_pc' = "send"
  /\ UNCHANGED <<lcc_vars, timer_due, online, answered, goal_pc, goal_queue,
                 goal_batch, local_vars, hlc_vars>>

(* The buffered goal states are written, under the mutex.                  *)
FlushGoals ==
  /\ mw_pc = "flush" /\ goal_pc = "idle"
  /\ forwarded' = forwarded \o buffered_goal_states
  /\ buffered_goal_states' = <<>>
  /\ mw_pc' = "send"
  /\ UNCHANGED <<lcc_vars, timer_due, online, answered, goal_pc, goal_queue,
                 goal_batch, local_vars, hlc_vars>>

(* sendToHLC: an unread list gives way to the new one.                     *)
SendToHLC ==
  /\ mw_pc = "send"
  /\ list' = Vehicle
  /\ mw_pc' = "respond"
  /\ UNCHANGED <<lcc_vars, timer_due, online, answered, goal_vars, ready, trigger,
                 command, hlc_vars>>

(* checkHLCResponseTime: real time only logs who is late; simulated time   *)
(* waits until everybody has answered.  Then the timer looks for a stop    *)
(* signal that may have reached it, and ends.                              *)
CheckHLCResponseTime ==
  /\ mw_pc = "respond"
  /\ Simulated => answered = Vehicle
  /\ mw_pc' \in IF lcc = "stopped" THEN {"sleep", "over"} ELSE {"sleep"}
  /\ UNCHANGED <<lcc_vars, timer_due, online, answered, goal_vars, local_vars, hlc_vars>>

TimerCallback ==
  \/ NextPeriod \/ AnnounceReady \/ CollectReady \/ AllOnline \/ FlushGoals
  \/ SendToHLC \/ CheckHLCResponseTime

-----------------------------------------------------------------------------
(* The asynchronous readers of the middleware.                             *)

PassThroughSystemTrigger ==
  /\ lcc_trigger # <<>>
  /\ lcc_trigger' = Tail(lcc_trigger)
  /\ trigger' = [v \in Vehicle |-> Head(lcc_trigger)]
  /\ experiment_triggered' = TRUE
  /\ UNCHANGED <<lcc, unsent, mw_pc, timer_due, hlc_online, all_hlc_online, mw_ready,
                 answered, goal_vars, ready, list, command, hlc_vars>>

(* pass_through_goal_states takes what has arrived and the mutex; ...      *)
TakeGoals ==
  /\ goal_pc = "idle" /\ goal_queue # <<>>
  /\ goal_pc' = "test"
  /\ goal_batch' = goal_queue
  /\ goal_queue' = <<>>
  /\ UNCHANGED <<lcc_vars, mw_pc, timer_due, online, answered, buffered_goal_states,
                 forwarded, local_vars, hlc_vars>>

(* ... for each sample it looks at the flag ...                            *)
TestOnline ==
  /\ goal_pc = "test" /\ goal_batch # <<>>
  /\ goal_pc' = IF all_hlc_online THEN "forward" ELSE "buffer"
  /\ UNCHANGED <<lcc_vars, mw_pc, timer_due, online, answered, goal_queue, goal_batch,
                 buffered_goal_states, forwarded, local_vars, hlc_vars>>

(* ... and writes it or remembers it; ...                                  *)
PassGoal ==
  /\ goal_pc \in {"forward", "buffer"}
  /\ goal_pc' = "test"
  /\ goal_batch' = Tail(goal_batch)
  /\ IF goal_pc = "forward"
     THEN /\ forwarded' = Append(forwarded, Head(goal_batch))
          /\ UNCHANGED buffered_goal_states
     ELSE /\ buffered_goal_states' = Append(buffered_goal_states, Head(goal_batch))
          /\ UNCHANGED forwarded
  /\ UNCHANGED <<lcc_vars, mw_pc, timer_due, online, answered, goal_queue, local_vars,
                 hlc_vars>>

(* ... then it unlocks.                                                    *)
ReleaseGoals ==
  /\ goal_pc = "test" /\ goal_batch = <<>>
  /\ goal_pc' = "idle"
  /\ UNCHANGED <<lcc_vars, mw_pc, timer_due, online, answered, goal_queue, goal_batch,
                 buffered_goal_states, forwarded, local_vars, hlc_vars>>

(* TypedCommunication::handler: whatever command comes now is an answer of *)
(* the current period.                                                     *)
HandleCommand(v) ==
  /\ v \in command
  /\ command' = command \ {v}
  /\ answered' = answered \cup {v}
  /\ UNCHANGED <<lcc_vars, mw_pc, timer_due, online, goal_vars, ready, list, trigger,
                 hlc_vars>>

Reader ==
  \/ PassThroughSystemTrigger
  \/ TakeGoals \/ TestOnline \/ PassGoal \/ ReleaseGoals

-----------------------------------------------------------------------------
(* HLCCommunicator::start.                                                 *)

Goto(v, pc) == hlc_pc' = [hlc_pc EXCEPT ![v] = pc]

(* before_control_loop gets the first list, and may ask for another one.   *)
BeforeControlLoop(v, hlc_is_ready) ==
  /\ hlc_pc[v] = "before" /\ v \in list
  /\ list' = list \ {v}
  /\ Goto(v, IF hlc_is_ready THEN "ready" ELSE "before")
  /\ UNCHANGED <<lcc_vars, mw_pc, timer_due, online, answered, goal_vars, ready, trigger,
                 command, planning>>

SendReadyMessage(v) ==
  /\ hlc_pc[v] = "ready"
  /\ ready' = ready \cup {v}
  /\ Goto(v, "await_trigger")
  /\ UNCHANGED <<lcc_vars, mw_pc, timer_due, online, answered, goal_vars, list, trigger,
                 command, planning>>

(* As WaitForSystemTrigger, for a communicator that takes any trigger for a *)
(* start.                                                                   *)
WaitForAnyTrigger(v) ==
  /\ hlc_pc[v] = "await_trigger" /\ trigger[v] # "none"
  /\ trigger' = [trigger EXCEPT ![v] = "none"]
  /\ Goto(v, "loop")
  /\ UNCHANGED <<lcc_vars, mw_pc, timer_due, online, answered, goal_vars, ready, list,
                 command, planning>>

WaitForSystemTrigger(v) ==
  /\ hlc_pc[v] = "await_trigger" /\ trigger[v] # "none"
  /\ trigger' = [trigger EXCEPT ![v] = "none"]
  /\ Goto(v, IF trigger[v] = "stop" THEN "on_stop" ELSE "loop")
  /\ UNCHANGED <<lcc_vars, mw_pc, timer_due, online, answered, goal_vars, ready, list,
                 command, planning>>

(* The control loop takes a list, if there is one, ...                     *)
TakeStateList(v) ==
  /\ hlc_pc[v] = "loop"
  /\ list' = list \ {v}
  /\ Goto(v, IF v \notin list THEN "check_stop"
             ELSE IF planning[v] = "none" THEN "plan" ELSE "previous")
  /\ UNCHANGED <<lcc_vars, mw_pc, timer_due, online, answered, goal_vars, ready, trigger,
                 command, planning>>

(* ... runTimestep looks at the planning of the last timestep: if it is    *)
(* not ready within a millisecond, on_cancel_timestep cuts it short (it    *)
(* may stop without a command) or is not there; ...                        *)
PreviousPlanning(v) ==
  /\ hlc_pc[v] = "previous"
  /\ Goto(v, "join")
  /\ planning' \in IF planning[v] = "running" /\ v \in Cancels
                   THEN {planning, [planning EXCEPT ![v] = "done"]} ELSE {planning}
  /\ UNCHANGED <<lcc_vars, mw_pc, timer_due, online, answered, goal_vars, local_vars>>

(* As JoinPlanning, for a communicator that does not wait for a planning it *)
(* has cancelled.                                                           *)
ForgetPlanning(v) ==
  /\ hlc_pc[v] = "join"
  /\ planning[v] = "done" \/ v \in Cancels
  /\ Goto(v, "plan")
  /\ UNCHANGED <<lcc_vars, mw_pc, timer_due, online, answered, goal_vars, local_vars,
                 planning>>

(* ... planning_future.get() waits for its end; ...                        *)
JoinPlanning(v) ==
  /\ hlc_pc[v] = "join"
  /\ planning[v] = "done"
  /\ Goto(v, "plan")
  /\ UNCHANGED <<lcc_vars, mw_pc, timer_due, online, answered, goal_vars, local_vars,
                 planning>>

(* ... and std::async starts on_each_timestep with the new list.           *)
StartPlanning(v) ==
  /\ hlc_pc[v] = "plan"
  /\ planning' = [planning EXCEPT ![v] = "running"]
  /\ Goto(v, "check_stop")
  /\ UNCHANGED <<lcc_vars, mw_pc, timer_due, online, answered, goal_vars, local_vars>>

StopSignalReceived(v) ==
  /\ hlc_pc[v] = "check_stop"
  /\ trigger' = [trigger EXCEPT ![v] = "none"]
  /\ Goto(v, IF trigger[v] = "stop" THEN "on_stop" ELSE "loop")
  /\ UNCHANGED <<lcc_vars, mw_pc, timer_due, online, answered, goal_vars, ready, list,
                 command, planning>>

(* on_stop runs, and start() returns.                                      *)
OnStop(v) ==
  /\ hlc_pc[v] = "on_stop"
  /\ Goto(v, "ended")
  /\ UNCHANGED <<lcc_vars, mw_pc, timer_due, online, answered, goal_vars, local_vars,
                 planning>>

(* on_each_timestep, in its thread: it writes a command ...                *)
SendCommand(v) ==
  /\ planning[v] = "running"
  /\ planning' = [planning EXCEPT ![v] = "sent"]
  /\ command' = command \cup {v}
  /\ UNCHANGED <<lcc_vars, mw_pc, timer_due, online, answered, goal_vars, ready, list,
                 trigger, hlc_pc>>

(* ... and returns.                                                        *)
FinishPlanning(v) ==
  /\ planning[v] = "sent"
  /\ planning' = [planning EXCEPT ![v] = "done"]
  /\ UNCHANGED <<lcc_vars, mw_pc, timer_due, online, answered, goal_vars, local_vars,
                 hlc_pc>>

Communicator(v) ==
  \/ \E hlc_is_ready \in BOOLEAN : BeforeControlLoop(v, hlc_is_ready)
  \/ SendReadyMessage(v) \/ WaitForSystemTrigger(v) \/ TakeStateList(v)
  \/ PreviousPlanning(v) \/ JoinPlanning(v) \/ StartPlanning(v)
  \/ StopSignalReceived(v) \/ OnStop(v)

Planner(v) == SendCommand(v) \/ FinishPlanning(v)

-----------------------------------------------------------------------------
Next ==
  \/ SendStart
  \/ SendStop
  \/ \E g \in Goal : SendGoal(g)
  \/ TimerCallback
  \/ Reader
  \/ \E v \in Vehicle : HandleCommand(v) \/ Communicator(v) \/ Planner(v)

Spec == Init /\ [][Next]_vars

(* The threads are scheduled, the callbacks of the HLC return, and         *)
(* before_control_loop succeeds when it is asked again and again.  The     *)
(* user of the LCC need not press anything.                                *)
FairSpec ==
  /\ Spec
  /\ WF_vars(TimerCallback)
  /\ WF_vars(PassThroughSystemTrigger)
  /\ WF_vars(TakeGoals) /\ WF_vars(TestOnline \/ PassGoal) /\ WF_vars(ReleaseGoals)
  /\ SF_vars(FlushGoals)
  /\ \A v \in Vehicle :
       /\ WF_vars(HandleCommand(v))
       /\ SF_vars(BeforeControlLoop(v, TRUE))
       /\ WF_vars(Communicator(v))
       /\ WF_vars(Planner(v))

-----------------------------------------------------------------------------
(* PROPERTIES                                                              *)

(* The middleware calls itself ready, and forwards goal states, only when  *)
(* the last of its HLCs has been through before_control_loop.              *)
ReadyMeansReady ==
  mw_ready \/ forwarded # <<>> =>
    \A v \in Vehicle : hlc_pc[v] \notin {"before", "ready"}

(* Every goal state is forwarded once, and none is left in the buffer when *)
(* the middleware has flushed it, in whichever order the timer thread and  *)
(* the reader come to the flag and the mutex.                              *)
GoalsOnce ==
  /\ IsInjective(forwarded \o buffered_goal_states \o goal_batch \o goal_queue)
  /\ all_hlc_online /\ mw_pc # "flush" => buffered_goal_states = <<>>

(* A goal state that was sent before the HLCs were there reaches them,     *)
(* unless the experiment is stopped first.                                 *)
GoalsArrive ==
  \A g \in Goal : g \notin unsent ~> Contains(forwarded, g) \/ lcc = "stopped"

(* An HLC plans one timestep at a time, cancelled or not.                  *)
PlanningAlone ==
  [][\A v \in Vehicle :
       planning'[v] = "running" /\ planning[v] # "running" =>
         planning[v] \in {"none", "done"}]_vars

(* The stop signal ends an HLC that has told it is ready, in its control   *)
(* loop as well as before the start signal, planning or not.               *)
StopEndsHLC ==
  \A v \in Vehicle :
    lcc = "stopped" /\ hlc_pc[v] # "before" ~> hlc_pc[v] = "ended"

(* start() "will block until all planning is finished, e.g. if someone     *)
(* pressed the stop or kill button in the LCC" (HLCCommunicator.hpp).      *)
StopEndsStart == \A v \in Vehicle : lcc = "stopped" ~> hlc_pc[v] = "ended"

(* The list is a "go" signal for the HLC to "start computation ... and     *)
(* return its result as soon as possible" (Communication.hpp): a period of *)
(* the middleware comes to its end.                                        *)
ListIsAnswered == mw_pc = "respond" ~> mw_pc # "respond"

=============================================================================

--------------------------- MODULE SimulatedTime ---------------------------
(***************************************************************************)
(* Simulated time as the CPM Lab implements it: the TimerTrigger of the    *)
(* Lab Control Center (lab_control_center/src/TimerTrigger.cpp) drives the *)
(* TimerSimulated objects of the participants (cpm_lib/src/                *)
(* TimerSimulated.cpp) over two DDS topics, readyStatus and systemTrigger. *)
(*                                                                         *)
(* Processes: the next_signal_thread of the TimerTrigger, the threads of   *)
(* the Lab Control Center that stop it (the GTK thread and the reader      *)
(* thread of the stopRequest topic), one timer per participant, and DDS,   *)
(* which discovers end points and moves samples.                           *)
(***************************************************************************)
EXTENDS Naturals

CONSTANTS
  Participant,    (* the programs that own a TimerSimulated                *)
  Offset,         (* offset_nanoseconds of each of them                    *)
  Period,         (* period_nanoseconds of each of them                    *)
  KeepsRunning,   (* those that registered a stop callback (vehicles do)   *)
  Mortal,         (* those whose process the experiment may kill           *)
  Known,          (* those whose DDS end points match from the beginning   *)
  Stopper,        (* threads that may stop the TimerTrigger                *)
  Horizon,        (* bound: the clock is not moved past this instant       *)
  None, Stop      (* no sample; TRIGGER_STOP_SYMBOL                        *)

ASSUME OffsetAssumption == Offset \in [Participant -> Nat]
ASSUME PeriodAssumption == Period \in [Participant -> Nat \ {0}]
ASSUME KnownAssumption == Known \subseteq Participant
ASSUME SymbolAssumption == None \notin Nat /\ Stop \notin Nat /\ None # Stop

VARIABLES
  (* TimerTrigger *)
  lcc_pc,                  (* where next_signal_thread is                  *)
  timer_running,
  simulation_started,
  current_simulated_time,
  next_timestep,           (* ready_status_storage[id].next_timestep       *)
  participant_status,      (* ready_status_storage[id].participant_status  *)
  stop_pc,                 (* where each stopping thread is                *)
  (* DDS *)
  ready,          (* readyStatus sample on its way to the LCC, per writer  *)
  trigger_wire,   (* systemTrigger sample on its way, per reader           *)
  trigger_cache,  (* systemTrigger sample not yet taken, per reader        *)
  hears_trigger,  (* readers the systemTrigger writer has discovered       *)
  heard_ready,    (* readyStatus writers the LCC's reader has discovered   *)
  (* TimerSimulated *)
  timer_pc, deadline, current_time

lcc_vars == <<lcc_pc, timer_running, simulation_started,
              current_simulated_time, next_timestep, participant_status>>
dds_vars == <<ready, trigger_wire, trigger_cache, hears_trigger, heard_ready>>
timer_vars == <<timer_pc, deadline, current_time>>
vars == <<lcc_vars, stop_pc, dds_vars, timer_vars>>

Registered == {p \in Participant : next_timestep[p] # None}

LccPc == {"collect", "loop", "drain", "check", "send", "wait", "done"}
StopPc == {"idle", "stop_sent", "join", "returned"}
TimerPc == {"off", "announce", "await_any", "await", "callback", "over", "dead"}
Status == {"WAITING", "OUT_OF_SYNC", "WORKING"}

TypeOK ==
  /\ lcc_pc \in LccPc
  /\ timer_running \in BOOLEAN
  /\ simulation_started \in BOOLEAN
  /\ current_simulated_time \in Nat
  /\ next_timestep \in [Participant -> Nat \cup {None}]
  /\ participant_status \in [Participant -> Status \cup {None}]
  /\ stop_pc \in [Stopper -> StopPc]
  /\ ready \in [Participant -> Nat \cup {None}]
  /\ trigger_wire \in [Participant -> Nat \cup {None, Stop}]
  /\ trigger_cache \in [Participant -> Nat \cup {None, Stop}]
  /\ hears_trigger \subseteq Participant
  /\ heard_ready \subseteq Participant
  /\ timer_pc \in [Participant -> TimerPc]
  /\ deadline \in [Participant -> Nat]
  /\ current_time \in [Participant -> Nat]

Init ==
  /\ lcc_pc = "collect"
  /\ timer_running = TRUE
  /\ simulation_started = FALSE
  /\ current_simulated_time = 0
  /\ next_timestep = [p \in Participant |-> None]
  /\ participant_status = [p \in Participant |-> None]
  /\ stop_pc = [c \in Stopper |-> "idle"]
  /\ ready = [p \in Participant |-> None]
  /\ trigger_wire = [p \in Participant |-> None]
  /\ trigger_cache = [p \in Participant |-> None]
  /\ hears_trigger = Known
  /\ heard_ready = Known
  /\ timer_pc = [p \in Participant |-> "off"]
  /\ deadline = Offset
  /\ current_time = [p \in Participant |-> 0]

-----------------------------------------------------------------------------
(* DDS.  Both topics are RELIABLE, VOLATILE and not keyed; the trigger is  *)
(* KEEP_LAST(1) on both ends, so an undelivered or untaken sample gives    *)
(* way to the next one.  The LCC's ready reader is KEEP_ALL, but           *)
(* obtain_new_ready_signals keeps the highest stamp of an id, and the      *)
(* stamps of one timer only grow: the newest sample stands for all.        *)

(* system_trigger_writer.write(t)                                          *)
WriteTrigger(t) ==
  trigger_wire' = [p \in Participant |->
                     IF p \in hears_trigger THEN t ELSE trigger_wire[p]]

(* writer_ready_status.write(t) by p; lost if the LCC is not matched yet   *)
WriteReady(p, t) ==
  ready' = IF p \in heard_ready THEN [ready EXCEPT ![p] = t] ELSE ready

(* A trigger enters the cache of its reader.                               *)
DeliverTrigger(p) ==
  /\ trigger_wire[p] # None
  /\ trigger_cache' = [trigger_cache EXCEPT ![p] = trigger_wire[p]]
  /\ trigger_wire' = [trigger_wire EXCEPT ![p] = None]
  /\ UNCHANGED <<lcc_vars, stop_pc, ready, hears_trigger, heard_ready, timer_vars>>

(* Discovery matches the two topics independently of each other.           *)
DiscoverTriggerReader(p) ==
  /\ p \notin hears_trigger
  /\ hears_trigger' = hears_trigger \cup {p}
  /\ UNCHANGED <<lcc_vars, stop_pc, ready, trigger_wire, trigger_cache,
                 heard_ready, timer_vars>>

DiscoverReadyWriter(p) ==
  /\ p \notin heard_ready
  /\ heard_ready' = heard_ready \cup {p}
  /\ UNCHANGED <<lcc_vars, stop_pc, ready, trigger_wire, trigger_cache,
                 hears_trigger, timer_vars>>

-----------------------------------------------------------------------------
(* TimerTrigger: the next_signal_thread.                                   *)

(* As StatusOf, for an LCC that was started without --simulated_time.       *)
RealtimeStatus(stamp) == "REALTIME"

(* The status of a participant that asks for stamp.                        *)
StatusOf(stamp) ==
  IF stamp = current_simulated_time THEN "WORKING"
  ELSE IF stamp < current_simulated_time THEN "OUT_OF_SYNC"
  ELSE "WAITING"

(* As Newer, for an LCC that does not store who is out of sync.            *)
InSync(batch) == {p \in batch : ready[p] >= current_simulated_time}

(* The samples of obtain_new_ready_signals that are stored: a stamp older  *)
(* than the stored one is only logged.                                     *)
Newer(batch) ==
  {p \in batch : next_timestep[p] # None => ready[p] >= next_timestep[p]}

(* obtain_new_ready_signals, when take() returns the samples of batch      *)
ObtainNewReadySignals(batch) ==
  /\ \A p \in batch : ready[p] # None
  /\ next_timestep' = [p \in Participant |->
       IF p \in Newer(batch) THEN ready[p] ELSE next_timestep[p]]
  /\ participant_status' = [p \in Participant |->
       IF p \in Newer(batch) THEN StatusOf(ready[p]) ELSE participant_status[p]]
  /\ ready' = [p \in Participant |-> IF p \in batch THEN None ELSE ready[p]]
  /\ UNCHANGED <<timer_running, simulation_started, current_simulated_time,
                 stop_pc, trigger_wire, trigger_cache, hears_trigger,
                 heard_ready, timer_vars>>

(* Before the start the participants are only collected for the UI.        *)
Collect(batch) ==
  /\ lcc_pc = "collect"
  /\ ~simulation_started /\ timer_running
  /\ batch # {}
  /\ ObtainNewReadySignals(batch)
  /\ UNCHANGED lcc_pc

LeaveCollect ==
  /\ lcc_pc = "collect"
  /\ simulation_started \/ ~timer_running
  /\ lcc_pc' = "loop"
  /\ UNCHANGED <<timer_running, simulation_started, current_simulated_time,
                 next_timestep, participant_status, stop_pc, dds_vars, timer_vars>>

(* As LoopTest, for a loop that does not look at timer_running.             *)
LoopForever ==
  /\ lcc_pc = "loop"
  /\ lcc_pc' = "drain"
  /\ UNCHANGED <<timer_running, simulation_started, current_simulated_time,
                 next_timestep, participant_status, stop_pc, dds_vars, timer_vars>>

(* while (timer_running)                                                    *)
LoopTest ==
  /\ lcc_pc = "loop"
  /\ lcc_pc' = IF timer_running THEN "drain" ELSE "done"
  /\ UNCHANGED <<timer_running, simulation_started, current_simulated_time,
                 next_timestep, participant_status, stop_pc, dds_vars, timer_vars>>

Drain(batch) ==
  /\ lcc_pc = "drain"
  /\ batch # {}
  /\ ObtainNewReadySignals(batch)
  /\ UNCHANGED lcc_pc

DrainEmpty ==
  /\ lcc_pc = "drain"
  /\ lcc_pc' = "check"
  /\ UNCHANGED <<timer_running, simulation_started, current_simulated_time,
                 next_timestep, participant_status, stop_pc, dds_vars, timer_vars>>

(* check_signals_and_send_next_signal looks at timer_running once ...      *)
CheckSignals ==
  /\ lcc_pc = "check"
  /\ lcc_pc' = IF timer_running THEN "send" ELSE "wait"
  /\ UNCHANGED <<timer_running, simulation_started, current_simulated_time,
                 next_timestep, participant_status, stop_pc, dds_vars, timer_vars>>

(* As Smallest, for an LCC that takes the first entry of its map.          *)
AnyRequest(t) == TRUE

(* t is a minimum of the requests stored.                                  *)
Smallest(t) == \A p \in Registered : t <= next_timestep[p]

(* ... finds nobody, or somebody out of sync, and sends nothing (nor does  *)
(* the bounded model beyond its horizon), ...                              *)
SendNothing ==
  /\ lcc_pc = "send"
  /\ \A p \in Registered :
       Smallest(next_timestep[p]) => \/ next_timestep[p] < current_simulated_time
                                     \/ next_timestep[p] > Horizon
  /\ lcc_pc' = "wait"
  /\ UNCHANGED <<timer_running, simulation_started, current_simulated_time,
                 next_timestep, participant_status, stop_pc, dds_vars, timer_vars>>

(* As MarkWorking, without the loop over the storage.                       *)
MarkNobody(t) == participant_status

(* Everybody who asked for t is shown as working.                          *)
MarkWorking(t) ==
  [p \in Participant |-> IF next_timestep[p] = t THEN "WORKING" ELSE participant_status[p]]

(* ... or makes the smallest request the current time and triggers it.     *)
SendNextSignal(p) ==
  /\ lcc_pc = "send"
  /\ next_timestep[p] # None
  /\ Smallest(next_timestep[p])
  /\ next_timestep[p] >= current_simulated_time
  /\ next_timestep[p] <= Horizon
  /\ current_simulated_time' = next_timestep[p]
  /\ participant_status' = MarkWorking(next_timestep[p])
  /\ WriteTrigger(next_timestep[p])
  /\ lcc_pc' = "wait"
  /\ UNCHANGED <<timer_running, simulation_started, next_timestep, stop_pc, ready,
                 trigger_cache, hears_trigger, heard_ready, timer_vars>>

(* Only a new ready signal ends the inner waiting loop.                    *)
Wait(batch) ==
  /\ lcc_pc = "wait"
  /\ batch # {}
  /\ ObtainNewReadySignals(batch)
  /\ lcc_pc' = "loop"

Obtain(batch) == Collect(batch) \/ Drain(batch) \/ Wait(batch)

LccStep ==
  \/ LeaveCollect
  \/ LoopTest
  \/ DrainEmpty
  \/ CheckSignals
  \/ SendNothing
  \/ \E p \in Participant : SendNextSignal(p)

-----------------------------------------------------------------------------
(* TimerTrigger: the threads that call it.                                 *)

(* send_start_signal                                                       *)
SendStartSignal ==
  /\ ~simulation_started
  /\ simulation_started' = TRUE
  /\ UNCHANGED <<lcc_pc, timer_running, current_simulated_time, next_timestep,
                 participant_status, stop_pc, dds_vars, timer_vars>>

(* send_stop_signal: first the STOP trigger, ...                           *)
SendStopSignal(c) ==
  /\ stop_pc[c] = "idle"
  /\ WriteTrigger(Stop)
  /\ stop_pc' = [stop_pc EXCEPT ![c] = "stop_sent"]
  /\ UNCHANGED <<lcc_vars, ready, trigger_cache, hears_trigger, heard_ready,
                 timer_vars>>

(* ... then the flag; the destructor sets the flag only.                   *)
HaltTimer(c) ==
  /\ stop_pc[c] \in {"idle", "stop_sent"}
  /\ timer_running' = FALSE
  /\ stop_pc' = [stop_pc EXCEPT ![c] = "join"]
  /\ UNCHANGED <<lcc_pc, simulation_started, current_simulated_time, next_timestep,
                 participant_status, dds_vars, timer_vars>>

(* next_signal_thread.join()                                               *)
Join(c) ==
  /\ stop_pc[c] = "join"
  /\ lcc_pc = "done"
  /\ stop_pc' = [stop_pc EXCEPT ![c] = "returned"]
  /\ UNCHANGED <<lcc_vars, dds_vars, timer_vars>>

-----------------------------------------------------------------------------
(* TimerSimulated.                                                         *)

(* start(): the deadline is the offset                                     *)
StartTimer(p) ==
  /\ timer_pc[p] = "off"
  /\ timer_pc' = [timer_pc EXCEPT ![p] = "announce"]
  /\ deadline' = [deadline EXCEPT ![p] = Offset[p]]
  /\ current_time' = [current_time EXCEPT ![p] = Offset[p]]
  /\ UNCHANGED <<lcc_vars, stop_pc, dds_vars>>

(* The first ready signal is sent until any trigger has been received, ... *)
Announce(p) ==
  /\ timer_pc[p] = "announce"
  /\ WriteReady(p, deadline[p])
  /\ timer_pc' = [timer_pc EXCEPT ![p] = "await_any"]
  /\ UNCHANGED <<lcc_vars, stop_pc, trigger_wire, trigger_cache, hears_trigger,
                 heard_ready, deadline, current_time>>

(* As AnnounceTimeout, for a timer that announces itself once.              *)
AnnounceOnce(p) == FALSE

(* ... again after the two seconds of waitset.wait.                        *)
AnnounceTimeout(p) ==
  /\ timer_pc[p] = "await_any"
  /\ trigger_cache[p] = None
  /\ timer_pc' = [timer_pc EXCEPT ![p] = "announce"]
  /\ UNCHANGED <<lcc_vars, stop_pc, dds_vars, deadline, current_time>>

(* As Matches, for a timer that takes every instant for its own.            *)
MatchesAny(p) == trigger_cache[p] \notin {None, Stop}

(* The trigger in the cache is the one p has asked for.                    *)
Matches(p) == trigger_cache[p] = deadline[p]

(* handle_system_trigger takes the one sample the cache holds.             *)
TakeTrigger(p) ==
  /\ timer_pc[p] \in {"await_any", "await"}
  /\ trigger_cache[p] # None
  /\ trigger_cache' = [trigger_cache EXCEPT ![p] = None]
  /\ UNCHANGED <<lcc_vars, stop_pc, ready, trigger_wire, hears_trigger, heard_ready,
                 deadline>>

(* It is the deadline: the callback starts.                                *)
BeginCallback(p) ==
  /\ TakeTrigger(p)
  /\ Matches(p)
  /\ current_time' = [current_time EXCEPT ![p] = deadline[p]]
  /\ timer_pc' = [timer_pc EXCEPT ![p] = "callback"]

(* It is the stop signal: the stop callback runs, or the timer ends.       *)
TakeStop(p) ==
  /\ TakeTrigger(p)
  /\ trigger_cache[p] = Stop
  /\ timer_pc' = [timer_pc EXCEPT ![p] = IF p \in KeepsRunning THEN "await" ELSE "over"]
  /\ UNCHANGED current_time

(* It is an instant of somebody else.                                      *)
IgnoreTrigger(p) ==
  /\ TakeTrigger(p)
  /\ ~Matches(p) /\ trigger_cache[p] # Stop
  /\ timer_pc' = [timer_pc EXCEPT ![p] = "await"]
  /\ UNCHANGED current_time

(* The callback returns: next deadline, next ready signal.                 *)
EndCallback(p) ==
  /\ timer_pc[p] = "callback"
  /\ deadline' = [deadline EXCEPT ![p] = @ + Period[p]]
  /\ WriteReady(p, deadline[p] + Period[p])
  /\ timer_pc' = [timer_pc EXCEPT ![p] = "await"]
  /\ UNCHANGED <<lcc_vars, stop_pc, trigger_wire, trigger_cache, hears_trigger,
                 heard_ready, current_time>>

(* The process is killed, at any point; a ready signal in flight may die   *)
(* with its writer.                                                        *)
Die(p) ==
  /\ p \in Mortal
  /\ timer_pc[p] \notin {"off", "over", "dead"}
  /\ timer_pc' = [timer_pc EXCEPT ![p] = "dead"]
  /\ ready' \in {ready, [ready EXCEPT ![p] = None]}
  /\ UNCHANGED <<lcc_vars, stop_pc, trigger_wire, trigger_cache, hears_trigger,
                 heard_ready, deadline, current_time>>

TimerStep(p) ==
  \/ Announce(p)
  \/ AnnounceTimeout(p)
  \/ BeginCallback(p)
  \/ TakeStop(p)
  \/ IgnoreTrigger(p)
  \/ EndCallback(p)

-----------------------------------------------------------------------------
Next ==
  \/ LccStep
  \/ \E batch \in SUBSET Participant : Obtain(batch)
  \/ SendStartSignal
  \/ \E c \in Stopper : SendStopSignal(c) \/ HaltTimer(c) \/ Join(c)
  \/ \E p \in Participant :
       \/ DeliverTrigger(p)
       \/ DiscoverTriggerReader(p)
       \/ DiscoverReadyWriter(p)
       \/ StartTimer(p)
       \/ TimerStep(p)
       \/ Die(p)

Spec == Init /\ [][Next]_vars

(* The threads are scheduled, callbacks return, DDS discovers everybody    *)
(* and is reliable: a ready sample in flight does not miss every take().   *)
(* Nobody has to press a button, but who called stop goes on with it.      *)
ObtainFrom(p) == \E batch \in SUBSET Participant : p \in batch /\ Obtain(batch)

Fairness ==
  /\ WF_vars(LccStep)
  /\ \A c \in Stopper :
       /\ WF_vars(stop_pc[c] = "stop_sent" /\ HaltTimer(c))
       /\ WF_vars(Join(c))
  /\ \A p \in Participant :
       /\ SF_vars(ObtainFrom(p))
       /\ WF_vars(DeliverTrigger(p))
       /\ WF_vars(DiscoverTriggerReader(p))
       /\ WF_vars(DiscoverReadyWriter(p))
       /\ WF_vars(StartTimer(p))
       /\ WF_vars(TimerStep(p))

(* Somebody starts the simulation.                                         *)
FairSpec == Spec /\ Fairness /\ WF_vars(SendStartSignal)

-----------------------------------------------------------------------------
(* PROPERTIES                                                              *)

(* What the timer tab shows is true: a participant is WORKING, WAITING or  *)
(* OUT OF SYNC as its request lies at, after or before the current time,   *)
(* also after the clock has moved (TimerTrigger.cpp, the loop that marks). *)
StatusAgrees ==
  \A p \in Registered : participant_status[p] = StatusOf(next_timestep[p])

(* The LCC's picture of the future is exact: a stored or travelling request*)
(* for an instant after the current time is the participant's deadline,    *)
(* and no participant runs its callback before the clock is there.         *)
PictureExact ==
  \A p \in Participant :
    /\ p \in Registered => \/ next_timestep[p] = deadline[p]
                           \/ next_timestep[p] <= current_simulated_time
    /\ ready[p] # None => \/ ready[p] = deadline[p]
                          \/ ready[p] <= current_simulated_time
    /\ timer_pc[p] = "callback" => deadline[p] <= current_simulated_time

(* While a participant computes an instant, no participant that the LCC    *)
(* knows and has not declared out of sync still has an earlier one to      *)
(* compute: the callbacks of the whole lab happen in the order of time.    *)
Lockstep ==
  \A p, q \in Participant :
    /\ timer_pc[p] = "callback"
    /\ q \in Registered
    /\ participant_status[q] # "OUT_OF_SYNC"
    => deadline[p] <= deadline[q]

(* "The next value is only sent if all participants that had to perform    *)
(* computations in that time step sent another ready signal"               *)
(* (SystemTrigger.idl): when the clock moves, no known participant is in   *)
(* its callback or has an earlier deadline, and one of them waits for it.  *)
ClockWaits ==
  [][current_simulated_time' # current_simulated_time =>
       /\ \A p \in Registered : /\ timer_pc[p] # "callback"
                                /\ current_simulated_time' <= deadline[p]
       /\ \E p \in Registered : current_simulated_time' = deadline[p]]_vars

(* SimulatedTime implements the logical clock.                             *)
Logical == INSTANCE LogicalTime WITH
  now <- current_simulated_time,
  member <- Registered,
  due <- deadline,
  busy <- {p \in Participant : timer_pc[p] = "callback"}

ImplementsLogicalTime == Logical!Spec

(* A timer that has stopped announcing itself without having been heard:   *)
(* its ready signal was lost before discovery, somebody else's trigger     *)
(* ended the retries, and nobody will ever trigger its deadline.           *)
Orphan(p) ==
  /\ timer_pc[p] = "await"
  /\ p \notin Registered
  /\ ready[p] = None

(* The clock had gone past p before p was heard of.                        *)
Late(p) == deadline[p] < current_simulated_time

(* Nothing but a stop, a program that was killed, a participant that came  *)
(* too late, or one that became an orphan of discovery, keeps the          *)
(* simulation from computing every instant of every participant (up to the *)
(* horizon).                                                               *)
ProgressUnlessLate ==
  \/ \A p \in Participant : <>(deadline[p] > Horizon)
  \/ <>(\E p \in Participant : timer_pc[p] = "dead")
  \/ <>(\E p \in Participant : Late(p) \/ Orphan(p))
  \/ <>(\E c \in Stopper : stop_pc[c] # "idle")

(* Who is matched from the beginning does not become an orphan, in time or *)
(* late: the ready signal of a timer that stopped announcing itself has    *)
(* been stored, or is on its way.                                          *)
NoOrphan == \A p \in Known : ~Orphan(p)

(* A thread that waits in the join of send_stop_signal or of the           *)
(* destructor for ever does so because the inner waiting loop never gets   *)
(* another ready signal; nothing else holds it.                            *)
Silent == lcc_pc = "wait" /\ \A p \in Participant : ready[p] = None
StopHangsOnlyInSilence ==
  \A c \in Stopper : <>[](stop_pc[c] = "join") => <>[]Silent

(* "Deconstructor, destroys the timing thread" (TimerTrigger.hpp): whoever *)
(* stops or destroys the TimerTrigger gets past the join.                  *)
StopReturns == \A c \in Stopper : stop_pc[c] = "join" ~> stop_pc[c] = "returned"

=============================================================================

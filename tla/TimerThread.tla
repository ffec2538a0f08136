---------------------------- MODULE TimerThread ----------------------------
(***************************************************************************)
(* The life of one cpm::Timer object: start, or start_async and the thread *)
(* it creates, and stop, called by any number of threads (TimerFD.cpp and  *)
(* TimerSimulated.cpp of cpm_lib/src, which share this protocol).  What    *)
(* the callback computes is left out; what the timer waits for is not:     *)
(* TimerSimulated sleeps until a system trigger arrives, TimerFD until the *)
(* next period.                                                            *)
(***************************************************************************)
EXTENDS Naturals

CONSTANTS
  Stopper,        (* threads that may call stop()                          *)
  Runner,         (* the thread that runs start()                          *)
  Async,          (* TRUE: start_async created it; FALSE: it called start()*)
  Realtime,       (* TRUE: a TimerFD; FALSE: a TimerSimulated              *)
  StopCallback,   (* "none": not registered, "keep": returns,              *)
                  (* "stop": calls stop() itself                           *)
  Starts,         (* bound: calls of start or start_async                  *)
  Nobody          (* join_mutex is free                                    *)

ASSUME RunnerAssumption == Runner \notin Stopper
ASSUME NobodyAssumption == Nobody \notin Stopper \cup {Runner}
ASSUME ModeAssumption == Async \in BOOLEAN /\ Realtime \in BOOLEAN
ASSUME StopCallbackAssumption == StopCallback \in {"none", "keep", "stop"}

VARIABLES
  active, cancelled,   (* the atomic flags of the timer                    *)
  joinable,            (* runner_thread.joinable()                         *)
  join_mutex,          (* its holder                                       *)
  runner,              (* where the thread is in start()                   *)
  stop_pc,             (* where each thread is in stop()                   *)
  trigger,             (* sample in reader_system_trigger, KEEP_LAST(1)    *)
  terminated,          (* an exception has left the thread: std::terminate *)
  starts               (* calls of start or start_async so far             *)

flags == <<active, cancelled>>
thread == <<joinable, join_mutex>>
vars == <<flags, thread, runner, stop_pc, trigger, terminated, starts>>

Caller == Stopper \cup {Runner}
Sample == {"none", "instant", "stop"}
RunnerPc == {"none", "entry", "activate", "check", "announce", "first_wait", "loop",
             "wait", "callback", "poll", "stop_callback", "ended"}
CallPc == {"idle", "lock", "cancel", "deactivate", "join", "clear", "returned"}

TypeOK ==
  /\ active \in BOOLEAN
  /\ cancelled \in BOOLEAN
  /\ joinable \in BOOLEAN
  /\ join_mutex \in Caller \cup {Nobody}
  /\ runner \in RunnerPc
  /\ stop_pc \in [Caller -> CallPc]
  /\ trigger \in Sample
  /\ terminated \in BOOLEAN
  /\ starts \in Nat
  /\ joinable => runner # "none"

Init ==
  /\ active = FALSE
  /\ cancelled = FALSE
  /\ joinable = FALSE
  /\ join_mutex = Nobody
  /\ runner = "none"
  /\ stop_pc = [c \in Caller |-> "idle"]
  /\ trigger = "none"
  /\ terminated = FALSE
  /\ starts = 0

-----------------------------------------------------------------------------
(* start_async, by the thread that owns the timer.  It reads runner_thread *)
(* without a lock, so a correct program does not start a timer that        *)
(* another thread is stopping.  A joinable timer throws and stays as it is.*)
StartAsync ==
  /\ Async /\ ~terminated
  /\ starts < Starts
  /\ \A c \in Stopper : stop_pc[c] \in {"idle", "returned"}
  /\ ~joinable
  /\ joinable' = TRUE
  /\ runner' = "entry"
  /\ stop_pc' = [c \in Caller |-> "idle"]
  /\ starts' = starts + 1
  /\ UNCHANGED <<flags, join_mutex, trigger, terminated>>

(* start() in the thread of the owner, which has returned from the last one.*)
Start ==
  /\ ~Async /\ ~terminated
  /\ starts < Starts
  /\ runner \in {"none", "ended"}
  /\ runner' = "entry"
  /\ starts' = starts + 1
  /\ UNCHANGED <<flags, thread, stop_pc, trigger, terminated>>

(* A system trigger arrives and replaces the one that was not taken.       *)
Receive(sample) ==
  /\ ~terminated
  /\ starts > 0
  /\ trigger' = sample
  /\ UNCHANGED <<flags, thread, runner, stop_pc, terminated, starts>>

-----------------------------------------------------------------------------
(* start()                                                                 *)

RunnerAt(pc) == ~terminated /\ runner = pc

(* if(active.load()) throw: the caller of start() may catch it, in the     *)
(* thread of start_async nobody does.                                      *)
Enter ==
  /\ RunnerAt("entry")
  /\ runner' = IF active THEN "ended" ELSE "activate"
  /\ terminated' = (active /\ Async)
  /\ UNCHANGED <<flags, thread, stop_pc, trigger, starts>>

Activate ==
  /\ RunnerAt("activate")
  /\ active' = TRUE
  /\ runner' = "check"
  /\ UNCHANGED <<cancelled, thread, stop_pc, trigger, terminated, starts>>

(* As CheckCancelled, for a start() that does not know cancelled.           *)
NeverCancelled ==
  /\ RunnerAt("check")
  /\ runner' = "announce"
  /\ UNCHANGED <<flags, thread, stop_pc, trigger, terminated, starts>>

(* if(cancelled.load()) return                                             *)
CheckCancelled ==
  /\ RunnerAt("check")
  /\ runner' = IF cancelled THEN "ended" ELSE "announce"
  /\ UNCHANGED <<flags, thread, stop_pc, trigger, terminated, starts>>

(* The loop that sends the ready signal tests active.  A TimerFD that is   *)
(* not active returns the stop signal, and start() returns.                *)
Announce ==
  /\ RunnerAt("announce")
  /\ runner' = IF active THEN "first_wait" ELSE IF Realtime THEN "ended" ELSE "loop"
  /\ UNCHANGED <<flags, thread, stop_pc, trigger, terminated, starts>>

(* Two seconds without a sample.                                           *)
FirstTimeout ==
  /\ RunnerAt("first_wait")
  /\ trigger = "none"
  /\ runner' = "announce"
  /\ UNCHANGED <<flags, thread, stop_pc, trigger, terminated, starts>>

Take == trigger # "none" /\ trigger' = "none"

(* As LoopTest, for a loop that does not look at active.                   *)
LoopForever ==
  /\ RunnerAt("loop")
  /\ runner' = "wait"
  /\ UNCHANGED <<flags, thread, stop_pc, trigger, terminated, starts>>

(* while(active.load())                                                    *)
LoopTest ==
  /\ RunnerAt("loop")
  /\ runner' = IF active THEN "wait" ELSE "ended"
  /\ UNCHANGED <<flags, thread, stop_pc, trigger, terminated, starts>>

(* The stop signal: the callback if there is one, or active = false.       *)
ReactToStop ==
  IF StopCallback = "none"
  THEN active' = FALSE /\ runner' = "loop"
  ELSE runner' = "stop_callback" /\ UNCHANGED active

-----------------------------------------------------------------------------
(* TimerSimulated.                                                         *)

(* handle_system_trigger, after the first wait or after the unbounded one: *)
(* an instant is the deadline of the timer or that of somebody else.       *)
HandleInstant ==
  /\ ~Realtime
  /\ RunnerAt("first_wait") \/ RunnerAt("wait")
  /\ trigger = "instant" /\ Take
  /\ runner' \in {"callback", "loop"}
  /\ UNCHANGED <<flags, thread, stop_pc, terminated, starts>>

HandleStop ==
  /\ ~Realtime
  /\ RunnerAt("first_wait") \/ RunnerAt("wait")
  /\ trigger = "stop" /\ Take
  /\ ReactToStop
  /\ UNCHANGED <<cancelled, thread, stop_pc, terminated, starts>>

-----------------------------------------------------------------------------
(* TimerFD.                                                                *)

(* receiveStartTime returns the start point ...                            *)
ReceiveStart ==
  /\ Realtime
  /\ RunnerAt("first_wait")
  /\ trigger = "instant" /\ Take
  /\ runner' = "loop"
  /\ UNCHANGED <<flags, thread, stop_pc, terminated, starts>>

(* ... or the stop signal: start() returns as it is.                       *)
ReceiveStop ==
  /\ Realtime
  /\ RunnerAt("first_wait")
  /\ trigger = "stop" /\ Take
  /\ runner' = "ended"
  /\ UNCHANGED <<flags, thread, stop_pc, terminated, starts>>

(* read(timer_fd) returns every period; before the start point it is only  *)
(* counted.                                                                *)
Expire ==
  /\ Realtime
  /\ RunnerAt("wait")
  /\ runner' \in {"callback", "loop"}
  /\ UNCHANGED <<flags, thread, stop_pc, trigger, terminated, starts>>

(* received_stop_signal, after every callback                              *)
Poll ==
  /\ Realtime
  /\ RunnerAt("poll")
  /\ trigger' = "none"
  /\ IF trigger = "stop" THEN ReactToStop
                         ELSE runner' = "loop" /\ UNCHANGED active
  /\ UNCHANGED <<cancelled, thread, stop_pc, terminated, starts>>

-----------------------------------------------------------------------------
(* m_update_callback returns.                                              *)
EndCallback ==
  /\ RunnerAt("callback")
  /\ runner' = IF Realtime THEN "poll" ELSE "loop"
  /\ UNCHANGED <<flags, thread, stop_pc, trigger, terminated, starts>>

(* m_stop_callback returns, after its own call of stop() if it makes one.  *)
EndStopCallback ==
  /\ RunnerAt("stop_callback")
  /\ StopCallback = "stop" => stop_pc[Runner] = "returned"
  /\ runner' = "loop"
  /\ stop_pc' = [stop_pc EXCEPT ![Runner] = "idle"]
  /\ UNCHANGED <<flags, thread, trigger, terminated, starts>>

RunnerStep ==
  \/ Enter \/ Activate \/ CheckCancelled \/ Announce \/ FirstTimeout \/ LoopTest
  \/ HandleInstant \/ HandleStop
  \/ ReceiveStart \/ ReceiveStop \/ Expire \/ Poll
  \/ EndCallback \/ EndStopCallback

-----------------------------------------------------------------------------
(* stop(); the destructor is the same code.                                *)

At(c, pc) == ~terminated /\ stop_pc[c] = pc

CallStop(c) ==
  /\ At(c, "idle")
  /\ IF c = Runner THEN runner = "stop_callback" /\ StopCallback = "stop"
                   ELSE starts > 0
  /\ stop_pc' = [stop_pc EXCEPT ![c] = "lock"]
  /\ UNCHANGED <<flags, thread, runner, trigger, terminated, starts>>

(* As Lock, for a stop() without join_mutex.                                *)
LockNothing(c) ==
  /\ At(c, "lock")
  /\ join_mutex' = c
  /\ stop_pc' = [stop_pc EXCEPT ![c] = "cancel"]
  /\ UNCHANGED <<flags, joinable, runner, trigger, terminated, starts>>

(* std::lock_guard<std::mutex> lock(join_mutex)                            *)
Lock(c) ==
  /\ At(c, "lock")
  /\ join_mutex = Nobody
  /\ join_mutex' = c
  /\ stop_pc' = [stop_pc EXCEPT ![c] = "cancel"]
  /\ UNCHANGED <<flags, joinable, runner, trigger, terminated, starts>>

Cancel(c) ==
  /\ At(c, "cancel")
  /\ cancelled' = TRUE
  /\ stop_pc' = [stop_pc EXCEPT ![c] = "deactivate"]
  /\ UNCHANGED <<active, thread, runner, trigger, terminated, starts>>

Deactivate(c) ==
  /\ At(c, "deactivate")
  /\ active' = FALSE
  /\ stop_pc' = [stop_pc EXCEPT ![c] = "join"]
  /\ UNCHANGED <<cancelled, thread, runner, trigger, terminated, starts>>

(* As Join, for a stop() that detaches the thread instead.                 *)
Detach(c) ==
  /\ At(c, "join")
  /\ joinable' = FALSE
  /\ stop_pc' = [stop_pc EXCEPT ![c] = "clear"]
  /\ UNCHANGED <<flags, join_mutex, runner, trigger, terminated, starts>>

(* As Join, for a stop() that joins without looking at the handle again.    *)
KeepHandle(c) ==
  /\ At(c, "join")
  /\ joinable => runner = "ended"
  /\ runner' = IF joinable THEN "none" ELSE runner
  /\ stop_pc' = [stop_pc EXCEPT ![c] = "clear"]
  /\ UNCHANGED <<flags, thread, trigger, terminated, starts>>

(* if(runner_thread.joinable()) runner_thread.join(): waits for the end of *)
(* the thread; joining oneself throws resource_deadlock_would_occur, which *)
(* leaves the thread's function.                                           *)
Join(c) ==
  /\ At(c, "join")
  /\ IF joinable /\ c = Runner
     THEN terminated' = TRUE /\ UNCHANGED <<joinable, runner, stop_pc>>
     ELSE /\ joinable => runner = "ended"
          /\ joinable' = FALSE
          /\ runner' = IF joinable THEN "none" ELSE runner
          /\ stop_pc' = [stop_pc EXCEPT ![c] = "clear"]
          /\ UNCHANGED terminated
  /\ UNCHANGED <<flags, join_mutex, trigger, starts>>

(* cancelled.store(false), and the guard unlocks.                          *)
Clear(c) ==
  /\ At(c, "clear")
  /\ cancelled' = FALSE
  /\ join_mutex' = Nobody
  /\ stop_pc' = [stop_pc EXCEPT ![c] = "returned"]
  /\ UNCHANGED <<active, joinable, runner, trigger, terminated, starts>>

StopStep(c) == Lock(c) \/ Cancel(c) \/ Deactivate(c) \/ Join(c) \/ Clear(c)

Next ==
  \/ StartAsync
  \/ Start
  \/ \E sample \in Sample \ {"none"} : Receive(sample)
  \/ RunnerStep
  \/ \E c \in Caller : CallStop(c) \/ StopStep(c)

Spec == Init /\ [][Next]_vars

(* Threads are scheduled and callbacks return.  Nobody has to send a       *)
(* trigger.                                                                *)
Fairness ==
  /\ WF_vars(RunnerStep)
  /\ WF_vars(CallStop(Runner))
  /\ \A c \in Caller : WF_vars(StopStep(c))

FairSpec == Spec /\ Fairness

-----------------------------------------------------------------------------
(* PROPERTIES                                                              *)

(* Once a thread has returned from stop(), the thread of start_async is    *)
(* gone: no callback runs any more, whoever joined it (that is what        *)
(* join_mutex is for, TimerSimulated.hpp).                                 *)
QuietAfterStop ==
  Async => ((\E c \in Stopper : stop_pc[c] = "returned") => runner = "none")

(* "Join does not work concurrently, but the timer stop function might be  *)
(* used by different threads" (TimerSimulated.hpp): one thread at a time   *)
(* is between setting the flags and clearing them.                         *)
Stopping == {"cancel", "deactivate", "join", "clear"}
JoinIsExclusive ==
  \A c, d \in Caller : stop_pc[c] \in Stopping /\ stop_pc[d] \in Stopping => c = d

(* A stop() that never returns waits for a TimerSimulated that waits for a *)
(* trigger; nothing else holds it, in particular no early stop does.       *)
StopWaitsForTrigger ==
  \A c \in Stopper :
    <>[](At(c, "join")) => <>[](runner = "wait" /\ trigger = "none")

(* stop() ends a start() that has entered its loop, also when the stop     *)
(* callback calls it from within.                                          *)
StopEndsStart ==
  \A c \in Caller :
    At(c, "join") /\ runner \in {"loop", "wait", "callback", "poll", "stop_callback"}
      ~> runner = "ended"

(* "the stop_callback function is called (and may also call stop(), if     *)
(* desired)" (Timer.hpp): no exception of stop() ends the program.         *)
StopCallbackMayStop == ~terminated

=============================================================================

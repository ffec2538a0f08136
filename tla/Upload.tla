------------------------------- MODULE Upload -------------------------------
(***************************************************************************)
(* Deploying and killing a simulation (SetupViewUI.cpp of the LCC) and the *)
(* upload of the programs to the NUCs in a distributed one (Upload.cpp).   *)
(* One thread per HLC runs an ssh script and notifies the Upload object;   *)
(* the thread that counts down to zero wakes the GTK thread through a      *)
(* Glib::Dispatcher, which closes the window, joins all threads and frees  *)
(* the user interface.  After a click the kill button is grey for 3 s.     *)
(***************************************************************************)
EXTENDS Naturals, FiniteSets

CONSTANTS
  Hlc,         (* NUCs that may be online                                  *)
  Sleeper,     (* the thread that is created when none is                  *)
  Operations   (* bound: clicks on deploy and kill                         *)

ASSUME HlcAssumption == IsFiniteSet(Hlc) /\ Cardinality(Hlc) \in 1..255
ASSUME SleeperAssumption == Sleeper \notin Hlc
ASSUME OperationsAssumption == Operations \in Nat

VARIABLES
  worker,                 (* where each upload thread is                   *)
  to_create,              (* threads the GTK thread has still to create    *)
  gtk,                    (* where the GTK thread is                       *)
  thread_count,           (* std::atomic_uint8_t                           *)
  notify_count,
  error_msg,              (* threads whose error waits for the window      *)
  dispatches,             (* emitted, not yet handled                      *)
  upload_done, kill_called, participants_available,
  is_kill,                (* what the threads pass to notify               *)
  simulation_running, deploy_sensitive, kill_sensitive,
  distributed,            (* switch_deploy_distributed                     *)
  grey_out_running,       (* kill_grey_out_thread counts its 3 s           *)
  undo_kill_grey_out,
  operations,             (* clicks so far                                 *)
  stray                   (* history: a dispatch nobody waits for was left *)

counters == <<thread_count, notify_count>>
messages == <<error_msg, dispatches, stray>>
marks == <<upload_done, kill_called, participants_available, is_kill>>
buttons == <<simulation_running, deploy_sensitive, kill_sensitive>>
grey_out == <<grey_out_running, undo_kill_grey_out>>
ui == <<buttons, grey_out, distributed, operations>>
vars == <<worker, to_create, gtk, counters, messages, marks, ui>>

Worker == Hlc \cup {Sleeper}
WorkerPc == {"none", "work", "report", "count", "last", "check", "ended"}
Notifying == {"report", "count", "last", "check"}
GtkPc == {"idle", "create", "close", "lock", "join", "quit", "gone"}

(* upload_threads: created and not yet joined.                             *)
upload_threads == {w \in Worker : worker[w] # "none"}

(* Three mutexes.  The GTK thread holds error_msg_mutex in the second      *)
(* branch of ui_dispatch, upload_threads_mutex while it joins.             *)
ErrorMsgFree == gtk \notin {"close", "lock", "join"}
ThreadsFree == gtk \notin {"join", "quit"}
NotifyFree == \A w \in Worker : worker[w] \notin Notifying

TypeOK ==
  /\ worker \in [Worker -> WorkerPc]
  /\ to_create \subseteq Worker
  /\ gtk \in GtkPc
  /\ thread_count \in 0..255 /\ notify_count \in Nat
  /\ error_msg \subseteq Worker
  /\ dispatches \in Nat
  /\ upload_done \in BOOLEAN /\ kill_called \in BOOLEAN
  /\ participants_available \in BOOLEAN /\ is_kill \in BOOLEAN
  /\ simulation_running \in BOOLEAN /\ distributed \in BOOLEAN
  /\ deploy_sensitive \in BOOLEAN /\ kill_sensitive \in BOOLEAN
  /\ grey_out_running \in BOOLEAN /\ undo_kill_grey_out \in BOOLEAN
  /\ stray \in BOOLEAN
  /\ operations \in 0..Operations

Init ==
  /\ worker = [w \in Worker |-> "none"]
  /\ to_create = {}
  /\ gtk = "idle"
  /\ thread_count = 0
  /\ notify_count = 0
  /\ error_msg = {}
  /\ dispatches = 0
  /\ upload_done = FALSE
  /\ kill_called = FALSE
  /\ participants_available = FALSE
  /\ is_kill = FALSE
  /\ simulation_running = FALSE
  /\ deploy_sensitive = TRUE
  /\ kill_sensitive = TRUE
  /\ distributed \in BOOLEAN
  /\ grey_out_running = FALSE
  /\ undo_kill_grey_out = FALSE
  /\ operations = 0
  /\ stray = FALSE

-----------------------------------------------------------------------------
(* The user, in the GTK thread.                                            *)

CanDeploy == gtk = "idle" /\ deploy_sensitive
CanKill == gtk = "idle" /\ kill_sensitive
Click == operations < Operations /\ operations' = operations + 1

Toggle ==
  /\ CanDeploy
  /\ Click
  /\ distributed' = ~distributed
  /\ UNCHANGED <<worker, to_create, gtk, counters, messages, marks, buttons, grey_out>>

(* thread_count is set before the first thread is created: one thread per  *)
(* HLC, or the sleeper.  After a stray dispatch an operation may begin in  *)
(* the middle of another; of two threads for one NUC only the later one is *)
(* modelled then.                                                          *)
InitialCountShort(ws) == Cardinality(ws) - 1
InitialCount(ws) == Cardinality(ws)
Launch(H) ==
  LET threads == IF H = {} THEN {Sleeper} ELSE H
  IN  gtk' = "create" /\ to_create' = threads /\ thread_count' = InitialCount(threads)

(* deploy_applications: local, or without a valid script.                  *)
DeployHere ==
  /\ CanDeploy
  /\ Click
  /\ simulation_running' = TRUE
  /\ deploy_sensitive' = FALSE
  /\ UNCHANGED <<worker, to_create, gtk, counters, messages, marks, kill_sensitive, grey_out,
                 distributed>>

(* deploy_applications and deploy_distributed; H: the HLCs that get a      *)
(* vehicle.  Vehicles there are always, or the click does nothing.         *)
Deploy(H) ==
  /\ CanDeploy /\ distributed
  /\ Click
  /\ Launch(H)
  /\ simulation_running' = TRUE
  /\ deploy_sensitive' = FALSE
  /\ kill_sensitive' = FALSE
  /\ participants_available' = TRUE
  /\ is_kill' = (H = {})
  /\ UNCHANGED <<worker, notify_count, messages, upload_done, kill_called, grey_out,
                 distributed>>

(* Every click on kill: a grey-out that still runs is joined, and sets the *)
(* mark that this click has just reset.                                    *)
GreyOutKill ==
  /\ CanKill
  /\ Click
  /\ kill_sensitive' = FALSE
  /\ grey_out_running' = TRUE
  /\ undo_kill_grey_out' = grey_out_running

(* No simulation runs: only the vehicles are stopped.  Or a local one,     *)
(* with perform_post_kill_cleanup.                                         *)
KillHere ==
  /\ simulation_running => ~distributed
  /\ GreyOutKill
  /\ simulation_running' = FALSE
  /\ deploy_sensitive' = (deploy_sensitive \/ simulation_running)
  /\ UNCHANGED <<worker, to_create, gtk, counters, messages, marks, distributed>>

(* kill_deployed_applications and kill_remote; H: the HLCs online now.     *)
Kill(H) ==
  /\ simulation_running /\ distributed
  /\ GreyOutKill
  /\ Launch(H)
  /\ simulation_running' = FALSE
  /\ upload_done' = FALSE
  /\ kill_called' = TRUE
  /\ participants_available' = (participants_available /\ H # {})
  /\ is_kill' = TRUE
  /\ UNCHANGED <<worker, notify_count, messages, deploy_sensitive, distributed>>

(* kill_grey_out_thread, and ui_dispatch of SetupViewUI.                   *)
GreyOutEnds ==
  /\ grey_out_running
  /\ grey_out_running' = FALSE
  /\ undo_kill_grey_out' = TRUE
  /\ UNCHANGED <<worker, to_create, gtk, counters, messages, marks, buttons, distributed,
                 operations>>

DeployNeverControlsKill == FALSE
DeployControlsKill == simulation_running /\ distributed
UndoGreyOut ==
  /\ gtk = "idle" /\ undo_kill_grey_out
  /\ undo_kill_grey_out' = FALSE
  /\ kill_sensitive' = (kill_sensitive \/ ~DeployControlsKill)
  /\ UNCHANGED <<worker, to_create, gtk, counters, messages, marks, simulation_running,
                 deploy_sensitive, grey_out_running, distributed, operations>>

(* One turn of the creation loop; the threads made before already run.     *)
CreateThread(w) ==
  /\ gtk = "create"
  /\ w \in to_create
  /\ worker' = [worker EXCEPT ![w] = "work"]
  /\ to_create' = to_create \ {w}
  /\ gtk' = IF to_create' = {} THEN "idle" ELSE "create"
  /\ UNCHANGED <<counters, messages, marks, ui>>

-----------------------------------------------------------------------------
(* An upload thread: its script, then notify_upload_finished, which only   *)
(* one thread is in at a time (notify_callback_in_use).                    *)

Move(w, from, to) == worker[w] = from /\ worker' = [worker EXCEPT ![w] = to]
Emit == dispatches' = dispatches + 1
EmitNothing == dispatches' = dispatches

Finish(w) ==
  /\ NotifyFree
  /\ \/ Move(w, "work", "count")
     \/ w # Sleeper /\ Move(w, "work", "report")
  /\ UNCHANGED <<to_create, gtk, counters, messages, marks, ui>>

Report(w) ==
  /\ ErrorMsgFree
  /\ Move(w, "report", "count")
  /\ error_msg' = error_msg \cup {w}
  /\ Emit
  /\ UNCHANGED <<to_create, gtk, counters, stray, marks, ui>>

IsKillIgnored == FALSE
IsKill == is_kill

Count(w) ==
  /\ thread_count' = (thread_count + 255) % 256
  /\ IF thread_count' = 0
     THEN /\ Move(w, "count", "last")
          /\ notify_count' = 0
          /\ upload_done' = (upload_done \/ ~IsKill)
     ELSE /\ Move(w, "count", "check")
          /\ notify_count' = notify_count + 1
          /\ UNCHANGED upload_done
  /\ UNCHANGED <<to_create, gtk, messages, kill_called, participants_available, is_kill, ui>>

LastSilent(w) ==
  /\ Move(w, "last", "ended")
  /\ UNCHANGED <<to_create, gtk, counters, messages, marks, ui>>

(* The thread that counted to zero, two seconds later.                     *)
Last(w) ==
  /\ Move(w, "last", "ended")
  /\ Emit
  /\ UNCHANGED <<to_create, gtk, counters, error_msg, stray, marks, ui>>

(* Any other thread compares with the number of threads, those created so  *)
(* far; a match is taken for a wrong thread_count and also wakes GTK.      *)
Check(w) ==
  /\ ThreadsFree
  /\ Move(w, "check", "ended")
  /\ IF notify_count = Cardinality(upload_threads)
     THEN notify_count' = 0 /\ Emit /\ stray' = TRUE
     ELSE UNCHANGED <<notify_count, stray>> /\ EmitNothing
  /\ UNCHANGED <<to_create, gtk, thread_count, error_msg, marks, ui>>

-----------------------------------------------------------------------------
(* ui_dispatch, in the GTK thread.                                         *)

TakeErrors ==
  /\ gtk = "idle" /\ dispatches > 0
  /\ error_msg # {}
  /\ dispatches' = dispatches - 1
  /\ error_msg' = {}
  /\ stray' = (stray \/ Cardinality(error_msg) > 1)
  /\ UNCHANGED <<worker, to_create, gtk, counters, marks, ui>>

TakeClose ==
  /\ gtk = "idle" /\ dispatches > 0
  /\ error_msg = {}
  /\ dispatches' = dispatches - 1
  /\ gtk' = "close"
  /\ UNCHANGED <<worker, to_create, counters, error_msg, stray, marks, ui>>

CloseWindow ==
  /\ gtk = "close"
  /\ gtk' = "lock"
  /\ kill_sensitive' = (kill_sensitive \/ upload_threads # {})
  /\ UNCHANGED <<worker, to_create, counters, messages, marks, simulation_running,
                 deploy_sensitive, grey_out, distributed, operations>>

LockThreads ==
  /\ gtk = "lock"
  /\ gtk' = "join"
  /\ UNCHANGED <<worker, to_create, counters, messages, marks, ui>>

(* join_upload_threads waits for all of them.                              *)
Join ==
  /\ \A w \in Worker : worker[w] \in {"none", "ended"}
  /\ worker' = [w \in Worker |-> "none"]

(* The rest of ui_dispatch: after a kill perform_post_kill_cleanup.        *)
JoinThreads ==
  /\ gtk = "join"
  /\ Join
  /\ gtk' = "idle"
  /\ kill_called' = FALSE
  /\ deploy_sensitive' = (deploy_sensitive \/ kill_called \/ ~participants_available)
  /\ UNCHANGED <<to_create, counters, messages, upload_done, participants_available,
                 is_kill, simulation_running, kill_sensitive, grey_out, distributed, operations>>

(* The destructor, when the LCC is closed, joins as well.                  *)
Quit ==
  /\ gtk = "idle"
  /\ gtk' = "quit"
  /\ UNCHANGED <<worker, to_create, counters, messages, marks, ui>>

Destroy ==
  /\ gtk = "quit"
  /\ Join
  /\ gtk' = "gone"
  /\ UNCHANGED <<to_create, counters, messages, marks, ui>>

-----------------------------------------------------------------------------

User == Toggle \/ DeployHere \/ KillHere \/ \E H \in SUBSET Hlc : Deploy(H) \/ Kill(H)
GtkStep ==
  \/ \E w \in Worker : CreateThread(w)
  \/ UndoGreyOut \/ TakeErrors \/ TakeClose \/ CloseWindow \/ LockThreads \/ JoinThreads \/ Destroy
WorkerStep(w) == Finish(w) \/ Report(w) \/ Count(w) \/ Last(w) \/ Check(w)

Next == User \/ Quit \/ GtkStep \/ GreyOutEnds \/ \E w \in Worker : WorkerStep(w)
Spec == Init /\ [][Next]_vars

(* Threads are scheduled and the scripts end: each has a timeout.  A       *)
(* thread takes each mutex once per operation, so weak fairness suffices.  *)
Fairness ==
  /\ WF_vars(GtkStep)
  /\ WF_vars(GreyOutEnds)
  /\ \A w \in Worker : WF_vars(WorkerStep(w))

FairSpec == Spec /\ Fairness

-----------------------------------------------------------------------------
(* PROPERTIES                                                              *)

AtWork == {w \in Worker : worker[w] \in {"work", "report", "count"}}

(* thread_count is the number of threads, created or not, that have still  *)
(* to count, so it is zero for one thread only.  (After a stray dispatch   *)
(* the deploy button may come back while a simulation runs, if no NUC was  *)
(* available, and a kill and a deployment can then overlap.)               *)
ThreadCountExact ==
  ~stray => thread_count = Cardinality(to_create) + Cardinality(AtWork)

(* "True if an upload was requested, not killed and if all upload threads  *)
(* have finished" (Upload.hpp, upload_done): the crash checker relies on   *)
(* it.                                                                     *)
UploadDoneMeansDone ==
  upload_done /\ ~stray =>
    simulation_running /\ ~kill_called /\ to_create = {} /\ AtWork = {}

(* When the user can start an operation, the one before has left nothing:  *)
(* no thread, no count, no error message, no kill to clean up after.  Only *)
(* a stray dispatch can free the user interface in the middle of one       *)
(* (after a kill without NUCs participants_available stays FALSE).         *)
MayOperate == CanDeploy \/ (CanKill /\ simulation_running)
StartsClean ==
  MayOperate /\ ~stray =>
    upload_threads = {} /\ thread_count = 0 /\ notify_count = 0 /\ error_msg = {} /\ ~kill_called

(* "threads are only joined after all upload threads that need to be       *)
(* created have finished their work" (Upload.hpp, thread_count).           *)
JoinedWhenDone == gtk = "join" => AtWork = {}

(* That holds unless a dispatch was left over: two errors shown at once,   *)
(* or a thread that ended when all threads created so far had.             *)
EarlyJoinNeedsStray == gtk \in {"close", "lock", "join"} /\ AtWork # {} => stray

(* The counters, the buttons and the flag for the crash checker agree with *)
(* the upload threads, and a join comes too early only after a stray       *)
(* dispatch.                                                               *)
UploadsSafe ==
  TypeOK /\ ThreadCountExact /\ UploadDoneMeansDone /\ StartsClean /\ EarlyJoinNeedsStray

(* The GTK thread joins a thread that waits for one of its mutexes.        *)
JoinDeadlock ==
  \E w \in Worker : \/ gtk = "join" /\ worker[w] \in {"report", "check"}
                    \/ gtk = "quit" /\ worker[w] = "check"

(* A distributed deployment without a valid script: it never makes the     *)
(* kill button sensitive, and the grey-out of an earlier click leaves that *)
(* to it.                                                                  *)
EmptyDeployment == gtk = "idle" /\ DeployControlsKill /\ ~kill_sensitive /\ upload_threads = {}

(* Nothing but those two takes the user interface away for good: after     *)
(* every operation the user can deploy or kill again, or has quit.         *)
UserNotLockedOut ==
  []<>(MayOperate \/ gtk = "gone") \/ <>[]JoinDeadlock \/ <>[]EmptyDeployment

=============================================================================

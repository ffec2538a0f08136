----------------------------- MODULE Lcc_proofs -----------------------------
(***************************************************************************)
(* Proofs about Upload, for any number of NUCs and clicks: as long as no   *)
(* dispatch was left over, thread_count is exact, upload_done is true only *)
(* after an upload, an operation starts from nothing, and the GTK thread   *)
(* joins only threads that have finished.                                  *)
(*                                                                         *)
(* Proofs about CrashChecker, for any sets of programs and NUCs: the lists *)
(* of the crash checks name nobody who did not fail, and a NUC is in one   *)
(* of its two lists.                                                       *)
(*                                                                         *)
(* Proofs about CommandExecution, for any numbers of callers, workers,     *)
(* commands and lives and any size of the queues: an answer is about the   *)
(* command of the caller that takes it, and somebody waits for it.         *)
(*                                                                         *)
(* Proofs about ObstacleSimulation, for any scenarios with consecutive     *)
(* times: obstacles are shown where they are at the time of the run, and   *)
(* vehicles get trajectories that they can follow.                         *)
(***************************************************************************)
EXTENDS Lcc, Integers, Sequences, FiniteSetTheorems, SequenceTheorems, TLAPS

USE HlcAssumption, SleeperAssumption, OperationsAssumption

Flags ==
  /\ upload_done \in BOOLEAN /\ kill_called \in BOOLEAN
  /\ participants_available \in BOOLEAN /\ is_kill \in BOOLEAN
  /\ simulation_running \in BOOLEAN /\ distributed \in BOOLEAN
  /\ deploy_sensitive \in BOOLEAN /\ kill_sensitive \in BOOLEAN
  /\ grey_out_running \in BOOLEAN /\ undo_kill_grey_out \in BOOLEAN
  /\ stray \in BOOLEAN

(* One thread at a time is in notify_upload_finished, and the GTK thread    *)
(* creates threads while some are to be created.                           *)
Shape ==
  /\ worker \in [Worker -> WorkerPc] /\ to_create \subseteq Worker /\ gtk \in GtkPc
  /\ thread_count \in 0..255 /\ notify_count \in Nat
  /\ error_msg \subseteq Worker /\ dispatches \in Nat
  /\ operations \in 0..Operations
  /\ gtk = "create" <=> to_create # {}
  /\ \A u, w \in Worker : worker[u] \in Notifying /\ worker[w] \in Notifying => u = w

Basics == Flags /\ Shape

(* Nothing is left of the last operation.                                  *)
Rest ==
  /\ gtk \in {"idle", "quit"} /\ to_create = {}
  /\ \A w \in Worker : worker[w] = "none"
  /\ thread_count = 0 /\ notify_count = 0
  /\ error_msg = {} /\ dispatches = 0
  /\ ~kill_called

(* Some threads have still to count; each error is dispatched.             *)
Running ==
  /\ gtk \in {"idle", "create", "quit"}
  /\ to_create # {} \/ AtWork # {}
  /\ thread_count = Cardinality(to_create) + Cardinality(AtWork)
  /\ \A w \in to_create : worker[w] = "none"
  /\ \A w \in Worker : worker[w] # "last"
  /\ \A w \in error_msg : worker[w] \in {"count", "check", "ended"}
  /\ dispatches = Cardinality(error_msg)

(* All have counted; the last one dispatches once more.                    *)
Ending ==
  /\ gtk \in {"idle", "quit"} /\ to_create = {}
  /\ thread_count = 0 /\ notify_count = 0
  /\ \/ /\ \E w \in Worker : worker[w] = "last"
        /\ dispatches = Cardinality(error_msg)
     \/ /\ \A w \in Worker : worker[w] # "last"
        /\ dispatches = Cardinality(error_msg) + 1
  /\ \A w \in Worker : worker[w] \in {"none", "last", "ended"}

(* The GTK thread handles that dispatch.                                   *)
Closing ==
  /\ gtk \in {"close", "lock", "join"} /\ to_create = {}
  /\ \A w \in Worker : worker[w] \in {"none", "ended"}
  /\ thread_count = 0 /\ notify_count = 0
  /\ error_msg = {} /\ dispatches = 0

Gone ==
  /\ gtk = "gone" /\ to_create = {} /\ thread_count = 0
  /\ \A w \in Worker : worker[w] = "none"

(* What the buttons and marks say of the operation.                        *)
Over == Rest \/ Gone
Ui ==
  /\ deploy_sensitive => Over /\ ~simulation_running
  /\ kill_sensitive /\ simulation_running => Over \/ gtk \in {"lock", "join"}
  /\ simulation_running /\ ~distributed => Over
  /\ kill_called => ~simulation_running /\ is_kill
  /\ upload_done =>
       simulation_running /\ distributed /\ ~kill_called /\ to_create = {} /\ AtWork = {}
  /\ Over \/ kill_called \/ (simulation_running /\ participants_available)

Phases == Rest \/ Running \/ Ending \/ Closing \/ Gone

IInv == Basics /\ (~stray => Phases /\ Ui)

-----------------------------------------------------------------------------
(* Numbers of threads                                                      *)

LEMMA Threads ==
  /\ IsFiniteSet(Worker)
  /\ \A S \in SUBSET Worker : IsFiniteSet(S) /\ Cardinality(S) \in Nat
<1>1. IsFiniteSet(Worker)
  BY FS_AddElement DEF Worker
<1>2. ASSUME NEW S \in SUBSET Worker PROVE IsFiniteSet(S) /\ Cardinality(S) \in Nat
  BY <1>1, FS_Subset, FS_CardinalityType
<1>3. QED BY <1>1, <1>2

(* An operation needs at least one thread, and no more than fit into the   *)
(* counter.                                                                *)
LEMMA Launched ==
  ASSUME NEW H \in SUBSET Hlc, Launch(H)
  PROVE  /\ gtk' = "create" /\ to_create' \subseteq Worker /\ to_create' # {}
         /\ thread_count' = Cardinality(to_create') /\ thread_count' \in 0..255
<1>1. CASE H = {}
  <2>1. to_create' = {Sleeper} /\ thread_count' = Cardinality({Sleeper}) /\ gtk' = "create"
    BY <1>1 DEF Launch, InitialCount
  <2>2. Cardinality({Sleeper}) = 1
    BY FS_Singleton
  <2>3. QED BY <2>1, <2>2 DEF Worker
<1>2. CASE H # {}
  <2>1. to_create' = H /\ thread_count' = Cardinality(H) /\ gtk' = "create"
    BY <1>2 DEF Launch, InitialCount
  <2>2. Cardinality(H) <= Cardinality(Hlc) /\ Cardinality(H) \in Nat
    BY FS_Subset, FS_CardinalityType
  <2>3. Cardinality(Hlc) \in Nat /\ Cardinality(Hlc) <= 255
    OBVIOUS
  <2>4. Cardinality(H) \in 0..255
    BY <2>2, <2>3
  <2>5. QED BY <1>2, <2>1, <2>4 DEF Worker
<1>3. QED BY <1>1, <1>2

-----------------------------------------------------------------------------
(* Types, mutual exclusion in notify_upload_finished                       *)

LEMMA BasicsInit == Init => Basics
<1>1. Init => Flags
  BY DEF Init, Flags
<1>2. Init => Shape
  BY DEF Init, Shape, WorkerPc, GtkPc, Notifying, Worker
<1>3. QED BY <1>1, <1>2 DEF Basics

LEMMA FlagsGtk == ASSUME Flags, User \/ Quit \/ GtkStep \/ GreyOutEnds PROVE Flags'
<1> USE DEF Flags, counters, messages, marks, buttons, grey_out, ui
<1>1. CASE Toggle
  BY <1>1 DEF Toggle, CanDeploy, Click
<1>2. CASE DeployHere
  BY <1>2 DEF DeployHere, CanDeploy, Click
<1>3. CASE KillHere
  BY <1>3 DEF KillHere, GreyOutKill, CanKill, Click
<1>4. ASSUME NEW H \in SUBSET Hlc, Deploy(H) PROVE Flags'
  BY <1>4 DEF Deploy, CanDeploy, Click
<1>5. ASSUME NEW H \in SUBSET Hlc, Kill(H) PROVE Flags'
  BY <1>5 DEF Kill, GreyOutKill, CanKill, Click
<1>6. CASE Quit
  BY <1>6 DEF Quit
<1>7. CASE GreyOutEnds
  BY <1>7 DEF GreyOutEnds
<1>8. ASSUME NEW w \in Worker, CreateThread(w) PROVE Flags'
  BY <1>8 DEF CreateThread
<1>9. CASE UndoGreyOut
  BY <1>9 DEF UndoGreyOut, DeployControlsKill
<1>10. CASE TakeErrors
  BY <1>10 DEF TakeErrors
<1>11. CASE TakeClose
  BY <1>11 DEF TakeClose
<1>12. CASE CloseWindow
  BY <1>12 DEF CloseWindow
<1>13. CASE LockThreads
  BY <1>13 DEF LockThreads
<1>14. CASE JoinThreads
  BY <1>14 DEF JoinThreads, Join, Notifying
<1>15. CASE Destroy
  BY <1>15 DEF Destroy, Join, Notifying
<1> HIDE DEF Flags
<1>16. QED
  BY <1>1, <1>2, <1>3, <1>4, <1>5, <1>6, <1>7, <1>8, <1>9, <1>10, <1>11, <1>12, <1>13, <1>14,
     <1>15 DEF User, GtkStep

LEMMA FlagsWorker == ASSUME Flags, NEW w \in Worker, WorkerStep(w) PROVE Flags'
<1> USE DEF Flags, counters, messages, marks, buttons, grey_out, ui
<1>1. CASE Finish(w)
  BY <1>1 DEF Finish, NotifyFree, Notifying, Move
<1>2. CASE Report(w)
  BY <1>2 DEF Report, Emit, Notifying, Move
<1>3. CASE Count(w)
  BY <1>3 DEF Count, IsKill, Notifying, Move
<1>4. CASE Last(w)
  BY <1>4 DEF Last, Emit, Notifying, Move
<1>5. CASE Check(w)
  BY <1>5 DEF Check, Emit, EmitNothing, Notifying, Move
<1> HIDE DEF Flags
<1>6. QED BY <1>1, <1>2, <1>3, <1>4, <1>5 DEF WorkerStep

LEMMA ShapeGtk == ASSUME Shape, User \/ Quit \/ GtkStep \/ GreyOutEnds PROVE Shape'
<1> USE DEF Shape, WorkerPc, GtkPc, counters, messages, marks, buttons, grey_out, ui
<1>1. CASE Toggle
  BY <1>1 DEF Toggle, CanDeploy, Click
<1>2. CASE DeployHere
  BY <1>2 DEF DeployHere, CanDeploy, Click
<1>3. CASE KillHere
  BY <1>3 DEF KillHere, GreyOutKill, CanKill, Click
<1>4. ASSUME NEW H \in SUBSET Hlc, Deploy(H) PROVE Shape'
  BY <1>4, Launched DEF Deploy, CanDeploy, Click
<1>5. ASSUME NEW H \in SUBSET Hlc, Kill(H) PROVE Shape'
  BY <1>5, Launched DEF Kill, GreyOutKill, CanKill, Click
<1>6. CASE Quit
  BY <1>6 DEF Quit
<1>7. CASE GreyOutEnds
  BY <1>7 DEF GreyOutEnds
<1>8. ASSUME NEW w \in Worker, CreateThread(w) PROVE Shape'
  BY <1>8 DEF CreateThread, Notifying
<1>9. CASE UndoGreyOut
  BY <1>9 DEF UndoGreyOut
<1>10. CASE TakeErrors
  BY <1>10 DEF TakeErrors
<1>11. CASE TakeClose
  BY <1>11 DEF TakeClose
<1>12. CASE CloseWindow
  BY <1>12 DEF CloseWindow
<1>13. CASE LockThreads
  BY <1>13 DEF LockThreads
<1>14. CASE JoinThreads
  BY <1>14 DEF JoinThreads, Join, Notifying
<1>15. CASE Destroy
  BY <1>15 DEF Destroy, Join, Notifying
<1> HIDE DEF Shape
<1>16. QED
  BY <1>1, <1>2, <1>3, <1>4, <1>5, <1>6, <1>7, <1>8, <1>9, <1>10, <1>11, <1>12, <1>13, <1>14,
     <1>15 DEF User, GtkStep

LEMMA ShapeWorker == ASSUME Shape, NEW w \in Worker, WorkerStep(w) PROVE Shape'
<1> USE DEF Shape, WorkerPc, GtkPc, counters, messages, marks, buttons, grey_out, ui
<1>1. CASE Finish(w)
  BY <1>1 DEF Finish, NotifyFree, Notifying, Move
<1>2. CASE Report(w)
  BY <1>2 DEF Report, Emit, Notifying, Move
<1>3. CASE Count(w)
  BY <1>3 DEF Count, IsKill, Notifying, Move
<1>4. CASE Last(w)
  BY <1>4 DEF Last, Emit, Notifying, Move
<1>5. CASE Check(w)
  BY <1>5 DEF Check, Emit, EmitNothing, Notifying, Move
<1> HIDE DEF Shape
<1>6. QED BY <1>1, <1>2, <1>3, <1>4, <1>5 DEF WorkerStep

LEMMA BasicsStep == Basics /\ [Next]_vars => Basics'
<1> SUFFICES ASSUME Basics, [Next]_vars PROVE Basics'
  OBVIOUS
<1>1. CASE UNCHANGED vars
  BY <1>1 DEF Basics, Flags, Shape, vars, counters, messages, marks, buttons, grey_out, ui
<1>2. CASE Next
  BY <1>2, FlagsGtk, FlagsWorker, ShapeGtk, ShapeWorker DEF Next, Basics
<1>3. QED BY <1>1, <1>2

(* Every variable keeps to its type.                                       *)
THEOREM TypeCorrect == Spec => []TypeOK
<1>1. Basics => TypeOK
  BY DEF Basics, Flags, Shape, TypeOK
<1>2. QED BY <1>1, BasicsInit, BasicsStep, PTL DEF Spec

-----------------------------------------------------------------------------
(* The operations, as long as no dispatch is left over                     *)

Good == Basics /\ ~stray /\ Phases /\ Ui

LEMMA NoneAtWork ==
  /\ Cardinality({}) = 0
  /\ \A S \in SUBSET Worker : Cardinality(S) = 0 <=> S = {}
  /\ AtWork \subseteq Worker
BY Threads, FS_EmptySet DEF AtWork

(* A thread takes a step.                                                  *)
LEMMA AtWorkMove ==
  ASSUME Basics, NEW w \in Worker, NEW from, NEW to, Move(w, from, to)
  PROVE  /\ worker[w] = from /\ worker'[w] = to
         /\ \A u \in Worker : u # w => worker'[u] = worker[u]
         /\ AtWork' = IF to \in {"work", "report", "count"} THEN AtWork \cup {w} ELSE AtWork \ {w}
         /\ from \in {"work", "report", "count"} => w \in AtWork
BY DEF Move, AtWork, Basics, Shape

(* While an operation is in progress, the marks stay as they are.          *)
LEMMA UiStays ==
  ASSUME Ui, ~Over, UNCHANGED <<marks, simulation_running, deploy_sensitive, distributed>>,
         gtk' \in {"lock", "join"} \/ (UNCHANGED kill_sensitive /\ gtk \notin {"lock", "join"}),
         upload_done => to_create' = {} /\ AtWork' = {}
  PROVE  Ui'
BY DEF Ui, marks

LEMMA PhasesStay ==
  ASSUME UNCHANGED <<worker, to_create, gtk, counters, error_msg, dispatches, kill_called>>
  PROVE  /\ Rest' = Rest /\ Running' = Running /\ Ending' = Ending /\ Closing' = Closing
         /\ Gone' = Gone /\ AtWork' = AtWork
BY DEF Rest, Running, Ending, Closing, Gone, AtWork, counters

-----------------------------------------------------------------------------
(* The user                                                                *)

LEMMA UserClicks ==
  ASSUME Good, Toggle \/ DeployHere \/ KillHere \/ GreyOutEnds \/ UndoGreyOut
  PROVE  Phases' /\ Ui'
<1>1. /\ UNCHANGED <<worker, to_create, gtk, counters, error_msg, dispatches, marks>>
      /\ UNCHANGED kill_called
  BY DEF Toggle, DeployHere, KillHere, GreyOutEnds, UndoGreyOut, messages, marks
<1>2. Phases' /\ Over' = Over /\ AtWork' = AtWork
  BY <1>1, PhasesStay DEF Good, Phases, Over
<1>3. Ui
  BY DEF Good
<1>4. CASE Toggle
  <2>1. deploy_sensitive /\ UNCHANGED buttons
    BY <1>4 DEF Toggle, CanDeploy
  <2>2. Over /\ ~simulation_running
    BY <1>3, <2>1 DEF Ui
  <2>3. QED BY <1>1, <1>2, <1>3, <2>1, <2>2 DEF Ui, marks, buttons
<1>5. CASE DeployHere
  <2>1. Over /\ ~simulation_running /\ gtk = "idle"
    BY <1>3, <1>5 DEF Ui, DeployHere, CanDeploy
  <2>2. ~deploy_sensitive' /\ UNCHANGED <<kill_sensitive, distributed>>
    BY <1>5 DEF DeployHere
  <2>3. ~kill_called /\ ~upload_done
    BY <1>3, <2>1 DEF Ui, Over, Rest, Gone
  <2>4. ~kill_called' /\ ~upload_done' /\ Over'
    BY <1>1, <1>2, <2>1, <2>3 DEF marks
  <2>5. QED BY <1>2, <2>2, <2>4 DEF Ui
<1>6. CASE KillHere
  <2>1. /\ gtk = "idle" /\ kill_sensitive /\ (simulation_running => ~distributed)
        /\ ~simulation_running' /\ ~kill_sensitive' /\ UNCHANGED distributed
        /\ deploy_sensitive' = (deploy_sensitive \/ simulation_running)
    BY <1>6 DEF KillHere, GreyOutKill, CanKill
  <2>2. simulation_running => Over
    BY <1>3, <2>1 DEF Ui
  <2>3. ~upload_done
    BY <1>3, <2>1 DEF Ui
  <2>4. ~upload_done' /\ (Over \/ kill_called) /\ UNCHANGED <<kill_called, is_kill>>
    BY <1>1, <1>3, <2>2, <2>3 DEF Ui, marks
  <2>5. deploy_sensitive' => Over
    BY <1>3, <2>1, <2>2 DEF Ui
  <2>6. kill_called => is_kill
    BY <1>3 DEF Ui
  <2>7. QED BY <1>2, <2>1, <2>4, <2>5, <2>6 DEF Ui
<1>7. CASE GreyOutEnds
  <2>1. UNCHANGED <<buttons, distributed>>
    BY <1>7 DEF GreyOutEnds
  <2>2. QED BY <1>1, <1>2, <1>3, <2>1 DEF Ui, marks, buttons
<1>8. CASE UndoGreyOut
  <2>1. /\ gtk = "idle" /\ UNCHANGED <<simulation_running, deploy_sensitive, distributed>>
        /\ kill_sensitive' => (kill_sensitive \/ ~(simulation_running /\ distributed))
    BY <1>8 DEF UndoGreyOut, DeployControlsKill
  <2>2. kill_sensitive' /\ simulation_running => Over
    BY <1>3, <2>1 DEF Ui
  <2>3. QED BY <1>1, <1>2, <1>3, <2>1, <2>2 DEF Ui, marks
<1>9. QED BY <1>4, <1>5, <1>6, <1>7, <1>8

(* An operation starts from rest.                                          *)
LEMMA UserLaunches ==
  ASSUME Good, NEW H \in SUBSET Hlc, Deploy(H) \/ Kill(H)
  PROVE  Running' /\ Ui'
<1>1. Ui
  BY DEF Good
<1>2. gtk = "idle" /\ Launch(H) /\ UNCHANGED <<worker, messages, distributed>> /\ distributed
  BY DEF Deploy, Kill, CanDeploy, GreyOutKill, CanKill
<1>3. Rest
  <2>1. deploy_sensitive \/ (kill_sensitive /\ simulation_running)
    BY DEF Deploy, Kill, CanDeploy, GreyOutKill, CanKill
  <2>2. QED BY <1>1, <1>2, <2>1 DEF Ui, Over, Gone
<1>4. Running'
  <2>1. AtWork' = {}
    BY <1>2, <1>3 DEF Rest, AtWork
  <2>2. Cardinality(AtWork') = 0 /\ Cardinality(to_create') \in Nat
    BY <1>2, <2>1, Launched, NoneAtWork, Threads
  <2>3. /\ thread_count' = Cardinality(to_create') + Cardinality(AtWork')
        /\ to_create' # {} /\ to_create' \subseteq Worker /\ gtk' = "create"
    BY <1>2, <2>2, Launched
  <2>4. error_msg' = {} /\ dispatches' = 0 /\ \A w \in Worker : worker'[w] = "none"
    BY <1>2, <1>3 DEF Rest, messages
  <2>5. dispatches' = Cardinality(error_msg')
    BY <2>4, NoneAtWork
  <2>6. QED BY <2>3, <2>4, <2>5 DEF Running
<1>5. CASE Deploy(H)
  <2>1. ~deploy_sensitive' /\ ~kill_sensitive' /\ simulation_running' /\ participants_available'
        /\ UNCHANGED <<upload_done, kill_called, distributed>>
    BY <1>5 DEF Deploy
  <2>2. ~upload_done
    BY <1>1, <1>5 DEF Ui, Deploy, CanDeploy
  <2>3. QED BY <1>2, <1>3, <1>4, <2>1, <2>2 DEF Ui, Rest
<1>6. CASE Kill(H)
  <2>1. ~upload_done' /\ ~simulation_running' /\ is_kill' /\ kill_called'
        /\ UNCHANGED deploy_sensitive /\ simulation_running
    BY <1>6 DEF Kill
  <2>2. ~deploy_sensitive
    BY <1>1, <2>1 DEF Ui
  <2>3. QED BY <1>4, <2>1, <2>2 DEF Ui
<1>7. QED BY <1>4, <1>5, <1>6

-----------------------------------------------------------------------------
(* The upload threads                                                      *)

(* The phases exclude each other as far as the proof needs it: a thread    *)
(* that has still to count is one of an operation that runs.               *)
LEMMA CountingRuns ==
  ASSUME Good, NEW w \in Worker, worker[w] \in {"work", "report", "count", "check"}
  PROVE  Running /\ ~Over
BY DEF Good, Phases, Rest, Running, Ending, Closing, Gone, Over

(* A thread that takes a step leaves the operation running, if the counts  *)
(* are right again.                                                        *)
LEMMA RunningMove ==
  ASSUME Good, Running, NEW w \in Worker, NEW from \in {"work", "report", "count", "check"},
         NEW to \in {"report", "count", "check", "ended"}, Move(w, from, to),
         UNCHANGED <<to_create, gtk>>, to_create # {} \/ AtWork' # {},
         thread_count' = Cardinality(to_create') + Cardinality(AtWork'),
         dispatches' = Cardinality(error_msg'),
         \A u \in error_msg' : u \in error_msg \/ u = w,
         w \in error_msg' => to \in {"count", "check", "ended"}
  PROVE  Running'
<1>1. /\ worker[w] = from /\ worker'[w] = to
      /\ \A u \in Worker : u # w => worker'[u] = worker[u]
  BY AtWorkMove DEF Good
<1>2. error_msg \subseteq Worker /\ to_create \subseteq Worker
  BY DEF Good, Basics, Shape
<1>3. \A u \in to_create' : worker'[u] = "none"
  BY <1>1, <1>2 DEF Running
<1>4. \A u \in Worker : worker'[u] # "last"
  BY <1>1 DEF Running
<1>5. \A u \in error_msg' : worker'[u] \in {"count", "check", "ended"}
  BY <1>1, <1>2 DEF Running
<1>6. QED BY <1>3, <1>4, <1>5 DEF Running

LEMMA FinishStep ==
  ASSUME Good, NEW w \in Worker, Finish(w)
  PROVE  Running' /\ Ui'
<1>1. PICK to \in {"count", "report"} : Move(w, "work", to)
  BY DEF Finish
<1>2. /\ UNCHANGED <<to_create, gtk, thread_count, error_msg, dispatches, marks>>
      /\ UNCHANGED <<simulation_running, deploy_sensitive, distributed, kill_sensitive>>
  BY DEF Finish, counters, messages, ui, buttons
<1>3. Running /\ ~Over /\ w \in AtWork
  BY <1>1, CountingRuns, AtWorkMove DEF Good, Move
<1>4. AtWork' = AtWork
  BY <1>1, <1>3, AtWorkMove DEF Good
<1>5. w \notin error_msg
  BY <1>1, <1>3 DEF Running, Move
<1>6. Running'
  BY <1>1, <1>2, <1>3, <1>4, <1>5, RunningMove DEF Running
<1>7. Ui'
  BY <1>2, <1>3, <1>4, UiStays DEF Good, Ui, Running
<1>8. QED BY <1>6, <1>7

LEMMA ReportStep ==
  ASSUME Good, NEW w \in Worker, Report(w)
  PROVE  Running' /\ Ui'
<1>1. /\ Move(w, "report", "count") /\ error_msg' = error_msg \cup {w}
      /\ dispatches' = dispatches + 1
  BY DEF Report, Emit
<1>2. /\ UNCHANGED <<to_create, gtk, thread_count, marks>>
      /\ UNCHANGED <<simulation_running, deploy_sensitive, distributed, kill_sensitive>>
  BY DEF Report, counters, ui, buttons
<1>3. Running /\ ~Over /\ w \in AtWork
  BY <1>1, CountingRuns, AtWorkMove DEF Good, Move
<1>4. AtWork' = AtWork
  BY <1>1, <1>3, AtWorkMove DEF Good
<1>5. dispatches' = Cardinality(error_msg')
  <2>1. w \notin error_msg
    BY <1>1, <1>3 DEF Running, Move
  <2>2. IsFiniteSet(error_msg)
    BY Threads DEF Good, Basics, Shape
  <2>3. Cardinality(error_msg \cup {w}) = Cardinality(error_msg) + 1
    BY <2>1, <2>2, FS_AddElement
  <2>4. QED BY <1>1, <1>3, <2>3 DEF Running
<1>6. Running'
  BY <1>1, <1>2, <1>3, <1>4, <1>5, RunningMove DEF Running
<1>7. Ui'
  BY <1>2, <1>3, <1>4, UiStays DEF Good, Ui, Running
<1>8. QED BY <1>6, <1>7

(* The thread that counts is one of those thread_count is the number of.   *)
LEMMA CountStep ==
  ASSUME Good, NEW w \in Worker, Count(w)
  PROVE  (Running' \/ Ending') /\ Ui'
<1> DEFINE to == IF thread_count' = 0 THEN "last" ELSE "check"
<1>1. Move(w, "count", to)
  BY DEF Count
<1>2. /\ UNCHANGED <<to_create, gtk, error_msg, dispatches, kill_called, participants_available, is_kill>>
      /\ UNCHANGED <<simulation_running, deploy_sensitive, distributed, kill_sensitive>>
  BY DEF Count, messages, ui, buttons
<1>3. Running /\ ~Over /\ w \in AtWork
  BY <1>1, CountingRuns, AtWorkMove DEF Good, Move
<1>4. AtWork' = AtWork \ {w}
  BY <1>1, <1>3, AtWorkMove DEF Good
<1>5. /\ Cardinality(AtWork') = Cardinality(AtWork) - 1
      /\ Cardinality(AtWork) \in Nat /\ Cardinality(AtWork') \in Nat
      /\ Cardinality(to_create) \in Nat /\ to_create \subseteq Worker /\ AtWork' \subseteq Worker
  <2>1. AtWork \subseteq Worker /\ to_create \subseteq Worker
    BY NoneAtWork DEF Good, Basics, Shape
  <2>2. IsFiniteSet(AtWork) /\ Cardinality(AtWork) \in Nat /\ Cardinality(to_create) \in Nat
    BY <2>1, Threads
  <2>3. AtWork' \subseteq Worker
    BY <1>4, <2>1
  <2>4. Cardinality(AtWork') \in Nat
    BY <2>3, Threads
  <2>5. QED BY <1>3, <1>4, <2>1, <2>2, <2>3, <2>4, FS_RemoveElement
<1>6. thread_count' = Cardinality(to_create') + Cardinality(AtWork')
  <2>1. /\ thread_count = Cardinality(to_create) + Cardinality(AtWork)
        /\ thread_count \in 0..255 /\ thread_count' = (thread_count + 255) % 256
    BY <1>3 DEF Running, Count, Good, Basics, Shape
  <2>2. thread_count >= 1
    BY <1>5, <2>1
  <2>3. thread_count' = thread_count - 1
    BY <2>1, <2>2
  <2>4. QED BY <1>2, <1>5, <2>1, <2>3
<1>7. CASE thread_count' = 0
  <2>1. to_create' = {} /\ AtWork' = {}
    BY <1>2, <1>5, <1>6, <1>7, NoneAtWork
  <2>2. \A u \in Worker : u # w => worker'[u] \in {"none", "ended"}
    <3> SUFFICES ASSUME NEW u \in Worker, u # w PROVE worker'[u] \in {"none", "ended"}
      OBVIOUS
    <3>1. worker'[u] = worker[u] /\ worker[w] = "count" /\ worker[u] \in WorkerPc
      BY <1>1, AtWorkMove DEF Good, Basics, Shape
    <3>2. worker[u] \notin Notifying
      BY <3>1 DEF Good, Basics, Shape, Notifying
    <3>3. worker[u] # "work"
      BY <2>1, <3>1 DEF AtWork
    <3>4. QED BY <3>1, <3>2, <3>3 DEF WorkerPc, Notifying
  <2>3. worker'[w] = "last"
    BY <1>1, <1>7, AtWorkMove DEF Good
  <2>4. gtk' \in {"idle", "quit"} /\ dispatches' = Cardinality(error_msg')
    BY <1>2, <1>3, <2>1 DEF Running, Good, Basics, Shape
  <2>5. notify_count' = 0 /\ upload_done' = (upload_done \/ ~is_kill)
    BY <1>7 DEF Count, IsKill
  <2>6. Ending'
    BY <1>7, <2>1, <2>2, <2>3, <2>4, <2>5 DEF Ending
  <2>7. Ui'
    <3>1. ~is_kill => simulation_running /\ distributed /\ ~kill_called
      BY <1>3 DEF Good, Ui
    <3>2. upload_done => simulation_running /\ distributed /\ ~kill_called
      BY DEF Good, Ui
    <3>3. upload_done' => simulation_running' /\ distributed' /\ ~kill_called'
      BY <1>2, <2>5, <3>1, <3>2
    <3>4. /\ ~deploy_sensitive /\ ~(kill_sensitive /\ simulation_running)
          /\ ~(simulation_running /\ ~distributed) /\ (kill_called => ~simulation_running /\ is_kill)
          /\ kill_called \/ (simulation_running /\ participants_available)
      BY <1>3 DEF Good, Ui, Running
    <3>5. QED BY <1>2, <2>1, <3>3, <3>4 DEF Ui
  <2>8. QED BY <2>6, <2>7
<1>8. CASE thread_count' # 0
  <2>1. worker'[w] = "check" /\ UNCHANGED upload_done
    BY <1>1, <1>8, AtWorkMove DEF Good, Count
  <2>2. to_create' # {} \/ AtWork' # {}
    BY <1>2, <1>5, <1>6, <1>8, NoneAtWork
  <2>3. Running'
    <3>1. Move(w, "count", "check")
      BY <1>1, <1>8
    <3>2. dispatches' = Cardinality(error_msg')
      BY <1>2, <1>3 DEF Running
    <3>3. QED BY <1>2, <1>3, <1>6, <2>2, <3>1, <3>2, RunningMove
  <2>4. UNCHANGED marks
    BY <1>2, <2>1 DEF marks
  <2>5. ~upload_done
    BY <1>3 DEF Good, Ui, Running
  <2>6. Ui'
    BY <1>2, <1>3, <2>4, <2>5, UiStays DEF Good, Running
  <2>7. QED BY <2>3, <2>6
<1>9. QED BY <1>7, <1>8

(* The last thread's dispatch; any other one's would be left over.          *)
LEMMA LastStep ==
  ASSUME Good, NEW w \in Worker, Last(w)
  PROVE  Ending' /\ Ui'
<1>1. Move(w, "last", "ended") /\ dispatches' = dispatches + 1
  BY DEF Last, Emit
<1>2. /\ UNCHANGED <<to_create, gtk, counters, error_msg, marks>>
      /\ UNCHANGED <<simulation_running, deploy_sensitive, distributed, kill_sensitive>>
  BY DEF Last, ui, buttons
<1>3. Ending /\ ~Over
  BY <1>1 DEF Good, Phases, Rest, Running, Closing, Gone, Over, Move
<1>4. /\ worker[w] = "last" /\ worker'[w] = "ended"
      /\ \A u \in Worker : u # w => worker'[u] = worker[u] /\ worker[u] # "last"
  BY <1>1, AtWorkMove DEF Good, Basics, Shape, Notifying
<1>5. dispatches = Cardinality(error_msg)
  BY <1>3, <1>4 DEF Ending
<1>6. Ending'
  BY <1>1, <1>2, <1>3, <1>4, <1>5 DEF Ending, counters
<1>7. to_create' = {} /\ AtWork' = {}
  BY <1>6 DEF Ending, AtWork
<1>8. Ui'
  BY <1>2, <1>3, <1>7, UiStays DEF Good, Ending
<1>9. QED BY <1>6, <1>8

LEMMA CheckStep ==
  ASSUME Good, NEW w \in Worker, Check(w), ~stray'
  PROVE  Running' /\ Ui'
<1>1. Move(w, "check", "ended") /\ dispatches' = dispatches
  BY DEF Check, EmitNothing
<1>2. /\ UNCHANGED <<to_create, gtk, thread_count, error_msg, marks>>
      /\ UNCHANGED <<simulation_running, deploy_sensitive, distributed, kill_sensitive>>
  BY DEF Check, ui, buttons
<1>3. Running /\ ~Over
  BY <1>1, CountingRuns DEF Good, Move
<1>4. AtWork' = AtWork
  BY <1>1, AtWorkMove DEF Good, AtWork
<1>5. Running'
  BY <1>1, <1>2, <1>3, <1>4, RunningMove DEF Running
<1>6. Ui'
  BY <1>2, <1>3, <1>4, UiStays DEF Good, Ui, Running
<1>7. QED BY <1>5, <1>6

-----------------------------------------------------------------------------
(* The GTK thread                                                          *)

LEMMA CreateStep ==
  ASSUME Good, NEW w \in Worker, CreateThread(w)
  PROVE  Running' /\ Ui'
<1>1. /\ gtk = "create" /\ w \in to_create /\ to_create' = to_create \ {w}
      /\ worker' = [worker EXCEPT ![w] = "work"]
      /\ gtk' \in {"idle", "create"}
      /\ UNCHANGED <<thread_count, error_msg, dispatches, marks>>
      /\ UNCHANGED <<simulation_running, deploy_sensitive, distributed, kill_sensitive>>
  BY DEF CreateThread, counters, messages, ui, buttons
<1>2. Running /\ ~Over
  BY <1>1 DEF Good, Phases, Rest, Ending, Closing, Gone, Over
<1>3. /\ worker'[w] = "work" /\ worker[w] = "none"
      /\ \A u \in Worker : u # w => worker'[u] = worker[u]
  BY <1>1, <1>2 DEF Running, Good, Basics, Shape
<1>4. AtWork' = AtWork \cup {w} /\ w \notin AtWork
  BY <1>3 DEF AtWork
<1>5. thread_count' = Cardinality(to_create') + Cardinality(AtWork')
  <2>1. /\ IsFiniteSet(to_create) /\ Cardinality(to_create) \in Nat
        /\ IsFiniteSet(AtWork) /\ Cardinality(AtWork) \in Nat
    BY Threads, NoneAtWork DEF Good, Basics, Shape
  <2>2. /\ Cardinality(to_create') = Cardinality(to_create) - 1
        /\ Cardinality(AtWork') = Cardinality(AtWork) + 1
    BY <1>1, <1>4, <2>1, FS_AddElement, FS_RemoveElement
  <2>3. QED BY <1>1, <1>2, <2>1, <2>2 DEF Running
<1>6. Running'
  <2>1. error_msg \subseteq Worker /\ to_create \subseteq Worker
    BY DEF Good, Basics, Shape
  <2>2. w \notin error_msg
    BY <1>2, <1>3 DEF Running
  <2>3. \A u \in to_create' : worker'[u] = "none"
    BY <1>1, <1>2, <1>3, <2>1 DEF Running
  <2>4. \A u \in Worker : worker'[u] # "last"
    BY <1>2, <1>3 DEF Running
  <2>5. \A u \in error_msg' : worker'[u] \in {"count", "check", "ended"}
    BY <1>1, <1>2, <1>3, <2>1, <2>2 DEF Running
  <2>6. dispatches' = Cardinality(error_msg')
    BY <1>1, <1>2 DEF Running
  <2>7. QED BY <1>1, <1>4, <1>5, <2>3, <2>4, <2>5, <2>6 DEF Running
<1>7. ~upload_done
  BY <1>1 DEF Good, Ui
<1>8. Ui'
  BY <1>1, <1>2, <1>7, UiStays DEF Good
<1>9. QED BY <1>6, <1>8

(* Errors are shown one at a time, or a dispatch is left over.             *)
LEMMA ErrorsStep ==
  ASSUME Good, TakeErrors, ~stray'
  PROVE  (Running' \/ Ending') /\ Ui'
<1>1. /\ gtk = "idle" /\ dispatches > 0 /\ error_msg # {} /\ error_msg' = {}
      /\ dispatches' = dispatches - 1 /\ ~(Cardinality(error_msg) > 1)
      /\ UNCHANGED <<worker, to_create, gtk, counters, marks>>
      /\ UNCHANGED <<simulation_running, deploy_sensitive, distributed, kill_sensitive>>
  BY DEF TakeErrors, ui, buttons
<1>2. (Running \/ Ending) /\ ~Over
  BY <1>1 DEF Good, Phases, Rest, Closing, Gone, Over
<1>3. Cardinality(error_msg) = 1 /\ Cardinality(error_msg') = 0 /\ dispatches \in Nat
  <2>1. error_msg \subseteq Worker /\ dispatches \in Nat
    BY DEF Good, Basics, Shape
  <2>2. Cardinality(error_msg) \in Nat /\ Cardinality(error_msg) # 0
    BY <1>1, <2>1, Threads, NoneAtWork
  <2>3. QED BY <1>1, <2>1, <2>2, NoneAtWork
<1>4. AtWork' = AtWork
  BY <1>1 DEF AtWork
<1>5. CASE Running
  <2>1. dispatches' = Cardinality(error_msg')
    BY <1>1, <1>3, <1>5 DEF Running
  <2>2. QED
    <3>1. Running'
      BY <1>1, <1>4, <1>5, <2>1 DEF Running, counters
    <3>2. Ui'
      BY <1>1, <1>2, <1>4, <1>5, UiStays DEF Good, Ui, Running
    <3>3. QED BY <3>1, <3>2
<1>6. CASE Ending
  <2>1. Ending'
    BY <1>1, <1>3, <1>6 DEF Ending, counters
  <2>2. to_create' = {} /\ AtWork' = {}
    BY <2>1 DEF Ending, AtWork
  <2>3. Ui'
    BY <1>1, <1>2, <2>2, UiStays DEF Good
  <2>4. QED BY <2>1, <2>3
<1>7. QED BY <1>2, <1>5, <1>6

(* Without an error to show, the dispatch is that of the last thread.      *)
LEMMA CloseSteps ==
  ASSUME Good, TakeClose \/ CloseWindow \/ LockThreads
  PROVE  Closing' /\ Ui'
<1>1. /\ UNCHANGED <<worker, to_create, counters, error_msg, marks>>
      /\ UNCHANGED <<simulation_running, deploy_sensitive, distributed>>
  BY DEF TakeClose, CloseWindow, LockThreads, messages, ui, buttons
<1>2. CASE TakeClose
  <2>1. /\ gtk = "idle" /\ gtk' = "close" /\ dispatches > 0 /\ error_msg = {}
        /\ dispatches' = dispatches - 1 /\ UNCHANGED kill_sensitive
    BY <1>2 DEF TakeClose, ui, buttons
  <2>2. Cardinality(error_msg) = 0
    BY <2>1, NoneAtWork
  <2>3. Ending /\ ~Over
    BY <2>1, <2>2 DEF Good, Phases, Rest, Running, Closing, Gone, Over
  <2>4. dispatches = 1 /\ \A w \in Worker : worker[w] # "last"
    BY <2>1, <2>2, <2>3 DEF Ending
  <2>5. Closing'
    BY <1>1, <2>1, <2>3, <2>4 DEF Ending, Closing, counters
  <2>6. to_create' = {} /\ AtWork' = {}
    BY <2>5 DEF Closing, AtWork
  <2>7. Ui'
    BY <1>1, <2>1, <2>3, <2>6, UiStays DEF Good
  <2>8. QED BY <2>5, <2>7
<1>3. CASE CloseWindow \/ LockThreads
  <2>1. gtk \in {"close", "lock"} /\ gtk' \in {"lock", "join"} /\ UNCHANGED dispatches
    BY <1>3 DEF CloseWindow, LockThreads, messages
  <2>2. Closing /\ ~Over
    BY <2>1 DEF Good, Phases, Rest, Running, Ending, Gone, Over
  <2>3. Closing'
    BY <1>1, <2>1, <2>2 DEF Closing, counters
  <2>4. to_create' = {} /\ AtWork' = {}
    BY <2>3 DEF Closing, AtWork
  <2>5. Ui'
    BY <1>1, <2>1, <2>2, <2>4, UiStays DEF Good
  <2>6. QED BY <2>3, <2>5
<1>4. QED BY <1>2, <1>3

(* The end of an operation.                                                *)
LEMMA JoinStep ==
  ASSUME Good, JoinThreads
  PROVE  Rest' /\ Ui'
<1>1. /\ gtk = "join" /\ gtk' = "idle" /\ kill_called' = FALSE
      /\ \A w \in Worker : worker'[w] = "none"
      /\ deploy_sensitive' = (deploy_sensitive \/ kill_called \/ ~participants_available)
      /\ UNCHANGED <<to_create, counters, error_msg, dispatches, upload_done>>
      /\ UNCHANGED <<participants_available, is_kill, simulation_running, distributed>>
  BY DEF JoinThreads, Join, messages
<1>2. Closing /\ ~Over
  BY <1>1 DEF Good, Phases, Rest, Running, Ending, Gone, Over
<1>3. Rest'
  BY <1>1, <1>2 DEF Closing, Rest, counters
<1>4. to_create' = {} /\ AtWork' = {}
  BY <1>3 DEF Rest, AtWork
<1>5. deploy_sensitive' => ~simulation_running'
  <2>1. ~deploy_sensitive /\ (kill_called => ~simulation_running)
        /\ (kill_called \/ (simulation_running /\ participants_available))
    BY <1>2 DEF Good, Ui
  <2>2. QED BY <1>1, <2>1
<1>6. upload_done' => simulation_running' /\ distributed'
  BY <1>1 DEF Good, Ui
<1>7. QED BY <1>1, <1>3, <1>4, <1>5, <1>6 DEF Ui, Over

(* The LCC is closed.                                                      *)
LEMMA QuitSteps ==
  ASSUME Good, Quit \/ Destroy
  PROVE  Phases' /\ Ui'
<1>1. UNCHANGED <<to_create, counters, error_msg, dispatches, marks, buttons, distributed, kill_called>>
  BY DEF Quit, Destroy, messages, ui, marks
<1>2. CASE Quit
  <2>1. gtk = "idle" /\ gtk' = "quit" /\ UNCHANGED worker
    BY <1>2 DEF Quit
  <2>2. AtWork' = AtWork
    BY <2>1 DEF AtWork
  <2>3. /\ (Rest => Rest')
        /\ (Running => Running')
        /\ (Ending => Ending')
        /\ ~Closing
        /\ ~Gone
    BY <1>1, <2>1, <2>2 DEF Rest, Running, Ending, Closing, Gone, counters
  <2>4. Phases' /\ (Over => Over')
    <3>1. Rest \/ Running \/ Ending
      BY <2>3 DEF Good, Phases
    <3>2. Phases'
      BY <2>3, <3>1 DEF Phases
    <3>3. Over => Over'
      BY <2>3 DEF Over
    <3>4. QED BY <3>2, <3>3
  <2>5. Ui'
    BY <1>1, <2>1, <2>2, <2>4 DEF Good, Ui, marks, buttons
  <2>6. QED BY <2>4, <2>5
<1>3. CASE Destroy
  <2>1. /\ gtk = "quit" /\ gtk' = "gone" /\ to_create = {}
        /\ \A w \in Worker : worker[w] \in {"none", "ended"} /\ worker'[w] = "none"
    BY <1>3 DEF Destroy, Join, Good, Basics, Shape
  <2>2. AtWork = {} /\ AtWork' = {}
    BY <2>1 DEF AtWork
  <2>3. thread_count = 0
    BY <2>1, <2>2 DEF Good, Phases, Rest, Running, Ending, Closing, Gone
  <2>4. Gone'
    BY <1>1, <2>1, <2>3 DEF Gone, counters
  <2>5. Ui'
    BY <1>1, <2>1, <2>2, <2>4 DEF Good, Ui, Over, marks, buttons
  <2>6. QED BY <2>4, <2>5 DEF Phases
<1>4. QED BY <1>2, <1>3

-----------------------------------------------------------------------------
(* The invariant                                                           *)

LEMMA InvInit == Init => IInv
<1> SUFFICES ASSUME Init PROVE IInv
  OBVIOUS
<1>1. Rest
  BY DEF Init, Rest
<1>2. Ui
  BY <1>1 DEF Init, Ui, Over
<1>3. QED BY <1>1, <1>2, BasicsInit DEF IInv, Phases

(* A dispatch that has been left over stays left over.                     *)
LEMMA StrayStays == ASSUME [Next]_vars, stray PROVE stray'
<1>1. CASE UNCHANGED stray
  BY <1>1
<1>2. ASSUME NEW w \in Worker, Check(w) PROVE stray'
  BY <1>2 DEF Check
<1>3. CASE TakeErrors
  BY <1>3 DEF TakeErrors
<1>4. \/ UNCHANGED stray \/ TakeErrors
      \/ \E w \in Worker : Check(w)
  BY DEF Next, vars, messages, User, Toggle, DeployHere, KillHere, Deploy, Kill, Quit, GtkStep,
     CreateThread, UndoGreyOut, TakeClose, CloseWindow, LockThreads, JoinThreads, Destroy,
     GreyOutEnds, WorkerStep, Finish, Report, Count, Last
<1>5. QED BY <1>1, <1>2, <1>3, <1>4

LEMMA PhasesStep ==
  ASSUME Good, [Next]_vars, ~stray'
  PROVE  Phases' /\ Ui'
<1>1. CASE UNCHANGED vars
  <2>1. UNCHANGED <<worker, to_create, gtk, counters, error_msg, dispatches, kill_called>>
    BY <1>1 DEF vars, messages, marks
  <2>2. UNCHANGED <<marks, buttons, distributed>>
    BY <1>1 DEF vars, ui
  <2>3. Phases' /\ Over' = Over /\ AtWork' = AtWork
    BY <2>1, PhasesStay DEF Good, Phases, Over
  <2>4. Ui'
    BY <2>1, <2>2, <2>3 DEF Good, Ui, marks, buttons
  <2>5. QED BY <2>3, <2>4
<1>2. CASE User
  BY <1>2, UserClicks, UserLaunches DEF User, Phases
<1>3. CASE Quit \/ GreyOutEnds
  BY <1>3, QuitSteps, UserClicks
<1>4. CASE GtkStep
  BY <1>4, CreateStep, UserClicks, ErrorsStep, CloseSteps, JoinStep, QuitSteps DEF GtkStep, Phases
<1>5. ASSUME NEW w \in Worker, WorkerStep(w) PROVE Phases' /\ Ui'
  BY <1>5, FinishStep, ReportStep, CountStep, LastStep, CheckStep DEF WorkerStep, Phases
<1>6. QED BY <1>1, <1>2, <1>3, <1>4, <1>5 DEF Next

LEMMA InvStep == IInv /\ [Next]_vars => IInv'
<1> SUFFICES ASSUME IInv, [Next]_vars PROVE IInv'
  OBVIOUS
<1>1. Basics'
  BY BasicsStep DEF IInv
<1>2. ASSUME ~stray' PROVE Phases' /\ Ui'
  <2>1. ~stray
    BY <1>2, StrayStays
  <2>2. Good
    BY <2>1 DEF IInv, Good
  <2>3. QED BY <1>2, <2>2, PhasesStep
<1>3. QED BY <1>1, <1>2 DEF IInv

LEMMA InvSafe == IInv => UploadsSafe
<1> SUFFICES ASSUME IInv PROVE UploadsSafe
  OBVIOUS
<1>1. TypeOK
  BY DEF IInv, Basics, Flags, Shape, TypeOK
<1>2. ASSUME ~stray PROVE Phases /\ Ui
  BY <1>2 DEF IInv
<1>3. ThreadCountExact
  <2>1. ASSUME ~stray PROVE thread_count = Cardinality(to_create) + Cardinality(AtWork)
    <3>1. CASE Running
      BY <3>1 DEF Running
    <3>2. CASE Rest \/ Ending \/ Closing \/ Gone
      <4>1. thread_count = 0 /\ to_create = {} /\ AtWork = {}
        BY <3>2 DEF Rest, Ending, Closing, Gone, AtWork
      <4>2. QED BY <4>1, NoneAtWork
    <3>3. QED BY <1>2, <2>1, <3>1, <3>2 DEF Phases
  <2>2. QED BY <2>1 DEF ThreadCountExact
<1>4. UploadDoneMeansDone
  BY <1>2 DEF UploadDoneMeansDone, Ui
<1>5. StartsClean
  <2>1. ASSUME ~stray, MayOperate PROVE Rest
    BY <1>2, <2>1 DEF MayOperate, CanDeploy, CanKill, Ui, Over, Gone
  <2>2. Rest => upload_threads = {} /\ thread_count = 0 /\ notify_count = 0 /\ error_msg = {}
                /\ ~kill_called
    BY DEF Rest, upload_threads
  <2>3. QED BY <2>1, <2>2 DEF StartsClean
<1>6. EarlyJoinNeedsStray
  <2>1. ASSUME ~stray, gtk \in {"close", "lock", "join"} PROVE AtWork = {}
    BY <1>2, <2>1 DEF Phases, Rest, Running, Ending, Closing, Gone, AtWork
  <2>2. QED BY <2>1 DEF EarlyJoinNeedsStray
<1>7. QED BY <1>1, <1>3, <1>4, <1>5, <1>6 DEF UploadsSafe

(* The counters, the buttons and the flag for the crash checker agree with *)
(* the upload threads, an operation starts from nothing, and a join comes  *)
(* too early only after a stray dispatch.                                  *)
THEOREM UploadsCorrect == Spec => []UploadsSafe
BY InvInit, InvStep, InvSafe, PTL DEF Spec

-----------------------------------------------------------------------------
(* The checks for crashes                                                  *)

Lists == newly_crashed_participants \cup already_crashed_participants
Failed(programs) == \A p \in programs : failed[p] > 0

(* The lists are empty and the thread is joined between the deployments.   *)
Session ==
  /\ c_gtk = "join" => c_deployed /\ ~crash_check_running
  /\ ~c_deployed => c_gtk = "free" /\ ~crash_check_running
  /\ c_gtk = "free" /\ ~crash_check_running =>
       checker = "none" /\ Lists = {} /\ crashed_remote_hlcs = {}

(* Whoever is not up has failed; so has a NUC without a hello, once the    *)
(* time for the first ones has passed.                                     *)
Missing ==
  /\ c_deployed => Failed(Crashes!Program \ up)
  /\ checker # "none" /\ waited => Failed(Remote \ hlc_map)

Reported ==
  /\ newly_crashed_participants # {} => c_dispatches > 0
  /\ ~late => already_crashed_participants \subseteq c_shown

CrashInv ==
  /\ Crashes!TypeOK /\ Session /\ Missing /\ Reported
  /\ Failed(found) /\ Failed(c_shown) /\ Failed(Lists) /\ Failed(crashed_remote_hlcs)
  /\ Crashes!RemotePartition

LEMMA CrashInit == Crashes!Init => CrashInv
<1> SUFFICES ASSUME Crashes!Init PROVE CrashInv
  OBVIOUS
<1>1. failed = [p \in Crashes!Program |-> 0] /\ 0 \in 0 .. Failures /\ 0 \in 0 .. Deployments
  BY CrashAssumption DEF Crashes!Init
<1>2. Crashes!TypeOK
  <2>1. failed \in [Crashes!Program -> 0 .. Failures] /\ deployments \in 0 .. Deployments
    BY <1>1 DEF Crashes!Init
  <2>2. QED BY <2>1 DEF Crashes!Init, Crashes!TypeOK
<1>3. Session /\ Reported
  BY DEF Crashes!Init, Session, Reported, Lists
<1>4. Missing /\ Crashes!RemotePartition
  BY DEF Crashes!Init, Missing, Crashes!RemotePartition
<1>5. Failed(found) /\ Failed(c_shown) /\ Failed(Lists) /\ Failed(crashed_remote_hlcs)
  BY DEF Crashes!Init, Failed, Lists
<1>6. QED BY <1>2, <1>3, <1>4, <1>5 DEF CrashInv

LEMMA CrashTypes == ASSUME Crashes!TypeOK, Crashes!Next PROVE Crashes!TypeOK'
<1> USE CrashAssumption DEF Crashes!TypeOK, Crashes!lists, Crashes!remotes, Crashes!world, Crashes!session
<1>1. CASE Crashes!StartChecking
  <2>1. failed' \in [Crashes!Program -> 0 .. Failures] /\ deployments' \in 0 .. Deployments
    BY <1>1 DEF Crashes!StartChecking
  <2>2. QED BY <1>1, <2>1 DEF Crashes!StartChecking
<1>2. CASE Crashes!StopChecking \/ Crashes!Joined \/ Crashes!KillPrograms \/ Crashes!UiDispatch
  <2>1. CASE Crashes!StopChecking
    BY <2>1 DEF Crashes!StopChecking
  <2>2. CASE Crashes!Joined
    BY <2>2 DEF Crashes!Joined
  <2>3. CASE Crashes!KillPrograms
    BY <2>3 DEF Crashes!KillPrograms
  <2>4. CASE Crashes!UiDispatch
    BY <2>4 DEF Crashes!UiDispatch
  <2>5. QED BY <1>2, <2>1, <2>2, <2>3, <2>4
<1>3. CASE Crashes!WakeUp \/ Crashes!TestRunning \/ Crashes!CheckLocal
  BY <1>3 DEF Crashes!WakeUp, Crashes!TestRunning, Crashes!CheckLocal, Crashes!Program
<1>4. CASE Crashes!CheckRemote
  BY <1>4 DEF Crashes!CheckRemote, Crashes!Program
<1>5. CASE Crashes!Reintegrate
  BY <1>5 DEF Crashes!Reintegrate
<1>6. CASE Crashes!Update
  <2>1. CASE found = {}
    BY <1>6, <2>1 DEF Crashes!Update
  <2>2. CASE found # {}
    <3>1. /\ already_crashed_participants' = Lists
          /\ newly_crashed_participants' = found \ Lists
          /\ c_dispatches' = IF found \ Lists # {} THEN c_dispatches + 1 ELSE c_dispatches
          /\ late' = (late \/ (newly_crashed_participants # {} /\ c_dispatches > 0))
      BY <1>6, <2>2 DEF Crashes!Update, Lists
    <3>2. /\ checker' = "sleep"
          /\ UNCHANGED <<found, Crashes!remotes, Crashes!world, Crashes!session, c_shown>>
      BY <1>6 DEF Crashes!Update
    <3>3. QED BY <3>1, <3>2 DEF Lists
  <2>3. QED BY <2>1, <2>2
<1>7. CASE Crashes!UploadFinishes \/ Crashes!WaitingTimePasses
  BY <1>7 DEF Crashes!UploadFinishes, Crashes!WaitingTimePasses
<1>8. ASSUME NEW n \in Remote, Crashes!Hello(n) \/ Crashes!Recover(n)
      PROVE  Crashes!TypeOK'
  BY <1>8 DEF Crashes!Hello, Crashes!Recover, Crashes!Program
<1>9. ASSUME NEW p \in Crashes!Program, Crashes!Fail(p) PROVE Crashes!TypeOK'
  BY <1>9 DEF Crashes!Fail
<1>10. QED
  BY <1>1, <1>2, <1>3, <1>4, <1>5, <1>6, <1>7, <1>8, <1>9 DEF Crashes!Next, Crashes!CheckerStep

(* Between two deployments nothing is left that the next could report.     *)
LEMMA CrashSession == ASSUME CrashInv, Crashes!Next PROVE Session'
<1> USE DEF CrashInv, Crashes!TypeOK, Session, Lists,
            Crashes!lists, Crashes!remotes, Crashes!world, Crashes!session
<1>1. CASE Crashes!StartChecking \/ Crashes!StopChecking \/ Crashes!Joined
           \/ Crashes!KillPrograms \/ Crashes!UiDispatch
  BY <1>1 DEF Crashes!StartChecking, Crashes!StopChecking, Crashes!Joined, Crashes!KillPrograms,
              Crashes!UiDispatch
<1>2. CASE Crashes!CheckerStep
  BY <1>2 DEF Crashes!CheckerStep, Crashes!WakeUp, Crashes!TestRunning, Crashes!CheckLocal,
              Crashes!CheckRemote, Crashes!Reintegrate, Crashes!Update
<1>3. CASE \/ Crashes!UploadFinishes \/ Crashes!WaitingTimePasses
           \/ \E n \in Remote : Crashes!Hello(n) \/ Crashes!Recover(n)
           \/ \E p \in Crashes!Program : Crashes!Fail(p)
  BY <1>3 DEF Crashes!UploadFinishes, Crashes!WaitingTimePasses, Crashes!Hello,
              Crashes!Recover, Crashes!Fail
<1>4. QED BY <1>1, <1>2, <1>3 DEF Crashes!Next

(* What is in a list has failed.                                           *)
LEMMA CrashFailed ==
  ASSUME CrashInv, Crashes!Next
  PROVE  /\ Missing'
         /\ Failed(found)' /\ Failed(c_shown)' /\ Failed(Lists)' /\ Failed(crashed_remote_hlcs)'
<1> USE DEF CrashInv, Missing, Failed, Lists,
            Crashes!lists, Crashes!remotes, Crashes!world, Crashes!session
<1>1. CASE Crashes!StartChecking
  BY <1>1 DEF Crashes!StartChecking, Session
<1>2. CASE Crashes!StopChecking \/ Crashes!Joined \/ Crashes!KillPrograms
  BY <1>2 DEF Crashes!StopChecking, Crashes!Joined, Crashes!KillPrograms, Session
<1>3. CASE Crashes!UiDispatch
  BY <1>3 DEF Crashes!UiDispatch
<1>4. CASE Crashes!WakeUp \/ Crashes!TestRunning \/ Crashes!Reintegrate
  BY <1>4 DEF Crashes!WakeUp, Crashes!TestRunning, Crashes!Reintegrate
<1>5. CASE Crashes!CheckLocal
  BY <1>5 DEF Crashes!CheckLocal, Crashes!Program, Session
<1>6. CASE Crashes!CheckRemote
  BY <1>6 DEF Crashes!CheckRemote, Crashes!TypeOK
<1>7. CASE Crashes!Update
  BY <1>7 DEF Crashes!Update
<1>8. CASE Crashes!UploadFinishes
  BY <1>8 DEF Crashes!UploadFinishes
<1>9. CASE Crashes!WaitingTimePasses
  BY <1>9 DEF Crashes!WaitingTimePasses, Crashes!Program, Crashes!TypeOK, Session
<1>10. ASSUME NEW n \in Remote, Crashes!Hello(n) \/ Crashes!Recover(n)
       PROVE  /\ Missing'
              /\ Failed(found)' /\ Failed(c_shown)' /\ Failed(Lists)' /\ Failed(crashed_remote_hlcs)'
  BY <1>10 DEF Crashes!Hello, Crashes!Recover, Crashes!Program, Crashes!TypeOK, Session
<1>11. ASSUME NEW p \in Crashes!Program, Crashes!Fail(p)
       PROVE  /\ Missing'
              /\ Failed(found)' /\ Failed(c_shown)' /\ Failed(Lists)' /\ Failed(crashed_remote_hlcs)'
  <2>1. \A q \in Crashes!Program : failed[q] > 0 \/ q = p => failed'[q] > 0
    BY <1>11 DEF Crashes!Fail, Crashes!TypeOK
  <2>2. /\ Crashes!Program \ up' \subseteq (Crashes!Program \ up) \cup {p}
        /\ Remote \ hlc_map' \subseteq (Remote \ hlc_map) \cup {p}
        /\ Remote \subseteq Crashes!Program
    BY <1>11 DEF Crashes!Fail, Crashes!Program
  <2>3. QED BY <1>11, <2>1, <2>2 DEF Crashes!Fail, Crashes!TypeOK
<1>12. QED
  BY <1>1, <1>2, <1>3, <1>4, <1>5, <1>6, <1>7, <1>8, <1>9, <1>10, <1>11
  DEF Crashes!Next, Crashes!CheckerStep

(* A crash goes from the list of new ones to that of old ones through a    *)
(* dialog, unless the next round comes first; the two loops of             *)
(* check_for_remote_crashes move NUCs between their lists.                 *)
LEMMA CrashLists == ASSUME CrashInv, Crashes!Next PROVE Reported' /\ Crashes!RemotePartition'
<1> USE DEF CrashInv, Crashes!TypeOK, Reported, Crashes!RemotePartition,
            Crashes!lists, Crashes!remotes, Crashes!world, Crashes!session
<1>1. CASE Crashes!StartChecking
  BY <1>1 DEF Crashes!StartChecking, Session, Lists
<1>2. CASE Crashes!StopChecking \/ Crashes!Joined \/ Crashes!KillPrograms
  BY <1>2 DEF Crashes!StopChecking, Crashes!Joined, Crashes!KillPrograms, Session
<1>3. CASE Crashes!UiDispatch
  BY <1>3 DEF Crashes!UiDispatch
<1>4. CASE Crashes!WakeUp \/ Crashes!TestRunning \/ Crashes!CheckLocal
  BY <1>4 DEF Crashes!WakeUp, Crashes!TestRunning, Crashes!CheckLocal
<1>5. CASE Crashes!CheckRemote
  BY <1>5 DEF Crashes!CheckRemote
<1>6. CASE Crashes!Reintegrate
  BY <1>6 DEF Crashes!Reintegrate
<1>7. CASE Crashes!Update
  <2>1. CASE found = {}
    BY <1>7, <2>1 DEF Crashes!Update
  <2>2. CASE found # {}
    <3>1. /\ already_crashed_participants' = Lists
          /\ newly_crashed_participants' = found \ Lists
          /\ c_dispatches' = IF found \ Lists # {} THEN c_dispatches + 1 ELSE c_dispatches
          /\ late' = (late \/ (newly_crashed_participants # {} /\ c_dispatches > 0))
      BY <1>7, <2>2 DEF Crashes!Update, Lists
    <3>2. /\ checker' = "sleep"
          /\ UNCHANGED <<found, Crashes!remotes, Crashes!world, Crashes!session, c_shown>>
      BY <1>7 DEF Crashes!Update
    <3>3. newly_crashed_participants' # {} => c_dispatches' > 0
      BY <3>1
    <3>4. ASSUME ~late' PROVE already_crashed_participants' \subseteq c_shown
      <4>1. ~late /\ newly_crashed_participants = {}
        BY <3>1, <3>4
      <4>2. QED BY <3>1, <4>1 DEF Lists
    <3>5. Crashes!RemotePartition'
      BY <3>2
    <3>6. QED BY <3>2, <3>3, <3>4, <3>5
  <2>3. QED BY <2>1, <2>2
<1>8. CASE \/ Crashes!UploadFinishes \/ Crashes!WaitingTimePasses
           \/ \E n \in Remote : Crashes!Hello(n) \/ Crashes!Recover(n)
           \/ \E p \in Crashes!Program : Crashes!Fail(p)
  BY <1>8 DEF Crashes!UploadFinishes, Crashes!WaitingTimePasses, Crashes!Hello,
              Crashes!Recover, Crashes!Fail
<1>9. QED
  BY <1>1, <1>2, <1>3, <1>4, <1>5, <1>6, <1>7, <1>8 DEF Crashes!Next, Crashes!CheckerStep

LEMMA CrashStep == CrashInv /\ [Crashes!Next]_(Crashes!vars) => CrashInv'
<1> SUFFICES ASSUME CrashInv, [Crashes!Next]_(Crashes!vars) PROVE CrashInv'
  OBVIOUS
<1>1. CASE Crashes!Next
  BY <1>1, CrashTypes, CrashSession, CrashFailed, CrashLists DEF CrashInv
<1>2. CASE UNCHANGED Crashes!vars
  BY <1>2 DEF CrashInv, Crashes!TypeOK, Session, Missing, Reported, Failed, Lists,
              Crashes!RemotePartition, Crashes!vars, Crashes!lists, Crashes!remotes,
              Crashes!world, Crashes!session
<1>3. QED BY <1>1, <1>2

(* For any programs on this machine and on the NUCs, however they fail and *)
(* recover: no dialog and no list names a program that did not fail, those *)
(* called reported were in a dialog, and while a deployment is checked     *)
(* each NUC is either running or crashed (CrashChecker.cpp).               *)
THEOREM CrashesCorrect == Crashes!Spec => []CrashesTrue
<1>1. CrashInv => CrashesTrue
  BY DEF CrashInv, CrashesTrue, Crashes!NoFalseAlarm, Crashes!AlreadyMeansReported, Failed,
         Lists, Reported
<1>2. QED BY <1>1, CrashInit, CrashStep, PTL DEF Crashes!Spec

-----------------------------------------------------------------------------
(* Shell commands: types                                                   *)

Command == Commands!Command

(* Who sends, waits, executes or answers has a command.                    *)
LEMMA HasJob ==
  ASSUME Commands!TypeOK
  PROVE  /\ \A c \in Caller : caller[c].pc \in {"send", "wait"} =>
              /\ caller[c] \in Commands!Busy({"send", "wait"}, Command)
              /\ caller[c].job \in Command
         /\ \A l \in Commands!Life, w \in Pool : pool[l][w].pc \in {"execute", "answer"} =>
              /\ pool[l][w] \in Commands!Busy({"execute", "answer"}, Command)
              /\ pool[l][w].job \in Command
         /\ Commands!Idle.pc = "idle"
<1>1. Commands!Idle.pc = "idle"
  BY DEF Commands!Idle
<1>2. ASSUME NEW c \in Caller, caller[c].pc \in {"send", "wait"}
      PROVE  /\ caller[c] \in Commands!Busy({"send", "wait"}, Command)
             /\ caller[c].job \in Command
  BY <1>1, <1>2 DEF Commands!TypeOK, Commands!Busy, Command
<1>3. ASSUME NEW l \in Commands!Life, NEW w \in Pool, pool[l][w].pc \in {"execute", "answer"}
      PROVE  /\ pool[l][w] \in Commands!Busy({"execute", "answer"}, Command)
             /\ pool[l][w].job \in Command
  BY <1>1, <1>3 DEF Commands!TypeOK, Commands!Busy, Command
<1>4. QED BY <1>1, <1>2, <1>3

CommandTypes == Commands!TypeOK /\ (lcc = "down" => life < Lives)

LEMMA CommandTypesInit == Commands!Init => CommandTypes
<1> SUFFICES ASSUME Commands!Init PROVE Commands!TypeOK
  BY DEF Commands!Init, CommandTypes
<1>1. /\ life \in Commands!Life /\ current_command_id \in 1 .. MaxId + 1 /\ calls \in 0 .. Calls
      /\ 0 <= Capacity
  BY CommandAssumption DEF Commands!Init, Commands!Life
<1>2. Len(<<>>) = 0 /\ (\A S : <<>> \in Seq(S))
  OBVIOUS
<1>3. QED BY <1>1, <1>2 DEF Commands!Init, Commands!TypeOK

LEMMA CommandTypesStep == ASSUME CommandTypes, Commands!Next PROVE CommandTypes'
<1> USE CommandAssumption DEF Commands!queues, Commands!children
<1>0. Commands!TypeOK
  BY DEF CommandTypes
<1> SUFFICES Commands!TypeOK'
  <2>1. lcc' = "down" => (lcc = "down" /\ life' = life) \/ (life < Lives /\ life' = life)
    BY DEF Commands!Next, Commands!CallerStep, Commands!ChildStep, Commands!WorkerStep,
           Commands!Call, Commands!Send, Commands!ReceiveAnswer, Commands!ReceiveCommand,
           Commands!JoinPool, Commands!ChildDies, Commands!TakeJob, Commands!StopWorker,
           Commands!SendAnswer, Commands!Execute, Commands!Close, Commands!SendExit,
           Commands!Terminate, Commands!Crash, Commands!Restart
  <2>2. QED BY <2>1 DEF CommandTypes
<1>1. ASSUME NEW c \in Caller, NEW kind \in Commands!Kind, Commands!Call(c, kind)
      PROVE  Commands!TypeOK'
  <2>1. calls + 1 \in 1 .. Calls /\ current_command_id' \in 1 .. MaxId + 1
    BY <1>0, <1>1 DEF Commands!Call, Commands!TypeOK, Commands!NextId
  <2>2. [id |-> current_command_id, call |-> calls + 1, kind |-> kind] \in Commands!Command
    BY <1>0, <2>1 DEF Commands!TypeOK, Commands!Command
  <2>3. [pc |-> "send", job |-> [id |-> current_command_id, call |-> calls + 1, kind |-> kind]]
          \in Commands!Busy({"send", "wait"}, Commands!Command)
    BY <2>2 DEF Commands!Busy
  <2>4. QED BY <1>0, <1>1, <2>1, <2>3 DEF Commands!Call, Commands!TypeOK
<1>2. ASSUME NEW c \in Caller, Commands!Send(c) PROVE Commands!TypeOK'
  <2>1. /\ caller[c] \in Commands!Busy({"send", "wait"}, Commands!Command)
        /\ caller[c].job \in Commands!Command
    BY <1>2, HasJob, <1>0 DEF Commands!Send, Command
  <2>2. [caller[c] EXCEPT !.pc = "wait"] \in Commands!Busy({"send", "wait"}, Commands!Command)
    BY <2>1 DEF Commands!Busy
  <2>3. request' \in Seq(Commands!Command \cup {Commands!Exit}) /\ Len(request') <= Capacity
    BY <1>0, <1>2, <2>1 DEF Commands!Send, Commands!TypeOK
  <2>4. QED BY <1>0, <1>2, <2>2, <2>3 DEF Commands!Send, Commands!TypeOK
<1>3. ASSUME NEW c \in Caller, Commands!ReceiveAnswer(c) PROVE Commands!TypeOK'
  <2>1. PICK i \in DOMAIN response :
          /\ caller' = [caller EXCEPT ![c] =
               [pc |-> "idle", job |-> @.job, got |-> response[i].call]]
          /\ response' = Commands!WithoutFirst(response, i)
    BY <1>3 DEF Commands!ReceiveAnswer
  <2>2. /\ response \in Seq(Commands!Answer) /\ Len(response) \in Nat /\ Len(response) <= Capacity
        /\ DOMAIN response = 1 .. Len(response) /\ i \in 1 .. Len(response)
    BY <1>0, <2>1 DEF Commands!TypeOK
  <2>3. response' \in Seq(Commands!Answer) /\ Len(response') = Len(response) - 1
    <3>1. \A j \in 1 .. Len(response) - 1 :
            (IF j < i THEN response[j] ELSE response[j + 1]) \in Commands!Answer
      BY <2>2
    <3>2. Len(response) - 1 \in Nat
      BY <2>2
    <3>3. QED BY <2>1, <3>1, <3>2 DEF Commands!WithoutFirst
  <2>4. response[i].call \in 1 .. Calls /\ caller[c].job \in Commands!Command
    <3>1. response[i] \in Commands!Answer
      BY <2>2
    <3>2. QED BY <1>3, <3>1, HasJob, <1>0 DEF Commands!Answer, Commands!ReceiveAnswer, Command
  <2>5. [pc |-> "idle", job |-> caller[c].job, got |-> response[i].call]
          \in [pc : {"idle"}, job : Commands!Command, got : 1 .. Calls]
    BY <2>4 DEF Command
  <2>6. caller' \in [Caller -> {Commands!Idle} \cup Commands!Busy({"send", "wait"}, Commands!Command)
                                 \cup [pc : {"idle"}, job : Commands!Command, got : 1 .. Calls]]
    BY <1>0, <2>1, <2>5 DEF Commands!TypeOK
  <2>7. QED BY <1>0, <1>3, <2>2, <2>3, <2>6 DEF Commands!ReceiveAnswer, Commands!TypeOK
<1>4. ASSUME NEW l \in Commands!Life, Commands!ReceiveCommand(l) PROVE Commands!TypeOK'
  <2>1. /\ request \in Seq(Commands!Command \cup {Commands!Exit}) /\ request # <<>>
        /\ Len(request) <= Capacity
    BY <1>0, <1>4 DEF Commands!ReceiveCommand, Commands!TypeOK
  <2>2. /\ request' \in Seq(Commands!Command \cup {Commands!Exit}) /\ Len(request') <= Capacity
        /\ Head(request) \in Commands!Command \cup {Commands!Exit}
    BY <1>4, <2>1 DEF Commands!ReceiveCommand
  <2>3. CASE Head(request) = Commands!Exit
    BY <1>0, <1>4, <2>2, <2>3 DEF Commands!ReceiveCommand, Commands!TypeOK
  <2>4. CASE Head(request) # Commands!Exit
    <3>1. Append(job_queue[l], Head(request)) \in Seq(Commands!Command)
      BY <1>0, <2>2, <2>4 DEF Commands!TypeOK
    <3>2. QED BY <1>0, <1>4, <2>2, <2>4, <3>1 DEF Commands!ReceiveCommand, Commands!TypeOK
  <2>5. QED BY <2>3, <2>4
<1>5. ASSUME NEW l \in Commands!Life, Commands!JoinPool(l) \/ Commands!ChildDies(l)
      PROVE  Commands!TypeOK'
  BY <1>0, <1>5 DEF Commands!JoinPool, Commands!ChildDies, Commands!TypeOK
<1>6. ASSUME NEW l \in Commands!Life, NEW w \in Pool,
             Commands!WorkerStep(l, w) \/ Commands!Execute(l, w)
      PROVE  Commands!TypeOK'
  <2> DEFINE S == {Commands!Idle, [pc |-> "stopped"]}
                    \cup Commands!Busy({"execute", "answer"}, Commands!Command)
  <2>0. pool \in [Commands!Life -> [Pool -> S]]
    BY <1>0 DEF Commands!TypeOK
  <2>1. ASSUME NEW s \in S, pool' = [pool EXCEPT ![l][w] = s]
        PROVE  pool' \in [Commands!Life -> [Pool -> S]]
    BY <2>0, <2>1
  <2> HIDE DEF S
  <2>2. CASE Commands!TakeJob(l, w)
    <3>1. job_queue[l] \in Seq(Commands!Command) /\ job_queue[l] # <<>>
      BY <1>0, <2>2 DEF Commands!TakeJob, Commands!TypeOK
    <3>2. Head(job_queue[l]) \in Commands!Command /\ Tail(job_queue[l]) \in Seq(Commands!Command)
      BY <3>1
    <3>3. [pc |-> "execute", job |-> Head(job_queue[l])] \in S
      BY <3>2 DEF S, Commands!Busy
    <3>4. job_queue' \in [Commands!Life -> Seq(Commands!Command)]
      BY <1>0, <2>2, <3>2 DEF Commands!TakeJob, Commands!TypeOK
    <3>5. pool' \in [Commands!Life -> [Pool -> S]]
      BY <2>1, <2>2, <3>3 DEF Commands!TakeJob
    <3>6. QED BY <1>0, <2>2, <3>4, <3>5 DEF Commands!TakeJob, Commands!TypeOK, S
  <2>3. CASE Commands!StopWorker(l, w)
    <3>1. pool' \in [Commands!Life -> [Pool -> S]]
      BY <2>1, <2>3 DEF Commands!StopWorker, S
    <3>2. QED BY <1>0, <2>3, <3>1 DEF Commands!StopWorker, Commands!TypeOK, S
  <2>4. CASE Commands!SendAnswer(l, w)
    <3>1. pool[l][w].job \in Commands!Command
      BY <2>4, HasJob, <1>0 DEF Commands!SendAnswer, Command
    <3>2. [id |-> pool[l][w].job.id, call |-> pool[l][w].job.call] \in Commands!Answer
      BY <3>1 DEF Commands!Command, Commands!Answer
    <3>3. response' \in Seq(Commands!Answer) /\ Len(response') <= Capacity
      BY <1>0, <2>4, <3>2 DEF Commands!SendAnswer, Commands!TypeOK
    <3>4. pool' \in [Commands!Life -> [Pool -> S]]
      BY <2>1, <2>4 DEF Commands!SendAnswer, S
    <3>5. QED BY <1>0, <2>4, <3>3, <3>4 DEF Commands!SendAnswer, Commands!TypeOK, S
  <2>5. CASE Commands!Execute(l, w)
    <3>1. /\ pool[l][w] \in Commands!Busy({"execute", "answer"}, Commands!Command)
          /\ pool[l][w].job \in Commands!Command
      BY <2>5, HasJob, <1>0 DEF Commands!Execute, Command
    <3>2. [pool[l][w] EXCEPT !.pc = "answer"] \in S
      BY <3>1 DEF S, Commands!Busy
    <3>3. (IF pool[l][w].job.kind = "answered" THEN [pool[l][w] EXCEPT !.pc = "answer"]
           ELSE Commands!Idle) \in S
      BY <3>2 DEF S
    <3>4. pool' \in [Commands!Life -> [Pool -> S]]
      BY <2>1, <2>5, <3>3 DEF Commands!Execute
    <3>5. executed' \subseteq 1 .. Calls
      BY <1>0, <2>5, <3>1 DEF Commands!Execute, Commands!Command, Commands!TypeOK
    <3>6. QED BY <1>0, <2>5, <3>4, <3>5 DEF Commands!Execute, Commands!TypeOK, S
  <2>6. QED BY <1>6, <2>2, <2>3, <2>4, <2>5 DEF Commands!WorkerStep
<1>7. CASE Commands!Close \/ Commands!Crash
  BY <1>0, <1>7 DEF Commands!Close, Commands!Crash, Commands!TypeOK
<1>8. CASE Commands!SendExit
  BY <1>0, <1>8 DEF Commands!SendExit, Commands!TypeOK
<1>9. CASE Commands!Terminate
  BY <1>0, <1>9 DEF Commands!Terminate, Commands!TypeOK
<1>10. CASE Commands!Restart
  <2>1. life' \in Commands!Life
    BY <1>0, <1>10 DEF Commands!Restart, CommandTypes, Commands!TypeOK, Commands!Life
  <2>2. QED BY <1>0, <1>10, <2>1 DEF Commands!Restart, Commands!TypeOK
<1>11. QED
  BY <1>1, <1>2, <1>3, <1>4, <1>5, <1>6, <1>7, <1>8, <1>9, <1>10
  DEF Commands!Next, Commands!CallerStep, Commands!ChildStep

-----------------------------------------------------------------------------
(* Shell commands: what a step does to a queue                             *)

LEMMA AppendElements ==
  ASSUME NEW S, NEW s \in Seq(S), NEW x \in S
  PROVE  /\ DOMAIN s \subseteq Nat
         /\ \A i \in DOMAIN Append(s, x) :
              \/ i \in DOMAIN s /\ Append(s, x)[i] = s[i]
              \/ i = Len(s) + 1 /\ i \notin DOMAIN s /\ Append(s, x)[i] = x
OBVIOUS

LEMMA TailElements ==
  ASSUME NEW S, NEW s \in Seq(S), s # <<>>
  PROVE  /\ 1 \in DOMAIN s /\ Head(s) = s[1]
         /\ \A i \in DOMAIN Tail(s) :
              i \in Nat /\ i + 1 \in DOMAIN s /\ i + 1 # 1 /\ Tail(s)[i] = s[i + 1]
OBVIOUS

(* The other elements stay, at positions of their own.                     *)
LEMMA WithoutElements ==
  ASSUME NEW S, NEW s \in Seq(S), NEW i \in DOMAIN s
  PROVE  \E f : \A j \in DOMAIN Commands!WithoutFirst(s, i) :
           /\ f[j] \in DOMAIN s \ {i} /\ Commands!WithoutFirst(s, i)[j] = s[f[j]]
           /\ \A k \in DOMAIN Commands!WithoutFirst(s, i) : f[j] = f[k] => j = k
<1> DEFINE f == [j \in 1 .. Len(s) - 1 |-> IF j < i THEN j ELSE j + 1]
<1>1. /\ DOMAIN s = 1 .. Len(s) /\ Len(s) \in Nat /\ i \in 1 .. Len(s)
      /\ DOMAIN Commands!WithoutFirst(s, i) = 1 .. Len(s) - 1
  BY DEF Commands!WithoutFirst
<1>2. ASSUME NEW j \in 1 .. Len(s) - 1
      PROVE  /\ f[j] \in DOMAIN s \ {i} /\ Commands!WithoutFirst(s, i)[j] = s[f[j]]
             /\ \A k \in 1 .. Len(s) - 1 : f[j] = f[k] => j = k
  BY <1>1 DEF Commands!WithoutFirst
<1>3. QED BY <1>1, <1>2

-----------------------------------------------------------------------------
(* Shell commands: ids                                                     *)

(* The id of a command counts up to MaxId + 1 and starts again.            *)
Numbered == {p \in Nat \X Nat : \E q \in Nat : p[1] = q * (MaxId + 1) + p[2]}

LEMMA SameId ==
  ASSUME NEW j, NEW k, NEW id, <<j, id>> \in Numbered, <<k, id>> \in Numbered
  PROVE  j = k \/ j > k + MaxId \/ k > j + MaxId
<1>1. PICK p \in Nat : j = p * (MaxId + 1) + id
  BY DEF Numbered
<1>2. PICK q \in Nat : k = q * (MaxId + 1) + id
  BY DEF Numbered
<1>3. id \in Nat /\ MaxId \in Nat
  BY CommandAssumption DEF Numbered
<1>4. ASSUME NEW a \in Nat, NEW b \in Nat, a > b
      PROVE  a * (MaxId + 1) + id > b * (MaxId + 1) + id + MaxId
  <2>1. PICK d \in Nat : a = b + 1 + d
    <3>1. a - b - 1 \in Nat /\ a = b + 1 + (a - b - 1)
      BY <1>4
    <3>2. QED BY <3>1
  <2>2. a * (MaxId + 1) = b * (MaxId + 1) + (MaxId + 1) + d * (MaxId + 1)
    BY <1>3, <2>1
  <2>3. d * (MaxId + 1) \in Nat /\ b * (MaxId + 1) \in Nat
    BY <1>3
  <2>4. QED BY <1>3, <2>2, <2>3
<1>5. p = q \/ p > q \/ q > p
  OBVIOUS
<1>6. QED BY <1>1, <1>2, <1>4, <1>5

Ids ==
  /\ <<calls + 1, current_command_id>> \in Numbered
  /\ \A c \in Caller :
       /\ caller[c].pc \in {"send", "wait"} \/ Commands!Got(c) =>
            <<caller[c].job.call, caller[c].job.id>> \in Numbered
       /\ Commands!Got(c) => <<caller[c].got, caller[c].job.id>> \in Numbered
  /\ \A i \in DOMAIN request :
       request[i] # Commands!Exit => <<request[i].call, request[i].id>> \in Numbered
  /\ \A l \in Commands!Life, i \in Nat :
       i \in DOMAIN job_queue[l] => <<job_queue[l][i].call, job_queue[l][i].id>> \in Numbered
  /\ \A l \in Commands!Life, w \in Pool :
       pool[l][w].pc \in {"execute", "answer"} =>
         <<pool[l][w].job.call, pool[l][w].job.id>> \in Numbered
  /\ \A i \in DOMAIN response : <<response[i].call, response[i].id>> \in Numbered

(* A worker keeps its job until it has sent the answer.                    *)
LEMMA PoolKeeps ==
  ASSUME Commands!TypeOK, NEW l \in Commands!Life, NEW w \in Pool,
         Commands!StopWorker(l, w) \/ Commands!SendAnswer(l, w) \/ Commands!Execute(l, w),
         NEW k \in Commands!Life, NEW v \in Pool, pool'[k][v].pc \in {"execute", "answer"}
  PROVE  /\ pool[k][v].pc \in {"execute", "answer"} /\ pool'[k][v].job = pool[k][v].job
         /\ \/ pool'[k][v] = pool[k][v]
            \/ pool[k][v].pc = "execute" /\ pool[k][v].job.kind = "answered"
         /\ Commands!SendAnswer(l, w) => ~(k = l /\ v = w)
<1>1. CASE k = l /\ v = w
  <2>1. /\ Commands!Execute(l, w) /\ pool[l][w].job.kind = "answered"
        /\ ~Commands!SendAnswer(l, w)
    BY <1>1 DEF Commands!StopWorker, Commands!SendAnswer, Commands!Execute,
                Commands!TypeOK, Commands!Idle
  <2>2. pool[l][w] \in Commands!Busy({"execute", "answer"}, Command)
    BY <2>1, HasJob DEF Commands!Execute
  <2>3. pool'[k][v] = [pool[l][w] EXCEPT !.pc = "answer"]
    BY <1>1, <2>1 DEF Commands!Execute, Commands!TypeOK
  <2>4. QED BY <1>1, <2>1, <2>2, <2>3 DEF Commands!Busy, Commands!Execute
<1>2. CASE ~(k = l /\ v = w)
  <2>1. pool'[k][v] = pool[k][v]
    BY <1>2 DEF Commands!StopWorker, Commands!SendAnswer, Commands!Execute, Commands!TypeOK
  <2>2. pool[k][v].pc \in {"execute", "answer"} /\ pool'[k][v].job = pool[k][v].job
    BY <2>1
  <2>3. QED BY <1>2, <2>1, <2>2
<1>3. QED BY <1>1, <1>2

LEMMA IdsInit == Commands!Init => Ids
<1> SUFFICES ASSUME Commands!Init PROVE Ids
  OBVIOUS
<1>1. <<calls + 1, current_command_id>> \in Numbered
  <2>1. calls + 1 = 0 * (MaxId + 1) + current_command_id
    BY CommandAssumption DEF Commands!Init
  <2>2. calls + 1 \in Nat /\ current_command_id \in Nat
    BY DEF Commands!Init
  <2>3. QED BY <2>1, <2>2 DEF Numbered
<1>2. DOMAIN <<>> = {}
  OBVIOUS
<1>3. \A c \in Caller : caller[c].pc \notin {"send", "wait"} /\ ~Commands!Got(c)
  BY DEF Commands!Init, Commands!Got, Commands!Idle
<1>4. \A l \in Commands!Life, w \in Pool : pool[l][w].pc \notin {"execute", "answer"}
  BY DEF Commands!Init, Commands!Idle
<1>5. QED BY <1>1, <1>2, <1>3, <1>4 DEF Commands!Init, Ids

LEMMA IdsStep ==
  ASSUME Commands!TypeOK, Ids, life = 1, Commands!Next, life' = 1
  PROVE  Ids'
<1> USE DEF Commands!queues, Commands!children
<1>1. ASSUME NEW c \in Caller, NEW kind \in Commands!Kind, Commands!Call(c, kind)
      PROVE  Ids'
  <2>1. <<calls' + 1, current_command_id'>> \in Numbered
    <3>1. PICK q \in Nat : calls + 1 = q * (MaxId + 1) + current_command_id
      BY DEF Ids, Numbered
    <3>2. calls \in Nat /\ MaxId \in Nat /\ current_command_id \in 1 .. MaxId + 1
      BY CommandAssumption DEF Commands!TypeOK
    <3>3. CASE current_command_id > MaxId
      <4>1. current_command_id' = 1 /\ current_command_id = MaxId + 1 /\ calls' = calls + 1
        BY <1>1, <3>2, <3>3 DEF Commands!Call, Commands!NextId
      <4>2. calls' + 1 = (q + 1) * (MaxId + 1) + 1
        BY <3>1, <3>2, <4>1
      <4>3. q + 1 \in Nat /\ calls' + 1 \in Nat
        BY <3>2, <4>1
      <4>4. QED BY <4>1, <4>2, <4>3 DEF Numbered
    <3>4. CASE ~(current_command_id > MaxId)
      <4>1. current_command_id' = current_command_id + 1 /\ calls' = calls + 1
        BY <1>1, <3>4 DEF Commands!Call, Commands!NextId
      <4>2. calls' + 1 = q * (MaxId + 1) + current_command_id'
        BY <3>1, <3>2, <4>1
      <4>3. calls' + 1 \in Nat /\ current_command_id' \in Nat
        BY <3>2, <4>1
      <4>4. QED BY <4>2, <4>3 DEF Numbered
    <3>5. QED BY <3>3, <3>4
  <2>2. /\ caller' = [caller EXCEPT ![c] =
             [pc |-> "send",
              job |-> [id |-> current_command_id, call |-> calls + 1, kind |-> kind]]]
        /\ UNCHANGED <<request, job_queue, pool, response>>
    BY <1>1 DEF Commands!Call
  <2>3. ASSUME NEW d \in Caller
        PROVE  /\ caller'[d].pc \in {"send", "wait"} \/ Commands!Got(d)' =>
                    <<caller'[d].job.call, caller'[d].job.id>> \in Numbered
               /\ Commands!Got(d)' => <<caller'[d].got, caller'[d].job.id>> \in Numbered
    <3>1. CASE d = c
      <4>1. /\ caller'[d].pc = "send"
            /\ caller'[d].job.call = calls + 1 /\ caller'[d].job.id = current_command_id
        BY <2>2, <3>1 DEF Commands!TypeOK
      <4>2. QED BY <4>1 DEF Commands!Got, Ids
    <3>2. CASE d # c
      <4>1. caller'[d] = caller[d]
        BY <2>2, <3>2 DEF Commands!TypeOK
      <4>2. QED BY <4>1 DEF Commands!Got, Ids
    <3>3. QED BY <3>1, <3>2
  <2>4. QED BY <2>1, <2>2, <2>3 DEF Ids
<1>2. ASSUME NEW c \in Caller, Commands!Send(c) PROVE Ids'
  <2>1. caller[c].job \in Commands!Command
    BY <1>2, HasJob DEF Commands!Send, Command
  <2>2. ASSUME NEW i \in DOMAIN request', request'[i] # Commands!Exit
        PROVE  <<request'[i].call, request'[i].id>> \in Numbered
    <3>1. request \in Seq(Commands!Command \cup {Commands!Exit})
      BY DEF Commands!TypeOK
    <3>2. (i \in DOMAIN request /\ request'[i] = request[i]) \/ request'[i] = caller[c].job
      BY <1>2, <2>1, <2>2, <3>1, AppendElements DEF Commands!Send
    <3>3. QED BY <1>2, <2>2, <3>2 DEF Ids, Commands!Send
  <2>3. ASSUME NEW d \in Caller
        PROVE  /\ caller'[d].pc \in {"send", "wait"} \/ Commands!Got(d)' =>
                    <<caller'[d].job.call, caller'[d].job.id>> \in Numbered
               /\ Commands!Got(d)' => <<caller'[d].got, caller'[d].job.id>> \in Numbered
    <3>1. CASE d = c /\ caller[c].job.kind = "answered"
      <4>1. caller[c] \in Commands!Busy({"send", "wait"}, Command)
        BY <1>2, HasJob DEF Commands!Send
      <4>2. caller'[d] = [caller[c] EXCEPT !.pc = "wait"]
        BY <1>2, <3>1 DEF Commands!Send, Commands!TypeOK
      <4>3. caller'[d].pc = "wait" /\ caller'[d].job = caller[c].job
        BY <4>1, <4>2 DEF Commands!Busy
      <4>4. QED BY <1>2, <4>3 DEF Commands!Got, Ids, Commands!Send
    <3>2. CASE d = c /\ caller[c].job.kind # "answered"
      <4>1. caller'[d] = Commands!Idle
        BY <1>2, <3>2 DEF Commands!Send, Commands!TypeOK
      <4>2. QED BY <4>1 DEF Commands!Got, Commands!Idle
    <3>3. CASE d # c
      <4>1. caller'[d] = caller[d]
        BY <1>2, <3>3 DEF Commands!TypeOK, Commands!Send
      <4>2. QED BY <4>1 DEF Commands!Got, Ids
    <3>4. QED BY <3>1, <3>2, <3>3
  <2>4. UNCHANGED <<calls, current_command_id, job_queue, pool, response>>
    BY <1>2 DEF Commands!Send
  <2>5. QED BY <2>2, <2>3, <2>4 DEF Ids
<1>3. ASSUME NEW c \in Caller, Commands!ReceiveAnswer(c) PROVE Ids'
  <2>1. PICK i \in DOMAIN response :
          /\ response[i].id = caller[c].job.id
          /\ caller' = [caller EXCEPT ![c] =
               [pc |-> "idle", job |-> @.job, got |-> response[i].call]]
          /\ response' = Commands!WithoutFirst(response, i)
    BY <1>3 DEF Commands!ReceiveAnswer
  <2>2. ASSUME NEW j \in DOMAIN response'
        PROVE  <<response'[j].call, response'[j].id>> \in Numbered
    <3>1. PICK k \in DOMAIN response : response'[j] = response[k]
      BY <2>1, WithoutElements DEF Commands!TypeOK
    <3>2. QED BY <3>1 DEF Ids
  <2>3. ASSUME NEW d \in Caller
        PROVE  /\ caller'[d].pc \in {"send", "wait"} \/ Commands!Got(d)' =>
                    <<caller'[d].job.call, caller'[d].job.id>> \in Numbered
               /\ Commands!Got(d)' => <<caller'[d].got, caller'[d].job.id>> \in Numbered
    <3>1. CASE d = c
      <4>1. caller'[d].job = caller[c].job /\ caller'[d].got = response[i].call
        BY <2>1, <3>1 DEF Commands!TypeOK
      <4>2. <<caller[c].job.call, caller[c].job.id>> \in Numbered
        BY <1>3 DEF Commands!ReceiveAnswer, Ids
      <4>3. <<response[i].call, caller[c].job.id>> \in Numbered
        BY <2>1 DEF Ids
      <4>4. QED BY <4>1, <4>2, <4>3
    <3>2. CASE d # c
      <4>1. caller'[d] = caller[d]
        BY <2>1, <3>2 DEF Commands!TypeOK
      <4>2. QED BY <4>1 DEF Commands!Got, Ids
    <3>3. QED BY <3>1, <3>2
  <2>4. UNCHANGED <<calls, current_command_id, request, job_queue, pool>>
    BY <1>3 DEF Commands!ReceiveAnswer
  <2>5. QED BY <2>2, <2>3, <2>4 DEF Ids
<1>4. ASSUME NEW l \in Commands!Life, Commands!ReceiveCommand(l) PROVE Ids'
  <2>1. request \in Seq(Commands!Command \cup {Commands!Exit}) /\ request # <<>>
    BY <1>4 DEF Commands!ReceiveCommand, Commands!TypeOK
  <2>2. \A i \in DOMAIN request' : i + 1 \in DOMAIN request /\ request'[i] = request[i + 1]
    BY <1>4, <2>1, TailElements DEF Commands!ReceiveCommand
  <2>3. ASSUME NEW k \in Commands!Life, NEW i \in Nat, i \in DOMAIN job_queue'[k]
        PROVE  <<job_queue'[k][i].call, job_queue'[k][i].id>> \in Numbered
    <3>1. CASE job_queue'[k] = job_queue[k]
      BY <2>3, <3>1 DEF Ids
    <3>2. CASE /\ k = l /\ Head(request) # Commands!Exit
               /\ job_queue'[k] = Append(job_queue[l], Head(request))
      <4>1. Head(request) = request[1] /\ 1 \in DOMAIN request
        BY <2>1, TailElements
      <4>2. Head(request) \in Commands!Command /\ job_queue[l] \in Seq(Commands!Command)
        BY <2>1, <3>2 DEF Commands!TypeOK
      <4>3. \/ i \in DOMAIN job_queue[l] /\ job_queue'[k][i] = job_queue[l][i]
            \/ job_queue'[k][i] = request[1]
        BY <2>3, <3>2, <4>1, <4>2, AppendElements
      <4>4. QED BY <3>2, <4>1, <4>3 DEF Ids
    <3>3. QED BY <1>4, <3>1, <3>2 DEF Commands!ReceiveCommand, Commands!TypeOK
  <2>4. UNCHANGED <<calls, current_command_id, caller, pool, response>>
    BY <1>4 DEF Commands!ReceiveCommand
  <2>5. QED BY <2>2, <2>3, <2>4 DEF Ids, Commands!Got
<1>5. ASSUME NEW l \in Commands!Life, Commands!JoinPool(l) \/ Commands!ChildDies(l) PROVE Ids'
  BY <1>5 DEF Commands!JoinPool, Commands!ChildDies, Ids, Commands!Got
<1>6. ASSUME NEW l \in Commands!Life, NEW w \in Pool, Commands!TakeJob(l, w) PROVE Ids'
  <2>1. job_queue[l] \in Seq(Commands!Command) /\ job_queue[l] # <<>>
    BY <1>6 DEF Commands!TakeJob, Commands!TypeOK
  <2>2. ASSUME NEW k \in Commands!Life, NEW i \in Nat, i \in DOMAIN job_queue'[k]
        PROVE  <<job_queue'[k][i].call, job_queue'[k][i].id>> \in Numbered
    <3>1. CASE k = l
      <4>1. job_queue'[k] = Tail(job_queue[l])
        BY <1>6, <3>1 DEF Commands!TakeJob, Commands!TypeOK
      <4>2. i + 1 \in DOMAIN job_queue[l] /\ job_queue'[k][i] = job_queue[l][i + 1]
        BY <2>1, <2>2, <4>1, TailElements
      <4>3. QED BY <4>2 DEF Ids
    <3>2. CASE k # l
      BY <1>6, <2>2, <3>2 DEF Commands!TakeJob, Commands!TypeOK, Ids
    <3>3. QED BY <3>1, <3>2
  <2>3. ASSUME NEW k \in Commands!Life, NEW v \in Pool, pool'[k][v].pc \in {"execute", "answer"}
        PROVE  <<pool'[k][v].job.call, pool'[k][v].job.id>> \in Numbered
    <3>1. CASE k = l /\ v = w
      <4>1. pool'[k][v].job = job_queue[l][1] /\ 1 \in DOMAIN job_queue[l]
        BY <1>6, <2>1, <3>1, TailElements DEF Commands!TakeJob, Commands!TypeOK
      <4>2. QED BY <4>1 DEF Ids
    <3>2. CASE ~(k = l /\ v = w)
      <4>1. pool'[k][v] = pool[k][v]
        BY <1>6, <3>2 DEF Commands!TakeJob, Commands!TypeOK
      <4>2. QED BY <2>3, <4>1 DEF Ids
    <3>3. QED BY <3>1, <3>2
  <2>4. UNCHANGED <<calls, current_command_id, caller, request, response>>
    BY <1>6 DEF Commands!TakeJob
  <2>5. QED BY <2>2, <2>3, <2>4 DEF Ids, Commands!Got
<1>7. ASSUME NEW l \in Commands!Life, NEW w \in Pool,
             Commands!StopWorker(l, w) \/ Commands!SendAnswer(l, w) \/ Commands!Execute(l, w)
      PROVE Ids'
  <2>1. ASSUME NEW k \in Commands!Life, NEW v \in Pool, pool'[k][v].pc \in {"execute", "answer"}
        PROVE  pool[k][v].pc \in {"execute", "answer"} /\ pool'[k][v].job = pool[k][v].job
    BY <1>7, <2>1, PoolKeeps
  <2>2. ASSUME NEW i \in DOMAIN response'
        PROVE  <<response'[i].call, response'[i].id>> \in Numbered
    <3>1. CASE response' = response
      BY <2>2, <3>1 DEF Ids
    <3>2. CASE Commands!SendAnswer(l, w)
      <4>1. pool[l][w].job \in Commands!Command /\ response \in Seq(Commands!Answer)
        BY <3>2, HasJob DEF Commands!SendAnswer, Command, Commands!TypeOK
      <4>2. [id |-> pool[l][w].job.id, call |-> pool[l][w].job.call] \in Commands!Answer
        BY <4>1 DEF Commands!Command, Commands!Answer
      <4>3. \/ i \in DOMAIN response /\ response'[i] = response[i]
            \/ response'[i] = [id |-> pool[l][w].job.id, call |-> pool[l][w].job.call]
        BY <2>2, <3>2, <4>1, <4>2, AppendElements DEF Commands!SendAnswer
      <4>4. QED BY <3>2, <4>3 DEF Ids, Commands!SendAnswer
    <3>3. QED BY <1>7, <3>1, <3>2 DEF Commands!StopWorker, Commands!Execute
  <2>3. UNCHANGED <<calls, current_command_id, caller, request, job_queue>>
    BY <1>7 DEF Commands!StopWorker, Commands!SendAnswer, Commands!Execute
  <2>4. QED BY <2>1, <2>2, <2>3 DEF Ids, Commands!Got
<1>8. CASE Commands!Close
  BY <1>8 DEF Commands!Close, Ids, Commands!Got
<1>9. CASE Commands!SendExit
  <2>1. ASSUME NEW i \in DOMAIN request', request'[i] # Commands!Exit
        PROVE  <<request'[i].call, request'[i].id>> \in Numbered
    <3>1. request \in Seq(Commands!Command \cup {Commands!Exit})
      BY DEF Commands!TypeOK
    <3>2. i \in DOMAIN request /\ request'[i] = request[i]
      BY <1>9, <2>1, <3>1, AppendElements DEF Commands!SendExit
    <3>3. QED BY <2>1, <3>2 DEF Ids
  <2>2. UNCHANGED <<calls, current_command_id, caller, job_queue, pool, response>>
    BY <1>9 DEF Commands!SendExit
  <2>3. QED BY <2>1, <2>2 DEF Ids, Commands!Got
<1>10. CASE Commands!Terminate
  <2>1. DOMAIN request' = {} /\ DOMAIN response' = {}
    BY <1>10 DEF Commands!Terminate
  <2>2. UNCHANGED <<calls, current_command_id, caller, job_queue, pool>>
    BY <1>10 DEF Commands!Terminate
  <2>3. QED BY <2>1, <2>2 DEF Ids, Commands!Got
<1>11. CASE Commands!Crash
  <2>1. \A c \in Caller : caller'[c].pc = "idle" /\ ~Commands!Got(c)'
    BY <1>11 DEF Commands!Crash, Commands!Idle, Commands!Got
  <2>2. UNCHANGED <<calls, current_command_id, request, response, job_queue, pool>>
    BY <1>11 DEF Commands!Crash
  <2>3. QED BY <2>1, <2>2 DEF Ids
<1>12. CASE Commands!Restart
  BY <1>12 DEF Commands!Restart
<1>13. QED
  BY <1>1, <1>2, <1>3, <1>4, <1>5, <1>6, <1>7, <1>8, <1>9, <1>10, <1>11, <1>12
  DEF Commands!Next, Commands!CallerStep, Commands!ChildStep, Commands!WorkerStep

-----------------------------------------------------------------------------
(* Shell commands: every command is in one place                           *)

Placed(where) ==
  /\ \A n \in 1 .. Calls : n > calls => where[n] = <<"new", 0>>
  /\ \A c \in Caller : caller[c].pc = "send" => where[caller[c].job.call] = <<"send", c>>
  /\ \A i \in DOMAIN request :
       request[i].call # 0 => where[request[i].call] = <<"request", 0>>
  /\ \A l \in Commands!Life, i \in Nat :
       i \in DOMAIN job_queue[l] => where[job_queue[l][i].call] = <<"job", l>>
  /\ \A l \in Commands!Life, w \in Pool :
       pool[l][w].pc \in {"execute", "answer"} =>
         where[pool[l][w].job.call] = <<"pool", <<l, w>>>>
  /\ \A i \in DOMAIN response : where[response[i].call] = <<"response", 0>>

(* No queue holds one twice; EXIT has no number.                           *)
Different(q) ==
  \A i \in DOMAIN q, j \in DOMAIN q : q[i].call = q[j].call => i = j \/ q[i].call = 0

Once ==
  /\ Different(request) /\ Different(response)
  /\ \A l \in Commands!Life : Different(job_queue[l])

LEMMA DifferentEmpty == Different(<<>>)
<1>1. DOMAIN <<>> = {}
  OBVIOUS
<1>2. QED BY <1>1 DEF Different

LEMMA DifferentTail ==
  ASSUME NEW S, NEW s \in Seq(S), Different(s), s # <<>>
  PROVE  /\ Different(Tail(s))
         /\ \A i \in DOMAIN Tail(s) : s[1].call # 0 => Tail(s)[i].call # s[1].call
<1>1. /\ 1 \in DOMAIN s
      /\ \A i \in DOMAIN Tail(s) :
           i \in Nat /\ i + 1 \in DOMAIN s /\ i + 1 # 1 /\ Tail(s)[i] = s[i + 1]
  BY TailElements
<1>2. ASSUME NEW i \in DOMAIN Tail(s), NEW j \in DOMAIN Tail(s),
             Tail(s)[i].call = Tail(s)[j].call, Tail(s)[i].call # 0
      PROVE  i = j
  <2>1. /\ i \in Nat /\ i + 1 \in DOMAIN s /\ Tail(s)[i] = s[i + 1]
        /\ j \in Nat /\ j + 1 \in DOMAIN s /\ Tail(s)[j] = s[j + 1]
    BY <1>1
  <2>2. i + 1 = j + 1
    BY <1>2, <2>1 DEF Different
  <2>3. QED BY <2>1, <2>2
<1>3. ASSUME NEW i \in DOMAIN Tail(s), s[1].call # 0 PROVE Tail(s)[i].call # s[1].call
  BY <1>1, <1>3 DEF Different
<1>4. QED BY <1>2, <1>3 DEF Different

LEMMA DifferentAppend ==
  ASSUME NEW S, NEW s \in Seq(S), Different(s), NEW x \in S,
         \A i \in DOMAIN s : s[i].call # 0 => s[i].call # x.call
  PROVE  Different(Append(s, x))
<1>1. \A i \in DOMAIN Append(s, x) :
        \/ i \in DOMAIN s /\ Append(s, x)[i] = s[i]
        \/ i = Len(s) + 1 /\ i \notin DOMAIN s /\ Append(s, x)[i] = x
  BY AppendElements
<1>2. QED BY <1>1 DEF Different

LEMMA DifferentWithout ==
  ASSUME NEW S, NEW s \in Seq(S), Different(s), NEW i \in DOMAIN s
  PROVE  /\ Different(Commands!WithoutFirst(s, i))
         /\ \A j \in DOMAIN Commands!WithoutFirst(s, i) :
              s[i].call # 0 => Commands!WithoutFirst(s, i)[j].call # s[i].call
<1>1. PICK f : \A j \in DOMAIN Commands!WithoutFirst(s, i) :
        /\ f[j] \in DOMAIN s \ {i} /\ Commands!WithoutFirst(s, i)[j] = s[f[j]]
        /\ \A k \in DOMAIN Commands!WithoutFirst(s, i) : f[j] = f[k] => j = k
  BY WithoutElements
<1>2. QED BY <1>1 DEF Different

Moved(where, n, place) == [k \in 1 .. Calls |-> IF k = n THEN place ELSE where[k]]

Placement == Once /\ \E where : Placed(where)

LEMMA PlacementInit == Commands!Init => Placement
<1> SUFFICES ASSUME Commands!Init PROVE Placement
  OBVIOUS
<1>1. DOMAIN <<>> = {}
  OBVIOUS
<1>2. \A c \in Caller : caller[c].pc = "idle"
  BY DEF Commands!Init, Commands!Idle
<1>3. \A l \in Commands!Life, w \in Pool : pool[l][w].pc = "idle"
  BY DEF Commands!Init, Commands!Idle
<1>4. Once
  BY DifferentEmpty DEF Commands!Init, Once
<1>5. Placed([n \in 1 .. Calls |-> <<"new", 0>>])
  BY <1>1, <1>2, <1>3 DEF Commands!Init, Placed
<1>6. QED BY <1>4, <1>5 DEF Placement

(* Calls of everything that is in a place.                                 *)
LEMMA CallsInRange ==
  ASSUME Commands!TypeOK
  PROVE  /\ \A c \in Caller : caller[c].pc = "send" => caller[c].job.call \in 1 .. Calls
         /\ \A i \in DOMAIN request :
              /\ request[i] # Commands!Exit => request[i] \in Commands!Command
              /\ request[i].call = 0 \/ request[i].call \in 1 .. Calls
         /\ \A l \in Commands!Life, i \in Nat :
              i \in DOMAIN job_queue[l] =>
                job_queue[l][i] \in Commands!Command /\ job_queue[l][i].call \in 1 .. Calls
         /\ \A l \in Commands!Life, w \in Pool :
              pool[l][w].pc \in {"execute", "answer"} => pool[l][w].job.call \in 1 .. Calls
         /\ \A i \in DOMAIN response :
              response[i] \in Commands!Answer /\ response[i].call \in 1 .. Calls
<1>1. (\A m \in Commands!Command : m.call \in 1 .. Calls) /\ Commands!Exit.call = 0
  BY DEF Commands!Command, Commands!Exit
<1>2. \A m \in Commands!Answer : m.call \in 1 .. Calls
  BY DEF Commands!Answer
<1>3. \A i \in DOMAIN request : request[i] \in Commands!Command \cup {Commands!Exit}
  BY DEF Commands!TypeOK
<1>4. \A l \in Commands!Life, i \in Nat : i \in DOMAIN job_queue[l] => job_queue[l][i] \in Commands!Command
  BY DEF Commands!TypeOK
<1>5. \A i \in DOMAIN response : response[i] \in Commands!Answer
  BY DEF Commands!TypeOK
<1>6. QED BY <1>1, <1>2, <1>3, <1>4, <1>5, HasJob DEF Command

(* What is not where a command was stays in its place when that command    *)
(* goes to another.                                                        *)
Only(n, where, where2) == \A k \in 1 .. Calls : k # n => where2[k] = where[k]

Others(n, where, where2) ==
  /\ \A k \in 1 .. Calls :
       k > calls /\ where[n] # <<"new", 0>> => where2[k] = <<"new", 0>>
  /\ \A c \in Caller :
       caller[c].pc = "send" /\ where[n] # <<"send", c>> =>
         caller[c].job.call # n /\ where2[caller[c].job.call] = <<"send", c>>
  /\ \A i \in DOMAIN request :
       request[i].call # 0 /\ where[n] # <<"request", 0>> =>
         request[i].call # n /\ where2[request[i].call] = <<"request", 0>>
  /\ \A l \in Commands!Life, i \in Nat :
       i \in DOMAIN job_queue[l] /\ where[n] # <<"job", l>> =>
         job_queue[l][i].call # n /\ where2[job_queue[l][i].call] = <<"job", l>>
  /\ \A l \in Commands!Life, w \in Pool :
       pool[l][w].pc \in {"execute", "answer"} /\ where[n] # <<"pool", <<l, w>>>> =>
         pool[l][w].job.call # n /\ where2[pool[l][w].job.call] = <<"pool", <<l, w>>>>
  /\ \A i \in DOMAIN response :
       where[n] # <<"response", 0>> =>
         response[i].call # n /\ where2[response[i].call] = <<"response", 0>>

LEMMA Elsewhere ==
  ASSUME Commands!TypeOK, NEW where, Placed(where), NEW n \in 1 .. Calls, NEW where2,
         Only(n, where, where2)
  PROVE  Others(n, where, where2)
<1> USE DEF Only
<1>1. ASSUME NEW k \in 1 .. Calls, k > calls, where[n] # <<"new", 0>>
      PROVE  where2[k] = <<"new", 0>>
  BY <1>1 DEF Placed
<1>2. ASSUME NEW c \in Caller, caller[c].pc = "send", where[n] # <<"send", c>>
      PROVE  caller[c].job.call # n /\ where2[caller[c].job.call] = <<"send", c>>
  BY <1>2, CallsInRange DEF Placed
<1>3. ASSUME NEW i \in DOMAIN request, request[i].call # 0, where[n] # <<"request", 0>>
      PROVE  request[i].call # n /\ where2[request[i].call] = <<"request", 0>>
  <2>1. where[request[i].call] = <<"request", 0>> /\ request[i].call \in 1 .. Calls
    BY <1>3, CallsInRange DEF Placed
  <2>2. QED BY <1>3, <2>1
<1>4. ASSUME NEW l \in Commands!Life, NEW i \in Nat, i \in DOMAIN job_queue[l],
             where[n] # <<"job", l>>
      PROVE  job_queue[l][i].call # n /\ where2[job_queue[l][i].call] = <<"job", l>>
  <2>1. where[job_queue[l][i].call] = <<"job", l>> /\ job_queue[l][i].call \in 1 .. Calls
    BY <1>4, CallsInRange DEF Placed
  <2>2. QED BY <1>4, <2>1
<1>5. ASSUME NEW l \in Commands!Life, NEW w \in Pool, pool[l][w].pc \in {"execute", "answer"},
             where[n] # <<"pool", <<l, w>>>>
      PROVE  pool[l][w].job.call # n /\ where2[pool[l][w].job.call] = <<"pool", <<l, w>>>>
  <2>1. where[pool[l][w].job.call] = <<"pool", <<l, w>>>> /\ pool[l][w].job.call \in 1 .. Calls
    BY <1>5, CallsInRange DEF Placed
  <2>2. QED BY <1>5, <2>1
<1>6. ASSUME NEW i \in DOMAIN response, where[n] # <<"response", 0>>
      PROVE  response[i].call # n /\ where2[response[i].call] = <<"response", 0>>
  <2>1. where[response[i].call] = <<"response", 0>> /\ response[i].call \in 1 .. Calls
    BY <1>6, CallsInRange DEF Placed
  <2>2. QED BY <1>6, <2>1
<1>7. QED BY <1>1, <1>2, <1>3, <1>4, <1>5, <1>6 DEF Others

LEMMA PlacesDiffer ==
  \A x, y, p, q : <<p, x>> = <<q, y>> => p = q /\ x = y
OBVIOUS

LEMMA PlacementCallers ==
  ASSUME Commands!TypeOK, Placement, NEW c \in Caller,
         Commands!CallerStep(c) \/ (\E kind \in Commands!Kind : Commands!Call(c, kind))
  PROVE  Placement'
<1> USE DEF Commands!queues, Commands!children
<1>0. PICK where : Placed(where)
  BY DEF Placement
<1>1. Once
  BY DEF Placement
<1>2. ASSUME NEW kind \in Commands!Kind, Commands!Call(c, kind) PROVE Placement'
  <2>1. /\ caller' = [caller EXCEPT ![c] =
             [pc |-> "send",
              job |-> [id |-> current_command_id, call |-> calls + 1, kind |-> kind]]]
        /\ calls' = calls + 1 /\ calls + 1 \in 1 .. Calls /\ calls \in Nat
        /\ UNCHANGED <<request, job_queue, pool, response>>
    BY <1>2, CommandAssumption DEF Commands!Call, Commands!TypeOK
  <2>2. PICK n \in 1 .. Calls : n = calls + 1
    BY <2>1
  <2>3. PICK where2 : where2 = Moved(where, n, <<"send", c>>)
    OBVIOUS
  <2>4. Only(n, where, where2) /\ where2[n] = <<"send", c>>
    BY <2>3 DEF Moved, Only
  <2>5. where[n] = <<"new", 0>>
    BY <1>0, <2>1, <2>2 DEF Placed
  <2>6. Others(n, where, where2)
    BY <1>0, <2>4, Elsewhere
  <2>7. \A d \in Caller :
          caller'[d].pc = "send" => where2[caller'[d].job.call] = <<"send", d>>
    <3>1. ASSUME NEW d \in Caller, caller'[d].pc = "send", d = c
          PROVE  where2[caller'[d].job.call] = <<"send", d>>
      BY <2>1, <2>2, <2>4, <3>1 DEF Commands!TypeOK
    <3>2. ASSUME NEW d \in Caller, caller'[d].pc = "send", d # c
          PROVE  where2[caller'[d].job.call] = <<"send", d>>
      <4>1. caller'[d] = caller[d]
        BY <2>1, <3>2 DEF Commands!TypeOK
      <4>2. where[n] # <<"send", d>>
        BY <2>5, PlacesDiffer
      <4>3. QED BY <2>6, <3>2, <4>1, <4>2 DEF Others
    <3>3. QED BY <3>1, <3>2
  <2>8. \A k \in 1 .. Calls : k > calls' => where2[k] = <<"new", 0>>
    BY <1>0, <2>1, <2>2, <2>4 DEF Placed, Only
  <2>9. /\ \A i \in DOMAIN request :
             request[i].call # 0 => where2[request[i].call] = <<"request", 0>>
        /\ \A i \in DOMAIN response : where2[response[i].call] = <<"response", 0>>
        /\ \A l \in Commands!Life, i \in Nat :
             i \in DOMAIN job_queue[l] => where2[job_queue[l][i].call] = <<"job", l>>
        /\ \A l \in Commands!Life, w \in Pool :
             pool[l][w].pc \in {"execute", "answer"} =>
               where2[pool[l][w].job.call] = <<"pool", <<l, w>>>>
    <3>1. /\ where[n] # <<"request", 0>> /\ where[n] # <<"response", 0>>
          /\ \A l \in Commands!Life : where[n] # <<"job", l>>
          /\ \A l \in Commands!Life, w \in Pool : where[n] # <<"pool", <<l, w>>>>
      BY <2>5, PlacesDiffer
    <3>2. QED BY <2>6, <3>1, Zenon DEF Others
  <2>10. Placed(where2)'
    BY <2>1, <2>7, <2>8, <2>9 DEF Placed
  <2>11. Once'
    BY <1>1, <2>1 DEF Once
  <2>12. QED BY <2>10, <2>11 DEF Placement
<1>3. CASE Commands!Send(c)
  <2>1. /\ caller[c].pc = "send" /\ caller[c].job \in Commands!Command
        /\ request' = Append(request, caller[c].job)
        /\ UNCHANGED <<calls, job_queue, pool, response>>
        /\ \A d \in Caller : caller'[d].pc = "send" => d # c /\ caller'[d] = caller[d]
    <3>1. caller[c].pc = "send" /\ caller[c].job \in Commands!Command
      BY <1>3, HasJob DEF Commands!Send, Command
    <3>2. caller'[c].pc # "send"
      <4>1. caller[c] \in Commands!Busy({"send", "wait"}, Command)
        BY <3>1, HasJob
      <4>2. caller'[c] = IF caller[c].job.kind = "answered" THEN [caller[c] EXCEPT !.pc = "wait"]
                         ELSE Commands!Idle
        BY <1>3 DEF Commands!Send, Commands!TypeOK
      <4>3. QED BY <4>1, <4>2 DEF Commands!Busy, Commands!Idle
    <3>3. QED BY <1>3, <3>1, <3>2 DEF Commands!Send, Commands!TypeOK
  <2>2. PICK n \in 1 .. Calls : n = caller[c].job.call
    BY <2>1, CallsInRange
  <2>3. PICK where2 : where2 = Moved(where, n, <<"request", 0>>)
    OBVIOUS
  <2>4. Only(n, where, where2) /\ where2[n] = <<"request", 0>>
    BY <2>3 DEF Moved, Only
  <2>5. where[n] = <<"send", c>>
    BY <1>0, <2>1, <2>2 DEF Placed
  <2>6. Others(n, where, where2)
    BY <1>0, <2>4, Elsewhere
  <2>7. request \in Seq(Commands!Command \cup {Commands!Exit})
    BY DEF Commands!TypeOK
  <2>8. \A i \in DOMAIN request' :
          \/ i \in DOMAIN request /\ request'[i] = request[i]
          \/ i = Len(request) + 1 /\ i \notin DOMAIN request /\ request'[i] = caller[c].job
    BY <2>1, <2>7, AppendElements
  <2>9. /\ \A k \in 1 .. Calls : k > calls => where2[k] = <<"new", 0>>
        /\ \A d \in Caller : caller'[d].pc = "send" => where2[caller'[d].job.call] = <<"send", d>>
    <3>1. \A k \in 1 .. Calls : k > calls => where2[k] = <<"new", 0>>
      <4>1. where[n] # <<"new", 0>>
        BY <2>5, PlacesDiffer
      <4>2. QED BY <2>6, <4>1 DEF Others
    <3>2. ASSUME NEW d \in Caller, caller'[d].pc = "send"
          PROVE  where2[caller'[d].job.call] = <<"send", d>>
      <4>1. d # c /\ caller'[d] = caller[d] /\ caller[d].pc = "send"
        BY <2>1, <3>2
      <4>2. where[n] # <<"send", d>>
        BY <2>5, <4>1, PlacesDiffer
      <4>3. QED BY <2>6, <4>1, <4>2 DEF Others
    <3>3. QED BY <3>1, <3>2
  <2>10. /\ \A i \in DOMAIN request :
              request[i].call # 0 =>
                request[i].call # n /\ where2[request[i].call] = <<"request", 0>>
         /\ \A i \in DOMAIN response : where2[response[i].call] = <<"response", 0>>
         /\ \A l \in Commands!Life, i \in Nat :
              i \in DOMAIN job_queue[l] => where2[job_queue[l][i].call] = <<"job", l>>
         /\ \A l \in Commands!Life, w \in Pool :
              pool[l][w].pc \in {"execute", "answer"} =>
                where2[pool[l][w].job.call] = <<"pool", <<l, w>>>>
    <3>1. /\ where[n] # <<"request", 0>> /\ where[n] # <<"response", 0>>
          /\ \A l \in Commands!Life : where[n] # <<"job", l>>
          /\ \A l \in Commands!Life, w \in Pool : where[n] # <<"pool", <<l, w>>>>
      BY <2>5, PlacesDiffer
    <3>2. QED BY <2>6, <3>1, Zenon DEF Others
  <2>11. \A i \in DOMAIN request' :
           request'[i].call # 0 => where2[request'[i].call] = <<"request", 0>>
    BY <2>2, <2>4, <2>8, <2>10, Zenon
  <2>12. Placed(where2)'
    BY <2>1, <2>9, <2>10, <2>11, Zenon DEF Placed
  <2>13. Different(request')
    <3>1. \A i \in DOMAIN request :
            request[i].call # 0 => request[i].call # caller[c].job.call
      BY <2>2, <2>10
    <3>2. QED BY <1>1, <2>1, <2>7, <3>1, DifferentAppend DEF Once
  <2>14. Once'
    BY <1>1, <2>1, <2>13 DEF Once
  <2>15. QED BY <2>12, <2>14 DEF Placement
<1>4. CASE Commands!ReceiveAnswer(c)
  <2>1. PICK i \in DOMAIN response :
          /\ caller' = [caller EXCEPT ![c] =
               [pc |-> "idle", job |-> @.job, got |-> response[i].call]]
          /\ response' = Commands!WithoutFirst(response, i)
    BY <1>4 DEF Commands!ReceiveAnswer
  <2>2. response \in Seq(Commands!Answer)
    BY DEF Commands!TypeOK
  <2>3. PICK f : \A j \in DOMAIN response' :
          /\ f[j] \in DOMAIN response \ {i} /\ response'[j] = response[f[j]]
          /\ \A k \in DOMAIN response' : f[j] = f[k] => j = k
    BY <2>1, <2>2, WithoutElements
  <2>4. UNCHANGED <<calls, request, job_queue, pool>>
    BY <1>4 DEF Commands!ReceiveAnswer
  <2>5. \A d \in Caller : caller'[d].pc = "send" => caller'[d] = caller[d]
    BY <2>1 DEF Commands!TypeOK
  <2>6. \A j \in DOMAIN response' : where[response'[j].call] = <<"response", 0>>
    <3>1. \A k \in DOMAIN response : where[response[k].call] = <<"response", 0>>
      BY <1>0 DEF Placed
    <3>2. \A j \in DOMAIN response' : f[j] \in DOMAIN response /\ response'[j] = response[f[j]]
      BY <2>3
    <3>3. QED BY <3>1, <3>2
  <2>7. \A d \in Caller : caller'[d].pc = "send" => where[caller'[d].job.call] = <<"send", d>>
    BY <1>0, <2>5 DEF Placed
  <2>8. Placed(where)'
    BY <1>0, <2>4, <2>6, <2>7 DEF Placed
  <2>9. Once'
    BY <1>1, <2>1, <2>2, <2>4, DifferentWithout DEF Once
  <2>10. QED BY <2>8, <2>9 DEF Placement
<1>5. QED BY <1>2, <1>3, <1>4 DEF Commands!CallerStep

LEMMA PlacementReceive ==
  ASSUME Commands!TypeOK, Placement, NEW l \in Commands!Life, Commands!ReceiveCommand(l)
  PROVE  Placement'
<1>0. PICK where : Placed(where)
  BY DEF Placement
<1>1. Once
  BY DEF Placement
<1>2. /\ request \in Seq(Commands!Command \cup {Commands!Exit}) /\ request # <<>>
      /\ UNCHANGED <<calls, caller, pool, response>>
  BY DEF Commands!ReceiveCommand, Commands!TypeOK
<1>3. /\ 1 \in DOMAIN request /\ Head(request) = request[1]
      /\ \A i \in DOMAIN request' :
           i \in Nat /\ i + 1 \in DOMAIN request /\ i + 1 # 1 /\ request'[i] = request[i + 1]
  BY <1>2, TailElements DEF Commands!ReceiveCommand
<1>4. /\ Different(request')
      /\ \A i \in DOMAIN request' :
           request[1].call # 0 => request'[i].call # request[1].call
  BY <1>1, <1>2, <1>3, DifferentTail DEF Once, Commands!ReceiveCommand
<1>5. CASE Head(request) = Commands!Exit
  <2>1. UNCHANGED job_queue
    BY <1>5 DEF Commands!ReceiveCommand
  <2>2. \A i \in DOMAIN request' :
          request'[i].call # 0 => where[request'[i].call] = <<"request", 0>>
    <3>1. \A i \in DOMAIN request :
            request[i].call # 0 => where[request[i].call] = <<"request", 0>>
      BY <1>0 DEF Placed
    <3>2. QED BY <1>3, <3>1
  <2>3. Placed(where)'
    BY <1>0, <1>2, <2>1, <2>2 DEF Placed
  <2>4. Once'
    BY <1>1, <1>2, <1>4, <2>1 DEF Once
  <2>5. QED BY <2>3, <2>4 DEF Placement
<1>6. CASE Head(request) # Commands!Exit
  <2>1. /\ request[1] \in Commands!Command /\ request[1].call # 0 /\ job_queue[l] \in Seq(Commands!Command)
        /\ job_queue' = [job_queue EXCEPT ![l] = Append(job_queue[l], request[1])]
        /\ \A k \in Commands!Life : k # l => job_queue'[k] = job_queue[k]
        /\ job_queue'[l] = Append(job_queue[l], request[1])
    <3>1. request[1] \in Commands!Command /\ job_queue[l] \in Seq(Commands!Command)
      BY <1>3, <1>6, CallsInRange DEF Commands!TypeOK
    <3>2. job_queue' = [job_queue EXCEPT ![l] = Append(job_queue[l], request[1])]
      BY <1>3, <1>6 DEF Commands!ReceiveCommand
    <3>3. request[1].call # 0
      BY <3>1 DEF Commands!Command
    <3>4. QED BY <3>1, <3>2, <3>3 DEF Commands!TypeOK
  <2>2. PICK n \in 1 .. Calls : n = request[1].call
    BY <1>3, <2>1, CallsInRange
  <2>3. PICK where2 : where2 = Moved(where, n, <<"job", l>>)
    OBVIOUS
  <2>4. Only(n, where, where2) /\ where2[n] = <<"job", l>>
    BY <2>3 DEF Moved, Only
  <2>5. where[n] = <<"request", 0>>
    BY <1>0, <1>3, <2>1, <2>2 DEF Placed
  <2>6. Others(n, where, where2)
    BY <1>0, <2>4, Elsewhere
  <2>7. /\ where[n] # <<"new", 0>> /\ where[n] # <<"response", 0>>
        /\ \A c \in Caller : where[n] # <<"send", c>>
        /\ \A k \in Commands!Life : where[n] # <<"job", k>>
        /\ \A k \in Commands!Life, w \in Pool : where[n] # <<"pool", <<k, w>>>>
    BY <2>5, PlacesDiffer
  <2>8. /\ \A k \in 1 .. Calls : k > calls => where2[k] = <<"new", 0>>
        /\ \A c \in Caller : caller[c].pc = "send" => where2[caller[c].job.call] = <<"send", c>>
        /\ \A i \in DOMAIN response : where2[response[i].call] = <<"response", 0>>
        /\ \A k \in Commands!Life, w \in Pool :
             pool[k][w].pc \in {"execute", "answer"} =>
               where2[pool[k][w].job.call] = <<"pool", <<k, w>>>>
    BY <2>6, <2>7, Zenon DEF Others
  <2>9. \A k \in Commands!Life, i \in Nat :
          i \in DOMAIN job_queue[k] =>
            job_queue[k][i].call # n /\ where2[job_queue[k][i].call] = <<"job", k>>
    BY <2>6, <2>7, Zenon DEF Others
  <2>10. \A i \in DOMAIN request' :
           request'[i].call # 0 => where2[request'[i].call] = <<"request", 0>>
    <3>1. ASSUME NEW i \in DOMAIN request', request'[i].call # 0
          PROVE  where2[request'[i].call] = <<"request", 0>>
      <4>1. PICK j \in DOMAIN request : request'[i] = request[j]
        BY <1>3
      <4>2. request[j].call # n
        BY <1>4, <2>1, <2>2, <4>1
      <4>3. where[request[j].call] = <<"request", 0>> /\ request[j].call \in 1 .. Calls
        BY <1>0, <3>1, <4>1, CallsInRange DEF Placed
      <4>4. QED BY <2>4, <4>1, <4>2, <4>3 DEF Only
    <3>2. QED BY <3>1
  <2>11. \A i \in DOMAIN job_queue'[l] :
           \/ i \in DOMAIN job_queue[l] /\ job_queue'[l][i] = job_queue[l][i]
           \/ i = Len(job_queue[l]) + 1 /\ i \notin DOMAIN job_queue[l]
              /\ job_queue'[l][i] = request[1]
    BY <2>1, AppendElements
  <2>12. ASSUME NEW k \in Commands!Life, NEW i \in Nat, i \in DOMAIN job_queue'[k]
         PROVE  where2[job_queue'[k][i].call] = <<"job", k>>
    <3>1. CASE k # l
      BY <2>1, <2>9, <2>12, <3>1
    <3>2. CASE k = l
      <4>1. \/ i \in DOMAIN job_queue[k] /\ job_queue'[k][i] = job_queue[k][i]
            \/ job_queue'[k][i].call = n
        BY <2>2, <2>11, <2>12, <3>2
      <4>2. QED BY <2>4, <2>9, <3>2, <4>1
    <3>3. QED BY <3>1, <3>2
  <2>13. Placed(where2)'
    BY <1>2, <2>8, <2>10, <2>12 DEF Placed
  <2>14. ASSUME NEW k \in Commands!Life PROVE Different(job_queue'[k])
    <3>1. CASE k # l
      BY <1>1, <2>1, <3>1 DEF Once
    <3>2. CASE k = l
      <4>1. \A i \in DOMAIN job_queue[l] : job_queue[l][i].call # request[1].call
        <5>1. DOMAIN job_queue[l] \subseteq Nat
          BY <2>1
        <5>2. QED BY <2>2, <2>9, <5>1
      <4>2. Different(Append(job_queue[l], request[1]))
        BY <1>1, <2>1, <4>1, DifferentAppend DEF Once
      <4>3. QED BY <2>1, <3>2, <4>2
    <3>3. QED BY <3>1, <3>2
  <2>15. Once'
    BY <1>1, <1>2, <1>4, <2>14 DEF Once
  <2>16. QED BY <2>13, <2>15 DEF Placement
<1>7. QED BY <1>5, <1>6

LEMMA PlacementTake ==
  ASSUME Commands!TypeOK, Placement, NEW l \in Commands!Life, NEW w \in Pool,
         Commands!TakeJob(l, w)
  PROVE  Placement'
<1>0. PICK where : Placed(where)
  BY DEF Placement
<1>1. Once
  BY DEF Placement
<1>2. /\ job_queue[l] \in Seq(Commands!Command) /\ job_queue[l] # <<>>
      /\ UNCHANGED <<calls, caller, request, response>>
  BY DEF Commands!TakeJob, Commands!TypeOK, Commands!queues
<1>3. /\ 1 \in DOMAIN job_queue[l] /\ Head(job_queue[l]) = job_queue[l][1]
      /\ \A i \in DOMAIN Tail(job_queue[l]) :
           i + 1 \in DOMAIN job_queue[l] /\ i + 1 \in Nat
           /\ Tail(job_queue[l])[i] = job_queue[l][i + 1]
  BY <1>2, TailElements
<1>4. /\ job_queue'[l] = Tail(job_queue[l])
      /\ \A k \in Commands!Life : k # l => job_queue'[k] = job_queue[k]
      /\ pool'[l][w] = [pc |-> "execute", job |-> job_queue[l][1]]
      /\ \A k \in Commands!Life, v \in Pool : ~(k = l /\ v = w) => pool'[k][v] = pool[k][v]
  BY <1>3 DEF Commands!TakeJob, Commands!TypeOK
<1>5. PICK n \in 1 .. Calls : n = job_queue[l][1].call
  BY <1>3, CallsInRange
<1>6. PICK where2 : where2 = Moved(where, n, <<"pool", <<l, w>>>>)
  OBVIOUS
<1>7. Only(n, where, where2) /\ where2[n] = <<"pool", <<l, w>>>>
  BY <1>6 DEF Moved, Only
<1>8. where[n] = <<"job", l>>
  BY <1>0, <1>3, <1>5 DEF Placed
<1>9. Others(n, where, where2)
  BY <1>0, <1>7, Elsewhere
<1>10. /\ where[n] # <<"new", 0>> /\ where[n] # <<"response", 0>> /\ where[n] # <<"request", 0>>
       /\ \A c \in Caller : where[n] # <<"send", c>>
       /\ \A k \in Commands!Life : k # l => where[n] # <<"job", k>>
       /\ \A k \in Commands!Life, v \in Pool : where[n] # <<"pool", <<k, v>>>>
  BY <1>8, PlacesDiffer
<1>11. /\ \A k \in 1 .. Calls : k > calls => where2[k] = <<"new", 0>>
       /\ \A c \in Caller : caller[c].pc = "send" => where2[caller[c].job.call] = <<"send", c>>
       /\ \A i \in DOMAIN request :
            request[i].call # 0 => where2[request[i].call] = <<"request", 0>>
       /\ \A i \in DOMAIN response : where2[response[i].call] = <<"response", 0>>
       /\ \A k \in Commands!Life, v \in Pool :
            pool[k][v].pc \in {"execute", "answer"} =>
              where2[pool[k][v].job.call] = <<"pool", <<k, v>>>>
       /\ \A k \in Commands!Life, i \in Nat :
            k # l /\ i \in DOMAIN job_queue[k] => where2[job_queue[k][i].call] = <<"job", k>>
  BY <1>9, <1>10, Zenon DEF Others
<1>12. /\ Different(job_queue'[l])
       /\ \A i \in DOMAIN job_queue'[l] : job_queue'[l][i].call # n
  <2>1. job_queue[l][1].call # 0
    BY <1>5
  <2>2. QED BY <1>1, <1>2, <1>4, <1>5, <2>1, DifferentTail DEF Once
<1>13. ASSUME NEW k \in Commands!Life, NEW i \in Nat, i \in DOMAIN job_queue'[k]
       PROVE  where2[job_queue'[k][i].call] = <<"job", k>>
  <2>1. CASE k # l
    BY <1>4, <1>11, <1>13, <2>1
  <2>2. CASE k = l
    <3>1. PICK j \in Nat : j \in DOMAIN job_queue[l] /\ job_queue'[k][i] = job_queue[l][j]
      <4>1. i \in DOMAIN Tail(job_queue[l]) /\ job_queue'[k][i] = Tail(job_queue[l])[i]
        BY <1>4, <1>13, <2>2
      <4>2. QED BY <1>3, <4>1
    <3>2. /\ where[job_queue[l][j].call] = <<"job", l>>
          /\ job_queue[l][j].call \in 1 .. Calls
      BY <1>0, <3>1, CallsInRange DEF Placed
    <3>3. job_queue[l][j].call # n
      BY <1>12, <1>13, <2>2, <3>1
    <3>4. QED BY <1>7, <2>2, <3>1, <3>2, <3>3 DEF Only
  <2>3. QED BY <2>1, <2>2
<1>14. ASSUME NEW k \in Commands!Life, NEW v \in Pool, pool'[k][v].pc \in {"execute", "answer"}
       PROVE  where2[pool'[k][v].job.call] = <<"pool", <<k, v>>>>
  <2>1. CASE k = l /\ v = w
    BY <1>4, <1>5, <1>7, <2>1
  <2>2. CASE ~(k = l /\ v = w)
    <3>1. pool'[k][v] = pool[k][v]
      BY <1>4, <2>2
    <3>2. QED BY <1>11, <1>14, <3>1
  <2>3. QED BY <2>1, <2>2
<1>15. Placed(where2)'
  BY <1>2, <1>11, <1>13, <1>14 DEF Placed
<1>16. Once'
  <2>1. \A k \in Commands!Life : Different(job_queue'[k])
    BY <1>1, <1>4, <1>12 DEF Once
  <2>2. QED BY <1>1, <1>2, <2>1 DEF Once
<1>17. QED BY <1>15, <1>16 DEF Placement

LEMMA PlacementPool ==
  ASSUME Commands!TypeOK, Placement, NEW l \in Commands!Life, NEW w \in Pool,
         Commands!StopWorker(l, w) \/ Commands!SendAnswer(l, w) \/ Commands!Execute(l, w)
  PROVE  Placement'
<1>0. PICK where : Placed(where)
  BY DEF Placement
<1>1. Once
  BY DEF Placement
<1>2. UNCHANGED <<calls, caller, request, job_queue>>
  BY DEF Commands!StopWorker, Commands!SendAnswer, Commands!Execute, Commands!queues
<1>3. ASSUME NEW k \in Commands!Life, NEW v \in Pool, pool'[k][v].pc \in {"execute", "answer"}
      PROVE  /\ pool[k][v].pc \in {"execute", "answer"} /\ pool'[k][v].job = pool[k][v].job
             /\ Commands!SendAnswer(l, w) => ~(k = l /\ v = w)
  BY <1>3, PoolKeeps
<1>4. CASE UNCHANGED response
  <2>1. \A k \in Commands!Life, v \in Pool :
          pool'[k][v].pc \in {"execute", "answer"} =>
            where[pool'[k][v].job.call] = <<"pool", <<k, v>>>>
    BY <1>0, <1>3, Zenon DEF Placed
  <2>2. Placed(where)'
    BY <1>0, <1>2, <1>4, <2>1 DEF Placed
  <2>3. Once'
    BY <1>1, <1>2, <1>4 DEF Once
  <2>4. QED BY <2>2, <2>3 DEF Placement
<1>5. CASE Commands!SendAnswer(l, w)
  <2>1. PICK a \in Commands!Answer :
          /\ a.call = pool[l][w].job.call
          /\ response' = Append(response, a)
    <3>1. pool[l][w].job \in Commands!Command
      BY <1>5, HasJob DEF Commands!SendAnswer, Command
    <3>2. [id |-> pool[l][w].job.id, call |-> pool[l][w].job.call] \in Commands!Answer
      BY <3>1 DEF Commands!Command, Commands!Answer
    <3>3. QED BY <1>5, <3>2 DEF Commands!SendAnswer
  <2>2. pool[l][w].pc = "answer" /\ response \in Seq(Commands!Answer)
    BY <1>5 DEF Commands!SendAnswer, Commands!TypeOK
  <2>3. PICK n \in 1 .. Calls : n = pool[l][w].job.call
    BY <2>2, CallsInRange
  <2>4. PICK where2 : where2 = Moved(where, n, <<"response", 0>>)
    OBVIOUS
  <2>5. Only(n, where, where2) /\ where2[n] = <<"response", 0>>
    BY <2>4 DEF Moved, Only
  <2>6. where[n] = <<"pool", <<l, w>>>>
    BY <1>0, <2>2, <2>3 DEF Placed
  <2>7. Others(n, where, where2)
    BY <1>0, <2>5, Elsewhere
  <2>8. /\ where[n] # <<"new", 0>> /\ where[n] # <<"response", 0>>
        /\ where[n] # <<"request", 0>>
        /\ \A c \in Caller : where[n] # <<"send", c>>
        /\ \A k \in Commands!Life : where[n] # <<"job", k>>
        /\ \A k \in Commands!Life, v \in Pool :
             ~(k = l /\ v = w) => where[n] # <<"pool", <<k, v>>>>
    BY <2>6, PlacesDiffer
  <2>9. /\ \A k \in 1 .. Calls : k > calls => where2[k] = <<"new", 0>>
        /\ \A c \in Caller : caller[c].pc = "send" => where2[caller[c].job.call] = <<"send", c>>
        /\ \A i \in DOMAIN request :
             request[i].call # 0 => where2[request[i].call] = <<"request", 0>>
        /\ \A k \in Commands!Life, i \in Nat :
             i \in DOMAIN job_queue[k] => where2[job_queue[k][i].call] = <<"job", k>>
        /\ \A i \in DOMAIN response :
             response[i].call # n /\ where2[response[i].call] = <<"response", 0>>
        /\ \A k \in Commands!Life, v \in Pool :
             pool[k][v].pc \in {"execute", "answer"} /\ ~(k = l /\ v = w) =>
               where2[pool[k][v].job.call] = <<"pool", <<k, v>>>>
    BY <2>7, <2>8, Zenon DEF Others
  <2>10. ASSUME NEW i \in DOMAIN response' PROVE where2[response'[i].call] = <<"response", 0>>
    <3>1. (i \in DOMAIN response /\ response'[i] = response[i]) \/ response'[i].call = n
      BY <2>1, <2>2, <2>3, <2>10, AppendElements
    <3>2. QED BY <2>5, <2>9, <3>1
  <2>11. ASSUME NEW k \in Commands!Life, NEW v \in Pool, pool'[k][v].pc \in {"execute", "answer"}
         PROVE  where2[pool'[k][v].job.call] = <<"pool", <<k, v>>>>
    BY <1>3, <1>5, <2>9, <2>11
  <2>12. Placed(where2)'
    BY <1>2, <2>9, <2>10, <2>11 DEF Placed
  <2>13. Different(response')
    BY <1>1, <2>1, <2>2, <2>3, <2>9, DifferentAppend DEF Once
  <2>14. Once'
    BY <1>1, <1>2, <2>13 DEF Once
  <2>15. QED BY <2>12, <2>14 DEF Placement
<1>6. QED BY <1>4, <1>5 DEF Commands!StopWorker, Commands!Execute, Commands!queues

LEMMA PlacementLcc ==
  ASSUME Commands!TypeOK, Placement,
         \/ \E l \in Commands!Life : Commands!JoinPool(l) \/ Commands!ChildDies(l)
         \/ Commands!Close \/ Commands!SendExit \/ Commands!Terminate
         \/ Commands!Crash \/ Commands!Restart
  PROVE  Placement'
<1> USE DEF Commands!queues, Commands!children
<1>0. PICK where : Placed(where)
  BY DEF Placement
<1>1. Once
  BY DEF Placement
<1>2. CASE UNCHANGED <<calls, caller, request, response, job_queue, pool>>
  <2>1. Placed(where)'
    BY <1>0, <1>2 DEF Placed
  <2>2. Once'
    BY <1>1, <1>2 DEF Once
  <2>3. QED BY <2>1, <2>2 DEF Placement
<1>3. CASE Commands!SendExit
  <2>1. /\ request' = Append(request, Commands!Exit)
        /\ UNCHANGED <<calls, caller, response, job_queue, pool>>
        /\ request \in Seq(Commands!Command \cup {Commands!Exit})
    BY <1>3 DEF Commands!SendExit, Commands!TypeOK
  <2>2. Commands!Exit.call = 0
    BY DEF Commands!Exit
  <2>3. \A i \in DOMAIN request' :
          request'[i].call = 0 \/ (i \in DOMAIN request /\ request'[i] = request[i])
    BY <2>1, <2>2, AppendElements
  <2>4. \A i \in DOMAIN request' :
          request'[i].call # 0 => where[request'[i].call] = <<"request", 0>>
    BY <1>0, <2>3 DEF Placed
  <2>5. Placed(where)'
    BY <1>0, <2>1, <2>4 DEF Placed
  <2>6. Different(request')
    BY <1>1, <2>1, <2>2, DifferentAppend DEF Once
  <2>7. Once'
    BY <1>1, <2>1, <2>6 DEF Once
  <2>8. QED BY <2>5, <2>7 DEF Placement
<1>4. CASE Commands!Terminate
  <2>1. /\ request' = <<>> /\ response' = <<>> /\ DOMAIN <<>> = {}
        /\ UNCHANGED <<calls, caller, job_queue, pool>>
    BY <1>4 DEF Commands!Terminate
  <2>2. Placed(where)'
    BY <1>0, <2>1 DEF Placed
  <2>3. Once'
    BY <1>1, <2>1, DifferentEmpty DEF Once
  <2>4. QED BY <2>2, <2>3 DEF Placement
<1>5. CASE Commands!Crash
  <2>1. /\ \A c \in Caller : caller'[c].pc # "send"
        /\ UNCHANGED <<calls, request, response, job_queue, pool>>
    BY <1>5 DEF Commands!Crash, Commands!Idle
  <2>2. Placed(where)'
    BY <1>0, <2>1 DEF Placed
  <2>3. Once'
    BY <1>1, <2>1 DEF Once
  <2>4. QED BY <2>2, <2>3 DEF Placement
<1>6. QED
  BY <1>2, <1>3, <1>4, <1>5
  DEF Commands!JoinPool, Commands!ChildDies, Commands!Close, Commands!Restart

LEMMA PlacementStep == ASSUME Commands!TypeOK, Placement, Commands!Next PROVE Placement'
BY PlacementCallers, PlacementReceive, PlacementTake, PlacementPool, PlacementLcc
DEF Commands!Next, Commands!CallerStep, Commands!ChildStep, Commands!WorkerStep

-----------------------------------------------------------------------------
(* Shell commands: every answer has somebody who waits for it.  Two callers *)
(* may wait for the same id, when the counter has gone round, and take the *)
(* answers of each other; what stays is that there are as many of them as  *)
(* commands to be answered.                                                *)

Asks(m, a) == m.kind = "answered" /\ m.id = a.id /\ m.call = a.call
AsksIn(q, a) == \E i \in DOMAIN q : Asks(q[i], a)
AsksPool(a) ==
  \E l \in Commands!Life, w \in Pool :
    \/ pool[l][w].pc = "execute" /\ Asks(pool[l][w].job, a)
    \/ pool[l][w].pc = "answer" /\ pool[l][w].job.id = a.id /\ pool[l][w].job.call = a.call
Given(a) == \E i \in DOMAIN response : response[i] = a

(* The command is in a queue or at work, or the answer is in its queue.    *)
Open(a) ==
  \/ AsksIn(request, a)
  \/ \E l \in Commands!Life : AsksIn(job_queue[l], a)
  \/ AsksPool(a)
  \/ Given(a)

Matched(f) ==
  \A a \in Commands!Answer : Open(a) =>
    /\ f[a] \in Caller /\ caller[f[a]].pc = "wait" /\ caller[f[a]].job.id = a.id
    /\ \A b \in Commands!Answer : Open(b) /\ f[a] = f[b] => a = b

Matching == life = 1 /\ lcc = "up" => \E f : Matched(f)

LEMMA MatchingInit == Commands!Init => Matching
<1> SUFFICES ASSUME Commands!Init PROVE Matching
  OBVIOUS
<1>1. DOMAIN <<>> = {}
  OBVIOUS
<1>2. \A l \in Commands!Life, w \in Pool : pool[l][w].pc \notin {"execute", "answer"}
  BY DEF Commands!Init, Commands!Idle
<1>3. ASSUME NEW a \in Commands!Answer PROVE ~Open(a)
  BY <1>1, <1>2 DEF Commands!Init, Open, AsksIn, AsksPool, Given
<1>4. Matched(<<>>)
  BY <1>3 DEF Matched
<1>5. QED BY <1>4 DEF Matching

LEMMA AsksTail ==
  ASSUME NEW S, NEW s \in Seq(S), s # <<>>, NEW a
  PROVE  /\ AsksIn(Tail(s), a) => AsksIn(s, a)
         /\ Asks(s[1], a) => AsksIn(s, a)
BY TailElements DEF AsksIn

LEMMA AsksAppend ==
  ASSUME NEW S, NEW s \in Seq(S), NEW x \in S, NEW a, AsksIn(Append(s, x), a)
  PROVE  AsksIn(s, a) \/ Asks(x, a)
BY AppendElements DEF AsksIn

(* A step that opens nothing and leaves those who wait alone.              *)
LEMMA MatchingStays ==
  ASSUME Matching, life' = 1 => life = 1, lcc' = "up" => lcc = "up",
         \A a \in Commands!Answer : Open(a)' => Open(a),
         \A c \in Caller : caller[c].pc = "wait" => caller'[c] = caller[c]
  PROVE  Matching'
<1> SUFFICES ASSUME life' = 1, lcc' = "up" PROVE (\E f : Matched(f))'
  BY DEF Matching
<1>1. PICK f : Matched(f)
  BY DEF Matching
<1>2. Matched(f)'
  BY <1>1 DEF Matched
<1>3. QED BY <1>2

LEMMA MatchingSend ==
  ASSUME Commands!TypeOK, Matching, NEW c \in Caller, Commands!Send(c)
  PROVE  Matching'
<1>1. /\ caller[c].pc = "send" /\ caller[c].job \in Commands!Command
      /\ caller[c] \in Commands!Busy({"send", "wait"}, Command)
  BY HasJob DEF Commands!Send, Command
<1>2. /\ request \in Seq(Commands!Command \cup {Commands!Exit})
      /\ request' = Append(request, caller[c].job)
      /\ UNCHANGED <<lcc, life, job_queue, pool, response>>
      /\ \A d \in Caller : d # c => caller'[d] = caller[d]
  BY DEF Commands!Send, Commands!TypeOK, Commands!children
<1>3. ASSUME NEW a \in Commands!Answer, Open(a)'
      PROVE  Open(a) \/ Asks(caller[c].job, a)
  <2>1. AsksIn(request', a) => AsksIn(request, a) \/ Asks(caller[c].job, a)
    BY <1>1, <1>2, AsksAppend
  <2>2. QED BY <1>2, <1>3, <2>1 DEF Open, AsksPool, Given
<1>4. CASE caller[c].job.kind # "answered"
  <2>1. \A a \in Commands!Answer : Open(a)' => Open(a)
    BY <1>3, <1>4 DEF Asks
  <2>2. \A d \in Caller : caller[d].pc = "wait" => caller'[d] = caller[d]
    BY <1>1, <1>2
  <2>3. QED BY <1>2, <2>1, <2>2, MatchingStays
<1>5. CASE caller[c].job.kind = "answered"
  <2> SUFFICES ASSUME life' = 1, lcc' = "up" PROVE (\E f : Matched(f))'
    BY DEF Matching
  <2>1. PICK f : Matched(f)
    BY <1>2 DEF Matching
  <2>2. caller'[c].pc = "wait" /\ caller'[c].job = caller[c].job
    <3>1. caller'[c] = [caller[c] EXCEPT !.pc = "wait"]
      BY <1>5 DEF Commands!Send, Commands!TypeOK
    <3>2. QED BY <1>1, <3>1 DEF Commands!Busy
  <2>3. PICK g : g = [a \in Commands!Answer |-> IF Asks(caller[c].job, a) THEN c ELSE f[a]]
    OBVIOUS
  <2>4. ASSUME NEW a \in Commands!Answer, Open(a)'
        PROVE  /\ g[a] \in Caller /\ caller'[g[a]].pc = "wait" /\ caller'[g[a]].job.id = a.id
               /\ Asks(caller[c].job, a) => g[a] = c
               /\ ~Asks(caller[c].job, a) => Open(a) /\ g[a] = f[a] /\ g[a] # c
    <3>1. CASE Asks(caller[c].job, a)
      BY <2>2, <2>3, <3>1 DEF Asks
    <3>2. CASE ~Asks(caller[c].job, a)
      <4>1. Open(a) /\ g[a] = f[a]
        BY <1>3, <2>3, <2>4, <3>2
      <4>2. f[a] \in Caller /\ caller[f[a]].pc = "wait" /\ caller[f[a]].job.id = a.id
        BY <2>1, <4>1 DEF Matched
      <4>3. QED BY <1>1, <1>2, <3>2, <4>1, <4>2
    <3>3. QED BY <3>1, <3>2
  <2>5. ASSUME NEW a \in Commands!Answer, NEW b \in Commands!Answer, Open(a)', Open(b)',
               g[a] = g[b]
        PROVE  a = b
    <3>1. CASE Asks(caller[c].job, a)
      <4>1. Asks(caller[c].job, b)
        BY <2>4, <2>5, <3>1
      <4>2. a.id = b.id /\ a.call = b.call
        BY <3>1, <4>1 DEF Asks
      <4>3. QED BY <4>2 DEF Commands!Answer
    <3>2. CASE ~Asks(caller[c].job, a)
      <4>1. /\ Open(a) /\ g[a] = f[a] /\ g[a] # c
            /\ ~Asks(caller[c].job, b)
        BY <2>4, <2>5, <3>2
      <4>2. Open(b) /\ g[b] = f[b]
        BY <2>4, <2>5, <4>1
      <4>3. QED BY <2>1, <2>5, <4>1, <4>2 DEF Matched
    <3>3. QED BY <3>1, <3>2
  <2>6. Matched(g)'
    BY <2>4, <2>5 DEF Matched
  <2>7. QED BY <2>6
<1>6. QED BY <1>4, <1>5

LEMMA MatchingReceive ==
  ASSUME Commands!TypeOK, Placement, Matching, NEW c \in Caller, Commands!ReceiveAnswer(c)
  PROVE  Matching'
<1> SUFFICES ASSUME life' = 1, lcc' = "up" PROVE (\E f : Matched(f))'
  BY DEF Matching
<1>1. PICK f : Matched(f)
  BY DEF Matching, Commands!ReceiveAnswer
<1>2. PICK i \in DOMAIN response :
        /\ response[i].id = caller[c].job.id
        /\ caller' = [caller EXCEPT ![c] =
             [pc |-> "idle", job |-> @.job, got |-> response[i].call]]
        /\ response' = Commands!WithoutFirst(response, i)
  BY DEF Commands!ReceiveAnswer
<1>3. PICK r \in Commands!Answer : r = response[i] /\ r.call \in 1 .. Calls
  BY CallsInRange
<1>4. /\ response \in Seq(Commands!Answer)
      /\ UNCHANGED <<request, job_queue, pool>>
      /\ caller[c].pc = "wait" /\ \A d \in Caller : d # c => caller'[d] = caller[d]
  BY <1>2 DEF Commands!ReceiveAnswer, Commands!TypeOK, Commands!children
<1>5. ASSUME NEW a \in Commands!Answer, Given(a)' PROVE Given(a) /\ a.call # r.call
  <2>1. PICK j \in DOMAIN response' : response'[j] = a
    BY <1>5 DEF Given
  <2>2. a.call # r.call
    <3>1. response[i].call # 0 /\ Different(response)
      BY <1>3 DEF Placement, Once
    <3>2. QED BY <1>2, <1>3, <1>4, <2>1, <3>1, DifferentWithout
  <2>3. Given(a)
    BY <1>2, <1>4, <2>1, WithoutElements DEF Given
  <2>4. QED BY <2>2, <2>3
<1>6. ASSUME NEW a \in Commands!Answer, Open(a)' PROVE Open(a) /\ a # r
  <2>1. Open(a)
    BY <1>4, <1>5, <1>6 DEF Open, AsksPool
  <2>2. PICK where : Placed(where)
    BY DEF Placement
  <2>3. where[r.call] = <<"response", 0>>
    BY <1>3, <2>2 DEF Placed
  <2>4. ~AsksIn(request, r)
    <3>1. ASSUME NEW j \in DOMAIN request, request[j].call = r.call PROVE FALSE
      <4>1. where[r.call] = <<"request", 0>>
        BY <1>3, <2>2, <3>1 DEF Placed
      <4>2. QED BY <2>3, <4>1, PlacesDiffer
    <3>2. QED BY <3>1 DEF AsksIn, Asks
  <2>5. ASSUME NEW l \in Commands!Life PROVE ~AsksIn(job_queue[l], r)
    <3>1. DOMAIN job_queue[l] \subseteq Nat
      BY DEF Commands!TypeOK
    <3>2. ASSUME NEW j \in DOMAIN job_queue[l], job_queue[l][j].call = r.call PROVE FALSE
      <4>1. where[r.call] = <<"job", l>>
        BY <2>2, <3>1, <3>2 DEF Placed
      <4>2. QED BY <2>3, <4>1, PlacesDiffer
    <3>3. QED BY <3>2 DEF AsksIn, Asks
  <2>6. ~AsksPool(r)
    <3>1. ASSUME NEW l \in Commands!Life, NEW w \in Pool,
                 pool[l][w].pc \in {"execute", "answer"}, pool[l][w].job.call = r.call
          PROVE  FALSE
      <4>1. where[r.call] = <<"pool", <<l, w>>>>
        BY <2>2, <3>1 DEF Placed
      <4>2. QED BY <2>3, <4>1, PlacesDiffer
    <3>2. QED BY <3>1 DEF AsksPool, Asks
  <2>7. Open(a)' => AsksIn(request, a) \/ (\E l \in Commands!Life : AsksIn(job_queue[l], a))
                      \/ AsksPool(a) \/ Given(a)'
    BY <1>4 DEF Open, AsksPool
  <2>8. a # r
    BY <1>5, <1>6, <2>4, <2>5, <2>6, <2>7
  <2>9. QED BY <2>1, <2>8
<1>7. Open(r)
  BY <1>3 DEF Open, Given
<1>8. PICK g : g = [a \in Commands!Answer |-> IF f[a] = c THEN f[r] ELSE f[a]]
  OBVIOUS
<1>9. ASSUME NEW a \in Commands!Answer, Open(a)'
      PROVE  /\ g[a] \in Caller /\ caller'[g[a]].pc = "wait" /\ caller'[g[a]].job.id = a.id
             /\ \A b \in Commands!Answer : Open(b)' /\ g[a] = g[b] => a = b
  <2>1. /\ Open(a) /\ a # r
        /\ \A b \in Commands!Answer : Open(b)' => Open(b) /\ b # r
    BY <1>6, <1>9
  <2>2. /\ f[a] \in Caller /\ caller[f[a]].pc = "wait" /\ caller[f[a]].job.id = a.id
        /\ f[r] \in Caller /\ caller[f[r]].pc = "wait" /\ caller[f[r]].job.id = r.id
        /\ f[a] # f[r]
        /\ \A b \in Commands!Answer : Open(b)' => f[b] # f[r] /\ (f[a] = f[b] => a = b)
    BY <1>1, <1>7, <2>1 DEF Matched
  <2>3. \A b \in Commands!Answer : g[b] = IF f[b] = c THEN f[r] ELSE f[b]
    BY <1>8
  <2>4. g[a] \in Caller /\ g[a] # c /\ caller[g[a]].pc = "wait" /\ caller[g[a]].job.id = a.id
    BY <1>2, <1>3, <2>2, <2>3
  <2>5. caller'[g[a]] = caller[g[a]]
    BY <1>4, <2>4
  <2>6. ASSUME NEW b \in Commands!Answer, Open(b)', g[a] = g[b] PROVE a = b
    BY <2>2, <2>3, <2>6
  <2>7. QED BY <2>4, <2>5, <2>6
<1>10. Matched(g)'
  BY <1>9 DEF Matched
<1>11. QED BY <1>10

LEMMA MatchingCall ==
  ASSUME Commands!TypeOK, Matching, NEW c \in Caller, NEW kind \in Commands!Kind,
         Commands!Call(c, kind)
  PROVE  Matching'
<1>1. UNCHANGED <<lcc, life, request, job_queue, pool, response>>
  BY DEF Commands!Call, Commands!queues, Commands!children
<1>2. \A d \in Caller : caller[d].pc = "wait" => caller'[d] = caller[d]
  BY DEF Commands!Call, Commands!TypeOK
<1>3. \A a \in Commands!Answer : Open(a)' => Open(a)
  BY <1>1 DEF Open, AsksPool, Given
<1>4. QED BY <1>1, <1>2, <1>3, MatchingStays

LEMMA MatchingReader ==
  ASSUME Commands!TypeOK, Matching, NEW l \in Commands!Life, Commands!ReceiveCommand(l)
  PROVE  Matching'
<1>1. /\ UNCHANGED <<lcc, life, caller, pool, response>>
      /\ request \in Seq(Commands!Command \cup {Commands!Exit}) /\ request # <<>>
      /\ request' = Tail(request) /\ Head(request) = request[1]
  BY DEF Commands!ReceiveCommand, Commands!TypeOK
<1>2. ASSUME NEW a \in Commands!Answer, NEW k \in Commands!Life, AsksIn(job_queue'[k], a)
      PROVE  AsksIn(job_queue[k], a) \/ AsksIn(request, a)
  <2>1. CASE job_queue'[k] = job_queue[k]
    BY <1>2, <2>1
  <2>2. CASE job_queue'[k] # job_queue[k]
    <3>1. /\ job_queue'[k] = Append(job_queue[k], Head(request))
          /\ Head(request) \in Commands!Command /\ job_queue[k] \in Seq(Commands!Command)
      BY <1>1, <2>2 DEF Commands!ReceiveCommand, Commands!TypeOK
    <3>2. AsksIn(job_queue[k], a) \/ Asks(Head(request), a)
      BY <1>2, <3>1, AsksAppend
    <3>3. QED BY <1>1, <3>2, AsksTail
  <2>3. QED BY <2>1, <2>2
<1>3. ASSUME NEW a \in Commands!Answer, Open(a)' PROVE Open(a)
  <2>1. AsksIn(request', a) => AsksIn(request, a)
    BY <1>1, AsksTail
  <2>2. QED BY <1>1, <1>2, <1>3, <2>1 DEF Open, AsksPool, Given
<1>4. QED BY <1>1, <1>3, MatchingStays

LEMMA MatchingTake ==
  ASSUME Commands!TypeOK, Matching, NEW l \in Commands!Life, NEW w \in Pool,
         Commands!TakeJob(l, w)
  PROVE  Matching'
<1>1. /\ UNCHANGED <<lcc, life, caller, request, response>>
      /\ job_queue[l] \in Seq(Commands!Command) /\ job_queue[l] # <<>>
      /\ \A k \in Commands!Life : job_queue'[k] = IF k = l THEN Tail(job_queue[l]) ELSE job_queue[k]
      /\ pool'[l][w] = [pc |-> "execute", job |-> Head(job_queue[l])]
      /\ \A k \in Commands!Life, v \in Pool : ~(k = l /\ v = w) => pool'[k][v] = pool[k][v]
  BY DEF Commands!TakeJob, Commands!TypeOK, Commands!queues
<1>2. ASSUME NEW a \in Commands!Answer, AsksPool(a)'
      PROVE  AsksPool(a) \/ AsksIn(job_queue[l], a)
  <2>1. PICK k \in Commands!Life, v \in Pool :
          \/ pool'[k][v].pc = "execute" /\ Asks(pool'[k][v].job, a)
          \/ /\ pool'[k][v].pc = "answer"
             /\ pool'[k][v].job.id = a.id /\ pool'[k][v].job.call = a.call
    BY <1>2 DEF AsksPool
  <2>2. CASE k = l /\ v = w
    <3>1. Asks(Head(job_queue[l]), a) /\ Head(job_queue[l]) = job_queue[l][1]
      BY <1>1, <2>1, <2>2, TailElements
    <3>2. QED BY <1>1, <3>1, AsksTail
  <2>3. CASE ~(k = l /\ v = w)
    <3>1. pool'[k][v] = pool[k][v]
      BY <1>1, <2>3
    <3>2. AsksPool(a)
      BY <2>1, <3>1 DEF AsksPool
    <3>3. QED BY <3>2
  <2>4. QED BY <2>2, <2>3
<1>3. ASSUME NEW a \in Commands!Answer, Open(a)' PROVE Open(a)
  <2>1. \A k \in Commands!Life : AsksIn(job_queue'[k], a) => AsksIn(job_queue[k], a)
    BY <1>1, AsksTail
  <2>2. QED BY <1>1, <1>2, <1>3, <2>1 DEF Open, Given
<1>4. QED BY <1>1, <1>3, MatchingStays

LEMMA MatchingPool ==
  ASSUME Commands!TypeOK, Matching, NEW l \in Commands!Life, NEW w \in Pool,
         Commands!StopWorker(l, w) \/ Commands!SendAnswer(l, w) \/ Commands!Execute(l, w)
  PROVE  Matching'
<1>1. UNCHANGED <<lcc, life, caller, request, job_queue>>
  BY DEF Commands!StopWorker, Commands!SendAnswer, Commands!Execute, Commands!queues
<1>2. ASSUME NEW a \in Commands!Answer, AsksPool(a)' PROVE AsksPool(a)
  <2>1. PICK k \in Commands!Life, v \in Pool :
          \/ pool'[k][v].pc = "execute" /\ Asks(pool'[k][v].job, a)
          \/ /\ pool'[k][v].pc = "answer"
             /\ pool'[k][v].job.id = a.id /\ pool'[k][v].job.call = a.call
    BY <1>2 DEF AsksPool
  <2>2. CASE pool'[k][v] = pool[k][v]
    BY <2>1, <2>2 DEF AsksPool
  <2>3. CASE pool'[k][v] # pool[k][v]
    <3>1. /\ pool[k][v].pc = "execute" /\ pool[k][v].job.kind = "answered"
          /\ pool'[k][v].job = pool[k][v].job
      BY <2>1, <2>3, PoolKeeps
    <3>2. Asks(pool[k][v].job, a)
      BY <2>1, <3>1 DEF Asks
    <3>3. QED BY <3>1, <3>2 DEF AsksPool
  <2>4. QED BY <2>2, <2>3
<1>3. ASSUME NEW a \in Commands!Answer, Given(a)' PROVE Given(a) \/ AsksPool(a)
  <2>1. CASE UNCHANGED response
    BY <1>3, <2>1 DEF Given
  <2>2. CASE Commands!SendAnswer(l, w)
    <3>1. PICK i \in DOMAIN response' : response'[i] = a
      BY <1>3 DEF Given
    <3>2. PICK b \in Commands!Answer :
            /\ b = [id |-> pool[l][w].job.id, call |-> pool[l][w].job.call]
            /\ response' = Append(response, b) /\ pool[l][w].pc = "answer"
      <4>1. pool[l][w].job \in Commands!Command
        BY <2>2, HasJob DEF Commands!SendAnswer, Command
      <4>2. [id |-> pool[l][w].job.id, call |-> pool[l][w].job.call] \in Commands!Answer
        BY <4>1 DEF Commands!Command, Commands!Answer
      <4>3. QED BY <2>2, <4>2 DEF Commands!SendAnswer
    <3>3. (i \in DOMAIN response /\ response[i] = a) \/ a = b
      BY <3>1, <3>2, AppendElements DEF Commands!TypeOK
    <3>4. CASE a = b
      <4>1. pool[l][w].job.id = a.id /\ pool[l][w].job.call = a.call
        BY <3>2, <3>4
      <4>2. QED BY <3>2, <4>1 DEF AsksPool
    <3>5. QED BY <3>3, <3>4 DEF Given
  <2>3. QED BY <2>1, <2>2 DEF Commands!StopWorker, Commands!Execute, Commands!queues
<1>4. \A a \in Commands!Answer : Open(a)' => Open(a)
  BY <1>1, <1>2, <1>3 DEF Open
<1>5. QED BY <1>1, <1>4, MatchingStays

LEMMA MatchingLcc ==
  ASSUME CommandTypes, Matching,
         \/ \E l \in Commands!Life : Commands!JoinPool(l) \/ Commands!ChildDies(l)
         \/ Commands!Close \/ Commands!SendExit \/ Commands!Terminate
         \/ Commands!Crash \/ Commands!Restart
  PROVE  Matching'
<1>1. CASE \E l \in Commands!Life : Commands!JoinPool(l) \/ Commands!ChildDies(l)
  <2>1. UNCHANGED <<lcc, life, caller, request, response, job_queue, pool>>
    BY <1>1 DEF Commands!JoinPool, Commands!ChildDies, Commands!queues
  <2>2. \A a \in Commands!Answer : Open(a)' => Open(a)
    BY <2>1 DEF Open, AsksPool, Given
  <2>3. QED BY <2>1, <2>2, MatchingStays
<1>2. CASE Commands!Close \/ Commands!SendExit \/ Commands!Terminate \/ Commands!Crash
  BY <1>2 DEF Commands!Close, Commands!SendExit, Commands!Terminate, Commands!Crash, Matching
<1>3. CASE Commands!Restart
  <2>1. life' # 1
    BY <1>3 DEF Commands!Restart, CommandTypes, Commands!TypeOK, Commands!Life
  <2>2. QED BY <2>1 DEF Matching
<1>4. QED BY <1>1, <1>2, <1>3

LEMMA MatchingStep ==
  ASSUME CommandTypes, Placement, Matching, Commands!Next
  PROVE  Matching'
<1>1. Commands!TypeOK
  BY DEF CommandTypes
<1>2. QED
  BY <1>1, MatchingSend, MatchingReceive, MatchingCall, MatchingReader, MatchingTake,
     MatchingPool, MatchingLcc
  DEF Commands!Next, Commands!CallerStep, Commands!ChildStep, Commands!WorkerStep

-----------------------------------------------------------------------------
LEMMA LifeGoesOn == ASSUME Commands!Next PROVE life' = life \/ life' = life + 1
<1> USE DEF Commands!queues, Commands!children
<1>1. ASSUME NEW c \in Caller,
             Commands!CallerStep(c) \/ (\E kind \in Commands!Kind : Commands!Call(c, kind))
      PROVE  life' = life
  BY <1>1 DEF Commands!CallerStep, Commands!Call, Commands!Send, Commands!ReceiveAnswer
<1>2. ASSUME NEW l \in Commands!Life, Commands!ChildStep(l) \/ Commands!ChildDies(l)
      PROVE  life' = life
  BY <1>2 DEF Commands!ChildStep, Commands!ReceiveCommand, Commands!JoinPool, Commands!ChildDies
<1>3. ASSUME NEW l \in Commands!Life, NEW w \in Pool,
             Commands!WorkerStep(l, w) \/ Commands!Execute(l, w)
      PROVE  life' = life
  BY <1>3 DEF Commands!WorkerStep, Commands!TakeJob, Commands!StopWorker, Commands!SendAnswer,
              Commands!Execute
<1>4. CASE Commands!Close \/ Commands!SendExit \/ Commands!Terminate \/ Commands!Crash
             \/ Commands!Restart
  BY <1>4 DEF Commands!Close, Commands!SendExit, Commands!Terminate, Commands!Crash,
              Commands!Restart
<1>5. QED BY <1>1, <1>2, <1>3, <1>4 DEF Commands!Next

AnswersInv == CommandTypes /\ (life = 1 => Ids) /\ Placement /\ Matching

LEMMA AnswersStep == AnswersInv /\ [Commands!Next]_(Commands!vars) => AnswersInv'
<1> SUFFICES ASSUME AnswersInv, [Commands!Next]_(Commands!vars) PROVE AnswersInv'
  OBVIOUS
<1>1. CASE Commands!Next
  <2>1. CommandTypes' /\ Placement' /\ Matching'
    BY <1>1, CommandTypesStep, PlacementStep, MatchingStep DEF AnswersInv, CommandTypes
  <2>2. ASSUME life' = 1 PROVE Ids'
    <3>1. life = 1
      BY <1>1, <2>2, LifeGoesOn DEF AnswersInv, CommandTypes, Commands!TypeOK, Commands!Life
    <3>2. QED BY <1>1, <2>2, <3>1, IdsStep DEF AnswersInv, CommandTypes
  <2>3. QED BY <2>1, <2>2 DEF AnswersInv
<1>2. CASE UNCHANGED Commands!vars
  <2>1. UNCHANGED <<lcc, life, current_command_id, calls, caller, request, response, reader,
                    job_queue, pool, executed>>
    BY <1>2 DEF Commands!vars, Commands!queues, Commands!children
  <2>2. CommandTypes' /\ (life' = 1 => Ids')
    BY <2>1 DEF AnswersInv, CommandTypes, Commands!TypeOK, Ids, Commands!Got
  <2>3. Placement'
    <3>1. PICK where : Placed(where)
      BY DEF AnswersInv, Placement
    <3>2. Placed(where)'
      BY <2>1, <3>1 DEF Placed
    <3>3. Once'
      BY <2>1 DEF AnswersInv, Placement, Once
    <3>4. QED BY <3>2, <3>3 DEF Placement
  <2>4. Matching'
    <3>1. \A a \in Commands!Answer : Open(a)' => Open(a)
      BY <2>1 DEF Open, AsksPool, Given
    <3>2. QED BY <2>1, <3>1, MatchingStays DEF AnswersInv
  <2>5. QED BY <2>2, <2>3, <2>4 DEF AnswersInv
<1>3. QED BY <1>1, <1>2

LEMMA AnswersSafe == AnswersInv => AnswersMatch
<1> SUFFICES ASSUME AnswersInv PROVE AnswersMatch
  OBVIOUS
<1>1. Commands!TypeOK
  BY DEF AnswersInv, CommandTypes
<1>2. Commands!OwnAnswer
  <2>1. ASSUME life = 1, NEW c \in Caller, Commands!Got(c)
        PROVE  \/ caller[c].got = caller[c].job.call
               \/ caller[c].got > caller[c].job.call + MaxId
               \/ caller[c].job.call > caller[c].got + MaxId
    <3>1. /\ <<caller[c].job.call, caller[c].job.id>> \in Numbered
          /\ <<caller[c].got, caller[c].job.id>> \in Numbered
      BY <2>1 DEF AnswersInv, Ids
    <3>2. QED BY <3>1, SameId
  <2>2. QED BY <2>1 DEF Commands!OwnAnswer
<1>3. Commands!AnswersAreAwaited
  <2>1. ASSUME life = 1, lcc = "up", NEW i \in DOMAIN response
        PROVE  \E c \in Caller : caller[c].pc = "wait" /\ caller[c].job.id = response[i].id
    <3>1. PICK f : Matched(f)
      BY <2>1 DEF AnswersInv, Matching
    <3>2. response[i] \in Commands!Answer /\ Open(response[i])
      BY <1>1, CallsInRange DEF Open, Given
    <3>3. QED BY <3>1, <3>2 DEF Matched
  <2>2. QED BY <2>1 DEF Commands!AnswersAreAwaited
<1>4. QED BY <1>1, <1>2, <1>3 DEF AnswersMatch

(* A caller in the first LCC gets the answer to its own command unless the *)
(* counter of the ids has gone round in between, and every answer in the   *)
(* queue has somebody who waits for its id, for any number of callers,     *)
(* workers, commands and lives and any size of the queues.                 *)
THEOREM AnswersCorrect == Commands!Spec => []AnswersMatch
<1>1. Commands!Init => AnswersInv
  BY CommandTypesInit, IdsInit, PlacementInit, MatchingInit DEF AnswersInv
<1>2. QED BY <1>1, AnswersStep, AnswersSafe, PTL DEF Commands!Spec

-----------------------------------------------------------------------------
(* ObstacleSimulation                                                      *)

(* Multiples of a positive number are as far apart as their factors.       *)
LEMMA Multiples ==
  ASSUME NEW a \in Int, NEW b \in Int, NEW size \in Nat \ {0}
  PROVE  /\ a * size \in Int /\ (a + 1) * size = a * size + size
         /\ a <= b => a * size <= b * size
         /\ a < b => a * size < b * size
<1>1. (a + 1) * size = a * size + size
  BY SMTT(30)
<1>2. \A c, d \in Int : c <= d => c * size <= d * size
  <2> SUFFICES ASSUME NEW c \in Int, NEW d \in Int, c <= d PROVE c * size <= d * size
    OBVIOUS
  <2>1. (d - c) * size >= 0
    <3>1. d - c \in Nat
      OBVIOUS
    <3>2. \A m \in Nat : m * size >= 0
      BY SMTT(30)
    <3> QED
      BY <3>1, <3>2
  <2>2. d * size = c * size + (d - c) * size
    BY SMTT(30)
  <2>3. c * size \in Int /\ d * size \in Int /\ (d - c) * size \in Int
    OBVIOUS
  <2> QED
    BY <2>1, <2>2, <2>3
<1>3. a * size \in Int /\ b * size \in Int /\ (a + 1) * size \in Int
  OBVIOUS
<1>4. a < b => (a + 1) * size <= b * size
  BY <1>2
<1> QED
  BY <1>1, <1>2, <1>3, <1>4

(* The time of a point of an obstacle.                                     *)
At(i) == (i - 1) * time_step_size

LEMMA Instants ==
  ASSUME NEW i \in Int, NEW j \in Int
  PROVE  /\ At(i) \in Int /\ At(i + 1) = At(i) + time_step_size /\ At(1) = 0
         /\ i <= j => At(i) <= At(j)
         /\ i < j => At(i) < At(j)
<1>1. time_step_size \in Nat \ {0}
  BY ScenarioAssumption
<1>2. ((i - 1) + 1) = i /\ (i + 1) - 1 = i /\ i - 1 \in Int /\ j - 1 \in Int /\ 1 - 1 = 0
  OBVIOUS
<1>3. 0 * time_step_size = 0
  BY <1>1
<1> QED
  BY <1>1, <1>2, <1>3, Multiples DEF At

LEMMA PointTimes ==
  ASSUME scenario \in Scenarios \cup {<<>>}, NEW o \in Obstacles!Obstacle
  PROVE  /\ Obstacles!Size(o) \in Nat /\ Obstacles!Size(o) >= 1
         /\ \A i \in 1 .. Obstacles!Size(o) :
              Obstacles!Times(o)[i] = i - 1 /\ Obstacles!Times(o)[i] * time_step_size = At(i)
<1>1. scenario \in Scenarios /\ o \in DOMAIN scenario
  BY DEF Obstacles!Obstacle
<1>2. /\ Len(scenario[o]) \in Nat /\ Len(scenario[o]) >= 1
      /\ \A i \in 1 .. Len(scenario[o]) : scenario[o][i] = i - 1
  BY <1>1, ScenarioAssumption
<1>3. Obstacles!Times(o) = scenario[o] /\ Obstacles!Size(o) = Len(scenario[o])
  BY DEF Obstacles!Size, Obstacles!Times
<1>4. ASSUME NEW i \in 1 .. Obstacles!Size(o)
      PROVE  /\ Obstacles!Times(o)[i] = i - 1
             /\ Obstacles!Times(o)[i] * time_step_size = At(i)
  <2>1. Obstacles!Times(o)[i] = i - 1
    BY <1>2, <1>3
  <2> QED
    BY <2>1 DEF At
<1> QED
  BY <1>2, <1>3, <1>4

(* The next point is the first that is still to come, if there is one.     *)
LEMMA Advancing ==
  ASSUME scenario \in Scenarios \cup {<<>>}, NEW o \in Obstacles!Obstacle, NEW t \in Nat,
         current_trajectory[o] \in 1 .. Obstacles!Size(o),
         \A i \in 1 .. current_trajectory[o] - 1 : At(i) <= t
  PROVE  LET i == Obstacles!Advance(o, t)
         IN /\ i \in 1 .. Obstacles!Size(o)
            /\ i = Obstacles!Size(o) \/ t < At(i)
            /\ \A j \in 1 .. i - 1 : At(j) <= t
<1> DEFINE n == Obstacles!Size(o)
           c == current_trajectory[o]
           P(i) == /\ i = n \/ t < Obstacles!Times(o)[i] * time_step_size
                   /\ \A j \in c .. i - 1 : t >= Obstacles!Times(o)[j] * time_step_size
<1>1. n \in Nat /\ c \in 1 .. n
  BY PointTimes
<1>2. \A i \in 1 .. n : Obstacles!Times(o)[i] * time_step_size = At(i)
  BY PointTimes
<1>3. \E i \in c .. n : P(i)
  <2> DEFINE q == t \div time_step_size
             r == t % time_step_size
  <2>1. time_step_size \in Nat \ {0}
    BY ScenarioAssumption
  <2>2. q \in Int /\ r \in 0 .. time_step_size - 1 /\ t = time_step_size * q + r
    BY <2>1
  <2>3. q * time_step_size <= t /\ t < q * time_step_size + time_step_size
    <3>1. q * time_step_size = time_step_size * q /\ q * time_step_size \in Int
      BY <2>1, <2>2, SMTT(30)
    <3> HIDE DEF q, r
    <3> QED
      BY <2>1, <2>2, <3>1
  <2> HIDE DEF q, r
  <2>4. At(q + 1) <= t /\ t < At(q + 2)
    <3>1. At(q + 1) = q * time_step_size
      <4>1. (q + 1) - 1 = q
        BY <2>2
      <4> QED
        BY <4>1 DEF At
    <3>2. q + 1 \in Int /\ (q + 1) + 1 = q + 2
      BY <2>2
    <3>3. At(q + 2) = At(q + 1) + time_step_size
      BY <3>2, Instants
    <3> QED
      BY <2>3, <3>1, <3>3
  <2> DEFINE e == IF c >= q + 2 THEN c ELSE IF q + 2 <= n THEN q + 2 ELSE n
  <2>5. e \in c .. n /\ (e = n \/ e >= q + 2) /\ (e > c => e - 1 <= q + 1)
    BY <1>1, <2>2
  <2> HIDE DEF e
  <2>6. e = n \/ t < At(e)
    <3>1. CASE e >= q + 2
      <4>1. At(q + 2) <= At(e) /\ At(e) \in Int /\ At(q + 2) \in Int
        BY <1>1, <2>2, <2>5, <3>1, Instants
      <4> QED
        BY <2>4, <4>1
    <3> QED
      BY <2>5, <3>1
  <2>7. ASSUME NEW j \in c .. e - 1 PROVE At(j) <= t
    <3>1. j \in Int /\ q + 1 \in Int /\ j <= q + 1
      BY <1>1, <2>2, <2>5
    <3>2. At(j) <= At(q + 1) /\ At(j) \in Int /\ At(q + 1) \in Int
      BY <3>1, Instants
    <3> QED
      BY <2>4, <3>2
  <2>8. e \in 1 .. n /\ \A j \in c .. e - 1 : j \in 1 .. n /\ At(j) \in Int
    <3>1. e \in 1 .. n /\ \A j \in c .. e - 1 : j \in 1 .. n
      BY <1>1, <2>5
    <3>2. \A j \in c .. e - 1 : j \in Int
      BY <1>1, <2>5
    <3>3. \A j \in Int : At(j) \in Int
      BY Instants
    <3> QED
      BY <3>1, <3>2, <3>3
  <2>9. P(e)
    BY <1>2, <2>6, <2>7, <2>8
  <2> QED
    BY <2>5, <2>9
<1> DEFINE a == Obstacles!Advance(o, t)
<1>4. a \in c .. n /\ P(a)
  BY <1>3 DEF Obstacles!Advance
<1> HIDE DEF a
<1>5. a \in 1 .. n
  BY <1>1, <1>4
<1>6. a = n \/ t < At(a)
  BY <1>2, <1>4, <1>5
<1>7. ASSUME NEW j \in 1 .. a - 1 PROVE At(j) <= t
  <2>1. j \in 1 .. c - 1 \/ j \in c .. a - 1
    BY <1>1, <1>5
  <2>2. j \in 1 .. n
    BY <1>1, <1>5
  <2>3. At(j) \in Int
    BY <2>2, Instants
  <2> QED
    BY <1>2, <1>4, <2>1, <2>2, <2>3
<1> QED
  BY <1>5, <1>6, <1>7 DEF a
Point == [index : Nat, t : Nat]

(* A sequence that is defined place by place.                              *)
LEMMA PlaceByPlace ==
  ASSUME NEW f, NEW n \in Nat, DOMAIN f = 1 .. n, f = [k \in 1 .. n |-> f[k]],
         \A k \in 1 .. n : f[k] \in Point
  PROVE  f \in Seq(Point) /\ Len(f) = n
<1>1. f \in [1 .. n -> Point]
  OBVIOUS
<1> QED
  BY <1>1

(* The points of a trajectory, those of the scenario and the last one as   *)
(* often as it takes.                                                      *)
LEMMA TrajectoryPoints ==
  ASSUME scenario \in Scenarios \cup {<<>>}, NEW o \in Obstacles!Obstacle, NEW t \in Nat,
         NEW current \in 1 .. Obstacles!Size(o)
  PROVE  LET v == Obstacles!Trajectory(o, current, t)
             start == IF current > 1 THEN current - 1 ELSE 1
             n == Obstacles!Size(o)
         IN \E c \in Nat :
              /\ v \in Seq(Point)
              /\ \A k \in 1 .. c : v[k].t = At(start + k - 1)
              /\ \A k \in c + 1 .. Len(v) : v[k].t = t + (k - 1) * time_step_size
              /\ Len(v) >= 2
              /\ Len(v) >= c
              /\ c > 0 => t < At(n)
<1> DEFINE n == Obstacles!Size(o)
           start == IF current > 1 THEN current - 1 ELSE 1
           last == IF t < Obstacles!Times(o)[n] * time_step_size
                   THEN Obstacles!Min2(start + future_time_steps - 1, n - 2) ELSE 0
           c == IF last - start + 1 > 0 THEN last - start + 1 ELSE 0
           P == [k \in 1 .. last - start + 1 |->
                  [index |-> start + k - 1,
                   t |-> Obstacles!Times(o)[start + k - 1] * time_step_size]]
           m == IF c < future_time_steps /\ c < Final THEN Final - c ELSE 0
           F == IF Len(P) < future_time_steps THEN Obstacles!FinalPoints(o, Len(P), t) ELSE <<>>
<1>0. /\ n \in Nat /\ n >= 1 /\ future_time_steps \in Nat /\ future_time_steps >= 2
      /\ Final \in Nat /\ Final >= 2 /\ time_step_size \in Nat /\ time_step_size > 0
  BY PointTimes, ScenarioAssumption
<1>1. \A i \in 1 .. n : Obstacles!Times(o)[i] * time_step_size = At(i) /\ At(i) \in Nat
  <2>1. \A i \in 1 .. n : Obstacles!Times(o)[i] * time_step_size = At(i)
    BY PointTimes
  <2>2. ASSUME NEW i \in 1 .. n PROVE At(i) \in Nat
    <3>1. i \in Int /\ 1 \in Int /\ 1 <= i
      BY <1>0
    <3>2. At(i) \in Int /\ At(1) = 0 /\ At(1) <= At(i)
      BY <3>1, Instants
    <3> QED
      BY <3>2
  <2> QED
    BY <2>1, <2>2
<1>2. start \in 1 .. n
  BY <1>0
<1>3. last \in Int /\ last <= n /\ (last > 0 => t < At(n))
      /\ last <= start + future_time_steps - 1
  <2>1. Obstacles!Times(o)[n] * time_step_size = At(n) /\ At(n) \in Nat
    BY <1>0, <1>1
  <2>2. Obstacles!Min2(start + future_time_steps - 1, n - 2) \in Int
        /\ Obstacles!Min2(start + future_time_steps - 1, n - 2) <= n - 2
        /\ Obstacles!Min2(start + future_time_steps - 1, n - 2) <= start + future_time_steps - 1
    BY <1>0, <1>2 DEF Obstacles!Min2
  <2> QED
    BY <1>0, <1>2, <2>1, <2>2
<1> HIDE DEF start, last, n
<1>4. c \in Nat /\ c <= future_time_steps /\ 1 .. last - start + 1 = 1 .. c
      /\ (c > 0 => last > 0) /\ m \in Nat
  BY <1>0, <1>2, <1>3
<1>5. P \in Seq(Point) /\ Len(P) = c /\ \A k \in 1 .. c : P[k].t = At(start + k - 1)
  <2>1. ASSUME NEW k \in 1 .. c
        PROVE  start + k - 1 \in 1 .. n
    BY <1>0, <1>2, <1>3, <1>4
  <2>2. ASSUME NEW k \in 1 .. c
        PROVE  P[k] \in Point /\ P[k].t = At(start + k - 1)
    <3>1. P[k] = [index |-> start + k - 1,
                  t |-> Obstacles!Times(o)[start + k - 1] * time_step_size]
      BY <1>4
    <3>2. Obstacles!Times(o)[start + k - 1] * time_step_size = At(start + k - 1)
          /\ At(start + k - 1) \in Nat
      BY <1>1, <2>1
    <3>3. start + k - 1 \in Nat
      BY <1>0, <2>1
    <3> QED
      BY <3>1, <3>2, <3>3 DEF Point
  <2>3. DOMAIN P = 1 .. c /\ P = [k \in 1 .. c |-> P[k]]
    BY <1>4
  <2> HIDE DEF P, c
  <2> QED
    BY <1>4, <2>2, <2>3, PlaceByPlace
<1>6. F \in Seq(Point) /\ Len(F) = m
      /\ \A k \in 1 .. m : F[k].t = t + (c + k - 1) * time_step_size
  <2>1. CASE m = 0
    <3>1. CASE c < future_time_steps
      <4>1. F = [k \in 1 .. Final - c |-> [index |-> n, t |-> t + (c + k - 1) * time_step_size]]
        BY <1>5, <3>1 DEF Obstacles!FinalPoints, n
      <4>2. 1 .. Final - c = 1 .. 0
        BY <1>0, <1>4, <2>1, <3>1
      <4>3. DOMAIN F = 1 .. 0 /\ F = [k \in 1 .. 0 |-> F[k]]
        BY <4>1, <4>2
      <4> HIDE DEF F
      <4>4. F \in Seq(Point) /\ Len(F) = 0
        BY <4>3, PlaceByPlace
      <4> QED
        BY <2>1, <4>4
    <3>2. CASE ~(c < future_time_steps)
      <4>1. F = <<>>
        BY <1>5, <3>2
      <4> HIDE DEF F, m
      <4>2. <<>> \in Seq(Point) /\ Len(<<>>) = 0 /\ 1 .. m = {}
        BY <2>1
      <4> QED
        BY <2>1, <4>1, <4>2
    <3> QED
      BY <3>1, <3>2
  <2>2. CASE m # 0
    <3>1. c < future_time_steps /\ m = Final - c
      BY <2>2
    <3>2. F = [k \in 1 .. m |-> [index |-> n, t |-> t + (c + k - 1) * time_step_size]]
      BY <1>5, <3>1 DEF Obstacles!FinalPoints, n
    <3>3. ASSUME NEW k \in 1 .. m
          PROVE  F[k] \in Point /\ F[k].t = t + (c + k - 1) * time_step_size
      <4>1. c + k - 1 \in Nat
        BY <1>4
      <4>2. (c + k - 1) * time_step_size \in Nat
        BY <1>0, <4>1, SMTT(30)
      <4>3. t + (c + k - 1) * time_step_size \in Nat /\ n \in Nat
        BY <1>0, <4>2
      <4> HIDE DEF F, m, c
      <4>4. F[k] = [index |-> n, t |-> t + (c + k - 1) * time_step_size]
        BY <3>2
      <4> QED
        BY <4>3, <4>4 DEF Point
    <3>4. DOMAIN F = 1 .. m /\ F = [k \in 1 .. m |-> F[k]]
      BY <3>2
    <3> HIDE DEF F, m
    <3> QED
      BY <1>4, <3>3, <3>4, PlaceByPlace
  <2> QED
    BY <2>1, <2>2
<1>7. Obstacles!Trajectory(o, current, t) = P \o F
  BY DEF Obstacles!Trajectory, start, last, n
<1> DEFINE v == P \o F
<1>8. (c < Final => m > 0 \/ c >= 2) /\ c + m >= 2 /\ c + m \in Nat
  BY <1>0, <1>4
<1> HIDE DEF P, F, c, m
<1>9. /\ v \in Seq(Point) /\ Len(v) = c + m
      /\ \A k \in 1 .. c : v[k] = P[k]
      /\ \A k \in c + 1 .. c + m : v[k] = F[k - c]
  <2>1. /\ v \in Seq(Point) /\ Len(v) = Len(P) + Len(F)
        /\ \A k \in 1 .. Len(P) + Len(F) :
             v[k] = IF k <= Len(P) THEN P[k] ELSE F[k - Len(P)]
    BY <1>5, <1>6, ConcatProperties
  <2> HIDE DEF v
  <2> QED
    BY <1>4, <1>5, <1>6, <2>1
<1>10. ASSUME NEW k \in c + 1 .. c + m PROVE v[k].t = t + (k - 1) * time_step_size
  <2>1. k - c \in 1 .. m /\ c + (k - c) - 1 = k - 1
    BY <1>4
  <2> QED
    BY <1>6, <1>9, <2>1
<1>11. \A k \in 1 .. c : v[k].t = At(start + k - 1)
  BY <1>5, <1>9
<1>12. c > 0 => t < At(n)
  BY <1>3, <1>4
<1>13. Len(v) >= 2 /\ Len(v) >= c
  BY <1>4, <1>8, <1>9
<1> HIDE DEF v
<1> QED
  BY <1>4, <1>7, <1>9, <1>10, <1>11, <1>12, <1>13 DEF v, start, n

(* A vehicle can follow the trajectory that it is sent.                    *)
LEMMA TrajectoryFits ==
  ASSUME scenario \in Scenarios \cup {<<>>}, NEW o \in Obstacles!Obstacle, NEW t \in Nat,
         NEW current \in 1 .. Obstacles!Size(o),
         current = Obstacles!Size(o) \/ t < At(current),
         \A i \in 1 .. current - 1 : At(i) <= t
  PROVE  LET v == Obstacles!Trajectory(o, current, t)
         IN /\ v \in Seq(Point)
            /\ \A i \in 1 .. Len(v) - 1 : v[i].t < v[i + 1].t
            /\ v[1].t <= t /\ t < v[Len(v)].t
<1> DEFINE n == Obstacles!Size(o)
           start == IF current > 1 THEN current - 1 ELSE 1
           v == Obstacles!Trajectory(o, current, t)
<1>1. PICK c \in Nat :
        /\ v \in Seq(Point)
        /\ \A k \in 1 .. c : v[k].t = At(start + k - 1)
        /\ \A k \in c + 1 .. Len(v) : v[k].t = t + (k - 1) * time_step_size
        /\ Len(v) >= 2
        /\ Len(v) >= c
        /\ c > 0 => t < At(n)
  BY TrajectoryPoints
<1>2. /\ n \in Nat /\ n >= 1 /\ time_step_size \in Nat /\ time_step_size > 0
      /\ current \in 1 .. n
  BY PointTimes, ScenarioAssumption
<1>3. Len(v) \in Nat
  BY <1>1
<1> HIDE DEF v, n
<1>4. start \in Nat /\ start >= 1 /\ start <= current /\ start + 1 >= current
  BY <1>2
<1>5. At(start) <= t /\ At(start) \in Int
  <2>1. At(1) = 0 /\ At(start) \in Int
    <3>1. start \in Int /\ 1 \in Int
      BY <1>4
    <3> HIDE DEF start
    <3> QED
      BY <3>1, Instants
  <2>2. start \in 1 .. current - 1 \/ start = 1
    BY <1>2
  <2> QED
    BY <2>1, <2>2
<1> HIDE DEF start
<1>6. \A k \in Int : k * time_step_size \in Int
  BY <1>2
<1>7. \A k \in Int : At(start + k - 1) \in Int /\ At(start + k - 1) = At(start) + (k - 1) * time_step_size
  <2> SUFFICES ASSUME NEW k \in Int
               PROVE  /\ At(start + k - 1) \in Int
                      /\ At(start + k - 1) = At(start) + (k - 1) * time_step_size
    OBVIOUS
  <2>1. (start + k - 1) - 1 = (start - 1) + (k - 1) /\ start - 1 \in Int /\ k - 1 \in Int
    BY <1>4
  <2>2. ((start - 1) + (k - 1)) * time_step_size
          = (start - 1) * time_step_size + (k - 1) * time_step_size
    BY <1>2, <2>1, SMTT(30)
  <2>3. start + k - 1 \in Int
    BY <1>4
  <2>4. At(start + k - 1) = ((start - 1) + (k - 1)) * time_step_size
    BY <2>1 DEF At
  <2>5. At(start) = (start - 1) * time_step_size
    BY DEF At
  <2>6. At(start + k - 1) \in Int
    BY <2>3, Instants
  <2> QED
    BY <2>2, <2>4, <2>5, <2>6
<1>8. \A k \in 1 .. c : v[k].t = At(start) + (k - 1) * time_step_size
  BY <1>1, <1>7
<1>9. \A k \in Int : (k + 1 - 1) * time_step_size = (k - 1) * time_step_size + time_step_size
  <2> SUFFICES ASSUME NEW k \in Int
               PROVE  (k + 1 - 1) * time_step_size = (k - 1) * time_step_size + time_step_size
    OBVIOUS
  <2> QED
    BY <1>2, Multiples
<1>10. ASSUME NEW i \in 1 .. Len(v) - 1 PROVE v[i].t < v[i + 1].t
  <2>1. i \in Int /\ (i - 1) * time_step_size \in Int
    BY <1>3, <1>6
  <2>2. (i + 1 - 1) * time_step_size = (i - 1) * time_step_size + time_step_size
    BY <1>9, <2>1
  <2>3. CASE i + 1 <= c
    <3>1. i \in 1 .. c /\ i + 1 \in 1 .. c
      BY <1>3, <2>3
    <3>2. v[i].t = At(start) + (i - 1) * time_step_size
          /\ v[i + 1].t = At(start) + (i + 1 - 1) * time_step_size
      BY <1>8, <3>1
    <3> QED
      BY <1>2, <1>5, <2>1, <2>2, <3>2
  <2>4. CASE i = c
    <3>1. i \in 1 .. c /\ i + 1 \in c + 1 .. Len(v)
      BY <1>3, <2>4
    <3>2. v[i].t = At(start) + (i - 1) * time_step_size
          /\ v[i + 1].t = t + (i + 1 - 1) * time_step_size
      BY <1>1, <1>8, <3>1
    <3> QED
      BY <1>2, <1>5, <2>1, <2>2, <3>2
  <2>5. CASE i > c
    <3>1. i \in c + 1 .. Len(v) /\ i + 1 \in c + 1 .. Len(v)
      BY <1>3, <2>5
    <3>2. v[i].t = t + (i - 1) * time_step_size
          /\ v[i + 1].t = t + (i + 1 - 1) * time_step_size
      BY <1>1, <3>1
    <3> QED
      BY <1>2, <2>1, <2>2, <3>2
  <2> QED
    BY <1>3, <2>3, <2>4, <2>5
<1>11. v[1].t <= t
  <2>1. (1 - 1) * time_step_size = 0
    BY <1>2
  <2>2. CASE c > 0
    <3>1. v[1].t = At(start) + (1 - 1) * time_step_size
      BY <1>8, <2>2
    <3> QED
      BY <1>5, <2>1, <3>1
  <2>3. CASE c = 0
    <3>1. v[1].t = t + (1 - 1) * time_step_size
      BY <1>1, <1>3, <2>3
    <3> QED
      BY <2>1, <3>1
  <2> QED
    BY <2>2, <2>3
<1>12. t < v[Len(v)].t
  <2>1. CASE Len(v) = c
    <3>1. v[Len(v)].t = At(start + c - 1) /\ c >= 2 /\ t < At(n)
      BY <1>1, <1>3, <2>1
    <3>2. t < At(current)
      BY <3>1 DEF n
    <3>3. current <= start + c - 1 /\ current \in Int /\ start + c - 1 \in Int
      BY <1>2, <1>4, <3>1
    <3>4. At(current) <= At(start + c - 1) /\ At(current) \in Int /\ At(start + c - 1) \in Int
      BY <3>3, Instants
    <3> QED
      BY <3>1, <3>2, <3>4
  <2>2. CASE Len(v) > c
    <3>1. v[Len(v)].t = t + (Len(v) - 1) * time_step_size
      BY <1>1, <1>3, <2>2
    <3>2. (Len(v) - 1) * time_step_size >= 1
      <4>1. Len(v) - 1 \in Int /\ Len(v) - 1 >= 1
        BY <1>1, <1>3
      <4>2. 1 * time_step_size <= (Len(v) - 1) * time_step_size
        BY <1>2, <4>1, Multiples
      <4>3. (Len(v) - 1) * time_step_size \in Int
        BY <1>6, <4>1
      <4> QED
        BY <1>2, <4>2, <4>3
    <3>3. (Len(v) - 1) * time_step_size \in Int
      BY <1>3, <1>6
    <3> QED
      BY <3>1, <3>2, <3>3
  <2> QED
    BY <1>1, <1>3, <2>1, <2>2
<1> QED
  BY <1>1, <1>10, <1>11, <1>12 DEF v

-----------------------------------------------------------------------------
(* The inductive invariant of ObstacleSimulation.                          *)

(* The obstacles of all scenarios.                                         *)
Cars == UNION {DOMAIN file : file \in Scenarios}

UiTypes ==
  /\ \A o \in DOMAIN toggles : toggles[o] \in {"Simulated", "On"}
  /\ load_obstacle_list \in BOOLEAN /\ preview_enabled \in BOOLEAN /\ o_deployed \in BOOLEAN
  /\ clicks \in 0 .. Clicks

ObsTypes ==
  /\ scenario \in Scenarios \cup {<<>>}
  /\ simulation_timer \in {"none", "wait", "run", "ended"} /\ standby_timer \in BOOLEAN
  /\ now \in -1 .. LastTime
  /\ \A o \in Obstacles!Obstacle : current_trajectory[o] \in 1 .. Obstacles!Size(o)
  /\ \A o \in Obstacles!Obstacle : o_shown[o] \in 0 .. Obstacles!Size(o)
  /\ simulated_obstacle_states \in [Obstacles!Obstacle -> {"Simulated", "On"}]
  /\ vehicle \in [Cars -> Seq(Point)]

(* Somebody watches what is played, and before that everyone is where he   *)
(* begins.                                                                 *)
Watched ==
  /\ simulation_timer # "none" => ~standby_timer /\ (preview_enabled \/ o_deployed)
  /\ simulation_timer \in {"none", "wait"} =>
       \A o \in Obstacles!Obstacle : current_trajectory[o] = 1 /\ o_shown[o] = 0

(* Only who is on has a trajectory, and only since the run began.          *)
Driving ==
  \A o \in Cars : vehicle[o] # <<>> =>
    o \in Obstacles!On /\ simulation_timer \notin {"none", "wait"}

(* The current points lie at the time of the run or behind it.             *)
Current ==
  simulation_timer = "run" => \A o \in Obstacles!Obstacle :
    /\ \A i \in 1 .. current_trajectory[o] - 1 : At(i) <= now
    /\ \/ o_shown[o] = 0
       \/ /\ o \notin Obstacles!On /\ o_shown[o] = current_trajectory[o]
          /\ o_shown[o] = Obstacles!Size(o) \/ now < At(o_shown[o])

ObsInv ==
  ObsTypes /\ UiTypes /\ Watched /\ Driving /\ Current /\ Obstacles!TrajectoryDrivable

LEMMA ObsSafe == ObsInv => ObstaclesPlayed
<1> SUFFICES ASSUME ObsInv PROVE ObstaclesPlayed
  OBVIOUS
<1> USE DEF ObsInv
<1>1. Obstacles!TypeOK
  <2>1. ASSUME NEW o \in DOMAIN vehicle, NEW i \in 1 .. Len(vehicle[o])
        PROVE  vehicle[o][i] \in [index : Nat, t : Nat]
    <3>1. vehicle[o] \in Seq(Point)
      BY DEF ObsTypes
    <3> QED
      BY <3>1, ElementOfSeq DEF Point
  <2>2. {load_obstacle_list, preview_enabled, o_deployed} \subseteq BOOLEAN
    BY Zenon DEF UiTypes
  <2> QED
    BY <2>1, <2>2 DEF ObsTypes, UiTypes, Obstacles!TypeOK
<1>2. Obstacles!SegmentMatchesTime
  <2>1. ASSUME simulation_timer = "run", NEW o \in Obstacles!Obstacle, o_shown[o] > 0
        PROVE  /\ \A i \in 1 .. o_shown[o] - 1 : Obstacles!Times(o)[i] * time_step_size <= now
               /\ \/ o_shown[o] = Obstacles!Size(o)
                  \/ now < Obstacles!Times(o)[o_shown[o]] * time_step_size
    <3>1. /\ \A i \in 1 .. o_shown[o] - 1 : At(i) <= now
          /\ o_shown[o] = Obstacles!Size(o) \/ now < At(o_shown[o])
      BY <2>1 DEF Current
    <3>2. o_shown[o] \in 1 .. Obstacles!Size(o) /\ Obstacles!Size(o) \in Nat
          /\ \A i \in 1 .. Obstacles!Size(o) : Obstacles!Times(o)[i] * time_step_size = At(i)
      BY <2>1, PointTimes DEF ObsTypes
    <3> QED
      BY <3>1, <3>2
  <2> QED
    BY <2>1 DEF Obstacles!SegmentMatchesTime
<1>3. Obstacles!OneTimerShows
  BY DEF Watched, Obstacles!OneTimerShows
<1>4. Obstacles!NothingLeftToDrive
  BY DEF ObsTypes, Driving, Obstacles!NothingLeftToDrive
<1> QED
  BY <1>1, <1>2, <1>3, <1>4 DEF ObstaclesPlayed

LEMMA Longer ==
  ASSUME NEW file \in Scenarios \cup {<<>>}, NEW o \in DOMAIN file
  PROVE  Len(file[o]) \in Nat /\ Len(file[o]) >= 1
<1>1. file \in Scenarios
  OBVIOUS
<1>2. file[o] \in Seq(Nat) /\ Len(file[o]) >= 1
  BY <1>1, ScenarioAssumption
<1> QED
  BY <1>2

LEMMA ObsInit == Obstacles!Init => ObsInv
<1> SUFFICES ASSUME Obstacles!Init PROVE ObsInv
  OBVIOUS
<1> USE DEF Obstacles!Init, Obstacles!All
<1>1. ASSUME NEW o \in Obstacles!Obstacle
      PROVE  /\ current_trajectory[o] = 1 /\ o_shown[o] = 0
             /\ simulated_obstacle_states[o] = "Simulated"
             /\ Obstacles!Size(o) \in Nat /\ Obstacles!Size(o) >= 1
  BY Longer DEF Obstacles!Obstacle, Obstacles!Size, Obstacles!Times
<1>2. vehicle = [o \in Cars |-> <<>>]
  BY DEF Cars
<1>3. <<>> \in Seq(Point)
  OBVIOUS
<1>4. ObsTypes
  <2>1. -1 \in -1 .. LastTime
    BY ScenarioAssumption
  <2>2. simulated_obstacle_states \in [Obstacles!Obstacle -> {"Simulated", "On"}]
    OBVIOUS
  <2>3. vehicle \in [Cars -> Seq(Point)]
    BY <1>2, <1>3
  <2> QED
    BY <1>1, <2>1, <2>2, <2>3 DEF ObsTypes
<1>5. UiTypes
  <2>1. \A o \in DOMAIN toggles : toggles[o] \in {"Simulated", "On"}
    OBVIOUS
  <2>2. clicks \in 0 .. Clicks
    BY ScenarioAssumption
  <2>3. load_obstacle_list = FALSE /\ preview_enabled = FALSE /\ o_deployed = FALSE
    OBVIOUS
  <2> QED
    BY <2>1, <2>2, <2>3 DEF UiTypes
<1>6. Watched
  BY <1>1 DEF Watched
<1>7. Driving
  BY <1>2 DEF Driving
<1>8. Current /\ Obstacles!TrajectoryDrivable
  BY DEF Current, Obstacles!TrajectoryDrivable
<1> QED
  BY <1>4, <1>5, <1>6, <1>7, <1>8 DEF ObsInv

(* A run that ends or begins leaves everyone where he begins.              *)
LEMMA ResetKeeps ==
  ASSUME ObsInv, Obstacles!StopTimers, UiTypes',
         scenario' \in Scenarios \cup {<<>>},
         simulation_timer' \in {"none", "wait", "run"}, standby_timer' \in BOOLEAN, now' = -1,
         simulated_obstacle_states' \in [DOMAIN scenario' -> {"Simulated", "On"}],
         \A o \in DOMAIN scenario' : current_trajectory'[o] = 1 /\ o_shown'[o] = 0,
         simulation_timer' # "none" => ~standby_timer' /\ (preview_enabled' \/ o_deployed')
  PROVE  ObsInv'
<1>1. vehicle' \in [Cars -> Seq(Point)] /\ \A o \in Cars : vehicle'[o] = <<>>
  <2>1. vehicle \in [Cars -> Seq(Point)] /\ <<>> \in Seq(Point)
    BY DEF ObsInv, ObsTypes
  <2>2. \A o \in Cars : o \notin Obstacles!On => vehicle[o] = <<>>
    BY DEF ObsInv, Driving
  <2> QED
    BY <2>1, <2>2 DEF Obstacles!StopTimers
<1>2. \A o \in DOMAIN scenario' : 1 \in 1 .. Len(scenario'[o]) /\ 0 \in 0 .. Len(scenario'[o])
  BY Longer
<1>3. ObsTypes'
  <2>1. -1 \in -1 .. LastTime
    BY ScenarioAssumption
  <2> QED
    BY <1>1, <1>2, <2>1 DEF ObsTypes, Obstacles!Obstacle, Obstacles!Size, Obstacles!Times
<1>4. Watched'
  BY DEF Watched, Obstacles!Obstacle
<1>5. Driving'
  BY <1>1 DEF Driving
<1>6. Current'
  <2>1. ASSUME NEW o \in DOMAIN scenario' PROVE 1 .. current_trajectory'[o] - 1 = {}
    OBVIOUS
  <2> QED
    BY <2>1 DEF Current, Obstacles!Obstacle
<1>7. Obstacles!TrajectoryDrivable'
  <2>1. \A o \in (Obstacles!On)' : o \in Cars
    BY DEF Obstacles!On, Obstacles!Obstacle, Cars
  <2> QED
    BY <1>1, <2>1 DEF Obstacles!TrajectoryDrivable
<1> QED
  BY <1>3, <1>4, <1>5, <1>6, <1>7 DEF ObsInv

(* Nothing is played while nothing is previewed or deployed.               *)
LEMMA Unwatched ==
  ASSUME ObsInv, ~preview_enabled, ~o_deployed
  PROVE  /\ simulation_timer = "none"
         /\ \A o \in Obstacles!Obstacle : current_trajectory[o] = 1 /\ o_shown[o] = 0
BY DEF ObsInv, Watched

(* Clicks that end a preview only if there is one, or begin nothing.       *)
LEMMA ResetPreview ==
  ASSUME ObsInv, Obstacles!reset_preview, UiTypes', UNCHANGED o_deployed, ~o_deployed
  PROVE  ObsInv'
<1>1. CASE preview_enabled
  <2>1. /\ Obstacles!StopTimers /\ simulation_timer' = "none" /\ standby_timer' = TRUE
        /\ now' = -1 /\ UNCHANGED <<scenario, simulated_obstacle_states>>
        /\ current_trajectory' = [o \in Obstacles!Obstacle |-> 1]
        /\ o_shown' = [o \in Obstacles!Obstacle |-> 0]
    BY <1>1 DEF Obstacles!reset_preview, Obstacles!Stop, Obstacles!All
  <2>2. ObsTypes
    BY DEF ObsInv
  <2> QED
    BY <2>1, <2>2, ResetKeeps DEF ObsTypes, Obstacles!Obstacle
<1>2. CASE ~preview_enabled
  <2>1. UNCHANGED <<scenario, simulation_timer, standby_timer, now, current_trajectory,
                    simulated_obstacle_states, o_shown, vehicle>>
    BY <1>2 DEF Obstacles!reset_preview, Obstacles!manager
  <2>2. simulation_timer = "none"
    BY <1>2, Unwatched
  <2>3. ObsTypes' /\ Driving' /\ Watched'
    BY <2>1, <2>2 DEF ObsInv, ObsTypes, Driving, Watched, Obstacles!Obstacle, Obstacles!Size,
                      Obstacles!Times, Obstacles!On
  <2>4. Current' /\ Obstacles!TrajectoryDrivable'
    BY <2>1, <2>2 DEF Current, Obstacles!TrajectoryDrivable
  <2> QED
    BY <2>3, <2>4 DEF ObsInv
<1> QED
  BY <1>1, <1>2

LEMMA SelectKeeps ==
  ASSUME ObsInv, NEW o, NEW state \in {"Simulated", "On"}, Obstacles!Select(o, state),
         UiTypes', UNCHANGED o_deployed, ~o_deployed
  PROVE  ObsInv'
<1>1. simulated_obstacle_states' \in [Obstacles!Obstacle -> {"Simulated", "On"}]
  BY DEF ObsInv, ObsTypes, Obstacles!Select
<1>2. CASE preview_enabled
  <2>1. /\ Obstacles!StopTimers /\ simulation_timer' = "none" /\ standby_timer' = TRUE
        /\ now' = -1 /\ UNCHANGED scenario
        /\ current_trajectory' = [x \in Obstacles!Obstacle |-> 1]
        /\ o_shown' = [x \in Obstacles!Obstacle |-> 0]
    BY <1>2 DEF Obstacles!Select, Obstacles!All
  <2>2. scenario \in Scenarios \cup {<<>>}
    BY DEF ObsInv, ObsTypes
  <2> QED
    BY <1>1, <2>1, <2>2, ResetKeeps DEF Obstacles!Obstacle
<1>3. CASE ~preview_enabled
  <2>1. UNCHANGED <<scenario, simulation_timer, standby_timer, now, current_trajectory,
                    o_shown, vehicle>>
    BY <1>3 DEF Obstacles!Select
  <2>2. simulation_timer = "none"
    BY <1>3, Unwatched
  <2>3. \A x \in Cars : vehicle[x] = <<>>
    BY <2>2 DEF ObsInv, Driving
  <2>4. ObsTypes' /\ Driving' /\ Watched'
    BY <1>1, <2>1, <2>2, <2>3 DEF ObsInv, ObsTypes, Driving, Watched, Obstacles!Obstacle,
                                  Obstacles!Size, Obstacles!Times
  <2>5. Current' /\ Obstacles!TrajectoryDrivable'
    BY <2>1, <2>2 DEF Current, Obstacles!TrajectoryDrivable
  <2> QED
    BY <2>4, <2>5 DEF ObsInv
<1> QED
  BY <1>2, <1>3

LEMMA Clicking == ASSUME UiTypes, Obstacles!Click PROVE clicks' \in 0 .. Clicks
BY ScenarioAssumption DEF UiTypes, Obstacles!Click

LEMMA ObsClicks ==
  ASSUME ObsInv,
         \/ Obstacles!PreviewClicked \/ Obstacles!Transform \/ Obstacles!Deploy
         \/ Obstacles!Undeploy \/ Obstacles!Toggle \/ Obstacles!LoadFile
  PROVE  ObsInv'
<1> USE DEF Obstacles!All
<1>0. ObsTypes /\ UiTypes
  BY DEF ObsInv
<1>1. CASE Obstacles!PreviewClicked
  <2>0. clicks' \in 0 .. Clicks
    BY <1>0, <1>1, Clicking DEF Obstacles!PreviewClicked
  <2>1. UiTypes'
    BY <1>0, <1>1, <2>0, Zenon DEF Obstacles!PreviewClicked, UiTypes
  <2>2. CASE preview_enabled
    <3>1. Obstacles!Stop
      BY <1>1, <2>2 DEF Obstacles!PreviewClicked
    <3> QED
      BY <1>0, <2>1, <3>1, ResetKeeps DEF Obstacles!Stop, ObsTypes, Obstacles!Obstacle
  <2>3. CASE ~preview_enabled
    <3>1. Obstacles!Start("run") /\ preview_enabled' /\ ~o_deployed
      BY <1>1, <2>3 DEF Obstacles!PreviewClicked
    <3>2. \A o \in Obstacles!Obstacle : current_trajectory[o] = 1 /\ o_shown[o] = 0
      BY <2>3, <3>1, Unwatched
    <3> QED
      BY <1>0, <2>1, <3>1, <3>2, ResetKeeps DEF Obstacles!Start, ObsTypes, Obstacles!Obstacle
  <2> QED
    BY <2>2, <2>3
<1>2. ASSUME NEW file \in Scenarios \cup {<<>>}, Obstacles!Setup(file), UiTypes' PROVE ObsInv'
  <2>1. simulated_obstacle_states' \in [DOMAIN file -> {"Simulated", "On"}]
    BY <1>0, <1>2 DEF UiTypes, Obstacles!Setup
  <2> QED
    BY <1>2, <2>1, ResetKeeps DEF Obstacles!Setup
<1>3. CASE Obstacles!Transform
  <2>0. clicks' \in 0 .. Clicks
    BY <1>0, <1>3, Clicking DEF Obstacles!Transform
  <2>1. UiTypes' /\ Obstacles!Setup(scenario)
    BY <1>0, <1>3, <2>0, Zenon DEF Obstacles!Transform, UiTypes
  <2> QED
    BY <1>0, <1>2, <2>1 DEF ObsTypes
<1>4. CASE Obstacles!Deploy
  <2>0. clicks' \in 0 .. Clicks
    BY <1>0, <1>4, Clicking DEF Obstacles!Deploy
  <2>1. UiTypes'
    BY <1>0, <1>4, <2>0, Zenon DEF Obstacles!Deploy, UiTypes
  <2> QED
    BY <1>0, <1>4, <2>1, ResetKeeps DEF Obstacles!Deploy, ObsTypes, Obstacles!Obstacle
<1>5. CASE Obstacles!Undeploy
  <2>1. UiTypes' /\ Obstacles!Stop
    BY <1>0, <1>5 DEF Obstacles!Undeploy, UiTypes
  <2> QED
    BY <1>0, <2>1, ResetKeeps DEF Obstacles!Stop, ObsTypes, Obstacles!Obstacle
<1>6. CASE Obstacles!Toggle
  <2>1. PICK o \in DOMAIN toggles :
          LET state == IF toggles[o] = "On" THEN "Simulated" ELSE "On"
          IN toggles' = [toggles EXCEPT ![o] = state] /\ Obstacles!Select(o, state)
    BY <1>6 DEF Obstacles!Toggle
  <2>2. preview_enabled' = FALSE /\ UNCHANGED <<load_obstacle_list, o_deployed>> /\ ~o_deployed
    BY <1>6, <2>1 DEF Obstacles!Toggle, Obstacles!Select
  <2>3. UiTypes'
    <3>1. clicks' \in 0 .. Clicks
      BY <1>0, <1>6, Clicking DEF Obstacles!Toggle
    <3>2. \A x \in DOMAIN toggles' : toggles'[x] \in {"Simulated", "On"}
      BY <1>0, <2>1 DEF UiTypes
    <3> QED
      BY <1>0, <2>2, <3>1, <3>2, Zenon DEF UiTypes
  <2> QED
    BY <2>1, <2>2, <2>3, SelectKeeps
<1>7. CASE Obstacles!LoadFile
  <2>0. clicks' \in 0 .. Clicks
    BY <1>0, <1>7, Clicking DEF Obstacles!LoadFile
  <2>1. UiTypes' /\ ~o_deployed /\ UNCHANGED o_deployed
    <3>1. preview_enabled' = FALSE
      BY <1>7 DEF Obstacles!LoadFile, Obstacles!reset_preview
    <3>2. load_obstacle_list' = TRUE /\ UNCHANGED toggles /\ UNCHANGED o_deployed /\ ~o_deployed
      BY <1>7 DEF Obstacles!LoadFile
    <3> QED
      BY <1>0, <2>0, <3>1, <3>2, Zenon DEF UiTypes
  <2>2. CASE \E file \in Scenarios : Obstacles!Setup(file)
    BY <1>2, <2>1, <2>2
  <2>3. CASE /\ Obstacles!StopTimers /\ simulation_timer' = "none" /\ standby_timer' = FALSE
             /\ now' = -1 /\ scenario' = <<>> /\ simulated_obstacle_states' = <<>>
    <3>1. DOMAIN scenario' = {} /\ simulated_obstacle_states' \in [{} -> {"Simulated", "On"}]
      BY <2>3
    <3> QED
      BY <2>1, <2>3, <3>1, ResetKeeps
  <2>4. CASE Obstacles!reset_preview
    BY <2>1, <2>4, ResetPreview
  <2> QED
    BY <1>7, <2>2, <2>3, <2>4 DEF Obstacles!LoadFile
<1> QED
  BY <1>1, <1>3, <1>4, <1>5, <1>6, <1>7

LEMMA ObsCallback == ASSUME ObsInv, Obstacles!Callback PROVE ObsInv'
<1>0. ObsTypes /\ UiTypes /\ simulation_timer = "run"
  BY DEF ObsInv, Obstacles!Callback
<1>1. /\ UNCHANGED <<scenario, simulation_timer, standby_timer, simulated_obstacle_states>>
      /\ UNCHANGED <<toggles, load_obstacle_list, preview_enabled, o_deployed, clicks>>
  BY DEF Obstacles!Callback, Obstacles!ui
<1>2. now' \in Nat /\ now' <= LastTime /\ now < now'
  BY <1>0, ScenarioAssumption DEF ObsTypes, Obstacles!Callback
<1>3. ASSUME NEW o \in Obstacles!Obstacle
      PROVE  /\ current_trajectory'[o] \in 1 .. Obstacles!Size(o)
             /\ current_trajectory'[o] = Obstacles!Size(o) \/ now' < At(current_trajectory'[o])
             /\ \A i \in 1 .. current_trajectory'[o] - 1 : At(i) <= now'
  <2>1. current_trajectory[o] \in 1 .. Obstacles!Size(o) /\ Obstacles!Size(o) \in Nat
    BY <1>0, PointTimes DEF ObsTypes
  <2>2. \A i \in 1 .. current_trajectory[o] - 1 : At(i) <= now'
    <3>1. ASSUME NEW i \in 1 .. current_trajectory[o] - 1 PROVE At(i) <= now'
      <4>1. At(i) <= now
        BY <1>0 DEF ObsInv, Current
      <4>2. i \in Int /\ now \in Int
        BY <1>0, <2>1 DEF ObsTypes
      <4>3. At(i) \in Int
        BY <4>2, Instants
      <4> QED
        BY <1>2, <4>1, <4>2, <4>3
    <3> QED
      BY <3>1
  <2>3. current_trajectory'[o] = Obstacles!Advance(o, now')
    BY DEF Obstacles!Callback
  <2> QED
    BY <1>0, <1>2, <2>1, <2>2, <2>3, Advancing DEF ObsTypes
<1>4. ASSUME NEW o \in Obstacles!On
      PROVE  /\ vehicle'[o] \in Seq(Point)
             /\ \A i \in 1 .. Len(vehicle'[o]) - 1 : vehicle'[o][i].t < vehicle'[o][i + 1].t
             /\ vehicle'[o][1].t <= now' /\ now' < vehicle'[o][Len(vehicle'[o])].t
  <2>1. o \in Obstacles!Obstacle /\ o \in DOMAIN vehicle
    BY <1>0 DEF Obstacles!On, Obstacles!Obstacle, ObsTypes, Cars
  <2>2. vehicle'[o] = Obstacles!Trajectory(o, current_trajectory'[o], now')
    BY <2>1 DEF Obstacles!Callback
  <2> QED
    BY <1>0, <1>2, <1>3, <2>1, <2>2, TrajectoryFits DEF ObsTypes
<1>5. vehicle' \in [Cars -> Seq(Point)]
  <2>1. DOMAIN vehicle = Cars /\ \A o \in Cars : vehicle[o] \in Seq(Point)
    BY <1>0 DEF ObsTypes
  <2>2. vehicle' = [o \in Cars |-> vehicle'[o]]
    BY <2>1 DEF Obstacles!Callback
  <2>3. \A o \in Cars : o \notin Obstacles!On => vehicle'[o] = vehicle[o]
    BY <2>1 DEF Obstacles!Callback
  <2> QED
    BY <1>4, <2>1, <2>2, <2>3
<1>6. (Obstacles!On)' = Obstacles!On /\ (Obstacles!Obstacle)' = Obstacles!Obstacle
      /\ \A o : (Obstacles!Size(o))' = Obstacles!Size(o)
  BY <1>1 DEF Obstacles!On, Obstacles!Obstacle, Obstacles!Size, Obstacles!Times
<1>7. ASSUME NEW o \in Obstacles!Obstacle
      PROVE  /\ o \in Obstacles!On => o_shown'[o] = o_shown[o]
             /\ o \notin Obstacles!On => o_shown'[o] = current_trajectory'[o]
  BY DEF Obstacles!Callback
<1>8. ObsTypes'
  <2>1. now' \in -1 .. LastTime
    BY <1>2, ScenarioAssumption
  <2>2. \A o \in Obstacles!Obstacle : o_shown'[o] \in 0 .. Obstacles!Size(o)
    BY <1>0, <1>3, <1>7 DEF ObsTypes
  <2>3. \A o \in Obstacles!Obstacle : current_trajectory'[o] \in 1 .. Obstacles!Size(o)
    BY <1>3
  <2> QED
    BY <1>0, <1>1, <1>5, <1>6, <2>1, <2>2, <2>3 DEF ObsTypes
<1>9. UiTypes'
  BY <1>0, <1>1 DEF UiTypes
<1>10. Watched'
  BY <1>0, <1>1 DEF ObsInv, Watched
<1>11. Driving'
  <2>1. \A o \in Cars : o \notin Obstacles!On => vehicle'[o] = <<>>
    BY <1>0 DEF ObsInv, Driving, ObsTypes, Obstacles!Callback
  <2> QED
    BY <1>0, <1>1, <1>6, <2>1 DEF Driving
<1>12. Current'
  <2>1. \A o \in Obstacles!On : o_shown[o] = 0
    <3>1. \A o \in Obstacles!On : o \in Obstacles!Obstacle
      BY DEF Obstacles!On
    <3> QED
      BY <1>0, <3>1 DEF ObsInv, Current
  <2>2. ASSUME NEW o \in Obstacles!Obstacle
        PROVE  \/ o_shown'[o] = 0
               \/ /\ o \notin Obstacles!On /\ o_shown'[o] = current_trajectory'[o]
                  /\ o_shown'[o] = Obstacles!Size(o) \/ now' < At(o_shown'[o])
    <3>1. CASE o \in Obstacles!On
      BY <1>7, <2>1, <3>1
    <3>2. CASE o \notin Obstacles!On
      BY <1>3, <1>7, <3>2
    <3> QED
      BY <3>1, <3>2
  <2>3. \A i : At(i)' = At(i)
    BY DEF At
  <2> QED
    BY <1>3, <1>6, <2>2, <2>3 DEF Current
<1>13. Obstacles!TrajectoryDrivable'
  BY <1>4, <1>6 DEF Obstacles!TrajectoryDrivable
<1> QED
  BY <1>8, <1>9, <1>10, <1>11, <1>12, <1>13 DEF ObsInv

LEMMA ObsSignal == ASSUME ObsInv, Obstacles!Signal PROVE ObsInv'
<1>1. /\ UNCHANGED <<scenario, standby_timer, now, current_trajectory, simulated_obstacle_states,
                     o_shown, vehicle>>
      /\ UNCHANGED <<toggles, load_obstacle_list, preview_enabled, o_deployed, clicks>>
      /\ simulation_timer \in {"wait", "run"} /\ simulation_timer' \in {"run", "ended"}
      /\ simulation_timer' = "run" => simulation_timer = "wait"
  BY DEF Obstacles!Signal, Obstacles!ui
<1>2. /\ (Obstacles!On)' = Obstacles!On /\ (Obstacles!Obstacle)' = Obstacles!Obstacle
      /\ \A o : (Obstacles!Size(o))' = Obstacles!Size(o)
  BY <1>1 DEF Obstacles!On, Obstacles!Obstacle, Obstacles!Size, Obstacles!Times
<1>3. ObsTypes' /\ Driving'
  BY <1>1, <1>2 DEF ObsInv, ObsTypes, Driving
<1>4. UiTypes'
  BY <1>1 DEF ObsInv, UiTypes
<1>5. Watched'
  BY <1>1, <1>2 DEF ObsInv, Watched
<1>6. Current' /\ Obstacles!TrajectoryDrivable'
  <2> SUFFICES ASSUME simulation_timer' = "run" PROVE Current' /\ Obstacles!TrajectoryDrivable'
    BY DEF Current, Obstacles!TrajectoryDrivable
  <2>1. simulation_timer = "wait"
    BY <1>1
  <2>2. \A o \in Obstacles!Obstacle : current_trajectory[o] = 1 /\ o_shown[o] = 0
    BY <2>1 DEF ObsInv, Watched
  <2>3. \A o \in Obstacles!On : vehicle[o] = <<>>
    <3>1. \A o \in Obstacles!On : o \in Cars
      BY DEF ObsInv, ObsTypes, Obstacles!On, Obstacles!Obstacle, Cars
    <3> QED
      BY <2>1, <3>1 DEF ObsInv, Driving
  <2>4. Current'
    <3>1. \A o \in Obstacles!Obstacle : 1 .. current_trajectory[o] - 1 = {}
      BY <2>2
    <3> QED
      BY <1>1, <1>2, <2>2, <3>1 DEF Current
  <2>5. Obstacles!TrajectoryDrivable'
    BY <1>1, <1>2, <2>3 DEF Obstacles!TrajectoryDrivable
  <2> QED
    BY <2>4, <2>5
<1> QED
  BY <1>3, <1>4, <1>5, <1>6 DEF ObsInv

LEMMA ObsStays ==
  ASSUME ObsInv, UiTypes', UNCHANGED <<preview_enabled, o_deployed, o_shown, vehicle>>,
         UNCHANGED <<scenario, simulation_timer, standby_timer, now, current_trajectory,
                     simulated_obstacle_states>>
  PROVE  ObsInv'
<1>1. /\ (Obstacles!On)' = Obstacles!On /\ (Obstacles!Obstacle)' = Obstacles!Obstacle
      /\ \A o : (Obstacles!Size(o))' = Obstacles!Size(o)
  BY DEF Obstacles!On, Obstacles!Obstacle, Obstacles!Size, Obstacles!Times
<1>2. ObsTypes' /\ Driving' /\ Watched'
  BY <1>1 DEF ObsInv, ObsTypes, Driving, Watched
<1>3. Current' /\ Obstacles!TrajectoryDrivable'
  BY <1>1 DEF ObsInv, Current, At, Obstacles!TrajectoryDrivable
<1> QED
  BY <1>2, <1>3 DEF ObsInv

LEMMA ObsStep == ObsInv /\ [Obstacles!Next]_(Obstacles!vars) => ObsInv'
<1> SUFFICES ASSUME ObsInv, [Obstacles!Next]_(Obstacles!vars) PROVE ObsInv'
  OBVIOUS
<1>1. CASE Obstacles!Callback
  BY <1>1, ObsCallback
<1>2. CASE Obstacles!Signal
  BY <1>2, ObsSignal
<1>3. CASE \/ Obstacles!PreviewClicked \/ Obstacles!Transform \/ Obstacles!Deploy
           \/ Obstacles!Undeploy \/ Obstacles!Toggle \/ Obstacles!LoadFile
  BY <1>3, ObsClicks
<1>4. CASE Obstacles!DispatcherCallback
  <2>1. load_obstacle_list' = FALSE /\ UNCHANGED <<preview_enabled, o_deployed, clicks>>
    BY <1>4 DEF Obstacles!DispatcherCallback
  <2>2. \A o \in DOMAIN toggles' : toggles'[o] = "Simulated"
    BY <1>4 DEF Obstacles!DispatcherCallback, Obstacles!All
  <2>3. UiTypes
    BY DEF ObsInv
  <2>4. UiTypes'
    BY <2>1, <2>2, <2>3 DEF UiTypes
  <2> QED
    BY <1>4, <2>4, ObsStays DEF Obstacles!DispatcherCallback, Obstacles!manager
<1>5. CASE UNCHANGED Obstacles!vars
  <2>1. UNCHANGED <<toggles, load_obstacle_list, preview_enabled, o_deployed, clicks>>
    BY <1>5 DEF Obstacles!vars, Obstacles!ui
  <2>2. UiTypes'
    BY <2>1 DEF ObsInv, UiTypes
  <2> QED
    BY <1>5, <2>1, <2>2, ObsStays DEF Obstacles!vars, Obstacles!manager
<1> QED
  BY <1>1, <1>2, <1>3, <1>4, <1>5 DEF Obstacles!Next

(* Obstacles are shown where the time of the run puts them and by one      *)
(* timer, vehicles in their place get trajectories that they can follow    *)
(* and keep none when a run is over, for any scenarios with consecutive    *)
(* times, any sizes of steps and trajectories and any numbers of clicks.   *)
THEOREM ObstaclesCorrect == Obstacles!Spec => []ObstaclesPlayed
<1> QED
  BY ObsInit, ObsStep, ObsSafe, PTL DEF Obstacles!Spec
=============================================================================

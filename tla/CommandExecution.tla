-------------------------- MODULE CommandExecution --------------------------
(***************************************************************************)
(* How the LCC runs shell commands (ProgramExecutor.cpp): its threads put  *)
(* commands into a System V message queue, a child process forked at the   *)
(* start of main takes them out and gives them to a pool of threads, and   *)
(* those that are waited for are answered through a second queue, by the   *)
(* id of the command.  The queues belong to the kernel: they outlive an    *)
(* LCC that is killed, and so does its child, which goes on taking         *)
(* commands out.  Whatever the commands do is left out.                    *)
(***************************************************************************)
EXTENDS Naturals, Sequences

CONSTANTS
  Caller,      (* threads of the LCC that execute commands                 *)
  Worker,      (* thread_pool                                              *)
  MaxId,       (* the counter of ids starts again above it (1e5)           *)
  Capacity,    (* messages a queue of the kernel takes before it blocks    *)
  Calls,       (* bound: commands                                          *)
  Lives        (* bound: the LCC is killed and started again Lives - 1 times *)

VARIABLES
  lcc,                  (* the process: "up", in its destructor ("exit",   *)
                        (* "terminate"), "off", or killed ("down")         *)
  life,                 (* how often it was started                        *)
  current_command_id,
  calls,                (* commands so far                                 *)
  caller,               (* what each thread executes, and where it is      *)
  request, response,    (* the two message queues                          *)
  reader,               (* main thread of the child of each life           *)
  job_queue, worker,    (* its jobs and its thread pool                    *)
  executed              (* commands that were run to their end             *)

queues == <<request, response>>
children == <<reader, job_queue, worker>>
vars == <<lcc, life, current_command_id, calls, caller, queues, children, executed>>

Life == 1 .. Lives
(* execute_command without a timeout; with one, or get_command_output.      *)
Kind == {"untimed", "answered"}
Command == [id : 1 .. MaxId + 1, call : 1 .. Calls, kind : Kind]
Exit == [id |-> 0, call |-> 0, kind |-> "EXIT"]
Answer == [id : 1 .. MaxId + 1, call : 1 .. Calls]
Idle == [pc |-> "idle"]

(* A worker is waiting on jobs_available, executing, sending its answer or *)
(* has returned; a caller is idle, sending or waiting for its answer, and  *)
(* remembers which command the last answer was about.                      *)
Busy(pcs, message) == [pc : pcs, job : message]
TypeOK ==
  /\ lcc \in {"up", "exit", "terminate", "off", "down"}
  /\ life \in Life
  /\ current_command_id \in 1 .. MaxId + 1
  /\ calls \in 0 .. Calls
  /\ caller \in [Caller -> {Idle} \cup Busy({"send", "wait"}, Command)
                             \cup [pc : {"idle"}, job : Command, got : 1 .. Calls]]
  /\ request \in Seq(Command \cup {Exit}) /\ Len(request) <= Capacity
  /\ response \in Seq(Answer) /\ Len(response) <= Capacity
  /\ reader \in [Life -> {"none", "receive", "stopping", "gone"}]
  /\ job_queue \in [Life -> Seq(Command)]
  /\ worker \in [Life -> [Worker -> {Idle, [pc |-> "stopped"]}
                                     \cup Busy({"execute", "answer"}, Command)]]
  /\ executed \subseteq 1 .. Calls

(* setup_child_process of the first LCC: the queues are new.               *)
Init ==
  /\ lcc = "up" /\ life = 1
  /\ current_command_id = 1
  /\ calls = 0
  /\ caller = [c \in Caller |-> Idle]
  /\ request = <<>> /\ response = <<>>
  /\ reader = [l \in Life |-> IF l = 1 THEN "receive" ELSE "none"]
  /\ job_queue = [l \in Life |-> <<>>]
  /\ worker = [l \in Life |-> [w \in Worker |-> Idle]]
  /\ executed = {}

-----------------------------------------------------------------------------
(* The callers                                                             *)

SkipZero == IF current_command_id > MaxId THEN 0 ELSE current_command_id + 1
RestartEarly == IF current_command_id >= MaxId THEN 1 ELSE current_command_id + 1

(* get_unique_command_id: the id after the current one.                    *)
NextId == IF current_command_id > MaxId THEN 1 ELSE current_command_id + 1

(* execute_command and get_command_output obtain an id for their message.  *)
Call(c, kind) ==
  /\ lcc = "up" /\ caller[c].pc = "idle"
  /\ calls < Calls
  /\ caller' = [caller EXCEPT ![c] =
       [pc |-> "send", job |-> [id |-> current_command_id, call |-> calls + 1, kind |-> kind]]]
  /\ current_command_id' = NextId
  /\ calls' = calls + 1
  /\ UNCHANGED <<lcc, life, queues, children, executed>>

(* send_command_msg, which blocks while the queue is full.  A command      *)
(* without a timeout has no answer; its caller returns.                    *)
Send(c) ==
  /\ lcc = "up" /\ caller[c].pc = "send"
  /\ Len(request) < Capacity
  /\ request' = Append(request, caller[c].job)
  /\ caller' = [caller EXCEPT ![c] =
       IF @.job.kind = "answered" THEN [@ EXCEPT !.pc = "wait"] ELSE Idle]
  /\ UNCHANGED <<lcc, life, current_command_id, calls, response, children, executed>>

WithoutFirst(s, i) == [j \in 1 .. Len(s) - 1 |-> IF j < i THEN s[j] ELSE s[j + 1]]

AnyAnswer(c) ==
  /\ lcc = "up" /\ caller[c].pc = "wait" /\ response # <<>>
  /\ caller' = [caller EXCEPT ![c] =
       [pc |-> "idle", job |-> @.job, got |-> Head(response).call]]
  /\ response' = Tail(response)
  /\ UNCHANGED <<lcc, life, current_command_id, calls, request, children, executed>>

(* receive_answer_msg: msgrcv takes the first message of type command_id.  *)
ReceiveAnswer(c) ==
  /\ lcc = "up" /\ caller[c].pc = "wait"
  /\ \E i \in DOMAIN response :
       /\ response[i].id = caller[c].job.id
       /\ \A j \in 1 .. i - 1 : response[j].id # response[i].id
       /\ caller' = [caller EXCEPT ![c] =
            [pc |-> "idle", job |-> @.job, got |-> response[i].call]]
       /\ response' = WithoutFirst(response, i)
  /\ UNCHANGED <<lcc, life, current_command_id, calls, request, children, executed>>

-----------------------------------------------------------------------------
(* The child process of life l                                             *)

Stopping(l) == reader[l] = "stopping"     (* stop_threads *)
Runs(l) == reader[l] \in {"receive", "stopping"}

DropWhenBusy(l) ==
  /\ reader[l] = "receive" /\ request # <<>>
  /\ request' = Tail(request)
  /\ IF Head(request) = Exit
     THEN /\ reader' = [reader EXCEPT ![l] = "stopping"]
          /\ UNCHANGED job_queue
     ELSE /\ job_queue' = [job_queue EXCEPT ![l] =
               IF \E w \in Worker : worker[l][w] = Idle THEN Append(@, Head(request)) ELSE @]
          /\ UNCHANGED reader
  /\ UNCHANGED <<lcc, life, current_command_id, calls, caller, response, worker, executed>>

ReceiveWhenFree(l) ==
  /\ reader[l] = "receive" /\ request # <<>>
  /\ \E w \in Worker : worker[l][w] = Idle
  /\ request' = Tail(request)
  /\ IF Head(request) = Exit
     THEN /\ reader' = [reader EXCEPT ![l] = "stopping"]
          /\ UNCHANGED job_queue
     ELSE /\ job_queue' = [job_queue EXCEPT ![l] = Append(@, Head(request))]
          /\ UNCHANGED reader
  /\ UNCHANGED <<lcc, life, current_command_id, calls, caller, response, worker, executed>>

(* The loop of setup_child_process: receive_command_msg, then add_job, or  *)
(* stop_thread_pool on EXIT.                                               *)
ReceiveCommand(l) ==
  /\ reader[l] = "receive" /\ request # <<>>
  /\ request' = Tail(request)
  /\ IF Head(request) = Exit
     THEN /\ reader' = [reader EXCEPT ![l] = "stopping"]
          /\ UNCHANGED job_queue
     ELSE /\ job_queue' = [job_queue EXCEPT ![l] = Append(@, Head(request))]
          /\ UNCHANGED reader
  /\ UNCHANGED <<lcc, life, current_command_id, calls, caller, response, worker, executed>>

(* do_jobs_or_stop: takes the next job unless stop_threads is set, which   *)
(* comes first also when jobs are left.                                    *)
TakeJob(l, w) ==
  /\ reader[l] = "receive" /\ worker[l][w] = Idle
  /\ job_queue[l] # <<>>
  /\ worker' = [worker EXCEPT ![l][w] = [pc |-> "execute", job |-> Head(job_queue[l])]]
  /\ job_queue' = [job_queue EXCEPT ![l] = Tail(@)]
  /\ UNCHANGED <<lcc, life, current_command_id, calls, caller, queues, reader, executed>>

StopWorker(l, w) ==
  /\ Stopping(l) /\ worker[l][w] = Idle
  /\ worker' = [worker EXCEPT ![l][w] = [pc |-> "stopped"]]
  /\ UNCHANGED <<lcc, life, current_command_id, calls, caller, queues, reader, job_queue, executed>>

ForgetAnswer(l, w) ==
  /\ Runs(l) /\ worker[l][w].pc = "execute"
  /\ executed' = executed \cup {worker[l][w].job.call}
  /\ \E success \in BOOLEAN : worker' = [worker EXCEPT ![l][w] =
       IF success /\ @.job.kind = "answered" THEN [@ EXCEPT !.pc = "answer"] ELSE Idle]
  /\ UNCHANGED <<lcc, life, current_command_id, calls, caller, queues, reader, job_queue>>

(* process_single_child_command up to the answer: system() of a command    *)
(* without a timeout returns when the command does, spawn_and_manage_process *)
(* and execute_command_get_output also at the timeout or at stop_threads,  *)
(* when they kill the process.                                             *)
Execute(l, w) ==
  /\ Runs(l) /\ worker[l][w].pc = "execute"
  /\ executed' = executed \cup {worker[l][w].job.call}
  /\ worker' = [worker EXCEPT ![l][w] =
       IF @.job.kind = "answered" THEN [@ EXCEPT !.pc = "answer"] ELSE Idle]
  /\ UNCHANGED <<lcc, life, current_command_id, calls, caller, queues, reader, job_queue>>

(* send_answer_msg, which blocks while the queue is full and is repeated   *)
(* until it succeeds.                                                      *)
SendAnswer(l, w) ==
  /\ Runs(l) /\ lcc # "off" /\ worker[l][w].pc = "answer"
  /\ Len(response) < Capacity
  /\ response' = Append(response, [id |-> worker[l][w].job.id, call |-> worker[l][w].job.call])
  /\ worker' = [worker EXCEPT ![l][w] = Idle]
  /\ UNCHANGED <<lcc, life, current_command_id, calls, caller, request, reader, job_queue, executed>>

(* stop_thread_pool joins the threads and the child exits.                 *)
JoinPool(l) ==
  /\ Stopping(l)
  /\ \A w \in Worker : worker[l][w].pc = "stopped"
  /\ reader' = [reader EXCEPT ![l] = "gone"]
  /\ UNCHANGED <<lcc, life, current_command_id, calls, caller, queues, job_queue, worker, executed>>

(* The child is killed by somebody else (its parent does not notice).      *)
ChildDies(l) ==
  /\ Runs(l)
  /\ reader' = [reader EXCEPT ![l] = "gone"]
  /\ UNCHANGED <<lcc, life, current_command_id, calls, caller, queues, job_queue, worker, executed>>

-----------------------------------------------------------------------------
(* The LCC process                                                         *)

(* main returns and joins the threads that execute commands; then the      *)
(* destructor sends EXIT, which blocks while the queue is full, ...        *)
Close ==
  /\ lcc = "up" /\ \A c \in Caller : caller[c].pc = "idle"
  /\ lcc' = "exit"
  /\ UNCHANGED <<life, current_command_id, calls, caller, queues, children, executed>>

SendExit ==
  /\ lcc = "exit" /\ Len(request) < Capacity
  /\ request' = Append(request, Exit)
  /\ lcc' = "terminate"
  /\ UNCHANGED <<life, current_command_id, calls, caller, response, children, executed>>

(* ... terminates the child in kill_process, waits for it and destroys the *)
(* queues.                                                                 *)
Terminate ==
  /\ lcc = "terminate"
  /\ reader' = [reader EXCEPT ![life] = "gone"]
  /\ request' = <<>> /\ response' = <<>>
  /\ lcc' = "off"
  /\ UNCHANGED <<life, current_command_id, calls, caller, job_queue, worker, executed>>

(* The LCC is killed from outside or crashes: no destructor runs.          *)
Crash ==
  /\ lcc = "up" /\ life < Lives
  /\ lcc' = "down"
  /\ caller' = [c \in Caller |-> Idle]
  /\ UNCHANGED <<life, current_command_id, calls, queues, children, executed>>

(* A new LCC: msgget finds the queues of the old one, fork a new child.    *)
Restart ==
  /\ lcc = "down"
  /\ lcc' = "up" /\ life' = life + 1
  /\ current_command_id' = 1
  /\ reader' = [reader EXCEPT ![life + 1] = "receive"]
  /\ UNCHANGED <<calls, caller, queues, job_queue, worker, executed>>

CallerStep(c) == Send(c) \/ ReceiveAnswer(c)
ChildStep(l) == ReceiveCommand(l) \/ JoinPool(l)
WorkerStep(l, w) == TakeJob(l, w) \/ StopWorker(l, w) \/ SendAnswer(l, w)

Next ==
  \/ \E c \in Caller : CallerStep(c) \/ \E kind \in Kind : Call(c, kind)
  \/ \E l \in Life : ChildStep(l) \/ ChildDies(l)
  \/ \E l \in Life, w \in Worker : WorkerStep(l, w) \/ Execute(l, w)
  \/ Close \/ SendExit \/ Terminate
  \/ Crash \/ Restart

Spec == Init /\ [][Next]_vars

(* A command without a timeout, which may never end.                       *)
Hanging(l, w) == worker[l][w].pc = "execute" /\ worker[l][w].job.kind = "untimed"

(* Threads and processes are scheduled, a message that fits is sent, and a *)
(* command with a timeout ends.  One without a timeout may hang.           *)
Fairness ==
  /\ WF_vars(\E c \in Caller : Send(c))
  /\ WF_vars(\E c \in Caller : ReceiveAnswer(c))
  /\ \A l \in Life :
       /\ WF_vars(ChildStep(l))
       /\ WF_vars(\E w \in Worker : WorkerStep(l, w))
       /\ \A w \in Worker : WF_vars(~Hanging(l, w) /\ Execute(l, w))
  /\ WF_vars(SendExit \/ Terminate)

FairSpec == Spec /\ Fairness

-----------------------------------------------------------------------------
(* PROPERTIES                                                              *)

Got(c) == caller[c].pc = "idle" /\ "got" \in DOMAIN caller[c]

(* The id serves "to retrieve answers / responses by the child process for *)
(* the right request" (ProgramExecutor.hpp).  An answer to another command *)
(* needs an LCC that was killed, whose answers are still in the queue, or  *)
(* a call that lasts until the counter has gone round.                     *)
OwnAnswer ==
  life = 1 => \A c \in Caller : Got(c) =>
    caller[c].got = caller[c].job.call \/ caller[c].got > caller[c].job.call + MaxId
                                      \/ caller[c].job.call > caller[c].got + MaxId

(* Every answer of a first LCC has somebody who waits for its id, so the   *)
(* queue cannot fill up with answers nobody takes, which would block the   *)
(* whole pool.                                                             *)
AnswersAreAwaited ==
  life = 1 /\ lcc = "up" => \A i \in DOMAIN response :
    \E c \in Caller : caller[c].pc = "wait" /\ caller[c].job.id = response[i].id

Exhausted == \A w \in Worker : Hanging(life, w)
Sent(k) == k \in 1 .. calls /\ \A c \in Caller : caller[c].pc = "send" => caller[c].job.call # k

(* "commands can 'pile up' in the msg queue for a while, but should finally *)
(* be executed nonetheless" (ProgramExecutor.hpp): unless the LCC ends, its *)
(* child dies, or every thread of the pool hangs in a command without a    *)
(* timeout.                                                                *)
FinallyExecuted ==
  \A k \in 1 .. Calls :
    <>[](Sent(k) /\ k \notin executed) =>
    <>[](lcc # "up" \/ life > 1 \/ reader[life] = "gone"
          \/ Exhausted \/ \E w \in Worker : Hanging(life, w) /\ worker[life][w].job.call = k)

(* A thread of the LCC that waits for ever for an answer has lost its child, *)
(* or a pool whose threads all hang; in an LCC that follows a killed one,  *)
(* somebody else may have the command or the answer.                       *)
CallsReturn ==
  \A c \in Caller :
    <>[](caller[c].pc # "idle") => <>[](life > 1 \/ reader[life] = "gone" \/ Exhausted)

(* The destructor ends, unless nobody takes EXIT out of a full queue.      *)
DestructorReturns ==
  <>[](lcc \in {"exit", "terminate"}) => <>[](reader[life] = "gone" /\ Len(request) = Capacity)

=============================================================================

----------------------------- MODULE RoundTrip -----------------------------
(***************************************************************************)
(* Measuring round trip times: the thread of the RTTAggregator of the LCC, *)
(* which calls cpm::RTTTool::measure_rtt again and again, the reader thread *)
(* of the RTTTool, which takes the answers, and the programs that answer.  *)
(* Times are left out, except that an answer belongs to a request; an id   *)
(* stands for all programs that answer with it.  Topics are best effort.   *)
(***************************************************************************)
EXTENDS Naturals

CONSTANTS
  Id,          (* program ids of those who answer                          *)
  CountMod,    (* rtt_count is reset after it (256)                        *)
  MaxWait,     (* wait_count gives up at it (10)                           *)
  Rounds,      (* bound: measurements                                      *)
  Restarts     (* bound: calls of stop_measurement and restart_measurement *)

VARIABLES
  measurer,              (* where measure_rtt is; "off": thread has ended  *)
  wait_count,
  requested,             (* rtt_measure_requested                          *)
  round,                 (* number of this measurement; rtt_count is       *)
                         (* derived from it                                *)
  receive_times,         (* answers that were stored                       *)
  reader,                (* answers that passed the check and wait for     *)
                         (* receive_times_mutex                            *)
  requests, answers,     (* messages on their way                          *)
  results,               (* what measure_rtt returns                       *)
  measure_count, missed_answers,  (* their keys are received_ids           *)
  last,                  (* history: generation of an entry's measurement  *)
  run_rtt_thread,
  gtk,                   (* "idle", or joining to "stop" or "restart"      *)
  generation, restarts,  (* history: starts of the thread; calls           *)
  begun                  (* history: generation this measurement began in  *)

tool == <<measurer, wait_count, requested, round, results, begun>>
network == <<requests, answers>>
incoming == <<receive_times, reader>>
statistics == <<measure_count, missed_answers, last>>
control == <<run_rtt_thread, gtk, generation, restarts>>
vars == <<tool, network, incoming, statistics, control>>

Message == [id : Id, round : 1 .. Rounds]
Ids(messages) == {m.id : m \in messages}
received_ids == DOMAIN measure_count

TypeOK ==
  /\ measurer \in {"off", "loop", "clear", "start", "poll", "settle", "publish"}
  /\ wait_count \in 0 .. MaxWait /\ requested \in BOOLEAN
  /\ round \in 0 .. Rounds
  /\ {receive_times, reader, requests, answers} \subseteq SUBSET Message
  /\ \A m, n \in reader : m = n
  /\ results \subseteq Id
  /\ received_ids \subseteq Id
  /\ {DOMAIN missed_answers, DOMAIN last} = {received_ids}
  /\ \A i \in received_ids : missed_answers[i] \in 0 .. measure_count[i] - 1
  /\ run_rtt_thread \in BOOLEAN /\ gtk \in {"idle", "stop", "restart"}
  /\ {generation, begun, restarts} \subseteq 0 .. Restarts + 1

Empty == [i \in {} |-> 0]

(* The constructor of the RTTAggregator creates the thread.                *)
Init ==
  /\ measurer = "loop" /\ wait_count = 0 /\ requested = FALSE /\ round = 0
  /\ receive_times = {} /\ reader = {} /\ requests = {} /\ answers = {}
  /\ results = {}
  /\ measure_count = Empty /\ missed_answers = Empty /\ last = Empty
  /\ run_rtt_thread = TRUE /\ gtk = "idle"
  /\ generation = 1 /\ begun = 0 /\ restarts = 0

(* The mutex is held over a place where others run only while the thread   *)
(* sleeps for 500 ms.                                                      *)
MutexFree == measurer # "settle"

-----------------------------------------------------------------------------
(* measure_rtt and the thread that calls it                                *)

LoopEnds ==
  /\ measurer = "loop" /\ ~run_rtt_thread
  /\ measurer' = "off"
  /\ UNCHANGED <<wait_count, requested, round, results, begun, network, incoming, statistics, control>>

(* "First, increment the RTT count, so that old messages are discarded     *)
(* properly".                                                              *)
IncrementCount ==
  /\ measurer = "loop" /\ run_rtt_thread /\ round < Rounds
  /\ measurer' = "clear" /\ round' = round + 1
  /\ begun' = generation
  /\ UNCHANGED <<wait_count, requested, results, incoming, network, statistics, control>>

(* "Then, clear the vector containing old answers".                        *)
Clear ==
  /\ measurer = "clear"
  /\ receive_times' = {}
  /\ measurer' = "start"
  /\ UNCHANGED <<wait_count, requested, round, results, begun, reader, network, statistics, control>>

(* start_time is taken and the request written.                            *)
SendRequest ==
  /\ measurer = "start"
  /\ requested' = TRUE
  /\ requests' = requests \cup [id : Id, round : {round}]
  /\ measurer' = "poll"
  /\ UNCHANGED <<wait_count, round, results, begun, answers, incoming, statistics, control>>

PollForever ==
  /\ measurer = "poll" /\ receive_times # {}
  /\ measurer' = "settle"
  /\ UNCHANGED <<wait_count, requested, round, results, begun, network, incoming, statistics, control>>

(* A look at receive_times.  Answers end the loop, which then keeps the    *)
(* lock; the tenth look comes too late also when it finds some.            *)
Poll ==
  /\ measurer = "poll"
  /\ \/ /\ receive_times = {} /\ wait_count < MaxWait
        /\ wait_count' = wait_count + 1
        /\ UNCHANGED <<measurer, results>>
     \/ /\ receive_times # {} /\ wait_count < MaxWait
        /\ measurer' = "settle"
        /\ UNCHANGED <<wait_count, results>>
     \/ /\ wait_count = MaxWait
        /\ results' = {} /\ measurer' = "publish"
        /\ UNCHANGED wait_count
  /\ UNCHANGED <<requested, round, begun, network, incoming, statistics, control>>

(* The end of "Also wait another 500ms to get a worse RTT time".           *)
Settle ==
  /\ measurer = "settle"
  /\ results' = Ids(receive_times)
  /\ measurer' = "publish"
  /\ UNCHANGED <<wait_count, requested, round, begun, network, incoming, statistics, control>>

CountAnswersOnly(deleted) ==
  LET ids == (received_ids \cup results) \ deleted
      Plus1(f, i) == IF i \in received_ids THEN f[i] + 1 ELSE 1
  IN /\ measure_count' = [i \in ids |-> IF i \in results THEN Plus1(measure_count, i) ELSE measure_count[i]]
     /\ missed_answers' = [i \in ids |->
          IF i \notin received_ids THEN 0
          ELSE missed_answers[i] + IF i \in results THEN 0 ELSE 1]
     /\ last' = [i \in ids |-> IF i \in results THEN begun ELSE last[i]]

(* The rest of the loop: statistics of those who answered and of those who *)
(* did not, some of them for more than 10 s.                               *)
UpdateStatistics(deleted) ==
  LET ids == (received_ids \cup results) \ deleted
  IN /\ measure_count' = [i \in ids |-> IF i \in received_ids THEN measure_count[i] + 1 ELSE 1]
     /\ missed_answers' = [i \in ids |->
          IF i \notin received_ids THEN 0
          ELSE missed_answers[i] + IF i \in results THEN 0 ELSE 1]
     /\ last' = [i \in ids |-> IF i \in results THEN begun ELSE last[i]]

Publish ==
  /\ measurer = "publish"
  /\ \E deleted \in SUBSET (received_ids \ results) : UpdateStatistics(deleted)
  /\ measurer' = "loop"
  /\ wait_count' = 0 /\ results' = {}
  /\ UNCHANGED <<requested, round, begun, receive_times, reader, network, control>>

MeasurerStep ==
  LoopEnds \/ IncrementCount \/ Clear \/ SendRequest \/ Poll \/ Settle \/ Publish

-----------------------------------------------------------------------------
(* The programs that answer, and the answers                               *)

Answer(m) ==
  /\ m \in requests
  /\ requests' = requests \ {m}
  /\ answers' = answers \cup {m}
  /\ UNCHANGED <<tool, incoming, statistics, control>>

AcceptAny(m) == requested

(* The condition of the reader's callback.  An answer does not travel as   *)
(* long as the counter needs to come round.                                *)
Accepted(m) == requested /\ m.round % CountMod = round % CountMod

Receive(m) ==
  /\ reader = {} /\ m \in answers
  /\ answers' = answers \ {m}
  /\ IF Accepted(m)
     THEN reader' = {m}
     ELSE UNCHANGED reader
  /\ UNCHANGED <<tool, requests, receive_times, statistics, control>>

Store ==
  /\ reader # {} /\ MutexFree
  /\ receive_times' = receive_times \cup reader
  /\ reader' = {}
  /\ UNCHANGED <<tool, network, statistics, control>>

(* A message is lost, or has travelled too long.                           *)
Lose(m) ==
  /\ m \in requests \cup answers
  /\ requests' = requests \ {m} /\ answers' = answers \ {m}
  /\ UNCHANGED <<tool, incoming, statistics, control>>

Travels == \A m \in requests \cup answers : round < m.round + CountMod - 1

-----------------------------------------------------------------------------
(* The GTK thread                                                          *)

(* stop_measurement and restart_measurement begin with destroy_rtt_thread. *)
DestroyThread(call) ==
  /\ gtk = "idle" /\ restarts < Restarts
  /\ run_rtt_thread' = FALSE
  /\ gtk' = call /\ restarts' = restarts + 1
  /\ UNCHANGED <<tool, network, incoming, statistics, generation>>

NotJoined ==
  /\ gtk # "idle" /\ gtk' = "idle"
  /\ IF gtk = "stop"
     THEN UNCHANGED <<measurer, statistics, run_rtt_thread, generation>>
     ELSE /\ measure_count' = Empty /\ missed_answers' = Empty /\ last' = Empty
          /\ run_rtt_thread' = TRUE /\ generation' = generation + 1
          /\ measurer' = IF measurer = "off" THEN "loop" ELSE measurer
  /\ UNCHANGED <<wait_count, requested, round, results, begun, network, incoming, restarts>>

(* The join; a restart then clears all statistics and creates a thread.    *)
Joined ==
  /\ gtk # "idle" /\ measurer = "off"
  /\ gtk' = "idle"
  /\ IF gtk = "stop"
     THEN UNCHANGED <<measurer, statistics, run_rtt_thread, generation>>
     ELSE /\ measure_count' = Empty /\ missed_answers' = Empty /\ last' = Empty
          /\ run_rtt_thread' = TRUE /\ generation' = generation + 1
          /\ measurer' = "loop"
  /\ UNCHANGED <<wait_count, requested, round, results, begun, network, incoming, restarts>>

Next ==
  \/ MeasurerStep /\ (Travels \/ round' = round)
  \/ \E m \in Message : Answer(m) \/ Receive(m) \/ Lose(m)
  \/ Store
  \/ \E call \in {"stop", "restart"} : DestroyThread(call)
  \/ Joined

Spec == Init /\ [][Next]_vars

(* Threads are scheduled, and messages that travel too long are lost.      *)
Fairness ==
  /\ WF_vars(MeasurerStep /\ (Travels \/ round' = round))
  /\ WF_vars(Joined) /\ WF_vars(Store)
  /\ WF_vars(\E m \in Message : Lose(m))

FairSpec == Spec /\ Fairness

-----------------------------------------------------------------------------
(* PROPERTIES                                                              *)

(* Of the answers to earlier requests, which the increment of the counter  *)
(* is to discard, at most one gets into a measurement: that for which the  *)
(* reader thread waits at the mutex.                                       *)
AtMostOneStale ==
  measurer \in {"start", "poll", "settle"} =>
    \A m, n \in receive_times : m.round # round /\ n.round # round => m = n

(* "Percentage of missed answers for this participant (Measured from first *)
(* received answer)" (RTTAggregator.hpp): what is stored about a program   *)
(* stems from measurements since the last restart, and not all missed it.  *)
FreshAfterRestart ==
  gtk = "idle" => \A i \in received_ids :
    last[i] = generation /\ missed_answers[i] < measure_count[i]

(* Neither stop_measurement nor restart_measurement blocks the GTK thread  *)
(* for ever.                                                               *)
RestartReturns == gtk # "idle" ~> gtk = "idle"

=============================================================================

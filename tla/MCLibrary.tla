----------------------------- MODULE MCLibrary -----------------------------
(***************************************************************************)
(* Parts of the library, and the list of the logs that it sends, one at a  *)
(* time: the variable part selects the one that runs, the others stay as   *)
(* they are.  The timer of TimerThread is a TimerSimulated that two        *)
(* threads may stop; Blocking is a TimerFD whose start() blocks and whose  *)
(* stop callback calls stop().  The other parts are those of Library.      *)
(***************************************************************************)
EXTENDS TimerThread, Library, FiniteSets, TLC

CONSTANTS main, gtk,     (* threads                                        *)
          vehicle, program

Types == <<"bool", "ints">>
WantedTypes == program :> "ints"
Levels == <<1, 2, 1, 1>>
Filters == "f" :> {1, 4} @@ "g" :> {2, 3}

VARIABLE part

VARIABLES b_active, b_cancelled, b_joinable, b_join_mutex, b_runner, b_stop_pc, b_trigger,
          b_terminated, b_starts
Blocking == INSTANCE TimerThread WITH
  Async <- FALSE, Realtime <- TRUE, StopCallback <- "stop",
  active <- b_active, cancelled <- b_cancelled, joinable <- b_joinable,
  join_mutex <- b_join_mutex, runner <- b_runner, stop_pc <- b_stop_pc,
  trigger <- b_trigger, terminated <- b_terminated, starts <- b_starts

timer == vars
blocking == <<b_active, b_cancelled, b_joinable, b_join_mutex, b_runner, b_stop_pc, b_trigger,
              b_terminated, b_starts>>
deadlines == <<time, start_point, deadline, expired, pc, called, internal_timer_counter, simple>>
selection == <<arrivals, dds_reader, buffer, received, now, sample_out>>
parameters == <<storage, version, handler, delayed, matched, param_requested, samples, cache,
                got, overlap>>
roundtrip == <<measurer, wait_count, requested, round, receive_times, reader, requests, answers,
               results, measure_count, missed_answers, last, run_rtt_thread, gtk_pc,
               generation, restarts, begun>>
logs == <<l_received, log_storage, log_buffer, log_level, filter_active, search_reset, reset_logs,
          text, l_gtk, searches, search_thread_running, search_future, list, shows, clicks,
          old, renewed>>

-----------------------------------------------------------------------------
Alone(p) == part = p /\ part' = p

MCInit ==
  /\ part \in {"timer", "blocking", "deadlines", "samples", "parameters", "roundtrip", "logs"}
  /\ Init /\ Blocking!Init /\ Deadlines!Init /\ Samples!Init /\ Params!Init /\ Rtt!Init
  /\ LogList!Init
  /\ part = "deadlines" \/ time = 0

MCNext ==
  \/ Alone("timer") /\ Next
       /\ UNCHANGED <<blocking, deadlines, selection, parameters, roundtrip, logs>>
  \/ Alone("blocking") /\ Blocking!Next
       /\ UNCHANGED <<timer, deadlines, selection, parameters, roundtrip, logs>>
  \/ Alone("deadlines") /\ Deadlines!Next
       /\ UNCHANGED <<timer, blocking, selection, parameters, roundtrip, logs>>
  \/ Alone("samples") /\ Samples!Next
       /\ UNCHANGED <<timer, blocking, deadlines, parameters, roundtrip, logs>>
  \/ Alone("parameters") /\ Params!Next
       /\ UNCHANGED <<timer, blocking, deadlines, selection, roundtrip, logs>>
  \/ Alone("roundtrip") /\ Rtt!Next
       /\ UNCHANGED <<timer, blocking, deadlines, selection, parameters, logs>>
  \/ Alone("logs") /\ LogList!Next
       /\ UNCHANGED <<timer, blocking, deadlines, selection, parameters, roundtrip>>

mcvars == <<part, timer, blocking, deadlines, selection, parameters, roundtrip, logs>>

(* The timer that stands still needs no step; the properties of the other  *)
(* parts name the fairness they need.                                      *)
MCSpec == MCInit /\ [][MCNext]_mcvars /\ Fairness

-----------------------------------------------------------------------------
(* No instant is missed, and a late timer goes on at the nearest instant   *)
(* that is still to come.                                                  *)
DeadlinesMet == Deadlines!CatchesUp /\ (Deadlines!Fairness => Deadlines!DeadlineIsMet)

(* Nobody waits for ever, or for the reason that is named: stop() waits    *)
(* for a trigger only, also a blocking start() ends when it is stopped,    *)
(* every program gets the parameter it asks for, and the measuring thread  *)
(* can be joined.                                                          *)
WaitsEnd ==
  /\ StopWaitsForTrigger
  /\ Blocking!Fairness => Blocking!StopEndsStart
  /\ Params!Fairness => Params!EverybodyGetsIt
  /\ Rtt!Fairness => Rtt!RestartReturns

(* Once the user is done the list ends up with the result of the last      *)
(* search, or with the newest logs.                                        *)
LogsFinallyShown == LogList!Fairness => LogList!FinallyShown
=============================================================================

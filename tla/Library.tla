------------------------------ MODULE Library -------------------------------
(***************************************************************************)
(* Parts of the library, and the list of the logs that it sends, that do   *)
(* not interact, each with variables of its own: the instants of a TimerFD *)
(* (TimerDeadlines), the sample that a reader chooses (NewestSample), a    *)
(* parameter (Parameters), round trip times (RoundTrip), and the logs as   *)
(* the LCC shows them (LogView).                                           *)
(***************************************************************************)
EXTENDS Naturals, Sequences

CONSTANTS
  Word, Period, Offset, SimplePeriod, Tick, LastTime,      (* TimerDeadlines *)
  Vehicle, LastStamp, Depth, Arrivals,                     (* NewestSample   *)
  TypeOrder, Program, Wanted, Changes,                     (* Parameters     *)
  Id, CountMod, MaxWait, Rounds, Restarts,                 (* RoundTrip      *)
  LevelOf, Matches, MaxStorage, MaxBuffer, max_log_amount, Clicks  (* LogView *)

VARIABLES time, start_point, deadline, expired, pc, called, internal_timer_counter, simple
Deadlines == INSTANCE TimerDeadlines

VARIABLES arrivals, dds_reader, buffer, received, now, sample_out
Samples == INSTANCE NewestSample

VARIABLES storage, version, handler, delayed, matched, param_requested, samples, cache, got, overlap
Params == INSTANCE Parameters WITH requested <- param_requested

VARIABLES measurer, wait_count, requested, round, receive_times, reader, requests, answers,
          results, measure_count, missed_answers, last, run_rtt_thread, gtk_pc,
          generation, restarts, begun
Rtt == INSTANCE RoundTrip WITH gtk <- gtk_pc

VARIABLES l_received, log_storage, log_buffer, log_level, filter_active, search_reset, reset_logs,
          text, l_gtk, searches, search_thread_running, search_future, list, shows, clicks,
          old, renewed
LogList == INSTANCE LogView WITH received <- l_received, gtk <- l_gtk

-----------------------------------------------------------------------------
(* Times are nanoseconds since 1970, whose sums stay below 2^64.  The      *)
(* constructor of a TimerFD refuses an offset that is not below the        *)
(* period; the TimerFD of a SimpleTimer has the period of the tick.        *)
ASSUME TimesAssumption ==
  /\ Period \in Nat \ {0} /\ Offset \in 0 .. Period - 1 /\ LastTime \in Nat
  /\ Word \in Nat /\ LastTime + 2 * Period < Word
ASSUME TickAssumption ==
  Tick = Period /\ SimplePeriod \in Nat \ {0} /\ SimplePeriod % Tick = 0

(* Programs ask for parameters of types there are.                         *)
ASSUME ParameterAssumption ==
  /\ Len(TypeOrder) \in Nat \ {0} /\ DOMAIN TypeOrder = 1 .. Len(TypeOrder)
  /\ \A p \in Program : Wanted[p] \in Params!Type
  /\ Changes \in Nat

ASSUME RoundTripAssumption ==
  CountMod \in Nat \ {0} /\ MaxWait \in Nat /\ Rounds \in Nat /\ Restarts \in Nat

(* What is shown of the logs is no more than what waits to be shown, and   *)
(* that no more than what is stored (100, 100 and 10000).                  *)
ASSUME LogAssumption ==
  /\ LevelOf \in Seq(Nat) /\ Clicks \in Nat
  /\ DOMAIN Matches \cap {"logs", "searching"} = {}
  /\ MaxStorage \in Nat /\ MaxBuffer \in Nat /\ max_log_amount \in Nat
  /\ max_log_amount <= MaxBuffer /\ MaxBuffer <= MaxStorage

-----------------------------------------------------------------------------
(* All timers compute at the instants of the same grid, from the start     *)
(* signal on, and a SimpleTimer keeps its period.                          *)
PeriodsKept == Deadlines!TypeOK /\ Deadlines!OnTheGrid /\ Deadlines!SimplePeriodKept

(* A reader returns the newest valid sample of all it ever received.       *)
NewestIsFound == Samples!TypeOK /\ Samples!NewestIsFound

(* A published parameter is the current one.                               *)
UpToDate == Params!TypeOK /\ Params!UpToDate

(* Old answers get into a measurement one at a time, and a restart forgets *)
(* everything that was measured before.                                    *)
MeasurementsFresh == Rtt!TypeOK /\ Rtt!AtMostOneStale /\ Rtt!FreshAfterRestart

(* The list of logs is of the search or the level the user chose, misses   *)
(* none of the newest, repeats none but those in the buffer when it was    *)
(* made anew, and has none from before a reset.                            *)
LogsShown ==
  /\ LogList!TypeOK
  /\ LogList!SearchIsForText /\ LogList!NothingMissed
  /\ LogList!NeverMoreThanTwice /\ LogList!OldLogsGone
=============================================================================

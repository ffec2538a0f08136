--------------------------- MODULE TimerDeadlines ---------------------------
(***************************************************************************)
(* The deadlines of a cpm::TimerFD and of the cpm::SimpleTimer on top of   *)
(* it, in unsigned arithmetic: the first deadline after a start signal,    *)
(* the expirations of the timer descriptor, callbacks that take too long   *)
(* and the correction of the deadline after them.                          *)
(***************************************************************************)
EXTENDS Naturals

CONSTANTS
  Word,        (* numbers are taken modulo Word (2^64)                     *)
  Period, Offset,
  SimplePeriod, Tick,  (* the period of the SimpleTimer and its 50 ms      *)
  LastTime     (* bound: time                                              *)

VARIABLES
  time,        (* CLOCK_REALTIME                                           *)
  start_point,
  deadline,
  expired,     (* the descriptor has expired since it was read             *)
  pc,          (* "start", "wait", "awake" (read has returned), "callback" *)
  called,      (* history: the argument of the last callback, a set        *)
  internal_timer_counter,
  simple       (* history: the arguments of the last two callbacks of the  *)
               (* SimpleTimer                                              *)

vars == <<time, start_point, deadline, expired, pc, called, internal_timer_counter, simple>>

TypeOK ==
  /\ time \in 0 .. LastTime
  /\ {start_point, deadline} \subseteq 0 .. Word - 1
  /\ expired \in BOOLEAN
  /\ pc \in {"start", "wait", "awake", "callback"}
  /\ called \in SUBSET (0 .. Word - 1)
  /\ internal_timer_counter \in Nat
  /\ simple \in SUBSET (0 .. Word - 1)

counter_max == SimplePeriod \div Tick

Init ==
  /\ time \in 0 .. LastTime
  /\ start_point = 0 /\ deadline = 0 /\ expired = FALSE
  /\ pc = "start" /\ called = {}
  /\ internal_timer_counter = counter_max   (* "Send first message at start" *)
  /\ simple = {}

Minus(a, b) == (a + Word - b) % Word
Plus(a, b) == (a + b) % Word

RoundDown(start) == Plus((Minus(start, Offset) \div Period) * Period, Offset)

(* The first deadline.                                                     *)
FirstDeadline(start) ==
  IF Minus(start, Offset) % Period = 0
  THEN start
  ELSE Plus((Minus(start, Offset) \div Period + 1) * Period, Offset)

(* "A zero value disarms the timer, overwrite with a negligible 1 ns."     *)
FirstExpiration == IF Offset = 0 THEN 1 ELSE Offset

(* Start, with a start signal or with the time of a timer that does not    *)
(* wait for one.  The descriptor was armed before, for the offset and      *)
(* every period after it.                                                  *)
Start(start) ==
  /\ pc = "start" /\ pc' = "wait"
  /\ start_point' = start
  /\ deadline' = FirstDeadline(start)
  /\ expired' = (time >= FirstExpiration)
  /\ UNCHANGED <<time, called, internal_timer_counter, simple>>

OneShot ==
  /\ time < LastTime
  /\ time' = time + 1
  /\ expired' = (expired \/ (pc # "start" /\ time' = FirstExpiration))
  /\ UNCHANGED <<start_point, deadline, pc, called, internal_timer_counter, simple>>

(* Time passes; the descriptor expires at its instants.                    *)
Pass ==
  /\ time < LastTime
  /\ time' = time + 1
  /\ expired' = (expired \/ (pc # "start" /\ time' >= FirstExpiration
                                /\ (time' - FirstExpiration) % Period = 0))
  /\ UNCHANGED <<start_point, deadline, pc, called, internal_timer_counter, simple>>

(* read returns when the descriptor has expired since the last read.       *)
Read ==
  /\ pc = "wait" /\ expired
  /\ expired' = FALSE /\ pc' = "awake"
  /\ UNCHANGED <<time, start_point, deadline, called, internal_timer_counter, simple>>

TooEarly ==
  /\ pc = "awake" /\ time < deadline
  /\ pc' = "wait"
  /\ UNCHANGED <<time, start_point, deadline, expired, called, internal_timer_counter, simple>>

Later(s, t) == {x \in s : \A y \in s : y <= x} \cup {t}

ResetToOne ==
  IF internal_timer_counter + 1 >= counter_max
  THEN internal_timer_counter' = 1 /\ simple' = Later(simple, deadline)
  ELSE internal_timer_counter' = internal_timer_counter + 1 /\ UNCHANGED simple

(* simple_timer_callback.                                                  *)
SimpleCallback ==
  IF internal_timer_counter + 1 >= counter_max
  THEN internal_timer_counter' = 0 /\ simple' = Later(simple, deadline)
  ELSE internal_timer_counter' = internal_timer_counter + 1 /\ UNCHANGED simple

Callback ==
  /\ pc = "awake" /\ time >= deadline
  /\ pc' = "callback"
  /\ called' = Later(called, deadline)
  /\ SimpleCallback
  /\ UNCHANGED <<time, start_point, deadline, expired>>

OnePeriod(d) == IF time >= Plus(d, Period) THEN Plus(d, 2 * Period) ELSE Plus(d, Period)

(* "deadline += period_nanoseconds", and "correction to next deadline".    *)
NextDeadline(d) ==
  LET next == Plus(d, Period)
  IN IF time >= next
     THEN Plus(next, (Minus(time, next) \div Period + 1) * Period)
     ELSE next

(* The callback returns.                                                   *)
Return ==
  /\ pc = "callback" /\ pc' = "wait"
  /\ deadline' = NextDeadline(deadline)
  /\ UNCHANGED <<time, start_point, expired, called, internal_timer_counter, simple>>

Next ==
  \/ \E start \in Offset .. LastTime : Start(start)
  \/ Pass \/ Read \/ TooEarly \/ Callback \/ Return

Spec == Init /\ [][Next]_vars

(* Time goes on, the thread runs.                                          *)
Fairness ==
  WF_vars(Pass) /\ WF_vars(Read) /\ WF_vars(TooEarly \/ Callback) /\ WF_vars(Return)

FairSpec == Spec /\ Fairness

-----------------------------------------------------------------------------
(* PROPERTIES                                                              *)

OnGrid(t) == t >= Offset /\ (t - Offset) % Period = 0

(* All timers of the network compute at the same instants, offset plus a   *)
(* multiple of the period, whenever they are started, and none before the  *)
(* start point or before the instant has come.                             *)
OnTheGrid ==
  \A t \in called : OnGrid(t) /\ t >= start_point /\ t <= time

(* A callback that took longer than a period does not make the timer run   *)
(* behind the clock: the next instant is always in the future, and the     *)
(* nearest one.                                                            *)
CatchesUp ==
  [][pc = "callback" /\ pc' = "wait" => deadline' > time /\ deadline' <= time + Period]_vars

(* The instant waited for is not missed: the descriptor expires at it, so  *)
(* the callback comes as long as time goes on.                             *)
DeadlineIsMet ==
  pc = "wait" /\ deadline <= LastTime ~> pc = "callback"

(* The SimpleTimer "is called periodically with a period of                *)
(* period_milliseconds" (SimpleTimer.hpp), which is a multiple of 50.      *)
SimplePeriodKept ==
  \A s, t \in simple : s < t => t - s >= SimplePeriod

=============================================================================

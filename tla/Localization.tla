---------------------------- MODULE Localization ----------------------------
(***************************************************************************)
(* The pose filter of a vehicle (Localization.cxx): it "saves a history of *)
(* its state, so the filter update can be recomputed when delayed          *)
(* observations arrive".  A pose is written down as the updates it was     *)
(* computed by: a step of dead reckoning between two readings of the       *)
(* sensors, and the correction by an observation (0: none).                *)
(***************************************************************************)
EXTENDS Naturals, Sequences, SequencesExt

CONSTANTS
  LOCALIZATION_BUFFER_SIZE,  (* 512                                        *)
  period,                    (* nanoseconds of a period, here a few        *)
  MaxAge,                    (* nanoseconds until an observation is too old (10 s) *)
  ResetPeriod,               (* loop_count at which the filter is reset (25) *)
  Periods,                   (* bound: periods                             *)
  Observations,              (* bound: observations                        *)
  Failures                   (* bound: failed exchanges with the ATmega and *)
                             (* DDS exceptions                             *)

VARIABLES
  cycles,          (* periods so far                                       *)
  loop_count,      (* those that ended without a DDS exception             *)
  state_buffer, state_buffer_index,
  observed,        (* times of the observations made, newest last          *)
  sample,          (* the one the reader returns; 0: none yet              *)
  failures,
  log,             (* history: t and sensors of all updates                *)
  handed,          (* history: the observations given to an update         *)
  reset_at         (* history: the period of the reset; 0: none yet        *)

vars == <<cycles, loop_count, state_buffer, state_buffer_index, observed, sample, failures, log,
          handed, reset_at>>

Newest == LOCALIZATION_BUFFER_SIZE - 1
Slot == 0 .. Newest
Start == 10 * period            (* the clock does not begin with 0         *)
Zero == <<>>                    (* Pose2D(0, 0, 0)                         *)
TimeOf(n) == Start + n * period
Observation == 0 .. TimeOf(Periods + 1)

TypeOK ==
  /\ cycles \in 0 .. Periods /\ loop_count \in 0 .. cycles /\ reset_at \in 0 .. cycles
  /\ \A i \in Slot : LET s == state_buffer[i]
       IN /\ s.t \in Observation /\ s.sensors \in 0 .. Periods
          /\ s.observation \in Observation /\ s.pose \in Seq(Nat \X Nat \X Observation)
  /\ state_buffer_index \in Slot
  /\ observed \in Seq(Observation) /\ sample \in Observation
  /\ failures \in 0 .. Failures
  /\ \A i \in DOMAIN log : log[i] \in [t : Observation, sensors : 1 .. Periods]
  /\ handed \subseteq Observation

(* has_valid_observation is false as long as the observation is 0.         *)
State(t, sensors) == [t |-> t, sensors |-> sensors, observation |-> 0, pose |-> Zero]

Init ==
  /\ cycles = 0 /\ loop_count = 0 /\ reset_at = 0
  /\ state_buffer = [i \in Slot |-> State(0, 0)]
  /\ state_buffer_index = 0
  /\ observed = <<>> /\ sample = 0 /\ failures = 0
  /\ log = <<>> /\ handed = {}

-----------------------------------------------------------------------------
(* The positioning system observes the vehicle, at most once in a period;  *)
(* observations take a while, and some never arrive.                       *)
Observe ==
  /\ Len(observed) < Observations
  /\ \E t \in TimeOf(cycles) .. TimeOf(cycles) + period - 1 :
       /\ t > Start
       /\ \A i \in DOMAIN observed : observed[i] < TimeOf(cycles)
       /\ observed' = Append(observed, t)
  /\ UNCHANGED <<cycles, loop_count, reset_at, state_buffer, state_buffer_index, sample, failures, log, handed>>

(* Reader::get_sample returns the newest there is.                         *)
Arrive ==
  /\ \E i \in DOMAIN observed : observed[i] > sample /\ sample' = observed[i]
  /\ UNCHANGED <<cycles, loop_count, reset_at, state_buffer, state_buffer_index, observed, failures, log, handed>>

-----------------------------------------------------------------------------
(* The filter                                                              *)

(* filter_update_step.                                                     *)
FilterUpdate(previous, current) ==
  [current EXCEPT !.pose =
     Append(previous.pose, <<previous.sensors, current.sensors, current.observation>>)]

(* get_state: the index of the i-th state, the oldest is the 0th.          *)
Index(i, first) == (i + first) % LOCALIZATION_BUFFER_SIZE

(* write_next_state, and the update of the new state.                      *)
Advance(t, sensors) ==
  LET previous == state_buffer[Index(Newest, state_buffer_index)]
  IN [state_buffer EXCEPT ![state_buffer_index] = FilterUpdate(previous, State(t, sensors))]

(* Mutant: the state that begins after the observation.                    *)
NextState(buffer, first) ==
  {i \in 1 .. Newest : LET t == buffer[Index(i, first)].t IN t > sample /\ sample + period >= t}

(* "search for state index corresponding to the given observation".        *)
Corresponding(buffer, first) ==
  {i \in 1 .. Newest : LET t == buffer[Index(i, first)].t IN t <= sample /\ sample < t + period}

(* Mutant: only the state of the observation is computed again.            *)
ReprocessOne(buffer, first, start) ==
  [buffer EXCEPT ![Index(start, first)] =
     FilterUpdate(buffer[Index(start - 1, first)], [@ EXCEPT !.observation = sample])]

(* All states from that of the observation to the newest.                  *)
Reprocess(buffer, first, start) ==
  FoldLeft(LAMBDA b, i : [b EXCEPT ![Index(i, first)] = FilterUpdate(b[Index(i - 1, first)], @)],
           [buffer EXCEPT ![Index(start, first)].observation = sample],
           [k \in 1 .. Newest - start + 1 |-> start + k - 1])

(* reset: the poses, but not the observations.                             *)
Reset(buffer) == [i \in Slot |-> [buffer[i] EXCEPT !.pose = Zero]]

(* How main ends a period, also one without an exchange ...                *)
Done(buffer) ==
  /\ loop_count' = loop_count + 1
  /\ IF loop_count = ResetPeriod THEN state_buffer' = Reset(buffer) /\ reset_at' = cycles + 1
                                 ELSE state_buffer' = buffer /\ reset_at' = reset_at

(* ... but for one with a DDS exception.                                   *)
Thrown(buffer) ==
  /\ failures < Failures /\ failures' = failures + 1
  /\ state_buffer' = buffer /\ UNCHANGED <<loop_count, reset_at>>

Cycle == cycles < Periods /\ cycles' = cycles + 1

(* The reader has a sample, and it is not too old.                         *)
Recent(time) == sample > 0 /\ time - sample < MaxAge

(* The update callback of main in a period in which the exchange with the  *)
(* ATmega works, with Localization::update; then the vehicle state is      *)
(* written, which may throw.                                               *)
Update ==
  LET number == cycles + 1
      first == (state_buffer_index + 1) % LOCALIZATION_BUFFER_SIZE
      buffer == Advance(TimeOf(number), number)
      found == IF Recent(TimeOf(number)) THEN Corresponding(buffer, first) ELSE {}
      start == CHOOSE i \in found : \A j \in found : j <= i
      filtered == IF found # {} /\ buffer[Index(start, first)].observation = 0
                  THEN Reprocess(buffer, first, start) ELSE buffer
  IN /\ Cycle
     /\ state_buffer_index' = first
     /\ (Done(filtered) /\ failures' = failures) \/ Thrown(filtered)
     /\ log' = Append(log, [t |-> TimeOf(number), sensors |-> number])
     /\ handed' = handed \cup
          {o \in {sample} : /\ Recent(TimeOf(number))
                            /\ \E i \in DOMAIN log' : /\ i > Len(log') - Newest
                                                      /\ log'[i].t <= o /\ o < log'[i].t + period}
     /\ UNCHANGED <<observed, sample>>

(* ... in one in which it does not ...                                     *)
Failure ==
  /\ Cycle /\ failures < Failures /\ failures' = failures + 1
  /\ Done(state_buffer)
  /\ UNCHANGED <<state_buffer_index, observed, sample, log, handed>>

(* ... and in one that does not come so far.                               *)
Throw ==
  /\ Cycle /\ Thrown(state_buffer)
  /\ UNCHANGED <<state_buffer_index, observed, sample, log, handed>>

Next == Observe \/ Arrive \/ Update \/ Failure \/ Throw

Spec == Init /\ [][Next]_vars

-----------------------------------------------------------------------------
(* PROPERTIES                                                              *)

(* The filter that knows all observations in advance, over what was logged. *)
FilterStep(previous, entry) ==
  LET in_time == {o \in handed : entry.t <= o /\ o < entry.t + period}
      observation == IF in_time = {} THEN 0 ELSE CHOOSE o \in in_time : TRUE
  IN [sensors |-> entry.sensors,
      pose |-> Append(previous.pose, <<previous.sensors, entry.sensors, observation>>)]

(* "so the filter update can be recomputed when delayed observations       *)
(* arrive" (Localization.hpp): whatever the delays, the order in which     *)
(* observations arrive and the periods without an exchange, the pose is    *)
(* the one of a filter that had every observation at its time.  Up to the  *)
(* reset.                                                                  *)
AsIfNeverLate ==
  reset_at = 0 =>
    state_buffer[Index(Newest, state_buffer_index)].pose =
      FoldLeft(FilterStep, [sensors |-> 0, pose |-> Zero], log).pose

(* After the reset as well, every later pose is the one before it with one *)
(* update, so that the vehicle does not jump for another reason.           *)
HistoryConsistent ==
  \A i \in 1 .. Newest :
    LET previous == state_buffer[Index(i - 1, state_buffer_index)]
        current == state_buffer[Index(i, state_buffer_index)]
    IN current.sensors > 0 /\ (reset_at = 0 \/ current.sensors > reset_at)
         => current.pose = FilterUpdate(previous, current).pose

=============================================================================

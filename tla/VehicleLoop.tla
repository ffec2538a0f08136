---------------------------- MODULE VehicleLoop ----------------------------
(***************************************************************************)
(* The control loop of a vehicle (mid_level_controller): what it takes     *)
(* from the network in a period, which command it follows, and how the     *)
(* stop signal of an experiment makes it forget the commands of that       *)
(* experiment.  Time is counted in periods of 20 ms; a message is kept in  *)
(* a reader that returns the newest one (NewestSample).                    *)
(***************************************************************************)
EXTENDS Naturals, Sequences

CONSTANTS
  Kinds,           (* the kinds of commands in use, as receive_commands    *)
                   (* prefers them                                         *)
  STOP_STEPS,      (* periods a vehicle stands after a stop signal (50)    *)
  CommandTimeout,  (* command_timeout in periods (50)                      *)
  IpsTimeout,      (* IPS_update_age_nanoseconds allowed, in periods (150) *)
  Ahead,           (* a command is valid up to so many periods after it was sent *)
  Transit,         (* periods until a command has arrived or is lost       *)
  Periods,         (* bound: periods                                       *)
  Commands,        (* bound: commands                                      *)
  Experiments,     (* bound: experiments                                   *)
  Failures         (* bound: exceptions and failed transfers               *)

Kind == {Kinds[i] : i \in DOMAIN Kinds}
LocalizationNeeded == {"trajectory", "path_tracking"}
Stop == [kind |-> "stop"]
Silence == [kind |-> "silence"]   (* no exchange: the ATmega goes on until its watchdog *)

VARIABLES
  t_now,
  experiment,
  stop_signal,               (* it is in the reader of the timer           *)
  sent, network, readers,    (* commands sent so far, on their way, in the *)
                             (* readers of the controller                  *)
  observation,               (* when the latest position was observed      *)
  stop_counter,
  state,                     (* ControllerState                            *)
  ips_age,                   (* m_vehicleState.IPS_update_age_nanoseconds  *)
  failures,
  signals,                   (* history: what motor and servo follow in    *)
                             (* this period                                *)
  exchanged,                 (* history: its transfer was successful       *)
  stopped                    (* history: experiment and time of the last   *)
                             (* stop signal the vehicle has taken          *)

traffic == <<experiment, sent, network>>
vars == <<t_now, stop_signal, traffic, readers, observation, stop_counter, state, ips_age,
          failures, signals, exchanged, stopped>>

Start == IpsTimeout + 2      (* no position is known at the start          *)
Time == Start .. Start + Periods
Command == [kind : Kind, experiment : 1 .. Experiments, create : Time, ahead : 0 .. Ahead]

TypeOK ==
  /\ t_now \in Time /\ experiment \in 1 .. Experiments /\ stop_signal \in BOOLEAN
  /\ sent \in 0 .. Commands /\ network \subseteq Command /\ readers \subseteq Command
  /\ observation \in {0} \cup Time
  /\ stop_counter \in 0 .. STOP_STEPS /\ state \in Kind \cup {"stop"}
  /\ ips_age \in 0 .. Start + Periods
  /\ failures \in 0 .. Failures
  /\ signals \in Command \cup {Stop, Silence} /\ exchanged \in BOOLEAN
  /\ stopped \in [experiment : 0 .. Experiments, time : {0} \cup Time]

Init ==
  /\ t_now = Start
  /\ experiment = 1 /\ stop_signal = FALSE
  /\ sent = 0 /\ network = {} /\ readers = {}
  /\ observation = 0
  /\ stop_counter = 0 /\ state = "stop" /\ ips_age = 0
  /\ failures = 0
  /\ signals = Stop /\ exchanged = FALSE
  /\ stopped = [experiment |-> 0, time |-> 0]

-----------------------------------------------------------------------------
(* What reaches the vehicle                                                *)

(* An HLC of the running experiment writes a command.                      *)
Send ==
  /\ sent < Commands /\ sent' = sent + 1
  /\ \E kind \in Kind, ahead \in {0, Ahead} : network' = network \cup
       {[kind |-> kind, experiment |-> experiment, create |-> t_now, ahead |-> ahead]}
  /\ UNCHANGED <<t_now, experiment, stop_signal, readers, observation, stop_counter, state,
                 ips_age, failures, signals, exchanged, stopped>>

(* One of them arrives, or is lost.                                        *)
Arrive ==
  /\ \E c \in network :
       /\ network' = network \ {c}
       /\ readers' \in {readers \cup {c}, readers}
  /\ UNCHANGED <<t_now, experiment, stop_signal, sent, observation, stop_counter, state,
                 ips_age, failures, signals, exchanged, stopped>>

(* The experiment is stopped; the next one may begin at once.              *)
EndExperiment ==
  /\ experiment < Experiments /\ ~stop_signal
  /\ experiment' = experiment + 1
  /\ stop_signal' = TRUE
  /\ UNCHANGED <<t_now, sent, network, readers, observation, stop_counter, state, ips_age,
                 failures, signals, exchanged, stopped>>

Observe ==
  /\ observation # t_now /\ observation' = t_now
  /\ UNCHANGED <<t_now, stop_signal, traffic, readers, stop_counter, state, ips_age,
                 failures, signals, exchanged, stopped>>

-----------------------------------------------------------------------------
(* The controller                                                          *)

ValidAt(c, now) == c.create + c.ahead <= now
Fresh(c, now) == now < c.create + c.ahead + CommandTimeout

(* Reader::get_sample: of the commands that are valid, one created last.   *)
Samples(kind, now) ==
  LET valid == {c \in readers : c.kind = kind /\ ValidAt(c, now)}
  IN {c \in valid : \A d \in valid : d.create <= c.create}

(* What get_sample leaves in the buffers of the readers.                   *)
Buffered(now) == {c \in readers : \A s \in Samples(c.kind, now) : s.create <= c.create}

(* receive_commands: the first kind whose sample is not too old.           *)
ReceiveCommands(now) ==
  LET fresh == {i \in DOMAIN Kinds : \E c \in Samples(Kinds[i], now) : Fresh(c, now)}
  IN IF fresh = {} THEN {Stop}
     ELSE LET first == CHOOSE i \in fresh : \A j \in fresh : i <= j
          IN {c \in Samples(Kinds[first], now) : Fresh(c, now)}

(* Mutant: only a trajectory needs a position.                             *)
IpsLostSometimes(c) == c.kind = "trajectory" /\ ips_age > IpsTimeout

(* "Lost IPS position reference."                                          *)
IpsLost(c) == c.kind \in LocalizationNeeded /\ ips_age > IpsTimeout

(* get_control_signals, or get_stop_signals after a stop signal.           *)
Signals(now) ==
  IF stop_counter > 0 THEN {Stop}
  ELSE {IF IpsLost(c) THEN Stop ELSE c : c \in ReceiveCommands(now)}

(* Mutant: only the state is reset.                                        *)
ResetState(kept) == readers' = kept

(* reset: new readers.                                                     *)
Reset(kept) == readers' = {}

-----------------------------------------------------------------------------
(* One period                                                              *)

(* The update callback up to its catch: the vehicle state is updated only  *)
(* after a successful exchange with the ATmega.                            *)
Drive(now) ==
  \E s \in Signals(now), successful \in BOOLEAN :
    /\ successful \/ failures < Failures
    /\ signals' = s
    /\ state' = CASE stop_counter = 0 -> s.kind [] stop_counter = 1 -> "stop" [] OTHER -> state
    /\ exchanged' = successful
    /\ ips_age' = IF successful THEN now - observation ELSE ips_age
    /\ failures' = IF successful THEN failures ELSE failures + 1

(* A dds exception before the exchange (that it also skips the counter of  *)
(* the filter, loop_count, is in Localization).                            *)
Throw ==
  /\ failures < Failures /\ failures' = failures + 1
  /\ signals' = Silence /\ exchanged' = FALSE
  /\ state' = IF stop_counter = 1 THEN "stop" ELSE state
  /\ UNCHANGED ips_age

(* The rest of the callback: the pause after a stop signal ends with a     *)
(* reset of the controller.                                                *)
CountDown(kept) ==
  IF stop_counter = 1 THEN Reset(kept) ELSE readers' = kept

(* Mutant: it counts below zero.                                           *)
PausedAlways == stop_counter - 1
Paused == IF stop_counter > 0 THEN stop_counter - 1 ELSE 0

(* Mutant: a signal during the pause does not start it again.              *)
StopOnlyOnce == stop_counter' = IF stop_signal /\ stop_counter = 0 THEN STOP_STEPS ELSE Paused

(* The stop callback, which the thread of the timer calls next.            *)
StopCallback == stop_counter' = IF stop_signal THEN STOP_STEPS ELSE Paused

Period ==
  /\ t_now < Start + Periods
  /\ \A c \in network : t_now < c.create + Transit
  /\ t_now' = t_now + 1
  /\ \/ /\ Drive(t_now + 1)
        /\ CountDown(IF stop_counter = 0 THEN Buffered(t_now + 1) ELSE readers)
     \/ Throw /\ CountDown(readers)
  /\ StopCallback /\ stop_signal' = FALSE
  /\ stopped' = IF stop_signal THEN [experiment |-> experiment - 1, time |-> t_now + 1] ELSE stopped
  /\ UNCHANGED <<traffic, observation>>

Next == Send \/ Arrive \/ EndExperiment \/ Observe \/ Period

Spec == Init /\ [][Next]_vars

-----------------------------------------------------------------------------
(* PROPERTIES                                                              *)

Follows == signals \notin {Stop, Silence}

(* "Wait to make sure that old messages are ignored" (main.cxx): after a   *)
(* stop signal no command of the experiment it ended is followed, neither  *)
(* one that arrives late nor one that becomes valid late.                  *)
OldCommandsForgotten ==
  Follows /\ t_now # stopped.time => signals.experiment > stopped.experiment

(* "pause for one second": the vehicle stands for STOP_STEPS periods after *)
(* a stop signal, however many there are.                                  *)
StandsAfterStop == Follows => t_now \notin stopped.time + 1 .. stopped.time + STOP_STEPS

(* "Lost IPS position reference. Stopping": a vehicle whose exchange with  *)
(* the ATmega works drives at most one period longer without a position.   *)
LostIpsStops ==
  [][exchanged /\ t_now' # t_now /\ Follows' /\ signals'.kind \in LocalizationNeeded
       => t_now' <= observation + IpsTimeout + 1]_vars

=============================================================================

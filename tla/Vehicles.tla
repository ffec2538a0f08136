------------------------------ MODULE Vehicles ------------------------------
(***************************************************************************)
(* The side of the vehicles: the link between the two controllers of a     *)
(* vehicle (SpiLink) and, each with variables of its own, the control loop *)
(* of the upper one (VehicleLoop), its pose filter (Localization) and the  *)
(* choice of the lights by which the positioning system finds vehicles     *)
(* (DetectVehicles), and the LED by which it tells them apart              *)
(* (Identification).  The loop takes a transfer to be successful or not,   *)
(* and the position to be known since an observation.                      *)
(***************************************************************************)
EXTENDS SpiLink

CONSTANTS
  Kinds, STOP_STEPS, CommandTimeout, IpsTimeout, Ahead, Transit,
  Periods, Commands, Experiments, Failures,   (* as in VehicleLoop         *)
  Candidates,                                 (* vehicle_candidates.size() *)
  LOCALIZATION_BUFFER_SIZE, period, MaxAge, ResetPeriod,
  FilterPeriods, Observations, FilterFailures,  (* as in Localization      *)
  period_ticks, enabled_ticks, MaxFrames, LedFrames,
  Disturbed, Until                              (* as in Identification    *)

(* A vehicle stands after a stop signal for as long as commands of the     *)
(* experiment may be on their way; at the start it has been without a      *)
(* position for longer than that.                                          *)
ASSUME LoopAssumption ==
  /\ STOP_STEPS \in Nat \ {0} /\ Transit \in 0 .. STOP_STEPS
  /\ IpsTimeout \in Nat /\ STOP_STEPS <= IpsTimeout + 2
  /\ CommandTimeout \in Nat /\ Ahead \in Nat
  /\ Periods \in Nat /\ Commands \in Nat /\ Experiments \in Nat \ {0} /\ Failures \in Nat

ASSUME CandidatesAssumption == Candidates \in Nat

ASSUME FilterAssumption ==
  /\ LOCALIZATION_BUFFER_SIZE \in Nat \ {0} /\ period \in Nat \ {0}
  /\ MaxAge \in Nat /\ ResetPeriod \in Nat
  /\ FilterPeriods \in Nat /\ Observations \in Nat /\ FilterFailures \in Nat

VARIABLES t_now, experiment, stop_signal, commands, network, readers, observation, stop_counter,
          state, ips_age, failures, signals, exchanged, stopped
Loop == INSTANCE VehicleLoop WITH sent <- commands

VARIABLES cycles, loop_count, state_buffer, state_buffer_index, observed, sample, l_failures, log,
          handed, reset_at
Filter == INSTANCE Localization WITH
  Periods <- FilterPeriods, Failures <- FilterFailures, failures <- l_failures

VARIABLES shared, mat_conflicts, resolved, vehicles, candidate, is_conflict_solvable
Lights == INSTANCE DetectVehicles WITH N <- Candidates, m <- candidate

VARIABLES id, vehicle_id, l_safe_mode_flag, tick, vehiclePointTimeseries, frames, calm, quiet, mixed
Leds == INSTANCE Identification WITH Frames <- LedFrames, safe_mode_flag <- l_safe_mode_flag

(* An LED is on for at least two ticks of a period, off for at least two,  *)
(* and off before the ATmega knows the id; and the time series holds as    *)
(* many frames as the longest rhythm needs.                                *)
ASSUME LedAssumption ==
  /\ Leds!Id \in SUBSET (Nat \ {0})
  /\ period_ticks \in [Leds!Id \cup {0} -> Nat \ {0}]
  /\ enabled_ticks \in [Leds!Id \cup {0} -> Nat] /\ enabled_ticks[0] = 0
  /\ \A v \in Leds!Id :
       /\ 2 <= enabled_ticks[v] /\ enabled_ticks[v] + 2 <= period_ticks[v]
       /\ Leds!FramesNeeded(v) <= MaxFrames
  /\ Leds!Distinguishable
  /\ MaxFrames \in Nat /\ 2 <= MaxFrames /\ LedFrames \in Nat

-----------------------------------------------------------------------------
(* Commands of an experiment that was stopped are not followed, and the    *)
(* vehicle stands for a while after the stop signal.                       *)
VehicleObeys == Loop!TypeOK /\ Loop!OldCommandsForgotten /\ Loop!StandsAfterStop

(* A late observation is as good as one in time, and the buffer holds the  *)
(* history of the states.                                                  *)
FilterExact == Filter!TypeOK /\ Filter!AsIfNeverLate /\ Filter!HistoryConsistent

(* A vehicle is identified by its LED in time, and never as another one.   *)
IdsRight == Leds!TypeOK /\ Leds!Identified /\ Leds!NeverAnother

(* Every light belongs to one vehicle, and every candidate that shares     *)
(* lights with a vehicle only, or with none, is settled.                   *)
LightsAssigned == Lights!IInv /\ Lights!OnlyUnsolvableLeft
=============================================================================

---------------------------- MODULE NewestSample ----------------------------
(***************************************************************************)
(* cpm::Reader and cpm::MultiVehicleReader: the newest sample of each      *)
(* vehicle that is valid at a time.  A sample tells when it was created    *)
(* and from when on it is valid; samples arrive in any order.  Those that  *)
(* are not valid yet wait in a buffer, and samples which can no longer be  *)
(* the newest are removed from it.  A cpm::Reader is the case of one       *)
(* vehicle whose DDS reader keeps everything.                              *)
(***************************************************************************)
EXTENDS Naturals, FiniteSets

CONSTANTS
  Vehicle,     (* vehicle_ids                                              *)
  LastStamp,   (* bound: times                                             *)
  Depth,       (* samples the DDS reader keeps of a vehicle (2000)         *)
  Arrivals     (* bound: samples                                           *)

Stamp == 0 .. LastStamp

VARIABLES
  arrivals,    (* number of the last sample that arrived                   *)
  dds_reader,  (* samples not taken yet                                    *)
  buffer,      (* vehicle_buffers, messages_buffer; elements have the      *)
               (* order of their numbers                                   *)
  received,    (* history: all samples ever put into the buffer            *)
  now,         (* t_now of the last call                                   *)
  sample_out   (* its result: no sample or one                             *)

vars == <<arrivals, dds_reader, buffer, received, now, sample_out>>

Sample == [create_stamp : Stamp, valid_after_stamp : Stamp, nr : Nat]
SampleSets == [Vehicle -> SUBSET Sample]

TypeOK ==
  /\ arrivals \in Nat
  /\ dds_reader \in SampleSets
  /\ buffer \in SampleSets
  /\ received \in SampleSets
  /\ now \in Nat
  /\ sample_out \in SampleSets

Init ==
  /\ arrivals = 0 /\ now = 0
  /\ dds_reader = [v \in Vehicle |-> {}]
  /\ buffer = [v \in Vehicle |-> {}]
  /\ received = [v \in Vehicle |-> {}]
  /\ sample_out = [v \in Vehicle |-> {}]

-----------------------------------------------------------------------------

(* The DDS reader keeps the last Depth samples of each vehicle, which is   *)
(* the key of the topic.                                                   *)
Kept(samples) ==
  {s \in samples : Cardinality({newer \in samples : newer.nr > s.nr}) < Depth - 1}

Arrive(v, created, valid) ==
  /\ arrivals < Arrivals
  /\ arrivals' = arrivals + 1
  /\ dds_reader' = [dds_reader EXCEPT ![v] = Kept(@) \cup
       {[create_stamp |-> created, valid_after_stamp |-> valid, nr |-> arrivals + 1]}]
  /\ UNCHANGED <<buffer, received, now, sample_out>>

Valid(samples, t) == {s \in samples : s.valid_after_stamp <= t}

(* The loop over the buffer, which starts with a creation stamp of 0: a    *)
(* valid sample with the greatest creation stamp, of those the last.       *)
Newest(samples, t) ==
  {s \in Valid(samples, t) : \A other \in Valid(samples, t) :
     \/ other.create_stamp < s.create_stamp
     \/ other.create_stamp = s.create_stamp /\ other.nr <= s.nr}

RemoveAllOthers(samples, newest) == newest

(* remove_old_msgs.                                                        *)
RemoveOld(samples, newest) ==
  {s \in samples : \A n \in newest : s.create_stamp >= n.create_stamp}

(* get_sample, get_samples.  Callers ask for the time of their timer,      *)
(* which does not go back.                                                 *)
GetSamples(t) ==
  /\ t >= now
  /\ now' = t
  /\ LET flushed == [v \in Vehicle |-> buffer[v] \cup dds_reader[v]]
     IN /\ sample_out' = [v \in Vehicle |-> Newest(flushed[v], t)]
        /\ buffer' = [v \in Vehicle |-> RemoveOld(flushed[v], Newest(flushed[v], t))]
  /\ received' = [v \in Vehicle |-> received[v] \cup dds_reader[v]]
  /\ dds_reader' = [v \in Vehicle |-> {}]
  /\ UNCHANGED arrivals

Next ==
  \/ \E v \in Vehicle, created, valid \in Stamp : Arrive(v, created, valid)
  \/ \E t \in Stamp : GetSamples(t)

Spec == Init /\ [][Next]_vars

-----------------------------------------------------------------------------
(* PROPERTIES                                                              *)

(* "Of these samples, the newest one is chosen" (Reader.hpp): the result   *)
(* is the newest of all samples that were ever received, not only of those *)
(* the buffer still has; what is removed from it is never missed, whatever *)
(* the order in which samples arrive and become valid.                     *)
NewestIsFound ==
  \A v \in Vehicle : sample_out[v] = Newest(received[v], now)

=============================================================================

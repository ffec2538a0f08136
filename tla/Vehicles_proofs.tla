--------------------------- MODULE Vehicles_proofs --------------------------
(***************************************************************************)
(* Proofs about vehicles and the indoor positioning system: a vehicle      *)
(* follows no command of an experiment that was stopped and stops when it  *)
(* has lost its position, for any numbers of periods, commands and         *)
(* failures; the candidates which DetectVehicles.cpp accepts never share a *)
(* light, for any number of candidates and any conflicts between them; and *)
(* DetectVehicleID.cpp finds the id of a vehicle in time and never gives   *)
(* it the id of another, for any tables of rhythms that differ by more     *)
(* than both tolerances, and any number of frames.  The filter of          *)
(* Localization.cpp computes what it would have computed from observations *)
(* that come in time, for any size of its buffer; and the SPI link passes  *)
(* every command on, for frames of any length.                             *)
(***************************************************************************)
EXTENDS Vehicles, Recursion, TLAPS

-----------------------------------------------------------------------------
(* VehicleLoop                                                             *)

LoopTypes == Loop!TypeOK /\ stopped.experiment < experiment /\ observation <= t_now

(* No command is from the future, and those of an experiment that the      *)
(* vehicle knows to be stopped are older than the stop signal.             *)
Old(c) == c.experiment <= stopped.experiment
Ages ==
  \A c \in network \cup readers :
    c.experiment <= experiment /\ c.create <= t_now /\ (Old(c) => c.create < stopped.time)

(* The pause: how much of it is left, and that afterwards no old command   *)
(* is in a reader.  What is still on its way then was sent later.          *)
Pause ==
  /\ stopped.time <= t_now
  /\ stop_counter > 0 => t_now + stop_counter = stopped.time + STOP_STEPS
  /\ stop_counter = 0 =>
       /\ t_now >= stopped.time + STOP_STEPS
       /\ \A c \in readers : ~Old(c)
  /\ \A c \in network : t_now <= c.create + Transit

(* The state of the vehicle after an exchange is as old as it seems, or    *)
(* younger.                                                                *)
AgeKnown == exchanged => t_now <= observation + ips_age

LoopInv ==
  /\ LoopTypes /\ Ages /\ Pause /\ AgeKnown
  /\ Loop!OldCommandsForgotten /\ Loop!StandsAfterStop

(* Nothing was sent, and no stop signal has come.                          *)
LEMMA LoopInit == Loop!Init => LoopInv
<1> SUFFICES ASSUME Loop!Init PROVE LoopInv
  OBVIOUS
<1>1. /\ t_now = IpsTimeout + 2 /\ t_now \in Loop!Time /\ t_now \in Nat
      /\ 0 \in 0 .. STOP_STEPS /\ STOP_STEPS \in Nat
  BY LoopAssumption DEF Loop!Init, Loop!Start, Loop!Time
<1>2. /\ experiment = 1 /\ 1 \in 1 .. Experiments /\ 0 \in 0 .. Experiments /\ 0 \in 0 .. Commands
      /\ 0 \in 0 .. Failures /\ 0 \in 0 .. Loop!Start + Periods
  BY LoopAssumption DEF Loop!Init, Loop!Start
<1>3. Loop!TypeOK
  BY <1>1, <1>2 DEF Loop!Init, Loop!TypeOK
<1>4. t_now >= STOP_STEPS
  BY <1>1, LoopAssumption
<1>5. ~Loop!Follows
  BY DEF Loop!Init, Loop!Follows
<1> QED
  BY <1>1, <1>2, <1>3, <1>4, <1>5
     DEF LoopInv, LoopTypes, Ages, Pause, AgeKnown, Loop!Init, Loop!OldCommandsForgotten,
         Loop!StandsAfterStop

(* The types of the numbers, for the arithmetic.                           *)
LEMMA LoopNumbers ==
  ASSUME LoopTypes
  PROVE  /\ t_now \in Nat /\ Loop!Start \in Nat /\ experiment \in Nat /\ observation \in Nat
         /\ ips_age \in Nat /\ stop_counter \in Nat /\ failures \in Nat
         /\ stopped.experiment \in Nat /\ stopped.time \in Nat
         /\ STOP_STEPS \in Nat /\ Transit \in Nat /\ Transit <= STOP_STEPS /\ IpsTimeout \in Nat
         /\ \A c \in Loop!Command : c.create \in Nat /\ c.experiment \in Nat /\ c.kind \in Loop!Kind
<1>1. Loop!Start \in Nat
  BY LoopAssumption DEF Loop!Start
<1>2. \A t \in Loop!Time : t \in Nat
  BY <1>1, LoopAssumption DEF Loop!Time
<1>3. \A n \in Nat : \A i \in 0 .. n : i \in Nat
  OBVIOUS
<1>4. Loop!Start + Periods \in Nat /\ STOP_STEPS \in Nat /\ Experiments \in Nat
  BY <1>1, LoopAssumption
<1>5. \A i \in 1 .. Experiments : i \in Nat
  OBVIOUS
<1> QED
  BY <1>1, <1>2, <1>3, <1>4, <1>5, LoopAssumption DEF LoopTypes, Loop!TypeOK, Loop!Command

(* What reaches the vehicle.  A command that arrives after the pause is    *)
(* not old, as it would have been too long on its way.                     *)
LEMMA TrafficStep ==
  ASSUME LoopInv, Loop!Send \/ Loop!Arrive \/ Loop!EndExperiment \/ Loop!Observe
  PROVE  LoopInv'
<1> USE DEF LoopInv
<1>0. LoopTypes
  OBVIOUS
<1> USE <1>0, LoopNumbers
<1>1. CASE Loop!Send
  <2>1. PICK kind \in Loop!Kind, ahead \in {0, Ahead} :
          network' = network \cup
            {[kind |-> kind, experiment |-> experiment, create |-> t_now, ahead |-> ahead]}
    BY <1>1 DEF Loop!Send
  <2> DEFINE new == [kind |-> kind, experiment |-> experiment, create |-> t_now, ahead |-> ahead]
  <2>2. /\ commands' = commands + 1 /\ commands < Commands
        /\ UNCHANGED <<t_now, experiment, stop_signal, readers, observation, stop_counter, state,
                       ips_age, failures, signals, exchanged, stopped>>
    BY <1>1 DEF Loop!Send
  <2>3. ahead \in 0 .. Ahead
    BY LoopAssumption
  <2>4. new \in Loop!Command /\ network' = network \cup {new}
    BY <2>1, <2>3 DEF LoopTypes, Loop!TypeOK, Loop!Command
  <2>5. commands' \in 0 .. Commands
    BY <2>2, LoopAssumption DEF LoopTypes, Loop!TypeOK
  <2>6. LoopTypes'
    BY <2>2, <2>4, <2>5 DEF LoopTypes, Loop!TypeOK
  <2>7. new.experiment = experiment /\ new.create = t_now /\ ~Old(new)
    BY DEF LoopTypes, Old
  <2> HIDE DEF new
  <2>8. Ages'
    BY <2>2, <2>4, <2>7 DEF Ages, Old
  <2>9. Pause'
    BY <2>2, <2>4, <2>7 DEF Pause, Old
  <2> QED
    BY <2>2, <2>6, <2>8, <2>9
       DEF AgeKnown, Loop!OldCommandsForgotten, Loop!StandsAfterStop, Loop!Follows
<1>2. CASE Loop!Arrive
  <2>1. PICK c \in network : network' = network \ {c} /\ readers' \in {readers \cup {c}, readers}
    BY <1>2 DEF Loop!Arrive
  <2>2. UNCHANGED <<t_now, experiment, stop_signal, commands, observation, stop_counter, state,
                    ips_age, failures, signals, exchanged, stopped>>
    BY <1>2 DEF Loop!Arrive
  <2>3. LoopTypes'
    BY <2>1, <2>2 DEF LoopTypes, Loop!TypeOK
  <2>4. Ages'
    BY <2>1, <2>2 DEF Ages, Old
  <2>5. stop_counter = 0 => ~Old(c)
    BY DEF Ages, Pause, LoopTypes, Loop!TypeOK
  <2>6. Pause'
    BY <2>1, <2>2, <2>5 DEF Pause, Old
  <2> QED
    BY <2>2, <2>3, <2>4, <2>6
       DEF AgeKnown, Loop!OldCommandsForgotten, Loop!StandsAfterStop, Loop!Follows
<1>3. CASE Loop!EndExperiment
  <2>1. /\ experiment < Experiments /\ experiment' = experiment + 1 /\ stop_signal' = TRUE
        /\ UNCHANGED <<t_now, commands, network, readers, observation, stop_counter, state,
                       ips_age, failures, signals, exchanged, stopped>>
    BY <1>3 DEF Loop!EndExperiment
  <2>2. experiment' \in 1 .. Experiments
    BY <2>1, LoopAssumption DEF LoopTypes, Loop!TypeOK
  <2>3. LoopTypes'
    BY <2>1, <2>2 DEF LoopTypes, Loop!TypeOK
  <2>4. Ages'
    BY <2>1 DEF Ages, Old, LoopTypes, Loop!TypeOK
  <2> QED
    BY <2>1, <2>3, <2>4
       DEF Pause, Old, AgeKnown, Loop!OldCommandsForgotten, Loop!StandsAfterStop, Loop!Follows
<1>4. CASE Loop!Observe
  <2>1. /\ observation' = t_now
        /\ UNCHANGED <<t_now, stop_signal, experiment, commands, network, readers, stop_counter,
                       state, ips_age, failures, signals, exchanged, stopped>>
    BY <1>4 DEF Loop!Observe, Loop!traffic
  <2>2. LoopTypes'
    BY <2>1 DEF LoopTypes, Loop!TypeOK
  <2> QED
    BY <2>1, <2>2
       DEF Ages, Pause, Old, AgeKnown, Loop!OldCommandsForgotten, Loop!StandsAfterStop, Loop!Follows
<1> QED
  BY <1>1, <1>2, <1>3, <1>4

(* During the pause the vehicle follows nothing, and otherwise only what   *)
(* is in a reader and, when it needs a position, not without one.          *)
LEMMA FollowsReader ==
  ASSUME LoopTypes, NEW now, NEW s \in Loop!Signals(now), s # Loop!Stop
  PROVE  stop_counter = 0 /\ s \in readers /\ ~Loop!IpsLost(s)
<1>1. stop_counter = 0
  BY LoopNumbers DEF Loop!Signals
<1>2. PICK c \in Loop!ReceiveCommands(now) : s = IF Loop!IpsLost(c) THEN Loop!Stop ELSE c
  BY <1>1 DEF Loop!Signals
<1>3. \A kind : Loop!Samples(kind, now) \subseteq readers
  BY DEF Loop!Samples
<1>4. c = Loop!Stop \/ c \in readers
  BY <1>2, <1>3 DEF Loop!ReceiveCommands
<1> QED
  BY <1>1, <1>2, <1>4

(* One period of the control loop.                                         *)
LEMMA PeriodStep == ASSUME LoopInv, Loop!Period PROVE LoopInv'
<1> USE DEF LoopInv
<1>0. LoopTypes
  OBVIOUS
<1> USE <1>0, LoopNumbers
<1>1. /\ t_now < Loop!Start + Periods /\ t_now' = t_now + 1
      /\ \A c \in network : t_now < c.create + Transit
      /\ UNCHANGED <<experiment, commands, network, observation>>
      /\ stop_signal' = FALSE
  BY DEF Loop!Period, Loop!traffic
<1>2. stopped' = IF stop_signal THEN [experiment |-> experiment - 1, time |-> t_now + 1]
                 ELSE stopped
  BY DEF Loop!Period
<1>3. stop_counter' = IF stop_signal THEN STOP_STEPS
                      ELSE IF stop_counter > 0 THEN stop_counter - 1 ELSE 0
  BY DEF Loop!Period, Loop!StopCallback, Loop!Paused
<1>4. readers' \subseteq readers /\ (stop_counter = 1 => readers' = {})
  BY DEF Loop!Period, Loop!CountDown, Loop!Reset, Loop!Buffered
<1>5. \/ signals' = Loop!Stop \/ signals' = Loop!Silence
      \/ stop_counter = 0 /\ signals' \in readers
  BY FollowsReader DEF Loop!Period, Loop!Drive, Loop!Throw
<1>6. /\ exchanged' \in BOOLEAN /\ (exchanged' => ips_age' = t_now' - observation)
      /\ ips_age' \in {ips_age, t_now' - observation}
      /\ failures' \in {failures, failures + 1} /\ (failures' = failures \/ failures < Failures)
  <2>1. CASE Loop!Drive(t_now + 1)
    <3>1. PICK successful \in BOOLEAN :
            /\ successful \/ failures < Failures
            /\ exchanged' = successful
            /\ ips_age' = IF successful THEN t_now + 1 - observation ELSE ips_age
            /\ failures' = IF successful THEN failures ELSE failures + 1
      BY <2>1 DEF Loop!Drive
    <3> QED
      BY <1>1, <3>1
  <2>2. CASE Loop!Throw
    BY <2>2 DEF Loop!Throw
  <2> QED
    BY <2>1, <2>2 DEF Loop!Period
<1>7. state' \in Loop!Kind \cup {"stop"}
  <2>1. \A s \in Loop!Signals(t_now + 1) : s.kind \in Loop!Kind \cup {"stop"}
    <3>1. Loop!Stop.kind = "stop"
      BY DEF Loop!Stop
    <3> QED
      BY <3>1, FollowsReader DEF LoopTypes, Loop!TypeOK
  <2>2. state \in Loop!Kind \cup {"stop"}
    BY DEF LoopTypes, Loop!TypeOK
  <2>3. CASE Loop!Throw
    BY <2>2, <2>3 DEF Loop!Throw
  <2>4. CASE Loop!Drive(t_now + 1)
    BY <2>1, <2>2, <2>4 DEF Loop!Drive
  <2> QED
    BY <2>3, <2>4 DEF Loop!Period
<1>8. LoopTypes'
  <2>1. t_now' \in Loop!Time /\ observation <= t_now'
    BY <1>1, LoopAssumption DEF LoopTypes, Loop!TypeOK, Loop!Time
  <2>2. stop_counter' \in 0 .. STOP_STEPS
    BY <1>3, LoopAssumption DEF LoopTypes, Loop!TypeOK
  <2>3. ips_age' \in 0 .. Loop!Start + Periods
    BY <1>1, <1>6, LoopAssumption DEF LoopTypes, Loop!TypeOK
  <2>4. failures' \in 0 .. Failures
    BY <1>6, LoopAssumption DEF LoopTypes, Loop!TypeOK
  <2>5. signals' \in Loop!Command \cup {Loop!Stop, Loop!Silence}
    BY <1>5 DEF LoopTypes, Loop!TypeOK
  <2>6. /\ stopped' \in [experiment : 0 .. Experiments, time : {0} \cup Loop!Time]
        /\ stopped'.experiment < experiment
    <3>1. CASE stop_signal
      <4>1. experiment - 1 \in 0 .. Experiments /\ t_now + 1 \in Loop!Time
        BY <1>1, <2>1, LoopAssumption DEF LoopTypes, Loop!TypeOK
      <4> QED
        BY <1>2, <3>1, <4>1
    <3>2. CASE ~stop_signal
      BY <1>2, <3>2 DEF LoopTypes, Loop!TypeOK
    <3> QED
      BY <3>1, <3>2
  <2> QED
    BY <1>1, <1>4, <1>6, <1>7, <2>1, <2>2, <2>3, <2>4, <2>5, <2>6 DEF LoopTypes, Loop!TypeOK
<1>9. \/ stop_signal /\ stopped'.experiment = experiment - 1 /\ stopped'.time = t_now + 1
      \/ ~stop_signal /\ stopped' = stopped
  BY <1>2 DEF LoopTypes, Loop!TypeOK
<1>10. \A c \in network \cup readers : c \in Loop!Command
  BY DEF LoopTypes, Loop!TypeOK
<1>11. Ages'
  <2>1. ASSUME NEW c \in network \cup readers
        PROVE  /\ c.experiment <= experiment /\ c.create <= t_now'
               /\ Old(c)' => c.create < stopped'.time
    BY <1>1, <1>9, <1>10 DEF Ages, Old
  <2> QED
    BY <1>1, <1>4, <2>1 DEF Ages
<1>12. Pause'
  <2>1. CASE stop_signal
    <3>1. stop_counter' = STOP_STEPS /\ STOP_STEPS > 0 /\ stopped'.time = t_now'
      BY <1>1, <1>3, <1>9, <2>1, LoopAssumption
    <3> QED
      BY <1>1, <1>10, <3>1 DEF Pause
  <2>2. CASE ~stop_signal
    <3>1. stopped' = stopped /\ stopped.time <= t_now'
      BY <1>1, <1>9, <2>2 DEF Pause
    <3>2. stop_counter' > 0 => t_now' + stop_counter' = stopped.time + STOP_STEPS
      BY <1>1, <1>3, <2>2 DEF Pause
    <3>3. stop_counter' = 0 => stop_counter \in {0, 1}
      BY <1>3, <2>2
    <3>4. stop_counter' = 0 => t_now' >= stopped.time + STOP_STEPS
      BY <1>1, <3>3 DEF Pause
    <3>5. stop_counter' = 0 => \A c \in readers' : ~Old(c)
      BY <1>4, <3>3 DEF Pause
    <3>6. \A c \in network : t_now' <= c.create + Transit
      BY <1>1, <1>10
    <3> QED
      BY <1>1, <3>1, <3>2, <3>4, <3>5, <3>6 DEF Pause, Old
  <2> QED
    BY <2>1, <2>2
<1>13. AgeKnown'
  BY <1>1, <1>6 DEF AgeKnown
<1>14. Loop!Follows' /\ ~stop_signal => t_now >= stopped.time + STOP_STEPS /\ ~Old(signals')
  BY <1>5 DEF Loop!Follows, Pause
<1>15. Loop!OldCommandsForgotten'
  <2>1. CASE stop_signal
    BY <1>1, <1>9, <2>1 DEF Loop!OldCommandsForgotten
  <2>2. CASE ~stop_signal
    <3>1. Loop!Follows' => signals' \in readers
      BY <1>5 DEF Loop!Follows
    <3> QED
      BY <1>9, <1>10, <1>14, <2>2, <3>1 DEF Loop!OldCommandsForgotten, Old
  <2> QED
    BY <2>1, <2>2
<1>16. Loop!StandsAfterStop'
  BY <1>1, <1>9, <1>14 DEF Loop!StandsAfterStop
<1> QED
  BY <1>8, <1>11, <1>12, <1>13, <1>15, <1>16

(* A step preserves the invariant.                                         *)
LEMMA LoopPreserved == LoopInv /\ [Loop!Next]_Loop!vars => LoopInv'
<1>1. ASSUME LoopInv, UNCHANGED Loop!vars PROVE LoopInv'
  BY <1>1
     DEF LoopInv, LoopTypes, Loop!TypeOK, Ages, Old, Pause, AgeKnown, Loop!OldCommandsForgotten,
         Loop!StandsAfterStop, Loop!Follows, Loop!vars, Loop!traffic
<1> QED
  BY <1>1, TrafficStep, PeriodStep DEF Loop!Next

(* A command of an experiment that was stopped is never followed once the  *)
(* vehicle has taken the stop signal, and the vehicle stands for           *)
(* STOP_STEPS periods (main.cxx:129), as long as no command is on its way  *)
(* for longer than that.                                                   *)
THEOREM ObedienceCorrect == Loop!Spec => []VehicleObeys
<1>1. LoopInv => VehicleObeys
  BY DEF LoopInv, LoopTypes, VehicleObeys
<1> QED
  BY LoopInit, LoopPreserved, <1>1, PTL DEF Loop!Spec

(* A vehicle that needs its position and does not get it stops after       *)
(* IpsTimeout (Controller.cxx:376), for any delays and failures.           *)
THEOREM LostIpsCorrect == Loop!Spec => Loop!LostIpsStops
<1> DEFINE Stops ==
  exchanged /\ t_now' # t_now /\ Loop!Follows' /\ signals'.kind \in Loop!LocalizationNeeded
    => t_now' <= observation + IpsTimeout + 1
<1>1. LoopInv /\ [Loop!Next]_Loop!vars => [Stops]_Loop!vars
  <2> SUFFICES ASSUME LoopInv, Loop!Next, exchanged, t_now' # t_now, Loop!Follows',
                      signals'.kind \in Loop!LocalizationNeeded
               PROVE  t_now' <= observation + IpsTimeout + 1
    OBVIOUS
  <2>1. LoopTypes /\ Loop!Period
    BY DEF LoopInv, Loop!Next, Loop!Send, Loop!Arrive, Loop!EndExperiment, Loop!Observe
  <2>2. signals' \in Loop!Signals(t_now + 1) /\ signals' # Loop!Stop /\ t_now' = t_now + 1
    BY <2>1 DEF Loop!Period, Loop!Drive, Loop!Throw, Loop!Follows
  <2>3. ~(ips_age > IpsTimeout)
    BY <2>1, <2>2, FollowsReader DEF Loop!IpsLost
  <2> QED
    BY <2>1, <2>2, <2>3, LoopNumbers DEF LoopInv, AgeKnown
<1> QED
  BY LoopInit, LoopPreserved, <1>1, PTL DEF Loop!Spec, Loop!LostIpsStops

-----------------------------------------------------------------------------
(* DetectVehicles                                                          *)

(* Conflicts are mutual.                                                   *)
LEMMA SharingIsSymmetric ==
  ASSUME NEW R \in Lights!Sharing
  PROVE  R \in SUBSET (Lights!Candidate \X Lights!Candidate) /\ Lights!Symmetric(R)
<1> PICK pairs \in SUBSET {pair \in Lights!Candidate \X Lights!Candidate : pair[1] < pair[2]} :
           R = pairs \union {<<pair[2], pair[1]>> : pair \in pairs}
  BY DEF Lights!Sharing
<1>1. \A pair \in pairs : /\ pair = <<pair[1], pair[2]>> /\ pair[1] < pair[2]
                          /\ pair[1] \in Lights!Candidate /\ pair[2] \in Lights!Candidate
  OBVIOUS
<1>2. Lights!Candidate \subseteq Nat
  BY DEF Lights!Candidate
<1>3. ASSUME NEW c \in Lights!Candidate, NEW d \in Lights!Candidate, <<c, d>> \in R
      PROVE  c # d /\ <<d, c>> \in R
  BY <1>1, <1>2, <1>3
<1> QED
  BY <1>1, <1>3 DEF Lights!Symmetric

(* Nobody is accepted or dropped.                                          *)
LEMMA LightsInit == Lights!Init => Lights!IInv
<1> SUFFICES ASSUME Lights!Init PROVE Lights!IInv
  OBVIOUS
<1>1. shared \in SUBSET (Lights!Candidate \X Lights!Candidate) /\ Lights!Symmetric(shared)
  BY SharingIsSymmetric DEF Lights!Init
<1>2. candidate \in 1 .. Candidates + 1 /\ mat_conflicts = shared /\ resolved = {} /\ vehicles = {}
  BY CandidatesAssumption DEF Lights!Init
<1>3. Lights!TypeOK
  BY <1>1, <1>2 DEF Lights!Init, Lights!TypeOK
<1>4. Lights!UnsolvableBehind
  BY DEF Lights!Init, Lights!UnsolvableBehind, Lights!Candidate
<1> QED
  BY <1>1, <1>2, <1>3, <1>4
     DEF Lights!IInv, Lights!ForgottenResolved, Lights!NeighboursResolved, Lights!DroppedForgotten,
         Lights!LightsUnique, Lights!DroppedForVehicle

(* A step of the loop over the candidates.                                 *)
LEMMA LightsStep == Lights!IInv /\ [Lights!Next]_Lights!vars => Lights!IInv'
<1> SUFFICES ASSUME Lights!IInv, [Lights!Next]_Lights!vars PROVE Lights!IInv'
  OBVIOUS
<1>1. ASSUME Lights!AcceptFree PROVE Lights!IInv'
  <2>1. /\ candidate \in Lights!Candidate /\ candidate \notin resolved
        /\ resolved' = resolved \union {candidate} /\ vehicles' = vehicles \union {candidate}
        /\ candidate' = candidate + 1
        /\ UNCHANGED <<shared, mat_conflicts, is_conflict_solvable>>
    BY <1>1 DEF Lights!AcceptFree, Lights!Continue, Lights!Candidate, Lights!IInv, Lights!TypeOK
  <2>2. \A d \in Lights!Candidate : <<candidate, d>> \in shared => d \in resolved
    BY <1>1, <2>1 DEF Lights!AcceptFree, Lights!Conflicts, Lights!IInv, Lights!ForgottenResolved
  <2>3. \A d \in vehicles : <<d, candidate>> \notin shared /\ <<candidate, d>> \notin shared
    BY <2>1, <2>2 DEF Lights!IInv, Lights!NeighboursResolved, Lights!TypeOK, Lights!Symmetric
  <2>4. Lights!TypeOK' /\ Lights!Symmetric(shared)'
    BY <2>1, CandidatesAssumption DEF Lights!IInv, Lights!TypeOK, Lights!Symmetric, Lights!Candidate
  <2>5. <<candidate, candidate>> \notin shared
    BY <2>1 DEF Lights!IInv, Lights!Symmetric
  <2>6. Lights!LightsUnique'
    BY <2>1, <2>3, <2>5 DEF Lights!IInv, Lights!LightsUnique
  <2>7. Lights!NeighboursResolved'
    BY <2>1, <2>2 DEF Lights!IInv, Lights!NeighboursResolved, Lights!Candidate
  <2>8. Lights!ForgottenResolved' /\ Lights!DroppedForgotten' /\ Lights!DroppedForVehicle'
    BY <2>1
       DEF Lights!IInv, Lights!ForgottenResolved, Lights!DroppedForgotten, Lights!DroppedForVehicle
  <2>9. \A c \in Lights!Candidate \ resolved : <<c, candidate>> \notin shared
    BY <2>1, <2>2 DEF Lights!IInv, Lights!Symmetric
  <2>10. \A c \in Lights!Candidate \ resolved' : c < candidate' => c < candidate
    BY <2>1 DEF Lights!Candidate
  <2>11. Lights!UnsolvableBehind'
    BY <2>1, <2>9, <2>10 DEF Lights!IInv, Lights!UnsolvableBehind
  <2> QED
    BY <2>4, <2>6, <2>7, <2>8, <2>11 DEF Lights!IInv
<1>2. ASSUME Lights!AcceptBetter PROVE Lights!IInv'
  <2> PICK c \in Lights!Candidate :
          /\ Lights!Conflicts(candidate) = {c} /\ resolved' = Lights!Resolve(c)
          /\ mat_conflicts' = Lights!Cleared(candidate, c)
    BY <1>2 DEF Lights!AcceptBetter
  <2>1. /\ candidate \in Lights!Candidate /\ candidate \notin resolved /\ UNCHANGED shared
        /\ resolved' = resolved \union {candidate, c} /\ vehicles' = vehicles \union {candidate}
        /\ candidate' = candidate + 1
        /\ is_conflict_solvable' = TRUE
    BY <1>2 DEF Lights!AcceptBetter, Lights!Resolve, Lights!Solvable, Lights!Continue,
       Lights!Candidate, Lights!IInv, Lights!TypeOK
  <2>2. <<candidate, c>> \in shared /\ <<c, candidate>> \in shared /\ c # candidate
    BY <2>1 DEF Lights!IInv, Lights!TypeOK, Lights!Conflicts, Lights!Symmetric
  <2>3. \A d \in Lights!Candidate : <<candidate, d>> \in shared => d \in resolved'
    BY <2>1 DEF Lights!IInv, Lights!ForgottenResolved, Lights!Conflicts
  <2>4. \A d \in vehicles : <<d, candidate>> \notin shared /\ <<candidate, d>> \notin shared
    BY <2>1 DEF Lights!IInv, Lights!NeighboursResolved, Lights!TypeOK, Lights!Symmetric
  <2>5. <<candidate, candidate>> \notin shared
    BY <2>1 DEF Lights!IInv, Lights!Symmetric
  <2>6. Lights!TypeOK' /\ Lights!Symmetric(shared)'
    BY <2>1, CandidatesAssumption
       DEF Lights!IInv, Lights!TypeOK, Lights!Symmetric, Lights!Candidate, Lights!Cleared
  <2>7. Lights!LightsUnique'
    BY <2>1, <2>4, <2>5 DEF Lights!IInv, Lights!LightsUnique
  <2>8. Lights!NeighboursResolved'
    BY <2>1, <2>3 DEF Lights!IInv, Lights!NeighboursResolved, Lights!Candidate
  <2>9. Lights!ForgottenResolved'
    BY <2>1 DEF Lights!IInv, Lights!ForgottenResolved, Lights!Cleared
  <2>10. Lights!DroppedForVehicle'
    BY <2>1, <2>2 DEF Lights!IInv, Lights!DroppedForVehicle
  <2>11. Lights!DroppedForgotten'
    BY <2>1 DEF Lights!IInv, Lights!DroppedForgotten, Lights!Cleared
  <2>12. Lights!UnsolvableBehind'
    BY <2>1 DEF Lights!UnsolvableBehind
  <2> QED
    BY <2>6, <2>7, <2>8, <2>9, <2>10, <2>11, <2>12 DEF Lights!IInv
<1>3. ASSUME Lights!Pass \/ Lights!Again \/ UNCHANGED Lights!vars PROVE Lights!IInv'
  <2>1. UNCHANGED <<shared, mat_conflicts, resolved, vehicles>>
    BY <1>3 DEF Lights!Pass, Lights!Again, Lights!Continue, Lights!vars
  <2>2. candidate \in 1 .. Candidates + 1 /\ is_conflict_solvable \in BOOLEAN
    BY DEF Lights!IInv, Lights!TypeOK
  <2>3. candidate' \in 1 .. Candidates + 1 /\ is_conflict_solvable' \in BOOLEAN
    <3>1. CASE Lights!Pass
      BY <2>2, <3>1, CandidatesAssumption DEF Lights!Pass, Lights!Continue
    <3>2. CASE Lights!Again
      <4>1. candidate' = 1 /\ is_conflict_solvable' \in BOOLEAN
        BY <3>2 DEF Lights!Again
      <4>2. candidate' \in 1 .. Candidates + 1
        BY <4>1, CandidatesAssumption
      <4> QED
        BY <4>1, <4>2
    <3>3. CASE UNCHANGED Lights!vars
      BY <2>2, <3>3 DEF Lights!vars
    <3> QED
      BY <1>3, <3>1, <3>2, <3>3
  <2>4. Lights!UnsolvableBehind'
    <3>1. CASE Lights!Pass
      <4>1. /\ candidate \in Lights!Candidate /\ candidate' = candidate + 1
            /\ UNCHANGED is_conflict_solvable
        BY <2>2, <3>1 DEF Lights!Pass, Lights!Continue, Lights!Candidate
      <4>2. ASSUME candidate \notin resolved
            PROVE  \E d \in Lights!Candidate \ resolved : <<candidate, d>> \in shared
        <5>1. PICK d \in Lights!Conflicts(candidate) : TRUE
          BY <3>1, <4>2 DEF Lights!Pass
        <5>2. /\ d \in Lights!Candidate /\ <<candidate, d>> \in mat_conflicts
              /\ <<candidate, d>> \in shared /\ <<d, candidate>> \in shared
          BY <5>1 DEF Lights!Conflicts, Lights!IInv, Lights!TypeOK, Lights!Symmetric
        <5>3. d \notin vehicles
          BY <4>1, <4>2, <5>2 DEF Lights!IInv, Lights!NeighboursResolved
        <5>4. d \notin resolved
          BY <5>2, <5>3 DEF Lights!IInv, Lights!DroppedForgotten
        <5> QED
          BY <5>2, <5>4
      <4>3. \A c \in Lights!Candidate : c < candidate' => c < candidate \/ c = candidate
        BY <4>1 DEF Lights!Candidate
      <4> QED
        BY <2>1, <4>1, <4>2, <4>3 DEF Lights!IInv, Lights!UnsolvableBehind
    <3>2. CASE Lights!Again
      BY <3>2 DEF Lights!Again, Lights!UnsolvableBehind, Lights!Candidate
    <3>3. CASE UNCHANGED Lights!vars
      BY <3>3 DEF Lights!vars, Lights!IInv, Lights!UnsolvableBehind
    <3> QED
      BY <1>3, <3>1, <3>2, <3>3
  <2> QED
    BY <2>1, <2>3, <2>4
       DEF Lights!IInv, Lights!TypeOK, Lights!Symmetric, Lights!ForgottenResolved,
       Lights!NeighboursResolved, Lights!DroppedForgotten, Lights!LightsUnique, Lights!DroppedForVehicle
<1> QED
  BY <1>1, <1>2, <1>3 DEF Lights!Next

(* No light is ever given to two vehicles, nobody is dropped without       *)
(* cause, and at the end only those are left out who share lights with one *)
(* another (DetectVehicles.cpp:37).                                        *)
THEOREM AssignmentCorrect == Lights!Spec => []LightsAssigned
<1>1. Lights!IInv => Lights!OnlyUnsolvableLeft
  BY CandidatesAssumption
     DEF Lights!IInv, Lights!UnsolvableBehind, Lights!OnlyUnsolvableLeft, Lights!Candidate
<1> QED
  BY LightsInit, LightsStep, <1>1, PTL DEF Lights!Spec, LightsAssigned

-----------------------------------------------------------------------------
(* Identification.  Frames are counted back from the newest; the rhythm of *)
(* an LED is on for E of P ticks.                                          *)

(* A step back of at most two ticks, in the phases of a rhythm.            *)
LEMMA StepBack ==
  ASSUME NEW P \in Nat, P >= 3, NEW t \in Int, NEW k \in 0 .. 2
  PROVE  /\ t % P \in 0 .. P - 1
         /\ (t - k) % P = IF t % P >= k THEN (t % P) - k ELSE (t % P) - k + P
<1> DEFINE q == t \div P
           r == t % P
<1>1. q \in Int /\ r \in 0 .. P - 1 /\ t = P * q + r
  OBVIOUS
<1> HIDE DEF q, r
<1>2. P * q \in Int
  BY <1>1
<1>3. CASE r >= k
  <2>1. (P * q + (r - k)) % P = r - k
    BY <1>1, <1>3, Division
  <2>2. t - k = P * q + (r - k)
    BY <1>1, <1>2
  <2> QED BY <1>1, <1>3, <2>1, <2>2 DEF r
<1>4. CASE ~(r >= k)
  <2>1. q - 1 \in Int /\ r - k + P \in 0 .. P - 1
    BY <1>1, <1>4
  <2>2. (P * (q - 1) + (r - k + P)) % P = r - k + P
    BY <2>1, Division
  <2>3. P * (q - 1) = P * q - P
    BY <1>1, SMTT(30)
  <2>4. t - k = P * (q - 1) + (r - k + P)
    BY <1>1, <1>2, <2>3
  <2> QED BY <1>1, <1>4, <2>2, <2>4 DEF r
<1> QED BY <1>1, <1>3, <1>4 DEF r

(* What the frames of a series show: F gives the tick of each, counted     *)
(* from the newest; after c a tick may be missing or be there twice.       *)
Ticks(F, c, d) ==
  /\ F \in [Nat -> Int] /\ c \in Nat /\ d \in -1 .. 1
  /\ \A i, j \in Nat :
       i <= j => F[i] - F[j] = j - i + (IF i <= c /\ c < j THEN d ELSE 0)

(* An LED that is on for E of P ticks.                                     *)
Rhythm(P, E) == P \in Nat /\ E \in Nat /\ 2 <= E /\ E + 2 <= P

Phase(F, P, i) == F[i] % P
EdgeAt(F, P, E, i) == (Phase(F, P, i) < E) # (Phase(F, P, i + 1) < E)

(* From one frame to the one before.                                       *)
LEMMA FrameBefore ==
  ASSUME NEW P, NEW E, Rhythm(P, E), NEW F, NEW c, NEW d, Ticks(F, c, d), NEW i \in Nat
  PROVE  /\ Phase(F, P, i) \in 0 .. P - 1 /\ Phase(F, P, i + 1) \in 0 .. P - 1
         /\ F[i] \in Int /\ F[i + 1] \in Int
         /\ \E k \in 0 .. 2 :
              /\ k = F[i] - F[i + 1] /\ k = 1 + (IF i = c THEN d ELSE 0)
              /\ Phase(F, P, i + 1) = IF Phase(F, P, i) >= k THEN Phase(F, P, i) - k
                                                            ELSE Phase(F, P, i) - k + P
<1>1. /\ F[i] \in Int /\ F[i + 1] \in Int /\ i + 1 \in Nat
      /\ F[i] - F[i + 1] = 1 + (IF i = c THEN d ELSE 0)
  <2>1. F[i] \in Int /\ F[i + 1] \in Int /\ i + 1 \in Nat /\ i <= i + 1 /\ c \in Nat
    BY DEF Ticks
  <2>2. F[i] - F[i + 1] = (i + 1) - i + (IF i <= c /\ c < i + 1 THEN d ELSE 0)
    BY <2>1 DEF Ticks
  <2>3. i <= c /\ c < i + 1 <=> i = c
    BY <2>1
  <2> QED BY <2>1, <2>2, <2>3
<1> DEFINE k == F[i] - F[i + 1]
<1>2. k \in 0 .. 2 /\ F[i] - k = F[i + 1] /\ k = 1 + (IF i = c THEN d ELSE 0)
  BY <1>1 DEF Ticks
<1>3. P \in Nat /\ P >= 3
  BY DEF Rhythm
<1> HIDE DEF k
<1>4. /\ F[i] % P \in 0 .. P - 1
      /\ (F[i] - k) % P = IF F[i] % P >= k THEN (F[i] % P) - k ELSE (F[i] % P) - k + P
  BY <1>1, <1>2, <1>3, StepBack
<1>5. F[i + 1] % P \in 0 .. P - 1
  <2>1. 0 \in 0 .. 2
    OBVIOUS
  <2> QED BY <1>1, <1>3, <2>1, StepBack
<1> QED BY <1>1, <1>2, <1>4, <1>5 DEF k, Phase

(* Without an edge the frames are of one run, and their phases differ as   *)
(* their ticks do.                                                         *)
LEMMA OneRun ==
  ASSUME NEW P, NEW E, Rhythm(P, E), NEW F, NEW c, NEW d, Ticks(F, c, d),
         NEW a \in Nat, NEW b \in Nat, a <= b,
         \A i \in a .. b - 1 : ~EdgeAt(F, P, E, i)
  PROVE  /\ Phase(F, P, a) < E <=> Phase(F, P, b) < E
         /\ Phase(F, P, a) - Phase(F, P, b) = F[a] - F[b]
<1> DEFINE S == {n \in Nat : a + n <= b => /\ Phase(F, P, a) < E <=> Phase(F, P, a + n) < E
                                           /\ Phase(F, P, a) - Phase(F, P, a + n) = F[a] - F[a + n]}
<1>0. /\ F[a] \in Int /\ Phase(F, P, a) \in Int
      /\ P \in Nat /\ E \in Nat /\ 2 <= E /\ E + 2 <= P
  <2>1. F[a] \in Int /\ Phase(F, P, a) \in 0 .. P - 1
    BY FrameBefore
  <2> QED BY <2>1 DEF Rhythm
<1>1. 0 \in S
  <2>1. a + 0 = a
    OBVIOUS
  <2> QED BY <1>0, <2>1
<1>2. ASSUME NEW n \in Nat, n \in S PROVE n + 1 \in S
  <2> SUFFICES ASSUME a + (n + 1) <= b
               PROVE  /\ Phase(F, P, a) < E <=> Phase(F, P, a + (n + 1)) < E
                      /\ Phase(F, P, a) - Phase(F, P, a + (n + 1)) = F[a] - F[a + (n + 1)]
    OBVIOUS
  <2> DEFINE i == a + n
  <2>1. i \in Nat /\ i + 1 = a + (n + 1) /\ i \in a .. b - 1 /\ i <= b
    OBVIOUS
  <2>2. /\ Phase(F, P, a) < E <=> Phase(F, P, i) < E
        /\ Phase(F, P, a) - Phase(F, P, i) = F[a] - F[i]
    BY <1>2, <2>1
  <2> HIDE DEF i
  <2>3. Phase(F, P, i) < E <=> Phase(F, P, i + 1) < E
    BY <2>1 DEF EdgeAt
  <2>4. /\ Phase(F, P, i) \in 0 .. P - 1 /\ Phase(F, P, i + 1) \in 0 .. P - 1
        /\ F[i] \in Int /\ F[i + 1] \in Int
    BY <2>1, FrameBefore
  <2>5. PICK k \in 0 .. 2 : 
              /\ k = F[i] - F[i + 1]
              /\ Phase(F, P, i + 1) = IF Phase(F, P, i) >= k THEN Phase(F, P, i) - k
                                                            ELSE Phase(F, P, i) - k + P
    BY <2>1, FrameBefore
  <2>6. Phase(F, P, i) - Phase(F, P, i + 1) = k
    BY <1>0, <2>3, <2>4, <2>5
  <2>7. /\ Phase(F, P, a) < E <=> Phase(F, P, i + 1) < E
        /\ Phase(F, P, a) - Phase(F, P, i + 1) = F[a] - F[i + 1]
    <3>1. ASSUME NEW o \in Int, NEW p \in Int, NEW q \in Int,
                 NEW x \in Int, NEW y \in Int, NEW z \in Int,
                 o - p = x - y, p - q = k, k = y - z
          PROVE  o - q = x - z
      BY <3>1
    <3>2. Phase(F, P, i) \in Int /\ Phase(F, P, i + 1) \in Int
      BY <1>0, <2>4
    <3>3. Phase(F, P, a) - Phase(F, P, i) = F[a] - F[i] /\ k = F[i] - F[i + 1]
      BY <2>2, <2>5
    <3>4. Phase(F, P, a) - Phase(F, P, i + 1) = F[a] - F[i + 1]
      BY <1>0, <2>4, <2>6, <3>1, <3>2, <3>3
    <3> QED BY <2>2, <2>3, <3>4
  <2> QED BY <2>1, <2>7
<1> HIDE DEF S
<1>3. \A n \in Nat : n \in S
  BY <1>1, <1>2, Induct
<1>4. b - a \in Nat /\ a + (b - a) = b
  OBVIOUS
<1> QED BY <1>3, <1>4 DEF S

(* Edges i < j < k next to one another are as far apart as the rhythm says, *)
(* but for one frame, when one of the ticks is missing or there twice.     *)
LEMMA EdgeDistances ==
  ASSUME NEW P, NEW E, Rhythm(P, E), NEW F, NEW c, NEW d, Ticks(F, c, d),
         NEW i \in Nat, NEW j \in Nat, NEW k \in Nat, i < j, j < k,
         EdgeAt(F, P, E, i), EdgeAt(F, P, E, j), EdgeAt(F, P, E, k),
         \A n \in i + 1 .. j - 1 : ~EdgeAt(F, P, E, n),
         \A n \in j + 1 .. k - 1 : ~EdgeAt(F, P, E, n)
  PROVE  /\ k - i \in P - 1 .. P + 1 /\ (k - i = P + 1 => i <= c)
         /\ ~(Phase(F, P, i) < E) => j - i \in E - 1 .. E + 1
         /\ Phase(F, P, i) < E => k - j \in E - 1 .. E + 1
<1> DEFINE p(n) == Phase(F, P, n)
<1>1. /\ p(i + 1) < E <=> p(j) < E
      /\ p(i + 1) - p(j) = F[i + 1] - F[j]
  BY OneRun
<1>2. /\ p(j + 1) < E <=> p(k) < E
      /\ p(j + 1) - p(k) = F[j + 1] - F[k]
  BY OneRun
<1>3. /\ c \in Nat /\ d \in -1 .. 1
      /\ F[i + 1] - F[j] = j - i - 1 + (IF i + 1 <= c /\ c < j THEN d ELSE 0)
      /\ F[j + 1] - F[k] = k - j - 1 + (IF j + 1 <= c /\ c < k THEN d ELSE 0)
  <2>1. /\ i + 1 \in Nat /\ j + 1 \in Nat /\ i + 1 <= j /\ j + 1 <= k
        /\ j - (i + 1) = j - i - 1 /\ k - (j + 1) = k - j - 1
    OBVIOUS
  <2>2. /\ F[i + 1] - F[j] = j - (i + 1) + (IF i + 1 <= c /\ c < j THEN d ELSE 0)
        /\ F[j + 1] - F[k] = k - (j + 1) + (IF j + 1 <= c /\ c < k THEN d ELSE 0)
    BY <2>1 DEF Ticks
  <2> QED BY <2>1, <2>2 DEF Ticks
<1>4. ASSUME NEW n \in {i, j, k}
      PROVE  /\ p(n) \in 0 .. P - 1 /\ p(n + 1) \in 0 .. P - 1
             /\ (p(n) < E) # (p(n + 1) < E)
             /\ \E s \in 0 .. 2 :
                  /\ s = 1 + (IF n = c THEN d ELSE 0)
                  /\ p(n + 1) = IF p(n) >= s THEN p(n) - s ELSE p(n) - s + P
  BY FrameBefore DEF EdgeAt
<1>5. P \in Nat /\ E \in Nat /\ 2 <= E /\ E + 2 <= P
  BY DEF Rhythm
<1> HIDE DEF p
<1>6. ASSUME NEW n \in {i, j, k}
      PROVE  /\ p(n) \in 0 .. P - 1 /\ p(n + 1) \in 0 .. P - 1
             /\ \/ /\ p(n) \in 0 .. 1 /\ E <= p(n + 1)
                   /\ p(n + 1) = p(n) + P - 1 - (IF n = c THEN d ELSE 0)
                \/ /\ p(n + 1) < E /\ E <= p(n)
                   /\ p(n + 1) = p(n) - 1 - (IF n = c THEN d ELSE 0)
  <2>1. PICK s \in 0 .. 2 :
           /\ s = 1 + (IF n = c THEN d ELSE 0)
           /\ p(n + 1) = IF p(n) >= s THEN p(n) - s ELSE p(n) - s + P
    BY <1>4
  <2>2. CASE n = c
    BY <1>3, <1>4, <1>5, <2>1, <2>2
  <2>3. CASE n # c
    BY <1>3, <1>4, <1>5, <2>1, <2>3
  <2> QED BY <2>2, <2>3
<1>7. CASE p(i) < E
  <2>1. p(i) \in 0 .. 1 /\ E <= p(i + 1) /\ E <= p(j) /\ p(j + 1) < E /\ p(k) \in 0 .. 1 /\ E <= p(k + 1)
    BY <1>1, <1>2, <1>5, <1>6, <1>7
  <2>2. /\ p(i + 1) = p(i) + P - 1 - (IF i = c THEN d ELSE 0)
        /\ p(j + 1) = p(j) - 1 - (IF j = c THEN d ELSE 0)
        /\ p(k + 1) = p(k) + P - 1 - (IF k = c THEN d ELSE 0)
    BY <1>5, <1>6, <2>1
  <2>3. /\ p(i) \in Int /\ p(j) \in Int /\ p(k) \in Int
        /\ p(i + 1) \in 0 .. P - 1 /\ p(j + 1) \in 0 .. P - 1 /\ p(k + 1) \in 0 .. P - 1
    BY <1>5, <1>6
  <2>4. /\ p(i + 1) - p(j) = j - i - 1 + (IF i + 1 <= c /\ c < j THEN d ELSE 0)
        /\ p(j + 1) - p(k) = k - j - 1 + (IF j + 1 <= c /\ c < k THEN d ELSE 0)
    BY <1>1, <1>2, <1>3
  <2>5. k - i \in P - 1 .. P + 1 /\ (k - i = P + 1 => i <= c) /\ k - j \in E - 1 .. E + 1
    BY <1>3, <1>5, <2>1, <2>2, <2>3, <2>4, SMTT(30)
  <2> QED BY <1>7, <2>5 DEF p
<1>8. CASE ~(p(i) < E)
  <2>1. E <= p(i) /\ p(i + 1) < E /\ p(j) \in 0 .. 1 /\ E <= p(j + 1) /\ E <= p(k) /\ p(k + 1) < E
    BY <1>1, <1>2, <1>5, <1>6, <1>8
  <2>2. /\ p(i + 1) = p(i) - 1 - (IF i = c THEN d ELSE 0)
        /\ p(j + 1) = p(j) + P - 1 - (IF j = c THEN d ELSE 0)
        /\ p(k + 1) = p(k) - 1 - (IF k = c THEN d ELSE 0)
    BY <1>5, <1>6, <2>1
  <2>3. /\ p(i) \in Int /\ p(j) \in Int /\ p(k) \in Int
        /\ p(i + 1) \in 0 .. P - 1 /\ p(j + 1) \in 0 .. P - 1 /\ p(k + 1) \in 0 .. P - 1
    BY <1>5, <1>6
  <2>4. /\ p(i + 1) - p(j) = j - i - 1 + (IF i + 1 <= c /\ c < j THEN d ELSE 0)
        /\ p(j + 1) - p(k) = k - j - 1 + (IF j + 1 <= c /\ c < k THEN d ELSE 0)
    BY <1>1, <1>2, <1>3
  <2>5. k - i \in P - 1 .. P + 1 /\ (k - i = P + 1 => i <= c) /\ j - i \in E - 1 .. E + 1
    BY <1>3, <1>5, <2>1, <2>2, <2>3, <2>4, SMTT(30)
  <2> QED BY <1>8, <2>5 DEF p
<1> QED BY <1>7, <1>8 DEF p

(* No run is longer than the LED stays on or off, but for a tick that is   *)
(* there twice.                                                            *)
LEMMA NextEdge ==
  ASSUME NEW P, NEW E, Rhythm(P, E), NEW F, NEW c, NEW d, Ticks(F, c, d), NEW a \in Nat,
         NEW M \in Nat, E <= M, P - E <= M
  PROVE  \E i \in Nat : /\ a <= i /\ i <= a + M /\ (i = a + M => c < i)
                        /\ EdgeAt(F, P, E, i) /\ \A n \in a .. i - 1 : ~EdgeAt(F, P, E, n)
<1>1. ASSUME NEW b \in Nat, a <= b, \A n \in a .. b - 1 : ~EdgeAt(F, P, E, n)
      PROVE  b <= a + M /\ (b = a + M => c < b)
  <2>1. /\ Phase(F, P, a) < E <=> Phase(F, P, b) < E
        /\ Phase(F, P, a) - Phase(F, P, b) = F[a] - F[b]
    BY <1>1, OneRun
  <2>2. /\ c \in Nat /\ d \in -1 .. 1
        /\ F[a] - F[b] = b - a + (IF a <= c /\ c < b THEN d ELSE 0)
    BY <1>1 DEF Ticks
  <2>3. P \in Nat /\ E \in Nat /\ Phase(F, P, a) \in 0 .. P - 1 /\ Phase(F, P, b) \in 0 .. P - 1
    BY FrameBefore DEF Rhythm
  <2>4. Phase(F, P, a) - Phase(F, P, b) < M
    BY <2>1, <2>3
  <2> QED BY <1>1, <2>1, <2>2, <2>3, <2>4
<1> DEFINE S == {n \in Nat : a <= n /\ EdgeAt(F, P, E, n)}
<1>2. S # {}
  <2> SUFFICES ASSUME S = {} PROVE FALSE
    OBVIOUS
  <2>1. \A n \in a .. a + M + 1 - 1 : ~EdgeAt(F, P, E, n)
    OBVIOUS
  <2>2. a + M + 1 <= a + M
    BY <1>1, <2>1
  <2> QED BY <2>2
<1>3. PICK i \in S : \A n \in S : i <= n
  BY <1>2, Least
<1>4. \A n \in a .. i - 1 : ~EdgeAt(F, P, E, n)
  BY <1>3
<1>5. i \in Nat /\ a <= i /\ EdgeAt(F, P, E, i)
  OBVIOUS
<1>6. i <= a + M /\ (i = a + M => c < i)
  BY <1>1, <1>4, <1>5
<1> QED BY <1>4, <1>5, <1>6

(* Two runs and the longest of a third hold three edges.                   *)
LEMMA ThreeEdges ==
  ASSUME NEW P, NEW E, Rhythm(P, E), NEW F, NEW c, NEW d, Ticks(F, c, d),
         NEW M \in Nat, E <= M, P - E <= M
  PROVE  \E i, j, k \in Nat :
           /\ i < j /\ j < k /\ k <= P + M
           /\ EdgeAt(F, P, E, i) /\ EdgeAt(F, P, E, j) /\ EdgeAt(F, P, E, k)
           /\ \A n \in 0 .. k - 1 : EdgeAt(F, P, E, n) => n = i \/ n = j
<1>1. PICK i \in Nat : /\ 0 <= i /\ i <= 0 + M /\ (i = 0 + M => c < i)
                       /\ EdgeAt(F, P, E, i) /\ \A n \in 0 .. i - 1 : ~EdgeAt(F, P, E, n)
  <2>1. 0 \in Nat
    OBVIOUS
  <2> QED BY <2>1, NextEdge
<1>2. PICK j \in Nat : /\ i + 1 <= j
                       /\ EdgeAt(F, P, E, j) /\ \A n \in i + 1 .. j - 1 : ~EdgeAt(F, P, E, n)
  <2>1. i + 1 \in Nat
    OBVIOUS
  <2> QED BY <2>1, NextEdge
<1>3. PICK k \in Nat : /\ j + 1 <= k
                       /\ EdgeAt(F, P, E, k) /\ \A n \in j + 1 .. k - 1 : ~EdgeAt(F, P, E, n)
  <2>1. j + 1 \in Nat
    OBVIOUS
  <2> QED BY <2>1, NextEdge
<1>4. i < j /\ j < k
  BY <1>2, <1>3
<1>5. k - i \in P - 1 .. P + 1 /\ (k - i = P + 1 => i <= c)
  BY <1>1, <1>2, <1>3, <1>4, EdgeDistances
<1>6. k <= P + M
  <2>1. P \in Nat /\ c \in Nat
    BY DEF Rhythm, Ticks
  <2> QED BY <1>1, <1>5, <2>1
<1>7. \A n \in 0 .. k - 1 : EdgeAt(F, P, E, n) => n = i \/ n = j
  <2> SUFFICES ASSUME NEW n \in 0 .. k - 1, EdgeAt(F, P, E, n), n # i, n # j PROVE FALSE
    OBVIOUS
  <2>1. n \in 0 .. i - 1 \/ n \in i + 1 .. j - 1 \/ n \in j + 1 .. k - 1
    BY <1>4
  <2> QED BY <1>1, <1>2, <1>3, <2>1
<1> QED BY <1>1, <1>2, <1>3, <1>4, <1>6, <1>7

-----------------------------------------------------------------------------
SeqTracked(s) == Len(s) - Leds!SelectLastInSeq(s, LAMBDA view : view = "missing")
SeqAgo(s, i) == s[Len(s) - i]

LEMMA TrackedIs ==
  ASSUME NEW s \in Seq(Leds!View)
  PROVE  /\ SeqTracked(s) \in 0 .. Len(s)
         /\ \A i \in 0 .. SeqTracked(s) - 1 : SeqAgo(s, i) # "missing"
         /\ SeqTracked(s) < Len(s) => SeqAgo(s, SeqTracked(s)) = "missing"
<1> DEFINE I == {i \in 1 .. Len(s) : s[i] = "missing"}
<1>1. SeqTracked(s) = Len(s) - (IF I # {} THEN Leds!Max(I) ELSE 0)
  BY DEF SeqTracked, Leds!SelectLastInSeq
<1>2. Len(s) \in Nat /\ I \in SUBSET (1 .. Len(s))
  OBVIOUS
<1>3. CASE I = {}
  <2>1. SeqTracked(s) = Len(s)
    BY <1>1, <1>2, <1>3
  <2>2. \A i \in 0 .. Len(s) - 1 : Len(s) - i \in 1 .. Len(s)
    BY <1>2
  <2> QED BY <1>2, <1>3, <2>1, <2>2 DEF SeqAgo
<1>4. CASE I # {}
  <2>1. PICK m \in I : m = Leds!Max(I) /\ \A i \in I : i <= m
    <3>1. Leds!Max(I) = Max(I)
      BY Zenon DEF Leds!Max, Max
    <3> HIDE DEF I
    <3> QED BY <1>2, <1>4, <3>1, Greatest
  <2>2. SeqTracked(s) = Len(s) - m
    BY <1>1, <1>4, <2>1
  <2>3. m \in 1 .. Len(s) /\ s[m] = "missing" /\ Len(s) - (Len(s) - m) = m
    BY <1>2
  <2>4. \A i \in 0 .. (Len(s) - m) - 1 : Len(s) - i \in 1 .. Len(s) /\ ~(Len(s) - i <= m)
    BY <1>2, <2>3
  <2>5. \A i \in 0 .. (Len(s) - m) - 1 : s[Len(s) - i] # "missing"
    BY <2>1, <2>4
  <2> QED BY <1>2, <2>2, <2>3, <2>5 DEF SeqAgo
<1> QED BY <1>3, <1>4

(* What tells how far a vehicle can be followed.                           *)
LEMMA TrackedUnique ==
  ASSUME NEW s \in Seq(Leds!View), NEW T \in 0 .. Len(s),
         \A i \in 0 .. T - 1 : SeqAgo(s, i) # "missing",
         T < Len(s) => SeqAgo(s, T) = "missing"
  PROVE  SeqTracked(s) = T
<1>1. /\ SeqTracked(s) \in 0 .. Len(s) /\ Len(s) \in Nat
      /\ \A i \in 0 .. SeqTracked(s) - 1 : SeqAgo(s, i) # "missing"
      /\ SeqTracked(s) < Len(s) => SeqAgo(s, SeqTracked(s)) = "missing"
  BY TrackedIs
<1> QED BY <1>1

(* A new frame, by which the oldest is pushed out of a full series.        *)
Pushed(s, view) ==
  IF Len(Append(s, view)) > MaxFrames THEN Tail(Append(s, view)) ELSE Append(s, view)

LEMMA PushedIs ==
  ASSUME NEW s \in Seq(Leds!View), Len(s) <= MaxFrames, NEW view \in Leds!View
  PROVE  LET n == IF Len(s) < MaxFrames THEN Len(s) + 1 ELSE MaxFrames
             T == IF SeqTracked(s) < MaxFrames THEN SeqTracked(s) + 1 ELSE MaxFrames
         IN /\ Pushed(s, view) \in Seq(Leds!View) /\ Len(Pushed(s, view)) = n
            /\ SeqAgo(Pushed(s, view), 0) = view
            /\ \A i \in Nat : i + 1 < n => SeqAgo(Pushed(s, view), i + 1) = SeqAgo(s, i)
            /\ SeqTracked(Pushed(s, view)) = IF view = "missing" THEN 0 ELSE T
<1> DEFINE r == Append(s, view)
           t == Pushed(s, view)
           n == IF Len(s) < MaxFrames THEN Len(s) + 1 ELSE MaxFrames
           T == IF SeqTracked(s) < MaxFrames THEN SeqTracked(s) + 1 ELSE MaxFrames
<1>1. MaxFrames \in Nat /\ MaxFrames >= 1
  BY LedAssumption
<1>2. /\ r \in Seq(Leds!View) /\ Len(r) = Len(s) + 1 /\ Len(s) \in Nat
      /\ r[Len(s) + 1] = view /\ \A i \in 1 .. Len(s) : r[i] = s[i]
  OBVIOUS
<1>3. /\ t \in Seq(Leds!View) /\ Len(t) = n /\ n \in Nat /\ n <= Len(s) + 1
      /\ \A i \in 1 .. n : t[i] = r[i + (Len(s) + 1 - n)]
  <2>1. CASE Len(s) < MaxFrames
    <3>1. t = r /\ n = Len(s) + 1
      BY <1>1, <1>2, <2>1 DEF Pushed
    <3> HIDE DEF r, t, n
    <3>2. \A i \in 1 .. n : i + (Len(s) + 1 - n) = i
      BY <1>2, <3>1
    <3> QED BY <1>2, <3>1, <3>2
  <2>2. CASE ~(Len(s) < MaxFrames)
    <3>1. t = Tail(r) /\ n = Len(s) /\ n = MaxFrames
      BY <1>1, <1>2, <2>2 DEF Pushed
    <3>2. /\ Tail(r) \in Seq(Leds!View) /\ Len(Tail(r)) = Len(s)
          /\ \A i \in 1 .. Len(s) : Tail(r)[i] = r[i + 1]
      <4> HIDE DEF r
      <4> QED BY <1>2
    <3> HIDE DEF r, t, n
    <3>3. \A i \in 1 .. n : i + (Len(s) + 1 - n) = i + 1
      BY <1>2, <3>1
    <3> QED BY <1>1, <1>2, <3>1, <3>2, <3>3
  <2> QED BY <2>1, <2>2
<1>6. n \in 1 .. MaxFrames /\ (n = Len(s) + 1 \/ (n = MaxFrames /\ n = Len(s)))
  BY <1>1, <1>2
<1> HIDE DEF r, t, n
<1>4. SeqAgo(t, 0) = view /\ \A i \in Nat : i + 1 < n => SeqAgo(t, i + 1) = SeqAgo(s, i)
  <2>1. n - 0 = n /\ n + (Len(s) + 1 - n) = Len(s) + 1 /\ n \in 1 .. n
    BY <1>2, <1>3, <1>6
  <2>2. t[n] = view
    BY <1>2, <1>3, <2>1
  <2>3. ASSUME NEW i \in Nat, i + 1 < n
        PROVE  t[n - (i + 1)] = s[Len(s) - i]
    <3>1. /\ n - (i + 1) \in 1 .. n /\ Len(s) - i \in 1 .. Len(s)
          /\ n - (i + 1) + (Len(s) + 1 - n) = Len(s) - i
      BY <1>2, <1>3, <2>3
    <3> QED BY <1>2, <1>3, <3>1
  <2> QED BY <1>3, <2>1, <2>2, <2>3 DEF SeqAgo
<1>7. /\ SeqTracked(s) \in 0 .. Len(s)
      /\ \A i \in 0 .. SeqTracked(s) - 1 : SeqAgo(s, i) # "missing"
      /\ SeqTracked(s) < Len(s) => SeqAgo(s, SeqTracked(s)) = "missing"
  BY TrackedIs
<1>5. SeqTracked(t) = IF view = "missing" THEN 0 ELSE T
  <2>1. CASE view = "missing"
    <3>1. 0 \in 0 .. Len(t) /\ \A i \in 0 .. 0 - 1 : SeqAgo(t, i) # "missing"
      BY <1>3
    <3> QED BY <1>3, <1>4, <2>1, <3>1, TrackedUnique
  <2>2. CASE view # "missing"
    <3>1. T \in 1 .. n
      BY <1>1, <1>2, <1>6, <1>7
    <3>2. ASSUME NEW i \in 0 .. T - 1 PROVE SeqAgo(t, i) # "missing"
      <4>1. CASE i = 0
        BY <1>4, <2>2, <4>1
      <4>2. CASE i # 0
        <5>1. /\ i - 1 \in Nat /\ (i - 1) + 1 < n /\ (i - 1) + 1 = i
              /\ i - 1 \in 0 .. SeqTracked(s) - 1
          BY <1>1, <1>6, <1>7, <3>1, <4>2
        <5> QED BY <1>4, <1>7, <5>1
      <4> QED BY <4>1, <4>2
    <3>3. ASSUME T < n PROVE SeqAgo(t, T) = "missing"
      <4>1. T = SeqTracked(s) + 1 /\ SeqTracked(s) < Len(s) /\ SeqTracked(s) \in Nat
        BY <1>1, <1>2, <1>6, <1>7, <3>3
      <4> QED BY <1>4, <1>7, <3>3, <4>1
    <3> HIDE DEF T
    <3>4. T \in 0 .. Len(t)
      BY <1>3, <3>1
    <3>5. SeqTracked(t) = T
      BY <1>3, <3>2, <3>3, <3>4, TrackedUnique
    <3> QED BY <2>2, <3>5
  <2> QED BY <2>1, <2>2
<1> QED BY <1>3, <1>4, <1>5 DEF t, n

-----------------------------------------------------------------------------
LEMMA LedCardinality == \A S : Leds!Cardinality(S) = Cardinality(S)
BY Zenon DEF Leds!Cardinality, Cardinality

(* The three least of some numbers.                                        *)
FirstThree(S, i, j, k) ==
  /\ i \in S /\ j \in S /\ k \in S /\ i < j /\ j < k
  /\ \A n \in S : n < k => n = i \/ n = j

LEMMA LeastIs ==
  ASSUME NEW S \in SUBSET Nat, NEW i \in S, \A n \in S : i <= n
  PROVE  Leds!Min(S) = i
<1>1. \A x \in S : (\A y \in S : x <= y) => x = i
  OBVIOUS
<1> QED BY <1>1 DEF Leds!Min

LEMMA ThreeLeast ==
  ASSUME NEW S \in SUBSET Nat, NEW i, NEW j, NEW k, FirstThree(S, i, j, k)
  PROVE  /\ Leds!Min(S) = i /\ Leds!Min(S \ {i}) = j /\ Leds!Min(S \ {i, j}) = k
<1>1. /\ i \in Nat /\ j \in Nat /\ k \in Nat /\ i < j /\ j < k
      /\ \A n \in S : n \in Nat /\ (n = i \/ n = j \/ k <= n)
  BY DEF FirstThree
<1>2. Leds!Min(S) = i
  <2>1. i \in S /\ \A n \in S : i <= n
    BY <1>1 DEF FirstThree
  <2> QED BY <2>1, LeastIs
<1>3. Leds!Min(S \ {i}) = j
  <2>1. j \in S \ {i} /\ (\A n \in S \ {i} : j <= n) /\ S \ {i} \in SUBSET Nat
    BY <1>1 DEF FirstThree
  <2> QED BY <2>1, LeastIs
<1>4. Leds!Min(S \ {i, j}) = k
  <2>1. k \in S \ {i, j} /\ (\A n \in S \ {i, j} : k <= n) /\ S \ {i, j} \in SUBSET Nat
    BY <1>1 DEF FirstThree
  <2> QED BY <2>1, LeastIs
<1> QED BY <1>2, <1>3, <1>4

LEMMA ThreeExist ==
  ASSUME NEW S \in SUBSET Nat, IsFiniteSet(S)
  PROVE  ~(Leds!Cardinality(S) < 3) <=> \E i, j, k \in S : FirstThree(S, i, j, k)
<1>1. Leds!Cardinality(S) = Cardinality(S) /\ Cardinality(S) \in Nat
  BY LedCardinality, FS_CardinalityType
<1>2. ASSUME NEW i \in S, NEW j \in S, NEW k \in S, FirstThree(S, i, j, k)
      PROVE  Cardinality(S) >= 3
  <2>1. i # j /\ i # k /\ j # k
    BY <1>2 DEF FirstThree
  <2>2. Cardinality({i, j, k}) = 3 /\ IsFiniteSet({i, j, k})
    <3>1. Cardinality({i}) = 1 /\ IsFiniteSet({i})
      BY FS_Singleton
    <3>2. Cardinality({i} \cup {j}) = 2 /\ IsFiniteSet({i} \cup {j})
      <4>1. j \notin {i}
        BY <2>1
      <4>2. Cardinality({i} \cup {j}) = Cardinality({i}) + 1 /\ IsFiniteSet({i} \cup {j})
        BY <3>1, <4>1, FS_AddElement
      <4> QED BY <3>1, <4>2
    <3>3. Cardinality(({i} \cup {j}) \cup {k}) = 3 /\ IsFiniteSet(({i} \cup {j}) \cup {k})
      BY <2>1, <3>2, FS_AddElement
    <3>4. ({i} \cup {j}) \cup {k} = {i, j, k}
      OBVIOUS
    <3> QED BY <3>3, <3>4
  <2>3. {i, j, k} \subseteq S
    OBVIOUS
  <2>4. Cardinality({i, j, k}) <= Cardinality(S)
    BY <2>3, FS_Subset
  <2> QED BY <1>1, <2>2, <2>4
<1>3. ASSUME Cardinality(S) >= 3
      PROVE  \E i, j, k \in S : FirstThree(S, i, j, k)
  <2>1. S # {}
    BY <1>3, FS_EmptySet
  <2>2. PICK i \in S : \A n \in S : i <= n
    BY <2>1, Least
  <2>3. /\ IsFiniteSet(S \ {i}) /\ Cardinality(S \ {i}) = Cardinality(S) - 1
    BY FS_RemoveElement
  <2>4. S \ {i} # {} /\ S \ {i} \in SUBSET Nat
    BY <1>1, <1>3, <2>3, FS_EmptySet
  <2>5. PICK j \in S \ {i} : \A n \in S \ {i} : j <= n
    BY <2>4, Least
  <2>6. /\ IsFiniteSet((S \ {i}) \ {j}) /\ Cardinality((S \ {i}) \ {j}) = Cardinality(S) - 1 - 1
    BY <2>3, FS_RemoveElement
  <2>7. (S \ {i}) \ {j} # {} /\ (S \ {i}) \ {j} \in SUBSET Nat
    BY <1>1, <1>3, <2>6, FS_EmptySet
  <2>8. PICK k \in (S \ {i}) \ {j} : \A n \in (S \ {i}) \ {j} : k <= n
    BY <2>7, Least
  <2>9. i \in Nat /\ j \in Nat /\ k \in Nat
    OBVIOUS
  <2> QED BY <2>2, <2>5, <2>8, <2>9 DEF FirstThree
<1> QED BY <1>1, <1>2, <1>3

-----------------------------------------------------------------------------
(* Edges that are at most one frame off in either length give the id of    *)
(* the vehicle that blinks, and no other (DetectVehicleID.cpp:177).        *)
THEOREM DecodingCorrect ==
  ASSUME NEW high \in Int, NEW total \in Int, NEW v \in Leds!Id,
         ~Leds!Differs(high, enabled_ticks[v]), ~Leds!Differs(total, period_ticks[v])
  PROVE  Leds!Fits(high, total) = {v}
<1>1. \A w \in Leds!Id : enabled_ticks[w] \in Int /\ period_ticks[w] \in Int
  BY LedAssumption
<1>2. ASSUME NEW w \in Leds!Fits(high, total) PROVE w = v
  <2>1. /\ w \in Leds!Id
        /\ ~Leds!Differs(high, enabled_ticks[w]) /\ ~Leds!Differs(total, period_ticks[w])
    BY DEF Leds!Fits
  <2>2. /\ enabled_ticks[v] - enabled_ticks[w] \in -2 .. 2
        /\ period_ticks[v] - period_ticks[w] \in -2 .. 2
    BY <1>1, <2>1 DEF Leds!Differs
  <2> QED BY <2>1, <2>2, LedAssumption DEF Leds!Distinguishable
<1>3. v \in Leds!Fits(high, total)
  BY DEF Leds!Fits
<1> QED BY <1>2, <1>3

FrameTick(d, i) == tick - i - (IF i > calm THEN d ELSE 0)

(* The newest m frames show the rhythm of the LED; before calm frames a    *)
(* tick may be missing or be there twice.                                  *)
Shows(m) ==
  \E d \in -1 .. 1 : \A i \in 0 .. m - 1 :
    Leds!Ago(i) = IF FrameTick(d, i) % period_ticks[vehicle_id] < enabled_ticks[vehicle_id]
                  THEN "lit" ELSE "dark"

(* The frames of a series, as ticks counted from the newest.               *)
LEMMA FramesAreTicks ==
  ASSUME tick \in Nat, calm \in Nat, NEW d \in -1 .. 1
  PROVE  Ticks([n \in Nat |-> FrameTick(d, n)], calm, d)
<1> DEFINE F == [n \in Nat |-> FrameTick(d, n)]
<1>1. F \in [Nat -> Int]
  BY DEF FrameTick
<1>2. ASSUME NEW x \in Nat, NEW y \in Nat, x <= y
      PROVE  F[x] - F[y] = y - x + (IF x <= calm /\ calm < y THEN d ELSE 0)
  BY <1>2 DEF FrameTick
<1> QED BY <1>1, <1>2 DEF Ticks

(* Three edges among the newest frames of one rhythm give its id.          *)
LEMMA LedDecoded ==
  ASSUME Leds!TypeOK, vehicle_id = id, NEW m \in Nat, Shows(m), m <= Leds!Tracked,
         NEW i \in Leds!Edges, NEW j \in Leds!Edges, NEW k \in Leds!Edges,
         FirstThree(Leds!Edges, i, j, k), k + 2 <= m
  PROVE  Leds!Detected = id
<1> DEFINE P == period_ticks[id]
           E == enabled_ticks[id]
<1>1. id \in Leds!Id /\ id \in Nat /\ id # 0
  BY LedAssumption DEF Leds!TypeOK
<1>2. Rhythm(P, E)
  BY <1>1, LedAssumption DEF Rhythm
<1>3. /\ tick \in Nat /\ calm \in Nat
      /\ Leds!Edges = {n \in 0 .. Leds!Tracked - 2 : Leds!Ago(n) # Leds!Ago(n + 1)}
      /\ Leds!Tracked \in 0 .. Len(vehiclePointTimeseries) /\ Len(vehiclePointTimeseries) \in Nat
  <2>1. vehiclePointTimeseries \in Seq(Leds!View)
    BY DEF Leds!TypeOK
  <2>2. Leds!Tracked = SeqTracked(vehiclePointTimeseries)
    BY DEF Leds!Tracked, SeqTracked
  <2>3. calm \in Nat /\ tick \in Nat
    BY LedAssumption DEF Leds!TypeOK
  <2> QED BY <2>1, <2>2, <2>3, TrackedIs DEF Leds!Edges
<1>4. PICK d \in -1 .. 1 : \A n \in 0 .. m - 1 :
          Leds!Ago(n) = IF FrameTick(d, n) % P < E THEN "lit" ELSE "dark"
  BY DEF Shows
<1> DEFINE F == [n \in Nat |-> FrameTick(d, n)]
<1>5. Ticks(F, calm, d)
  BY <1>3, FramesAreTicks
<1>6. ASSUME NEW n \in 0 .. m - 1
      PROVE  n \in Nat /\ (Leds!Ago(n) = IF Phase(F, P, n) < E THEN "lit" ELSE "dark")
  BY <1>4 DEF Phase
<1> HIDE DEF F, P, E
<1>7. i \in Nat /\ j \in Nat /\ k \in Nat /\ i < j /\ j < k
      /\ \A n \in Leds!Edges : n < k => n = i \/ n = j
  BY <1>3 DEF FirstThree
<1>14. ASSUME NEW n \in 0 .. m - 2
       PROVE  n \in Leds!Edges <=> EdgeAt(F, P, E, n)
  <2>1. n \in 0 .. m - 1 /\ n + 1 \in 0 .. m - 1 /\ n \in 0 .. Leds!Tracked - 2
    BY <1>3
  <2>2. Leds!Ago(n) # Leds!Ago(n + 1) <=> EdgeAt(F, P, E, n)
    BY <1>6, <2>1 DEF EdgeAt
  <2> QED BY <1>3, <2>1, <2>2
<1>8. /\ k - i \in P - 1 .. P + 1
      /\ ~(Phase(F, P, i) < E) => j - i \in E - 1 .. E + 1
      /\ Phase(F, P, i) < E => k - j \in E - 1 .. E + 1
  <2>1. i \in 0 .. m - 2 /\ j \in 0 .. m - 2 /\ k \in 0 .. m - 2
    BY <1>7
  <2>2. EdgeAt(F, P, E, i) /\ EdgeAt(F, P, E, j) /\ EdgeAt(F, P, E, k)
    BY <1>14, <2>1
  <2>3. /\ \A n \in i + 1 .. j - 1 : n \in 0 .. m - 2 /\ n < k /\ n # i /\ n # j
        /\ \A n \in j + 1 .. k - 1 : n \in 0 .. m - 2 /\ n < k /\ n # i /\ n # j
    BY <1>7
  <2>4. /\ \A n \in i + 1 .. j - 1 : ~EdgeAt(F, P, E, n)
        /\ \A n \in j + 1 .. k - 1 : ~EdgeAt(F, P, E, n)
    BY <1>7, <1>14, <2>3
  <2> QED BY <1>2, <1>5, <1>7, <2>2, <2>4, EdgeDistances
<1>9. Leds!Ago(i) = "dark" <=> ~(Phase(F, P, i) < E)
  <2>1. i \in 0 .. m - 1
    BY <1>7
  <2> QED BY <1>6, <2>1
<1> DEFINE high == IF Leds!Ago(i) = "dark" THEN j - i ELSE k - j
<1>10. Leds!Fits(high, k - i) = {id}
  <2>1. P \in Int /\ E \in Int
    BY <1>2 DEF Rhythm
  <2>2. high \in E - 1 .. E + 1 /\ k - i \in P - 1 .. P + 1
    BY <1>8, <1>9
  <2>3. /\ high \in Int /\ k - i \in Int
        /\ ~Leds!Differs(high, E) /\ ~Leds!Differs(k - i, P)
    BY <2>1, <2>2 DEF Leds!Differs
  <2> HIDE DEF high
  <2> QED BY <1>1, <2>3, DecodingCorrect DEF P, E
<1>11. Leds!Min({id}) = id
  BY <1>1, LeastIs
<1>15. Leds!Edges \in SUBSET Nat /\ IsFiniteSet(Leds!Edges)
  <2>1. Leds!Edges \in SUBSET (0 .. Leds!Tracked - 2) /\ 0 \in Int /\ Leds!Tracked - 2 \in Int
    BY <1>3
  <2>2. IsFiniteSet(0 .. Leds!Tracked - 2)
    BY <2>1, FS_Interval
  <2>3. IsFiniteSet(Leds!Edges)
    BY <2>1, <2>2, FS_Subset
  <2>4. \A n \in Leds!Edges : n \in Nat
    BY <2>1
  <2> QED BY <2>3, <2>4
<1>12. ~(Leds!Cardinality(Leds!Edges) < 3)
  BY <1>15, ThreeExist
<1>13. /\ Leds!Min(Leds!Edges) = i /\ Leds!Min(Leds!Edges \ {i}) = j
       /\ Leds!Min(Leds!Edges \ {i, j}) = k
  BY <1>15, ThreeLeast
<1> HIDE DEF high
<1>16. Leds!Detected = IF Leds!Fits(high, k - i) = {} THEN 0 ELSE Leds!Min(Leds!Fits(high, k - i))
  BY <1>12, <1>13 DEF Leds!Detected, high
<1> QED BY <1>10, <1>11, <1>16

-----------------------------------------------------------------------------
QuietFrames == IF quiet < MaxFrames THEN quiet ELSE MaxFrames

(* Outside safe mode the newest frames show the rhythm: all frames by which *)
(* the vehicle can be followed, unless there may be two rhythms, and those *)
(* since the last disturbance in any case.                                 *)
RhythmShown ==
  /\ ~l_safe_mode_flag =>
       /\ QuietFrames <= Leds!Tracked /\ Shows(QuietFrames)
       /\ ~mixed => Shows(Leds!Tracked)
  /\ ~mixed /\ quiet = 0 => Leds!Tracked = 0

(* In safe mode a vehicle is seen at a flash only, and hardly followed.    *)
FlashesShown ==
  l_safe_mode_flag =>
    /\ Leds!Tracked > 0 /\ (calm >= 1 \/ quiet >= 1) => tick % Leds!Flash = 0
    /\ calm >= 2 => Leds!Tracked <= 1
    /\ quiet >= 2 \/ ~mixed => Leds!Tracked <= 2

LedInv == Leds!TypeOK /\ quiet <= frames /\ RhythmShown /\ FlashesShown

LEMMA LedTypes ==
  ASSUME Leds!TypeOK
  PROVE  /\ tick \in Nat /\ calm \in 0 .. MaxFrames /\ calm \in Nat /\ quiet \in Nat /\ frames \in Nat
         /\ MaxFrames \in Nat /\ 2 <= MaxFrames
         /\ id \in Leds!Id /\ id \in Nat \ {0} /\ vehicle_id \in {0, id}
         /\ period_ticks[vehicle_id] \in Nat \ {0} /\ enabled_ticks[vehicle_id] \in Nat
         /\ vehiclePointTimeseries \in Seq(Leds!View) /\ Len(vehiclePointTimeseries) \in 0 .. MaxFrames
         /\ Leds!Tracked \in 0 .. Len(vehiclePointTimeseries)
<1>1. /\ id \in Leds!Id /\ id \in Nat \ {0} /\ vehicle_id \in {0, id}
      /\ MaxFrames \in Nat /\ 2 <= MaxFrames /\ LedFrames \in Nat
  BY LedAssumption DEF Leds!TypeOK
<1>2. vehicle_id \in Leds!Id \cup {0}
  BY <1>1
<1>3. period_ticks[vehicle_id] \in Nat \ {0} /\ enabled_ticks[vehicle_id] \in Nat
  BY <1>2, LedAssumption
<1>4. /\ vehiclePointTimeseries \in Seq(Leds!View) /\ Len(vehiclePointTimeseries) \in 0 .. MaxFrames
      /\ tick \in Nat /\ calm \in 0 .. MaxFrames /\ calm \in Nat /\ quiet \in Nat /\ frames \in Nat
  BY <1>1 DEF Leds!TypeOK
<1>5. Leds!Tracked \in 0 .. Len(vehiclePointTimeseries)
  BY <1>4, TrackedIs DEF Leds!Tracked, SeqTracked
<1> QED BY <1>1, <1>3, <1>4, <1>5

(* What becomes of the series when a frame is taken.                       *)
LEMMA FrameTaken ==
  ASSUME Leds!TypeOK, NEW view \in Leds!View, Leds!Take(view)
  PROVE  /\ vehiclePointTimeseries' \in Seq(Leds!View) /\ Len(vehiclePointTimeseries') \in 1 .. MaxFrames
         /\ Leds!Tracked' \in Nat /\ Leds!Tracked' <= MaxFrames /\ Leds!Tracked' <= Leds!Tracked + 1
         /\ view = "missing" => Leds!Tracked' = 0
         /\ view # "missing" => \A m \in Nat : m <= Leds!Tracked /\ m < MaxFrames => m + 1 <= Leds!Tracked'
         /\ view # "missing" /\ Leds!Tracked = MaxFrames => Leds!Tracked' = MaxFrames
         /\ Leds!Ago(0)' = view
         /\ \A i \in Nat : i + 1 < Leds!Tracked' => Leds!Ago(i + 1)' = Leds!Ago(i)
         /\ frames < LedFrames /\ frames' = frames + 1
         /\ UNCHANGED <<id, vehicle_id, l_safe_mode_flag>>
<1> DEFINE s == vehiclePointTimeseries
           t == Pushed(s, view)
<1>1. vehiclePointTimeseries' = t
  BY DEF Leds!Take, Leds!Push, Pushed
<1>2. /\ s \in Seq(Leds!View) /\ Len(s) \in 0 .. MaxFrames /\ MaxFrames \in Nat /\ 2 <= MaxFrames
      /\ Leds!Tracked \in 0 .. Len(s)
  BY LedTypes
<1>3. /\ Leds!Tracked = SeqTracked(s) /\ Leds!Tracked' = SeqTracked(t)
      /\ \A i : Leds!Ago(i) = SeqAgo(s, i) /\ Leds!Ago(i)' = SeqAgo(t, i)
  <2> HIDE DEF t
  <2>1. Leds!Tracked = SeqTracked(s)
    BY DEF Leds!Tracked, SeqTracked
  <2>2. Leds!Tracked' = SeqTracked(t)
    BY <1>1 DEF Leds!Tracked, SeqTracked, Leds!SelectLastInSeq
  <2>3. \A i : Leds!Ago(i) = SeqAgo(s, i)
    BY DEF Leds!Ago, SeqAgo
  <2>4. \A i : Leds!Ago(i)' = SeqAgo(t, i)
    BY <1>1 DEF Leds!Ago, SeqAgo
  <2> QED BY <2>1, <2>2, <2>3, <2>4
<1> HIDE DEF s, t
<1>4. /\ t \in Seq(Leds!View) /\ Len(t) = IF Len(s) < MaxFrames THEN Len(s) + 1 ELSE MaxFrames
      /\ SeqAgo(t, 0) = view
      /\ \A i \in Nat : i + 1 < Len(t) => SeqAgo(t, i + 1) = SeqAgo(s, i)
      /\ SeqTracked(t) = IF view = "missing" THEN 0
                         ELSE IF SeqTracked(s) < MaxFrames THEN SeqTracked(s) + 1 ELSE MaxFrames
  BY <1>2, PushedIs DEF t
<1>5. Len(t) \in 1 .. MaxFrames /\ SeqTracked(t) \in 0 .. Len(t)
  BY <1>2, <1>4, TrackedIs
<1>6. /\ frames < LedFrames /\ frames' = frames + 1
      /\ UNCHANGED <<id, vehicle_id, l_safe_mode_flag>>
  BY DEF Leds!Take
<1>7. \A i \in Nat : i + 1 < SeqTracked(t) => SeqAgo(t, i + 1) = SeqAgo(s, i)
  BY <1>4, <1>5
<1>8. /\ SeqTracked(t) \in Nat /\ SeqTracked(t) <= MaxFrames /\ SeqTracked(t) <= SeqTracked(s) + 1
      /\ view = "missing" => SeqTracked(t) = 0
      /\ view # "missing" => \A m \in Nat : m <= SeqTracked(s) /\ m < MaxFrames => m + 1 <= SeqTracked(t)
      /\ view # "missing" /\ SeqTracked(s) = MaxFrames => SeqTracked(t) = MaxFrames
  BY <1>2, <1>3, <1>4, <1>5
<1> QED BY <1>1, <1>3, <1>4, <1>5, <1>6, <1>7, <1>8

(* The rhythm goes on with a frame that shows the LED as it is, when the   *)
(* ticks do, or one is missing or there twice.                             *)
LEMMA RhythmGoesOn ==
  ASSUME Leds!TypeOK, ~l_safe_mode_flag, Leds!Take(Leds!See(tick')), tick' \in Int,
         NEW m \in Nat, m <= Leds!Tracked, Shows(m), NEW n \in Nat, n <= m + 1, n <= Leds!Tracked',
         \A d \in -1 .. 1 : \E e \in -1 .. 1 :
           /\ FrameTick(e, 0)' = tick'
           /\ \A i \in 1 .. MaxFrames - 1 : FrameTick(e, i)' = FrameTick(d, i - 1)
  PROVE  Shows(n)'
<1> DEFINE P == period_ticks[vehicle_id]
           E == enabled_ticks[vehicle_id]
           view == Leds!See(tick')
<1>1. view = (IF tick' % P < E THEN "lit" ELSE "dark") /\ view \in Leds!View
  BY DEF Leds!See, Leds!Outer, Leds!Lit, Leds!View
<1>2. PICK d \in -1 .. 1 : \A i \in 0 .. m - 1 :
        Leds!Ago(i) = IF FrameTick(d, i) % P < E THEN "lit" ELSE "dark"
  BY DEF Shows
<1>3. PICK e \in -1 .. 1 :
           /\ FrameTick(e, 0)' = tick'
           /\ \A i \in 1 .. MaxFrames - 1 : FrameTick(e, i)' = FrameTick(d, i - 1)
  OBVIOUS
<1> HIDE DEF view
<1>4. /\ Leds!Ago(0)' = view /\ vehicle_id' = vehicle_id
      /\ \A i \in Nat : i + 1 < Leds!Tracked' => Leds!Ago(i + 1)' = Leds!Ago(i)
      /\ Leds!Tracked' \in Nat /\ Leds!Tracked' <= MaxFrames /\ MaxFrames \in Nat
  BY <1>1, FrameTaken, LedTypes DEF view
<1> HIDE DEF P, E
<1>5. ASSUME NEW i \in 0 .. n - 1
      PROVE  Leds!Ago(i)' = IF FrameTick(e, i)' % P < E THEN "lit" ELSE "dark"
  <2>1. CASE i = 0
    BY <1>1, <1>3, <1>4, <2>1
  <2>2. CASE i # 0
    <3>1. /\ i - 1 \in Nat /\ (i - 1) + 1 = i /\ i - 1 \in 0 .. m - 1 
          /\ i \in 1 .. MaxFrames - 1 /\ (i - 1) + 1 < Leds!Tracked'
      BY <1>4, <2>2
    <3>2. Leds!Ago(i)' = Leds!Ago(i - 1) /\ FrameTick(e, i)' = FrameTick(d, i - 1)
      BY <1>3, <1>4, <3>1
    <3> QED BY <1>2, <3>1, <3>2
  <2> QED BY <2>1, <2>2
<1> QED BY <1>4, <1>5 DEF Shows, P, E

(* Nothing is shown by no frames.                                          *)
LEMMA NothingShown == Shows(0) /\ Shows(0)'
<1>1. 0 \in -1 .. 1 /\ 0 .. 0 - 1 = {}
  OBVIOUS
<1> QED BY <1>1 DEF Shows

LEMMA LedInit == Leds!Init => LedInv
<1> SUFFICES ASSUME Leds!Init PROVE LedInv
  OBVIOUS
<1>1. /\ id \in Leds!Id /\ id \in Nat /\ MaxFrames \in Nat /\ LedFrames \in Nat
      /\ period_ticks[id] \in Nat
  BY LedAssumption DEF Leds!Init
<1>2. tick \in Nat
  BY <1>1 DEF Leds!Init
<1>3. vehiclePointTimeseries = <<>> /\ <<>> \in Seq(Leds!View) /\ Len(<<>>) = 0
  BY DEF Leds!Init
<1>4. Leds!TypeOK
  <2>1. /\ vehicle_id \in {0, id} /\ l_safe_mode_flag \in BOOLEAN /\ mixed \in BOOLEAN
    BY DEF Leds!Init
  <2>2. /\ frames \in 0 .. LedFrames /\ quiet \in 0 .. LedFrames /\ calm \in 0 .. MaxFrames
    BY <1>1 DEF Leds!Init
  <2>3. Len(vehiclePointTimeseries) <= MaxFrames /\ vehiclePointTimeseries \in Seq(Leds!View)
    BY <1>1, <1>3
  <2> QED BY <1>1, <1>2, <2>1, <2>2, <2>3 DEF Leds!TypeOK
<1>5. Leds!Tracked = 0
  BY <1>3, <1>4, LedTypes
<1>6. /\ frames = 0 /\ quiet = 0 /\ l_safe_mode_flag = FALSE
  BY DEF Leds!Init
<1>7. QuietFrames = 0
  BY <1>1, <1>6 DEF QuietFrames
<1> QED BY <1>4, <1>5, <1>6, <1>7, NothingShown DEF LedInv, RhythmShown, FlashesShown

(* What the camera sees.                                                   *)
LEMMA SeenIs ==
  ASSUME NEW t
  PROVE  /\ Leds!See(t) \in Leds!View
         /\ ~l_safe_mode_flag => Leds!See(t) # "missing"
         /\ l_safe_mode_flag /\ Leds!See(t) # "missing" => t % Leds!Flash = 0
BY DEF Leds!See, Leds!Outer, Leds!View

(* A frame that shows the LED as it is, in time or by a tick out of it.    *)
LEMMA FrameKeeps ==
  ASSUME LedInv, Leds!Frame \/ Leds!Slip
  PROVE  LedInv'
<1> DEFINE view == Leds!See(tick')
           T == Leds!Tracked
<1>1. /\ Leds!TypeOK /\ quiet <= frames /\ RhythmShown /\ FlashesShown
  BY DEF LedInv
<1>2. /\ view \in Leds!View /\ Leds!Take(view) /\ quiet' = quiet + 1
      /\ mixed' = (mixed /\ view # "missing")
      /\ calm' \in 0 .. MaxFrames /\ tick' \in Nat
  BY <1>1, LedTypes, SeenIs DEF Leds!Frame, Leds!Slip, Leds!Something
<1>3. /\ ~l_safe_mode_flag => view # "missing"
      /\ l_safe_mode_flag /\ view # "missing" => tick' % Leds!Flash = 0
  BY SeenIs
<1> HIDE DEF view
<1>4. /\ vehiclePointTimeseries' \in Seq(Leds!View) /\ Len(vehiclePointTimeseries') \in 1 .. MaxFrames
      /\ Leds!Tracked' \in Nat /\ Leds!Tracked' <= MaxFrames /\ Leds!Tracked' <= T + 1
      /\ view = "missing" => Leds!Tracked' = 0
      /\ view # "missing" => \A m \in Nat : m <= T /\ m < MaxFrames => m + 1 <= Leds!Tracked'
      /\ view # "missing" /\ T = MaxFrames => Leds!Tracked' = MaxFrames
      /\ frames < LedFrames /\ frames' = frames + 1
      /\ UNCHANGED <<id, vehicle_id, l_safe_mode_flag>>
  BY <1>1, <1>2, FrameTaken
<1>5. /\ T \in Nat /\ T <= MaxFrames /\ MaxFrames \in Nat /\ 2 <= MaxFrames /\ quiet \in Nat
      /\ tick \in Nat /\ calm \in 0 .. MaxFrames /\ frames \in Nat
  BY <1>1, LedTypes
<1>6. Leds!TypeOK' /\ quiet' <= frames'
  <2>1. LedFrames \in Nat
    BY LedAssumption
  <2>2. quiet' \in 0 .. LedFrames /\ frames' \in 0 .. LedFrames /\ quiet' <= frames'
    BY <1>1, <1>2, <1>4, <1>5, <2>1
  <2>3. /\ id' \in Leds!Id /\ vehicle_id' \in {0, id'} /\ l_safe_mode_flag' \in BOOLEAN
        /\ mixed' \in BOOLEAN
    BY <1>1, <1>2, <1>4 DEF Leds!TypeOK
  <2>4. Len(vehiclePointTimeseries') <= MaxFrames
    BY <1>4, <1>5
  <2> QED BY <1>2, <1>4, <2>2, <2>3, <2>4 DEF Leds!TypeOK
<1>7. RhythmShown'
  <2>1. quiet' # 0
    BY <1>2, <1>5
  <2> SUFFICES ASSUME ~l_safe_mode_flag
               PROVE  /\ QuietFrames' <= Leds!Tracked' /\ Shows(QuietFrames)'
                      /\ ~mixed' => Shows(Leds!Tracked)'
    BY <1>4, <2>1 DEF RhythmShown
  <2>2. view # "missing"
    BY <1>3
  <2>3. QuietFrames \in Nat /\ QuietFrames <= T /\ QuietFrames <= MaxFrames /\ Shows(QuietFrames)
    BY <1>1, <1>5 DEF RhythmShown, QuietFrames
  <2>4. \A d \in -1 .. 1 : \E e \in -1 .. 1 :
           /\ FrameTick(e, 0)' = tick'
           /\ \A i \in 1 .. MaxFrames - 1 : FrameTick(e, i)' = FrameTick(d, i - 1)
    <3>1. CASE Leds!Frame
      <4>1. tick' = tick + 1 /\ calm' = IF calm < MaxFrames THEN calm + 1 ELSE MaxFrames
        BY <3>1 DEF Leds!Frame
      <4> QED BY <1>2, <1>5, <4>1 DEF FrameTick
    <3>2. CASE Leds!Slip
      <4>1. calm = MaxFrames /\ calm' = 0 /\ tick' \in {tick, tick + 2}
        BY <3>2 DEF Leds!Slip, Leds!Something
      <4>2. PICK e \in -1 .. 1 : tick' = tick + 1 + e
        <5>1. CASE tick' = tick
          <6>1. -1 \in -1 .. 1 /\ tick = tick + 1 + -1
            BY <1>5
          <6> QED BY <5>1, <6>1
        <5>2. CASE tick' = tick + 2
          <6>1. 1 \in -1 .. 1 /\ tick + 2 = tick + 1 + 1
            BY <1>5
          <6> QED BY <5>2, <6>1
        <5> QED BY <4>1, <5>1, <5>2
      <4> QED BY <1>5, <4>1, <4>2 DEF FrameTick
    <3> QED BY <3>1, <3>2
  <2>5. /\ QuietFrames' \in Nat /\ QuietFrames' <= Leds!Tracked' /\ QuietFrames' <= QuietFrames + 1
    <3>1. QuietFrames' = IF quiet + 1 < MaxFrames THEN quiet + 1 ELSE MaxFrames
      BY <1>2 DEF QuietFrames
    <3>2. QuietFrames' = IF QuietFrames < MaxFrames THEN QuietFrames + 1 ELSE MaxFrames
      BY <1>5, <3>1 DEF QuietFrames
    <3>3. CASE QuietFrames < MaxFrames
      BY <1>4, <1>5, <2>2, <2>3, <3>2, <3>3
    <3>4. CASE ~(QuietFrames < MaxFrames)
      <4>1. T = MaxFrames /\ QuietFrames = MaxFrames
        BY <1>5, <2>3, <3>4
      <4> QED BY <1>4, <1>5, <2>2, <3>2, <4>1
    <3> QED BY <3>3, <3>4
  <2>6. Leds!Take(Leds!See(tick')) /\ tick' \in Int
    BY <1>2 DEF view
  <2>7. ASSUME NEW m \in Nat, m <= T, Shows(m), NEW n \in Nat, n <= m + 1, n <= Leds!Tracked'
        PROVE  Shows(n)'
    BY <1>1, <2>4, <2>6, <2>7, RhythmGoesOn
  <2>8. Shows(QuietFrames)'
    <3>1. PICK n \in Nat : n = QuietFrames'
      BY <2>5
    <3>2. Shows(n)'
      BY <2>3, <2>5, <2>7, <3>1
    <3> QED BY <3>1, <3>2 DEF Shows
  <2>9. ASSUME ~mixed' PROVE Shows(Leds!Tracked)'
    <3>1. ~mixed /\ Shows(T)
      BY <1>1, <1>2, <2>2, <2>9 DEF RhythmShown
    <3>2. PICK n \in Nat : n = Leds!Tracked'
      BY <1>4
    <3>3. Shows(n)'
      BY <1>4, <1>5, <2>7, <3>1, <3>2
    <3> QED BY <3>2, <3>3 DEF Shows
  <2> QED BY <2>5, <2>8, <2>9
<1>8. FlashesShown'
  <2> SUFFICES ASSUME l_safe_mode_flag
               PROVE  /\ Leds!Tracked' > 0 /\ (calm' >= 1 \/ quiet' >= 1) => tick' % Leds!Flash = 0
                      /\ calm' >= 2 => Leds!Tracked' <= 1
                      /\ quiet' >= 2 \/ ~mixed' => Leds!Tracked' <= 2
    BY <1>4 DEF FlashesShown, Leds!Flash
  <2>1. Leds!Tracked' > 0 => view # "missing" /\ tick' % Leds!Flash = 0
    BY <1>3, <1>4
  <2>2. CASE Leds!Frame
    <3>1. /\ tick' = tick + 1 /\ calm' = IF calm < MaxFrames THEN calm + 1 ELSE MaxFrames
      BY <2>2 DEF Leds!Frame
    <3>2. T > 0 /\ (calm >= 1 \/ quiet >= 1) => Leds!Tracked' = 0
      <4>1. ASSUME tick % 25 = 0 PROVE (tick + 1) % 25 # 0
        BY <1>5, <4>1
      <4> QED BY <1>1, <1>4, <2>1, <3>1, <4>1 DEF FlashesShown, Leds!Flash
    <3>3. calm' >= 2 => calm >= 1
      BY <1>5, <3>1
    <3>4. quiet' >= 2 => quiet >= 1
      BY <1>2, <1>5
    <3>5. calm' >= 2 \/ quiet' >= 2 => Leds!Tracked' <= 1
      BY <1>4, <1>5, <3>2, <3>3, <3>4
    <3>6. ~mixed' => Leds!Tracked' <= 2
      <4>1. ~mixed /\ quiet = 0 => T = 0
        BY <1>1 DEF RhythmShown
      <4>2. CASE view = "missing"
        BY <1>4, <4>2
      <4>3. CASE view # "missing"
        <5> SUFFICES ASSUME ~mixed' PROVE Leds!Tracked' <= 2
          OBVIOUS
        <5>1. ~mixed
          BY <1>2, <4>3
        <5>2. CASE T = 0
          BY <1>4, <5>2
        <5>3. CASE T # 0
          <6>1. T > 0 /\ quiet >= 1
            BY <1>5, <4>1, <5>1, <5>3
          <6> QED BY <3>2, <6>1
        <5> QED BY <5>2, <5>3
      <4> QED BY <4>2, <4>3
    <3> QED BY <1>4, <2>1, <3>5, <3>6
  <2>3. CASE Leds!Slip
    <3>1. calm = MaxFrames /\ calm' = 0
      BY <2>3 DEF Leds!Slip, Leds!Something
    <3>2. T <= 1
      BY <1>1, <1>5, <3>1 DEF FlashesShown
    <3>3. Leds!Tracked' <= 2
      BY <1>4, <1>5, <3>2
    <3> QED BY <2>1, <3>1, <3>3
  <2> QED BY <2>2, <2>3
<1> QED BY <1>6, <1>7, <1>8 DEF LedInv

(* The types after a step, part by part.                                   *)
LEMMA LedTyped ==
  ASSUME Leds!TypeOK, quiet <= frames,
         id' = id, vehicle_id' \in {0, id}, l_safe_mode_flag' \in BOOLEAN, mixed' \in BOOLEAN,
         tick' \in Nat, calm' \in 0 .. MaxFrames,
         vehiclePointTimeseries' \in Seq(Leds!View), Len(vehiclePointTimeseries') <= MaxFrames,
         \/ frames' = frames + 1 /\ frames < LedFrames /\ quiet' \in {0, 1}
         \/ frames' = frames /\ quiet' = 0
  PROVE  Leds!TypeOK' /\ quiet' <= frames'
<1>1. /\ frames \in 0 .. LedFrames /\ LedFrames \in Nat /\ id \in Leds!Id
  BY LedAssumption DEF Leds!TypeOK
<1>2. frames' \in 0 .. LedFrames /\ quiet' \in 0 .. LedFrames /\ quiet' <= frames'
  BY <1>1
<1>3. id' \in Leds!Id /\ vehicle_id' \in {0, id'}
  BY <1>1
<1> QED BY <1>2, <1>3 DEF Leds!TypeOK

LEMMA SeriesNext ==
  ASSUME NEW t, vehiclePointTimeseries' = t
  PROVE  Leds!Tracked' = SeqTracked(t) /\ \A i : Leds!Ago(i)' = SeqAgo(t, i)
<1>1. Leds!Tracked' = SeqTracked(t)
  BY DEF Leds!Tracked, SeqTracked, Leds!SelectLastInSeq
<1>2. \A i : Leds!Ago(i)' = SeqAgo(t, i)
  BY DEF Leds!Ago, SeqAgo
<1> QED BY <1>1, <1>2

(* Tracking starts again with one frame.                                   *)
LEMMA Restarted ==
  ASSUME NEW view \in Leds!View, vehiclePointTimeseries' = <<view>>
  PROVE  /\ vehiclePointTimeseries' \in Seq(Leds!View) /\ Len(vehiclePointTimeseries') = 1
         /\ Leds!Tracked' = (IF view = "missing" THEN 0 ELSE 1)
         /\ Leds!Ago(0)' = view
<1> DEFINE t == <<view>>
<1>1. t \in Seq(Leds!View) /\ Len(t) = 1 /\ t[1] = view
  OBVIOUS
<1> HIDE DEF t
<1>2. vehiclePointTimeseries' = t
  BY DEF t
<1>3. Leds!Tracked' = SeqTracked(t) /\ Leds!Ago(0)' = SeqAgo(t, 0)
  BY <1>2, SeriesNext
<1>4. SeqAgo(t, 0) = view
  BY <1>1 DEF SeqAgo
<1>5. SeqTracked(t) = IF view = "missing" THEN 0 ELSE 1
  <2>1. CASE view = "missing"
    <3>1. 0 \in 0 .. Len(t) /\ \A i \in 0 .. 0 - 1 : SeqAgo(t, i) # "missing"
      BY <1>1
    <3> QED BY <1>1, <1>4, <2>1, <3>1, TrackedUnique
  <2>2. CASE view # "missing"
    <3>1. 1 \in 0 .. Len(t) /\ ~(1 < Len(t)) /\ \A i \in 0 .. 1 - 1 : i = 0
      BY <1>1
    <3> QED BY <1>1, <1>4, <2>2, <3>1, TrackedUnique
  <2> QED BY <2>1, <2>2
<1> QED BY <1>1, <1>2, <1>3, <1>4, <1>5

(* A vehicle that was missing in the newest frame cannot be followed.      *)
LEMMA NotSeen ==
  ASSUME Leds!TypeOK,
         vehiclePointTimeseries = <<>> \/ Leds!Last(vehiclePointTimeseries) = "missing"
  PROVE  Leds!Tracked = 0
<1> DEFINE s == vehiclePointTimeseries
<1>1. s \in Seq(Leds!View) /\ Len(s) \in Nat
  BY LedTypes
<1>2. /\ Leds!Tracked = SeqTracked(s) /\ SeqTracked(s) \in 0 .. Len(s)
      /\ \A i \in 0 .. SeqTracked(s) - 1 : SeqAgo(s, i) # "missing"
  BY <1>1, TrackedIs DEF Leds!Tracked, SeqTracked
<1>3. CASE s = <<>>
  BY <1>1, <1>2, <1>3
<1>4. CASE Leds!Last(s) = "missing"
  <2>1. SeqAgo(s, 0) = "missing"
    BY <1>1, <1>4 DEF SeqAgo, Leds!Last
  <2> QED BY <1>1, <1>2, <2>1
<1> QED BY <1>3, <1>4

(* Everything else that happens.                                           *)
LEMMA LedStep == LedInv /\ [Leds!Next]_Leds!vars => LedInv'
<1> SUFFICES ASSUME LedInv, [Leds!Next]_Leds!vars PROVE LedInv'
  OBVIOUS
<1>1. /\ Leds!TypeOK /\ quiet <= frames /\ RhythmShown /\ FlashesShown
  BY DEF LedInv
<1>2. /\ MaxFrames \in Nat /\ 2 <= MaxFrames /\ quiet \in Nat /\ tick \in Nat /\ frames \in Nat
      /\ calm \in 0 .. MaxFrames /\ Leds!Tracked \in Nat /\ LedFrames \in Nat
  BY <1>1, LedTypes, LedAssumption
<1>9. vehicle_id \in {0, id} /\ l_safe_mode_flag \in BOOLEAN
  BY <1>1 DEF Leds!TypeOK
<1>3. CASE Leds!Frame \/ Leds!Slip
  BY <1>3, FrameKeeps
<1>4. CASE Leds!Miss
  <2>1. /\ Leds!Take("missing") /\ "missing" \in Leds!View
        /\ tick' = tick + 1 /\ quiet' = 0 /\ mixed' = FALSE /\ calm' = 0
    BY <1>4 DEF Leds!Miss, Leds!Something, Leds!View
  <2>2. /\ vehiclePointTimeseries' \in Seq(Leds!View) /\ Len(vehiclePointTimeseries') <= MaxFrames
        /\ Leds!Tracked' = 0 /\ frames < LedFrames /\ frames' = frames + 1
        /\ UNCHANGED <<id, vehicle_id, l_safe_mode_flag>>
    BY <1>1, <1>2, <2>1, FrameTaken
  <2>3. Leds!TypeOK' /\ quiet' <= frames'
    <3>1. /\ 0 \in 0 .. MaxFrames /\ tick' \in Nat /\ mixed' \in BOOLEAN
          /\ vehicle_id' \in {0, id} /\ l_safe_mode_flag' \in BOOLEAN
      <4>1. 0 \in 0 .. MaxFrames /\ tick' \in Nat
        BY <1>2, <2>1
      <4>2. mixed' \in BOOLEAN
        BY <2>1
      <4>3. vehicle_id' \in {0, id} /\ l_safe_mode_flag' \in BOOLEAN
        BY <1>9, <2>2
      <4> QED BY <4>1, <4>2, <4>3
    <3> QED BY <1>1, <2>1, <2>2, <3>1, LedTyped
  <2>4. QuietFrames' = 0
    BY <1>2, <2>1 DEF QuietFrames
  <2>5. RhythmShown'
    BY <2>1, <2>2, <2>4, NothingShown DEF RhythmShown, Shows
  <2> QED BY <2>1, <2>2, <2>3, <2>5 DEF LedInv, FlashesShown
<1>5. CASE Leds!Hide
  <2>1. /\ Leds!Take("dark") /\ "dark" \in Leds!View
        /\ tick' = tick + 1 /\ quiet' = 0 /\ mixed' = TRUE /\ calm' = 0
    BY <1>5 DEF Leds!Hide, Leds!Something, Leds!View
  <2>2. /\ vehiclePointTimeseries' \in Seq(Leds!View) /\ Len(vehiclePointTimeseries') <= MaxFrames
        /\ Leds!Tracked' \in Nat /\ frames < LedFrames /\ frames' = frames + 1
        /\ UNCHANGED <<id, vehicle_id, l_safe_mode_flag>>
    BY <1>1, <1>2, <2>1, FrameTaken
  <2>3. Leds!TypeOK' /\ quiet' <= frames'
    <3>1. /\ 0 \in 0 .. MaxFrames /\ tick' \in Nat /\ mixed' \in BOOLEAN
          /\ vehicle_id' \in {0, id} /\ l_safe_mode_flag' \in BOOLEAN
      <4>1. 0 \in 0 .. MaxFrames /\ tick' \in Nat
        BY <1>2, <2>1
      <4>2. mixed' \in BOOLEAN
        BY <2>1
      <4>3. vehicle_id' \in {0, id} /\ l_safe_mode_flag' \in BOOLEAN
        BY <1>9, <2>2
      <4> QED BY <4>1, <4>2, <4>3
    <3> QED BY <1>1, <2>1, <2>2, <3>1, LedTyped
  <2>4. QuietFrames' = 0
    BY <1>2, <2>1 DEF QuietFrames
  <2>5. RhythmShown'
    BY <2>1, <2>2, <2>4, NothingShown DEF RhythmShown, Shows
  <2> QED BY <2>1, <2>2, <2>3, <2>5 DEF LedInv, FlashesShown
<1>6. CASE Leds!Drop
  <2> DEFINE view == Leds!See(tick')
  <2>1. /\ vehiclePointTimeseries' = <<view>> /\ frames < LedFrames /\ frames' = frames + 1
        /\ quiet' = 1 /\ mixed' = FALSE /\ calm' = 0 /\ tick' \in Nat
        /\ UNCHANGED <<id, vehicle_id, l_safe_mode_flag>>
    BY <1>2, <1>6 DEF Leds!Drop, Leds!Something, Leds!Restart
  <2>2. /\ view \in Leds!View
        /\ ~l_safe_mode_flag => view # "missing"
        /\ l_safe_mode_flag /\ view # "missing" => tick' % Leds!Flash = 0
    BY SeenIs
  <2> HIDE DEF view
  <2>3. /\ vehiclePointTimeseries' \in Seq(Leds!View) /\ Len(vehiclePointTimeseries') = 1
        /\ Leds!Tracked' = (IF view = "missing" THEN 0 ELSE 1)
        /\ Leds!Ago(0)' = view
    BY <2>1, <2>2, Restarted
  <2>4. Leds!TypeOK' /\ quiet' <= frames'
    <3>1. /\ Len(vehiclePointTimeseries') <= MaxFrames /\ 0 \in 0 .. MaxFrames
      BY <1>2, <2>3
    <3> QED BY <1>1, <1>9, <2>1, <2>3, <3>1, LedTyped
  <2>5. QuietFrames' = 1
    BY <1>2, <2>1 DEF QuietFrames
  <2>6. RhythmShown'
    <3> SUFFICES ASSUME ~l_safe_mode_flag
                 PROVE  QuietFrames' <= Leds!Tracked' /\ Shows(QuietFrames)' /\ Shows(Leds!Tracked)'
      BY <2>1 DEF RhythmShown
    <3>1. Leds!Tracked' = 1
      BY <2>2, <2>3
    <3>2. Shows(1)'
      <4>1. view = IF tick' % period_ticks[vehicle_id] < enabled_ticks[vehicle_id]
                   THEN "lit" ELSE "dark"
        BY DEF view, Leds!See, Leds!Outer, Leds!Lit
      <4>2. FrameTick(0, 0)' = tick'
        <5>1. \A t \in Nat : t - 0 - (IF 0 > 0 THEN 0 ELSE 0) = t
          OBVIOUS
        <5> QED BY <2>1, <5>1 DEF FrameTick
      <4>3. 0 \in -1 .. 1 /\ \A i \in 0 .. 1 - 1 : i = 0
        OBVIOUS
      <4> QED BY <2>1, <2>3, <4>1, <4>2, <4>3 DEF Shows
    <3> QED BY <2>5, <3>1, <3>2 DEF Shows
  <2>7. FlashesShown'
    <3>1. Leds!Tracked' <= 1 /\ Leds!Tracked' <= 2
      BY <2>3
    <3>2. l_safe_mode_flag' /\ Leds!Tracked' > 0 => tick' % 25 = 0
      <4> SUFFICES ASSUME l_safe_mode_flag', Leds!Tracked' > 0 PROVE tick' % 25 = 0
        OBVIOUS
      <4>1. l_safe_mode_flag
        BY <2>1
      <4>2. view # "missing"
        BY <2>3
      <4> QED BY <2>2, <4>1, <4>2 DEF Leds!Flash
    <3> QED BY <3>1, <3>2 DEF FlashesShown, Leds!Flash
  <2> QED BY <2>4, <2>6, <2>7 DEF LedInv
<1>7. CASE Leds!ReceiveId \/ Leds!SafeMode
  <2>1. /\ UNCHANGED <<id, tick, vehiclePointTimeseries, frames>> /\ quiet' = 0
        /\ mixed' = (vehiclePointTimeseries # <<>> /\ Leds!Last(vehiclePointTimeseries) # "missing")
    BY <1>7 DEF Leds!ReceiveId, Leds!SafeMode, Leds!ChangeRhythm
  <2>2. /\ vehicle_id' \in {0, id} /\ l_safe_mode_flag' \in BOOLEAN
        /\ calm' \in 0 .. MaxFrames
        /\ (calm' = calm /\ l_safe_mode_flag' = l_safe_mode_flag) \/ calm' = 0
    <3>1. CASE Leds!ReceiveId
      BY <1>2, <1>9, <3>1 DEF Leds!ReceiveId
    <3>2. CASE Leds!SafeMode
      <4>1. vehicle_id' = vehicle_id /\ l_safe_mode_flag' = ~l_safe_mode_flag /\ calm' = 0
        BY <3>2 DEF Leds!SafeMode, Leds!Something
      <4>2. 0 \in 0 .. MaxFrames
        BY <1>2
      <4> QED BY <1>9, <4>1, <4>2
    <3> QED BY <1>7, <3>1, <3>2
  <2>3. Leds!Tracked' = Leds!Tracked
    BY <2>1 DEF Leds!Tracked, Leds!SelectLastInSeq
  <2>4. ~mixed' => Leds!Tracked' = 0
    BY <1>1, <2>1, <2>3, NotSeen
  <2>5. Leds!TypeOK' /\ quiet' <= frames'
    <3>1. /\ mixed' \in BOOLEAN /\ tick' \in Nat
          /\ vehiclePointTimeseries' \in Seq(Leds!View) /\ Len(vehiclePointTimeseries') <= MaxFrames
      BY <1>1, <1>2, <2>1 DEF Leds!TypeOK
    <3> QED BY <1>1, <2>1, <2>2, <3>1, LedTyped
  <2>6. RhythmShown'
    <3>1. QuietFrames' = 0
      BY <1>2, <2>1 DEF QuietFrames
    <3>2. Leds!Tracked' \in Nat
      BY <1>2, <2>3
    <3>3. Shows(QuietFrames)' /\ (~mixed' => Shows(Leds!Tracked)')
      BY <2>4, <3>1, NothingShown DEF Shows
    <3>4. QuietFrames' <= Leds!Tracked'
      BY <3>1, <3>2
    <3> QED BY <2>4, <3>3, <3>4 DEF RhythmShown
  <2>7. FlashesShown'
    <3> SUFFICES ASSUME l_safe_mode_flag'
                 PROVE  /\ Leds!Tracked' > 0 /\ calm' >= 1 => tick' % Leds!Flash = 0
                        /\ calm' >= 2 => Leds!Tracked' <= 1
                        /\ ~mixed' => Leds!Tracked' <= 2
      BY <2>1 DEF FlashesShown, Leds!Flash
    <3>1. CASE calm' = calm /\ l_safe_mode_flag' = l_safe_mode_flag
      BY <1>1, <1>2, <2>1, <2>3, <2>4, <3>1 DEF FlashesShown, Leds!Flash
    <3>2. CASE calm' = 0
      BY <2>4, <3>2
    <3> QED BY <2>2, <3>1, <3>2
  <2> QED BY <2>5, <2>6, <2>7 DEF LedInv
<1>8. CASE UNCHANGED Leds!vars
  <2>1. UNCHANGED <<id, vehicle_id, l_safe_mode_flag, tick, vehiclePointTimeseries, frames, calm,
                    quiet, mixed>>
    BY <1>8 DEF Leds!vars
  <2>2. Leds!Tracked' = Leds!Tracked /\ \A i : Leds!Ago(i)' = Leds!Ago(i)
    BY <2>1 DEF Leds!Tracked, Leds!SelectLastInSeq, Leds!Ago
  <2>3. \A m : Shows(m) = Shows(m)'
    BY <2>1, <2>2 DEF Shows, FrameTick
  <2> QED BY <1>1, <2>1, <2>2, <2>3
             DEF LedInv, Leds!TypeOK, RhythmShown, FlashesShown, QuietFrames, Shows, FrameTick
<1> QED BY <1>3, <1>4, <1>5, <1>6, <1>7, <1>8 DEF Leds!Next

(* The edges, for the lemmas about the three least.                        *)
LEMMA EdgesFinite ==
  ASSUME Leds!TypeOK
  PROVE  /\ Leds!Edges \in SUBSET Nat /\ IsFiniteSet(Leds!Edges)
         /\ \A n \in Leds!Edges : n + 2 <= Leds!Tracked /\ Leds!Ago(n) # Leds!Ago(n + 1)
<1>1. Leds!Tracked \in Nat
  BY LedTypes
<1>2. Leds!Edges = {n \in 0 .. Leds!Tracked - 2 : Leds!Ago(n) # Leds!Ago(n + 1)}
  BY DEF Leds!Edges
<1>3. /\ Leds!Edges \in SUBSET (0 .. Leds!Tracked - 2) /\ 0 \in Int /\ Leds!Tracked - 2 \in Int
  BY <1>1, <1>2
<1>4. IsFiniteSet(Leds!Edges)
  <2>1. IsFiniteSet(0 .. Leds!Tracked - 2)
    BY <1>3, FS_Interval
  <2> QED BY <1>3, <2>1, FS_Subset
<1> QED BY <1>1, <1>2, <1>4

(* Without three edges there is no id.                                     *)
LEMMA TooFew ==
  ASSUME Leds!TypeOK, ~\E i, j, k \in Leds!Edges : FirstThree(Leds!Edges, i, j, k)
  PROVE  Leds!Detected = 0
<1>1. Leds!Cardinality(Leds!Edges) < 3
  BY EdgesFinite, ThreeExist
<1> QED BY <1>1 DEF Leds!Detected

(* With three edges among the frames that show the rhythm it is the id.    *)
LEMMA FoundInTime ==
  ASSUME Leds!TypeOK, vehicle_id = id, NEW m \in Nat, Shows(m), m <= Leds!Tracked,
         Leds!FramesNeeded(id) <= m
  PROVE  Leds!Detected = id
<1> DEFINE P == period_ticks[id]
           E == enabled_ticks[id]
           M == Leds!Larger(E, P - E)
<1>1. id \in Leds!Id
  BY LedTypes
<1>2. Rhythm(P, E) /\ P \in Nat /\ E \in Nat /\ E <= P
  BY <1>1, LedAssumption DEF Rhythm
<1>3. M \in Nat /\ E <= M /\ P - E <= M /\ P + M + 2 <= m
  <2>1. Leds!FramesNeeded(id) = P + M + 2
    BY DEF Leds!FramesNeeded
  <2> QED BY <1>2, <2>1 DEF Leds!Larger
<1>4. tick \in Nat /\ calm \in Nat /\ Leds!Tracked \in Nat
  BY LedTypes
<1>5. PICK d \in -1 .. 1 : \A n \in 0 .. m - 1 :
          Leds!Ago(n) = IF FrameTick(d, n) % P < E THEN "lit" ELSE "dark"
  BY DEF Shows
<1> DEFINE F == [n \in Nat |-> FrameTick(d, n)]
<1>6. Ticks(F, calm, d)
  BY <1>4, FramesAreTicks
<1>7. ASSUME NEW n \in 0 .. m - 1
      PROVE  n \in Nat /\ (Leds!Ago(n) = IF Phase(F, P, n) < E THEN "lit" ELSE "dark")
  BY <1>5 DEF Phase
<1> HIDE DEF F, P, E, M
<1>8. PICK i \in Nat, j \in Nat, k \in Nat :
         /\ i < j /\ j < k /\ k <= P + M
         /\ EdgeAt(F, P, E, i) /\ EdgeAt(F, P, E, j) /\ EdgeAt(F, P, E, k)
         /\ \A n \in 0 .. k - 1 : EdgeAt(F, P, E, n) => n = i \/ n = j
  <2>1. Rhythm(P, E) /\ Ticks(F, calm, d) /\ M \in Nat /\ E <= M /\ P - E <= M
    BY <1>2, <1>3, <1>6
  <2> QED BY <2>1, ThreeEdges
<1>9. ASSUME NEW n \in 0 .. m - 2
      PROVE  n \in Leds!Edges <=> EdgeAt(F, P, E, n)
  <2>1. n \in 0 .. m - 1 /\ n + 1 \in 0 .. m - 1 /\ n \in 0 .. Leds!Tracked - 2
    BY <1>4
  <2>2. Leds!Ago(n) # Leds!Ago(n + 1) <=> EdgeAt(F, P, E, n)
    BY <1>7, <2>1 DEF EdgeAt
  <2> QED BY <2>1, <2>2 DEF Leds!Edges
<1>10. k + 2 <= m
  BY <1>2, <1>3, <1>8
<1>11. FirstThree(Leds!Edges, i, j, k) /\ i \in Leds!Edges /\ j \in Leds!Edges /\ k \in Leds!Edges
  <2>1. i \in 0 .. m - 2 /\ j \in 0 .. m - 2 /\ k \in 0 .. m - 2
    BY <1>8, <1>10
  <2>2. i \in Leds!Edges /\ j \in Leds!Edges /\ k \in Leds!Edges
    BY <1>8, <1>9, <2>1
  <2>3. ASSUME NEW n \in Leds!Edges, n < k PROVE n = i \/ n = j
    <3>1. n \in Nat
      BY EdgesFinite
    <3>2. n \in 0 .. m - 2 /\ n \in 0 .. k - 1
      BY <1>8, <1>10, <2>3, <3>1
    <3> QED BY <1>8, <1>9, <3>2
  <2> QED BY <1>8, <2>2, <2>3 DEF FirstThree
<1> QED BY <1>10, <1>11, LedDecoded

(* Before the ATmega knows the id its LED stays off.                       *)
LEMMA DarkAtFirst ==
  ASSUME Leds!TypeOK, vehicle_id = 0, NEW m \in Nat, Shows(m), NEW n \in 0 .. m - 1
  PROVE  Leds!Ago(n) = "dark"
<1>1. tick \in Nat /\ calm \in Nat /\ period_ticks[0] \in Nat \ {0} /\ enabled_ticks[0] = 0
  BY LedTypes, LedAssumption
<1>2. PICK d \in -1 .. 1 :
         Leds!Ago(n) = IF FrameTick(d, n) % period_ticks[0] < enabled_ticks[0] THEN "lit" ELSE "dark"
  BY DEF Shows
<1>3. FrameTick(d, n) \in Int
  BY <1>1 DEF FrameTick
<1>4. ASSUME NEW p \in Nat \ {0}, NEW t \in Int PROVE ~(t % p < 0)
  OBVIOUS
<1> QED BY <1>1, <1>2, <1>3, <1>4

(* What the invariant says of the id that is detected.                     *)
LEMMA LedSays == LedInv => IdsRight
<1> SUFFICES ASSUME LedInv PROVE IdsRight
  OBVIOUS
<1>1. /\ Leds!TypeOK /\ quiet <= frames /\ RhythmShown /\ FlashesShown
  BY DEF LedInv
<1>2. /\ quiet \in Nat /\ MaxFrames \in Nat /\ Leds!Tracked \in Nat /\ id \in Leds!Id
      /\ vehicle_id \in {0, id} /\ id # 0
  BY <1>1, LedTypes
<1>3. Leds!Identified
  <2> SUFFICES ASSUME ~l_safe_mode_flag, vehicle_id = id, quiet >= Leds!FramesNeeded(id)
               PROVE  Leds!Detected = id
    BY DEF Leds!Identified
  <2>1. /\ QuietFrames \in Nat /\ QuietFrames <= Leds!Tracked /\ Shows(QuietFrames)
    BY <1>1, <1>2 DEF RhythmShown, QuietFrames
  <2>2. Leds!FramesNeeded(id) <= QuietFrames
    BY <1>2, LedAssumption DEF QuietFrames
  <2> QED BY <1>1, <2>1, <2>2, FoundInTime
<1>4. ASSUME Leds!Tracked <= 2 PROVE Leds!Detected = 0
  <2>1. ASSUME NEW i \in Leds!Edges, NEW j \in Leds!Edges, NEW k \in Leds!Edges,
               FirstThree(Leds!Edges, i, j, k)
        PROVE  FALSE
    <3>1. i \in Nat /\ j \in Nat /\ i < j /\ j + 2 <= Leds!Tracked
      BY <1>1, <2>1, EdgesFinite DEF FirstThree
    <3> QED BY <1>2, <1>4, <3>1
  <2> QED BY <1>1, <2>1, TooFew
<1>5. ASSUME l_safe_mode_flag, quiet > 1 PROVE Leds!Detected = 0
  <2>1. Leds!Tracked <= 2
    BY <1>1, <1>2, <1>5 DEF FlashesShown
  <2> QED BY <1>4, <2>1
<1>6. ASSUME ~mixed PROVE Leds!Detected \in {0, id}
  <2>1. CASE l_safe_mode_flag
    <3>1. Leds!Tracked <= 2
      BY <1>1, <1>6, <2>1 DEF FlashesShown
    <3> QED BY <1>4, <3>1
  <2>2. CASE ~l_safe_mode_flag
    <3>1. Shows(Leds!Tracked)
      BY <1>1, <1>6, <2>2 DEF RhythmShown
    <3>2. PICK m \in Nat : m = Leds!Tracked
      BY <1>2
    <3>3. Shows(m)
      BY <3>1, <3>2
    <3>4. CASE \E i, j, k \in Leds!Edges : FirstThree(Leds!Edges, i, j, k)
      <4>1. PICK i \in Leds!Edges, j \in Leds!Edges, k \in Leds!Edges :
              FirstThree(Leds!Edges, i, j, k)
        BY <3>4
      <4>2. k + 2 <= m /\ k \in Nat
        BY <1>1, <3>2, EdgesFinite
      <4>3. CASE vehicle_id = id
        <5>1. m <= Leds!Tracked
          BY <3>2
        <5>2. Leds!Detected = id
          BY <1>1, <3>3, <4>1, <4>2, <4>3, <5>1, LedDecoded
        <5> QED BY <5>2
      <4>4. CASE vehicle_id = 0
        <5>1. \A n \in 0 .. m - 1 : Leds!Ago(n) = "dark"
          BY <1>1, <3>3, <4>4, DarkAtFirst
        <5>2. k \in 0 .. m - 1 /\ k + 1 \in 0 .. m - 1
          BY <3>2, <4>2
        <5>3. Leds!Ago(k) # Leds!Ago(k + 1)
          BY <1>1, EdgesFinite
        <5> QED BY <5>1, <5>2, <5>3
      <4> QED BY <1>2, <4>3, <4>4
    <3>5. CASE ~\E i, j, k \in Leds!Edges : FirstThree(Leds!Edges, i, j, k)
      BY <1>1, <3>5, TooFew
    <3> QED BY <3>4, <3>5
  <2> QED BY <2>1, <2>2
<1> QED BY <1>1, <1>3, <1>5, <1>6 DEF IdsRight, Leds!NeverAnother

(* A vehicle is identified when its LED has blinked undisturbed for long   *)
(* enough, whatever happened before, and is never taken for another one    *)
(* (DetectVehicleID.cpp): for any tables of rhythms that differ by more    *)
(* than both tolerances, and any number of frames.                         *)
THEOREM IdentificationCorrect == Leds!Spec => []IdsRight
<1>1. LedInv /\ [Leds!Next]_Leds!vars => LedInv'
  BY LedStep
<1> QED BY <1>1, LedInit, LedSays, PTL DEF Leds!Spec

-----------------------------------------------------------------------------
(* Localization                                                            *)

FilterSlot == 0 .. Filter!Newest
(* The i-th state of a buffer in which the first one is at index first.    *)
At(buffer, first, i) == buffer[Filter!Index(i, first)]

SensorNumber == 0 .. FilterPeriods
PoseSteps == Seq(Nat \X Nat \X Filter!Observation)
FilterState ==
  [t : Filter!Observation, sensors : SensorNumber, observation : Filter!Observation, pose : PoseSteps]

(* The index of the i-th state, which no other state has.                  *)
LEMMA IndexIs ==
  ASSUME NEW first \in Filter!Slot, NEW i \in FilterSlot
  PROVE  /\ Filter!Index(i, first) \in Filter!Slot
         /\ Filter!Index(i, first) = IF i + first < LOCALIZATION_BUFFER_SIZE THEN i + first
                                     ELSE i + first - LOCALIZATION_BUFFER_SIZE
<1> DEFINE size == LOCALIZATION_BUFFER_SIZE
<1>1. size \in Nat \ {0} /\ first \in 0 .. size - 1 /\ i \in 0 .. size - 1
  BY FilterAssumption DEF Filter!Slot, Filter!Newest, FilterSlot
<1>2. Filter!Index(i, first) = (i + first) % size
  BY DEF Filter!Index
<1> HIDE DEF size
<1>3. (i + first) % size = IF i + first < size THEN i + first ELSE i + first - size
  BY <1>1
<1>4. /\ (IF i + first < size THEN i + first ELSE i + first - size) \in 0 .. size - 1
  BY <1>1
<1> QED
  BY <1>2, <1>3, <1>4 DEF size, Filter!Slot, Filter!Newest

(* Two states are never in the same slot.                                  *)
LEMMA IndexInjective ==
  ASSUME NEW first \in Filter!Slot, NEW i \in FilterSlot, NEW k \in FilterSlot
  PROVE  Filter!Index(i, first) = Filter!Index(k, first) <=> i = k
<1> DEFINE size == LOCALIZATION_BUFFER_SIZE
<1>1. /\ size \in Nat \ {0} /\ first \in 0 .. size - 1 /\ i \in 0 .. size - 1
      /\ k \in 0 .. size - 1
  BY FilterAssumption DEF Filter!Slot, Filter!Newest, FilterSlot
<1>2. /\ Filter!Index(i, first) = IF i + first < size THEN i + first ELSE i + first - size
      /\ Filter!Index(k, first) = IF k + first < size THEN k + first ELSE k + first - size
  BY IndexIs
<1> HIDE DEF size
<1> QED
  BY <1>1, <1>2

(* Every slot is one of the states.                                        *)
LEMMA IndexOnto ==
  ASSUME NEW first \in Filter!Slot, NEW slot \in Filter!Slot
  PROVE  \E i \in FilterSlot : Filter!Index(i, first) = slot
<1> DEFINE size == LOCALIZATION_BUFFER_SIZE
           i == IF slot >= first THEN slot - first ELSE slot - first + size
<1>1. size \in Nat \ {0} /\ first \in 0 .. size - 1 /\ slot \in 0 .. size - 1
  BY FilterAssumption DEF Filter!Slot, Filter!Newest
<1>2. /\ i \in 0 .. size - 1
      /\ slot = IF i + first < size THEN i + first ELSE i + first - size
  <2> HIDE DEF size
  <2> QED
    BY <1>1
<1>3. i \in FilterSlot
  BY <1>2 DEF FilterSlot, Filter!Newest
<1> HIDE DEF i
<1> QED
  BY <1>2, <1>3, IndexIs

(* After the next state is written the states have moved by one.           *)
LEMMA IndexMoves ==
  ASSUME NEW first \in Filter!Slot
  PROVE  LET next == (first + 1) % LOCALIZATION_BUFFER_SIZE
         IN /\ next \in Filter!Slot
            /\ Filter!Index(Filter!Newest, next) = first
            /\ Filter!Index(0, first) = first
            /\ \A i \in FilterSlot : i < Filter!Newest =>
                 i + 1 \in FilterSlot /\ Filter!Index(i, next) = Filter!Index(i + 1, first)
<1> DEFINE size == LOCALIZATION_BUFFER_SIZE
           next == (first + 1) % size
<1>1. size \in Nat \ {0} /\ first \in 0 .. size - 1
  BY FilterAssumption DEF Filter!Slot, Filter!Newest
<1>2. next = IF first + 1 < size THEN first + 1 ELSE 0
  <2> HIDE DEF size
  <2> QED
    BY <1>1
<1>3. next \in Filter!Slot
  <2>1. (IF first + 1 < size THEN first + 1 ELSE 0) \in 0 .. size - 1
    <3> HIDE DEF size
    <3> QED
      BY <1>1
  <2> QED
    BY <1>2, <2>1 DEF Filter!Slot, Filter!Newest
<1> HIDE DEF next
<1>4. Filter!Newest = size - 1 /\ FilterSlot = 0 .. size - 1
  BY DEF Filter!Newest, FilterSlot
<1>5. /\ Filter!Index(Filter!Newest, next) = first
      /\ Filter!Index(0, first) = first
  <2>1. Filter!Newest \in FilterSlot /\ 0 \in FilterSlot
    <3> HIDE DEF size
    <3> QED
      BY <1>1, <1>4
  <2>2. Filter!Index(size - 1, next) =
          IF size - 1 + next < size THEN size - 1 + next ELSE size - 1 + next - size
    BY <1>3, <1>4, <2>1, IndexIs
  <2>3. Filter!Index(0, first) = IF 0 + first < size THEN 0 + first ELSE 0 + first - size
    BY <2>1, IndexIs
  <2> HIDE DEF size
  <2>4. Filter!Index(size - 1, next) = first
    BY <1>1, <1>2, <2>2
  <2>5. Filter!Index(0, first) = first
    BY <1>1, <2>3
  <2> QED
    BY <1>4, <2>4, <2>5
<1>6. ASSUME NEW i \in FilterSlot, i < Filter!Newest
      PROVE  i + 1 \in FilterSlot /\ Filter!Index(i, next) = Filter!Index(i + 1, first)
  <2>1. i \in 0 .. size - 1 /\ i < size - 1
    BY <1>4, <1>6
  <2>2. i + 1 \in 0 .. size - 1
    <3> HIDE DEF size
    <3> QED
      BY <1>1, <2>1
  <2>3. /\ Filter!Index(i, next) = IF i + next < size THEN i + next ELSE i + next - size
        /\ Filter!Index(i + 1, first) =
             IF i + 1 + first < size THEN i + 1 + first ELSE i + 1 + first - size
    BY <1>3, <1>4, <2>1, <2>2, IndexIs
  <2> HIDE DEF size
  <2> QED
    BY <1>1, <1>2, <1>4, <2>1, <2>2, <2>3
<1> QED
  BY <1>3, <1>5, <1>6 DEF next

(* An update of the filter appends a step to the pose, and keeps the rest  *)
(* of the state.                                                           *)
LEMMA FilterUpdateIs ==
  ASSUME NEW p \in FilterState, NEW c \in FilterState
  PROVE  LET s == Filter!FilterUpdate(p, c)
         IN /\ s \in FilterState
            /\ s.t = c.t /\ s.sensors = c.sensors /\ s.observation = c.observation
            /\ s.pose = Append(p.pose, <<p.sensors, c.sensors, c.observation>>)
<1> DEFINE step == <<p.sensors, c.sensors, c.observation>>
<1>1. step \in Nat \X Nat \X Filter!Observation /\ p.pose \in PoseSteps
  BY FilterAssumption DEF FilterState, SensorNumber
<1> HIDE DEF step
<1>2. Append(p.pose, step) \in PoseSteps
  BY <1>1 DEF PoseSteps
<1>3. Filter!FilterUpdate(p, c) = [c EXCEPT !.pose = Append(p.pose, step)]
  BY DEF Filter!FilterUpdate, step
<1>4. [c EXCEPT !.pose = Append(p.pose, step)] \in FilterState
  BY <1>2 DEF FilterState
<1> QED
  BY <1>3, <1>4 DEF FilterState, step

-----------------------------------------------------------------------------
(* Reprocess                                                               *)

ReprocessStep(b, i, first) ==
  [b EXCEPT ![Filter!Index(i, first)] = Filter!FilterUpdate(b[Filter!Index(i - 1, first)], @)]

Observed(buffer, first, start) ==
  [buffer EXCEPT ![Filter!Index(start, first)].observation = sample]

ReprocessOrder(start) == [k \in 1 .. Filter!Newest - start + 1 |-> start + k - 1]

(* What is computed again after the first k of the states.                 *)
Reprocessed(b, buffer, first, start, k) ==
  /\ b \in [Filter!Slot -> FilterState]
  /\ \A i \in FilterSlot : ~(start <= i /\ i < start + k) => At(b, first, i) = At(buffer, first, i)
  /\ \A i \in FilterSlot : start <= i /\ i < start + k =>
       At(b, first, i) = Filter!FilterUpdate(At(b, first, i - 1), At(buffer, first, i))

(* Computing one state more again keeps those before it.                   *)
LEMMA ReprocessedNext ==
  ASSUME NEW first \in Filter!Slot, NEW start \in 1 .. Filter!Newest, NEW k \in Nat,
         start + k <= Filter!Newest,
         NEW buffer \in [Filter!Slot -> FilterState], NEW b,
         Reprocessed(b, buffer, first, start, k)
  PROVE  Reprocessed(ReprocessStep(b, start + k, first), buffer, first, start, k + 1)
<1> DEFINE i == start + k
           here == Filter!Index(i, first)
           new == Filter!FilterUpdate(At(b, first, i - 1), At(b, first, i))
           c == ReprocessStep(b, i, first)
<1>1. Filter!Newest \in Nat
  BY FilterAssumption DEF Filter!Newest
<1>2. i \in FilterSlot /\ i - 1 \in FilterSlot /\ i \in Int
  BY <1>1 DEF FilterSlot
<1>3. here \in Filter!Slot /\ Filter!Index(i - 1, first) \in Filter!Slot
  BY <1>2, IndexIs
<1>4. b \in [Filter!Slot -> FilterState]
  BY DEF Reprocessed
<1>5. new \in FilterState
  BY <1>3, <1>4, FilterUpdateIs DEF At
<1>6. c = [b EXCEPT ![here] = new]
  BY <1>3, <1>4 DEF ReprocessStep, At
<1> HIDE DEF c, new
<1>7. c \in [Filter!Slot -> FilterState]
  BY <1>4, <1>5, <1>6
<1>8. ASSUME NEW j \in FilterSlot
      PROVE  At(c, first, j) = IF j = i THEN new ELSE At(b, first, j)
  <2>1. Filter!Index(j, first) \in Filter!Slot
    BY IndexIs
  <2>2. Filter!Index(j, first) = here <=> j = i
    BY <1>2, IndexInjective
  <2> HIDE DEF here, i
  <2> QED
    BY <1>4, <1>6, <2>1, <2>2 DEF At
<1>9. new = Filter!FilterUpdate(At(b, first, i - 1), At(buffer, first, i))
  <2>1. ~(start <= i /\ i < start + k)
    OBVIOUS
  <2>2. At(b, first, i) = At(buffer, first, i)
    BY <1>2, <2>1 DEF Reprocessed
  <2> QED
    BY <2>2 DEF new
<1>10. ASSUME NEW j \in FilterSlot, ~(start <= j /\ j < start + (k + 1))
       PROVE  At(c, first, j) = At(buffer, first, j)
  <2>1. j # i /\ ~(start <= j /\ j < start + k)
    BY <1>10, <1>1 DEF FilterSlot
  <2> QED
    BY <1>8, <2>1 DEF Reprocessed
<1>11. ASSUME NEW j \in FilterSlot, start <= j, j < start + (k + 1)
       PROVE  At(c, first, j) = Filter!FilterUpdate(At(c, first, j - 1), At(buffer, first, j))
  <2>1. j - 1 \in FilterSlot /\ j - 1 # i /\ (j # i => start <= j /\ j < start + k)
    BY <1>11, <1>1 DEF FilterSlot
  <2>2. At(c, first, j - 1) = At(b, first, j - 1)
    BY <1>8, <2>1
  <2>3. CASE j = i
    BY <1>8, <1>9, <2>2, <2>3
  <2>4. CASE j # i
    <3> HIDE DEF i
    <3>1. At(c, first, j) = At(b, first, j)
      BY <1>8, <2>4
    <3>2. At(b, first, j) = Filter!FilterUpdate(At(b, first, j - 1), At(buffer, first, j))
      BY <2>1, <2>4 DEF Reprocessed
    <3> QED
      BY <2>2, <3>1, <3>2
  <2> QED
    BY <2>3, <2>4
<1> QED
  BY <1>7, <1>10, <1>11 DEF Reprocessed, c

(* Every state from start on is computed from the one before it.           *)
LEMMA ReprocessIs ==
  ASSUME NEW first \in Filter!Slot, NEW start \in 1 .. Filter!Newest,
         NEW buffer \in [Filter!Slot -> FilterState], sample \in Filter!Observation
  PROVE  Reprocessed(Filter!Reprocess(buffer, first, start), Observed(buffer, first, start),
                     first, start, Filter!Newest - start + 1)
<1> DEFINE n == Filter!Newest - start + 1
           base == Observed(buffer, first, start)
           D == {b \in [Filter!Slot -> FilterState] : TRUE}
           seq == ReprocessOrder(start)
           step == [b \in D |-> [k \in 1 .. n |-> ReprocessStep(b, start + k - 1, first)]]
           F == CHOOSE f : f = [s \in SUBSET DOMAIN seq |->
                  IF s = {} THEN base ELSE ReprocessStep(f[s \ {Max(s)}], seq[Max(s)], first)]
<1>1. Filter!Newest \in Nat /\ n \in Nat /\ start \in FilterSlot
  BY FilterAssumption DEF Filter!Newest, FilterSlot
<1>2. DOMAIN seq = 1 .. n
  BY DEF ReprocessOrder
<1>3. \A k \in 1 .. n : seq[k] = start + k - 1
  BY DEF ReprocessOrder
<1>4. Filter!Reprocess(buffer, first, start) = F[DOMAIN seq]
  BY Zenon DEF Filter!Reprocess, Filter!FoldLeft, Filter!MapThenFoldSet, Filter!Max, Max,
     ReprocessStep, ReprocessOrder, Observed
<1>5. base \in [Filter!Slot -> FilterState]
  <2>1. Filter!Index(start, first) \in Filter!Slot
    BY <1>1, IndexIs
  <2>2. [buffer[Filter!Index(start, first)] EXCEPT !.observation = sample] \in FilterState
    BY <2>1 DEF FilterState
  <2>3. base = [buffer EXCEPT ![Filter!Index(start, first)] =
                  [buffer[Filter!Index(start, first)] EXCEPT !.observation = sample]]
    BY <2>1 DEF Observed
  <2> QED
    BY <2>1, <2>2, <2>3
<1>6. \A b \in D, k \in 1 .. n : ReprocessStep(b, start + k - 1, first) \in D
  <2> SUFFICES ASSUME NEW b \in [Filter!Slot -> FilterState], NEW k \in 1 .. n
               PROVE  ReprocessStep(b, start + k - 1, first) \in [Filter!Slot -> FilterState]
    OBVIOUS
  <2> DEFINE i == start + k - 1
             new == Filter!FilterUpdate(b[Filter!Index(i - 1, first)], b[Filter!Index(i, first)])
  <2>1. i \in FilterSlot /\ i - 1 \in FilterSlot
    BY <1>1 DEF FilterSlot
  <2>2. Filter!Index(i, first) \in Filter!Slot /\ Filter!Index(i - 1, first) \in Filter!Slot
    BY <2>1, IndexIs
  <2>3. new \in FilterState
    BY <2>2, FilterUpdateIs
  <2>4. ReprocessStep(b, i, first) = [b EXCEPT ![Filter!Index(i, first)] = new]
    BY <2>2 DEF ReprocessStep
  <2> HIDE DEF new
  <2> QED
    BY <2>2, <2>3, <2>4
<1>7. F = [s \in SUBSET DOMAIN seq |->
             IF s = {} THEN base ELSE ReprocessStep(F[s \ {Max(s)}], seq[Max(s)], first)]
  <2>1. \A b \in D, k \in 1 .. n : step[b][k] = ReprocessStep(b, start + k - 1, first)
    BY Zenon
  <2>2. \A b \in D, k \in 1 .. n : step[b][k] \in D
    BY <1>6, <2>1, Zenon
  <2> HIDE DEF step, seq, n
  <2>3. base \in D
    BY <1>5, Zenon
  <2> HIDE DEF base, D
  <2>4. PICK w : IsFoldLeft(w, n, D, base, step)
    BY <1>1, <2>2, <2>3, FoldExists
  <2>5. w = [s \in SUBSET (1 .. n) |-> w[s]]
    BY <2>4 DEF IsFoldLeft
  <2>6. ASSUME NEW s \in SUBSET (1 .. n)
        PROVE  w[s] = IF s = {} THEN base ELSE ReprocessStep(w[s \ {Max(s)}], seq[Max(s)], first)
    <3>1. CASE s = {}
      BY <2>4, <3>1, Zenon DEF IsFoldLeft
    <3>2. CASE s # {}
      <4>1. Max(s) \in 1 .. n
        BY <1>1, <3>2, Greatest
      <4>2. w[s \ {Max(s)}] \in D
        BY <2>4, <4>1 DEF IsFoldLeft
      <4>3. w[s] = step[w[s \ {Max(s)}]][Max(s)]
        BY <2>4, <3>2, Zenon DEF IsFoldLeft
      <4> QED
        BY <1>3, <2>1, <3>2, <4>1, <4>2, <4>3, Zenon
    <3> QED
      BY <3>1, <3>2, Zenon
  <2>7. w = [s \in SUBSET DOMAIN seq |->
               IF s = {} THEN base ELSE ReprocessStep(w[s \ {Max(s)}], seq[Max(s)], first)]
    BY <1>2, <2>5, <2>6, Zenon
  <2> QED
    BY <2>7, Zenon
<1> HIDE DEF F, seq, step
<1>8. /\ F[{}] = base
      /\ \A k \in Nat : k + 1 <= n =>
           F[1 .. k + 1] = ReprocessStep(F[1 .. k], start + k, first)
  <2>1. \A s \in SUBSET (1 .. n) :
          F[s] = IF s = {} THEN base ELSE ReprocessStep(F[s \ {Max(s)}], seq[Max(s)], first)
    BY <1>2, <1>7, Zenon
  <2> HIDE DEF base, n
  <2>2. F[{}] = base
    BY <2>1
  <2>3. ASSUME NEW k \in Nat, k + 1 <= n
        PROVE  F[1 .. k + 1] = ReprocessStep(F[1 .. k], start + k, first)
    <3>1. Max(1 .. k + 1) = k + 1 /\ (1 .. k + 1) \ {k + 1} = 1 .. k
      BY PrefixMax
    <3>2. 1 .. k + 1 \in SUBSET (1 .. n) /\ 1 .. k + 1 # {} /\ k + 1 \in 1 .. n
      BY <1>1, <2>3
    <3>3. F[1 .. k + 1] = ReprocessStep(F[1 .. k], seq[k + 1], first)
      BY <2>1, <3>1, <3>2, Zenon
    <3>4. start + (k + 1) - 1 = start + k
      OBVIOUS
    <3> QED
      BY <1>3, <3>2, <3>3, <3>4, Zenon
  <2> QED
    BY <2>2, <2>3
<1>9. \A k \in Nat : k <= n => Reprocessed(F[1 .. k], base, first, start, k)
  <2> DEFINE Good == {k \in Nat : k <= n => Reprocessed(F[1 .. k], base, first, start, k)}
  <2>1. 0 \in Good
    <3>1. 1 .. 0 = {}
      OBVIOUS
    <3>2. \A i \in FilterSlot : ~(start <= i /\ i < start + 0)
      BY DEF FilterSlot
    <3>3. Reprocessed(base, base, first, start, 0)
      <4> HIDE DEF base
      <4> QED
        BY <1>5, <3>2 DEF Reprocessed
    <3> QED
      BY <1>8, <3>1, <3>3, Zenon
  <2>2. ASSUME NEW k \in Nat, k \in Good PROVE k + 1 \in Good
    <3> SUFFICES ASSUME k + 1 <= n
                 PROVE  Reprocessed(F[1 .. k + 1], base, first, start, k + 1)
      OBVIOUS
    <3>1. k <= n /\ start + k <= Filter!Newest
      BY <1>1
    <3>2. Reprocessed(F[1 .. k], base, first, start, k)
      BY <2>2, <3>1, Zenon
    <3> HIDE DEF base
    <3>3. Reprocessed(ReprocessStep(F[1 .. k], start + k, first), base, first, start, k + 1)
      BY <1>5, <3>1, <3>2, ReprocessedNext
    <3> QED
      BY <1>8, <3>3, Zenon
  <2> HIDE DEF Good
  <2>3. \A k \in Nat : k \in Good
    BY <2>1, <2>2, Induct
  <2> QED
    BY <2>3, Zenon DEF Good
<1>10. n <= n
  BY <1>1
<1> QED
  BY <1>1, <1>2, <1>4, <1>9, <1>10, Zenon

-----------------------------------------------------------------------------
(* The filter that knows all observations                                  *)

LogEntry == [t : Filter!Observation, sensors : 1 .. FilterPeriods]

(* Given the observations H and the updates L of the filter: the           *)
(* observation of the state that begins at t, the sensors of the n-th      *)
(* update, and the pose after n updates.                                   *)
Filtered(H, t) ==
  LET in_time == {o \in H : t <= o /\ o < t + period}
  IN IF in_time = {} THEN 0 ELSE CHOOSE o \in in_time : TRUE
SensorsOf(L, n) == IF n = 0 THEN 0 ELSE L[n].sensors
Poses(H, L, n) ==
  [k \in 1 .. n |-> <<SensorsOf(L, k - 1), L[k].sensors, Filtered(H, L[k].t)>>]

(* The observation of a state is one of those that there can be.           *)
LEMMA FilteredType ==
  ASSUME NEW H \in SUBSET Filter!Observation, NEW t PROVE Filtered(H, t) \in Filter!Observation
<1>1. 0 \in Filter!Observation
  BY FilterAssumption DEF Filter!Observation, Filter!TimeOf, Filter!Start
<1> QED
  BY <1>1 DEF Filtered

(* The poses of the filter that knows all observations grow by one step    *)
(* with every update.                                                      *)
LEMMA PosesNext ==
  ASSUME NEW H \in SUBSET Filter!Observation, NEW L \in Seq(LogEntry), NEW n \in Nat,
         n <= Len(L)
  PROVE  /\ SensorsOf(L, n) \in SensorNumber
         /\ Poses(H, L, n) \in PoseSteps
         /\ n = 0 => Poses(H, L, n) = <<>>
         /\ n > 0 => Poses(H, L, n) = Append(Poses(H, L, n - 1),
                       <<SensorsOf(L, n - 1), L[n].sensors, Filtered(H, L[n].t)>>)
<1>1. \A k \in 1 .. n : L[k] \in LogEntry
  OBVIOUS
<1>2. \A k \in 0 .. n : SensorsOf(L, k) \in SensorNumber
  BY <1>1, FilterAssumption DEF SensorsOf, SensorNumber, LogEntry
<1> DEFINE step(k) == <<SensorsOf(L, k - 1), L[k].sensors, Filtered(H, L[k].t)>>
<1>3. \A k \in 1 .. n : step(k) \in Nat \X Nat \X Filter!Observation
  BY <1>1, <1>2, FilteredType DEF LogEntry, SensorNumber
<1> HIDE DEF step
<1>4. Poses(H, L, n) = [k \in 1 .. n |-> step(k)]
  BY DEF Poses, step
<1>5. Poses(H, L, n) \in PoseSteps /\ (n = 0 => Poses(H, L, n) = <<>>)
  BY <1>3, <1>4 DEF PoseSteps
<1>6. ASSUME n > 0 PROVE Poses(H, L, n) = Append(Poses(H, L, n - 1), step(n))
  <2>1. Poses(H, L, n - 1) = [k \in 1 .. n - 1 |-> step(k)]
    BY DEF Poses, step
  <2> DEFINE S == Nat \X Nat \X Filter!Observation
             shorter == [k \in 1 .. n - 1 |-> step(k)]
             longer == [k \in 1 .. n |-> step(k)]
             appended == Append(shorter, step(n))
  <2>2. n \in 1 .. n /\ n - 1 \in Nat /\ (n - 1) + 1 = n /\ \A k \in 1 .. n - 1 : k \in 1 .. n
    BY <1>6
  <2>3. \A k \in 1 .. n : step(k) \in S
    BY <1>3
  <2> HIDE DEF S
  <2>4. shorter \in Seq(S) /\ Len(shorter) = n - 1 /\ \A k \in 1 .. n - 1 : shorter[k] = step(k)
    BY <2>2, <2>3
  <2>5. longer \in Seq(S) /\ Len(longer) = n /\ \A k \in 1 .. n : longer[k] = step(k)
    BY <2>2, <2>3
  <2> HIDE DEF shorter, longer
  <2>6. appended \in Seq(S) /\ Len(appended) = n /\ \A k \in 1 .. n : appended[k] = step(k)
    <3>1. appended[n] = step(n) /\ \A k \in 1 .. n - 1 : appended[k] = shorter[k]
      BY <2>2, <2>3, <2>4
    <3>2. appended \in Seq(S) /\ Len(appended) = n
      BY <2>2, <2>3, <2>4
    <3>3. \A k \in 1 .. n : k = n \/ k \in 1 .. n - 1
      BY <2>2
    <3> QED BY <2>4, <3>1, <3>2, <3>3
  <2> HIDE DEF appended
  <2>7. longer = appended
    BY <2>5, <2>6
  <2> QED BY <1>4, <2>1, <2>7 DEF longer, shorter, appended
<1>7. n \in 0 .. n
  OBVIOUS
<1> QED
  BY <1>2, <1>5, <1>6, <1>7 DEF step

(* The fold over the log, which defines the filter that knows all          *)
(* observations, computes those poses: by induction over the length of the *)
(* log.                                                                    *)
LEMMA FoldIs ==
  ASSUME handed \subseteq Filter!Observation, log \in Seq(LogEntry)
  PROVE  Filter!FoldLeft(Filter!FilterStep, [sensors |-> 0, pose |-> Filter!Zero], log).pose =
           Poses(handed, log, Len(log))
<1> DEFINE n == Len(log)
           base == [sensors |-> 0, pose |-> Filter!Zero]
           D == [sensors : Nat, pose : PoseSteps]
           step == [d \in D |-> [k \in 1 .. n |-> Filter!FilterStep(d, log[k])]]
           F == CHOOSE f : f = [s \in SUBSET DOMAIN log |->
                  IF s = {} THEN base ELSE Filter!FilterStep(f[s \ {Max(s)}], log[Max(s)])]
<1>1. n \in Nat /\ DOMAIN log = 1 .. n /\ \A k \in 1 .. n : log[k] \in LogEntry
  OBVIOUS
<1>2. Filter!FoldLeft(Filter!FilterStep, base, log) = F[DOMAIN log]
  BY Zenon DEF Filter!FoldLeft, Filter!MapThenFoldSet, Filter!Max, Max
<1>3. base \in D
  BY DEF Filter!Zero, PoseSteps
<1>4. \A d, e : Filter!FilterStep(d, e) =
        [sensors |-> e.sensors, pose |-> Append(d.pose, <<d.sensors, e.sensors, Filtered(handed, e.t)>>)]
  BY DEF Filter!FilterStep, Filtered
<1>5. \A d \in D, k \in 1 .. n : Filter!FilterStep(d, log[k]) \in D
  <2> SUFFICES ASSUME NEW d \in D, NEW k \in 1 .. n
               PROVE  [sensors |-> log[k].sensors,
                       pose |-> Append(d.pose, <<d.sensors, log[k].sensors, Filtered(handed, log[k].t)>>)]
                        \in D
    BY <1>4, Zenon
  <2>1. log[k].sensors \in Nat /\ d.sensors \in Nat /\ d.pose \in PoseSteps
    BY <1>1 DEF LogEntry
  <2>2. <<d.sensors, log[k].sensors, Filtered(handed, log[k].t)>> \in Nat \X Nat \X Filter!Observation
    BY <2>1, FilteredType
  <2>3. Append(d.pose, <<d.sensors, log[k].sensors, Filtered(handed, log[k].t)>>) \in PoseSteps
    BY <2>1, <2>2 DEF PoseSteps
  <2> QED
    BY <2>1, <2>3
<1>6. F = [s \in SUBSET DOMAIN log |->
             IF s = {} THEN base ELSE Filter!FilterStep(F[s \ {Max(s)}], log[Max(s)])]
  <2>1. \A d \in D, k \in 1 .. n : step[d][k] = Filter!FilterStep(d, log[k])
    BY Zenon
  <2>2. \A d \in D, k \in 1 .. n : step[d][k] \in D
    BY <1>5, <2>1, Zenon
  <2> HIDE DEF step, n, base, D
  <2>3. PICK w : IsFoldLeft(w, n, D, base, step)
    BY <1>1, <1>3, <2>2, FoldExists
  <2>4. w = [s \in SUBSET (1 .. n) |-> w[s]]
    BY <2>3 DEF IsFoldLeft
  <2>5. ASSUME NEW s \in SUBSET (1 .. n)
        PROVE  w[s] = IF s = {} THEN base ELSE Filter!FilterStep(w[s \ {Max(s)}], log[Max(s)])
    <3>1. CASE s = {}
      BY <2>3, <3>1, Zenon DEF IsFoldLeft
    <3>2. CASE s # {}
      <4>1. Max(s) \in 1 .. n
        BY <1>1, <3>2, Greatest
      <4>2. w[s \ {Max(s)}] \in D
        BY <2>3, <4>1 DEF IsFoldLeft
      <4>3. w[s] = step[w[s \ {Max(s)}]][Max(s)]
        BY <2>3, <3>2, Zenon DEF IsFoldLeft
      <4> QED
        BY <2>1, <3>2, <4>1, <4>2, <4>3, Zenon
    <3> QED
      BY <3>1, <3>2, Zenon
  <2>6. w = [s \in SUBSET DOMAIN log |->
               IF s = {} THEN base ELSE Filter!FilterStep(w[s \ {Max(s)}], log[Max(s)])]
    BY <1>1, <2>4, <2>5, Zenon
  <2> QED
    BY <2>6, Zenon
<1> HIDE DEF F, step
<1> DEFINE Good == {k \in Nat : k <= n =>
                      F[1 .. k] = [sensors |-> SensorsOf(log, k), pose |-> Poses(handed, log, k)]}
<1>7. 0 \in Good
  <2>1. 1 .. 0 = {} /\ 0 <= n
    OBVIOUS
  <2>2. F[{}] = base
    BY <1>6, Zenon
  <2>3. SensorsOf(log, 0) = 0 /\ Poses(handed, log, 0) = <<>>
    BY <2>1, PosesNext DEF SensorsOf
  <2> QED
    BY <2>1, <2>2, <2>3 DEF Filter!Zero
<1>8. ASSUME NEW k \in Nat, k \in Good PROVE k + 1 \in Good
  <2> SUFFICES ASSUME k + 1 <= n
               PROVE  F[1 .. k + 1] = [sensors |-> SensorsOf(log, k + 1), pose |-> Poses(handed, log, k + 1)]
    OBVIOUS
  <2>1. Max(1 .. k + 1) = k + 1 /\ (1 .. k + 1) \ {k + 1} = 1 .. k
    BY PrefixMax
  <2>2. 1 .. k + 1 \in SUBSET (1 .. n) /\ 1 .. k + 1 # {} /\ k <= n /\ k + 1 \in Nat
    OBVIOUS
  <2>3. F[1 .. k + 1] = Filter!FilterStep(F[1 .. k], log[k + 1])
    BY <1>1, <1>6, <2>1, <2>2, Zenon
  <2>4. F[1 .. k] = [sensors |-> SensorsOf(log, k), pose |-> Poses(handed, log, k)]
    BY <1>8, <2>2, Zenon
  <2>5. F[1 .. k + 1] = [sensors |-> log[k + 1].sensors,
          pose |-> Append(Poses(handed, log, k), <<SensorsOf(log, k), log[k + 1].sensors, Filtered(handed, log[k + 1].t)>>)]
    <3>1. F[1 .. k].sensors = SensorsOf(log, k) /\ F[1 .. k].pose = Poses(handed, log, k)
      BY <2>4
    <3> QED
      BY <1>4, <2>3, <3>1, Zenon
  <2>6. k + 1 > 0 /\ (k + 1) - 1 = k /\ k + 1 # 0
    OBVIOUS
  <2>7. Poses(handed, log, k + 1) =
          Append(Poses(handed, log, k), <<SensorsOf(log, k), log[k + 1].sensors, Filtered(handed, log[k + 1].t)>>)
    BY <2>2, <2>6, PosesNext
  <2>8. SensorsOf(log, k + 1) = log[k + 1].sensors
    BY <2>6 DEF SensorsOf
  <2> QED
    BY <2>5, <2>7, <2>8
<1>9. F[1 .. n] = [sensors |-> SensorsOf(log, n), pose |-> Poses(handed, log, n)]
  <2>1. \A k \in Nat : k \in Good
    <3> HIDE DEF Good
    <3> QED
      BY <1>7, <1>8, Induct
  <2>2. n <= n
    BY <1>1
  <2> QED
    BY <1>1, <2>1, <2>2, Zenon
<1> QED
  BY <1>1, <1>2, <1>9

-----------------------------------------------------------------------------
(* The invariant                                                           *)

Seen == {observed[i] : i \in DOMAIN observed}
Within(o, t) == t <= o /\ o < t + period

FilterTypes ==
  /\ cycles \in 0 .. FilterPeriods /\ loop_count \in 0 .. cycles /\ reset_at \in 0 .. cycles
  /\ l_failures \in 0 .. FilterFailures
  /\ state_buffer \in [Filter!Slot -> FilterState] /\ state_buffer_index \in Filter!Slot
  /\ observed \in Seq(Filter!Observation) /\ sample \in Filter!Observation
  /\ log \in Seq(LogEntry) /\ handed \in SUBSET Filter!Observation

(* Updates are made at the times of different periods ...                  *)
LogTimes(L, count) ==
  /\ \A i \in DOMAIN L : L[i].t = Filter!TimeOf(L[i].sensors) /\ L[i].sensors <= count
  /\ \A i, j \in DOMAIN L : i # j => L[i].sensors # L[j].sensors

(* ... and observations in different periods.                              *)
SeenOnce ==
  /\ handed \subseteq Seen /\ (sample > 0 => sample \in Seen)
  /\ \A o \in Seen : o > Filter!Start /\ o < Filter!TimeOf(cycles + 1)
  /\ \A o, p \in Seen, m \in Nat :
       Within(o, Filter!TimeOf(m)) /\ Within(p, Filter!TimeOf(m)) => o = p

(* The states are the last updates, with their observations, and with the  *)
(* poses of the filter that knows all observations.                        *)
Recorded(buffer, first, H, L, exact) ==
  \A i \in FilterSlot :
    LET s == At(buffer, first, i)
        e == Len(L) - Filter!Newest + i
    IN IF e >= 1
       THEN /\ s.t = L[e].t /\ s.sensors = L[e].sensors /\ s.observation = Filtered(H, L[e].t)
            /\ exact => s.pose = Poses(H, L, e)
       ELSE s = Filter!State(0, 0)

(* A state was computed from the one before it.                            *)
Linked(buffer, first, reset) ==
  \A i \in 1 .. Filter!Newest :
    LET s == At(buffer, first, i)
    IN s.sensors > 0 /\ (reset = 0 \/ s.sensors > reset)
         => s.pose = Filter!FilterUpdate(At(buffer, first, i - 1), s).pose

FilterInv ==
  /\ FilterTypes
  /\ LogTimes(log, cycles)
  /\ SeenOnce
  /\ Recorded(state_buffer, state_buffer_index, handed, log, reset_at = 0)
  /\ Linked(state_buffer, state_buffer_index, reset_at)

(* The buffer has a newest state, and every other state has one after it.  *)
LEMMA NewestIs == /\ Filter!Newest \in Nat /\ Filter!Newest \in FilterSlot /\ 0 \in FilterSlot
                  /\ FilterSlot \subseteq Nat
                  /\ \A i \in 1 .. Filter!Newest : i \in FilterSlot /\ i - 1 \in FilterSlot
BY FilterAssumption DEF Filter!Newest, FilterSlot

(* Periods do not overlap.                                                 *)
LEMMA TimeGrows ==
  ASSUME NEW m \in Nat, NEW n \in Nat
  PROVE  /\ Filter!TimeOf(m) \in Nat /\ Filter!TimeOf(m) >= Filter!Start
         /\ Filter!Start \in Nat /\ Filter!Start >= period /\ Filter!Start > 0
         /\ m < n => Filter!TimeOf(m) + period <= Filter!TimeOf(n)
         /\ Filter!TimeOf(m + 1) = Filter!TimeOf(m) + period
<1>1. period \in Nat /\ period > 0
  BY FilterAssumption
<1>2. m * period \in Nat /\ n * period \in Nat
  BY <1>1
<1>3. (m + 1) * period = m * period + period
  BY <1>1
<1>4. ASSUME m < n PROVE (m + 1) * period <= n * period
  <2>1. n - (m + 1) \in Nat
    BY <1>4
  <2>2. (n - (m + 1)) * period \in Nat
    BY <1>1, <2>1
  <2>3. (n - (m + 1)) * period = n * period - (m + 1) * period
    BY <1>1
  <2>4. (m + 1) * period \in Nat
    BY <1>1
  <2> QED
    BY <1>2, <2>2, <2>3, <2>4
<1> DEFINE a == m * period
           b == n * period
           c == (m + 1) * period
<1>5. a \in Nat /\ b \in Nat /\ c = a + period /\ (m < n => c <= b)
  BY <1>2, <1>3, <1>4
<1>6. /\ Filter!TimeOf(m) = 10 * period + a /\ Filter!TimeOf(n) = 10 * period + b
      /\ Filter!TimeOf(m + 1) = 10 * period + c /\ Filter!Start = 10 * period
  BY DEF Filter!TimeOf, Filter!Start
<1> HIDE DEF a, b, c
<1> QED
  BY <1>1, <1>5, <1>6

(* An observation belongs to the state of one period only.                 *)
LEMMA WithinOne ==
  ASSUME NEW m \in Nat, NEW n \in Nat, NEW o \in Nat,
         Within(o, Filter!TimeOf(m)), Within(o, Filter!TimeOf(n))
  PROVE  m = n
<1>1. /\ Filter!TimeOf(m) \in Nat /\ Filter!TimeOf(n) \in Nat
      /\ m < n => Filter!TimeOf(m) + period <= Filter!TimeOf(n)
      /\ n < m => Filter!TimeOf(n) + period <= Filter!TimeOf(m)
  BY TimeGrows
<1> QED
  BY <1>1, FilterAssumption DEF Within

(* The states that the filter begins with and writes have their type.      *)
LEMMA StateIs ==
  /\ 0 \in Filter!Observation
  /\ Filter!State(0, 0) \in FilterState
  /\ Filter!State(0, 0).t = 0 /\ Filter!State(0, 0).sensors = 0 /\ Filter!State(0, 0).pose = <<>>
  /\ \A n \in SensorNumber :
       /\ Filter!TimeOf(n) \in Filter!Observation
       /\ Filter!State(Filter!TimeOf(n), n) \in FilterState
       /\ Filter!State(Filter!TimeOf(n), n).t = Filter!TimeOf(n)
       /\ Filter!State(Filter!TimeOf(n), n).sensors = n
       /\ Filter!State(Filter!TimeOf(n), n).observation = 0
<1>1. <<>> \in PoseSteps
  BY DEF PoseSteps
<1>2. 0 \in Filter!Observation /\ 0 \in SensorNumber
  <2>1. FilterPeriods + 1 \in Nat
    BY FilterAssumption
  <2>2. Filter!TimeOf(FilterPeriods + 1) \in Nat
    BY <2>1, TimeGrows
  <2> QED
    BY <2>2, FilterAssumption DEF Filter!Observation, SensorNumber
<1>3. ASSUME NEW n \in SensorNumber PROVE Filter!TimeOf(n) \in Filter!Observation
  <2>1. n \in Nat /\ FilterPeriods + 1 \in Nat /\ n < FilterPeriods + 1
    BY FilterAssumption DEF SensorNumber
  <2>2. /\ Filter!TimeOf(n) \in Nat /\ Filter!TimeOf(FilterPeriods + 1) \in Nat
        /\ Filter!TimeOf(n) + period <= Filter!TimeOf(FilterPeriods + 1)
    BY <2>1, TimeGrows
  <2> QED
    BY <2>2, FilterAssumption DEF Filter!Observation
<1>4. \A t \in Filter!Observation, n \in SensorNumber : Filter!State(t, n) \in FilterState
  BY <1>1, <1>2 DEF Filter!State, FilterState, Filter!Zero
<1> QED
  BY <1>2, <1>3, <1>4 DEF Filter!State, Filter!Zero

-----------------------------------------------------------------------------
(* The next state is written                                               *)

NextFirst == (state_buffer_index + 1) % LOCALIZATION_BUFFER_SIZE
Written(n) == Filter!Advance(Filter!TimeOf(n), n)

(* Writing the next state moves the others by one, and the oldest is gone. *)
LEMMA AdvanceIs ==
  ASSUME FilterTypes, NEW n \in SensorNumber
  PROVE  LET new == Filter!FilterUpdate(At(state_buffer, state_buffer_index, Filter!Newest),
                                        Filter!State(Filter!TimeOf(n), n))
         IN /\ NextFirst \in Filter!Slot
            /\ new \in FilterState
            /\ Written(n) \in [Filter!Slot -> FilterState]
            /\ At(Written(n), NextFirst, Filter!Newest) = new
            /\ \A i \in FilterSlot : i < Filter!Newest =>
                 /\ i + 1 \in FilterSlot
                 /\ At(Written(n), NextFirst, i) = At(state_buffer, state_buffer_index, i + 1)
<1> DEFINE first == state_buffer_index
           new == Filter!FilterUpdate(At(state_buffer, first, Filter!Newest),
                                      Filter!State(Filter!TimeOf(n), n))
<1>1. first \in Filter!Slot /\ state_buffer \in [Filter!Slot -> FilterState]
  BY DEF FilterTypes
<1>2. Filter!Index(Filter!Newest, first) \in Filter!Slot
  BY <1>1, NewestIs, IndexIs
<1>3. new \in FilterState
  BY <1>1, <1>2, StateIs, FilterUpdateIs DEF At
<1>4. Written(n) = [state_buffer EXCEPT ![first] = new]
  BY DEF Written, Filter!Advance, At
<1> HIDE DEF new, first
<1>5. /\ NextFirst \in Filter!Slot
      /\ Filter!Index(Filter!Newest, NextFirst) = first
      /\ Filter!Index(0, first) = first
      /\ \A i \in FilterSlot : i < Filter!Newest =>
           i + 1 \in FilterSlot /\ Filter!Index(i, NextFirst) = Filter!Index(i + 1, first)
  BY <1>1, IndexMoves DEF NextFirst, first
<1>6. Written(n) \in [Filter!Slot -> FilterState]
  BY <1>1, <1>3, <1>4
<1>7. At(Written(n), NextFirst, Filter!Newest) = new
  BY <1>1, <1>4, <1>5 DEF At
<1>8. ASSUME NEW i \in FilterSlot, i < Filter!Newest
      PROVE  At(Written(n), NextFirst, i) = At(state_buffer, first, i + 1)
  <2>1. i + 1 \in FilterSlot /\ i + 1 # 0
    BY <1>5, <1>8, NewestIs
  <2>2. Filter!Index(i + 1, first) # first /\ Filter!Index(i + 1, first) \in Filter!Slot
    BY <1>1, <1>5, <2>1, IndexInjective, IndexIs, NewestIs
  <2> QED
    BY <1>1, <1>4, <1>5, <1>8, <2>2 DEF At
<1> QED
  BY <1>3, <1>5, <1>6, <1>7, <1>8 DEF new, first

(* What an observation changes: the state that it belongs to.              *)
LEMMA FilteredNext ==
  ASSUME NEW H \in SUBSET Filter!Observation, NEW o \in Filter!Observation, NEW t
  PROVE  /\ ~Within(o, t) => Filtered(H \cup {o}, t) = Filtered(H, t)
         /\ Within(o, t) /\ (\A p \in H : Within(p, t) => p = o) => Filtered(H \cup {o}, t) = o
         /\ (\A p \in H : ~Within(p, t)) => Filtered(H, t) = 0
         /\ Filtered(H, t) # 0 => Filtered(H, t) \in H /\ Within(Filtered(H, t), t)
<1>1. ASSUME ~Within(o, t) PROVE Filtered(H \cup {o}, t) = Filtered(H, t)
  <2> DEFINE before == {p \in H : t <= p /\ p < t + period}
             after == {p \in H \cup {o} : t <= p /\ p < t + period}
  <2>1. after = before
    BY <1>1, Zenon DEF Within
  <2>2. /\ Filtered(H, t) = IF before = {} THEN 0 ELSE CHOOSE p \in before : TRUE
        /\ Filtered(H \cup {o}, t) = IF after = {} THEN 0 ELSE CHOOSE p \in after : TRUE
    BY Zenon DEF Filtered
  <2> HIDE DEF before, after
  <2> QED
    BY <2>1, <2>2
<1>2. ASSUME Within(o, t), \A p \in H : Within(p, t) => p = o PROVE Filtered(H \cup {o}, t) = o
  <2> DEFINE in_time == {p \in H \cup {o} : t <= p /\ p < t + period}
  <2>1. in_time = {o}
    BY <1>2, Zenon DEF Within
  <2>2. Filtered(H \cup {o}, t) = IF in_time = {} THEN 0 ELSE CHOOSE p \in in_time : TRUE
    BY Zenon DEF Filtered
  <2> HIDE DEF in_time
  <2>3. in_time # {} /\ (CHOOSE p \in in_time : TRUE) \in in_time
    BY <2>1, Zenon
  <2> QED
    BY <2>1, <2>2, <2>3, Zenon
<1>3. ASSUME \A p \in H : ~Within(p, t) PROVE Filtered(H, t) = 0
  <2>1. {p \in H : t <= p /\ p < t + period} = {}
    BY <1>3, Zenon DEF Within
  <2> QED
    BY <2>1, Zenon DEF Filtered
<1>4. ASSUME Filtered(H, t) # 0 PROVE Filtered(H, t) \in H /\ Within(Filtered(H, t), t)
  <2> DEFINE in_time == {p \in H : t <= p /\ p < t + period}
  <2>1. in_time # {} /\ Filtered(H, t) = CHOOSE p \in in_time : TRUE
    BY <1>4, Zenon DEF Filtered
  <2>2. Filtered(H, t) \in in_time
    BY <2>1, Zenon
  <2> QED
    BY <2>2, Zenon DEF Within
<1> QED
  BY <1>1, <1>2, <1>3, <1>4, Zenon

(* The log with one more update.                                           *)
LEMMA AppendIs ==
  ASSUME NEW L \in Seq(LogEntry), NEW x \in LogEntry
  PROVE  LET M == Append(L, x)
         IN /\ M \in Seq(LogEntry) /\ Len(L) \in Nat /\ Len(M) = Len(L) + 1
            /\ DOMAIN L = 1 .. Len(L) /\ DOMAIN M = 1 .. Len(M)
            /\ M[Len(M)] = x /\ \A i \in 1 .. Len(L) : M[i] = L[i]
            /\ \A i \in 1 .. Len(M) : M[i] \in LogEntry
<1>1. /\ Append(L, x) \in Seq(LogEntry) /\ Len(L) \in Nat /\ Len(Append(L, x)) = Len(L) + 1
      /\ DOMAIN L = 1 .. Len(L) /\ DOMAIN Append(L, x) = 1 .. Len(Append(L, x))
      /\ Append(L, x)[Len(L) + 1] = x /\ \A i \in 1 .. Len(L) : Append(L, x)[i] = L[i]
  OBVIOUS
<1>2. \A i \in 1 .. Len(Append(L, x)) : Append(L, x)[i] \in LogEntry
  BY <1>1
<1> QED
  BY <1>1, <1>2

(* Later updates and other observations do not change a pose.              *)
LEMMA PosesSame ==
  ASSUME NEW H, NEW G, NEW L, NEW M, NEW e \in Nat,
         \A k \in 1 .. e : L[k] = M[k] /\ Filtered(H, L[k].t) = Filtered(G, L[k].t)
  PROVE  Poses(H, L, e) = Poses(G, M, e)
<1>1. \A k \in 1 .. e : k # 1 => k - 1 \in 1 .. e
  OBVIOUS
<1>2. \A k \in 1 .. e : k - 1 = 0 <=> k = 1
  OBVIOUS
<1>3. \A k \in 1 .. e : SensorsOf(L, k - 1) = SensorsOf(M, k - 1)
  BY <1>1, <1>2, Zenon DEF SensorsOf
<1> QED
  BY <1>3, Zenon DEF Poses

(* After the next state is written, the states are the last updates again. *)
LEMMA WrittenRecorded ==
  ASSUME FilterTypes, NEW exact \in BOOLEAN, cycles < FilterPeriods,
         Recorded(state_buffer, state_buffer_index, handed, log, exact),
         Filtered(handed, Filter!TimeOf(cycles + 1)) = 0
  PROVE  LET n == cycles + 1
             entry == [t |-> Filter!TimeOf(n), sensors |-> n]
         IN entry \in LogEntry
              /\ Recorded(Written(n), NextFirst, handed, Append(log, entry), exact)
<1> DEFINE n == cycles + 1
           entry == [t |-> Filter!TimeOf(n), sensors |-> n]
           L == Append(log, entry)
           old(i) == At(state_buffer, state_buffer_index, i)
           new == Filter!FilterUpdate(old(Filter!Newest), Filter!State(Filter!TimeOf(n), n))
<1>1. n \in SensorNumber /\ n \in 1 .. FilterPeriods
  BY FilterAssumption DEF FilterTypes, SensorNumber
<1>2. entry \in LogEntry /\ log \in Seq(LogEntry)
  BY <1>1, StateIs DEF LogEntry, FilterTypes
<1>3. /\ L \in Seq(LogEntry) /\ Len(log) \in Nat /\ Len(L) = Len(log) + 1
      /\ L[Len(L)] = entry /\ \A i \in 1 .. Len(log) : L[i] = log[i]
  <2> HIDE DEF entry
  <2> QED
    BY <1>2, AppendIs
<1>4. \A e \in 0 .. Len(log) : Poses(handed, L, e) = Poses(handed, log, e)
  <2> SUFFICES ASSUME NEW e \in 0 .. Len(log) PROVE Poses(handed, log, e) = Poses(handed, L, e)
    OBVIOUS
  <2>1. e \in Nat /\ \A k \in 1 .. e : log[k] = L[k]
    BY <1>3
  <2> HIDE DEF L
  <2> QED
    BY <2>1, PosesSame
<1> HIDE DEF L
<1>5. ASSUME NEW i \in FilterSlot, i < Filter!Newest, Len(L) - Filter!Newest + i >= 1
      PROVE  LET e == Len(L) - Filter!Newest + i
                 s == At(Written(n), NextFirst, i)
             IN /\ s.t = L[e].t /\ s.sensors = L[e].sensors
                /\ s.observation = Filtered(handed, L[e].t)
                /\ exact => s.pose = Poses(handed, L, e)
  <2> DEFINE e == Len(log) - Filter!Newest + (i + 1)
  <2>1. /\ e = Len(L) - Filter!Newest + i /\ e \in 1 .. Len(log) /\ i + 1 \in FilterSlot
        /\ e \in 0 .. Len(log) /\ e >= 1
    BY <1>3, <1>5, NewestIs DEF FilterSlot
  <2>2. At(Written(n), NextFirst, i) = old(i + 1)
    BY <1>1, <1>5, AdvanceIs
  <2>3. /\ old(i + 1).t = log[e].t /\ old(i + 1).sensors = log[e].sensors
        /\ old(i + 1).observation = Filtered(handed, log[e].t)
        /\ exact => old(i + 1).pose = Poses(handed, log, e)
    BY <2>1 DEF Recorded
  <2>4. L[e] = log[e] /\ Poses(handed, L, e) = Poses(handed, log, e)
    BY <1>3, <1>4, <2>1
  <2> HIDE DEF e, old
  <2> QED
    BY <2>1, <2>2, <2>3, <2>4
<1>6. ASSUME NEW i \in FilterSlot, i < Filter!Newest, ~(Len(L) - Filter!Newest + i >= 1)
      PROVE  At(Written(n), NextFirst, i) = Filter!State(0, 0)
  <2>1. i + 1 \in FilterSlot /\ ~(Len(log) - Filter!Newest + (i + 1) >= 1)
    BY <1>3, <1>6, NewestIs DEF FilterSlot
  <2>2. At(Written(n), NextFirst, i) = old(i + 1)
    BY <1>1, <1>6, AdvanceIs
  <2> QED
    BY <2>1, <2>2 DEF Recorded
<1>7. LET s == At(Written(n), NextFirst, Filter!Newest)
      IN /\ s.t = Filter!TimeOf(n) /\ s.sensors = n /\ s.observation = 0
         /\ exact => s.pose = Poses(handed, L, Len(L))
  <2>1. At(Written(n), NextFirst, Filter!Newest) = new
    BY <1>1, AdvanceIs
  <2>2. old(Filter!Newest) \in FilterState
    BY NewestIs, IndexIs DEF At, FilterTypes
  <2>3. Filter!State(Filter!TimeOf(n), n) \in FilterState
    BY <1>1, StateIs
  <2>4. /\ new.t = Filter!State(Filter!TimeOf(n), n).t
        /\ new.sensors = Filter!State(Filter!TimeOf(n), n).sensors
        /\ new.observation = Filter!State(Filter!TimeOf(n), n).observation
        /\ new.pose = Append(old(Filter!Newest).pose, <<old(Filter!Newest).sensors,
             Filter!State(Filter!TimeOf(n), n).sensors,
             Filter!State(Filter!TimeOf(n), n).observation>>)
    <3> HIDE DEF n, old
    <3> QED
      BY <2>2, <2>3, FilterUpdateIs
  <2>5. new.t = Filter!TimeOf(n) /\ new.sensors = n /\ new.observation = 0
    BY <1>1, <2>4, StateIs
  <2>6. ASSUME exact PROVE new.pose = Poses(handed, L, Len(L))
    <3> DEFINE k == Len(log)
    <3>1. Len(log) - Filter!Newest + Filter!Newest = k
      BY <1>3, NewestIs
    <3>2. old(Filter!Newest).pose = Poses(handed, log, k)
          /\ old(Filter!Newest).sensors = SensorsOf(log, k)
      <4>1. CASE k >= 1
        BY <2>6, <3>1, <4>1, NewestIs DEF Recorded, SensorsOf
      <4>2. CASE ~(k >= 1)
        <5>1. k = 0
          BY <1>3, <4>2
        <5>2. old(Filter!Newest) = Filter!State(0, 0)
          BY <3>1, <4>2, NewestIs DEF Recorded
        <5>3. Poses(handed, log, 0) = <<>> /\ SensorsOf(log, 0) = 0
          <6>1. handed \in SUBSET Filter!Observation /\ 0 \in Nat /\ 0 <= Len(log)
            BY <1>3 DEF FilterTypes
          <6>2. Poses(handed, log, 0) = <<>>
            BY <1>2, <6>1, PosesNext
          <6> QED
            BY <6>2, Zenon DEF SensorsOf
        <5> QED
          BY <5>1, <5>2, <5>3, StateIs
      <4> QED
        BY <4>1, <4>2
    <3>3. /\ Len(L) \in Nat /\ Len(L) > 0 /\ Len(L) <= Len(L) /\ Len(L) - 1 = k /\ k \in Nat
          /\ k \in 0 .. Len(log)
      BY <1>3
    <3>4. Poses(handed, L, Len(L)) = Append(Poses(handed, L, k),
            <<SensorsOf(L, k), L[Len(L)].sensors, Filtered(handed, L[Len(L)].t)>>)
      <4>1. handed \in SUBSET Filter!Observation
        BY DEF FilterTypes
      <4> HIDE DEF k
      <4> QED
        BY <1>3, <3>3, <4>1, PosesNext
    <3>5. Poses(handed, L, k) = Poses(handed, log, k) /\ SensorsOf(L, k) = SensorsOf(log, k)
      BY <1>3, <1>4, <3>3 DEF SensorsOf
    <3>6. L[Len(L)].sensors = n /\ Filtered(handed, L[Len(L)].t) = 0
      BY <1>3
    <3>7. /\ Filter!State(Filter!TimeOf(n), n).sensors = n
          /\ Filter!State(Filter!TimeOf(n), n).observation = 0
      BY <1>1, StateIs
    <3> HIDE DEF k, n, old, new
    <3> QED
      BY <2>4, <3>2, <3>4, <3>5, <3>6, <3>7
  <2> QED
    BY <2>1, <2>5, <2>6
<1>8. Len(L) - Filter!Newest + Filter!Newest = Len(L) /\ Len(L) >= 1
  BY <1>3, NewestIs
<1>9. \A i \in FilterSlot : i < Filter!Newest \/ i = Filter!Newest
  BY NewestIs DEF FilterSlot
<1>10. L[Len(L)].t = Filter!TimeOf(n) /\ L[Len(L)].sensors = n
  BY <1>3
<1> HIDE DEF n, entry
<1>11. Recorded(Written(n), NextFirst, handed, L, exact)
  <2> SUFFICES ASSUME NEW i \in FilterSlot
               PROVE  LET s == At(Written(n), NextFirst, i)
                          e == Len(L) - Filter!Newest + i
                      IN IF e >= 1
                         THEN /\ s.t = L[e].t /\ s.sensors = L[e].sensors
                              /\ s.observation = Filtered(handed, L[e].t)
                              /\ exact => s.pose = Poses(handed, L, e)
                         ELSE s = Filter!State(0, 0)
    BY Zenon DEF Recorded
  <2>1. CASE i < Filter!Newest
    BY <1>5, <1>6, <2>1, Zenon
  <2>2. CASE i = Filter!Newest
    <3>1. Filtered(handed, L[Len(L)].t) = 0
      BY <1>10 DEF n
    <3> QED
      BY <1>7, <1>8, <1>10, <2>2, <3>1, Zenon
  <2> QED
    BY <1>9, <2>1, <2>2
<1> QED
  BY <1>2, <1>11 DEF n, entry, L

-----------------------------------------------------------------------------
(* A late observation                                                      *)

LEMMA AtType ==
  ASSUME NEW first \in Filter!Slot, NEW buffer \in [Filter!Slot -> FilterState], NEW i \in FilterSlot
  PROVE  At(buffer, first, i) \in FilterState
BY IndexIs DEF At

(* A late observation is put into one state, which changes in nothing      *)
(* else.                                                                   *)
LEMMA ObservedIs ==
  ASSUME NEW first \in Filter!Slot, NEW start \in 1 .. Filter!Newest, NEW i \in FilterSlot,
         NEW buffer \in [Filter!Slot -> FilterState], sample \in Filter!Observation
  PROVE  LET b == Observed(buffer, first, start)
             s == At(buffer, first, i)
         IN /\ b \in [Filter!Slot -> FilterState]
            /\ i # start => At(b, first, i) = s
            /\ i = start => /\ At(b, first, i).t = s.t /\ At(b, first, i).sensors = s.sensors
                            /\ At(b, first, i).observation = sample
<1> DEFINE here == Filter!Index(start, first)
           new == [buffer[here] EXCEPT !.observation = sample]
<1>1. start \in FilterSlot
  BY NewestIs
<1>2. /\ here \in Filter!Slot /\ Filter!Index(i, first) \in Filter!Slot
      /\ (Filter!Index(i, first) = here <=> i = start)
  BY <1>1, IndexIs, IndexInjective
<1>3. new \in FilterState /\ new.t = buffer[here].t /\ new.sensors = buffer[here].sensors
      /\ new.observation = sample
  BY <1>2 DEF FilterState
<1>4. Observed(buffer, first, start) = [buffer EXCEPT ![here] = new]
  BY <1>2 DEF Observed
<1> HIDE DEF new, here
<1>5. Observed(buffer, first, start) \in [Filter!Slot -> FilterState]
  BY <1>2, <1>3, <1>4
<1> QED
  BY <1>2, <1>3, <1>4, <1>5 DEF At

(* What reprocessing does to each state: those before the observation      *)
(* stay, and each of the others is computed from the one before it.        *)
LEMMA ReprocessStates ==
  ASSUME NEW first \in Filter!Slot, NEW start \in 1 .. Filter!Newest, NEW i \in FilterSlot,
         NEW buffer \in [Filter!Slot -> FilterState], sample \in Filter!Observation
  PROVE  LET b == Filter!Reprocess(buffer, first, start)
             s == At(b, first, i)
             old == At(buffer, first, i)
             previous == At(b, first, i - 1)
         IN /\ b \in [Filter!Slot -> FilterState]
            /\ i < start => s = old
            /\ i >= start =>
                 /\ s.t = old.t /\ s.sensors = old.sensors
                 /\ s.observation = IF i = start THEN sample ELSE old.observation
                 /\ s.pose = Append(previous.pose,
                                    <<previous.sensors, s.sensors, s.observation>>)
<1> DEFINE b == Filter!Reprocess(buffer, first, start)
           o == Observed(buffer, first, start)
           n == Filter!Newest - start + 1
           s == At(b, first, i)
           c == At(o, first, i)
           previous == At(b, first, i - 1)
<1>1. Reprocessed(b, o, first, start, n)
  BY ReprocessIs
<1> HIDE DEF b, o
<1>2. b \in [Filter!Slot -> FilterState] /\ o \in [Filter!Slot -> FilterState]
  BY <1>1, ObservedIs DEF Reprocessed, o
<1>3. i < start + n
  BY NewestIs DEF FilterSlot
<1>4. i < start => s = At(buffer, first, i)
  <2> SUFFICES ASSUME i < start PROVE s = At(buffer, first, i)
    OBVIOUS
  <2>1. ~(start <= i /\ i < start + n) /\ i # start
    BY NewestIs
  <2>2. s = At(o, first, i)
    BY <1>1, <2>1, Zenon DEF Reprocessed
  <2> QED
    BY <2>1, <2>2, ObservedIs DEF o
<1>5. ASSUME i >= start
      PROVE  /\ s.t = At(buffer, first, i).t /\ s.sensors = At(buffer, first, i).sensors
             /\ s.observation = IF i = start THEN sample ELSE At(buffer, first, i).observation
             /\ s.pose = Append(previous.pose, <<previous.sensors, s.sensors, s.observation>>)
  <2>1. start <= i /\ i - 1 \in FilterSlot
    BY <1>5, NewestIs DEF FilterSlot
  <2>2. s = Filter!FilterUpdate(previous, c)
    BY <1>1, <1>3, <2>1, Zenon DEF Reprocessed
  <2>3. previous \in FilterState /\ c \in FilterState
    BY <1>2, <2>1, AtType
  <2> HIDE DEF s, c, previous
  <2>4. /\ s.t = c.t /\ s.sensors = c.sensors /\ s.observation = c.observation
        /\ s.pose = Append(previous.pose, <<previous.sensors, c.sensors, c.observation>>)
    BY <2>2, <2>3, FilterUpdateIs
  <2>5. /\ c.t = At(buffer, first, i).t /\ c.sensors = At(buffer, first, i).sensors
        /\ c.observation = IF i = start THEN sample ELSE At(buffer, first, i).observation
    BY ObservedIs DEF c, o
  <2> QED
    BY <2>4, <2>5
<1> QED
  BY <1>2, <1>4, <1>5 DEF b

(* After reprocessing, every state has the pose of the filter that had the *)
(* observation in time.                                                    *)
LEMMA ReprocessRecorded ==
  ASSUME NEW first \in Filter!Slot, NEW start \in 1 .. Filter!Newest,
         NEW buffer \in [Filter!Slot -> FilterState], sample \in Filter!Observation,
         NEW H \in SUBSET Filter!Observation, NEW L \in Seq(LogEntry), NEW exact \in BOOLEAN,
         Recorded(buffer, first, H, L, exact),
         NEW at, at = Len(L) - Filter!Newest + start, at >= 1,
         Within(sample, L[at].t), \A p \in H : Within(p, L[at].t) => p = sample,
         \A k \in 1 .. Len(L) : k # at => ~Within(sample, L[k].t)
  PROVE  Recorded(Filter!Reprocess(buffer, first, start), first, H \cup {sample}, L, exact)
<1> DEFINE G == H \cup {sample}
           b == Filter!Reprocess(buffer, first, start)
           s(i) == At(b, first, i)
           e(i) == Len(L) - Filter!Newest + i
<1>1. G \in SUBSET Filter!Observation /\ Len(L) \in Nat
  OBVIOUS
<1>2. \A k \in 1 .. Len(L) : k # at => Filtered(G, L[k].t) = Filtered(H, L[k].t)
  BY FilteredNext
<1>3. Filtered(G, L[at].t) = sample
  BY FilteredNext
<1>4. ASSUME NEW k \in Nat, k < at, k <= Len(L) PROVE Poses(G, L, k) = Poses(H, L, k)
  <2>1. \A j \in 1 .. k : j \in 1 .. Len(L) /\ j # at
    BY <1>1, <1>4
  <2>2. \A j \in 1 .. k : L[j] = L[j] /\ Filtered(H, L[j].t) = Filtered(G, L[j].t)
    BY <1>2, <2>1, Zenon
  <2> HIDE DEF G
  <2>3. Poses(H, L, k) = Poses(G, L, k)
    BY <2>2, PosesSame
  <2> QED
    BY <2>3
<1>5. \A i \in FilterSlot : e(i) \in Int /\ e(i) <= Len(L) /\ (e(i) = at <=> i = start)
        /\ (e(i) < at <=> i < start)
  BY <1>1, NewestIs, SMTT(20) DEF FilterSlot
<1> HIDE DEF b, G
<1>6. ASSUME NEW i \in FilterSlot, i < start
      PROVE  IF e(i) >= 1
             THEN /\ s(i).t = L[e(i)].t /\ s(i).sensors = L[e(i)].sensors
                  /\ s(i).observation = Filtered(G, L[e(i)].t)
                  /\ exact => s(i).pose = Poses(G, L, e(i))
             ELSE s(i) = Filter!State(0, 0)
  <2>1. s(i) = At(buffer, first, i)
    BY <1>6, ReprocessStates DEF b
  <2>2. CASE e(i) >= 1
    <3>1. e(i) \in 1 .. Len(L) /\ e(i) \in Nat /\ e(i) < at /\ e(i) <= Len(L) /\ e(i) # at
      BY <1>1, <1>5, <1>6, <2>2
    <3>2. Filtered(G, L[e(i)].t) = Filtered(H, L[e(i)].t)
      BY <1>2, <3>1
    <3>3. Poses(G, L, e(i)) = Poses(H, L, e(i))
      BY <1>4, <3>1
    <3>4. /\ At(buffer, first, i).t = L[e(i)].t /\ At(buffer, first, i).sensors = L[e(i)].sensors
          /\ At(buffer, first, i).observation = Filtered(H, L[e(i)].t)
          /\ exact => At(buffer, first, i).pose = Poses(H, L, e(i))
      BY <2>2 DEF Recorded
    <3> HIDE DEF s, e
    <3> QED
      BY <2>1, <2>2, <3>2, <3>3, <3>4
  <2>3. CASE ~(e(i) >= 1)
    BY <2>1, <2>3 DEF Recorded
  <2> QED
    BY <2>2, <2>3
<1>7. ASSUME NEW i \in FilterSlot, i >= start
      PROVE  /\ e(i) >= 1 /\ e(i) \in 1 .. Len(L)
             /\ s(i).t = L[e(i)].t /\ s(i).sensors = L[e(i)].sensors
             /\ s(i).observation = Filtered(G, L[e(i)].t)
             /\ s(i).pose = Append(s(i - 1).pose,
                                   <<s(i - 1).sensors, s(i).sensors, s(i).observation>>)
  <2>1. e(i) >= 1 /\ e(i) \in 1 .. Len(L) /\ (e(i) = at <=> i = start)
    <3>1. at \in Int /\ ~(i < start)
      BY <1>1, <1>7, NewestIs DEF FilterSlot
    <3> HIDE DEF e
    <3> QED
      BY <1>1, <1>5, <3>1
  <2>2. /\ At(buffer, first, i).t = L[e(i)].t /\ At(buffer, first, i).sensors = L[e(i)].sensors
        /\ At(buffer, first, i).observation = Filtered(H, L[e(i)].t)
    BY <2>1 DEF Recorded
  <2>3. /\ s(i).t = At(buffer, first, i).t /\ s(i).sensors = At(buffer, first, i).sensors
        /\ s(i).observation = IF i = start THEN sample ELSE At(buffer, first, i).observation
        /\ s(i).pose = Append(s(i - 1).pose,
                              <<s(i - 1).sensors, s(i).sensors, s(i).observation>>)
    BY <1>7, ReprocessStates DEF b
  <2>4. (IF i = start THEN sample ELSE Filtered(H, L[e(i)].t)) = Filtered(G, L[e(i)].t)
    <3> HIDE DEF e
    <3> QED
      BY <1>2, <1>3, <2>1
  <2> HIDE DEF s, e
  <2> QED
    BY <2>1, <2>2, <2>3, <2>4
<1>8. ASSUME exact, NEW i \in FilterSlot, i >= start,
             e(i) = 1 \/ s(i - 1).pose = Poses(G, L, e(i) - 1),
             IF e(i) = 1 THEN s(i - 1) = Filter!State(0, 0)
                         ELSE s(i - 1).sensors = L[e(i) - 1].sensors
      PROVE  s(i).pose = Poses(G, L, e(i))
  <2>1. e(i) \in Nat /\ e(i) > 0 /\ e(i) <= Len(L) /\ e(i) - 1 \in Nat /\ 0 <= Len(L) /\ 0 \in Nat
    BY <1>1, <1>7, <1>8
  <2>2. Poses(G, L, e(i)) = Append(Poses(G, L, e(i) - 1),
          <<SensorsOf(L, e(i) - 1), L[e(i)].sensors, Filtered(G, L[e(i)].t)>>)
    <3> HIDE DEF e
    <3> QED
      BY <1>1, <2>1, PosesNext
  <2>3. Poses(G, L, 0) = <<>>
    BY <1>1, <2>1, PosesNext
  <2>4. s(i - 1).pose = Poses(G, L, e(i) - 1) /\ s(i - 1).sensors = SensorsOf(L, e(i) - 1)
    <3>1. CASE e(i) = 1
      <4>1. e(i) - 1 = 0 /\ SensorsOf(L, 0) = 0
        BY <3>1 DEF SensorsOf
      <4> HIDE DEF e, s
      <4> QED
        BY <1>8, <2>3, <3>1, <4>1, StateIs
    <3>2. CASE e(i) # 1
      <4>1. e(i) - 1 # 0
        BY <2>1, <3>2
      <4> HIDE DEF e, s
      <4> QED
        BY <1>8, <3>2, <4>1 DEF SensorsOf
    <3> QED
      BY <3>1, <3>2
  <2>5. /\ s(i).sensors = L[e(i)].sensors /\ s(i).observation = Filtered(G, L[e(i)].t)
        /\ s(i).pose = Append(s(i - 1).pose,
                              <<s(i - 1).sensors, s(i).sensors, s(i).observation>>)
    BY <1>7, <1>8
  <2> HIDE DEF s, e
  <2> QED
    BY <2>2, <2>4, <2>5
<1>9. ASSUME exact PROVE \A i \in FilterSlot : i >= start => s(i).pose = Poses(G, L, e(i))
  <2> DEFINE Good == {k \in Nat : start + k <= Filter!Newest =>
                                    s(start + k).pose = Poses(G, L, e(start + k))}
  <2>1. 0 \in Good
    <3>1. start + 0 = start /\ start \in FilterSlot /\ start >= start /\ start - 1 < start
          /\ start - 1 \in FilterSlot /\ e(start - 1) = e(start) - 1
      BY NewestIs, <1>1
    <3>2. IF e(start - 1) >= 1
          THEN /\ s(start - 1).sensors = L[e(start - 1)].sensors
               /\ s(start - 1).pose = Poses(G, L, e(start - 1))
          ELSE s(start - 1) = Filter!State(0, 0)
      BY <1>6, <1>9, <3>1
    <3>3. e(start) >= 1 /\ e(start) \in Int
      BY <1>1, <1>5, <3>1
    <3>4. s(start).pose = Poses(G, L, e(start))
      <4>1. CASE e(start) = 1
        <5>1. ~(e(start - 1) >= 1)
          BY <3>1, <4>1
        <5> HIDE DEF s, e
        <5> QED
          BY <1>8, <1>9, <3>1, <3>2, <4>1, <5>1
      <4>2. CASE e(start) # 1
        <5>1. e(start - 1) >= 1
          BY <3>1, <3>3, <4>2
        <5> HIDE DEF s, e
        <5> QED
          BY <1>8, <1>9, <3>1, <3>2, <4>2, <5>1
      <4> QED
        BY <4>1, <4>2
    <3> QED
      BY <3>1, <3>4, Zenon
  <2>2. ASSUME NEW k \in Nat, k \in Good PROVE k + 1 \in Good
    <3> DEFINE i == start + (k + 1)
    <3> SUFFICES ASSUME i <= Filter!Newest PROVE s(i).pose = Poses(G, L, e(i))
      OBVIOUS
    <3>1. /\ i \in FilterSlot /\ i >= start /\ i - 1 = start + k /\ start + k <= Filter!Newest
          /\ i - 1 \in FilterSlot /\ i - 1 >= start /\ e(i - 1) = e(i) - 1
      BY NewestIs, <1>1 DEF FilterSlot
    <3>2. s(i - 1).pose = Poses(G, L, e(i - 1))
      <4>1. s(start + k).pose = Poses(G, L, e(start + k))
        BY <2>2, <3>1, Zenon
      <4> HIDE DEF s, e, i
      <4> QED
        BY <3>1, <4>1
    <3>3. s(i - 1).sensors = L[e(i - 1)].sensors /\ e(i - 1) >= 1 /\ e(i - 1) \in Int
      BY <1>1, <1>5, <1>7, <3>1
    <3>4. e(i) # 1
      BY <3>1, <3>3
    <3> HIDE DEF s, e, i
    <3> QED
      BY <1>8, <1>9, <3>1, <3>2, <3>3, <3>4
  <2>3. \A k \in Nat : k \in Good
    <3> HIDE DEF Good
    <3> QED
      BY <2>1, <2>2, Induct
  <2> TAKE i \in FilterSlot
  <2> SUFFICES ASSUME i >= start PROVE s(i).pose = Poses(G, L, e(i))
    OBVIOUS
  <2>4. i - start \in Nat /\ start + (i - start) = i /\ i <= Filter!Newest
    BY NewestIs DEF FilterSlot
  <2> HIDE DEF s, e
  <2> QED
    BY <2>3, <2>4
<1> SUFFICES ASSUME NEW i \in FilterSlot
             PROVE  IF e(i) >= 1
                    THEN /\ s(i).t = L[e(i)].t /\ s(i).sensors = L[e(i)].sensors
                         /\ s(i).observation = Filtered(G, L[e(i)].t)
                         /\ exact => s(i).pose = Poses(G, L, e(i))
                    ELSE s(i) = Filter!State(0, 0)
  BY Zenon DEF Recorded, b, G
<1>10. CASE i < start
  BY <1>6, <1>10
<1>11. CASE i >= start
  BY <1>7, <1>9, <1>11
<1>12. i < start \/ i >= start
  BY DEF FilterSlot
<1> QED
  BY <1>10, <1>11, <1>12

-----------------------------------------------------------------------------
(* States that follow from one another                                     *)

LEMMA SensorsType ==
  ASSUME NEW s \in FilterState PROVE s.sensors \in Nat
BY FilterAssumption DEF FilterState, SensorNumber

(* A new state follows from the one before it.                             *)
LEMMA WrittenLinked ==
  ASSUME FilterTypes, NEW n \in SensorNumber, Linked(state_buffer, state_buffer_index, reset_at)
  PROVE  Linked(Written(n), NextFirst, reset_at)
<1> DEFINE old(i) == At(state_buffer, state_buffer_index, i)
           s(i) == At(Written(n), NextFirst, i)
           new == Filter!FilterUpdate(old(Filter!Newest), Filter!State(Filter!TimeOf(n), n))
           applies(x) == x.sensors > 0 /\ (reset_at = 0 \/ x.sensors > reset_at)
<1>1. /\ new \in FilterState /\ s(Filter!Newest) = new
      /\ \A i \in FilterSlot : i < Filter!Newest => i + 1 \in FilterSlot /\ s(i) = old(i + 1)
  BY AdvanceIs
<1>2. \A i \in 1 .. Filter!Newest :
        applies(old(i)) => old(i).pose = Filter!FilterUpdate(old(i - 1), old(i)).pose
  BY DEF Linked
<1>3. ASSUME NEW i \in 1 .. Filter!Newest, applies(s(i))
      PROVE  s(i).pose = Filter!FilterUpdate(s(i - 1), s(i)).pose
  <2>1. i \in FilterSlot /\ i - 1 \in FilterSlot /\ i - 1 < Filter!Newest /\ (i - 1) + 1 = i
        /\ Filter!Newest \in FilterSlot /\ Filter!Newest \in Nat
    BY NewestIs
  <2>2. s(i - 1) = old(i)
    BY <1>1, <2>1
  <2>3. CASE i = Filter!Newest
    <3>1. old(Filter!Newest) \in FilterState /\ Filter!State(Filter!TimeOf(n), n) \in FilterState
      BY <2>1, AtType, StateIs DEF FilterTypes
    <3> DEFINE c == Filter!State(Filter!TimeOf(n), n)
               p == old(Filter!Newest)
    <3> HIDE DEF c, p
    <3>2. /\ new.sensors = c.sensors /\ new.observation = c.observation
          /\ new.pose = Append(p.pose, <<p.sensors, c.sensors, c.observation>>)
      BY <3>1, FilterUpdateIs DEF c, p
    <3>3. Filter!FilterUpdate(p, new).pose =
            Append(p.pose, <<p.sensors, new.sensors, new.observation>>)
      BY <1>1, <3>1, FilterUpdateIs DEF p
    <3>4. s(i) = new /\ s(i - 1) = p
      BY <1>1, <2>2, <2>3 DEF p
    <3> HIDE DEF s, new
    <3> QED
      BY <3>2, <3>3, <3>4
  <2>4. CASE i # Filter!Newest
    <3>1. i < Filter!Newest /\ i + 1 \in 1 .. Filter!Newest /\ (i + 1) - 1 = i
      BY <2>1, <2>4
    <3>2. s(i) = old(i + 1)
      BY <1>1, <2>1, <3>1
    <3>3. applies(old(i + 1)) =>
            old(i + 1).pose = Filter!FilterUpdate(old((i + 1) - 1), old(i + 1)).pose
      BY <1>2, <3>1, Zenon
    <3> HIDE DEF s, old, applies
    <3> QED
      BY <1>3, <2>2, <3>1, <3>2, <3>3
  <2> QED
    BY <2>3, <2>4
<1> QED
  BY <1>3, Zenon DEF Linked

(* After reprocessing, every state still follows from the one before it.   *)
LEMMA ReprocessLinked ==
  ASSUME NEW first \in Filter!Slot, NEW start \in 1 .. Filter!Newest,
         NEW buffer \in [Filter!Slot -> FilterState], sample \in Filter!Observation, NEW reset,
         Linked(buffer, first, reset)
  PROVE  Linked(Filter!Reprocess(buffer, first, start), first, reset)
<1> DEFINE b == Filter!Reprocess(buffer, first, start)
           s(i) == At(b, first, i)
           old(i) == At(buffer, first, i)
           applies(x) == x.sensors > 0 /\ (reset = 0 \/ x.sensors > reset)
<1>1. ASSUME NEW i \in 1 .. Filter!Newest, applies(s(i))
      PROVE  s(i).pose = Filter!FilterUpdate(s(i - 1), s(i)).pose
  <2>1. i \in FilterSlot /\ i - 1 \in FilterSlot /\ (i < start \/ i >= start)
    BY NewestIs
  <2>2. b \in [Filter!Slot -> FilterState] /\ s(i) \in FilterState /\ s(i - 1) \in FilterState
    BY <2>1, ReprocessStates, AtType
  <2>3. CASE i < start
    <3>1. i - 1 < start
      BY <2>3
    <3>2. s(i) = old(i) /\ s(i - 1) = old(i - 1)
      BY <2>1, <2>3, <3>1, ReprocessStates
    <3>3. applies(old(i)) => old(i).pose = Filter!FilterUpdate(old(i - 1), old(i)).pose
      BY DEF Linked
    <3> HIDE DEF s, old, applies
    <3> QED
      BY <1>1, <3>2, <3>3
  <2>4. CASE i >= start
    <3>1. s(i).pose = Append(s(i - 1).pose,
                             <<s(i - 1).sensors, s(i).sensors, s(i).observation>>)
      BY <2>1, <2>4, ReprocessStates
    <3> HIDE DEF s
    <3>2. Filter!FilterUpdate(s(i - 1), s(i)).pose =
            Append(s(i - 1).pose, <<s(i - 1).sensors, s(i).sensors, s(i).observation>>)
      BY <2>2, FilterUpdateIs
    <3> QED
      BY <3>1, <3>2
  <2> QED
    BY <2>1, <2>3, <2>4
<1> QED
  BY <1>1, Zenon DEF Linked

-----------------------------------------------------------------------------
(* The reset                                                               *)

LEMMA ResetIs ==
  ASSUME NEW first \in Filter!Slot, NEW buffer \in [Filter!Slot -> FilterState], NEW H, NEW L,
         NEW exact, Recorded(buffer, first, H, L, exact)
  PROVE  /\ Filter!Reset(buffer) \in [Filter!Slot -> FilterState]
         /\ Recorded(Filter!Reset(buffer), first, H, L, FALSE)
<1>1. <<>> \in PoseSteps /\ Filter!Zero = <<>>
  BY DEF PoseSteps, Filter!Zero
<1>2. Filter!Reset(buffer) \in [Filter!Slot -> FilterState]
  BY <1>1 DEF Filter!Reset, FilterState
<1>3. ASSUME NEW i \in FilterSlot
      PROVE  LET s == At(Filter!Reset(buffer), first, i)
                 old == At(buffer, first, i)
             IN /\ s.t = old.t /\ s.sensors = old.sensors /\ s.observation = old.observation
                /\ old = Filter!State(0, 0) => s = Filter!State(0, 0)
  <2> DEFINE old == At(buffer, first, i)
  <2>1. Filter!Index(i, first) \in Filter!Slot /\ old \in FilterState
    BY IndexIs, AtType
  <2>2. At(Filter!Reset(buffer), first, i) = [old EXCEPT !.pose = Filter!Zero]
    BY <2>1 DEF Filter!Reset, At
  <2>3. [Filter!State(0, 0) EXCEPT !.pose = Filter!Zero] = Filter!State(0, 0)
    BY DEF Filter!State
  <2> HIDE DEF old
  <2> QED
    BY <2>1, <2>2, <2>3 DEF FilterState, old
<1>4. Recorded(Filter!Reset(buffer), first, H, L, FALSE)
  <2> SUFFICES ASSUME NEW i \in FilterSlot
               PROVE  LET s == At(Filter!Reset(buffer), first, i)
                          e == Len(L) - Filter!Newest + i
                      IN IF e >= 1
                         THEN /\ s.t = L[e].t /\ s.sensors = L[e].sensors
                              /\ s.observation = Filtered(H, L[e].t)
                              /\ FALSE => s.pose = Poses(H, L, e)
                         ELSE s = Filter!State(0, 0)
    BY Zenon DEF Recorded
  <2> DEFINE s == At(Filter!Reset(buffer), first, i)
             old == At(buffer, first, i)
             e == Len(L) - Filter!Newest + i
  <2>1. IF e >= 1
        THEN /\ old.t = L[e].t /\ old.sensors = L[e].sensors
             /\ old.observation = Filtered(H, L[e].t)
        ELSE old = Filter!State(0, 0)
    BY Zenon DEF Recorded
  <2>2. /\ s.t = old.t /\ s.sensors = old.sensors /\ s.observation = old.observation
        /\ old = Filter!State(0, 0) => s = Filter!State(0, 0)
    BY <1>3
  <2> HIDE DEF s, old, e
  <2> QED
    BY <2>1, <2>2 DEF s, e
<1> QED
  BY <1>2, <1>4

(* Up to the period of the reset all states are of before it.              *)
LEMMA NothingLinked ==
  ASSUME NEW first \in Filter!Slot, NEW buffer, NEW H, NEW L \in Seq(LogEntry), NEW exact,
         NEW reset \in Nat \ {0}, Recorded(buffer, first, H, L, exact), LogTimes(L, reset)
  PROVE  Linked(buffer, first, reset)
<1> SUFFICES ASSUME NEW i \in 1 .. Filter!Newest,
                    At(buffer, first, i).sensors > 0,
                    reset = 0 \/ At(buffer, first, i).sensors > reset
             PROVE  FALSE
  BY Zenon DEF Linked
<1> DEFINE s == At(buffer, first, i)
           e == Len(L) - Filter!Newest + i
<1>1. i \in FilterSlot /\ e \in Int /\ e <= Len(L) /\ Len(L) \in Nat /\ DOMAIN L = 1 .. Len(L)
  BY NewestIs
<1>2. s.sensors > reset /\ s.sensors > 0
  OBVIOUS
<1>3. CASE e >= 1
  <2>1. s.sensors = L[e].sensors
    BY <1>1, <1>3 DEF Recorded
  <2>2. e \in DOMAIN L
    BY <1>1, <1>3
  <2>3. L[e].sensors <= reset /\ L[e].sensors \in Nat
    <3>1. L[e] \in LogEntry
      BY <2>2
    <3> HIDE DEF e
    <3> QED
      BY <2>2, <3>1 DEF LogTimes, LogEntry
  <2> HIDE DEF s, e
  <2> QED
    BY <1>2, <2>1, <2>3
<1>4. CASE ~(e >= 1)
  <2>1. s = Filter!State(0, 0)
    BY <1>1, <1>4 DEF Recorded
  <2>2. s.sensors = 0
    BY <2>1, StateIs
  <2> HIDE DEF s
  <2> QED
    BY <1>2, <2>2
<1> QED
  BY <1>3, <1>4

(* The reset, any other period, and a DDS exception keep the invariant.    *)
LEMMA EndIs ==
  ASSUME FilterTypes, NEW first \in Filter!Slot, NEW b \in [Filter!Slot -> FilterState],
         NEW H, NEW L \in Seq(LogEntry), LogTimes(L, cycles + 1),
         Recorded(b, first, H, L, reset_at = 0), Linked(b, first, reset_at),
         Filter!Done(b) \/ Filter!Thrown(b)
  PROVE  /\ state_buffer' \in [Filter!Slot -> FilterState]
         /\ loop_count' \in 0 .. cycles + 1 /\ reset_at' \in 0 .. cycles + 1
         /\ Recorded(state_buffer', first, H, L, reset_at' = 0)
         /\ Linked(state_buffer', first, reset_at')
<1>1. /\ cycles \in Nat /\ loop_count \in 0 .. cycles /\ reset_at \in 0 .. cycles
      /\ cycles + 1 \in Nat \ {0}
  BY FilterAssumption DEF FilterTypes
<1>2. loop_count' \in 0 .. cycles + 1
  BY <1>1 DEF Filter!Done, Filter!Thrown
<1>3. CASE state_buffer' = Filter!Reset(b) /\ reset_at' = cycles + 1
  <2>1. (reset_at' = 0) = FALSE
    BY <1>1, <1>3
  <2>2. /\ Filter!Reset(b) \in [Filter!Slot -> FilterState]
        /\ Recorded(Filter!Reset(b), first, H, L, FALSE)
    BY ResetIs
  <2>3. Linked(Filter!Reset(b), first, cycles + 1)
    BY <1>1, <2>2, NothingLinked
  <2>4. cycles + 1 \in 0 .. cycles + 1
    BY <1>1
  <2> QED
    BY <1>2, <1>3, <2>1, <2>2, <2>3, <2>4
<1>4. CASE state_buffer' = b /\ reset_at' = reset_at
  <2>1. reset_at \in 0 .. cycles + 1
    BY <1>1
  <2> QED
    BY <1>2, <1>4, <2>1
<1> QED
  BY <1>3, <1>4, Zenon DEF Filter!Done, Filter!Thrown

-----------------------------------------------------------------------------
(* The steps                                                               *)

LEMMA FilterInit == Filter!Init => FilterInv
<1> SUFFICES ASSUME Filter!Init PROVE FilterInv
  OBVIOUS
<1>1. FilterTypes
  <2>1. Filter!State(0, 0) \in FilterState /\ 0 \in Filter!Slot
    BY StateIs, FilterAssumption DEF Filter!Slot, Filter!Newest
  <2>2. 0 \in Filter!Observation
    BY StateIs
  <2>3. <<>> \in Seq(LogEntry) /\ <<>> \in Seq(Filter!Observation)
    OBVIOUS
  <2>4. [i \in Filter!Slot |-> Filter!State(0, 0)] \in [Filter!Slot -> FilterState]
    BY <2>1
  <2>5. 0 \in 0 .. FilterPeriods /\ 0 \in 0 .. FilterFailures
    BY FilterAssumption
  <2>6. /\ cycles \in 0 .. FilterPeriods /\ loop_count \in 0 .. cycles /\ reset_at \in 0 .. cycles
        /\ l_failures \in 0 .. FilterFailures
    BY <2>5, FilterAssumption DEF Filter!Init
  <2>7. state_buffer \in [Filter!Slot -> FilterState] /\ state_buffer_index \in Filter!Slot
    BY <2>1, <2>4, Zenon DEF Filter!Init
  <2>8. observed \in Seq(Filter!Observation) /\ sample \in Filter!Observation
    BY <2>2, <2>3, Zenon DEF Filter!Init
  <2>9. log \in Seq(LogEntry) /\ handed \in SUBSET Filter!Observation
    BY <2>3, Zenon DEF Filter!Init
  <2> QED
    BY <2>6, <2>7, <2>8, <2>9, Zenon DEF FilterTypes
<1>2. LogTimes(log, cycles)
  BY DEF Filter!Init, LogTimes
<1>3. SeenOnce
  BY DEF Filter!Init, SeenOnce, Seen
<1>4. \A i \in FilterSlot : At(state_buffer, state_buffer_index, i) = Filter!State(0, 0)
  <2> SUFFICES ASSUME NEW i \in FilterSlot
               PROVE  At(state_buffer, state_buffer_index, i) = Filter!State(0, 0)
    OBVIOUS
  <2>1. Filter!Index(i, state_buffer_index) \in Filter!Slot
    BY <1>1, IndexIs DEF FilterTypes
  <2> QED
    BY <2>1 DEF Filter!Init, At
<1>5. Recorded(state_buffer, state_buffer_index, handed, log, reset_at = 0)
  <2>1. \A i \in FilterSlot : ~(Len(log) - Filter!Newest + i >= 1)
    BY NewestIs DEF FilterSlot, Filter!Init
  <2> QED
    BY <1>4, <2>1, Zenon DEF Recorded
<1>6. Linked(state_buffer, state_buffer_index, reset_at)
  <2> SUFFICES ASSUME NEW i \in 1 .. Filter!Newest,
                      At(state_buffer, state_buffer_index, i).sensors > 0
               PROVE  FALSE
    BY Zenon DEF Linked
  <2>1. At(state_buffer, state_buffer_index, i) = Filter!State(0, 0)
    BY <1>4, NewestIs
  <2> QED
    BY <2>1, StateIs
<1> QED
  BY <1>1, <1>2, <1>3, <1>5, <1>6 DEF FilterInv

(* A new observation is of a period that had none.                         *)
LEMMA ObserveStep == FilterInv /\ Filter!Observe => FilterInv'
<1> SUFFICES ASSUME FilterInv, Filter!Observe PROVE FilterInv'
  OBVIOUS
<1>1. FilterTypes /\ SeenOnce /\ cycles \in Nat /\ cycles <= FilterPeriods
  BY FilterAssumption DEF FilterInv, FilterTypes
<1>2. PICK t \in Filter!TimeOf(cycles) .. Filter!TimeOf(cycles) + period - 1 :
        /\ t > Filter!Start /\ \A i \in DOMAIN observed : observed[i] < Filter!TimeOf(cycles)
        /\ observed' = Append(observed, t)
  BY Zenon DEF Filter!Observe
<1>3. UNCHANGED <<cycles, loop_count, reset_at, state_buffer, state_buffer_index, sample, l_failures,
                log, handed>>
  BY DEF Filter!Observe
<1> DEFINE now == Filter!TimeOf(cycles)
           later == Filter!TimeOf(cycles + 1)
<1>4. /\ now \in Nat /\ later = now + period /\ later \in Nat /\ period \in Nat
      /\ Filter!TimeOf(FilterPeriods + 1) \in Nat /\ later <= Filter!TimeOf(FilterPeriods + 1)
  <2>1. /\ FilterPeriods + 1 \in Nat /\ cycles + 1 \in Nat /\ period \in Nat /\ period > 0
        /\ cycles < FilterPeriods + 1
    BY <1>1, FilterAssumption
  <2>2. /\ now \in Nat /\ later = now + period /\ later \in Nat
        /\ Filter!TimeOf(FilterPeriods + 1) \in Nat
        /\ now + period <= Filter!TimeOf(FilterPeriods + 1)
    BY <1>1, <2>1, TimeGrows
  <2> QED
    BY <2>1, <2>2
<1> HIDE DEF now, later
<1>5. t \in Nat /\ now <= t /\ t < later /\ t > Filter!Start
  BY <1>2, <1>4 DEF now
<1>6. t \in Filter!Observation
  BY <1>4, <1>5 DEF Filter!Observation
<1>7. observed \in Seq(Filter!Observation)
  BY <1>1 DEF FilterTypes
<1>8. observed' \in Seq(Filter!Observation) /\ Seen' = Seen \cup {t}
  <2>1. /\ observed' \in Seq(Filter!Observation)
        /\ DOMAIN observed = 1 .. Len(observed) /\ Len(observed) \in Nat
        /\ DOMAIN observed' = 1 .. Len(observed) + 1
        /\ observed'[Len(observed) + 1] = t
        /\ \A i \in 1 .. Len(observed) : observed'[i] = observed[i]
    BY <1>2, <1>6, <1>7
  <2> QED
    BY <2>1 DEF Seen
<1>9. FilterTypes'
  BY <1>1, <1>3, <1>8 DEF FilterTypes
<1>10. SeenOnce'
  <2>1. ASSUME NEW o \in Seen PROVE o < now /\ o \in Nat
    <3>1. PICK i \in DOMAIN observed : o = observed[i]
      BY DEF Seen
    <3>2. o < now
      BY <1>2, <3>1 DEF now
    <3>3. o \in Filter!Observation
      BY <1>7, <3>1
    <3> QED
      BY <3>2, <3>3 DEF Filter!Observation
  <2>2. ASSUME NEW o \in Seen, NEW m \in Nat, Within(o, Filter!TimeOf(m)),
               Within(t, Filter!TimeOf(m))
        PROVE  FALSE
    <3>1. Within(t, now)
      BY <1>4, <1>5 DEF Within
    <3>2. m = cycles
      BY <1>1, <1>5, <2>2, <3>1, WithinOne DEF now
    <3> QED
      BY <2>1, <2>2, <3>2, <1>4 DEF Within, now
  <2>3. \A o, p \in Seen \cup {t}, m \in Nat :
          Within(o, Filter!TimeOf(m)) /\ Within(p, Filter!TimeOf(m)) => o = p
    BY <1>1, <2>2, Zenon DEF SeenOnce
  <2>4. \A o \in Seen \cup {t} : o > Filter!Start /\ o < later
    BY <1>1, <1>5 DEF SeenOnce, later
  <2>5. handed \subseteq Seen \cup {t} /\ (sample > 0 => sample \in Seen \cup {t})
    BY <1>1, Zenon DEF SeenOnce
  <2>6. Filter!TimeOf(cycles')= Filter!TimeOf(cycles) /\ cycles' = cycles
        /\ handed' = handed /\ sample' = sample
    BY <1>3
  <2> QED
    BY <1>8, <2>3, <2>4, <2>5, <2>6, Zenon DEF SeenOnce, later
<1>11. (LogTimes(log, cycles)
       /\ Recorded(state_buffer, state_buffer_index, handed, log, reset_at = 0)
       /\ Linked(state_buffer, state_buffer_index, reset_at))'
  BY <1>3 DEF FilterInv, LogTimes, Recorded, Linked, At
<1> QED
  BY <1>9, <1>10, <1>11, Zenon DEF FilterInv

(* An observation arrives, in any order and with any delay.                *)
LEMMA ArriveStep == FilterInv /\ Filter!Arrive => FilterInv'
<1> SUFFICES ASSUME FilterInv, Filter!Arrive PROVE FilterInv'
  OBVIOUS
<1>1. FilterTypes /\ SeenOnce
  BY DEF FilterInv
<1>2. PICK i \in DOMAIN observed : sample' = observed[i]
  BY Zenon DEF Filter!Arrive
<1>3. UNCHANGED <<cycles, loop_count, reset_at, state_buffer, state_buffer_index, observed, l_failures,
                log, handed>>
  BY DEF Filter!Arrive
<1>4. sample' \in Seen /\ sample' \in Filter!Observation
  BY <1>1, <1>2 DEF Seen, FilterTypes
<1>5. FilterTypes'
  BY <1>1, <1>3, <1>4 DEF FilterTypes
<1>6. SeenOnce'
  <2>1. /\ Seen' = Seen /\ Filter!TimeOf(cycles + 1)' = Filter!TimeOf(cycles + 1)
        /\ handed' = handed
    BY <1>3 DEF Seen
  <2> QED
    BY <1>1, <1>3, <1>4, <2>1, Zenon DEF SeenOnce
<1>7. (LogTimes(log, cycles)
       /\ Recorded(state_buffer, state_buffer_index, handed, log, reset_at = 0)
       /\ Linked(state_buffer, state_buffer_index, reset_at))'
  BY <1>3 DEF FilterInv, LogTimes, Recorded, Linked, At
<1> QED
  BY <1>5, <1>6, <1>7, Zenon DEF FilterInv

(* In the next period, what was seen is of before it.                      *)
LEMMA LaterSeen ==
  ASSUME FilterTypes, SeenOnce, cycles' = cycles + 1, UNCHANGED <<observed, sample, handed>>
  PROVE  SeenOnce'
<1>1. /\ Seen' = Seen /\ handed' = handed /\ sample' = sample
  BY DEF Seen
<1>2. Filter!TimeOf(cycles + 1)' = Filter!TimeOf((cycles + 1) + 1)
  OBVIOUS
<1>3. \A o \in Seen : o < Filter!TimeOf((cycles + 1) + 1)
  <2>1. /\ Filter!TimeOf(cycles + 1) \in Nat /\ period \in Nat
        /\ Filter!TimeOf((cycles + 1) + 1) = Filter!TimeOf(cycles + 1) + period
    <3>1. cycles + 1 \in Nat
      BY FilterAssumption DEF FilterTypes
    <3> QED
      BY <3>1, TimeGrows, FilterAssumption
  <2>2. \A o \in Seen : o \in Filter!Observation
    BY DEF Seen, FilterTypes
  <2>3. \A o \in Seen : o \in Int
    BY <2>2 DEF Filter!Observation
  <2> QED
    BY <2>1, <2>3 DEF SeenOnce
<1> QED
  BY <1>1, <1>2, <1>3, Zenon DEF SeenOnce

(* A period without an exchange, or with an exception before it.           *)
LEMMA FailureStep == FilterInv /\ (Filter!Failure \/ Filter!Throw) => FilterInv'
<1> SUFFICES ASSUME FilterInv, Filter!Failure \/ Filter!Throw PROVE FilterInv'
  OBVIOUS
<1>1. /\ FilterTypes /\ SeenOnce /\ LogTimes(log, cycles)
      /\ Recorded(state_buffer, state_buffer_index, handed, log, reset_at = 0)
      /\ Linked(state_buffer, state_buffer_index, reset_at)
  BY DEF FilterInv
<1>2. /\ cycles < FilterPeriods /\ cycles' = cycles + 1
      /\ l_failures < FilterFailures /\ l_failures' = l_failures + 1
      /\ Filter!Done(state_buffer) \/ Filter!Thrown(state_buffer)
      /\ UNCHANGED <<state_buffer_index, observed, sample, log, handed>>
  BY DEF Filter!Failure, Filter!Throw, Filter!Cycle, Filter!Thrown
<1>3. /\ cycles \in Nat /\ cycles + 1 \in 0 .. FilterPeriods
      /\ l_failures + 1 \in 0 .. FilterFailures /\ log \in Seq(LogEntry)
      /\ state_buffer_index \in Filter!Slot /\ state_buffer \in [Filter!Slot -> FilterState]
  BY <1>1, <1>2, FilterAssumption DEF FilterTypes
<1>4. LogTimes(log, cycles + 1)
  <2>1. \A i \in DOMAIN log : log[i] \in LogEntry
    BY <1>3
  <2>2. \A i \in DOMAIN log : log[i].sensors <= cycles + 1
    BY <1>1, <1>3, <2>1 DEF LogTimes, LogEntry
  <2> QED
    BY <1>1, <2>2, Zenon DEF LogTimes
<1>5. /\ state_buffer' \in [Filter!Slot -> FilterState]
      /\ loop_count' \in 0 .. cycles + 1 /\ reset_at' \in 0 .. cycles + 1
      /\ Recorded(state_buffer', state_buffer_index, handed, log, reset_at' = 0)
      /\ Linked(state_buffer', state_buffer_index, reset_at')
  BY <1>1, <1>2, <1>3, <1>4, EndIs
<1>6. FilterTypes'
  BY <1>1, <1>2, <1>3, <1>5, Zenon DEF FilterTypes
<1>7. SeenOnce'
  BY <1>1, <1>2, LaterSeen
<1>8. LogTimes(log, cycles)' /\ Linked(state_buffer, state_buffer_index, reset_at)'
      /\ Recorded(state_buffer, state_buffer_index, handed, log, reset_at = 0)'
  BY <1>2, <1>4, <1>5 DEF LogTimes, Linked, Recorded, At
<1> QED
  BY <1>6, <1>7, <1>8, Zenon DEF FilterInv

(* The states that an observation belongs to are those of the log.         *)
Belongs(L, k) == k > Len(L) - Filter!Newest /\ Within(sample, L[k].t)

(* The search finds exactly the states of the buffer to which the          *)
(* observation belongs.                                                    *)
LEMMA FoundIs ==
  ASSUME FilterTypes, SeenOnce, NEW first \in Filter!Slot,
         NEW b \in [Filter!Slot -> FilterState], NEW H, NEW L \in Seq(LogEntry), NEW exact,
         NEW count, LogTimes(L, count), Recorded(b, first, H, L, exact)
  PROVE  LET found == IF sample > 0 THEN Filter!Corresponding(b, first) ELSE {}
         IN /\ found \subseteq 1 .. Filter!Newest
            /\ \A i \in found : LET k == Len(L) - Filter!Newest + i
                                IN k \in 1 .. Len(L) /\ Belongs(L, k)
            /\ \A k \in 1 .. Len(L) : Belongs(L, k) => k - Len(L) + Filter!Newest \in found
            /\ found # {} => sample > 0
<1> DEFINE found == IF sample > 0 THEN Filter!Corresponding(b, first) ELSE {}
           e(i) == Len(L) - Filter!Newest + i
<1>1. found = {i \in 1 .. Filter!Newest : sample > 0 /\ Within(sample, At(b, first, i).t)}
  BY DEF Filter!Corresponding, Within, At
<1> HIDE DEF found
<1>2. /\ Len(L) \in Nat /\ sample \in Nat /\ period \in Nat /\ period > 0
      /\ Filter!Start \in Nat /\ Filter!Start >= period /\ Filter!Start > 0
  <2>1. sample \in Nat
    BY DEF FilterTypes, Filter!Observation
  <2>2. /\ Filter!Start \in Nat /\ Filter!Start >= period /\ Filter!Start > 0
    BY TimeGrows
  <2> QED
    BY <2>1, <2>2, FilterAssumption
<1>3. sample > 0 => sample > Filter!Start
  BY DEF SeenOnce
<1>4. ASSUME NEW i \in 1 .. Filter!Newest, e(i) >= 1 PROVE At(b, first, i).t = L[e(i)].t
  BY <1>4, NewestIs DEF Recorded
<1>5. ASSUME NEW i \in 1 .. Filter!Newest, ~(e(i) >= 1), sample > 0
      PROVE  ~Within(sample, At(b, first, i).t)
  <2>1. At(b, first, i) = Filter!State(0, 0)
    BY <1>5, NewestIs DEF Recorded
  <2>2. At(b, first, i).t = 0
    BY <2>1, StateIs
  <2> QED
    BY <1>2, <1>3, <1>5, <2>2 DEF Within
<1>6. ASSUME NEW i \in found PROVE e(i) \in 1 .. Len(L) /\ Belongs(L, e(i))
  <2>1. i \in 1 .. Filter!Newest /\ sample > 0 /\ Within(sample, At(b, first, i).t)
    BY <1>1
  <2>2. e(i) >= 1
    BY <1>5, <2>1
  <2>3. e(i) \in 1 .. Len(L) /\ e(i) > Len(L) - Filter!Newest
    BY <1>2, <2>1, <2>2, NewestIs
  <2>4. Within(sample, L[e(i)].t)
    BY <1>4, <2>1, <2>2
  <2> QED
    BY <2>3, <2>4 DEF Belongs
<1>7. ASSUME NEW k \in 1 .. Len(L), Belongs(L, k) PROVE k - Len(L) + Filter!Newest \in found
  <2> DEFINE i == k - Len(L) + Filter!Newest
  <2>1. i \in 1 .. Filter!Newest /\ e(i) = k /\ e(i) >= 1
    BY <1>2, <1>7, NewestIs DEF Belongs
  <2>2. Within(sample, L[k].t)
    BY <1>7 DEF Belongs
  <2>3. At(b, first, i).t = L[k].t
    BY <1>4, <2>1
  <2>4. sample > 0
    <3>1. L[k] \in LogEntry /\ k \in DOMAIN L
      BY <1>2
    <3>2. L[k].sensors \in Nat /\ L[k].t = Filter!TimeOf(L[k].sensors)
      BY <3>1 DEF LogTimes, LogEntry
    <3>3. L[k].t \in Nat /\ L[k].t >= Filter!Start
      BY <3>2, TimeGrows
    <3> QED
      BY <1>2, <2>2, <3>3 DEF Within
  <2> HIDE DEF i
  <2> QED
    BY <1>1, <2>1, <2>2, <2>3, <2>4 DEF i
<1>8. found # {} => sample > 0
  BY <1>1
<1>9. found \subseteq 1 .. Filter!Newest
  BY <1>1
<1> QED
  BY <1>6, <1>7, <1>8, <1>9 DEF found

(* An observation belongs to one update only, and no other to that.        *)
LEMMA BelongsToOne ==
  ASSUME FilterTypes, SeenOnce, sample > 0, NEW L \in Seq(LogEntry), NEW count, LogTimes(L, count),
         NEW at \in 1 .. Len(L), Within(sample, L[at].t)
  PROVE  /\ \A p \in handed : Within(p, L[at].t) => p = sample
         /\ \A k \in 1 .. Len(L) : k # at => ~Within(sample, L[k].t)
<1>1. \A k \in 1 .. Len(L) :
        L[k].sensors \in Nat /\ L[k].t = Filter!TimeOf(L[k].sensors) /\ k \in DOMAIN L
  <2>1. \A k \in 1 .. Len(L) : L[k] \in LogEntry /\ k \in DOMAIN L
    OBVIOUS
  <2> QED
    BY <2>1 DEF LogTimes, LogEntry
<1>2. \A p \in handed : Within(p, L[at].t) => p = sample
  BY <1>1 DEF SeenOnce
<1>3. sample \in Nat
  BY DEF FilterTypes, Filter!Observation
<1>4. \A k \in 1 .. Len(L) : k # at => ~Within(sample, L[k].t)
  <2> SUFFICES ASSUME NEW k \in 1 .. Len(L), k # at, Within(sample, L[k].t) PROVE FALSE
    OBVIOUS
  <2>1. L[k].sensors = L[at].sensors
    BY <1>1, <1>3, WithinOne
  <2> QED
    BY <1>1, <2>1 DEF LogTimes
<1> QED
  BY <1>2, <1>4

(* One period of the filter, with a late observation or without one.       *)
LEMMA UpdateStep == FilterInv /\ Filter!Update => FilterInv'
<1> SUFFICES ASSUME FilterInv, Filter!Update PROVE FilterInv'
  OBVIOUS
<1> DEFINE n == cycles + 1
           entry == [t |-> Filter!TimeOf(n), sensors |-> n]
           L == Append(log, entry)
           first == NextFirst
           buffer == Written(n)
           exact == reset_at = 0
           recent == Filter!Recent(Filter!TimeOf(n))
           found == IF recent THEN Filter!Corresponding(buffer, first) ELSE {}
           start == CHOOSE i \in found : \A j \in found : j <= i
           at == Len(L) - Filter!Newest + start
           again == found # {} /\ At(buffer, first, start).observation = 0
           filtered == IF again THEN Filter!Reprocess(buffer, first, start) ELSE buffer
           given == IF found # {} THEN handed \cup {sample} ELSE handed
<1>1. /\ FilterTypes /\ SeenOnce /\ LogTimes(log, cycles)
      /\ Recorded(state_buffer, state_buffer_index, handed, log, exact)
      /\ Linked(state_buffer, state_buffer_index, reset_at)
  BY DEF FilterInv
<1>2. /\ cycles < FilterPeriods /\ cycles' = n
      /\ state_buffer_index' = first
      /\ Filter!Done(filtered) \/ Filter!Thrown(filtered)
      /\ l_failures' = l_failures \/ (l_failures < FilterFailures /\ l_failures' = l_failures + 1)
      /\ log' = L
      /\ handed' = handed \cup {o \in {sample} :
                     /\ recent
                     /\ \E k \in DOMAIN L : /\ k > Len(L) - Filter!Newest
                                           /\ L[k].t <= o /\ o < L[k].t + period}
      /\ UNCHANGED <<observed, sample>>
  <2>1. /\ cycles < FilterPeriods /\ cycles' = n
        /\ state_buffer_index' = first
        /\ log' = L
        /\ UNCHANGED <<observed, sample>>
    BY Zenon DEF Filter!Update, Filter!Cycle, NextFirst
  <2>2. (Filter!Done(filtered) /\ l_failures' = l_failures) \/ Filter!Thrown(filtered)
    BY Zenon DEF Filter!Update, NextFirst, Written, At
  <2>3. handed' = handed \cup {o \in {sample} :
                     /\ recent
                     /\ \E k \in DOMAIN log' : /\ k > Len(log') - Filter!Newest
                                              /\ log'[k].t <= o /\ o < log'[k].t + period}
    BY Zenon DEF Filter!Update
  <2>4. \/ Filter!Done(filtered) /\ l_failures' = l_failures
        \/ /\ Filter!Thrown(filtered)
           /\ l_failures < FilterFailures /\ l_failures' = l_failures + 1
    BY <2>2, Zenon DEF Filter!Thrown
  <2> HIDE DEF L, first, filtered, recent
  <2> QED
    BY <2>1, <2>3, <2>4
<1>3. /\ cycles \in Nat /\ n \in SensorNumber /\ n \in 1 .. FilterPeriods /\ n \in Nat
      /\ log \in Seq(LogEntry) /\ handed \in SUBSET Filter!Observation
      /\ sample \in Filter!Observation
  BY <1>1, <1>2, FilterAssumption DEF FilterTypes, SensorNumber
<1>4. first \in Filter!Slot /\ buffer \in [Filter!Slot -> FilterState]
  BY <1>1, <1>3, AdvanceIs
<1>5. Filtered(handed, Filter!TimeOf(n)) = 0
  <2>1. \A o \in handed : ~Within(o, Filter!TimeOf(n))
    <3>1. \A o \in handed : o \in Int /\ o < Filter!TimeOf(n)
      BY <1>1, <1>3 DEF SeenOnce, Filter!Observation
    <3>2. Filter!TimeOf(n) \in Nat
      BY <1>3, TimeGrows
    <3> QED
      BY <3>1, <3>2 DEF Within
  <2> QED
    BY <1>3, <2>1, FilteredNext
<1>6. entry \in LogEntry /\ Recorded(buffer, first, handed, L, exact)
  <2>1. exact \in BOOLEAN /\ cycles < FilterPeriods
    BY <1>2
  <2> HIDE DEF exact
  <2> QED
    BY <1>1, <1>5, <2>1, WrittenRecorded
<1>7. /\ L \in Seq(LogEntry) /\ Len(log) \in Nat /\ Len(L) = Len(log) + 1
      /\ DOMAIN log = 1 .. Len(log) /\ DOMAIN L = 1 .. Len(L)
      /\ L[Len(L)] = entry /\ \A i \in 1 .. Len(log) : L[i] = log[i]
  <2> HIDE DEF entry
  <2> QED
    BY <1>3, <1>6, AppendIs
<1>8. LogTimes(L, n)
  <2>1. \A i \in 1 .. Len(log) : /\ log[i].t = Filter!TimeOf(log[i].sensors)
                                 /\ log[i].sensors \in Nat /\ log[i].sensors <= cycles
                                 /\ i \in DOMAIN log
    <3>1. \A i \in 1 .. Len(log) : log[i] \in LogEntry /\ i \in DOMAIN log
      BY <1>3, <1>7
    <3> QED
      BY <1>1, <3>1 DEF LogTimes, LogEntry
  <2>2. \A i \in 1 .. Len(L) : i \in 1 .. Len(log) \/ i = Len(L)
    BY <1>7
  <2>3. entry.t = Filter!TimeOf(entry.sensors) /\ entry.sensors = n
    OBVIOUS
  <2>4. \A i \in 1 .. Len(log) : log[i].sensors <= n /\ log[i].sensors # n
    BY <1>3, <2>1
  <2>5. \A i \in DOMAIN L : L[i].t = Filter!TimeOf(L[i].sensors) /\ L[i].sensors <= n
    <3> HIDE DEF L, entry, n
    <3>1. n <= n
      BY <1>3
    <3> QED
      BY <1>7, <2>1, <2>2, <2>3, <2>4, <3>1
  <2>6. \A i, j \in DOMAIN L : i # j => L[i].sensors # L[j].sensors
    <3> HIDE DEF L, entry, n
    <3>1. \A i, j \in 1 .. Len(log) : i # j => log[i].sensors # log[j].sensors
      BY <1>1, <1>7 DEF LogTimes
    <3> QED
      BY <1>7, <2>2, <2>3, <2>4, <3>1
  <2> HIDE DEF L, n
  <2> QED
    BY <2>5, <2>6 DEF LogTimes
<1> HIDE DEF L, first, buffer, entry, n, exact
<1>9. /\ found \subseteq 1 .. Filter!Newest
      /\ \A i \in found : LET k == Len(L) - Filter!Newest + i
                          IN k \in 1 .. Len(L) /\ Belongs(L, k)
      /\ recent => \A k \in 1 .. Len(L) : Belongs(L, k) => k - Len(L) + Filter!Newest \in found
      /\ found # {} => recent /\ sample > 0
  <2> DEFINE corresponding == IF sample > 0 THEN Filter!Corresponding(buffer, first) ELSE {}
  <2>1. /\ corresponding \subseteq 1 .. Filter!Newest
        /\ \A i \in corresponding : LET k == Len(L) - Filter!Newest + i
                                    IN k \in 1 .. Len(L) /\ Belongs(L, k)
        /\ \A k \in 1 .. Len(L) : Belongs(L, k) => k - Len(L) + Filter!Newest \in corresponding
    BY <1>1, <1>4, <1>6, <1>7, <1>8, FoundIs
  <2>2. /\ recent => found = corresponding /\ sample > 0
        /\ ~recent => found = {}
    BY Zenon DEF Filter!Recent
  <2> HIDE DEF corresponding, found, recent
  <2> QED
    BY <2>1, <2>2
<1> HIDE DEF found, recent
<1>10. handed' = given
  <2>1. handed' = handed \cup {o \in {sample} : recent /\ \E k \in DOMAIN L : Belongs(L, k)}
    BY <1>2 DEF Belongs, Within
  <2>2. recent /\ (\E k \in DOMAIN L : Belongs(L, k)) <=> found # {}
    BY <1>7, <1>9
  <2> QED
    BY <2>1, <2>2
<1>11. found # {} => start \in found /\ start \in 1 .. Filter!Newest
  <2> SUFFICES ASSUME found # {} PROVE start \in found
    BY <1>9
  <2>1. Max(found) \in found /\ \A x \in found : x <= Max(found)
    BY <1>9, NewestIs, Greatest
  <2>2. \E i \in found : \A j \in found : j <= i
    BY <2>1, Zenon
  <2> QED
    BY <2>2, Zenon
<1>12. ASSUME found # {}
       PROVE  /\ at \in 1 .. Len(L) /\ Within(sample, L[at].t) /\ sample > 0
              /\ \A p \in handed : Within(p, L[at].t) => p = sample
              /\ \A k \in 1 .. Len(L) : k # at => ~Within(sample, L[k].t)
  <2>1. at \in 1 .. Len(L) /\ Within(sample, L[at].t) /\ sample > 0
    BY <1>9, <1>11, <1>12 DEF Belongs
  <2> HIDE DEF at
  <2> QED
    BY <1>1, <1>7, <1>8, <2>1, BelongsToOne
<1> HIDE DEF start
<1>13. /\ filtered \in [Filter!Slot -> FilterState]
       /\ Recorded(filtered, first, given, L, exact)
       /\ Linked(filtered, first, reset_at)
  <2>1. Linked(buffer, first, reset_at)
    BY <1>1, <1>3, WrittenLinked DEF buffer, first
  <2>2. CASE again
    <3>1. filtered = Filter!Reprocess(buffer, first, start) /\ given = handed \cup {sample}
      BY <2>2
    <3>2. start \in 1 .. Filter!Newest /\ start \in FilterSlot /\ at >= 1
      BY <1>11, <1>12, <2>2, NewestIs
    <3>3. Filter!Reprocess(buffer, first, start) \in [Filter!Slot -> FilterState]
      BY <1>3, <1>4, <3>2, ReprocessStates
    <3>4. exact \in BOOLEAN
      BY DEF exact
    <3>5. Recorded(Filter!Reprocess(buffer, first, start), first, handed \cup {sample}, L, exact)
      <4>1. found # {}
        BY <2>2
      <4>2. at = Len(L) - Filter!Newest + start
        OBVIOUS
      <4>3. /\ Within(sample, L[at].t)
            /\ \A p \in handed : Within(p, L[at].t) => p = sample
            /\ \A k \in 1 .. Len(L) : k # at => ~Within(sample, L[k].t)
        BY <1>12, <4>1
      <4> HIDE DEF at
      <4> QED
        BY <1>3, <1>4, <1>6, <1>7, <3>2, <3>4, <4>2, <4>3, ReprocessRecorded
    <3>6. Linked(Filter!Reprocess(buffer, first, start), first, reset_at)
      BY <1>3, <1>4, <2>1, <3>2, ReprocessLinked
    <3> QED
      BY <3>1, <3>3, <3>5, <3>6
  <2>3. CASE ~again
    <3>1. filtered = buffer
      BY <2>3
    <3>2. given = handed
      <4> SUFFICES ASSUME found # {} PROVE sample \in handed
        OBVIOUS
      <4>1. At(buffer, first, start).observation # 0
        BY <2>3
      <4>2. start \in FilterSlot /\ at >= 1
        BY <1>11, <1>12, NewestIs
      <4>3. At(buffer, first, start).observation = Filtered(handed, L[at].t)
        BY <1>6, <4>2 DEF Recorded
      <4>4. Filtered(handed, L[at].t) \in handed /\ Within(Filtered(handed, L[at].t), L[at].t)
        <5> HIDE DEF at
        <5> QED
          BY <1>3, <4>1, <4>3, FilteredNext
      <4> HIDE DEF at
      <4> QED
        BY <1>12, <4>4
    <3> QED
      BY <1>4, <1>6, <2>1, <3>1, <3>2
  <2> QED
    BY <2>2, <2>3
<1> HIDE DEF filtered, given, again, at
<1>14. /\ state_buffer' \in [Filter!Slot -> FilterState]
       /\ loop_count' \in 0 .. n /\ reset_at' \in 0 .. n
       /\ Recorded(state_buffer', first, given, L, reset_at' = 0)
       /\ Linked(state_buffer', first, reset_at')
  BY <1>1, <1>2, <1>4, <1>7, <1>8, <1>13, EndIs DEF n, exact
<1>15. given \subseteq Seen /\ given \in SUBSET Filter!Observation
  <2>1. \A o \in Seen : o \in Filter!Observation
    BY <1>1 DEF Seen, FilterTypes
  <2>2. given \subseteq Seen
    BY <1>1, <1>9 DEF given, SeenOnce
  <2> QED
    BY <2>1, <2>2
<1>16. FilterTypes'
  <2>1. n \in 0 .. FilterPeriods
    BY <1>3
  <2>2. l_failures' \in 0 .. FilterFailures
    BY <1>1, <1>2, FilterAssumption DEF FilterTypes
  <2> QED
    BY <1>1, <1>2, <1>4, <1>7, <1>10, <1>14, <1>15, <2>1, <2>2, Zenon DEF FilterTypes
<1>17. SeenOnce'
  <2>1. Seen' = Seen /\ sample' = sample
    BY <1>2 DEF Seen
  <2>2. Filter!TimeOf(cycles + 1)' = Filter!TimeOf(n + 1)
    BY <1>2
  <2>3. \A o \in Seen : o < Filter!TimeOf(n + 1)
    <3>1. /\ Filter!TimeOf(n) \in Nat /\ period \in Nat
          /\ Filter!TimeOf(n + 1) = Filter!TimeOf(n) + period
      BY <1>3, TimeGrows, FilterAssumption
    <3>2. \A o \in Seen : o \in Filter!Observation
      BY <1>1 DEF Seen, FilterTypes
    <3>3. \A o \in Seen : o \in Int
      BY <3>2 DEF Filter!Observation
    <3>4. \A o \in Seen : o < Filter!TimeOf(n)
      BY <1>1 DEF SeenOnce, n
    <3> QED
      BY <3>1, <3>3, <3>4
  <2> QED
    BY <1>1, <1>10, <1>15, <2>1, <2>2, <2>3, Zenon DEF SeenOnce
<1>18. LogTimes(log, cycles)' /\ Linked(state_buffer, state_buffer_index, reset_at)'
       /\ Recorded(state_buffer, state_buffer_index, handed, log, reset_at = 0)'
  BY <1>2, <1>8, <1>10, <1>14 DEF LogTimes, Linked, Recorded, At
<1> QED
  BY <1>16, <1>17, <1>18, Zenon DEF FilterInv

(* The invariant implies the property.                                     *)
LEMMA FilterImplies == FilterInv => FilterExact
<1> SUFFICES ASSUME FilterInv PROVE FilterExact
  OBVIOUS
<1>1. /\ FilterTypes
      /\ Recorded(state_buffer, state_buffer_index, handed, log, reset_at = 0)
      /\ Linked(state_buffer, state_buffer_index, reset_at)
  BY DEF FilterInv
<1>2. Filter!TypeOK
  <2>1. \A i \in DOMAIN log : log[i] \in LogEntry
    BY <1>1 DEF FilterTypes
  <2> QED
    BY <1>1, <2>1 DEF FilterTypes, Filter!TypeOK, FilterState, SensorNumber, PoseSteps, LogEntry
<1>3. Filter!HistoryConsistent
  BY <1>1 DEF Linked, Filter!HistoryConsistent, At
<1>4. Filter!AsIfNeverLate
  <2> SUFFICES ASSUME reset_at = 0
               PROVE  At(state_buffer, state_buffer_index, Filter!Newest).pose =
                        Poses(handed, log, Len(log))
    BY <1>1, FoldIs DEF Filter!AsIfNeverLate, At, FilterTypes
  <2>1. Len(log) \in Nat /\ Len(log) - Filter!Newest + Filter!Newest = Len(log)
    BY <1>1, NewestIs DEF FilterTypes
  <2>2. CASE Len(log) >= 1
    BY <1>1, <2>1, <2>2, NewestIs DEF Recorded
  <2>3. CASE ~(Len(log) >= 1)
    <3>1. At(state_buffer, state_buffer_index, Filter!Newest) = Filter!State(0, 0)
      BY <1>1, <2>1, <2>3, NewestIs DEF Recorded
    <3>2. Len(log) = 0 /\ Len(log) <= Len(log)
      BY <2>1, <2>3
    <3>3. handed \in SUBSET Filter!Observation /\ log \in Seq(LogEntry)
      BY <1>1 DEF FilterTypes
    <3>4. Poses(handed, log, Len(log)) = <<>>
      BY <2>1, <3>2, <3>3, PosesNext
    <3> QED
      BY <3>1, <3>4, StateIs
  <2> QED
    BY <2>2, <2>3
<1> QED
  BY <1>2, <1>3, <1>4 DEF FilterExact

(* However late observations come, in whatever order, however many are     *)
(* lost and whichever periods have no exchange or end with an exception:   *)
(* the pose of the filter is the one of a filter that had every            *)
(* observation in time, unless the observation is older than the buffer or *)
(* than MaxAge, and no state is left that does not follow from the one     *)
(* before it (Localization.cxx), for any size of the buffer, any maximum   *)
(* age and any number of periods.                                          *)
THEOREM FilterCorrect == Filter!Spec => []FilterExact
<1>1. FilterInv /\ [Filter!Next]_(Filter!vars) => FilterInv'
  <2> SUFFICES ASSUME FilterInv, [Filter!Next]_(Filter!vars) PROVE FilterInv'
    OBVIOUS
  <2>1. CASE Filter!Observe
    BY <2>1, ObserveStep
  <2>2. CASE Filter!Arrive
    BY <2>2, ArriveStep
  <2>3. CASE Filter!Update
    BY <2>3, UpdateStep
  <2>4. CASE Filter!Failure \/ Filter!Throw
    BY <2>4, FailureStep
  <2>5. CASE UNCHANGED Filter!vars
    BY <2>5 DEF Filter!vars, FilterInv, FilterTypes, LogTimes, SeenOnce, Seen, Recorded, Linked, At
  <2> QED
    BY <2>1, <2>2, <2>3, <2>4, <2>5 DEF Filter!Next
<1> QED
  BY <1>1, FilterInit, FilterImplies, PTL DEF Filter!Spec

-----------------------------------------------------------------------------
(* SpiLink                                                                 *)

USE SizeAssumption, AttemptsAssumption, BoundAssumption

Byte(position) == [command |-> command, position |-> position]
Answered(buffer, position) ==
  [buffer |-> buffer, readings |-> prepared, position |-> position]

(* What holds of every transfer, also of one that began anywhere.          *)
Basics ==
  /\ TypeOK
  /\ select <=> pi # "idle"
  /\ pi = "idle" => sent = 0 /\ answer = <<>>
  /\ pi # "idle" => outcome.status = "none" /\ command >= 1
  /\ pi = "check" => sent = Size
  /\ pi = "transmit" => sent < Size
  /\ \A i \in Position : mosi_buffer[i] # Garbage => mosi_buffer[i].command <= command
  /\ delivered <= command /\ steady <= command
  /\ main \in {"fill", "begin", "wait"} => received = 0
  /\ main = "wait" /\ pi = "idle" =>
       spi_buffer_index = 0 /\ miso_buffer = "wrong" /\ SPDR = Outgoing("wrong", 0)

(* The frames a transfer may have needed when d of them were disturbed,    *)
(* and the answer is prepared in the buffer.                               *)
OnTheWay(n, d, buffer) ==
  /\ d = 0 => n = 1 \/ (n = 2 /\ buffer = "right")
  /\ d = 1 => n <= 2 \/ (n = 3 /\ buffer = "right")

Acknowledged == IsPacket(answer, "right")
Delivered == IF delivered = command THEN command ELSE 0

(* The bytes of a frame that the ATmega has not validated: only the first  *)
(* may be disturbed.                                                       *)
Halfway ==
  /\ spi_buffer_index = sent /\ SPDR = Outgoing(miso_buffer, sent)
  /\ \A i \in 1 .. sent - 1 : mosi_buffer[i] = Byte(i) /\ answer[i + 1] = Answered(miso_buffer, i)
  /\ sent = 0 => OnTheWay(attempt, disturbed, miso_buffer)
  /\ sent > 0 =>
       /\ mosi_buffer[0] \in {Byte(0), Garbage} /\ answer[1] \in {Answered(miso_buffer, 0), Garbage}
       /\ \/ /\ mosi_buffer[0] = Byte(0) /\ answer[1] = Answered(miso_buffer, 0)
             /\ OnTheWay(attempt, disturbed, miso_buffer)
          \/ disturbed >= 1 /\ OnTheWay(attempt, disturbed - 1, miso_buffer)

(* A frame that has been validated; the Raspberry Pi looks at the answer.  *)
Validated ==
  /\ spi_buffer_index = 0 /\ SPDR = Outgoing(miso_buffer, 0)
  /\ Acknowledged => delivered = command /\ answer[1].readings = prepared
  /\ Acknowledged \/ OnTheWay(attempt + 1, disturbed, miso_buffer)

(* A transfer that the ATmega waited for.                                  *)
During ==
  /\ ~safe_mode_flag
  /\ miso_buffer = "right" => delivered = command
  /\ received = Delivered
  /\ steady >= 2 => prepared = command - 1
  /\ \/ main = "wait" /\ pi = "transmit" /\ sent = 0 /\ Halfway
     \/ main = "active" /\ pi = "transmit" /\ Halfway
     \/ main \in {"active", "validate"} /\ pi = "check" /\ Halfway
     \/ main = "active" /\ pi = "check" /\ Validated

(* Such a transfer is over.  In safe mode the loop no longer waits.        *)
Afterwards ==
  /\ Succeeded => delivered = command
  /\ Succeeded /\ steady >= 2 => outcome.readings = command - 1
  /\ disturbed <= 1 => Succeeded
  /\ main # "validate"
  /\ main = "active" => spi_buffer_index = 0
  /\ main \in {"apply", "top", "fill", "begin", "wait"} => readings = command
  /\ main \in {"begin", "wait"} => prepared = command
  /\ \/ main \in {"active", "sensors", "apply"} /\ received = Delivered
     \/ main \in {"top", "fill", "begin", "wait"} /\ applied = Delivered
     \/ main \in {"sensors", "apply", "top"} /\ safe_mode_flag

SteadyTransfer == steady >= 1 => IF pi = "idle" THEN Afterwards ELSE During

IInv == Basics /\ SteadyTransfer

-----------------------------------------------------------------------------
(* Bytes                                                                   *)

(* The bytes of commands and answers are told apart by their position from *)
(* what a disturbance makes of them.                                       *)
LEMMA Bytes ==
  ASSUME TypeOK
  PROVE  /\ Position \subseteq Nat /\ 0 \in Position
         /\ \A i \in Position : Byte(i) # Garbage
         /\ \A i \in Position, buffer \in {"right", "wrong"} :
              /\ Answered(buffer, i) # Garbage
              /\ Answered(buffer, i) \in Reading
              /\ Outgoing(buffer, i) = Answered(buffer, i)
         /\ \A i \in Nat, buffer \in {"right", "wrong"} :
              Outgoing(buffer, i) \in Reading \cup {Garbage}
<1>1. Position \subseteq Nat /\ 0 \in Position /\ Size \notin Position
  BY DEF Position
<1>2. ASSUME NEW i \in Position PROVE Byte(i) # Garbage
  <2>1. Byte(i).position = i /\ Garbage.position = Size
    BY DEF Byte, Garbage
  <2>2. QED BY <1>1, <2>1
<1>3. ASSUME NEW i \in Position, NEW buffer \in {"right", "wrong"}
      PROVE  /\ Answered(buffer, i) # Garbage
             /\ Answered(buffer, i) \in Reading
             /\ Outgoing(buffer, i) = Answered(buffer, i)
  <2>1. Answered(buffer, i).position = i /\ Garbage.position = Size
    BY DEF Answered, Garbage
  <2>2. Answered(buffer, i) # Garbage
    BY <1>1, <2>1
  <2>3. Answered(buffer, i) \in Reading
    BY DEF Answered, Reading, TypeOK
  <2>4. Outgoing(buffer, i) = Answered(buffer, i)
    BY DEF Outgoing, Answered, Position
  <2>5. QED BY <2>2, <2>3, <2>4
<1>4. ASSUME NEW i \in Nat, NEW buffer \in {"right", "wrong"}
      PROVE  Outgoing(buffer, i) \in Reading \cup {Garbage}
  <2>1. CASE i < Size
    <3>1. i \in Position
      BY <2>1 DEF Position
    <3>2. QED BY <1>3, <3>1
  <2>2. CASE ~(i < Size)
    BY <2>2 DEF Outgoing
  <2>3. QED BY <2>1, <2>2
<1>5. QED BY <1>1, <1>2, <1>3, <1>4

-----------------------------------------------------------------------------
(* Every transfer                                                          *)

LEMMA BasicsInit == Init => Basics
<1> SUFFICES ASSUME Init PROVE Basics
  OBVIOUS
<1>1. /\ answer = <<>> /\ Len(answer) = 0 /\ answer \in Seq(Reading \cup {Garbage})
  BY DEF Init
<1>2. mosi_buffer = [i \in Position |-> Garbage]
  BY DEF Init
<1>3. TypeOK
  <2>1. outcome \in [status : {"none", "failed", "successful"}, readings : Number]
    BY DEF Init, Number
  <2>2. mosi_buffer \in [Position -> Command \cup {Garbage}]
    BY <1>2
  <2>3. answer \in Seq(Reading \cup {Garbage}) /\ Len(answer) = sent
    BY <1>1 DEF Init
  <2>4. {readings, prepared, received, applied, delivered} \subseteq Number
    BY DEF Init, Number
  <2>5. /\ command \in Number /\ attempt \in 0 .. Attempts /\ sent \in 0 .. Size
        /\ spi_buffer_index \in Nat /\ steady \in Number
        /\ faults \in 0 .. Faults /\ disturbed \in 0 .. faults
    BY DEF Init, Number
  <2>6. /\ pi \in {"idle", "transmit", "check"} /\ select \in BOOLEAN
        /\ main \in {"top", "fill", "begin", "wait", "active", "validate", "sensors", "apply"}
        /\ SPDR \in Reading \cup {Garbage} /\ miso_buffer \in {"right", "wrong"}
        /\ safe_mode_flag \in BOOLEAN
    BY DEF Init
  <2>7. QED BY <2>1, <2>2, <2>3, <2>4, <2>5, <2>6 DEF TypeOK
<1>4. QED BY <1>2, <1>3 DEF Init, Basics

(* The transfer goes on until it is acknowledged, or fails at last.        *)
LEMMA Checking ==
  ASSUME CheckFrame
  PROVE  /\ pi = "check" /\ CaughtUp
         /\ sent' = 0 /\ answer' = <<>>
         /\ UNCHANGED <<command, interrupts, loop, noise, steady>>
         /\ \/ /\ pi' = "idle" /\ select' = FALSE /\ safe_mode_flag' = FALSE
               /\ attempt' = attempt
               /\ \/ /\ Acknowledged
                     /\ outcome' = [status |-> "successful", readings |-> answer[1].readings]
                  \/ /\ ~Acknowledged /\ attempt = Attempts
                     /\ outcome' = [status |-> "failed", readings |-> 0]
            \/ /\ pi' = "transmit" /\ ~Acknowledged
               /\ attempt # Attempts /\ attempt' = attempt + 1
               /\ UNCHANGED <<select, outcome, safe_mode_flag>>
<1>1. CASE Acknowledged \/ attempt = Attempts
  BY <1>1 DEF CheckFrame, LastFrame, Acknowledged
<1>2. CASE ~Acknowledged /\ attempt # Attempts
  BY <1>2 DEF CheckFrame, LastFrame, Acknowledged
<1>3. QED BY <1>1, <1>2

(* The two sides of an exchanged byte.                                     *)
LEMMA Exchange ==
  ASSUME Basics, TransferByte
  PROVE  /\ pi = "transmit" /\ sent < Size /\ (sent = 0 => CaughtUp) /\ sent' = sent + 1
         /\ pi' = (IF sent' = Size THEN "check" ELSE "transmit")
         /\ UNCHANGED <<select, command, attempt, outcome, loop, safe_mode_flag, steady>>
         /\ spi_buffer_index' = spi_buffer_index + 1
         /\ SPDR' = Outgoing(miso_buffer, spi_buffer_index + 1)
         /\ \E out, in \in BOOLEAN :
              /\ answer' = Append(answer, IF in THEN Garbage ELSE SPDR)
              /\ mosi_buffer' = [i \in Position |->
                   IF i = spi_buffer_index THEN IF out THEN Garbage ELSE Byte(sent)
                   ELSE mosi_buffer[i]]
              /\ \/ ~out /\ ~in /\ UNCHANGED noise
                 \/ /\ out \/ in
                    /\ sent = 0 /\ faults < Faults
                    /\ faults' = faults + 1 /\ disturbed' = disturbed + 1
<1>1. CASE /\ answer' = Append(answer, SPDR)
           /\ TransferInterrupt(Byte(sent))
           /\ UNCHANGED noise
  BY <1>1 DEF TransferByte, TransferInterrupt
<1>2. CASE /\ faults < Faults /\ sent = 0
           /\ faults' = faults + 1 /\ disturbed' = disturbed + 1
           /\ \E out, in \in BOOLEAN :
                /\ out \/ in
                /\ TransferInterrupt(IF out THEN Garbage ELSE Byte(sent))
                /\ answer' = Append(answer, IF in THEN Garbage ELSE SPDR)
  <2>1. PICK out \in BOOLEAN, in \in BOOLEAN :
          /\ out \/ in
          /\ TransferInterrupt(IF out THEN Garbage ELSE Byte(sent))
          /\ answer' = Append(answer, IF in THEN Garbage ELSE SPDR)
    BY <1>2
  <2>2. QED BY <1>2, <2>1 DEF TransferByte, TransferInterrupt
<1>3. QED BY <1>1, <1>2 DEF TransferByte, Byte

(* Every step keeps the types.                                             *)
LEMMA TypeStep == ASSUME Basics, [Next]_vars PROVE TypeOK'
<1> USE DEF Basics
<1>1. CASE BeginTransfer
  <2>1. /\ command' \in Number /\ steady' \in Number
        /\ attempt' \in 0 .. Attempts /\ sent' \in 0 .. Size /\ disturbed' \in 0 .. faults'
    BY <1>1 DEF BeginTransfer, TypeOK, Number
  <2>2. answer' \in Seq(Reading \cup {Garbage}) /\ Len(answer') = sent'
    BY <1>1 DEF BeginTransfer
  <2>3. outcome' \in [status : {"none", "failed", "successful"}, readings : Number]
    BY <1>1 DEF BeginTransfer, Number
  <2>4. QED
    BY <1>1, <2>1, <2>2, <2>3 DEF BeginTransfer, TypeOK, interrupts, loop
<1>2. CASE TransferByte
  <2>1. PICK out \in BOOLEAN, in \in BOOLEAN :
          /\ answer' = Append(answer, IF in THEN Garbage ELSE SPDR)
          /\ mosi_buffer' = [i \in Position |->
               IF i = spi_buffer_index THEN IF out THEN Garbage ELSE Byte(sent)
               ELSE mosi_buffer[i]]
          /\ \/ UNCHANGED noise
             \/ faults < Faults /\ faults' = faults + 1 /\ disturbed' = disturbed + 1
    BY <1>2, Exchange
  <2>2. /\ sent' = sent + 1 /\ sent < Size /\ pi = "transmit"
        /\ pi' = (IF sent' = Size THEN "check" ELSE "transmit")
        /\ UNCHANGED <<select, command, attempt, outcome, loop, safe_mode_flag, steady>>
        /\ spi_buffer_index' = spi_buffer_index + 1
        /\ SPDR' = Outgoing(miso_buffer, spi_buffer_index + 1)
    BY <1>2, Exchange
  <2>3. answer' \in Seq(Reading \cup {Garbage}) /\ Len(answer') = sent'
    BY <2>1, <2>2 DEF TypeOK
  <2>4. Byte(sent) \in Command
    BY <2>2 DEF TypeOK, Number, Byte, Command, Position
  <2>5. mosi_buffer' \in [Position -> Command \cup {Garbage}]
    BY <2>1, <2>4 DEF TypeOK
  <2>6. SPDR' \in Reading \cup {Garbage}
    BY <2>2, Bytes DEF TypeOK
  <2>7. faults' \in 0 .. Faults /\ disturbed' \in 0 .. faults'
    BY <2>1 DEF TypeOK, noise
  <2>8. /\ pi' \in {"idle", "transmit", "check"} /\ sent' \in 0 .. Size /\ spi_buffer_index' \in Nat
    BY <2>2 DEF TypeOK
  <2>9. QED BY <2>2, <2>3, <2>5, <2>6, <2>7, <2>8 DEF TypeOK, loop
<1>3. CASE CheckFrame
  <2>1. sent' \in 0 .. Size /\ answer' \in Seq(Reading \cup {Garbage}) /\ Len(answer') = sent'
    BY <1>3, Checking
  <2>2. attempt' \in 0 .. Attempts
    <3>1. attempt' = attempt \/ (attempt # Attempts /\ attempt' = attempt + 1)
      BY <1>3, Checking
    <3>2. attempt \in 0 .. Attempts
      BY DEF TypeOK
    <3>3. QED BY <3>1, <3>2
  <2>3. outcome' \in [status : {"none", "failed", "successful"}, readings : Number]
    <3>1. ASSUME Acknowledged PROVE answer[1].readings \in Number
      <4>1. PICK n \in Number : \A i \in 1 .. Size :
              answer[i] = [buffer |-> "right", readings |-> n, position |-> i - 1]
        BY <3>1 DEF Acknowledged, IsPacket
      <4>2. answer[1] = [buffer |-> "right", readings |-> n, position |-> 1 - 1]
        BY <4>1
      <4>3. QED BY <4>2
    <3>2. 0 \in Number
      BY DEF Number
    <3>3. \/ outcome' = outcome
          \/ outcome' = [status |-> "failed", readings |-> 0]
          \/ /\ Acknowledged
             /\ outcome' = [status |-> "successful", readings |-> answer[1].readings]
      BY <1>3, Checking
    <3>4. QED BY <3>1, <3>2, <3>3 DEF TypeOK
  <2>4. /\ pi' \in {"idle", "transmit", "check"} /\ select' \in BOOLEAN
        /\ safe_mode_flag' \in BOOLEAN
        /\ UNCHANGED <<command, interrupts, loop, noise, steady>>
    BY <1>3, Checking DEF TypeOK
  <2>5. QED
    BY <2>1, <2>2, <2>3, <2>4 DEF TypeOK, interrupts, loop, noise
<1>4. CASE Top \/ Fill \/ Wait \/ Active \/ ReadSensors \/ Apply
  <2>1. /\ UNCHANGED <<raspberry, interrupts, miso_buffer, delivered, safe_mode_flag, noise, steady>>
        /\ {readings', prepared', received', applied'} \subseteq Number
        /\ main' \in {"top", "fill", "begin", "wait", "active", "validate", "sensors", "apply"}
    BY <1>4 DEF Top, Fill, Wait, Active, ReadSensors, Apply, TypeOK, Number, raspberry
  <2>2. QED BY <2>1 DEF TypeOK, raspberry, interrupts, noise
<1>5. CASE Begin
  <2>1. SPDR' \in Reading \cup {Garbage}
    BY <1>5, Bytes DEF Begin
  <2>2. QED BY <1>5, <2>1 DEF Begin, TypeOK, raspberry, noise
<1>6. CASE Validate
  <2>1. received' \in Number /\ delivered' \in Number
    <3>1. ASSUME NEW c \in 1 .. Transfers,
                 \A i \in 0 .. Checked - 1 : mosi_buffer[i] = [command |-> c, position |-> i]
          PROVE  mosi_buffer[0].command \in Number
      <4>1. mosi_buffer[0] = [command |-> c, position |-> 0]
        BY <3>1
      <4>2. QED BY <4>1 DEF Number
    <3>2. QED BY <1>6, <3>1 DEF Validate, TypeOK
  <2>2. miso_buffer' \in {"right", "wrong"}
    BY <1>6 DEF Validate, AnswerFor, TypeOK
  <2>3. SPDR' \in Reading \cup {Garbage}
    <3>1. SPDR' = Outgoing(miso_buffer', 0)
      BY <1>6 DEF Validate, NextFrame
    <3>2. QED BY <2>2, <3>1, Bytes
  <2>4. QED BY <1>6, <2>1, <2>2, <2>3 DEF Validate, NextFrame, TypeOK, raspberry, noise
<1>7. CASE WatchdogInterrupt
  BY <1>7 DEF WatchdogInterrupt, TypeOK, raspberry, interrupts, loop, noise, Number
<1>8. CASE UNCHANGED vars
  BY <1>8 DEF vars, TypeOK, raspberry, interrupts, loop, noise
<1>9. QED
  BY <1>1, <1>2, <1>3, <1>4, <1>5, <1>6, <1>7, <1>8 DEF Next, RaspberryStep, LoopStep

(* Every step keeps what holds of any transfer.                            *)
LEMMA BasicsStep == Basics /\ [Next]_vars => Basics'
<1> SUFFICES ASSUME Basics, [Next]_vars PROVE Basics'
  OBVIOUS
<1>0. TypeOK /\ TypeOK'
  BY TypeStep DEF Basics
<1>1. CASE BeginTransfer
  <2>1. /\ pi' = "transmit" /\ select' = TRUE /\ sent' = 0 /\ command' = command + 1
        /\ outcome'.status = "none" /\ steady' \in {0, steady + 1}
        /\ UNCHANGED <<interrupts, loop>>
    BY <1>1 DEF BeginTransfer
  <2>2. command' >= 1 /\ delivered' <= command' /\ steady' <= command'
    BY <1>0, <2>1 DEF Basics, TypeOK, loop, Number
  <2>3. \A i \in Position : mosi_buffer'[i] # Garbage => mosi_buffer'[i].command <= command'
    <3>1. ASSUME NEW i \in Position, mosi_buffer[i] # Garbage
          PROVE  mosi_buffer[i].command <= command + 1
      <4>1. mosi_buffer[i] \in Command
        BY <1>0, <3>1 DEF TypeOK
      <4>2. mosi_buffer[i].command \in Nat
        BY <4>1 DEF Command
      <4>3. mosi_buffer[i].command <= command /\ command \in Nat
        BY <1>0, <3>1 DEF Basics, TypeOK, Number
      <4>4. QED BY <4>2, <4>3
    <3>2. QED BY <2>1, <3>1 DEF interrupts
  <2>4. QED BY <1>0, <2>1, <2>2, <2>3 DEF Basics, loop, interrupts
<1>2. CASE TransferByte
  <2>1. PICK out \in BOOLEAN, in \in BOOLEAN :
          mosi_buffer' = [i \in Position |->
             IF i = spi_buffer_index THEN IF out THEN Garbage ELSE Byte(sent)
             ELSE mosi_buffer[i]]
    BY <1>2, Exchange
  <2>2. /\ sent' = sent + 1 /\ sent < Size /\ pi = "transmit"
        /\ pi' = (IF sent' = Size THEN "check" ELSE "transmit")
        /\ UNCHANGED <<select, command, outcome, loop, steady>>
    BY <1>2, Exchange
  <2>3. \A i \in Position : mosi_buffer'[i] # Garbage => mosi_buffer'[i].command <= command'
    <3>1. Byte(sent).command = command /\ command \in Nat
      BY <1>0 DEF Byte, TypeOK, Number
    <3>2. QED BY <2>1, <2>2, <3>1 DEF Basics
  <2>4. (pi' = "check" => sent' = Size) /\ (pi' = "transmit" => sent' < Size)
    BY <1>0, <2>2 DEF TypeOK
  <2>5. QED BY <1>0, <2>2, <2>3, <2>4 DEF Basics, loop
<1>3. CASE CheckFrame
  <2>1. /\ pi = "check" /\ main # "wait" /\ sent' = 0 /\ answer' = <<>>
        /\ UNCHANGED <<command, interrupts, loop, steady>>
    BY <1>3, Checking DEF CaughtUp
  <2>2. \/ pi' = "idle" /\ select' = FALSE
        \/ pi' = "transmit" /\ UNCHANGED <<select, outcome>>
    BY <1>3, Checking
  <2>3. command >= 1 /\ outcome.status = "none" /\ select
    BY <2>1 DEF Basics
  <2>4. select' <=> pi' # "idle"
    BY <2>2, <2>3
  <2>5. pi' # "idle" => outcome'.status = "none" /\ command' >= 1
    BY <2>1, <2>2, <2>3
  <2>6. (pi' = "transmit" => sent' < Size) /\ pi' # "check" /\ main' # "wait"
    BY <2>1, <2>2 DEF loop
  <2>7. /\ \A i \in Position : mosi_buffer'[i] # Garbage => mosi_buffer'[i].command <= command'
        /\ delivered' <= command' /\ steady' <= command'
        /\ main' \in {"fill", "begin", "wait"} => received' = 0
    BY <2>1 DEF Basics, loop, interrupts
  <2>8. QED BY <1>0, <2>1, <2>4, <2>5, <2>6, <2>7 DEF Basics
<1>4. CASE Top \/ Fill \/ Wait \/ Active \/ ReadSensors \/ Apply
  <2>1. /\ UNCHANGED <<raspberry, interrupts, miso_buffer, delivered, steady>>
        /\ \/ main' \in {"sensors", "apply", "active", "validate", "top"}
           \/ main' = "fill" /\ received' = 0
           \/ main = "fill" /\ main' = "begin" /\ received' = received
    BY <1>4 DEF Top, Fill, Wait, Active, ReadSensors, Apply
  <2>2. QED BY <1>0, <2>1 DEF Basics, raspberry, interrupts
<1>5. CASE Begin
  <2>1. /\ main = "begin" /\ main' = "wait" /\ miso_buffer' = "wrong" /\ spi_buffer_index' = 0
        /\ SPDR' = Outgoing("wrong", 0) /\ prepared' = prepared
        /\ UNCHANGED <<raspberry, mosi_buffer, received, delivered, steady>>
    BY <1>5 DEF Begin
  <2>2. SPDR' = Outgoing("wrong", 0)'
    BY <2>1 DEF Outgoing
  <2>3. QED BY <1>0, <2>1, <2>2 DEF Basics, raspberry
<1>6. CASE Validate
  <2>1. /\ UNCHANGED <<raspberry, mosi_buffer, steady>> /\ main' \in {"sensors", "active"}
    BY <1>6 DEF Validate
  <2>2. delivered' <= command
    <3>1. ASSUME NEW c \in 1 .. Transfers,
                 \A i \in 0 .. Checked - 1 : mosi_buffer[i] = [command |-> c, position |-> i]
          PROVE  mosi_buffer[0].command <= command
      <4>1. mosi_buffer[0] = [command |-> c, position |-> 0] /\ 0 \in Position
        BY <3>1, <1>0, Bytes
      <4>2. Garbage.position = Size /\ mosi_buffer[0].position = 0
        BY <4>1 DEF Garbage
      <4>3. QED BY <4>1, <4>2 DEF Basics
    <3>2. QED BY <1>6, <3>1 DEF Validate, Basics
  <2>3. QED BY <1>0, <2>1, <2>2 DEF Basics, raspberry
<1>7. CASE WatchdogInterrupt
  <2>1. UNCHANGED <<raspberry, interrupts, loop>> /\ steady' \in {0, steady}
    BY <1>7 DEF WatchdogInterrupt
  <2>2. steady' <= command'
    BY <1>0, <2>1 DEF Basics, TypeOK, Number, raspberry
  <2>3. QED BY <1>0, <2>1, <2>2 DEF Basics, raspberry, interrupts, loop, Outgoing
<1>8. CASE UNCHANGED vars
  BY <1>0, <1>8 DEF vars, Basics, raspberry, interrupts, loop, Outgoing
<1>9. QED
  BY <1>1, <1>2, <1>3, <1>4, <1>5, <1>6, <1>7, <1>8 DEF Next, RaspberryStep, LoopStep

-----------------------------------------------------------------------------
(* A transfer that the ATmega waited for: the Raspberry Pi                 *)

(* It begins with the command announced and nothing received.              *)
LEMMA SteadyBegin == ASSUME IInv, BeginTransfer PROVE SteadyTransfer'
<1> SUFFICES ASSUME steady' >= 1 PROVE During'
  BY DEF SteadyTransfer, BeginTransfer
<1>0. TypeOK /\ Basics /\ SteadyTransfer
  BY DEF IInv, Basics
<1>1. /\ pi = "idle" /\ pi' = "transmit" /\ command' = command + 1
      /\ attempt' = 1 /\ sent' = 0 /\ disturbed' = 0
      /\ main = "wait" /\ ~safe_mode_flag /\ steady' = steady + 1
      /\ UNCHANGED <<interrupts, loop, safe_mode_flag>>
  BY <1>0 DEF BeginTransfer, TypeOK
<1>2. /\ UNCHANGED <<SPDR, spi_buffer_index, miso_buffer, prepared, received, delivered, main>>
      /\ spi_buffer_index = 0 /\ miso_buffer = "wrong" /\ SPDR = Outgoing("wrong", 0)
      /\ received = 0 /\ delivered <= command
  BY <1>0, <1>1 DEF Basics, loop, interrupts
<1>3. received' = Delivered'
  BY <1>0, <1>1, <1>2 DEF Delivered, TypeOK, Number
<1>4. steady' >= 2 => prepared' = command' - 1
  <2>1. ASSUME steady' >= 2 PROVE prepared = command
    BY <1>0, <1>1, <2>1 DEF SteadyTransfer, Afterwards, TypeOK, Number
  <2>2. QED BY <1>0, <1>1, <1>2, <2>1 DEF TypeOK, Number
<1>5. Halfway'
  <2>1. SPDR' = Outgoing(miso_buffer, sent)'
    BY <1>1, <1>2 DEF Outgoing
  <2>2. OnTheWay(attempt, disturbed, miso_buffer)'
    BY <1>1 DEF OnTheWay
  <2>3. 1 .. sent' - 1 = {}
    BY <1>1
  <2>4. QED BY <1>1, <1>2, <2>1, <2>2, <2>3 DEF Halfway
<1>6. QED BY <1>1, <1>2, <1>3, <1>4, <1>5 DEF During

(* A byte each way: both sides have the bytes so far, in their places.     *)
LEMMA SteadyByte == ASSUME IInv, TransferByte PROVE SteadyTransfer'
<1> SUFFICES ASSUME steady >= 1 PROVE During'
  <2>1. pi' # "idle" /\ steady' = steady
    BY Exchange DEF IInv
  <2>2. QED BY <2>1 DEF SteadyTransfer
<1>0. TypeOK /\ Basics
  BY DEF IInv, Basics
<1>1. /\ pi = "transmit" /\ sent < Size /\ (sent = 0 => CaughtUp) /\ sent' = sent + 1
      /\ pi' \in {"transmit", "check"}
      /\ UNCHANGED <<command, attempt, miso_buffer, prepared, received, delivered, main>>
      /\ UNCHANGED <<safe_mode_flag, steady>>
      /\ spi_buffer_index' = spi_buffer_index + 1
      /\ SPDR' = Outgoing(miso_buffer, spi_buffer_index + 1)
  BY <1>0, Exchange DEF loop
<1>2. PICK out \in BOOLEAN, in \in BOOLEAN :
        /\ answer' = Append(answer, IF in THEN Garbage ELSE SPDR)
        /\ mosi_buffer' = [i \in Position |->
             IF i = spi_buffer_index THEN IF out THEN Garbage ELSE Byte(sent)
             ELSE mosi_buffer[i]]
        /\ \/ ~out /\ ~in /\ disturbed' = disturbed
           \/ sent = 0 /\ disturbed' = disturbed + 1
  BY <1>0, Exchange DEF noise
<1>3. During
  BY <1>1 DEF IInv, SteadyTransfer
<1>4. main = "active" /\ Halfway
  <2>1. CASE main = "wait" /\ sent = 0
    BY <1>1, <2>1 DEF CaughtUp
  <2>2. QED BY <1>1, <1>3, <2>1 DEF During
<1>5. /\ spi_buffer_index = sent /\ SPDR = Outgoing(miso_buffer, sent)
      /\ sent \in Position /\ sent \in Nat /\ miso_buffer \in {"right", "wrong"}
      /\ SPDR = Answered(miso_buffer, sent)
  <2>1. sent \in Position /\ sent \in Nat /\ miso_buffer \in {"right", "wrong"}
    BY <1>0, <1>1 DEF TypeOK, Position
  <2>2. QED BY <1>0, <1>4, <2>1, Bytes DEF Halfway
<1>6. (\A i : Byte(i)' = Byte(i)) /\ (\A b, i : Answered(b, i)' = Answered(b, i))
  BY <1>1 DEF Byte, Answered
<1>7. /\ Len(answer) = sent /\ answer \in Seq(Reading \cup {Garbage})
      /\ \A i \in 1 .. sent : answer'[i] = answer[i]
      /\ answer'[sent + 1] = IF in THEN Garbage ELSE SPDR
  <2>1. Len(answer) = sent /\ answer \in Seq(Reading \cup {Garbage})
    BY <1>0 DEF TypeOK
  <2>2. QED BY <1>2, <2>1
<1>8. ASSUME NEW i \in 1 .. sent
      PROVE  mosi_buffer'[i] = Byte(i) /\ answer'[i + 1] = Answered(miso_buffer, i)
  <2>0. i \in Position /\ i \in Nat /\ i >= 1 /\ i <= sent
    BY <1>5 DEF Position
  <2>1. CASE i = sent
    <3>1. ~out /\ ~in
      BY <1>2, <2>0, <2>1
    <3>2. QED BY <1>2, <1>5, <1>7, <2>0, <2>1, <3>1
  <2>2. CASE i # sent
    <3>1. i \in 1 .. sent - 1 /\ i + 1 \in 1 .. sent
      BY <1>5, <2>0, <2>2
    <3>2. mosi_buffer[i] = Byte(i) /\ answer[i + 1] = Answered(miso_buffer, i)
      BY <1>4, <3>1 DEF Halfway
    <3>3. QED BY <1>2, <1>5, <1>7, <2>0, <2>2, <3>1, <3>2
  <2>3. QED BY <2>1, <2>2
<1>9. /\ mosi_buffer'[0] \in {Byte(0), Garbage}
      /\ answer'[1] \in {Answered(miso_buffer, 0), Garbage}
      /\ \/ /\ mosi_buffer'[0] = Byte(0) /\ answer'[1] = Answered(miso_buffer, 0)
            /\ OnTheWay(attempt, disturbed', miso_buffer)
         \/ disturbed' >= 1 /\ OnTheWay(attempt, disturbed' - 1, miso_buffer)
  <2>1. CASE sent = 0
    <3>1. /\ mosi_buffer'[0] = (IF out THEN Garbage ELSE Byte(0))
          /\ answer'[1] = (IF in THEN Garbage ELSE Answered(miso_buffer, 0))
      BY <1>2, <1>5, <1>7, <2>1
    <3>2. OnTheWay(attempt, disturbed, miso_buffer) /\ disturbed \in Nat
      BY <1>0, <1>4, <2>1 DEF Halfway, TypeOK
    <3>3. CASE ~out /\ ~in /\ disturbed' = disturbed
      BY <3>1, <3>2, <3>3
    <3>4. CASE disturbed' = disturbed + 1
      <4>1. disturbed' >= 1 /\ disturbed' - 1 = disturbed
        BY <3>2, <3>4
      <4>2. QED BY <3>1, <3>2, <4>1
    <3>5. QED BY <1>2, <3>3, <3>4
  <2>2. CASE sent # 0
    <3>1. sent > 0 /\ 1 \in 1 .. sent /\ 0 \in Position /\ spi_buffer_index # 0
      BY <1>5, <2>2, Bytes, <1>0
    <3>2. mosi_buffer'[0] = mosi_buffer[0] /\ answer'[1] = answer[1] /\ disturbed' = disturbed
      BY <1>2, <1>7, <2>2, <3>1
    <3>3. QED BY <1>4, <3>1, <3>2 DEF Halfway
  <2>3. QED BY <2>1, <2>2
<1>10. Halfway'
  <2>1. sent' - 1 = sent /\ sent' > 0
    BY <1>1, <1>5
  <2>2. SPDR' = Outgoing(miso_buffer, sent)'
    BY <1>1, <1>5 DEF Outgoing
  <2>3. spi_buffer_index' = sent'
    BY <1>1, <1>5
  <2>4. OnTheWay(attempt, disturbed', miso_buffer) = OnTheWay(attempt, disturbed, miso_buffer)'
    BY <1>1 DEF OnTheWay
  <2>5. OnTheWay(attempt, disturbed' - 1, miso_buffer) = OnTheWay(attempt, disturbed - 1, miso_buffer)'
    BY <1>1 DEF OnTheWay
  <2>6. QED BY <1>1, <1>6, <1>8, <1>9, <2>1, <2>2, <2>3, <2>4, <2>5 DEF Halfway
<1>11. Delivered' = Delivered
  BY <1>1 DEF Delivered
<1>12. QED BY <1>1, <1>3, <1>4, <1>10, <1>11 DEF During

(* The Raspberry Pi looks at an answer only when the ATmega has validated  *)
(* the frame; it gives up after more frames than one fault needs.          *)
LEMMA SteadyCheck == ASSUME IInv, CheckFrame PROVE SteadyTransfer'
<1> SUFFICES ASSUME steady >= 1 PROVE IF pi' = "idle" THEN Afterwards' ELSE During'
  BY Checking DEF SteadyTransfer
<1>0. TypeOK /\ Basics
  BY DEF IInv, Basics
<1>1. /\ pi = "check" /\ CaughtUp /\ sent' = 0 /\ steady' = steady
      /\ UNCHANGED <<command, SPDR, spi_buffer_index, main, miso_buffer, readings, prepared>>
      /\ UNCHANGED <<received, applied, delivered, disturbed>>
  BY Checking DEF interrupts, loop, noise
<1>2. During /\ sent = Size
  BY <1>0, <1>1 DEF IInv, SteadyTransfer, Basics
<1>3. main = "active" /\ Validated
  <2>1. CASE Halfway
    BY <1>1, <1>2, <2>1 DEF CaughtUp, Halfway, During
  <2>2. QED BY <1>1, <1>2, <2>1 DEF During
<1>4. Delivered' = Delivered
  BY <1>1 DEF Delivered
<1>5. attempt \in Nat /\ disturbed \in Nat
  BY <1>0 DEF TypeOK
<1>6. CASE pi' = "idle"
  <2>1. \/ /\ Acknowledged
           /\ outcome' = [status |-> "successful", readings |-> answer[1].readings]
        \/ /\ ~Acknowledged /\ attempt = Attempts
           /\ outcome' = [status |-> "failed", readings |-> 0]
    BY <1>6, Checking
  <2>2. Succeeded' => Acknowledged /\ outcome'.readings = answer[1].readings
    BY <2>1 DEF Succeeded
  <2>3. Succeeded' => delivered' = command'
    BY <1>1, <1>3, <2>2 DEF Validated
  <2>4. Succeeded' /\ steady' >= 2 => outcome'.readings = command' - 1
    BY <1>1, <1>2, <1>3, <2>2 DEF Validated, During
  <2>5. disturbed' <= 1 => Succeeded'
    <3>1. CASE Acknowledged
      BY <2>1, <3>1 DEF Succeeded
    <3>2. CASE ~Acknowledged
      <4>1. attempt >= 3 /\ OnTheWay(attempt + 1, disturbed, miso_buffer)
        BY <1>3, <2>1, <3>2 DEF Validated
      <4>2. disturbed # 0 /\ disturbed # 1
        BY <1>5, <4>1 DEF OnTheWay
      <4>3. QED BY <1>1, <1>5, <4>2
    <3>3. QED BY <3>1, <3>2
  <2>6. QED
    BY <1>1, <1>2, <1>3, <1>4, <1>6, <2>3, <2>4, <2>5 DEF Afterwards, During, Validated
<1>7. CASE pi' = "transmit"
  <2>1. ~Acknowledged /\ attempt' = attempt + 1 /\ safe_mode_flag' = safe_mode_flag
    BY <1>7, Checking
  <2>2. OnTheWay(attempt, disturbed, miso_buffer)'
    BY <1>1, <1>3, <2>1 DEF Validated, OnTheWay
  <2>3. SPDR' = Outgoing(miso_buffer, sent)' /\ spi_buffer_index' = sent'
    BY <1>1, <1>3 DEF Validated, Outgoing
  <2>4. Halfway'
    BY <1>1, <2>2, <2>3 DEF Halfway
  <2>5. QED BY <1>1, <1>2, <1>3, <1>4, <1>7, <2>1, <2>4 DEF During
<1>8. QED BY <1>6, <1>7, Checking

-----------------------------------------------------------------------------
(* A transfer that the ATmega waited for: the ATmega                       *)

(* In a transfer the loop only goes from waiting to the frame.             *)
LEMMA SteadyWait == ASSUME IInv, Wait PROVE SteadyTransfer'
<1> SUFFICES ASSUME steady >= 1 PROVE IF pi = "idle" THEN Afterwards' ELSE During'
  BY DEF SteadyTransfer, Wait, raspberry
<1>1. /\ main = "wait" /\ (select \/ safe_mode_flag)
      /\ main' = (IF select THEN "active" ELSE "sensors")
      /\ UNCHANGED <<pi, select, command, attempt, sent, answer, outcome>>
      /\ UNCHANGED <<SPDR, spi_buffer_index, mosi_buffer, miso_buffer, readings, prepared>>
      /\ UNCHANGED <<received, applied, delivered, safe_mode_flag, disturbed, steady>>
  BY DEF Wait, raspberry, interrupts, noise
<1>2. (select <=> pi # "idle") /\ SteadyTransfer
  BY DEF IInv, Basics
<1>3. CASE pi = "idle"
  BY <1>1, <1>2, <1>3 DEF SteadyTransfer, Afterwards, Succeeded
<1>4. CASE pi # "idle"
  <2>1. Halfway' = Halfway
    BY <1>1 DEF Halfway, Outgoing, Byte, Answered, OnTheWay
  <2>2. QED BY <1>1, <1>2, <1>4, <2>1 DEF SteadyTransfer, During, Delivered
<1>5. QED BY <1>3, <1>4

(* It leaves the frame when the frame is complete, not before.             *)
LEMMA SteadyActive == ASSUME IInv, Active PROVE SteadyTransfer'
<1> SUFFICES ASSUME steady >= 1 PROVE IF pi = "idle" THEN Afterwards' ELSE During'
  BY DEF SteadyTransfer, Active, raspberry
<1>0. TypeOK /\ SteadyTransfer /\ (select <=> pi # "idle") /\ (pi = "transmit" => sent < Size)
  BY DEF IInv, Basics
<1>1. /\ main = "active"
      /\ \/ spi_buffer_index >= Size /\ main' = "validate"
         \/ spi_buffer_index < Size /\ (safe_mode_flag \/ ~select) /\ main' = "sensors"
      /\ UNCHANGED <<pi, select, command, attempt, sent, answer, outcome>>
      /\ UNCHANGED <<SPDR, spi_buffer_index, mosi_buffer, miso_buffer, readings, prepared>>
      /\ UNCHANGED <<received, applied, delivered, safe_mode_flag, disturbed, steady>>
  BY DEF Active, raspberry, interrupts, noise
<1>2. CASE pi = "idle"
  <2>1. Afterwards /\ main' = "sensors"
    BY <1>0, <1>1, <1>2 DEF SteadyTransfer, Afterwards
  <2>2. received' = Delivered'
    BY <1>1, <2>1 DEF Afterwards, Delivered
  <2>3. Succeeded' = Succeeded
    BY <1>1 DEF Succeeded
  <2>4. QED BY <1>1, <1>2, <2>1, <2>2, <2>3 DEF Afterwards
<1>3. CASE pi # "idle"
  <2>1. During /\ main' = "validate" /\ spi_buffer_index >= Size
    BY <1>0, <1>1, <1>3 DEF SteadyTransfer, During
  <2>2. pi = "check" /\ Halfway
    <3>1. CASE pi = "transmit" /\ Halfway
      BY <1>0, <2>1, <3>1 DEF Halfway, TypeOK
    <3>2. CASE Validated
      BY <2>1, <3>2 DEF Validated
    <3>3. QED BY <1>1, <2>1, <3>1, <3>2 DEF During
  <2>3. Halfway' = Halfway
    BY <1>1 DEF Halfway, Outgoing, Byte, Answered, OnTheWay
  <2>4. QED BY <1>1, <2>1, <2>2, <2>3 DEF During, Delivered
<1>4. QED BY <1>2, <1>3

(* A frame is right if nothing of the command was disturbed; its answer is *)
(* then right, unless the Raspberry Pi has that answer already.            *)
LEMMA SteadyValidate == ASSUME IInv, Validate PROVE SteadyTransfer'
<1> SUFFICES ASSUME steady >= 1 PROVE IF pi = "idle" THEN Afterwards' ELSE During'
  BY DEF SteadyTransfer, Validate, raspberry
<1> DEFINE correct == \E c \in 1 .. Transfers : \A i \in 0 .. Checked - 1 :
                        mosi_buffer[i] = [command |-> c, position |-> i]
<1>0. TypeOK /\ SteadyTransfer /\ (select <=> pi # "idle")
  BY DEF IInv, Basics
<1>1. /\ main = "validate"
      /\ miso_buffer' = (IF correct THEN "right" ELSE miso_buffer)
      /\ received' = (IF correct THEN mosi_buffer[0].command ELSE received)
      /\ delivered' = (IF correct THEN mosi_buffer[0].command ELSE delivered)
      /\ spi_buffer_index' = 0 /\ SPDR' = Outgoing(miso_buffer', 0)
      /\ main' = (IF safe_mode_flag \/ ~select THEN "sensors" ELSE "active")
      /\ UNCHANGED <<pi, select, command, attempt, sent, answer, outcome>>
      /\ UNCHANGED <<mosi_buffer, prepared, safe_mode_flag, disturbed, steady>>
  BY DEF Validate, AnswerFor, NextFrame, raspberry, noise
<1>2. pi # "idle" /\ During
  BY <1>0, <1>1 DEF SteadyTransfer, Afterwards
<1>3. pi = "check" /\ Halfway /\ ~safe_mode_flag /\ main' = "active"
  BY <1>0, <1>1, <1>2 DEF During
<1>4. /\ sent = Size /\ sent > 0 /\ command \in 1 .. Transfers /\ prepared \in Number
      /\ miso_buffer \in {"right", "wrong"} /\ attempt \in Nat /\ disturbed \in Nat
  BY <1>3 DEF IInv, Basics, TypeOK, Number
<1>5. Byte(0) # Garbage /\ Answered(miso_buffer, 0) # Garbage
  BY <1>0, <1>4, Bytes
<1>6. correct <=> mosi_buffer[0] = Byte(0)
  <2>1. ASSUME mosi_buffer[0] = Byte(0) PROVE correct
    <3>1. ASSUME NEW i \in 0 .. Checked - 1 PROVE mosi_buffer[i] = Byte(i)
      <4>1. CASE i = 0
        BY <2>1, <4>1
      <4>2. CASE i # 0
        <5>1. i \in 1 .. sent - 1
          BY <1>4, <4>2
        <5>2. QED BY <1>3, <5>1 DEF Halfway
      <4>3. QED BY <4>1, <4>2
    <3>2. QED BY <1>4, <3>1 DEF Byte
  <2>2. ASSUME mosi_buffer[0] # Byte(0) PROVE ~correct
    <3>1. mosi_buffer[0] = Garbage
      BY <1>3, <1>4, <2>2 DEF Halfway
    <3>2. ASSUME NEW c \in 1 .. Transfers,
                 \A i \in 0 .. Checked - 1 : mosi_buffer[i] = [command |-> c, position |-> i]
          PROVE  FALSE
      <4>1. mosi_buffer[0] = [command |-> c, position |-> 0]
        BY <3>2
      <4>2. Garbage.position = Size /\ mosi_buffer[0].position = 0
        BY <4>1 DEF Garbage
      <4>3. QED BY <3>1, <4>2
    <3>3. QED BY <3>2
  <2>3. QED BY <2>1, <2>2
<1> HIDE DEF correct
<1>7. correct => received' = command /\ delivered' = command /\ miso_buffer' = "right"
  BY <1>1, <1>6 DEF Byte
<1>8. received' = Delivered'
  <2>1. CASE correct
    BY <1>1, <1>7, <2>1 DEF Delivered
  <2>2. CASE ~correct
    BY <1>1, <1>2, <2>2 DEF During, Delivered
  <2>3. QED BY <2>1, <2>2
<1>9. miso_buffer' = "right" => delivered' = command'
  BY <1>1, <1>2, <1>7 DEF During
<1>10. Acknowledged => miso_buffer = "right" /\ answer[1].readings = prepared
  <2>1. SUFFICES ASSUME Acknowledged PROVE answer[1] = Answered(miso_buffer, 0) /\ answer[1].buffer = "right"
    BY DEF Answered
  <2>2. PICK n \in Number : \A i \in 1 .. Size :
          answer[i] = [buffer |-> "right", readings |-> n, position |-> i - 1]
    BY <2>1 DEF Acknowledged, IsPacket
  <2>3. answer[1] = [buffer |-> "right", readings |-> n, position |-> 1 - 1]
    BY <2>2
  <2>4. answer[1].position = 0 /\ answer[1].buffer = "right" /\ Garbage.position = Size
    BY <2>3 DEF Garbage
  <2>5. QED BY <1>3, <1>4, <2>4 DEF Halfway
<1>11. Acknowledged \/ OnTheWay(attempt + 1, disturbed, miso_buffer')
  <2>1. CASE /\ mosi_buffer[0] = Byte(0) /\ answer[1] = Answered(miso_buffer, 0)
             /\ OnTheWay(attempt, disturbed, miso_buffer)
    <3>1. miso_buffer' = "right"
      BY <1>6, <1>7, <2>1
    <3>2. CASE miso_buffer = "right"
      <4>1. ASSUME NEW i \in 1 .. Size PROVE answer[i] = Answered("right", i - 1)
        <5>1. CASE i = 1
          BY <2>1, <3>2, <5>1
        <5>2. CASE i # 1
          <6>1. i - 1 \in 1 .. sent - 1 /\ (i - 1) + 1 = i
            BY <1>4, <5>2
          <6>2. answer[(i - 1) + 1] = Answered(miso_buffer, i - 1)
            BY <1>3, <6>1 DEF Halfway
          <6>3. QED BY <3>2, <6>1, <6>2
        <5>3. QED BY <5>1, <5>2
      <4>2. QED BY <1>4, <4>1 DEF Acknowledged, IsPacket, Answered
    <3>3. CASE miso_buffer = "wrong"
      BY <1>4, <2>1, <3>1, <3>3 DEF OnTheWay
    <3>4. QED BY <1>4, <3>2, <3>3
  <2>2. CASE disturbed >= 1 /\ OnTheWay(attempt, disturbed - 1, miso_buffer)
    <3>1. miso_buffer = "right" => miso_buffer' = "right"
      BY <1>1
    <3>2. QED BY <1>4, <2>2, <3>1 DEF OnTheWay
  <2>3. QED BY <1>3, <1>4, <2>1, <2>2 DEF Halfway
<1>12. Validated'
  <2>1. Acknowledged' = Acknowledged
    BY <1>1 DEF Acknowledged, IsPacket
  <2>2. SPDR' = Outgoing(miso_buffer, 0)'
    BY <1>1 DEF Outgoing
  <2>3. Acknowledged => delivered' = command'
    BY <1>1, <1>2, <1>7, <1>10 DEF During
  <2>4. OnTheWay(attempt + 1, disturbed, miso_buffer') = OnTheWay(attempt + 1, disturbed, miso_buffer)'
    BY <1>1 DEF OnTheWay
  <2>5. QED BY <1>1, <1>10, <1>11, <2>1, <2>2, <2>3, <2>4 DEF Validated
<1>13. QED BY <1>1, <1>2, <1>3, <1>8, <1>9, <1>12 DEF During

(* The rest of the loop runs between two such transfers; it ends with the  *)
(* readings prepared and the command applied.                              *)
LEMMA SteadyLoop ==
  ASSUME IInv, Top \/ Fill \/ Begin \/ ReadSensors \/ Apply
  PROVE  SteadyTransfer'
<1>1. /\ UNCHANGED <<pi, command, outcome, disturbed, steady, delivered, safe_mode_flag>>
      /\ main \in {"top", "fill", "begin", "sensors", "apply"}
  BY DEF Top, Fill, Begin, ReadSensors, Apply, raspberry, noise
<1> SUFFICES ASSUME steady >= 1, pi = "idle" PROVE Afterwards'
  <2>1. ~During
    BY <1>1 DEF During
  <2>2. QED BY <1>1, <2>1 DEF IInv, SteadyTransfer
<1>2. Afterwards
  BY DEF IInv, SteadyTransfer
<1>3. Succeeded' = Succeeded /\ Delivered' = Delivered
  BY <1>1 DEF Succeeded, Delivered
<1>4. CASE Top
  BY <1>1, <1>2, <1>3, <1>4 DEF Top, Afterwards
<1>5. CASE Fill
  BY <1>1, <1>2, <1>3, <1>5 DEF Fill, Afterwards
<1>6. CASE Begin
  BY <1>1, <1>2, <1>3, <1>6 DEF Begin, Afterwards
<1>7. CASE ReadSensors
  BY <1>1, <1>2, <1>3, <1>7 DEF ReadSensors, Afterwards
<1>8. CASE Apply
  BY <1>1, <1>2, <1>3, <1>8 DEF Apply, Afterwards
<1>9. QED BY <1>4, <1>5, <1>6, <1>7, <1>8

(* The watchdog ends a series of transfers that were waited for, except    *)
(* between two of them.                                                    *)
LEMMA SteadyWatchdog == ASSUME IInv, WatchdogInterrupt PROVE SteadyTransfer'
<1>1. /\ UNCHANGED <<pi, command, outcome, disturbed, spi_buffer_index>>
      /\ UNCHANGED <<main, readings, prepared, received, applied, delivered>>
      /\ safe_mode_flag' = TRUE /\ steady' = IF pi = "idle" THEN steady ELSE 0
  BY DEF WatchdogInterrupt, raspberry, interrupts, loop, noise
<1> SUFFICES ASSUME steady' >= 1 PROVE pi = "idle" /\ Afterwards'
  BY <1>1 DEF SteadyTransfer
<1>2. pi = "idle" /\ steady' = steady
  BY <1>1
<1>3. QED BY <1>1, <1>2 DEF IInv, SteadyTransfer, Afterwards, Succeeded, Delivered

-----------------------------------------------------------------------------
(* The link                                                                *)

LEMMA Inductive == IInv /\ [Next]_vars => IInv'
<1> SUFFICES ASSUME IInv, [Next]_vars PROVE SteadyTransfer'
  BY BasicsStep DEF IInv
<1>1. CASE UNCHANGED vars
  <2>1. SteadyTransfer' = SteadyTransfer
    BY <1>1 DEF vars, raspberry, interrupts, loop, noise, SteadyTransfer, Afterwards, During,
                Succeeded, Delivered, Validated, Halfway, Acknowledged, IsPacket, OnTheWay,
                Outgoing, Byte, Answered
  <2>2. QED BY <2>1 DEF IInv
<1>2. QED
  BY <1>1, SteadyBegin, SteadyByte, SteadyCheck, SteadyWait, SteadyActive, SteadyValidate,
     SteadyLoop, SteadyWatchdog
  DEF Next, RaspberryStep, LoopStep

(* The invariant implies the properties of the link.                       *)
LEMMA Safe == IInv => LinkSafe
<1> SUFFICES ASSUME IInv PROVE LinkSafe
  OBVIOUS
<1>0. TypeOK /\ Basics /\ SteadyTransfer
  BY DEF IInv, Basics
<1>1. SteadyAckMeansReceived
  <2>1. Succeeded => pi = "idle"
    BY <1>0 DEF Basics, Succeeded
  <2>2. steady >= 2 => steady >= 1
    BY <1>0 DEF TypeOK, Number
  <2>3. QED BY <1>0, <2>1, <2>2 DEF SteadyAckMeansReceived, SteadyTransfer, Afterwards
<1>2. IndexInBuffer
  BY <1>0 DEF IndexInBuffer, SteadyTransfer, During, Halfway, Validated, TypeOK
<1>3. OneFaultIsRepaired
  BY <1>0 DEF OneFaultIsRepaired, SteadyTransfer, Afterwards
<1>4. MotorFollows
  BY <1>0 DEF MotorFollows, SteadyTransfer, Afterwards, Delivered
<1>5. QED BY <1>0, <1>1, <1>2, <1>3, <1>4 DEF LinkSafe

(* However long the frames are and however often they are disturbed: an    *)
(* acknowledged command is one that the ATmega received, with readings     *)
(* taken before it, a single disturbed frame is repaired by the others, no *)
(* interrupt writes behind the buffer, and the motor does what was         *)
(* received, in every transfer that the ATmega waited for (spi_transfer,   *)
(* spi_exchange).                                                          *)
THEOREM LinkCorrect == Spec => []LinkSafe
<1>1. Init => IInv
  BY BasicsInit DEF IInv, SteadyTransfer, Init
<1>2. QED BY <1>1, Inductive, Safe, PTL DEF Spec

=============================================================================

--------------------------- MODULE DetectVehicles ---------------------------
(***************************************************************************)
(* DetectVehicles.cpp of the indoor positioning system: three lights at    *)
(* the right distances, and maybe a fourth in their middle, are a          *)
(* candidate for a vehicle, and of candidates that share a light some are  *)
(* dropped.  The geometry is left out: which candidates share a light is   *)
(* an input.                                                               *)
(***************************************************************************)
EXTENDS Naturals

CONSTANT N   (* vehicle_candidates.size() *)

Candidate == 1 .. N

VARIABLES
  shared,              (* the pairs of candidates that share a light       *)
  mat_conflicts,       (* <<m, n>>: m still has the conflict with n        *)
  resolved, vehicles,  (* sets of candidates                               *)
  m,                   (* the candidate of the loop; N + 1: after the loop *)
  is_conflict_solvable

vars == <<shared, mat_conflicts, resolved, vehicles, m, is_conflict_solvable>>

TypeOK ==
  /\ shared \in SUBSET (Candidate \X Candidate) /\ mat_conflicts \subseteq shared
  /\ resolved \subseteq Candidate /\ vehicles \subseteq resolved
  /\ m \in 1 .. N + 1 /\ is_conflict_solvable \in BOOLEAN

Symmetric(R) == \A c \in Candidate, d \in Candidate : <<c, d>> \in R => c # d /\ <<d, c>> \in R

(* determine_conflicts                                                     *)
Sharing ==
  {pairs \union {<<pair[2], pair[1]>> : pair \in pairs} :
     pairs \in SUBSET {pair \in Candidate \X Candidate : pair[1] < pair[2]}}

(* Without a conflict, and with one candidate, all of them are vehicles.   *)
Init ==
  /\ shared \in Sharing
  /\ mat_conflicts = shared
  /\ resolved = {} /\ vehicles = {}
  /\ m = 1 /\ is_conflict_solvable = FALSE

-----------------------------------------------------------------------------
(* resolve_conflicts                                                       *)

Conflicts(c) == {d \in Candidate : <<c, d>> \in mat_conflicts}

(* Neither of the two is a conflict for anybody any more.                  *)
Cleared(c, d) == {pair \in mat_conflicts : pair[2] \notin {c, d}}

Continue == m <= N /\ m' = m + 1 /\ UNCHANGED shared

AcceptFree ==
  /\ Continue /\ m \notin resolved /\ Conflicts(m) = {}
  /\ resolved' = resolved \union {m} /\ vehicles' = vehicles \union {m}
  /\ UNCHANGED <<mat_conflicts, is_conflict_solvable>>

(* Mutant: the other candidate stays.                                      *)
ResolveOne(c) == resolved \union {m}
(* Mutant: the others are not looked at again.                             *)
AsBefore == is_conflict_solvable

HasMore(c) == Conflicts(c) \ {m} # {}
Resolve(c) == resolved \union {m, c}
Solvable == TRUE

(* Of two candidates the one with the single conflict is the vehicle.      *)
AcceptBetter ==
  /\ Continue /\ m \notin resolved
  /\ \E c \in Candidate :
       /\ Conflicts(m) = {c} /\ HasMore(c)
       /\ resolved' = Resolve(c) /\ mat_conflicts' = Cleared(m, c)
  /\ vehicles' = vehicles \union {m}
  /\ is_conflict_solvable' = Solvable

Pass ==
  /\ Continue
  /\ \/ m \in resolved
     \/ \E c \in Conflicts(m) : Conflicts(m) # {c} \/ ~HasMore(c)
  /\ UNCHANGED <<mat_conflicts, resolved, vehicles, is_conflict_solvable>>

Again ==
  /\ m = N + 1 /\ is_conflict_solvable
  /\ m' = 1 /\ is_conflict_solvable' = FALSE
  /\ UNCHANGED <<shared, mat_conflicts, resolved, vehicles>>

Next == AcceptFree \/ AcceptBetter \/ Pass \/ Again

Spec == Init /\ [][Next]_vars

-----------------------------------------------------------------------------
(* No light belongs to two vehicles ("filter candidates so that every      *)
(* point is uniquely assigned to one vehicle").                            *)
LightsUnique == \A c \in vehicles, d \in vehicles : <<c, d>> \notin shared

(* Who is dropped shares a light with a vehicle.                           *)
DroppedForVehicle ==
  \A c \in resolved \ vehicles : \E d \in vehicles : <<c, d>> \in shared

(* At the end nobody is left who could be a vehicle: whoever is neither    *)
(* accepted nor dropped is in conflict with another such candidate.        *)
OnlyUnsolvableLeft ==
  (m = N + 1 /\ ~is_conflict_solvable) =>
     \A c \in Candidate \ resolved : \E d \in Candidate \ resolved : <<c, d>> \in shared

(* Whoever shares a light with a vehicle has been looked at.               *)
NeighboursResolved ==
  \A c \in vehicles, d \in Candidate : <<c, d>> \in shared => d \in resolved

(* Only conflicts with somebody resolved are forgotten.                    *)
ForgottenResolved == \A pair \in shared \ mat_conflicts : pair[2] \in resolved

(* Nobody has a conflict with somebody dropped.                            *)
DroppedForgotten == \A pair \in mat_conflicts : pair[2] \notin resolved \ vehicles

(* What OnlyUnsolvableLeft says, of the candidates before m.               *)
UnsolvableBehind ==
  ~is_conflict_solvable =>
     \A c \in Candidate \ resolved :
       c < m => \E d \in Candidate \ resolved : <<c, d>> \in shared

IInv ==
  /\ TypeOK /\ Symmetric(shared)
  /\ ForgottenResolved /\ NeighboursResolved /\ DroppedForgotten
  /\ LightsUnique /\ DroppedForVehicle /\ UnsolvableBehind
=============================================================================

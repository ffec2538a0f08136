---------------------------- MODULE LogicalTime ----------------------------
(***************************************************************************)
(* What the simulated time of the CPM Lab promises to the programs that    *)
(* run under it (cpm_lib/dds_idl/SystemTrigger.idl, ReadyStatus.idl): one  *)
(* logical clock, which moves from one requested instant to the next and   *)
(* never past an instant that a member of the experiment still has to      *)
(* compute.  There is no network here and no thread of the Lab Control     *)
(* Center: SimulatedTime implements this specification.                    *)
(***************************************************************************)
EXTENDS Naturals

CONSTANTS
  Participant,  (* programs whose periodic callback is driven by the clock *)
  Offset,       (* first instant of each of them                           *)
  Period        (* distance between two of its instants                    *)

VARIABLES
  now,      (* the logical clock                                           *)
  member,   (* participants the clock waits for                            *)
  due,      (* the instant each participant computes now or next           *)
  busy      (* participants inside their callback                          *)

vars == <<now, member, due, busy>>

Init ==
  /\ now = 0
  /\ member = {}
  /\ due = Offset
  /\ busy = {}

(* Some participants are heard of for the first time.                      *)
Join(joining) ==
  /\ member' = member \cup joining
  /\ UNCHANGED <<now, due, busy>>

(* The clock moves on to the earliest instant a member asks for.  No       *)
(* member may be computing, and none may be left behind.                   *)
Tick(instant) ==
  /\ instant > now
  /\ \A p \in member : instant <= due[p] /\ p \notin busy
  /\ \E p \in member : instant = due[p]
  /\ now' = instant
  /\ UNCHANGED <<member, due, busy>>

(* A participant computes an instant the clock has reached.                *)
Begin(p) ==
  /\ p \notin busy
  /\ due[p] <= now
  /\ busy' = busy \cup {p}
  /\ UNCHANGED <<now, member, due>>

(* It has computed it, and asks for the next one.                          *)
End(p) ==
  /\ p \in busy
  /\ busy' = busy \ {p}
  /\ due' = [due EXCEPT ![p] = @ + Period[p]]
  /\ UNCHANGED <<now, member>>

(* It dies while it computes; the clock goes on waiting for it.             *)
Abandon(p) ==
  /\ p \in busy
  /\ busy' = busy \ {p}
  /\ UNCHANGED <<now, member, due>>

Next ==
  \/ \E joining \in SUBSET Participant : Join(joining)
  \/ \E p \in member : Tick(due[p])
  \/ \E p \in Participant : Begin(p) \/ End(p) \/ Abandon(p)

Spec == Init /\ [][Next]_vars

=============================================================================

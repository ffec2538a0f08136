----------------------------- MODULE Parameters -----------------------------
(***************************************************************************)
(* One parameter of the experiment: the ParameterStorage and the           *)
(* ParameterServer of the LCC, and the ParameterReceiver of each program.  *)
(* Three threads of the LCC publish parameters, each with its own reads of *)
(* the storage: the GTK thread after a change, the reader of requests, and *)
(* the thread that publishes everything five seconds after the start.      *)
(* Parameters are independent of each other (their names are keys of the   *)
(* topics); a value is the number of the change that made it.  The topics  *)
(* are reliable, but only for those whom discovery has matched.            *)
(***************************************************************************)
EXTENDS Naturals, Sequences

CONSTANTS
  TypeOrder,   (* the types, as handleSingleParamRequest tries them        *)
  Program,     (* programs that ask for the parameter                      *)
  Wanted,      (* the type each of them asks for                           *)
  Changes      (* bound: changes by the user                               *)

Type == {TypeOrder[i] : i \in DOMAIN TypeOrder}
Thread == {"gtk", "request", "init"}

VARIABLES
  storage,     (* entry of param_storage: a set of at most one parameter   *)
  version,     (* history: changes so far                                  *)
  handler,     (* each thread in handleSingleParamRequest                  *)
  delayed,     (* delayed_init_param_thread still sleeps                   *)
  matched,     (* programs that discovery has matched                      *)
  requested,   (* a request is on its way                                  *)
  samples,     (* parameters on their way to each program                  *)
  cache,       (* param_bool etc. of each program; 0: no entry             *)
  got,         (* what parameter_bool etc. returned; 0: still waiting      *)
  overlap      (* history: programs for whom a change came while another   *)
               (* thread published                                         *)

vars == <<storage, version, handler, delayed, matched, requested, samples, cache, got, overlap>>

Parameter == [type : Type, value : 1 .. Changes]
Idle == [pc |-> "idle"]
Look(i) == [pc |-> "look", at |-> i]

TypeOK ==
  /\ storage \in {{}} \cup {{p} : p \in Parameter}
  /\ version \in 0 .. Changes
  /\ handler \in [Thread -> {Idle} \cup {Look(i) : i \in DOMAIN TypeOrder}
                                   \cup [pc : {"write"}, param : Parameter]]
  /\ delayed \in BOOLEAN /\ requested \in BOOLEAN /\ overlap \in BOOLEAN
  /\ matched \subseteq Program
  /\ \A p \in Program : \A i \in DOMAIN samples[p] : samples[p][i] \in Parameter
  /\ cache \in [Program -> [Type -> 0 .. Changes]]
  /\ got \in [Program -> 0 .. Changes]

(* The LCC has loaded a file without the parameter.                        *)
Init ==
  /\ storage = {} /\ version = 0
  /\ handler = [t \in Thread |-> Idle]
  /\ delayed = TRUE /\ requested = FALSE
  /\ matched = {} /\ samples = [p \in Program |-> <<>>]
  /\ cache = [p \in Program |-> [type \in Type |-> 0]]
  /\ got = [p \in Program |-> 0]
  /\ overlap = FALSE

-----------------------------------------------------------------------------
(* The LCC                                                                 *)

Publishing == \E t \in {"request", "init"} : handler[t] # Idle

StoreSilently(type) ==
  /\ storage' = {[type |-> type, value |-> version + 1]}
  /\ version' = version + 1
  /\ overlap' = (overlap \/ Publishing)
  /\ UNCHANGED <<handler, delayed, matched, requested, samples, cache, got>>

(* set_parameter: an entry, then on_param_changed_callback.                *)
StoreValue(type) ==
  /\ storage' = {[type |-> type, value |-> version + 1]}
  /\ version' = version + 1
  /\ handler' = [handler EXCEPT !["gtk"] = Look(1)]
  /\ overlap' = (overlap \/ Publishing)
  /\ UNCHANGED <<delayed, matched, requested, samples, cache, got>>

SetParameter(type) ==
  /\ handler["gtk"] = Idle /\ version < Changes
  /\ StoreValue(type)

(* delete_parameter, or the clearing of the storage at the start of        *)
(* loadFile, which then sets the parameters of the file.                   *)
DeleteParameter ==
  /\ handler["gtk"] = Idle /\ storage # {}
  /\ storage' = {}
  /\ overlap' = (overlap \/ Publishing)
  /\ UNCHANGED <<version, handler, delayed, matched, requested, samples, cache, got>>

(* handleParamRequest.                                                     *)
TakeRequest ==
  /\ handler["request"] = Idle /\ requested
  /\ requested' = FALSE
  /\ handler' = [handler EXCEPT !["request"] = Look(1)]
  /\ UNCHANGED <<storage, version, delayed, matched, samples, cache, got, overlap>>

(* resend_all_params, once: of the parameters that are there now.          *)
ResendAll ==
  /\ delayed /\ delayed' = FALSE
  /\ handler' = IF storage = {} THEN handler ELSE [handler EXCEPT !["init"] = Look(1)]
  /\ UNCHANGED <<storage, version, matched, requested, samples, cache, got, overlap>>

ForgetLastType(t) ==
  /\ handler[t].pc = "look"
  /\ LET i == handler[t].at
         found == {p \in storage : p.type = TypeOrder[i] /\ i < Len(TypeOrder)}
     IN handler' = [handler EXCEPT ![t] =
          CASE found # {} -> [pc |-> "write", param |-> CHOOSE p \in found : TRUE]
            [] found = {} /\ i < Len(TypeOrder) -> Look(i + 1)
            [] OTHER -> Idle]
  /\ UNCHANGED <<storage, version, delayed, matched, requested, samples, cache, got, overlap>>

(* get_parameter_bool, get_parameter_uint64_t, ...: the value if the type  *)
(* of the entry is the one that is looked for, each under the mutex.       *)
TryType(t) ==
  /\ handler[t].pc = "look"
  /\ LET i == handler[t].at
         found == {p \in storage : p.type = TypeOrder[i]}
     IN handler' = [handler EXCEPT ![t] =
          CASE found # {} -> [pc |-> "write", param |-> CHOOSE p \in found : TRUE]
            [] found = {} /\ i < Len(TypeOrder) -> Look(i + 1)
            [] OTHER -> Idle]
  /\ UNCHANGED <<storage, version, delayed, matched, requested, samples, cache, got, overlap>>

(* The same sample twice in a row is received like one.                    *)
Put(queue, param) ==
  IF queue # <<>> /\ queue[Len(queue)] = param THEN queue ELSE Append(queue, param)

(* writer.write, to everybody who is matched.                              *)
WriteParameter(t) ==
  /\ handler[t].pc = "write"
  /\ samples' = [p \in Program |-> IF p \in matched
                   THEN Put(samples[p], handler[t].param) ELSE samples[p]]
  /\ handler' = [handler EXCEPT ![t] = Idle]
  /\ UNCHANGED <<storage, version, delayed, matched, requested, cache, got, overlap>>

ServerStep(t) == TryType(t) \/ WriteParameter(t)

-----------------------------------------------------------------------------
(* A program                                                               *)

(* The loop of parameter_bool etc.: without an entry it sends a request,   *)
(* waits and looks again; ...                                              *)
RequestParam(p) ==
  /\ got[p] = 0 /\ cache[p][Wanted[p]] = 0
  /\ requested' = (requested \/ p \in matched)
  /\ UNCHANGED <<storage, version, handler, delayed, matched, samples, cache, got, overlap>>

(* ... with one it returns.                                                *)
Return(p) ==
  /\ got[p] = 0 /\ cache[p][Wanted[p]] # 0
  /\ got' = [got EXCEPT ![p] = cache[p][Wanted[p]]]
  /\ UNCHANGED <<storage, version, handler, delayed, matched, requested, samples, cache, overlap>>

(* callback: the entry of the parameter's type; others stay.               *)
Receive(p) ==
  /\ samples[p] # <<>>
  /\ cache' = [cache EXCEPT ![p][Head(samples[p]).type] = Head(samples[p]).value]
  /\ samples' = [samples EXCEPT ![p] = Tail(@)]
  /\ UNCHANGED <<storage, version, handler, delayed, matched, requested, got, overlap>>

(* DDS finds the readers and writers of a program.                         *)
Match(p) ==
  /\ p \notin matched
  /\ matched' = matched \cup {p}
  /\ UNCHANGED <<storage, version, handler, delayed, requested, samples, cache, got, overlap>>

(* The writer keeps one sample of each key: a newer one may replace those  *)
(* that are still on their way.                                            *)
Replace(p) ==
  /\ Len(samples[p]) > 1
  /\ samples' = [samples EXCEPT ![p] = Tail(@)]
  /\ UNCHANGED <<storage, version, handler, delayed, matched, requested, cache, got, overlap>>

Next ==
  \/ \E type \in Type : SetParameter(type)
  \/ DeleteParameter \/ TakeRequest \/ ResendAll
  \/ \E t \in Thread : ServerStep(t)
  \/ \E p \in Program : RequestParam(p) \/ Return(p) \/ Receive(p) \/ Match(p) \/ Replace(p)

Spec == Init /\ [][Next]_vars

(* Threads are scheduled, discovery and delivery succeed at last.  Nobody  *)
(* has to change anything.                                                 *)
Fairness ==
  /\ WF_vars(TakeRequest) /\ WF_vars(ResendAll)
  /\ \A t \in Thread : WF_vars(ServerStep(t))
  /\ \A p \in Program :
       WF_vars(RequestParam(p)) /\ WF_vars(Return(p)) /\ WF_vars(Receive(p)) /\ WF_vars(Match(p))

FairSpec == Spec /\ Fairness

-----------------------------------------------------------------------------
(* PROPERTIES                                                              *)

Quiet == \A t \in Thread : handler[t] = Idle

(* resend_param_callback is called "whenever a parameter value was changed *)
(* by the user, to allow updates of the parameter value within the network" *)
(* (ParameterServer.hpp): once everything is published and delivered, each *)
(* program that has the parameter has its current value.  Not so if a      *)
(* change came while another thread published: that one may have read the  *)
(* old value and write it last.                                            *)
UpToDate ==
  Quiet /\ ~overlap => \A p \in Program, param \in storage :
    samples[p] = <<>> /\ cache[p][param.type] # 0 => cache[p][param.type] = param.value

(* Nobody has to know when the LCC, discovery or the user is ready: a      *)
(* program gets a parameter that stays in the storage with its type.       *)
EverybodyGetsIt ==
  \A p \in Program :
    <>[](\E param \in storage : param.type = Wanted[p]) => <>(got[p] # 0)

=============================================================================

---------------------------- MODULE CrashChecker ----------------------------
(***************************************************************************)
(* The thread of the LCC that looks for crashed programs while a           *)
(* simulation is deployed (CrashChecker.cpp), the GTK thread that starts   *)
(* it, stops it and shows what it found, and the HLCReadyAggregator, from  *)
(* which it knows the programs on the NUCs.  Programs on this machine are  *)
(* looked up in the list of tmux sessions.  Times are abstracted to what   *)
(* has passed: the waiting time after an upload, the life of a hello.      *)
(***************************************************************************)
EXTENDS Naturals

CONSTANTS
  Local,       (* programs that check_for_crashes expects on this machine  *)
  Remote,      (* NUCs in remote_hlc_ids; the two programs on one count as one *)
  Deployments, (* bound: deployments                                       *)
  Failures     (* bound: crashes                                           *)

Program == Local \cup Remote

VARIABLES
  gtk,                       (* "free", or in stop_checking: "join"        *)
  checker,                   (* where the thread is; "none": joined        *)
  crash_check_running,
  found,                     (* crashed_participants of this round         *)
  newly_crashed_participants, already_crashed_participants,
  dispatches,                (* emitted by ui_dispatcher, not yet handled  *)
  running_remote_hlcs, crashed_remote_hlcs,
  waited,                    (* remote_waiting_time has passed since the   *)
                             (* last check that found the upload unfinished *)
  upload_done,               (* Upload::upload_finished()                  *)
  up,                        (* the programs that really run               *)
  hlc_map,                   (* NUCs whose last hello is fresh and reports *)
                             (* that the programs run                      *)
  deployed, deployments,
  failed, shown, late        (* history: programs that failed, programs in *)
                             (* a dialog, and that a round was over before *)
                             (* the dispatch of the one before             *)

lists == <<newly_crashed_participants, already_crashed_participants, dispatches>>
remotes == <<running_remote_hlcs, crashed_remote_hlcs, waited>>
world == <<upload_done, up, hlc_map, failed>>
session == <<deployed, deployments, gtk, crash_check_running>>
vars == <<checker, found, lists, remotes, world, session, shown, late>>

TypeOK ==
  /\ gtk \in {"free", "join"}
  /\ checker \in {"none", "sleep", "test", "local", "remote", "reintegrate", "update", "ended"}
  /\ crash_check_running \in BOOLEAN
  /\ found \subseteq Program
  /\ newly_crashed_participants \subseteq Program
  /\ already_crashed_participants \subseteq Program
  /\ dispatches \in Nat
  /\ running_remote_hlcs \subseteq Remote /\ crashed_remote_hlcs \subseteq Remote
  /\ waited \in BOOLEAN /\ upload_done \in BOOLEAN /\ late \in BOOLEAN
  /\ up \subseteq Program /\ hlc_map \subseteq Remote
  /\ deployed \in BOOLEAN /\ deployments \in 0 .. Deployments
  /\ failed \in [Program -> 0 .. Failures] /\ shown \subseteq Program

Init ==
  /\ gtk = "free" /\ checker = "none" /\ crash_check_running = FALSE
  /\ found = {}
  /\ newly_crashed_participants = {} /\ already_crashed_participants = {}
  /\ dispatches = 0
  /\ running_remote_hlcs = {} /\ crashed_remote_hlcs = {}
  /\ waited = TRUE                       (* upload_success_time = 0 *)
  /\ upload_done = FALSE
  /\ up = {} /\ hlc_map = {}
  /\ deployed = FALSE /\ deployments = 0
  /\ failed = [p \in Program |-> 0] /\ shown = {} /\ late = FALSE

-----------------------------------------------------------------------------
(* The GTK thread                                                          *)

StartAtOnce ==
  /\ gtk = "free" /\ ~deployed /\ deployments < Deployments
  /\ deployed' = TRUE /\ deployments' = deployments + 1
  /\ up' = Program /\ upload_done' = FALSE
  /\ running_remote_hlcs' = Remote /\ crashed_remote_hlcs' = {}
  /\ crash_check_running' = TRUE
  /\ checker' = "sleep" /\ found' = {}
  /\ failed' = [p \in Program |-> 0] /\ shown' = {} /\ late' = FALSE
  /\ UNCHANGED <<gtk, lists, hlc_map, waited>>

(* deploy_applications: the upload begins, and start_checking.  No thread  *)
(* is left that kill_crash_check_thread would have to join: the deploy     *)
(* button is off until the kill button was used, which stops the checks.   *)
StartChecking ==
  /\ gtk = "free" /\ ~deployed /\ deployments < Deployments
  /\ deployed' = TRUE /\ deployments' = deployments + 1
  /\ up' = Program /\ upload_done' = FALSE
  /\ running_remote_hlcs' = Remote /\ crashed_remote_hlcs' = {}
  /\ waited' = FALSE
  /\ crash_check_running' = TRUE
  /\ checker' = "sleep" /\ found' = {}
  /\ failed' = [p \in Program |-> 0] /\ shown' = {} /\ late' = FALSE
  /\ UNCHANGED <<gtk, lists, hlc_map>>

(* stop_checking, by the kill button or the buttons of the timer tab:      *)
(* first kill_crash_check_thread, which joins ...                          *)
StopChecking ==
  /\ gtk = "free" /\ deployed
  /\ crash_check_running' = FALSE
  /\ gtk' = "join"
  /\ UNCHANGED <<checker, found, lists, remotes, world, deployed, deployments, shown, late>>

KeepLists ==
  /\ gtk = "join" /\ checker \in {"none", "ended"}
  /\ gtk' = "free" /\ checker' = "none"
  /\ running_remote_hlcs' = {} /\ crashed_remote_hlcs' = {}
  /\ waited' = TRUE
  /\ UNCHANGED <<found, lists, world, deployed, deployments, crash_check_running, shown, late>>

(* ... then the lists are cleared.                                         *)
Joined ==
  /\ gtk = "join" /\ checker \in {"none", "ended"}
  /\ gtk' = "free" /\ checker' = "none"
  /\ running_remote_hlcs' = {} /\ crashed_remote_hlcs' = {}
  /\ newly_crashed_participants' = {} /\ already_crashed_participants' = {}
  /\ waited' = TRUE
  /\ UNCHANGED <<found, dispatches, world, deployed, deployments, crash_check_running, shown, late>>

(* The rest of kill_deployed_applications ends the programs.               *)
KillPrograms ==
  /\ gtk = "free" /\ deployed /\ ~crash_check_running
  /\ deployed' = FALSE
  /\ up' = {}
  /\ UNCHANGED <<gtk, checker, crash_check_running, found, lists, remotes, upload_done,
                 hlc_map, failed, deployments, shown, late>>

(* ui_dispatch: a dialog with the new crashes, which then are old ones.    *)
UiDispatch ==
  /\ gtk = "free" /\ dispatches > 0
  /\ dispatches' = dispatches - 1
  /\ shown' = shown \cup newly_crashed_participants
  /\ already_crashed_participants' = already_crashed_participants \cup newly_crashed_participants
  /\ newly_crashed_participants' = {}
  /\ UNCHANGED <<checker, found, remotes, world, session, late>>

-----------------------------------------------------------------------------
(* The thread                                                              *)

(* The first second, or the 100 ms after a round.                          *)
WakeUp ==
  /\ checker = "sleep" /\ checker' = "test"
  /\ UNCHANGED <<found, lists, remotes, world, session, shown, late>>

TestForever ==
  /\ checker = "test" /\ checker' = "local"
  /\ UNCHANGED <<found, lists, remotes, world, session, shown, late>>

TestRunning ==
  /\ checker = "test"
  /\ checker' = IF crash_check_running THEN "local" ELSE "ended"
  /\ UNCHANGED <<found, lists, remotes, world, session, shown, late>>

(* Deploy::check_for_crashes, which waits for the program executor.        *)
CheckLocal ==
  /\ checker = "local"
  /\ found' = Local \ up
  /\ checker' = "remote"
  /\ UNCHANGED <<lists, remotes, world, session, shown, late>>

CopyCrashed ==
  /\ checker = "remote"
  /\ IF upload_done /\ waited
     THEN /\ found' = found \cup (running_remote_hlcs \ hlc_map)
          /\ crashed_remote_hlcs' = crashed_remote_hlcs \cup (running_remote_hlcs \ hlc_map)
          /\ checker' = "reintegrate"
          /\ UNCHANGED <<running_remote_hlcs, waited>>
     ELSE /\ waited' = (waited /\ upload_done)
          /\ checker' = "update"
          /\ UNCHANGED <<found, running_remote_hlcs, crashed_remote_hlcs>>
  /\ UNCHANGED <<lists, world, session, shown, late>>

(* check_for_remote_crashes, up to its first loop.  Before the upload is   *)
(* finished and some time afterwards it looks at nothing.                  *)
CheckRemote ==
  /\ checker = "remote"
  /\ IF upload_done /\ waited
     THEN /\ found' = found \cup (running_remote_hlcs \ hlc_map)
          /\ running_remote_hlcs' = running_remote_hlcs \cap hlc_map
          /\ crashed_remote_hlcs' = crashed_remote_hlcs \cup (running_remote_hlcs \ hlc_map)
          /\ checker' = "reintegrate"
          /\ UNCHANGED waited
     ELSE /\ waited' = (waited /\ upload_done)
          /\ checker' = "update"
          /\ UNCHANGED <<found, running_remote_hlcs, crashed_remote_hlcs>>
  /\ UNCHANGED <<lists, world, session, shown, late>>

StayCrashed ==
  /\ checker = "reintegrate" /\ checker' = "update"
  /\ UNCHANGED <<found, remotes, lists, world, session, shown, late>>

(* Its second loop: "Re-integrate an ID if it is detected to be online     *)
(* again".                                                                 *)
Reintegrate ==
  /\ checker = "reintegrate"
  /\ running_remote_hlcs' = running_remote_hlcs \cup (crashed_remote_hlcs \cap hlc_map)
  /\ crashed_remote_hlcs' = crashed_remote_hlcs \ hlc_map
  /\ checker' = "update"
  /\ UNCHANGED <<found, waited, lists, world, session, shown, late>>

SilentUpdate ==
  /\ checker = "update" /\ checker' = "sleep"
  /\ IF found = {}
     THEN UNCHANGED <<lists, late>>
     ELSE LET known == already_crashed_participants \cup newly_crashed_participants
          IN /\ already_crashed_participants' = known
             /\ newly_crashed_participants' = found \ known
             /\ dispatches' = IF known = {} THEN dispatches + 1 ELSE dispatches
             /\ late' = (late \/ (newly_crashed_participants # {} /\ dispatches > 0))
  /\ UNCHANGED <<found, remotes, world, session, shown>>

(* update_crashed_participants.                                            *)
Update ==
  /\ checker = "update" /\ checker' = "sleep"
  /\ IF found = {}
     THEN UNCHANGED <<lists, late>>
     ELSE LET known == already_crashed_participants \cup newly_crashed_participants
          IN /\ already_crashed_participants' = known
             /\ newly_crashed_participants' = found \ known
             /\ dispatches' = IF found \ known # {} THEN dispatches + 1 ELSE dispatches
             /\ late' = (late \/ (newly_crashed_participants # {} /\ dispatches > 0))
  /\ UNCHANGED <<found, remotes, world, session, shown>>

CheckerStep ==
  WakeUp \/ TestRunning \/ CheckLocal \/ CheckRemote \/ Reintegrate \/ Update

-----------------------------------------------------------------------------
(* What happens around them                                                *)

UploadFinishes ==
  /\ deployed /\ ~upload_done
  /\ upload_done' = TRUE
  /\ UNCHANGED <<checker, found, lists, remotes, up, hlc_map, failed, session, shown, late>>

(* remote_waiting_time after the last check that found the upload not yet  *)
(* finished; "messages seem to stutter" up to then, but have arrived now.  *)
WaitingTimePasses ==
  /\ ~waited /\ upload_done
  /\ \A n \in Remote : n \in up /\ failed[n] = 0 => n \in hlc_map
  /\ waited' = TRUE
  /\ UNCHANGED <<checker, found, lists, running_remote_hlcs, crashed_remote_hlcs, world,
                 session, shown, late>>

(* A hello of NUC n, which tells what runs.                                *)
Hello(n) ==
  /\ (n \in up) # (n \in hlc_map)
  /\ hlc_map' = IF n \in up THEN hlc_map \cup {n} ELSE hlc_map \ {n}
  /\ UNCHANGED <<checker, found, lists, remotes, upload_done, up, failed, session, shown, late>>

(* A program ends, or the hellos of a NUC stay away for time_to_live_ns.   *)
Fail(p) ==
  /\ deployed /\ failed[p] < Failures
  /\ failed' = [failed EXCEPT ![p] = @ + 1]
  /\ \/ up' = up \ {p} /\ UNCHANGED hlc_map
     \/ hlc_map' = hlc_map \ {p} /\ p \in Remote /\ UNCHANGED up
  /\ UNCHANGED <<checker, found, lists, remotes, upload_done, session, shown, late>>

(* "Manual re-starts of programs on NUCs are also possible".               *)
Recover(n) ==
  /\ deployed /\ n \in Remote \ up
  /\ up' = up \cup {n}
  /\ UNCHANGED <<checker, found, lists, remotes, upload_done, hlc_map, failed, session, shown, late>>

Next ==
  \/ StartChecking \/ StopChecking \/ Joined \/ KillPrograms \/ UiDispatch
  \/ CheckerStep
  \/ UploadFinishes \/ WaitingTimePasses
  \/ \E n \in Remote : Hello(n) \/ Recover(n)
  \/ \E p \in Program : Fail(p)

Spec == Init /\ [][Next]_vars

(* The threads are scheduled, a check of the sessions returns (see         *)
(* CommandExecution), NUCs go on sending hellos and uploads end.           *)
Fairness ==
  /\ WF_vars(CheckerStep) /\ WF_vars(Joined) /\ WF_vars(UiDispatch)
  /\ WF_vars(UploadFinishes) /\ WF_vars(WaitingTimePasses)
  /\ \A n \in Remote : WF_vars(Hello(n))

FairSpec == Spec /\ Fairness

-----------------------------------------------------------------------------
(* PROPERTIES                                                              *)

(* "Kill crash check first, or else we get undesired error messages"       *)
(* (SetupViewUI.cpp): a dialog, and the lists it is made of, never name a  *)
(* program that did not fail, neither one that was killed on purpose nor a *)
(* NUC that is still uploading.                                            *)
NoFalseAlarm ==
  \A p \in shown \cup newly_crashed_participants \cup already_crashed_participants
              \cup crashed_remote_hlcs : failed[p] > 0

(* "List of participants whose crash has already been reported before"     *)
(* (CrashChecker.hpp): true as long as the GTK thread shows the crashes of *)
(* a round before the next one that finds any.                             *)
AlreadyMeansReported ==
  ~late /\ gtk = "free" => already_crashed_participants \subseteq shown

(* While a deployment is checked every NUC is in exactly one of the lists  *)
(* between which the two loops move it.                                    *)
RemotePartition ==
  crash_check_running =>
    /\ running_remote_hlcs \cup crashed_remote_hlcs = Remote
    /\ running_remote_hlcs \cap crashed_remote_hlcs = {}

(* A local program that stays away gets into a dialog, unless the checks   *)
(* are stopped or the dialog comes too late.                               *)
CrashIsShown ==
  \A p \in Local :
    crash_check_running /\ p \notin up ~> p \in shown \/ late \/ ~crash_check_running

(* check_if_crashed, on which the monitoring tab relies, ends up with what *)
(* is the case, for programs that fail and for programs that come back.    *)
CrashIsNoticed ==
  \A n \in Remote :
    /\ <>[](crash_check_running /\ n \notin up) => <>[](n \in crashed_remote_hlcs)
    /\ <>[](crash_check_running /\ n \in up) => <>[](n \in running_remote_hlcs)

(* stop_checking returns to the user.                                      *)
StopReturns == gtk = "join" ~> gtk = "free"

=============================================================================

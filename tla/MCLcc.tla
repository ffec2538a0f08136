------------------------------- MODULE MCLcc -------------------------------
(***************************************************************************)
(* Parts of the lab control center, one at a time: the variable part       *)
(* selects the one that runs, the others stay as they are.  The uploads,   *)
(* the checks for crashes of two programs and a NUC and the commands of    *)
(* two threads of module Lcc, and the obstacles of two small scenarios.    *)
(***************************************************************************)
EXTENDS Lcc, TLC

CONSTANTS nuc1, nuc2, nuc3, sleeper,
          caller1, caller2, pool1, pool2,
          hlc, ips

VARIABLE part

Files == {1 :> <<0, 1, 2, 3>> @@ 2 :> <<0, 1, 2>>, 2 :> <<0, 1, 2, 3, 4, 5>> @@ 3 :> <<0>>}

uploads == vars
commands == <<lcc, life, current_command_id, calls, caller, request, response, reader, job_queue,
              pool, executed>>
crashes == <<c_gtk, checker, crash_check_running, found, newly_crashed_participants,
             already_crashed_participants, c_dispatches, running_remote_hlcs,
             crashed_remote_hlcs, waited, c_upload_done, up, hlc_map, c_deployed, deployments,
             failed, c_shown, late>>
obstacles == <<scenario, simulation_timer, standby_timer, now, current_trajectory,
               simulated_obstacle_states, toggles, load_obstacle_list, preview_enabled,
               o_deployed, clicks, o_shown, vehicle>>

-----------------------------------------------------------------------------
Alone(p) == part = p /\ part' = p

(* Bound: two commands in all when an LCC is killed and started again.     *)
FewCalls == life' = 1 \/ calls' < 3

MCInit ==
  /\ part \in {"uploads", "commands", "crashes", "obstacles"}
  /\ Init /\ Commands!Init /\ Crashes!Init /\ Obstacles!Init
  /\ part = "obstacles" \/ 1 \in DOMAIN scenario
  /\ part = "uploads" \/ distributed

MCNext ==
  \/ Alone("uploads") /\ Next /\ UNCHANGED <<commands, crashes, obstacles>>
  \/ Alone("commands") /\ Commands!Next /\ FewCalls /\ UNCHANGED <<uploads, crashes, obstacles>>
  \/ Alone("crashes") /\ Crashes!Next /\ UNCHANGED <<uploads, commands, obstacles>>
  \/ Alone("obstacles") /\ Obstacles!Next /\ UNCHANGED <<uploads, commands, crashes>>

mcvars == <<part, uploads, commands, crashes, obstacles>>

(* The fairness of the parts, when they run; uploads that stand still need *)
(* no step.                                                                *)
CommandsRun == Alone("commands")
CrashesRun == Alone("crashes")
MCFairness ==
  /\ Fairness
  /\ WF_commands(CommandsRun /\ \E c \in {caller1, caller2} : Commands!Send(c))
  /\ WF_commands(CommandsRun /\ \E c \in {caller1, caller2} : Commands!ReceiveAnswer(c))
  /\ \A l \in 1 .. 2 :
       /\ WF_commands(CommandsRun /\ Commands!ChildStep(l))
       /\ WF_commands(CommandsRun /\ \E w \in {pool1, pool2} : Commands!WorkerStep(l, w))
       /\ \A w \in {pool1, pool2} :
            WF_commands(CommandsRun /\ ~Commands!Hanging(l, w) /\ Commands!Execute(l, w))
  /\ WF_commands(CommandsRun /\ (Commands!SendExit \/ Commands!Terminate))
  /\ WF_crashes(CrashesRun /\ Crashes!CheckerStep) /\ WF_crashes(CrashesRun /\ Crashes!Joined)
  /\ WF_crashes(CrashesRun /\ Crashes!UiDispatch)
  /\ WF_crashes(CrashesRun /\ Crashes!UploadFinishes)
  /\ WF_crashes(CrashesRun /\ Crashes!WaitingTimePasses)
  /\ WF_crashes(CrashesRun /\ Crashes!Hello(nuc1))

MCSpec == MCInit /\ [][MCNext]_mcvars /\ MCFairness

-----------------------------------------------------------------------------
(* Commands are finally executed, their callers return, the destructor of  *)
(* the executor ends; or for the reasons that are named.                   *)
CommandsEnd == Commands!FinallyExecuted /\ Commands!CallsReturn /\ Commands!DestructorReturns

(* A program that stays away is reported, the lists of NUCs end up with    *)
(* what is the case, and the checks can be stopped.                        *)
CrashesShown == Crashes!CrashIsShown /\ Crashes!CrashIsNoticed /\ Crashes!StopReturns
=============================================================================

------------------------------ MODULE Profiler ------------------------------
(***************************************************************************)
(* The thread profiler: ProfileManager of armoury/sampler/profile.py, the  *)
(* commands of the server that start and stop it, and the report of its    *)
(* result (process_headquarters_command, cmd_StartProfiler,                *)
(* cmd_StopProfiler and send_profile_data of battlefield/application.py).  *)
(*                                                                         *)
(* The harvest thread executes the commands and reports; every profile     *)
(* gets a sampling thread of its own, which ends by itself. They share     *)
(* current_profile, cmd_info and finished_profiles, and take the lock of   *)
(* ProfileManager only to start and to stop.                               *)
(*                                                                         *)
(* A profile has the number of the command that asked for it, and so has   *)
(* its thread. What a sample looks like is not modelled.                   *)
(***************************************************************************)
EXTENDS Naturals, Sequences, Functions

CONSTANTS
    Apps,           (* applications that share the ProfileManager          *)
    NoApp,          (* the harvest thread is between two applications      *)
    MaxCommands,    (* bound: start commands the server sends              *)
    Python          (* 2 or 3: what values() of a dictionary is            *)

ASSUME CommandsAssumption == MaxCommands \in Nat
ASSUME PythonAssumption   == Python \in {2, 3}
ASSUME AppsAssumption     == NoApp \notin Apps

VARIABLES
    enable,     (* the local setting enable_profile                        *)
    status,     (* Application.profile_status                              *)
    current,    (* current_profile, or None                                *)
    running,    (* profile_thread_running                                  *)
    cmd,        (* the command that cmd_info is about, or None             *)
    expired,    (* cmd_info["end_time"] is over                            *)
    finished,   (* finished_profiles                                       *)
    stopped,    (* cmd_stop_status                                         *)
    pc,         (* where each sampling thread is                           *)
    hpc,        (* where the harvest thread is                             *)
    happ,       (* the application it harvests                             *)
    samplers,   (* history: the threads that sampled into each profile     *)
    reported    (* history: the profiles the server has got                *)

managerVars == <<current, running, finished, stopped>>
commandVars == <<cmd, expired>>
harvestVars == <<hpc, happ, status>>
historyVars == <<samplers, reported>>
vars == <<enable, managerVars, commandVars, harvestVars, pc, historyVars>>

Profiles == 1 .. MaxCommands
None == 0

(* Points of _do_profile. *)
SamplePC == {"none", "loop", "sample", "trace", "update", "stop", "wait", "dead"}

Init ==
    /\ enable \in BOOLEAN
    /\ status = [a \in Apps |-> FALSE]
    /\ current = None /\ running = FALSE /\ finished = <<>> /\ stopped = FALSE
    /\ cmd = None /\ expired = FALSE
    /\ pc = [n \in Profiles |-> "none"]
    /\ hpc = "idle" /\ happ = NoApp
    /\ samplers = [n \in Profiles |-> {}] /\ reported = {}

-----------------------------------------------------------------------------
(* The harvest thread: process_headquarters_command and send_profile_data. *)

HarvestGoto(from, to) == hpc = from /\ hpc' = to

(* The metrics of an application are uploaded, its commands are asked for. *)
AskCommands(a) ==
    /\ HarvestGoto("idle", "commands")
    /\ happ' = a
    /\ UNCHANGED <<enable, managerVars, commandVars, status, pc, historyVars>>

(* The server does not answer, or refuses the session.                     *)
CommandsFail ==
    /\ HarvestGoto("commands", "idle")
    /\ happ' = NoApp
    /\ UNCHANGED <<enable, managerVars, commandVars, status, pc, historyVars>>

(* Mutant of StartAccepted: profile_status is not looked at.               *)
MutStartAnyway == TRUE

(* if self.profile_status: return *)
StartAccepted == ~status[happ]

(* cmd_StartProfiler and the beginning of start_profile: cmd_info is       *)
(* written before anything is looked at.                                   *)
ReceiveStart ==
    /\ HarvestGoto("commands", IF enable /\ current = None THEN "start" ELSE "commands")
    /\ StartAccepted /\ cmd < MaxCommands
    /\ cmd' = cmd + 1 /\ expired' = FALSE
    /\ status' = [status EXCEPT ![happ] = FALSE]
    /\ UNCHANGED <<enable, managerVars, happ, pc, historyVars>>

(* The section of start_profile under the lock.                            *)
StartThread ==
    /\ HarvestGoto("start", "commands")
    /\ status' = [status EXCEPT ![happ] = ~running]
    /\ running' = TRUE
    /\ IF running
         THEN UNCHANGED <<current, pc>>
         ELSE /\ current' = cmd
              /\ pc' = [pc EXCEPT ![cmd] = "loop"]
    /\ UNCHANGED <<enable, finished, stopped, commandVars, happ, historyVars>>

(* cmd_StopProfiler with the id of a profile: of the current one, or of    *)
(* any when there is none; for another one the server gets an empty result.*)
ReceiveStop(n) ==
    /\ cmd # None
    /\ HarvestGoto("commands", IF current \in {None, n} THEN "shutdown" ELSE "commands")
    /\ UNCHANGED <<enable, managerVars, commandVars, happ, status, pc, historyVars>>

(* ... before any start: cmd_info has no cid, a KeyError ends the harvest. *)
StopUnknown ==
    /\ cmd = None
    /\ HarvestGoto("commands", "idle")
    /\ happ' = NoApp
    /\ UNCHANGED <<enable, managerVars, commandVars, status, pc, historyVars>>

(* Mutant of Shutdown: profile_thread_running stays set.                   *)
MutShutdownRunning ==
    /\ HarvestGoto("shutdown", "commands")
    /\ current' = None
    /\ finished' = <<>>
    /\ stopped' = TRUE
    /\ status' = [status EXCEPT ![happ] = FALSE]
    /\ UNCHANGED <<enable, running, commandVars, happ, pc, historyVars>>

(* ProfileManager.shutdown with stop_cmd: stop_profile, and what is        *)
(* finished is thrown away.                                                *)
Shutdown ==
    /\ HarvestGoto("shutdown", "commands")
    /\ current' = None /\ running' = FALSE
    /\ finished' = <<>>
    /\ stopped' = TRUE
    /\ status' = [status EXCEPT ![happ] = FALSE]
    /\ UNCHANGED <<enable, commandVars, happ, pc, historyVars>>

(* generate_profile_data has something to report.                          *)
Reportable == status[happ] /\ current = None /\ ~stopped /\ finished # <<>>

NothingToReport ==
    /\ HarvestGoto("commands", "idle")
    /\ ~Reportable
    /\ happ' = NoApp
    /\ UNCHANGED <<enable, managerVars, commandVars, status, pc, historyVars>>

(* Mutant of SendProfile: finished_profiles is not emptied.                *)
MutSendKeeps ==
    /\ HarvestGoto("commands", "idle")
    /\ Reportable
    /\ happ' = NoApp
    /\ reported' = reported \cup {Head(finished)}
    /\ status' = [status EXCEPT ![happ] = FALSE]
    /\ UNCHANGED <<enable, managerVars, commandVars, pc, samplers>>

(* The first finished profile goes to the server, the others are lost.     *)
SendProfile ==
    /\ HarvestGoto("commands", "idle")
    /\ Reportable
    /\ happ' = NoApp
    /\ finished' = <<>>
    /\ reported' = reported \cup {Head(finished)}
    /\ status' = [status EXCEPT ![happ] = FALSE]
    /\ UNCHANGED <<enable, current, running, stopped, commandVars, pc, samplers>>

(* The upload raises: the profile is lost and profile_status stays set.    *)
SendFails ==
    /\ HarvestGoto("commands", "idle")
    /\ Reportable
    /\ happ' = NoApp
    /\ finished' = <<>>
    /\ UNCHANGED <<enable, current, running, stopped, commandVars, status, pc, historyVars>>

Harvest ==
    \/ \E a \in Apps : AskCommands(a)
    \/ CommandsFail
    \/ ReceiveStart
    \/ StartThread
    \/ \E n \in Profiles : ReceiveStop(n)
    \/ StopUnknown
    \/ Shutdown
    \/ NothingToReport
    \/ SendProfile
    \/ SendFails

-----------------------------------------------------------------------------
(* A sampling thread: _do_profile. Without current_profile an attribute of *)
(* None is asked for, but for the test at the top, and the thread dies.    *)

SampleGoto(n, from, to) == pc[n] = from /\ pc' = [pc EXCEPT ![n] = to]

sampleFrame == <<enable, stopped, commandVars, harvestVars, reported>>

(* if not self.current_profile: return *)
LoopTest(n) ==
    /\ SampleGoto(n, "loop", IF current = None THEN "dead" ELSE "sample")
    /\ UNCHANGED <<sampleFrame, current, running, finished, samplers>>

(* self.current_profile.sample_count += 1 *)
CountSample(n) ==
    /\ SampleGoto(n, "sample", IF current = None THEN "dead" ELSE "trace")
    /\ samplers' = IF current = None THEN samplers
                   ELSE [samplers EXCEPT ![current] = @ \cup {n}]
    /\ UNCHANGED <<sampleFrame, current, running, finished>>

(* The stacks of all threads. The first one of a category is walked with   *)
(* children.values()[0], a TypeError under Python 3.                       *)
TraceStacks(n) ==
    /\ SampleGoto(n, "trace", IF current = None \/ Python = 3 THEN "dead" ELSE "update")
    /\ UNCHANGED <<sampleFrame, current, running, finished, samplers>>

(* Mutant of UpdateStatus: the time is never over.                         *)
MutUpdateNever(n) ==
    /\ SampleGoto(n, "update", "wait")
    /\ UNCHANGED <<sampleFrame, current, running, finished, samplers>>

(* update_profile_status, without the lock                                 *)
UpdateStatus(n) ==
    /\ SampleGoto(n, "update", IF current # None /\ expired THEN "stop" ELSE "wait")
    /\ UNCHANGED <<sampleFrame, current, running, finished, samplers>>

(* stop_profile, under the lock                                            *)
StopProfile(n) ==
    /\ SampleGoto(n, "stop", "wait")
    /\ finished' = IF current = None THEN finished ELSE Append(finished, current)
    /\ current' = None /\ running' = FALSE
    /\ UNCHANGED <<sampleFrame, samplers>>

(* self._profile_shutdown.wait(interval) *)
WaitInterval(n) ==
    /\ SampleGoto(n, "wait", "loop")
    /\ UNCHANGED <<sampleFrame, current, running, finished, samplers>>

Sampling(n) ==
    \/ LoopTest(n)
    \/ CountSample(n)
    \/ TraceStacks(n)
    \/ UpdateStatus(n)
    \/ StopProfile(n)
    \/ WaitInterval(n)

(* time.time() passes the end_time of the last command.                    *)
TimePasses ==
    /\ cmd # None /\ ~expired
    /\ expired' = TRUE
    /\ UNCHANGED <<enable, managerVars, cmd, harvestVars, pc, historyVars>>

-----------------------------------------------------------------------------
Next == Harvest \/ (\E n \in Profiles : Sampling(n)) \/ TimePasses

Spec == Init /\ [][Next]_vars

(* Threads are scheduled and time passes. The list of commands ends, and   *)
(* the server does not fail for ever: a harvest that is asked again and    *)
(* again comes to its report.                                              *)
FairSpec ==
    /\ Spec
    /\ \A n \in Profiles : WF_vars(Sampling(n))
    /\ WF_vars(TimePasses)
    /\ WF_vars(Harvest)
    /\ SF_vars(SendProfile)

-----------------------------------------------------------------------------
TypeOK ==
    /\ enable \in BOOLEAN
    /\ status \in [Apps -> BOOLEAN]
    /\ current \in Profiles \cup {None} /\ running \in BOOLEAN
    /\ cmd \in 0 .. MaxCommands /\ expired \in BOOLEAN
    /\ finished \in Seq(Profiles)
    /\ stopped \in BOOLEAN
    /\ pc \in [Profiles -> SamplePC]
    /\ hpc \in {"idle", "commands", "start", "shutdown"}
    /\ happ \in Apps \cup {NoApp}
    /\ samplers \in [Profiles -> SUBSET Profiles]
    /\ reported \subseteq Profiles

(* A running profile is being sampled: its own thread lives as long as it  *)
(* runs, whatever older threads and commands do meanwhile. It would never  *)
(* finish otherwise. Under Python 3 its first sample is its last.          *)
SamplerLives == Python = 2 /\ current # None => pc[current] # "dead"

(* The result of a profile is reported under the command that asked for    *)
(* it, although cmd_info is overwritten by every start that comes in.      *)
(* (With one application; profile.py:201 asks for no more.)                *)
ReportsOwnCommand == [][reported' # reported => cmd \in reported' \ reported]_vars

(* What Profiler implements.                                               *)
LifeOf(n) ==
    IF n = current THEN "running"
    ELSE IF n \in Range(finished) THEN "finished"
    ELSE IF n \in reported THEN "reported"
    ELSE IF pc[n] # "none" THEN "dropped" ELSE "none"

Life == INSTANCE ProfileLife WITH life <- [n \in Profiles |-> LifeOf(n)]

(* One profile at a time, finished once, reported at most once, and never  *)
(* after a command to stop.                                                *)
ImplementsProfileLife == Life!LifeSpec

(* A profile ends: its time is over, or the server stops it.               *)
ProfileEnds == \A n \in Profiles : current = n ~> current # n

(* A finished profile does not stay for ever, unless the server has ever   *)
(* sent a command to stop.                                                 *)
FinishedLeaves ==
    \A n \in Profiles : n \in Range(finished) ~> (n \notin Range(finished) \/ stopped)

-----------------------------------------------------------------------------
(* The inductive invariant behind the safety properties above.             *)

(* profile_thread_running says nothing current_profile does not say.       *)
RunningIsCurrent == running <=> current # None

(* Threads are started in the order of the commands, each by its own; in   *)
(* the middle of a start no profile is running.                            *)
StartedInOrder ==
    /\ \A n \in Profiles : n > cmd => pc[n] = "none"
    /\ current # None => pc[current] # "none"
    /\ hpc = "start" => cmd # None /\ current = None /\ pc[cmd] = "none"
    /\ hpc # "idle" => happ \in Apps

(* A profile is at one stage of its life at a time.                        *)
OneStage ==
    /\ current \notin reported
    /\ \A n \in reported : pc[n] # "none"
    /\ \A i \in DOMAIN finished :
          pc[finished[i]] # "none" /\ finished[i] # current /\ finished[i] \notin reported

(* With one application nothing but the last command is in progress.       *)
OneApp == \E a \in Apps : Apps = {a}

LastCommandOnly ==
    OneApp => \A a \in Apps :
        /\ current # None => current = cmd /\ status[a]
        /\ ~stopped => \A i \in DOMAIN finished : finished[i] = cmd /\ status[a]

IInv ==
    /\ TypeOK
    /\ RunningIsCurrent
    /\ StartedInOrder
    /\ OneStage
    /\ LastCommandOnly
    /\ SamplerLives

-----------------------------------------------------------------------------
(* What comments and messages of the source say, and the code does not do. *)

(* "There are running a thread profile, this is a unnormal status"         *)
(* (profile.py:256): no thread samples into the profile of another one.    *)
OwnSamplesOnly == \A n \in Profiles : samplers[n] \subseteq {n}

(* "duration: sample the profile duration" (profile.py:234): only a        *)
(* command of the server ends a profile before its time is over.           *)
RunsItsDuration ==
    [][current # None /\ current' = None /\ hpc # "shutdown" => expired]_vars

(* "server stop command" (profile.py:355): what is withheld from the       *)
(* server was stopped by it.                                               *)
WithheldIfStopped == finished # <<>> => ~stopped

(* "profiler is running now, so skip current profile command"              *)
(* (application.py:491): a start is ignored only while a profile runs or   *)
(* waits for its report.                                                   *)
IgnoredIfRunning ==
    hpc = "commands" /\ ~StartAccepted => current # None \/ finished # <<>>
=============================================================================

--------------------------- MODULE ProfilerProofs ---------------------------
(***************************************************************************)
(* Proofs about Profiler, for any number of commands and applications.     *)
(*                                                                         *)
(* IInv is inductive: the lemmas go through the actions of the harvest     *)
(* thread and of a sampling thread, one conjunct of IInv at a time. The    *)
(* invariant then gives the action property and the refinement: LifeIs and *)
(* NextLifeIs say where each profile is in its life, LifeMoves that a step *)
(* takes it along an edge of ProfileLife or leaves it where it is.         *)
(***************************************************************************)
EXTENDS Profiler, TLAPS

USE CommandsAssumption, PythonAssumption, AppsAssumption
USE DEF Profiles, None, managerVars, commandVars, harvestVars, historyVars,
        HarvestGoto, SampleGoto, sampleFrame

(* The initial state has no profile.                                       *)
LEMMA InitIInv == Init => IInv
<1> SUFFICES ASSUME Init PROVE IInv
  OBVIOUS
<1>1. TypeOK
  <2>1. finished \in Seq(Profiles) /\ samplers \in [Profiles -> SUBSET Profiles]
    BY DEF Init
  <2>2. status \in [Apps -> BOOLEAN] /\ pc \in [Profiles -> SamplePC]
    BY DEF Init, SamplePC
  <2>3. current \in Profiles \cup {None} /\ cmd \in 0 .. MaxCommands /\ reported \subseteq Profiles
    BY DEF Init
  <2>4. QED
    BY <2>1, <2>2, <2>3, Zenon DEF Init, TypeOK
<1>2. OneStage /\ LastCommandOnly
  BY DEF Init, OneStage, LastCommandOnly
<1>3. RunningIsCurrent /\ StartedInOrder /\ SamplerLives
  BY DEF Init, RunningIsCurrent, StartedInOrder, SamplerLives
<1>4. QED
  BY <1>1, <1>2, <1>3 DEF IInv

(* The application's flag of a running profile stays a Boolean.             *)
LEMMA StatusKeepsType == ASSUME TypeOK, ReceiveStart PROVE status' \in [Apps -> BOOLEAN]
BY DEF TypeOK, ReceiveStart

(* What the harvest thread does keeps the invariant: commands start and    *)
(* stop profiles only in the stages the invariant allows.                  *)
LEMMA HarvestKeepsIInv == ASSUME IInv, Harvest PROVE IInv'
<1> USE DEF IInv, TypeOK
<1>1. CASE \E a \in Apps : AskCommands(a)
  BY <1>1 DEF AskCommands, RunningIsCurrent, StartedInOrder, OneStage, LastCommandOnly, SamplerLives
<1>2. CASE CommandsFail \/ StopUnknown \/ NothingToReport
  <2>1. /\ hpc' = "idle" /\ happ' = NoApp
        /\ UNCHANGED <<enable, managerVars, commandVars, status, pc, historyVars>>
    BY <1>2 DEF CommandsFail, StopUnknown, NothingToReport
  <2>2. TypeOK'
    BY <2>1
  <2>3. OneStage' /\ LastCommandOnly'
    BY <2>1 DEF OneStage, LastCommandOnly
  <2>4. RunningIsCurrent' /\ StartedInOrder' /\ SamplerLives'
    BY <2>1 DEF RunningIsCurrent, StartedInOrder, SamplerLives
  <2>5. QED
    BY <2>2, <2>3, <2>4
<1>3. CASE ReceiveStart
  <2>1. TypeOK'
    <3>1. cmd' \in 0 .. MaxCommands
      BY <1>3 DEF ReceiveStart
    <3>2. expired' \in BOOLEAN
      BY <1>3, Zenon DEF ReceiveStart
    <3>3. status' \in [Apps -> BOOLEAN]
      BY <1>3, StatusKeepsType
    <3>4. hpc' \in {"idle", "commands", "start", "shutdown"}
      BY <1>3 DEF ReceiveStart
    <3>5. QED
      BY <1>3, <3>1, <3>2, <3>3, <3>4 DEF ReceiveStart
  <2>2. RunningIsCurrent' /\ OneStage' /\ SamplerLives'
    BY <1>3 DEF ReceiveStart, RunningIsCurrent, OneStage, SamplerLives
  <2>3. StartedInOrder'
    BY <1>3 DEF ReceiveStart, StartedInOrder
  <2>4. LastCommandOnly'
    BY <1>3 DEF ReceiveStart, LastCommandOnly, StartedInOrder, StartAccepted
  <2>5. QED
    BY <2>1, <2>2, <2>3, <2>4
<1>4. CASE StartThread
  <2>1. ~running /\ cmd \in Profiles /\ happ \in Apps
    BY <1>4 DEF StartThread, RunningIsCurrent, StartedInOrder
  <2>2. current' = cmd /\ pc' = [pc EXCEPT ![cmd] = "loop"] /\ running' = TRUE
    BY <1>4, <2>1 DEF StartThread
  <2>3. TypeOK'
    BY <1>4, <2>1, <2>2 DEF StartThread, SamplePC
  <2>4. RunningIsCurrent' /\ SamplerLives' /\ StartedInOrder'
    BY <1>4, <2>1, <2>2 DEF StartThread, RunningIsCurrent, SamplerLives, StartedInOrder
  <2>5. OneStage'
    BY <1>4, <2>1, <2>2 DEF StartThread, OneStage, StartedInOrder
  <2>6. LastCommandOnly'
    BY <1>4, <2>1, <2>2 DEF StartThread, LastCommandOnly, StartedInOrder, OneApp
  <2>7. QED
    BY <2>3, <2>4, <2>5, <2>6
<1>5. CASE \E n \in Profiles : ReceiveStop(n)
  BY <1>5 DEF ReceiveStop, RunningIsCurrent, StartedInOrder, OneStage, LastCommandOnly, SamplerLives
<1>6. CASE Shutdown
  <2>1. finished' = <<>> /\ current' = None
    BY <1>6 DEF Shutdown
  <2>2. TypeOK'
    <3>1. status' \in [Apps -> BOOLEAN]
      BY <1>6 DEF Shutdown
    <3>2. finished' \in Seq(Profiles)
      BY <2>1
    <3>3. QED
      BY <1>6, <3>1, <3>2 DEF Shutdown
  <2>3. OneStage'
    BY <1>6, <2>1 DEF Shutdown, OneStage
  <2>4. RunningIsCurrent' /\ StartedInOrder' /\ LastCommandOnly' /\ SamplerLives'
    BY <1>6 DEF Shutdown, RunningIsCurrent, StartedInOrder, LastCommandOnly, SamplerLives
  <2>5. QED
    BY <2>2, <2>3, <2>4
<1>7. CASE SendProfile \/ SendFails
  <2>1. finished' = <<>> /\ current = None /\ Head(finished) = finished[1] /\ 1 \in DOMAIN finished
    BY <1>7 DEF SendProfile, SendFails, Reportable
  <2>2. TypeOK'
    <3>1. status' \in [Apps -> BOOLEAN]
      BY <1>7 DEF SendProfile, SendFails
    <3>2. finished' \in Seq(Profiles)
      BY <2>1
    <3>3. reported' \subseteq Profiles
      <4>1. finished[1] \in Profiles
        BY <2>1
      <4>2. reported' \subseteq reported \cup {finished[1]}
        BY <1>7, <2>1 DEF SendProfile, SendFails
      <4>3. QED
        BY <4>1, <4>2
    <3>4. QED
      BY <1>7, <3>1, <3>2, <3>3 DEF SendProfile, SendFails
  <2>3. OneStage'
    <3>1. current' = None /\ pc' = pc /\ reported' \subseteq reported \cup {finished[1]}
      BY <1>7, <2>1 DEF SendProfile, SendFails
    <3>2. current' \notin reported'
      BY <2>1, <3>1 DEF OneStage
    <3>3. QED
      BY <2>1, <3>1, <3>2 DEF OneStage
  <2>4. RunningIsCurrent' /\ StartedInOrder' /\ SamplerLives'
    BY <1>7 DEF SendProfile, SendFails, RunningIsCurrent, StartedInOrder, SamplerLives
  <2>5. LastCommandOnly'
    BY <1>7, <2>1 DEF SendProfile, SendFails, LastCommandOnly
  <2>6. QED
    BY <2>2, <2>3, <2>4, <2>5
<1>8. QED
  BY <1>1, <1>2, <1>3, <1>4, <1>5, <1>6, <1>7 DEF Harvest

(* So does a sampling thread, whichever profile it samples into or stops.  *)
LEMMA SamplingKeepsIInv == ASSUME NEW n \in Profiles, IInv, Sampling(n) PROVE IInv'
<1> USE DEF IInv, TypeOK
<1>1. CASE StopProfile(n)
  <2>1. CASE current = None
    <3>1. finished' = finished /\ current' = current /\ running' = running
      BY <1>1, <2>1 DEF StopProfile, RunningIsCurrent
    <3>2. QED
      BY <1>1, <2>1, <3>1 DEF StopProfile, SamplePC, RunningIsCurrent, StartedInOrder, OneStage,
                              LastCommandOnly, SamplerLives
  <2>2. CASE current # None
    <3>1. /\ finished' = Append(finished, current) /\ current' = None /\ ~running'
          /\ Len(finished') = Len(finished) + 1
          /\ \A i \in DOMAIN finished' :
                finished'[i] = current \/ (i \in DOMAIN finished /\ finished'[i] = finished[i])
      BY <1>1, <2>2 DEF StopProfile
    <3>2. TypeOK'
      <4>1. finished' \in Seq(Profiles)
        BY <2>2, <3>1
      <4>2. pc' \in [Profiles -> SamplePC]
        BY <1>1 DEF StopProfile, SamplePC
      <4>3. QED
        BY <1>1, <3>1, <4>1, <4>2 DEF StopProfile
    <3>3. RunningIsCurrent' /\ StartedInOrder' /\ SamplerLives'
      BY <1>1, <2>2, <3>1 DEF StopProfile, RunningIsCurrent, StartedInOrder, SamplerLives
    <3>4. OneStage'
      BY <1>1, <2>2, <3>1 DEF StopProfile, OneStage, StartedInOrder
    <3>5. LastCommandOnly'
      BY <1>1, <2>2, <3>1 DEF StopProfile, LastCommandOnly
    <3>6. QED
      BY <3>2, <3>3, <3>4, <3>5
  <2>3. QED
    BY <2>1, <2>2
<1>2. CASE LoopTest(n) \/ CountSample(n) \/ TraceStacks(n) \/ UpdateStatus(n) \/ WaitInterval(n)
  <2> USE DEF LoopTest, CountSample, TraceStacks, UpdateStatus, WaitInterval
  <2>1. /\ pc[n] # "none" /\ pc' \in [Profiles -> SamplePC] /\ pc'[n] # "none"
        /\ \A k \in Profiles : k # n => pc'[k] = pc[k]
    BY <1>2 DEF SamplePC
  <2>2. samplers' \in [Profiles -> SUBSET Profiles]
    BY <1>2
  <2>3. TypeOK'
    BY <1>2, <2>1, <2>2
  <2>4. RunningIsCurrent' /\ StartedInOrder'
    BY <1>2, <2>1 DEF RunningIsCurrent, StartedInOrder
  <2>5. OneStage' /\ LastCommandOnly'
    <3>1. UNCHANGED <<current, finished, reported, cmd, stopped, status>>
      BY <1>2
    <3>2. OneStage'
      BY <2>1, <3>1 DEF OneStage
    <3>3. LastCommandOnly'
      BY <3>1 DEF LastCommandOnly
    <3>4. QED
      BY <3>2, <3>3
  <2>6. SamplerLives'
    BY <1>2 DEF SamplerLives
  <2>7. QED
    BY <2>3, <2>4, <2>5, <2>6
<1>3. QED
  BY <1>1, <1>2 DEF Sampling

(* Every step keeps the invariant.                                         *)
LEMMA NextKeepsIInv == IInv /\ [Next]_vars => IInv'
<1> SUFFICES ASSUME IInv, [Next]_vars PROVE IInv'
  OBVIOUS
<1>1. CASE TimePasses
  BY <1>1 DEF TimePasses, IInv, TypeOK, RunningIsCurrent, StartedInOrder, OneStage,
              LastCommandOnly, SamplerLives
<1>2. CASE UNCHANGED vars
  BY <1>2 DEF vars, IInv, TypeOK, RunningIsCurrent, StartedInOrder, OneStage,
              LastCommandOnly, SamplerLives
<1>3. QED
  BY <1>1, <1>2, HarvestKeepsIInv, SamplingKeepsIInv DEF Next

(* The profiler keeps its inductive invariant: one running profile, each   *)
(* started, finished and reported in this order.                           *)
THEOREM Invariance == Spec => []IInv
BY InitIInv, NextKeepsIInv, PTL DEF Spec

(* Every variable of the profiler keeps its type.                          *)
THEOREM TypeCorrect == Spec => []TypeOK
<1>1. IInv => TypeOK
  BY DEF IInv
<1>2. QED
  BY <1>1, Invariance, PTL

(* The thread of the running profile lives, under Python 2.                *)
THEOREM SamplerStaysAlive == Spec => []SamplerLives
<1>1. IInv => SamplerLives
  BY DEF IInv
<1>2. QED
  BY <1>1, Invariance, PTL

(* With one application send_profile_data reports a profile under the id   *)
(* of the command that asked for it.                                       *)
THEOREM OwnCommandReported == ASSUME OneApp PROVE Spec => ReportsOwnCommand
<1>1. ASSUME IInv, [Next]_vars, reported' # reported
      PROVE  cmd \in reported' \ reported
  <2>1. SendProfile
    BY <1>1 DEF vars, Next, Harvest, AskCommands, CommandsFail, ReceiveStart, StartThread,
                ReceiveStop, StopUnknown, Shutdown, NothingToReport, SendFails, Sampling,
                LoopTest, CountSample, TraceStacks, UpdateStatus, StopProfile, WaitInterval,
                TimePasses
  <2>2. Head(finished) = finished[1] /\ 1 \in DOMAIN finished
    BY <1>1, <2>1 DEF SendProfile, Reportable, IInv, TypeOK
  <2>3. finished[1] = cmd /\ cmd \notin reported
    BY <1>1, <2>1, <2>2 DEF SendProfile, Reportable, IInv, LastCommandOnly, OneApp, OneStage
  <2>4. QED
    BY <2>1, <2>2, <2>3 DEF SendProfile
<1>2. IInv /\ [Next]_vars => [reported' # reported => cmd \in reported' \ reported]_vars
  BY <1>1
<1>3. QED
  BY <1>2, Invariance, PTL DEF Spec, ReportsOwnCommand

-----------------------------------------------------------------------------
(* The refinement.                                                         *)

Lives == [n \in Profiles |-> LifeOf(n)]

InFinished(n) == \E i \in DOMAIN finished : finished[i] = n

(* Where each profile is, in the order LifeOf looks.                       *)
LEMMA LifeIs ==
    ASSUME IInv, NEW n \in Profiles
    PROVE  /\ n = current => LifeOf(n) = "running"
           /\ InFinished(n) => LifeOf(n) = "finished"
           /\ n \in reported => LifeOf(n) = "reported"
           /\ n # current /\ ~InFinished(n) /\ n \notin reported =>
                LifeOf(n) = IF pc[n] = "none" THEN "none" ELSE "dropped"
BY DEF LifeOf, InFinished, IInv, TypeOK, OneStage, Range

(* The same after a step.                                                  *)
LEMMA NextLifeIs ==
    ASSUME IInv', NEW n \in Profiles
    PROVE  /\ n = current' => LifeOf(n)' = "running"
           /\ InFinished(n)' => LifeOf(n)' = "finished"
           /\ n \in reported' => LifeOf(n)' = "reported"
           /\ n # current' /\ ~InFinished(n)' /\ n \notin reported' =>
                LifeOf(n)' = IF pc'[n] = "none" THEN "none" ELSE "dropped"
BY DEF LifeOf, InFinished, IInv, TypeOK, OneStage, Range

(* A step of the profiler is a step of ProfileLife, or none.               *)
LEMMA LifeMoves ==
    ASSUME IInv, IInv', [Next]_vars
    PROVE  [Life!LifeNext]_Lives
<1>0. /\ \A n \in Profiles : Lives[n] = LifeOf(n) /\ Lives'[n] = LifeOf(n)'
      /\ Lives = [n \in Profiles |-> Lives[n]] /\ Lives' = [n \in Profiles |-> Lives'[n]]
      /\ current \in Profiles \cup {None} /\ cmd \in 0 .. MaxCommands
      /\ finished \in Seq(Profiles) /\ reported \subseteq Profiles
      /\ pc \in [Profiles -> SamplePC]
      /\ RunningIsCurrent /\ StartedInOrder /\ OneStage
  BY DEF Lives, IInv, TypeOK
<1>1. ASSUME UNCHANGED <<current, finished, reported>>,
             \A n \in Profiles : pc[n] = "none" <=> pc'[n] = "none"
      PROVE  UNCHANGED Lives
  <2>1. \A n \in Profiles : LifeOf(n)' = LifeOf(n)
    BY <1>1 DEF LifeOf
  <2>2. QED
    BY <2>1 DEF Lives
<1>2. CASE \/ \E a \in Apps : AskCommands(a)
           \/ CommandsFail \/ ReceiveStart \/ (\E n \in Profiles : ReceiveStop(n))
           \/ StopUnknown \/ NothingToReport \/ TimePasses \/ UNCHANGED vars
  <2>1. UNCHANGED <<current, finished, reported, pc>>
    BY <1>2 DEF AskCommands, CommandsFail, ReceiveStart, ReceiveStop, StopUnknown,
                NothingToReport, TimePasses, vars
  <2>2. QED
    BY <1>1, <2>1
<1>3. CASE StartThread
  <2>1. /\ cmd \in Profiles /\ current = None /\ current' = cmd /\ pc[cmd] = "none"
        /\ pc' = [pc EXCEPT ![cmd] = "loop"] /\ UNCHANGED <<finished, reported>>
    BY <1>0, <1>3 DEF StartThread, RunningIsCurrent, StartedInOrder
  <2>2. cmd \notin reported /\ ~InFinished(cmd)
    BY <1>0, <2>1 DEF OneStage, InFinished
  <2> DEFINE c == cmd
  <2>3. c \in Profiles /\ LifeOf(c) = "none"
    BY <2>1, <2>2, LifeIs
  <2>4. \A k \in Profiles : LifeOf(k)' = IF k = c THEN "running" ELSE LifeOf(k)
    BY <2>1, NextLifeIs DEF LifeOf
  <2>5. \A k \in Profiles : LifeOf(k) # "running"
    <3> SUFFICES ASSUME NEW k \in Profiles PROVE LifeOf(k) # "running"
      OBVIOUS
    <3>1. k # current
      BY <2>1
    <3>2. QED
      BY <3>1, LifeIs
  <2>6. Life!Begin(c)
    <3> HIDE DEF c
    <3>1. QED
      BY <1>0, <2>3, <2>4, <2>5 DEF Life!Begin
  <2>7. QED
    BY <2>3, <2>6 DEF Life!LifeNext
<1>4. CASE Shutdown
  <2>1. current' = None /\ finished' = <<>> /\ UNCHANGED <<pc, reported>>
    BY <1>4 DEF Shutdown
  <2>2. \A k \in Profiles : ~InFinished(k)'
    BY <2>1 DEF InFinished
  <2>3. \A k \in Profiles :
           LifeOf(k)' = IF LifeOf(k) \in {"running", "finished"} THEN "dropped" ELSE LifeOf(k)
    <3> SUFFICES ASSUME NEW k \in Profiles
                 PROVE  LifeOf(k)' = IF LifeOf(k) \in {"running", "finished"}
                                       THEN "dropped" ELSE LifeOf(k)
      OBVIOUS
    <3>1. /\ k # current' /\ ~InFinished(k)' /\ reported' = reported /\ pc' = pc
          /\ k = current \/ InFinished(k) => pc[k] # "none" /\ k \notin reported
      BY <1>0, <2>1, <2>2 DEF OneStage, StartedInOrder, InFinished
    <3>2. CASE k = current \/ InFinished(k)
      BY <3>1, <3>2, LifeIs, NextLifeIs
    <3>3. CASE k \in reported
      BY <3>1, <3>3, LifeIs, NextLifeIs
    <3>4. CASE k # current /\ ~InFinished(k) /\ k \notin reported
      BY <3>1, <3>4, LifeIs, NextLifeIs
    <3>5. QED
      BY <3>2, <3>3, <3>4
  <2>4. Life!DropAll({"running", "finished"})
    BY <1>0, <2>3 DEF Life!DropAll
  <2>5. QED
    BY <2>4 DEF Life!LifeNext
<1>5. CASE SendProfile \/ SendFails
  <2>1. /\ current = None /\ current' = None /\ finished' = <<>> /\ UNCHANGED pc
        /\ Head(finished) = finished[1] /\ 1 \in DOMAIN finished /\ finished[1] \in Profiles
    BY <1>0, <1>5 DEF SendProfile, SendFails, Reportable
  <2>2. \A k \in Profiles :
           ~InFinished(k)' /\ (InFinished(k) => pc[k] # "none" /\ k \notin reported)
    BY <1>0, <2>1 DEF InFinished, OneStage
  <2>3. CASE SendProfile
    <3>1. reported' = reported \cup {finished[1]}
      BY <2>1, <2>3 DEF SendProfile
    <3>2. LifeOf(finished[1]) = "finished"
      BY <2>1, LifeIs DEF InFinished
    <3>3. \A k \in Profiles :
             LifeOf(k)' = IF k = finished[1] THEN "reported"
                          ELSE IF LifeOf(k) = "finished" THEN "dropped" ELSE LifeOf(k)
      BY <2>1, <2>2, <3>1, LifeIs, NextLifeIs
    <3>4. Life!Report(finished[1])
      BY <1>0, <2>1, <3>2, <3>3 DEF Life!Report
    <3>5. QED
      BY <2>1, <3>4 DEF Life!LifeNext
  <2>4. CASE SendFails
    <3>1. reported' = reported
      BY <2>4 DEF SendFails
    <3>2. \A k \in Profiles :
             LifeOf(k)' = IF LifeOf(k) \in {"finished"} THEN "dropped" ELSE LifeOf(k)
      BY <2>1, <2>2, <3>1, LifeIs, NextLifeIs
    <3>3. Life!DropAll({"finished"})
      BY <1>0, <3>2 DEF Life!DropAll
    <3>4. QED
      BY <3>3 DEF Life!LifeNext
  <2>5. QED
    BY <1>5, <2>3, <2>4
<1>6. ASSUME NEW n \in Profiles, Sampling(n)
      PROVE  [Life!LifeNext]_Lives
  <2>1. \A k \in Profiles : pc[k] = "none" <=> pc'[k] = "none"
    BY <1>0, <1>6 DEF Sampling, LoopTest, CountSample, TraceStacks, UpdateStatus, StopProfile,
                      WaitInterval
  <2>2. CASE StopProfile(n) /\ current # None
    <3>1. /\ finished' = Append(finished, current) /\ current' = None /\ reported' = reported
          /\ Len(finished') = Len(finished) + 1
          /\ finished'[Len(finished) + 1] = current
          /\ \A i \in DOMAIN finished : i \in DOMAIN finished' /\ finished'[i] = finished[i]
          /\ \A i \in DOMAIN finished' :
                finished'[i] = current \/ (i \in DOMAIN finished /\ finished'[i] = finished[i])
      BY <1>0, <2>2 DEF StopProfile
    <3>2. \A k \in Profiles : InFinished(k)' <=> InFinished(k) \/ k = current
      BY <2>2, <3>1 DEF InFinished
    <3> DEFINE c == current
    <3>3. c \in Profiles /\ LifeOf(c) = "running"
      BY <1>0, <2>2, LifeIs
    <3>4. \A k \in Profiles : LifeOf(k)' = IF k = c THEN "finished" ELSE LifeOf(k)
      <4> SUFFICES ASSUME NEW k \in Profiles
                   PROVE  LifeOf(k)' = IF k = c THEN "finished" ELSE LifeOf(k)
        OBVIOUS
      <4>1. CASE k = current
        BY <3>2, <4>1, NextLifeIs
      <4>2. CASE k # current
        <5>1. k # current' /\ (InFinished(k)' <=> InFinished(k)) /\ reported' = reported
          BY <2>2, <3>1, <3>2, <4>2
        <5>2. pc[k] = "none" <=> pc'[k] = "none"
          BY <2>1
        <5>3. QED
          BY <4>2, <5>1, <5>2, LifeIs, NextLifeIs
      <4>3. QED
        BY <4>1, <4>2
    <3>5. Life!Finish(c)
      <4> HIDE DEF c
      <4>1. QED
        BY <1>0, <3>3, <3>4 DEF Life!Finish
    <3>6. QED
      BY <3>3, <3>5 DEF Life!LifeNext
  <2>3. CASE ~(StopProfile(n) /\ current # None)
    <3>1. UNCHANGED <<current, finished, reported>>
      BY <1>6, <2>3 DEF Sampling, LoopTest, CountSample, TraceStacks, UpdateStatus, StopProfile,
                        WaitInterval
    <3>2. QED
      BY <1>1, <2>1, <3>1
  <2>4. QED
    BY <2>2, <2>3
<1>7. QED
  BY <1>2, <1>3, <1>4, <1>5, <1>6 DEF Next, Harvest

(* The profiler implements ProfileLife: one profile runs at a time, and    *)
(* each is reported at most once and never after it was stopped.           *)
THEOREM Refinement == Spec => ImplementsProfileLife
<1>1. Init => Life!LifeInit
  BY DEF Init, Life!LifeInit, LifeOf, Range
<1>2. IInv /\ IInv' /\ [Next]_vars => [Life!LifeNext]_Lives
  BY LifeMoves
<1>3. QED
  BY <1>1, <1>2, Invariance, PTL DEF Spec, ImplementsProfileLife, Life!LifeSpec, Lives
=============================================================================

-------------------------- MODULE TornadoLoopProofs --------------------------
(***************************************************************************)
(* Proofs about TornadoLoop, for any requests, coroutines and wrapped      *)
(* functions, and any number of calls.                                     *)
(*                                                                         *)
(* A step does one of three things to the calls under way and one of three *)
(* to the requests: the lemmas Shape and RequestStep say which, and the    *)
(* invariant and the refinement follow from those, not from the actions.   *)
(* For the end of a request the steps are of four kinds by what they do to *)
(* what belongs to it (Kinds), and of two by what they do to its count     *)
(* (CountLooks); that it ends after the last, and at its root, is a matter *)
(* of numbers, how often it occurs among the calls, in the queue and among *)
(* the coroutines that wait.                                               *)
(***************************************************************************)
EXTENDS TornadoLoop, FiniteSetTheorems, SequenceTheorems, TLAPS


-----------------------------------------------------------------------------
(* The end of a tracker.                                                   *)

(* What an attempt to finish does to the requests: nothing, or it ends the *)
(* one it is about, which was marked and not ended before.                 *)
Finishes(r, can) ==
    /\ can[r] /\ ~is_finalized[r]
    /\ is_finalized' = [is_finalized EXCEPT ![r] = TRUE]
    /\ \E n \in {0, 1} : reports' = [reports EXCEPT ![r] = @ + n]

LEMMA Attempt ==
    ASSUME NEW r, NEW can, NEW refs, NEW depths, NEW before,
           TryFinish(r, can, refs, depths, before)
    PROVE  /\ cur' \in {before, None}
           /\ misnested' \in {misnested, misnested \cup {r}}
           /\ Finishes(r, can) \/ UNCHANGED <<is_finalized, reports>>
BY DEF TryFinish, FinishTracker, CanFinish, Finishes

(* The types of what it changes.                                           *)
LEMMA FinishTypes ==
    ASSUME TypeOK, NEW r \in Requests, NEW can, Finishes(r, can)
    PROVE  /\ is_finalized' \in [Requests -> BOOLEAN]
           /\ reports' \in [Requests -> Nat]
<1>1. is_finalized' \in [Requests -> BOOLEAN]
  BY Zenon DEF TypeOK, Finishes
<1>2. reports' \in [Requests -> Nat]
  <2>1. PICK n \in {0, 1} : reports' = [reports EXCEPT ![r] = @ + n]
    BY DEF Finishes
  <2> QED
    BY <2>1 DEF TypeOK
<1> QED
  BY <1>1, <1>2

-----------------------------------------------------------------------------
(* Calls under way.                                                        *)

Pushes ==
    \E f \in Frames :
        /\ f.old = cur /\ Call(f)
        /\ f.kind = "export" => f.tracker \in Requests /\ stage'[f.tracker] = "dispatched"
Returns == InCode /\ frames' = Front(frames) /\ cur' \in {Top.old, None}
Remains == frames' = frames /\ cur' \in {cur, None}

LEMMA FrontFacts ==
    ASSUME NEW S, NEW s \in Seq(S), s # << >>
    PROVE  /\ Len(s) \in Nat /\ Len(s) >= 1
           /\ Front(s) \in Seq(S) /\ Len(Front(s)) = Len(s) - 1
           /\ \A i \in 1 .. Len(s) - 1 : Front(s)[i] = s[i]
<1>1. Len(s) \in Nat /\ Len(s) >= 1
  OBVIOUS
<1>2. PICK n \in Nat : n = Len(s) - 1
  BY <1>1
<1>3. Front(s) = SubSeq(s, 1, n)
  BY <1>2 DEF Front
<1>4. \A i \in 1 .. n : s[i] \in S
  BY <1>1, <1>2
<1>5. /\ SubSeq(s, 1, n) \in Seq(S)
      /\ Len(SubSeq(s, 1, n)) = IF 1 <= n THEN n - 1 + 1 ELSE 0
      /\ \A i \in 1 .. n - 1 + 1 : SubSeq(s, 1, n)[i] = s[1 + i - 1]
  BY <1>4, SubSeqProperties
<1>6. \A i \in 1 .. n : SubSeq(s, 1, n)[i] = s[i]
  BY <1>2, <1>5
<1> QED
  BY <1>1, <1>2, <1>3, <1>5, <1>6

LEMMA AppendFacts ==
    ASSUME NEW S, NEW s \in Seq(S), NEW e \in S
    PROVE  /\ Len(s) \in Nat
           /\ Append(s, e) \in Seq(S) /\ Len(Append(s, e)) = Len(s) + 1
           /\ Append(s, e)[Len(s) + 1] = e
           /\ \A i \in 1 .. Len(s) : Append(s, e)[i] = s[i]
OBVIOUS

(* The frames of a step keep their type, their nesting and the tracker of  *)
(* the thread.                                                             *)
LEMMA FramesKept ==
    ASSUME TypeOK, OwnTracker, CallsNest, Pushes \/ Returns \/ Remains
    PROVE  frames' \in Seq(Frames) /\ cur' \in Tracker /\ OwnTracker' /\ CallsNest'
<1>0. frames \in Seq(Frames) /\ cur \in Tracker /\ None \in Tracker /\ Len(frames) \in Nat
  BY DEF TypeOK, Tracker
<1>1. CASE Pushes
  <2>1. PICK f \in Frames : f.old = cur /\ frames' = Append(frames, f) /\ cur' = f.tracker
    BY <1>1 DEF Pushes, Call
  <2>2. /\ frames' \in Seq(Frames) /\ Len(frames') = Len(frames) + 1
        /\ frames'[Len(frames) + 1] = f
        /\ \A i \in 1 .. Len(frames) : frames'[i] = frames[i]
    BY <1>0, <2>1, AppendFacts
  <2>3. OwnTracker' /\ cur' \in Tracker
    <3>1. InCode' /\ Top' = f
      BY <1>0, <2>2 DEF InCode, Top
    <3>2. f.tracker \in Tracker
      BY DEF Frames
    <3> QED
      BY <2>1, <3>1, <3>2 DEF OwnTracker
  <2>4. CallsNest'
    <3>1. ASSUME NEW i \in 1 .. Len(frames')
          PROVE  frames'[i].old = None \/ (i > 1 /\ frames'[i].old = frames'[i - 1].tracker)
      <4>1. CASE i \in 1 .. Len(frames)
        <5>1. frames'[i] = frames[i] /\ (i > 1 => frames'[i - 1] = frames[i - 1])
          BY <1>0, <2>2, <4>1
        <5> QED
          BY <4>1, <5>1 DEF CallsNest
      <4>2. CASE i = Len(frames) + 1
        <5>1. frames'[i].old = cur
          BY <2>1, <2>2, <4>2
        <5>2. CASE frames = << >>
          BY <5>1, <5>2 DEF OwnTracker, InCode
        <5>3. CASE frames # << >>
          <6>1. Len(frames) \in 1 .. Len(frames) /\ i - 1 = Len(frames) /\ i > 1
            BY <1>0, <4>2, <5>3
          <6>2. frames'[i - 1] = Top
            BY <2>2, <6>1 DEF Top
          <6> QED
            BY <5>1, <5>3, <6>1, <6>2 DEF OwnTracker, InCode
        <5> QED
          BY <5>2, <5>3
      <4> QED
        BY <1>0, <2>2, <4>1, <4>2
    <3> QED
      BY <3>1 DEF CallsNest
  <2> QED
    BY <2>2, <2>3, <2>4
<1>2. CASE Returns
  <2>0. frames # << >>
    BY <1>2 DEF Returns, InCode
  <2>1. /\ frames' \in Seq(Frames) /\ Len(frames') = Len(frames) - 1 /\ Len(frames) >= 1
        /\ \A i \in 1 .. Len(frames) - 1 : frames'[i] = frames[i]
    BY <1>0, <1>2, <2>0, FrontFacts DEF Returns
  <2>2. Top \in Frames /\ Top.old \in Tracker /\ Top = frames[Len(frames)]
    <3>1. Top \in Frames
      BY <1>0, <2>1 DEF Top
    <3> QED
      BY <3>1 DEF Frames, Top
  <2>3. cur' \in {Top.old, None} /\ cur' \in Tracker
    BY <1>0, <1>2, <2>2 DEF Returns
  <2>4. CallsNest'
    <3>1. ASSUME NEW i \in 1 .. Len(frames')
          PROVE  frames'[i].old = None \/ (i > 1 /\ frames'[i].old = frames'[i - 1].tracker)
      <4>1. /\ i \in 1 .. Len(frames) /\ frames'[i] = frames[i]
            /\ i > 1 => frames'[i - 1] = frames[i - 1]
        BY <1>0, <2>1
      <4> QED
        BY <4>1 DEF CallsNest
    <3> QED
      BY <3>1 DEF CallsNest
  <2>5. OwnTracker'
    <3>0. Len(frames) \in 1 .. Len(frames)
      BY <1>0, <2>1
    <3>1. Top.old = None \/ (Len(frames) > 1 /\ Top.old = frames[Len(frames) - 1].tracker)
      BY <2>2, <3>0 DEF CallsNest
    <3>2. CASE Len(frames) = 1
      <4>1. frames' = << >> /\ cur' = None
        BY <2>1, <2>3, <3>1, <3>2
      <4> QED
        BY <4>1 DEF OwnTracker, InCode
    <3>3. CASE Len(frames) > 1
      <4>1. frames' # << >> /\ Top' = frames[Len(frames) - 1]
        BY <1>0, <2>1, <3>3 DEF Top
      <4> QED
        BY <2>3, <3>1, <4>1 DEF OwnTracker, InCode
    <3> QED
      BY <1>0, <2>1, <3>2, <3>3
  <2> QED
    BY <2>1, <2>3, <2>4, <2>5
<1>3. CASE Remains
  <2>1. frames' = frames /\ cur' \in {cur, None}
    BY <1>3 DEF Remains
  <2>2. OwnTracker' /\ CallsNest'
    BY <2>1 DEF OwnTracker, CallsNest, InCode, Top
  <2> QED
    BY <1>0, <2>1, <2>2
<1> QED
  BY <1>1, <1>2, <1>3

Calls ==
    \/ HandleEvent \/ RunCallback
    \/ \E r \in Requests : Dispatch(r)
    \/ \E h \in Slots : CallHeld(h)
    \/ \E w \in Runners : ResumeDirectly(w)

LEMMA CallsPush ==
    ASSUME IInv, Calls
    PROVE  Pushes
<1>0. /\ cur \in Tracker /\ None \in Tracker /\ None \in Run
      /\ pending \in Seq(Callbacks) /\ held \in [Slots -> {None} \cup Wrapped]
      /\ on \in [Runners -> Tracker] /\ \A r : Live(r) \in {r, None}
  BY DEF IInv, TypeOK, Tracker, Run, Live
<1>1. ASSUME NEW kind \in {"event", "callback", "call"}, NEW tracker \in Tracker,
             NEW counted \in Tracker, NEW run \in Run,
             Call(Frame(kind, tracker, counted, run))
      PROVE  Pushes
  <2> DEFINE f == Frame(kind, tracker, counted, run)
  <2>1. f \in Frames /\ f.old = cur /\ f.kind # "export" /\ Call(f)
    BY <1>0, <1>1 DEF Frame, Frames
  <2> QED
    BY <2>1 DEF Pushes
<1>2. CASE HandleEvent
  BY <1>0, <1>1, <1>2 DEF HandleEvent
<1>3. CASE RunCallback
  <2>1. Head(pending) \in Callbacks
    BY <1>0, <1>3 DEF RunCallback
  <2> DEFINE callback == Head(pending)
             counted  == IF callback.slot = None THEN callback.counted
                         ELSE held[callback.slot].counted
  <2>2. callback.tracker \in Tracker /\ callback.run \in Run
    BY <2>1 DEF Callbacks
  <2>3. counted \in Tracker
    <3>1. CASE callback.slot = None
      BY <2>1, <3>1 DEF Callbacks
    <3>2. CASE callback.slot # None
      <4>1. Head(pending) = pending[1] /\ 1 \in 1 .. Len(pending)
        BY <1>0, <1>3 DEF RunCallback
      <4>2. callback.slot \in Slots /\ held[callback.slot] # None
        BY <2>1, <3>2, <4>1 DEF Callbacks, IInv, QueueHeld
      <4>3. held[callback.slot] \in Wrapped
        BY <1>0, <4>2
      <4> QED
        BY <3>2, <4>3 DEF Wrapped
    <3> QED
      BY <3>1, <3>2
  <2>4. Live(callback.tracker) \in Tracker
    BY <1>0, <2>2
  <2>5. Call(Frame("callback", Live(callback.tracker), counted, callback.run))
    BY <1>3 DEF RunCallback
  <2> QED
    BY <1>1, <2>2, <2>3, <2>4, <2>5
<1>4. ASSUME NEW r \in Requests, Dispatch(r) PROVE Pushes
  <2> DEFINE f == Frame("export", r, None, None)
  <2>1. f \in Frames /\ f.old = cur /\ f.tracker = r /\ Call(f)
    BY <1>0, <1>4 DEF Dispatch, Frame, Frames, Tracker
  <2>2. stage'[r] = "dispatched"
    BY <1>4 DEF Dispatch, IInv, TypeOK
  <2> QED
    BY <2>1, <2>2 DEF Pushes
<1>5. ASSUME NEW h \in Slots, CallHeld(h) PROVE Pushes
  <2>1. held[h] \in Wrapped
    BY <1>0, <1>5 DEF CallHeld
  <2>2. Live(held[h].tracker) \in Tracker
    BY <1>0, <2>1 DEF Wrapped
  <2> QED
    BY <1>0, <1>1, <1>5, <2>2 DEF CallHeld
<1>6. ASSUME NEW w \in Runners, ResumeDirectly(w) PROVE Pushes
  <2>1. Live(on[w]) \in Tracker /\ w \in Run
    BY <1>0 DEF Run
  <2> QED
    BY <1>0, <1>1, <1>6, <2>1 DEF ResumeDirectly
<1> QED
  BY <1>2, <1>3, <1>4, <1>5, <1>6 DEF Calls

(* Every step pushes a frame, returns from one, or remains where it is.    *)
LEMMA Shape ==
    ASSUME IInv, Next
    PROVE  Pushes \/ Returns \/ Remains
<1>1. CASE Calls
  BY <1>1, CallsPush
<1>2. ASSUME NEW r \in Requests, NewRequest(r) PROVE Remains
  BY <1>2 DEF NewRequest, Remains
<1>3. ASSUME NEW r \in Requests, ConnectionClose(r) PROVE Remains
  <2>1. cur' \in {cur, None}
    BY <1>3, Attempt DEF ConnectionClose
  <2> QED
    BY <1>3, <2>1 DEF ConnectionClose, Remains
<1>4. CASE AddCallback
  BY <1>4 DEF AddCallback, Remains
<1>5. ASSUME NEW h \in Slots, Wrap(h) \/ AddHeld(h) PROVE Remains
  BY <1>5 DEF Wrap, AddHeld, Remains
<1>6. ASSUME NEW w \in Runners, StartRunner(w) \/ Resolve(w) \/ ResolveInThread(w)
       PROVE  Remains
  BY <1>6 DEF StartRunner, Resolve, ResolveInThread, Remains
<1>7. CASE EndEvent
  BY <1>7 DEF EndEvent, Returns
<1>8. CASE EndDispatch
  <2>1. cur' \in {Top.old, None}
    BY <1>8, Attempt DEF EndDispatch
  <2> QED
    BY <1>8, <2>1 DEF EndDispatch, Returns
<1>9. CASE EndCall
  <2>1. PICK refs \in RefsAfter, raised \in BOOLEAN :
          /\ InCode /\ frames' = Front(frames)
          /\ IF Top.tracker = None \/ raised THEN cur' = Top.old
             ELSE TryFinish(Top.tracker, can_finalize, refs, depth', Top.old)
    BY <1>9 DEF EndCall
  <2>2. cur' \in {Top.old, None}
    BY <2>1, Attempt
  <2> QED
    BY <2>1, <2>2 DEF Returns
<1>10. CASE EndCallback
  <2>1. PICK refs \in RefsAfter, raised \in BOOLEAN :
          /\ InCode /\ frames' = Front(frames)
          /\ CASE Top.counted # None ->
                    TryFinish(Top.counted, can_finalize, ref', depth', Top.old)
               [] Top.counted = None /\ Top.tracker # None /\ ~raised ->
                    TryFinish(Top.tracker, can_finalize, refs, depth', Top.old)
               [] Top.counted = None /\ (Top.tracker = None \/ raised) ->
                    cur' = Top.old /\ UNCHANGED <<is_finalized, reports, misnested>>
    BY <1>10 DEF EndCallback
  <2>2. cur' \in {Top.old, None}
    BY <2>1, Attempt
  <2> QED
    BY <2>1, <2>2 DEF Returns
<1>11. CASE Idle
  BY <1>11 DEF Idle, vars, Remains
<1> QED
  BY <1>1, <1>2, <1>3, <1>4, <1>5, <1>6, <1>7, <1>8, <1>9, <1>10, <1>11
     DEF Next, Return, Code, Connection, Calls

-----------------------------------------------------------------------------
(* Requests.                                                               *)

Passes == UNCHANGED <<stage, can_finalize, is_finalized, reports>>

Begins(r) ==
    /\ stage[r] = "idle"
    /\ \E s \in {"open", "untraced"} : stage' = [stage EXCEPT ![r] = s]
    /\ UNCHANGED <<can_finalize, is_finalized, reports>>

Executes(r) ==
    /\ stage[r] = "open" /\ stage' = [stage EXCEPT ![r] = "dispatched"]
    /\ UNCHANGED <<can_finalize, is_finalized, reports>>

Marks(r) ==
    /\ stage[r] \in {"open", "dispatched"} /\ stage' = stage
    /\ can_finalize' = [can_finalize EXCEPT ![r] = TRUE]
    /\ Finishes(r, can_finalize') \/ UNCHANGED <<is_finalized, reports>>

Ends(r) == stage' = stage /\ can_finalize' = can_finalize /\ Finishes(r, can_finalize)

(* A step concerns one request at the most.                                *)
LEMMA RequestStep ==
    ASSUME IInv, Next
    PROVE  Passes \/ \E r \in Requests : Begins(r) \/ Executes(r) \/ Marks(r) \/ Ends(r)
<1>0. InCode => Top \in Frames /\ Top = frames[Len(frames)] /\ Len(frames) \in 1 .. Len(frames)
  BY DEF IInv, TypeOK, InCode, Top
<1>1. ASSUME NEW r \in Requests, NEW refs, NEW depths, NEW before,
             TryFinish(r, can_finalize, refs, depths, before),
             UNCHANGED <<stage, can_finalize>>
      PROVE  Passes \/ Ends(r)
  BY <1>1, Attempt DEF Passes, Ends
<1>2. CASE HandleEvent
  BY <1>2 DEF HandleEvent, Passes
<1>3. CASE RunCallback
  BY <1>3 DEF RunCallback, Passes
<1>4. ASSUME NEW r \in Requests, NewRequest(r) PROVE Begins(r)
  BY <1>4 DEF NewRequest, Begins, trackerVars
<1>5. ASSUME NEW r \in Requests, Dispatch(r) PROVE Executes(r)
  BY <1>5 DEF Dispatch, Executes
<1>6. ASSUME NEW r \in Requests, ConnectionClose(r) PROVE Marks(r)
  BY <1>6, Attempt DEF ConnectionClose, Marks
<1>7. CASE AddCallback
  BY <1>7 DEF AddCallback, Passes
<1>8. ASSUME NEW h \in Slots, Wrap(h) \/ AddHeld(h) \/ CallHeld(h) PROVE Passes
  BY <1>8 DEF Wrap, AddHeld, CallHeld, Passes, trackerVars
<1>9. ASSUME NEW w \in Runners,
             StartRunner(w) \/ Resolve(w) \/ ResolveInThread(w) \/ ResumeDirectly(w)
      PROVE  Passes
  BY <1>9 DEF StartRunner, Resolve, ResolveInThread, ResumeDirectly, Passes, trackerVars
<1>10. CASE EndEvent
  BY <1>10 DEF EndEvent, Passes, trackerVars
<1>11. CASE EndDispatch
  <2>1. Top.tracker \in Requests /\ stage[Top.tracker] = "dispatched"
    BY <1>0, <1>11 DEF EndDispatch, IInv, OnlyOpenFinish
  <2>2. Marks(Top.tracker)
    BY <1>11, <2>1, Attempt DEF EndDispatch, Marks
  <2> QED
    BY <2>1, <2>2
<1>12. CASE EndCall
  <2>1. PICK refs \in RefsAfter, raised \in BOOLEAN :
          /\ InCode /\ UNCHANGED <<stage, can_finalize>>
          /\ IF Top.tracker = None \/ raised
               THEN cur' = Top.old /\ UNCHANGED <<is_finalized, reports, misnested>>
               ELSE TryFinish(Top.tracker, can_finalize, refs, depth', Top.old)
    BY <1>12 DEF EndCall
  <2>2. CASE Top.tracker = None \/ raised
    BY <2>1, <2>2 DEF Passes
  <2>3. CASE ~(Top.tracker = None \/ raised)
    <3>1. Top.tracker \in Requests
      BY <1>0, <2>1, <2>3 DEF Frames, Tracker
    <3> QED
      BY <1>1, <2>1, <2>3, <3>1
  <2> QED
    BY <2>2, <2>3
<1>13. CASE EndCallback
  <2>1. PICK refs \in RefsAfter, raised \in BOOLEAN :
          /\ InCode /\ UNCHANGED <<stage, can_finalize>>
          /\ CASE Top.counted # None ->
                    TryFinish(Top.counted, can_finalize, ref', depth', Top.old)
               [] Top.counted = None /\ Top.tracker # None /\ ~raised ->
                    TryFinish(Top.tracker, can_finalize, refs, depth', Top.old)
               [] Top.counted = None /\ (Top.tracker = None \/ raised) ->
                    cur' = Top.old /\ UNCHANGED <<is_finalized, reports, misnested>>
    BY <1>13 DEF EndCallback
  <2>2. CASE Top.counted # None
    <3>1. Top.counted \in Requests
      BY <1>0, <2>1, <2>2 DEF Frames, Tracker
    <3> QED
      BY <1>1, <2>1, <2>2, <3>1
  <2>3. CASE Top.counted = None /\ Top.tracker # None /\ ~raised
    <3>1. Top.tracker \in Requests
      BY <1>0, <2>1, <2>3 DEF Frames, Tracker
    <3> QED
      BY <1>1, <2>1, <2>3, <3>1
  <2>4. CASE Top.counted = None /\ (Top.tracker = None \/ raised)
    BY <2>1, <2>4 DEF Passes
  <2> QED
    BY <2>2, <2>3, <2>4
<1>14. CASE Idle
  BY <1>14 DEF Idle, vars, Passes, trackerVars
<1> QED
  BY <1>2, <1>3, <1>4, <1>5, <1>6, <1>7, <1>8, <1>9, <1>10, <1>11, <1>12, <1>13, <1>14
     DEF Next, Return, Code, Connection

(* What such a step keeps of the requests.                                 *)
LEMMA RequestsKept ==
    ASSUME IInv, Passes \/ \E r \in Requests : Begins(r) \/ Executes(r) \/ Marks(r) \/ Ends(r)
    PROVE  /\ stage' \in [Requests -> {"idle", "untraced", "open", "dispatched"}]
           /\ can_finalize' \in [Requests -> BOOLEAN]
           /\ is_finalized' \in [Requests -> BOOLEAN] /\ reports' \in [Requests -> Nat]
           /\ \A r \in Requests : stage[r] = "dispatched" => stage'[r] = "dispatched"
           /\ \A r \in Requests : can_finalize'[r] => stage'[r] \in {"open", "dispatched"}
           /\ ReportedOnce'
<1> USE DEF IInv
<1>0. /\ stage \in [Requests -> {"idle", "untraced", "open", "dispatched"}]
      /\ can_finalize \in [Requests -> BOOLEAN]
      /\ is_finalized \in [Requests -> BOOLEAN] /\ reports \in [Requests -> Nat]
      /\ \A r \in Requests : can_finalize[r] => stage[r] \in {"open", "dispatched"}
  BY DEF TypeOK, OnlyOpenFinish
<1>1. CASE Passes
  BY <1>0, <1>1 DEF Passes, ReportedOnce
<1>2. ASSUME NEW r \in Requests, NEW can, Finishes(r, can),
             can_finalize'[r], stage'[r] \in {"open", "dispatched"},
             \A q \in Requests : can_finalize[q] => can_finalize'[q]
      PROVE  ReportedOnce'
  <2>1. PICK n \in {0, 1} : reports' = [reports EXCEPT ![r] = @ + n]
    BY <1>2 DEF Finishes
  <2>2. /\ is_finalized'[r] /\ reports[r] = 0
        /\ \A q \in Requests : q # r => is_finalized'[q] = is_finalized[q]
    BY <1>0, <1>2 DEF Finishes, ReportedOnce
  <2>3. /\ reports'[r] \in {0, 1}
        /\ \A q \in Requests : q # r => reports'[q] = reports[q]
    BY <1>0, <2>1, <2>2
  <2> QED
    BY <1>2, <2>2, <2>3 DEF ReportedOnce
<1>3. CASE \E r \in Requests : Begins(r) \/ Executes(r)
  BY <1>0, <1>3 DEF Begins, Executes, ReportedOnce
<1>4. ASSUME NEW r \in Requests, Marks(r)
      PROVE  /\ can_finalize' \in [Requests -> BOOLEAN]
             /\ \A q \in Requests : can_finalize[q] => can_finalize'[q]
             /\ \A q \in Requests : can_finalize'[q] => stage'[q] \in {"open", "dispatched"}
             /\ can_finalize'[r] /\ stage' = stage
  <2>1. can_finalize' \in [Requests -> BOOLEAN]
    BY <1>0, <1>4, Zenon DEF Marks
  <2>2. /\ can_finalize'[r]
        /\ \A q \in Requests : q # r => can_finalize'[q] = can_finalize[q]
    BY <1>0, <1>4 DEF Marks
  <2> QED
    BY <1>0, <1>4, <2>1, <2>2 DEF Marks
<1>5. ASSUME NEW r \in Requests, Marks(r), Finishes(r, can_finalize')
      PROVE  /\ is_finalized' \in [Requests -> BOOLEAN] /\ reports' \in [Requests -> Nat]
             /\ ReportedOnce'
  BY <1>2, <1>4, <1>5, FinishTypes DEF Marks
<1>6. ASSUME NEW r \in Requests, Marks(r), UNCHANGED <<is_finalized, reports>>
      PROVE  /\ is_finalized' \in [Requests -> BOOLEAN] /\ reports' \in [Requests -> Nat]
             /\ ReportedOnce'
  BY <1>0, <1>4, <1>6 DEF ReportedOnce
<1>7. ASSUME NEW r \in Requests, Ends(r)
      PROVE  /\ stage' = stage /\ can_finalize' = can_finalize
             /\ is_finalized' \in [Requests -> BOOLEAN] /\ reports' \in [Requests -> Nat]
             /\ ReportedOnce'
  <2>1. can_finalize'[r] /\ stage'[r] \in {"open", "dispatched"}
    BY <1>0, <1>7 DEF Ends, Finishes
  <2> QED
    BY <1>2, <1>7, <2>1, FinishTypes DEF Ends
<1> QED
  BY <1>0, <1>1, <1>3, <1>4, <1>5, <1>6, <1>7 DEF Marks

-----------------------------------------------------------------------------
(* The queue of callbacks, the coroutines and the counts.                  *)

(* A callback that is added has the right type, and stays callable.        *)
LEMMA Queued ==
    ASSUME IInv, NEW tracker \in Tracker, NEW counted \in Tracker, NEW run \in Run,
           NEW slot \in Slots \cup {None}, slot # None => held[slot] # None,
           pending' = Append(pending, Callback(tracker, counted, run, slot)),
           \A h \in Slots : held[h] # None => held'[h] # None
    PROVE  pending' \in Seq(Callbacks) /\ QueueHeld'
<1> DEFINE c == Callback(tracker, counted, run, slot)
<1>1. c \in Callbacks /\ c.slot = slot
  BY DEF Callback, Callbacks
<1>2. pending \in Seq(Callbacks)
  BY DEF IInv, TypeOK
<1> HIDE DEF c
<1>3. /\ pending' \in Seq(Callbacks) /\ Len(pending') = Len(pending) + 1
      /\ pending'[Len(pending) + 1] = c /\ Len(pending) \in Nat
      /\ \A i \in 1 .. Len(pending) : pending'[i] = pending[i]
  BY <1>1, <1>2, AppendFacts DEF c
<1>4. ASSUME NEW i \in 1 .. Len(pending'), pending'[i].slot # None
      PROVE  held'[pending'[i].slot] # None
  <2>1. CASE i \in 1 .. Len(pending)
    <3>1. pending[i] \in Callbacks /\ pending'[i] = pending[i]
      BY <1>2, <1>3, <2>1
    <3>2. pending[i].slot \in Slots /\ held[pending[i].slot] # None
      BY <1>4, <2>1, <3>1 DEF Callbacks, IInv, QueueHeld
    <3> QED
      BY <3>1, <3>2
  <2>2. CASE i = Len(pending) + 1
    BY <1>1, <1>3, <1>4, <2>2
  <2> QED
    BY <1>3, <2>1, <2>2
<1> QED
  BY <1>3, <1>4 DEF QueueHeld

LEMMA LoopKept ==
    ASSUME IInv, Next
    PROVE  /\ pending' \in Seq(Callbacks) /\ QueueHeld'
           /\ held' \in [Slots -> {None} \cup Wrapped]
           /\ runner' \in [Runners -> {"free", "waiting", "queued"}]
           /\ on' \in [Runners -> Tracker]
<1>0. /\ cur \in Tracker /\ None \in Tracker /\ None \in Run /\ Runners \subseteq Run
      /\ pending \in Seq(Callbacks) /\ held \in [Slots -> {None} \cup Wrapped]
      /\ runner \in [Runners -> {"free", "waiting", "queued"}]
      /\ on \in [Runners -> Tracker] /\ \A r \in Tracker : Live(r) \in Tracker
      /\ None \notin Slots /\ None \notin Wrapped
  BY NoneAssumption DEF IInv, TypeOK, Tracker, Run, Live, Wrapped
<1>1. CASE UNCHANGED loopVars
  <2>1. QueueHeld'
    BY <1>1 DEF IInv, QueueHeld, loopVars
  <2> QED
    BY <1>0, <1>1, <2>1 DEF loopVars
<1>2. CASE RunCallback
  <2>1. pending' = Tail(pending) /\ pending # << >> /\ UNCHANGED <<held, runner, on>>
    BY <1>2 DEF RunCallback
  <2>2. /\ pending' \in Seq(Callbacks)
        /\ \A i \in 1 .. Len(pending') : i + 1 \in 1 .. Len(pending)
                                         /\ pending'[i] = pending[i + 1]
    BY <1>0, <2>1
  <2>3. QueueHeld'
    BY <2>1, <2>2 DEF IInv, QueueHeld
  <2> QED
    BY <1>0, <2>1, <2>2, <2>3
<1>3. CASE AddCallback
  <2>1. /\ pending' = Append(pending, Callback(cur, cur, None, None))
        /\ UNCHANGED <<held, runner, on>>
    BY <1>3 DEF AddCallback
  <2>2. pending' \in Seq(Callbacks) /\ QueueHeld'
    BY <1>0, <2>1, Queued
  <2> QED
    BY <1>0, <2>1, <2>2
<1>4. ASSUME NEW h \in Slots, Wrap(h)
      PROVE  /\ held' \in [Slots -> {None} \cup Wrapped] /\ QueueHeld'
             /\ UNCHANGED <<pending, runner, on>>
  <2>1. held' = [held EXCEPT ![h] = [tracker |-> cur, counted |-> cur]]
        /\ UNCHANGED <<pending, runner, on>> /\ held[h] = None
    BY <1>4 DEF Wrap
  <2>2. [tracker |-> cur, counted |-> cur] \in Wrapped
    BY <1>0 DEF Wrapped
  <2>3. held' \in [Slots -> {None} \cup Wrapped]
    BY <1>0, <2>1, <2>2
  <2>4. \A q \in Slots : held[q] # None => held'[q] = held[q]
    BY <1>0, <2>1
  <2>5. ASSUME NEW i \in 1 .. Len(pending) PROVE pending[i].slot \in Slots \cup {None}
    <3>1. pending[i] \in Callbacks
      BY <1>0
    <3> QED
      BY <3>1 DEF Callbacks
  <2>6. QueueHeld'
    BY <2>1, <2>4, <2>5 DEF IInv, QueueHeld
  <2> QED
    BY <2>1, <2>3, <2>6
<1>5. ASSUME NEW h \in Slots, AddHeld(h)
      PROVE  /\ pending' \in Seq(Callbacks) /\ QueueHeld'
             /\ held' \in [Slots -> {None} \cup Wrapped] /\ UNCHANGED <<runner, on>>
  <2>1. /\ held[h] # None /\ UNCHANGED <<runner, on>>
        /\ pending' = Append(pending, Callback(held[h].tracker, None, None, h))
        /\ held' = [held EXCEPT ![h].counted = None] \/ held' = held
    BY <1>5 DEF AddHeld
  <2>2. held[h] \in Wrapped /\ held[h].tracker \in Tracker
    BY <1>0, <2>1 DEF Wrapped
  <2>3. CASE held' = held
    <3>1. \A q \in Slots : held[q] # None => held'[q] # None
      BY <2>3
    <3> QED
      BY <1>0, <2>1, <2>2, <2>3, <3>1, Queued
  <2>4. CASE held' = [held EXCEPT ![h].counted = None]
    <3>1. [held[h] EXCEPT !.counted = None] \in Wrapped
      BY <1>0, <2>2 DEF Wrapped
    <3>2. /\ held' \in [Slots -> {None} \cup Wrapped]
          /\ held'[h] = [held[h] EXCEPT !.counted = None]
          /\ \A q \in Slots : q # h => held'[q] = held[q]
      BY <1>0, <2>4, <3>1
    <3>3. held'[h] # None
      BY <1>0, <3>1, <3>2 DEF Wrapped, Tracker
    <3>4. \A q \in Slots : held[q] # None => held'[q] # None
      BY <3>2, <3>3
    <3> QED
      BY <1>0, <2>1, <2>2, <3>2, <3>4, Queued
  <2> QED
    BY <2>1, <2>3, <2>4
<1>6. ASSUME NEW w \in Runners, StartRunner(w)
      PROVE  /\ runner' \in [Runners -> {"free", "waiting", "queued"}]
             /\ on' \in [Runners -> Tracker] /\ UNCHANGED <<pending, held>>
  BY <1>0, <1>6 DEF StartRunner
<1>7. ASSUME NEW w \in Runners, Resolve(w) \/ ResolveInThread(w)
      PROVE  /\ pending' \in Seq(Callbacks) /\ QueueHeld'
             /\ runner' \in [Runners -> {"free", "waiting", "queued"}]
             /\ UNCHANGED <<held, on>>
  <2>1. PICK tracker \in Tracker, counted \in Tracker :
          pending' = Append(pending, Callback(tracker, counted, w, None))
    BY <1>0, <1>7 DEF Resolve, ResolveInThread
  <2>2. /\ runner' = [runner EXCEPT ![w] = "queued"] /\ UNCHANGED <<held, on>>
    BY <1>7 DEF Resolve, ResolveInThread
  <2>3. pending' \in Seq(Callbacks) /\ QueueHeld'
    BY <1>0, <2>1, <2>2, Queued
  <2> QED
    BY <1>0, <2>2, <2>3
<1>8. ASSUME NEW w \in Runners, ResumeDirectly(w)
      PROVE  /\ runner' \in [Runners -> {"free", "waiting", "queued"}]
             /\ UNCHANGED <<pending, held, on>>
  BY <1>0, <1>8 DEF ResumeDirectly
<1>9. CASE EndCall \/ EndCallback
  <2>0. Top.run \in Run
    <3>1. InCode
      BY <1>9 DEF EndCall, EndCallback
    <3>2. Top \in Frames
      BY <3>1 DEF IInv, TypeOK, InCode, Top
    <3> QED
      BY <3>2 DEF Frames
  <2>1. UNCHANGED <<pending, held>> /\ \E refs \in RefsAfter : EndRun(Top.run, refs)
    BY <1>9 DEF EndCall, EndCallback
  <2>2. /\ runner' \in [Runners -> {"free", "waiting", "queued"}]
        /\ on' \in [Runners -> Tracker]
    BY <1>0, <2>0, <2>1 DEF EndRun, Run
  <2> QED
    BY <1>0, <2>1, <2>2 DEF IInv, QueueHeld
<1>10. ASSUME \/ HandleEvent \/ EndEvent \/ EndDispatch \/ Idle
              \/ \E r \in Requests : Connection(r)
              \/ \E h \in Slots : CallHeld(h)
       PROVE  UNCHANGED loopVars
  BY <1>10 DEF HandleEvent, EndEvent, EndDispatch, Idle, vars, Connection, NewRequest, Dispatch,
               ConnectionClose, CallHeld
<1>11. UNCHANGED <<pending, held>> => QueueHeld'
  BY DEF IInv, QueueHeld
<1> QED
  BY <1>0, <1>1, <1>2, <1>3, <1>4, <1>5, <1>6, <1>7, <1>8, <1>9, <1>10, <1>11
     DEF Next, Return, Code

CountTypes ==
    /\ ref \in [Requests -> Int] /\ depth \in [Requests -> Int]
    /\ misnested \subseteq Requests
HistoryTypes == work \in 0 .. MaxWork /\ leaked \subseteq Tracker /\ resumed \subseteq Tracker

LEMMA CountsKept ==
    ASSUME IInv, Next
    PROVE  CountTypes'
<1>0. /\ ref \in [Requests -> Int] /\ depth \in [Requests -> Int] /\ misnested \subseteq Requests
      /\ cur \in Tracker
      /\ InCode => Top.tracker \in Tracker /\ Top.counted \in Tracker
                   /\ (Top.kind = "export" => Top.tracker \in Requests)
  <2>1. InCode => Top \in Frames /\ Len(frames) \in 1 .. Len(frames)
    BY DEF IInv, TypeOK, InCode, Top
  <2>2. InCode => (Top.kind = "export" => Top.tracker \in Requests)
    BY <2>1 DEF IInv, OnlyOpenFinish, Top
  <2> QED
    BY <2>1, <2>2 DEF IInv, TypeOK, Frames
<1>2. ASSUME NEW r \in Tracker, Count(r) PROVE ref' \in [Requests -> Int]
  BY <1>0, <1>2 DEF Count, Tracker
<1>3. ASSUME NEW r \in Requests, NEW can, NEW refs, NEW depths, NEW before,
             TryFinish(r, can, refs, depths, before)
      PROVE  misnested' \subseteq Requests
  BY <1>0, <1>3, Attempt
<1>4. ASSUME NEW r \in Tracker PROVE EndTimer(r) \in [Requests -> Int]
  BY <1>0 DEF EndTimer, Tracker
<1>5. ASSUME NEW refs \in RefsAfter
      PROVE  /\ refs \in [Requests -> Int]
             /\ \A r \in Tracker : Uncount(r, refs) \in [Requests -> Int]
  <2>1. refs \in [Requests -> Int]
    BY <1>0 DEF RefsAfter
  <2> QED
    BY <2>1 DEF Uncount, Tracker
<1>6. CASE Calls
  <2>1. PICK f \in Frames : Call(f)
    BY <1>6, CallsPush DEF Pushes
  <2>2. f.tracker \in Tracker /\ depth' = IF f.tracker = None THEN depth
                                          ELSE [depth EXCEPT ![f.tracker] = @ + 1]
    BY <2>1 DEF Call, Frames
  <2>3. depth' \in [Requests -> Int]
    BY <1>0, <2>2 DEF Tracker
  <2>4. UNCHANGED <<ref, misnested>>
    BY <1>6 DEF Calls, HandleEvent, RunCallback, Dispatch, CallHeld, ResumeDirectly
  <2> QED
    BY <1>0, <2>3, <2>4 DEF CountTypes
<1>7. ASSUME NEW r \in Requests, NewRequest(r) \/ ConnectionClose(r) PROVE CountTypes'
  BY <1>0, <1>3, <1>7 DEF NewRequest, ConnectionClose, trackerVars, CountTypes
<1>8. CASE AddCallback
  BY <1>0, <1>2, <1>8 DEF AddCallback, CountTypes
<1>9. ASSUME NEW h \in Slots, Wrap(h) PROVE CountTypes'
  BY <1>0, <1>9 DEF Wrap, trackerVars, CountTypes
<1>10. ASSUME NEW h \in Slots, AddHeld(h) PROVE CountTypes'
  <2>1. UNCHANGED ref \/ Count(cur)
    BY <1>10 DEF AddHeld
  <2> QED
    BY <1>0, <1>2, <1>10, <2>1 DEF AddHeld, CountTypes
<1>11. ASSUME NEW w \in Runners, StartRunner(w) PROVE CountTypes'
  BY <1>0, <1>2, <1>11 DEF StartRunner, CountTypes
<1>12. ASSUME NEW w \in Runners, Resolve(w) PROVE CountTypes'
  <2>1. Live(on[w]) \in Tracker
    BY DEF IInv, TypeOK, Tracker, Live
  <2> QED
    BY <1>0, <1>2, <1>12, <2>1 DEF Resolve, CountTypes
<1>13. ASSUME NEW w \in Runners, ResolveInThread(w) PROVE CountTypes'
  BY <1>0, <1>13 DEF ResolveInThread, trackerVars, CountTypes
<1>14. CASE EndEvent \/ Idle
  BY <1>0, <1>14 DEF EndEvent, Idle, vars, trackerVars, CountTypes
<1>15. CASE EndDispatch
  <2>1. /\ Top.tracker \in Requests /\ depth' = EndTimer(Top.tracker) /\ ref' = ref
        /\ TryFinish(Top.tracker, can_finalize', ref, depth', Top.old)
    BY <1>0, <1>15 DEF EndDispatch
  <2> QED
    BY <1>0, <1>3, <1>4, <2>1 DEF CountTypes, Tracker
<1>16. CASE EndCall
  <2>1. PICK refs \in RefsAfter, raised \in BOOLEAN :
          /\ InCode /\ ref' = refs /\ depth' = EndTimer(Top.tracker)
          /\ IF Top.tracker = None \/ raised
               THEN cur' = Top.old /\ UNCHANGED <<is_finalized, reports, misnested>>
               ELSE TryFinish(Top.tracker, can_finalize, refs, depth', Top.old)
    BY <1>16 DEF EndCall
  <2>2. ref' \in [Requests -> Int] /\ depth' \in [Requests -> Int]
    BY <1>0, <1>4, <1>5, <2>1
  <2>3. misnested' \subseteq Requests
    BY <1>0, <1>3, <2>1 DEF Tracker
  <2> QED
    BY <2>2, <2>3 DEF CountTypes
<1>17. CASE EndCallback
  <2>1. PICK refs \in RefsAfter, raised \in BOOLEAN :
          /\ InCode /\ ref' = Uncount(Top.counted, refs) /\ depth' = EndTimer(Top.tracker)
          /\ CASE Top.counted # None ->
                    TryFinish(Top.counted, can_finalize, ref', depth', Top.old)
               [] Top.counted = None /\ Top.tracker # None /\ ~raised ->
                    TryFinish(Top.tracker, can_finalize, refs, depth', Top.old)
               [] Top.counted = None /\ (Top.tracker = None \/ raised) ->
                    cur' = Top.old /\ UNCHANGED <<is_finalized, reports, misnested>>
    BY <1>17 DEF EndCallback
  <2>2. ref' \in [Requests -> Int] /\ depth' \in [Requests -> Int]
    BY <1>0, <1>4, <1>5, <2>1
  <2>3. misnested' \subseteq Requests
    BY <1>0, <1>3, <2>1 DEF Tracker
  <2> QED
    BY <2>2, <2>3 DEF CountTypes
<1> QED
  BY <1>6, <1>7, <1>8, <1>9, <1>10, <1>11, <1>12, <1>13, <1>14, <1>15, <1>16, <1>17
     DEF Next, Return, Code, Connection, Calls

LEMMA HistoryKept ==
    ASSUME IInv, Next
    PROVE  HistoryTypes'
<1>0. /\ work \in 0 .. MaxWork /\ leaked \subseteq Tracker /\ resumed \subseteq Tracker
      /\ cur \in Tracker /\ on \in [Runners -> Tracker]
  BY DEF IInv, TypeOK
<1>1. ASSUME Work PROVE work' \in 0 .. MaxWork
  BY <1>0, <1>1, BoundAssumption DEF Work, CanCall
<1>2. ASSUME \/ HandleEvent \/ RunCallback \/ EndEvent \/ EndDispatch \/ Idle
             \/ \E r \in Requests : Connection(r)
             \/ \E w \in Runners : Resolve(w) \/ ResolveInThread(w)
      PROVE  HistoryTypes'
  BY <1>0, <1>2 DEF HandleEvent, RunCallback, EndEvent, EndDispatch, Idle, Connection, NewRequest,
     Dispatch, ConnectionClose, Resolve, ResolveInThread, historyVars, vars, HistoryTypes
<1>3. CASE \/ AddCallback \/ \E h \in Slots : Wrap(h) \/ CallHeld(h)
           \/ \E w \in Runners : StartRunner(w)
  BY <1>0, <1>1, <1>3 DEF AddCallback, Wrap, CallHeld, StartRunner, HistoryTypes
<1>4. ASSUME NEW h \in Slots, AddHeld(h) PROVE HistoryTypes'
  <2>1. held[h] # None => held[h].counted \in Tracker
    BY DEF IInv, TypeOK, Wrapped
  <2>2. /\ held[h] # None /\ Work /\ resumed' = resumed
        /\ leaked' \in {leaked, leaked \cup {held[h].counted}, leaked \cup {cur}}
    BY <1>4 DEF AddHeld
  <2> QED
    BY <1>0, <1>1, <2>1, <2>2 DEF HistoryTypes
<1>5. ASSUME NEW w \in Runners, ResumeDirectly(w) PROVE HistoryTypes'
  BY <1>0, <1>1, <1>5 DEF ResumeDirectly, HistoryTypes
<1>6. CASE EndCall \/ EndCallback
  <2>1. PICK refs \in RefsAfter : EndRun(Top.run, refs) /\ UNCHANGED <<leaked, resumed>>
    BY <1>6 DEF EndCall, EndCallback
  <2>2. work' \in 0 .. MaxWork
    BY <1>0, <2>1, BoundAssumption DEF EndRun
  <2> QED
    BY <1>0, <2>1, <2>2 DEF HistoryTypes
<1> QED
  BY <1>2, <1>3, <1>4, <1>5, <1>6 DEF Next, Return, Code

-----------------------------------------------------------------------------
(* The invariant.                                                          *)

LEMMA InitInv == Init => IInv
<1> SUFFICES ASSUME Init PROVE IInv
  OBVIOUS
<1>1. TypeOK
  <2>1. frames \in Seq(Frames) /\ pending \in Seq(Callbacks)
    BY DEF Init
  <2>2. /\ can_finalize \in [Requests -> BOOLEAN] /\ is_finalized \in [Requests -> BOOLEAN]
        /\ reports \in [Requests -> Nat]
    BY DEF Init
  <2>3. /\ ref \in [Requests -> Int] /\ depth \in [Requests -> Int] /\ work \in 0 .. MaxWork
    BY BoundAssumption DEF Init
  <2> QED
    BY <2>1, <2>2, <2>3 DEF Init, TypeOK, Tracker
<1>2. OwnTracker /\ CallsNest /\ OnlyOpenFinish /\ ReportedOnce /\ QueueHeld
  BY DEF Init, OwnTracker, CallsNest, OnlyOpenFinish, ReportedOnce, QueueHeld, InCode
<1> QED
  BY <1>1, <1>2 DEF IInv

(* A request that is being executed stays so while its call is under way.  *)
LEMMA ExportsKept ==
    ASSUME IInv, Pushes \/ Returns \/ Remains,
           \A r \in Requests : stage[r] = "dispatched" => stage'[r] = "dispatched"
    PROVE  \A i \in 1 .. Len(frames') : frames'[i].kind = "export" =>
              frames'[i].tracker \in Requests /\ stage'[frames'[i].tracker] = "dispatched"
<1>0. /\ frames \in Seq(Frames) /\ Len(frames) \in Nat
      /\ \A i \in 1 .. Len(frames) : frames[i].kind = "export" =>
            frames[i].tracker \in Requests /\ stage'[frames[i].tracker] = "dispatched"
  BY DEF IInv, TypeOK, OnlyOpenFinish
<1>1. CASE Pushes
  <2>1. PICK f \in Frames :
          /\ frames' = Append(frames, f)
          /\ f.kind = "export" => f.tracker \in Requests /\ stage'[f.tracker] = "dispatched"
    BY <1>1 DEF Pushes, Call
  <2>2. /\ Len(frames') = Len(frames) + 1 /\ frames'[Len(frames) + 1] = f
        /\ \A i \in 1 .. Len(frames) : frames'[i] = frames[i]
    BY <1>0, <2>1, AppendFacts
  <2>3. ASSUME NEW i \in 1 .. Len(frames')
        PROVE  i \in 1 .. Len(frames) \/ i = Len(frames) + 1
    BY <1>0, <2>2
  <2> QED
    BY <1>0, <2>1, <2>2, <2>3
<1>2. CASE Returns
  <2>1. /\ Len(frames') = Len(frames) - 1
        /\ \A i \in 1 .. Len(frames) - 1 : frames'[i] = frames[i]
    BY <1>0, <1>2, FrontFacts DEF Returns, InCode
  <2> QED
    BY <1>0, <2>1
<1>3. CASE Remains
  BY <1>0, <1>3 DEF Remains
<1> QED
  BY <1>1, <1>2, <1>3

LEMMA NextKeeps == IInv /\ [Next]_vars => IInv'
<1> SUFFICES ASSUME IInv, [Next]_vars PROVE IInv'
  OBVIOUS
<1>1. CASE Next
  <2>1. /\ frames' \in Seq(Frames) /\ cur' \in Tracker /\ OwnTracker' /\ CallsNest'
    BY <1>1, Shape, FramesKept DEF IInv
  <2>2. /\ stage' \in [Requests -> {"idle", "untraced", "open", "dispatched"}]
        /\ can_finalize' \in [Requests -> BOOLEAN]
        /\ is_finalized' \in [Requests -> BOOLEAN] /\ reports' \in [Requests -> Nat]
        /\ \A r \in Requests : stage[r] = "dispatched" => stage'[r] = "dispatched"
        /\ \A r \in Requests : can_finalize'[r] => stage'[r] \in {"open", "dispatched"}
        /\ ReportedOnce'
    BY <1>1, RequestStep, RequestsKept
  <2>3. OnlyOpenFinish'
    BY <1>1, <2>2, Shape, ExportsKept DEF OnlyOpenFinish
  <2>4. /\ pending' \in Seq(Callbacks) /\ QueueHeld'
        /\ held' \in [Slots -> {None} \cup Wrapped]
        /\ runner' \in [Runners -> {"free", "waiting", "queued"}]
        /\ on' \in [Runners -> Tracker]
    BY <1>1, LoopKept
  <2>5. CountTypes' /\ HistoryTypes'
    BY <1>1, CountsKept, HistoryKept
  <2>6. TypeOK'
    BY <2>1, <2>2, <2>4, <2>5, Zenon DEF TypeOK, CountTypes, HistoryTypes
  <2> QED
    BY <2>1, <2>2, <2>3, <2>4, <2>6 DEF IInv
<1>2. CASE UNCHANGED vars
  BY <1>2 DEF vars, trackerVars, loopVars, historyVars, IInv, TypeOK, OwnTracker, CallsNest,
     OnlyOpenFinish, ReportedOnce, QueueHeld, InCode, Top
<1> QED
  BY <1>1, <1>2

(* Whatever callbacks, coroutines and functions requests add, keep and     *)
(* call, and in whatever order the loop gets to them: the thread carries   *)
(* the tracker of the code that runs or none, and none between callbacks.  *)
THEOREM Invariance == Spec => []IInv
BY InitInv, NextKeeps, PTL DEF Spec

-----------------------------------------------------------------------------
(* The refinement.                                                         *)

(* Where a request is in its life.                                         *)
LEMMA LifeIs ==
    ASSUME NEW r \in Requests,
           reports[r] \in Nat, reports[r] > 0 => reports[r] = 1, is_finalized[r] \in BOOLEAN
    PROVE  /\ stage[r] = "idle" => life[r] = "idle"
           /\ stage[r] = "untraced" => life[r] = "dropped"
           /\ stage[r] \in {"open", "dispatched"} /\ ~is_finalized[r] => life[r] = "open"
           /\ stage[r] \in {"open", "dispatched"} /\ is_finalized[r] =>
                life[r] = IF reports[r] = 0 THEN "dropped" ELSE "reported"
<1>1. CASE stage[r] = "idle"
  BY <1>1 DEF life, LifeOf
<1>2. CASE stage[r] = "untraced"
  BY <1>2 DEF life, LifeOf
<1>3. CASE stage[r] \in {"open", "dispatched"} /\ ~is_finalized[r]
  BY <1>3 DEF life, LifeOf
<1>4. CASE stage[r] \in {"open", "dispatched"} /\ is_finalized[r]
  BY <1>4 DEF life, LifeOf
<1> QED
  BY <1>1, <1>2, <1>3, <1>4

(* It depends on nothing else.                                             *)
LEMMA LifeSame ==
    ASSUME IInv, NEW r \in Requests, stage'[r] = stage[r],
           is_finalized'[r] = is_finalized[r], reports'[r] = reports[r]
    PROVE  life'[r] = life[r]
<1>1. stage[r] \in {"idle", "untraced", "open", "dispatched"} /\ is_finalized[r] \in BOOLEAN
  BY DEF IInv, TypeOK
<1>2. LifeOf(r)' = LifeOf(r)
  BY <1>1 DEF LifeOf
<1> QED
  BY <1>2 DEF life

(* One request that moves is a step of RequestReport, if the move is one   *)
(* of its moves.                                                           *)
LEMMA LifeMove ==
    ASSUME NEW r \in Requests,
           \A q \in Requests : q # r => life'[q] = life[q],
           \/ life'[r] = life[r]
           \/ life[r] = "idle" /\ life'[r] \in {"open", "dropped"}
           \/ life[r] = "open" /\ life'[r] \in {"reported", "dropped"}
    PROVE  [Report!LifeNext]_life
<1>1. life = [q \in Requests |-> life[q]] /\ life' = [q \in Requests |-> life'[q]]
  BY DEF life
<1>2. CASE life'[r] = life[r]
  BY <1>1, <1>2
<1>3. CASE life'[r] # life[r]
  <2>1. life' = [life EXCEPT ![r] = life'[r]]
    BY <1>1
  <2> QED
    BY <1>3, <2>1 DEF Report!LifeNext, Report!Open, Report!Report, Report!Drop, Report!Move
<1> QED
  BY <1>2, <1>3

LEMMA LifeStep == IInv /\ IInv' /\ [Next]_vars => [Report!LifeNext]_life
<1> SUFFICES ASSUME IInv, IInv', [Next]_vars PROVE [Report!LifeNext]_life
  OBVIOUS
<1>0. /\ stage \in [Requests -> {"idle", "untraced", "open", "dispatched"}]
      /\ is_finalized \in [Requests -> BOOLEAN] /\ reports \in [Requests -> Nat]
      /\ \A q \in Requests : can_finalize[q] => stage[q] \in {"open", "dispatched"}
      /\ \A q \in Requests : is_finalized[q] => can_finalize[q]
  BY DEF IInv, TypeOK, OnlyOpenFinish, ReportedOnce
<1>1. ASSUME UNCHANGED <<stage, is_finalized, reports>> PROVE UNCHANGED life
  BY <1>1 DEF life, LifeOf
<1>2. CASE UNCHANGED vars
  BY <1>1, <1>2 DEF vars, trackerVars
<1>3. CASE Passes
  BY <1>1, <1>3 DEF Passes
<1>4. ASSUME NEW r \in Requests, Begins(r) PROVE [Report!LifeNext]_life
  <2>1. /\ stage[r] = "idle" /\ stage'[r] \in {"open", "untraced"}
        /\ \A q \in Requests : q # r => stage'[q] = stage[q]
        /\ is_finalized' = is_finalized /\ reports' = reports /\ ~is_finalized[r]
    BY <1>0, <1>4 DEF Begins
  <2>2. \A q \in Requests : q # r => life'[q] = life[q]
    BY <2>1, LifeSame
  <2>3. life[r] = "idle"
    BY <2>1, LifeIs DEF IInv, TypeOK, ReportedOnce
  <2>4. life'[r] \in {"open", "dropped"}
    BY <2>1 DEF life, LifeOf
  <2> QED
    BY <2>2, <2>3, <2>4, LifeMove
<1>5. ASSUME NEW r \in Requests, Executes(r) PROVE [Report!LifeNext]_life
  <2>1. /\ stage[r] = "open" /\ stage'[r] = "dispatched"
        /\ \A q \in Requests : q # r => stage'[q] = stage[q]
        /\ is_finalized' = is_finalized /\ reports' = reports
    BY <1>0, <1>5 DEF Executes
  <2>2. \A q \in Requests : q # r => life'[q] = life[q]
    BY <2>1, LifeSame
  <2>3. life'[r] = life[r]
    BY <2>1 DEF life, LifeOf
  <2> QED
    BY <2>2, <2>3, LifeMove
<1>6. ASSUME NEW r \in Requests, NEW can, Finishes(r, can), stage' = stage,
             stage[r] \in {"open", "dispatched"}
      PROVE  [Report!LifeNext]_life
  <2>1. PICK n \in {0, 1} : reports' = [reports EXCEPT ![r] = @ + n]
    BY <1>6 DEF Finishes
  <2>2. /\ ~is_finalized[r] /\ is_finalized'[r]
        /\ \A q \in Requests : q # r =>
              is_finalized'[q] = is_finalized[q] /\ reports'[q] = reports[q]
    BY <1>0, <1>6, <2>1 DEF Finishes
  <2>3. \A q \in Requests : q # r => life'[q] = life[q]
    BY <1>6, <2>2, LifeSame
  <2>4. life[r] = "open"
    BY <1>6, <2>2, LifeIs DEF IInv, TypeOK, ReportedOnce
  <2>5. reports[r] = 0 /\ reports'[r] = n
    BY <1>0, <2>1, <2>2 DEF IInv, ReportedOnce
  <2>6. life'[r] \in {"reported", "dropped"}
    BY <1>6, <2>2, <2>5 DEF life, LifeOf
  <2> QED
    BY <2>3, <2>4, <2>6, LifeMove
<1>7. ASSUME NEW r \in Requests, Marks(r) PROVE [Report!LifeNext]_life
  BY <1>1, <1>6, <1>7 DEF Marks
<1>8. ASSUME NEW r \in Requests, Ends(r) PROVE [Report!LifeNext]_life
  <2>1. stage[r] \in {"open", "dispatched"}
    BY <1>0, <1>8 DEF Ends, Finishes
  <2> QED
    BY <1>6, <1>8, <2>1 DEF Ends
<1>9. CASE Next
  BY <1>3, <1>4, <1>5, <1>7, <1>8, <1>9, RequestStep
<1> QED
  BY <1>2, <1>9

(* Every request is taken up or let pass, reported once or dropped, and    *)
(* that is its end.                                                        *)
THEOREM Refinement == Spec => ImplementsRequestReport
<1>1. Init => Report!LifeInit
  BY DEF Init, life, LifeOf, Report!LifeInit
<1> QED
  BY <1>1, Invariance, LifeStep, PTL DEF Spec, ImplementsRequestReport, Report!LifeSpec


-----------------------------------------------------------------------------
(* Numbers.                                                                *)

(* How often a function, of positions or of coroutines, has a value.       *)
Places(f, v) == {i \in DOMAIN f : f[i] = v}
Number(f, v) == Cardinality(Places(f, v))
One(a, b) == IF a = b THEN 1 ELSE 0

LEMMA NumberIs ==
    ASSUME NEW f, NEW v, IsFiniteSet(Places(f, v))
    PROVE  /\ Number(f, v) \in Nat
           /\ Number(f, v) = 0 <=> \A i \in DOMAIN f : f[i] # v
<1>1. Number(f, v) = 0 <=> Places(f, v) = {}
  BY FS_EmptySet DEF Number
<1>2. Number(f, v) \in Nat
  BY FS_CardinalityType DEF Number
<1> QED
  BY <1>1, <1>2 DEF Places

(* The positions of a sequence are finitely many.                          *)
LEMMA PlacesFinite ==
    ASSUME NEW f, NEW v, NEW n \in Nat, DOMAIN f = 1 .. n
    PROVE  IsFiniteSet(Places(f, v))
<1>1. IsFiniteSet(1 .. n)
  BY FS_Interval
<1>2. Places(f, v) \in SUBSET (1 .. n)
  BY DEF Places
<1> QED
  BY <1>1, <1>2, FS_Subset

(* One place more at the end, or one less seen the other way round.        *)
LEMMA NumberLast ==
    ASSUME NEW n \in Nat, NEW f, NEW g, NEW v, DOMAIN f = 1 .. n, DOMAIN g = 1 .. n + 1,
           \A i \in 1 .. n : g[i] = f[i]
    PROVE  Number(g, v) = Number(f, v) + One(g[n + 1], v)
<1>0. IsFiniteSet(Places(f, v)) /\ Number(f, v) \in Nat
  BY PlacesFinite, NumberIs
<1>1. CASE g[n + 1] = v
  <2>1. Places(g, v) = Places(f, v) \cup {n + 1} /\ n + 1 \notin Places(f, v)
    BY <1>1 DEF Places
  <2> QED
    BY <1>0, <1>1, <2>1, FS_AddElement DEF Number, One
<1>2. CASE g[n + 1] # v
  <2>1. Places(g, v) = Places(f, v)
    BY <1>2 DEF Places
  <2> QED
    BY <1>0, <1>2, <2>1 DEF Number, One
<1> QED
  BY <1>1, <1>2

(* One place that changes.                                                 *)
LEMMA NumberPut ==
    ASSUME NEW D, NEW f, NEW g, NEW v, NEW x \in D, DOMAIN f = D, DOMAIN g = D,
           \A i \in D : i # x => g[i] = f[i], IsFiniteSet(Places(f, v))
    PROVE  /\ IsFiniteSet(Places(g, v))
           /\ Number(g, v) = Number(f, v) - One(f[x], v) + One(g[x], v)
<1>0. Number(f, v) \in Nat
  BY NumberIs
<1>1. CASE f[x] = v /\ g[x] # v
  <2>1. Places(g, v) = Places(f, v) \ {x} /\ x \in Places(f, v)
    BY <1>1 DEF Places
  <2>2. IsFiniteSet(Places(g, v)) /\ Number(g, v) = Number(f, v) - 1
    BY <2>1, FS_RemoveElement DEF Number
  <2> QED
    BY <1>0, <1>1, <2>2 DEF One
<1>2. CASE f[x] # v /\ g[x] = v
  <2>1. Places(g, v) = Places(f, v) \cup {x} /\ x \notin Places(f, v)
    BY <1>2 DEF Places
  <2>2. IsFiniteSet(Places(g, v)) /\ Number(g, v) = Number(f, v) + 1
    BY <2>1, FS_AddElement DEF Number
  <2> QED
    BY <1>0, <1>2, <2>2 DEF One
<1>3. CASE f[x] = v <=> g[x] = v
  <2>1. Places(g, v) = Places(f, v)
    BY <1>3 DEF Places
  <2>2. One(f[x], v) = One(g[x], v) /\ One(g[x], v) \in Nat
    BY <1>3 DEF One
  <2> QED
    BY <1>0, <2>1, <2>2 DEF Number
<1> QED
  BY <1>1, <1>2, <1>3

(* The first place goes, and all the others move.                          *)
LEMMA NumberShift ==
    ASSUME NEW n \in Nat, NEW f, NEW g, NEW v, DOMAIN f = 1 .. n + 1, DOMAIN g = 1 .. n,
           \A i \in 1 .. n : g[i] = f[i + 1]
    PROVE  Number(f, v) = Number(g, v) + One(f[1], v)
<1> DEFINE R == Places(f, v) \ {1}
           b == [i \in Places(g, v) |-> i + 1]
<1>1. IsFiniteSet(Places(f, v)) /\ IsFiniteSet(Places(g, v))
  BY PlacesFinite
<1>2. b \in Bijection(Places(g, v), R)
  <2>1. \A i \in Places(g, v) : b[i] = i + 1 /\ i + 1 \in R /\ i \in Nat
    BY DEF Places
  <2>2. b \in [Places(g, v) -> R]
    BY <2>1
  <2>3. \A i, j \in Places(g, v) : b[i] = b[j] => i = j
    BY <2>1
  <2>4. ASSUME NEW j \in R PROVE \E i \in Places(g, v) : b[i] = j
    <3>1. j \in 2 .. n + 1 /\ f[j] = v
      BY DEF Places
    <3>2. j - 1 \in 1 .. n /\ g[j - 1] = f[j]
      <4>1. j - 1 \in 1 .. n /\ (j - 1) + 1 = j
        BY <3>1
      <4> QED
        BY <4>1
    <3>3. j - 1 \in Places(g, v)
      BY <3>1, <3>2 DEF Places
    <3> QED
      BY <2>1, <3>1, <3>3
  <2> HIDE DEF b, R
  <2> QED
    BY <2>2, <2>3, <2>4 DEF Bijection, Injection, IsInjective, Surjection
<1>3. Cardinality(R) = Number(g, v)
  BY <1>1, <1>2, FS_Bijection DEF ExistsBijection, Number
<1>4. 1 \in Places(f, v) <=> f[1] = v
  BY DEF Places
<1>5. Cardinality(R) = IF 1 \in Places(f, v) THEN Number(f, v) - 1 ELSE Number(f, v)
  BY <1>1, FS_RemoveElement DEF Number
<1>6. Number(f, v) \in Nat
  BY <1>1, NumberIs
<1> QED
  BY <1>3, <1>4, <1>5, <1>6 DEF One

(* Places that are lost.                                                   *)
LEMMA NumberLess ==
    ASSUME NEW f, NEW g, NEW v, DOMAIN g \subseteq DOMAIN f,
           \A i \in DOMAIN g : g[i] = v => f[i] = v, IsFiniteSet(Places(f, v))
    PROVE  /\ IsFiniteSet(Places(g, v))
           /\ Number(g, v) <= Number(f, v)
<1>1. Places(g, v) \in SUBSET Places(f, v)
  BY DEF Places
<1> QED
  BY <1>1, FS_Subset DEF Number


-----------------------------------------------------------------------------
(* What belongs to a request.                                              *)

Timers  == [i \in 1 .. Len(frames) |-> frames[i].tracker]
Running == [i \in 1 .. Len(frames) |-> frames[i].counted]
RunNow  == [i \in 1 .. Len(frames) |-> frames[i].run]
RunSoon == [i \in 1 .. Len(pending) |-> pending[i].run]

(* The request a callback of the queue will be counted for when it runs.   *)
CountedOf(c, keeps) == IF c.slot = None THEN c.counted ELSE keeps[c.slot].counted
Queue == [i \in 1 .. Len(pending) |-> CountedOf(pending[i], held)]

(* Handlers and callbacks begin outside any call, the execution of a       *)
(* request within a handler; a callback is counted for the request it is   *)
(* called under, if that is not over; a coroutine goes on under the        *)
(* request that it waited for.                                             *)
FrameFits(f, i) ==
    /\ f.kind \in {"event", "callback"} => i = 1
    /\ f.kind = "event" => f.tracker = None
    /\ f.kind = "export" => i = 2 /\ frames[1].kind = "event"
    /\ f.run # None => f.kind \in {"callback", "call"} /\ f.tracker \in {on[f.run], None}
    /\ f.counted # None => f.kind = "callback" /\ f.tracker \in {f.counted, None}
    /\ f.kind = "call" /\ f.run # None => on[f.run] \in resumed

CallbackFits(c) ==
    /\ c.run # None => c.slot = None /\ c.tracker \in {on[c.run], None}
    /\ c.counted # None => c.slot = None /\ c.tracker = c.counted
    /\ c.slot # None => held[c.slot].tracker = c.tracker

Fitting ==
    /\ \A i \in 1 .. Len(frames) : FrameFits(frames[i], i)
    /\ \A i \in 1 .. Len(pending) : CallbackFits(pending[i])
    /\ \A h \in Slots : held[h] # None => held[h].counted \in {held[h].tracker, None}

(* A coroutine runs or is in the queue once, and only after it waited.     *)
RunsOnce ==
    \A w \in Runners : Number(RunNow, w) + Number(RunSoon, w) <= One(runner[w], "queued")

(* The count of a request covers what still belongs to it.                 *)
CountsCover ==
    \A r \in Requests :
        /\ IsFiniteSet(Places(on, r))
        /\ ref[r] >= Number(on, r) + Number(Queue, r) + Number(Running, r)

DepthIs == \A r \in Requests : depth[r] = Number(Timers, r)

(* A request that may be finished and is not has something left.           *)
Due == \A r \in Requests : can_finalize[r] /\ ~is_finalized[r] => ref[r] # 0

EndInv == IInv /\ Fitting /\ RunsOnce /\ CountsCover /\ DepthIs /\ Due /\ FinishedAtRoot

-----------------------------------------------------------------------------
(* What a step does to the numbers.                                        *)

LEMMA SeqNumber ==
    ASSUME NEW f, NEW n \in Nat, DOMAIN f = 1 .. n, NEW v
    PROVE  /\ IsFiniteSet(Places(f, v)) /\ Number(f, v) \in Nat
           /\ Number(f, v) = 0 <=> \A i \in 1 .. n : f[i] # v
BY PlacesFinite, NumberIs

LEMMA Typed ==
    ASSUME IInv
    PROVE  /\ frames \in Seq(Frames) /\ Len(frames) \in Nat
           /\ pending \in Seq(Callbacks) /\ Len(pending) \in Nat
           /\ cur \in Tracker /\ None \in Tracker /\ None \notin Requests
           /\ None \notin Runners /\ None \notin Slots /\ None \notin Wrapped
           /\ on \in [Runners -> Tracker] /\ held \in [Slots -> {None} \cup Wrapped]
           /\ ref \in [Requests -> Int] /\ depth \in [Requests -> Int]
           /\ runner \in [Runners -> {"free", "waiting", "queued"}]
           /\ can_finalize \in [Requests -> BOOLEAN]
           /\ is_finalized \in [Requests -> BOOLEAN]
           /\ \A r : Live(r) \in {r, None}
           /\ DOMAIN Timers = 1 .. Len(frames) /\ DOMAIN Running = 1 .. Len(frames)
           /\ DOMAIN RunNow = 1 .. Len(frames)
           /\ DOMAIN RunSoon = 1 .. Len(pending) /\ DOMAIN Queue = 1 .. Len(pending)
BY NoneAssumption DEF IInv, TypeOK, Tracker, Wrapped, Live, Timers, Running, RunNow, RunSoon, Queue

LEMMA CallPushed ==
    ASSUME IInv, NEW f \in Frames, frames' = Append(frames, f), NEW v
    PROVE  /\ Number(Timers, v)' = Number(Timers, v) + One(f.tracker, v)
           /\ Number(Running, v)' = Number(Running, v) + One(f.counted, v)
           /\ Number(RunNow, v)' = Number(RunNow, v) + One(f.run, v)
<1>1. PICK n \in Nat : n = Len(frames)
  BY Typed
<1>2. /\ Len(frames') = n + 1 /\ frames'[n + 1] = f
      /\ \A i \in 1 .. n : frames'[i] = frames[i]
  BY <1>1, Typed, AppendFacts
<1>4. n + 1 \in 1 .. n + 1 /\ 1 .. n \subseteq 1 .. n + 1
  OBVIOUS
<1>5. Number(Timers', v) = Number(Timers, v) + One(Timers'[n + 1], v)
  BY <1>1, <1>2, <1>4, NumberLast DEF Timers
<1>6. Number(Running', v) = Number(Running, v) + One(Running'[n + 1], v)
  BY <1>1, <1>2, <1>4, NumberLast DEF Running
<1>7. Number(RunNow', v) = Number(RunNow, v) + One(RunNow'[n + 1], v)
  BY <1>1, <1>2, <1>4, NumberLast DEF RunNow
<1>8. Timers'[n + 1] = f.tracker /\ Running'[n + 1] = f.counted /\ RunNow'[n + 1] = f.run
  BY <1>2, <1>4 DEF Timers, Running, RunNow
<1> QED
  BY <1>5, <1>6, <1>7, <1>8

LEMMA CallPopped ==
    ASSUME IInv, InCode, frames' = Front(frames), NEW v
    PROVE  /\ Number(Timers, v) = Number(Timers, v)' + One(Top.tracker, v)
           /\ Number(Running, v) = Number(Running, v)' + One(Top.counted, v)
           /\ Number(RunNow, v) = Number(RunNow, v)' + One(Top.run, v)
<1>0. /\ Len(frames) >= 1 /\ Len(frames') = Len(frames) - 1
      /\ \A i \in 1 .. Len(frames) - 1 : frames'[i] = frames[i]
  BY Typed, FrontFacts DEF InCode
<1>1. PICK n \in Nat : Len(frames') = n /\ Len(frames) = n + 1
  <2>1. Len(frames) - 1 \in Nat /\ Len(frames) = (Len(frames) - 1) + 1
    BY <1>0, Typed
  <2> QED
    BY <1>0, <2>1
<1>2. \A i \in 1 .. n : frames'[i] = frames[i]
  BY <1>0, <1>1
<1>4. n + 1 \in 1 .. n + 1 /\ 1 .. n \subseteq 1 .. n + 1
  OBVIOUS
<1>5. Number(Timers, v) = Number(Timers', v) + One(Timers[n + 1], v)
  <2>1. /\ DOMAIN Timers' = 1 .. n /\ DOMAIN Timers = 1 .. n + 1
        /\ \A i \in 1 .. n : Timers[i] = Timers'[i]
    BY <1>1, <1>2, <1>4 DEF Timers
  <2> QED
    BY <2>1, NumberLast
<1>6. Number(Running, v) = Number(Running', v) + One(Running[n + 1], v)
  BY <1>1, <1>2, <1>4, NumberLast DEF Running
<1>7. Number(RunNow, v) = Number(RunNow', v) + One(RunNow[n + 1], v)
  BY <1>1, <1>2, <1>4, NumberLast DEF RunNow
<1>8. Timers[n + 1] = Top.tracker /\ Running[n + 1] = Top.counted /\ RunNow[n + 1] = Top.run
  BY <1>1, <1>4 DEF Timers, Running, RunNow, Top
<1> QED
  BY <1>5, <1>6, <1>7, <1>8

(* A callback joins the queue; others may lose the request they count for. *)
LEMMA CallbackAdded ==
    ASSUME IInv, NEW c \in Callbacks, pending' = Append(pending, c), NEW v
    PROVE  /\ Number(RunSoon, v)' = Number(RunSoon, v) + One(c.run, v)
           /\ (\A i \in 1 .. Len(pending) :
                 CountedOf(pending[i], held') = v => CountedOf(pending[i], held) = v)
              => Number(Queue, v)' <= Number(Queue, v) + One(CountedOf(c, held'), v)
<1>1. PICK n \in Nat : n = Len(pending)
  BY Typed
<1>2. /\ Len(pending') = n + 1 /\ pending'[n + 1] = c
      /\ \A i \in 1 .. n : pending'[i] = pending[i]
  BY <1>1, Typed, AppendFacts
<1>3. n + 1 \in 1 .. n + 1 /\ 1 .. n \subseteq 1 .. n + 1
  OBVIOUS
<1>4. Number(RunSoon', v) = Number(RunSoon, v) + One(RunSoon'[n + 1], v)
  BY <1>1, <1>2, <1>3, NumberLast DEF RunSoon
<1>5. RunSoon'[n + 1] = c.run /\ Queue'[n + 1] = CountedOf(c, held')
  BY <1>2, <1>3 DEF RunSoon, Queue
<1> DEFINE q == [i \in 1 .. n |-> Queue'[i]]
<1>6. DOMAIN Queue' = 1 .. n + 1
  BY <1>2 DEF Queue
<1>7. Number(Queue', v) = Number(q, v) + One(Queue'[n + 1], v)
  BY <1>3, <1>6, NumberLast
<1>8. ASSUME \A i \in 1 .. n : CountedOf(pending[i], held') = v
                             => CountedOf(pending[i], held) = v
      PROVE  /\ Number(q, v) <= Number(Queue, v)
             /\ Number(q, v) \in Nat /\ Number(Queue, v) \in Nat
  <2>1. \A i \in 1 .. n : q[i] = CountedOf(pending[i], held')
    BY <1>2, <1>3 DEF Queue
  <2>2. \A i \in DOMAIN q : q[i] = v => Queue[i] = v
    BY <1>1, <1>8, <2>1 DEF Queue
  <2>3. DOMAIN q = 1 .. n /\ DOMAIN Queue = 1 .. n
    BY <1>1 DEF Queue
  <2> HIDE DEF q
  <2> QED
    BY <2>2, <2>3, SeqNumber, NumberLess
<1>9. One(Queue'[n + 1], v) \in Nat
  BY DEF One
<1> HIDE DEF q
<1> QED
  BY <1>1, <1>4, <1>5, <1>7, <1>8, <1>9

(* The first of the queue is taken.                                        *)
LEMMA CallbackTaken ==
    ASSUME IInv, pending # << >>, pending' = Tail(pending), held' = held, NEW v
    PROVE  /\ Number(Queue, v) = Number(Queue, v)' + One(CountedOf(Head(pending), held), v)
           /\ Number(RunSoon, v) = Number(RunSoon, v)' + One(Head(pending).run, v)
<1>0. /\ pending \in Seq(Callbacks) /\ Len(pending) \in Nat /\ Len(pending) # 0
      /\ Head(pending) = pending[1] /\ Len(pending') = Len(pending) - 1
      /\ \A i \in 1 .. Len(pending') : pending'[i] = pending[i + 1]
  BY Typed
<1>1. PICK n \in Nat : Len(pending') = n /\ Len(pending) = n + 1
  <2>1. Len(pending) - 1 \in Nat /\ Len(pending) = (Len(pending) - 1) + 1
    BY <1>0
  <2> QED
    BY <1>0, <2>1
<1>2. \A i \in 1 .. n : pending'[i] = pending[i + 1] /\ i \in 1 .. n + 1 /\ i + 1 \in 1 .. n + 1
  BY <1>0, <1>1
<1>3. 1 \in 1 .. n + 1
  OBVIOUS
<1>4. Number(Queue, v) = Number(Queue', v) + One(Queue[1], v)
  BY <1>1, <1>2, NumberShift DEF Queue
<1>5. Number(RunSoon, v) = Number(RunSoon', v) + One(RunSoon[1], v)
  BY <1>1, <1>2, NumberShift DEF RunSoon
<1>6. Queue[1] = CountedOf(Head(pending), held) /\ RunSoon[1] = Head(pending).run
  BY <1>0, <1>1, <1>3 DEF Queue, RunSoon
<1> QED
  BY <1>4, <1>5, <1>6

(* Nothing of the calls or of the queue changes.                           *)
LEMMA CallsSame ==
    ASSUME frames' = frames
    PROVE  Timers' = Timers /\ Running' = Running /\ RunNow' = RunNow
BY DEF Timers, Running, RunNow

LEMMA QueueSame ==
    ASSUME pending' = pending
    PROVE  RunSoon' = RunSoon /\ (held' = held => Queue' = Queue)
BY DEF Queue, RunSoon, CountedOf


-----------------------------------------------------------------------------
(* The kinds of steps, for what belongs to a request.                      *)

(* A call that is of nobody's coroutine and that nothing was counted for.  *)
Enters(f) ==
    /\ f.run = None /\ f.counted = None
    /\ \/ f.kind = "event" /\ f.tracker = None /\ ~InCode
       \/ f.kind = "export" /\ InCode /\ Top.kind = "event"
       \/ f.kind = "call"
    /\ UNCHANGED <<loopVars, ref, resumed>>

(* The first callback of the queue.                                        *)
Takes(f) ==
    /\ ~InCode /\ pending # << >> /\ pending' = Tail(pending)
    /\ f.kind = "callback" /\ f.run = Head(pending).run
    /\ f.counted = CountedOf(Head(pending), held) /\ f.tracker = Live(Head(pending).tracker)
    /\ UNCHANGED <<held, runner, on, ref, resumed>>

(* A coroutine that goes on at once.                                       *)
Resumes(f) ==
    /\ f.kind = "call" /\ f.counted = None
    /\ f.run \in Runners /\ runner[f.run] = "waiting" /\ f.tracker = Live(on[f.run])
    /\ runner' = [runner EXCEPT ![f.run] = "queued"]
    /\ resumed' = resumed \cup {on[f.run]}
    /\ UNCHANGED <<pending, held, on, ref>>

(* A callback for the queue. Where it is a function that was counted for   *)
(* another request, it loses that.                                         *)
Adds(c) ==
    /\ pending' = Append(pending, c) /\ UNCHANGED <<frames, depth, on, resumed>>
    /\ \/ c.run = None /\ runner' = runner
       \/ /\ c.run \in Runners /\ runner[c.run] = "waiting" /\ c.slot = None
          /\ c.tracker \in {on[c.run], None}
          /\ runner' = [runner EXCEPT ![c.run] = "queued"]
    /\ \/ held' = held
       \/ \E h \in Slots : held[h] # None /\ held' = [held EXCEPT ![h].counted = None]
    /\ c.counted # None => c.slot = None /\ c.tracker = c.counted
    /\ c.slot # None => held[c.slot] # None /\ held[c.slot].tracker = c.tracker
    /\ \A r \in Requests : ref'[r] >= ref[r] + One(CountedOf(c, held'), r)

(* The end of a call, and of the run of a coroutine in it.                 *)
Leaves ==
    /\ InCode /\ frames' = Front(frames) /\ depth' = EndTimer(Top.tracker)
    /\ UNCHANGED <<pending, held, resumed>>
    /\ \/ UNCHANGED <<runner, on, ref>>
       \/ \E refs \in RefsAfter :
             EndRun(Top.run, refs) /\ ref' = Uncount(Top.counted, refs)

(* Something else; a function may be wrapped, a coroutine begin to wait.   *)
Stays ==
    /\ UNCHANGED <<frames, depth, pending, resumed>>
    /\ \/ UNCHANGED <<held, runner, on, ref>>
       \/ /\ \E h \in Slots : held[h] = None /\ held' =
                                [held EXCEPT ![h] = [tracker |-> cur, counted |-> cur]]
          /\ UNCHANGED <<runner, on, ref>>
       \/ /\ cur # None /\ ref' = [ref EXCEPT ![cur] = @ + 1] /\ held' = held
          /\ \E w \in Runners : /\ runner[w] = "free"
                                /\ runner' = [runner EXCEPT ![w] = "waiting"]
                                /\ on' = [on EXCEPT ![w] = cur]

LEMMA CallFrame ==
    ASSUME IInv, NEW kind \in {"event", "callback", "call", "export"}, NEW tracker \in Tracker,
           NEW counted \in Tracker, NEW run \in Run, Call(Frame(kind, tracker, counted, run))
    PROVE  \E f \in Frames :
              /\ f.kind = kind /\ f.tracker = tracker /\ f.counted = counted /\ f.run = run
              /\ Call(f)
<1> DEFINE f == Frame(kind, tracker, counted, run)
<1>1. f \in Frames
  BY Typed DEF Frame, Frames
<1>2. f.kind = kind /\ f.tracker = tracker /\ f.counted = counted /\ f.run = run
  BY DEF Frame
<1> QED
  BY <1>1, <1>2

LEMMA CallKinds ==
    ASSUME IInv, Calls
    PROVE  \E f \in Frames : Call(f) /\ (Enters(f) \/ Takes(f) \/ Resumes(f))
<1>0. /\ None \in Tracker /\ None \in Run /\ Runners \subseteq Run /\ Requests \subseteq Tracker
      /\ \A r \in Tracker : Live(r) \in Tracker
      /\ on \in [Runners -> Tracker]
  BY Typed DEF Tracker, Run
<1>1. CASE HandleEvent
  <2>1. PICK f \in Frames :
          f.kind = "event" /\ f.tracker = None /\ f.counted = None /\ f.run = None /\ Call(f)
    BY <1>0, <1>1, CallFrame DEF HandleEvent
  <2>2. Enters(f)
    BY <1>1, <2>1 DEF HandleEvent, Enters, historyVars
  <2> QED
    BY <2>1, <2>2
<1>2. CASE RunCallback
  <2> DEFINE c == Head(pending)
  <2>0. c \in Callbacks /\ (c.slot # None => held[c.slot] \in Wrapped)
    <3>1. c = pending[1] /\ 1 \in 1 .. Len(pending) /\ c \in Callbacks
      BY <1>2, Typed DEF RunCallback
    <3>2. c.slot # None => c.slot \in Slots /\ held[c.slot] # None
      BY <3>1 DEF Callbacks, IInv, QueueHeld
    <3> QED
      BY <3>1, <3>2, Typed
  <2>1. c.tracker \in Tracker /\ c.run \in Run /\ CountedOf(c, held) \in Tracker
    BY <2>0 DEF Callbacks, Wrapped, CountedOf
  <2>2. Call(Frame("callback", Live(c.tracker), CountedOf(c, held), c.run))
    BY <1>2 DEF RunCallback, CountedOf
  <2>3. PICK f \in Frames : /\ f.kind = "callback" /\ f.tracker = Live(c.tracker)
                            /\ f.counted = CountedOf(c, held) /\ f.run = c.run /\ Call(f)
    <3> HIDE DEF c
    <3> QED
      BY <1>0, <2>1, <2>2, CallFrame
  <2>4. Takes(f)
    BY <1>2, <2>3 DEF RunCallback, Takes, historyVars
  <2> QED
    BY <2>3, <2>4
<1>3. ASSUME NEW r \in Requests, Dispatch(r)
      PROVE  \E f \in Frames : Call(f) /\ (Enters(f) \/ Takes(f) \/ Resumes(f))
  <2>1. PICK f \in Frames :
          f.kind = "export" /\ f.tracker = r /\ f.counted = None /\ f.run = None /\ Call(f)
    BY <1>0, <1>3, CallFrame DEF Dispatch
  <2>2. Enters(f)
    BY <1>3, <2>1 DEF Dispatch, Enters, historyVars
  <2> QED
    BY <2>1, <2>2
<1>4. ASSUME NEW h \in Slots, CallHeld(h)
      PROVE  \E f \in Frames : Call(f) /\ (Enters(f) \/ Takes(f) \/ Resumes(f))
  <2>1. Live(held[h].tracker) \in Tracker
    BY <1>0, <1>4, Typed DEF CallHeld, Wrapped
  <2>2. PICK f \in Frames : f.kind = "call" /\ f.counted = None /\ f.run = None /\ Call(f)
    BY <1>0, <1>4, <2>1, CallFrame DEF CallHeld
  <2>3. Enters(f)
    BY <1>4, <2>2 DEF CallHeld, Enters
  <2> QED
    BY <2>2, <2>3
<1>5. ASSUME NEW w \in Runners, ResumeDirectly(w)
      PROVE  \E f \in Frames : Call(f) /\ (Enters(f) \/ Takes(f) \/ Resumes(f))
  <2>1. PICK f \in Frames : /\ f.kind = "call" /\ f.tracker = Live(on[w])
                            /\ f.counted = None /\ f.run = w /\ Call(f)
    BY <1>0, <1>5, CallFrame DEF ResumeDirectly
  <2>2. Resumes(f)
    BY <1>5, <2>1 DEF ResumeDirectly, Resumes
  <2> QED
    BY <2>1, <2>2
<1> QED
  BY <1>1, <1>2, <1>3, <1>4, <1>5 DEF Calls

LEMMA TopIs ==
    ASSUME IInv, Fitting, InCode
    PROVE  /\ Top \in Frames /\ Len(frames) \in 1 .. Len(frames) /\ Top = frames[Len(frames)]
           /\ FrameFits(Top, Len(frames))
           /\ Top.tracker \in Tracker /\ Top.counted \in Tracker /\ Top.run \in Run
           /\ cur \in {Top.tracker, None}
<1>1. Top \in Frames /\ Len(frames) \in 1 .. Len(frames) /\ Top = frames[Len(frames)]
  BY Typed DEF InCode, Top
<1>2. FrameFits(Top, Len(frames))
  BY <1>1 DEF Fitting
<1>3. cur \in {Top.tracker, None}
  BY DEF IInv, OwnTracker
<1> QED
  BY <1>1, <1>2, <1>3 DEF Frames

LEMMA CountIs ==
    ASSUME IInv, NEW r \in Tracker, Count(r)
    PROVE  \A q \in Requests : ref'[q] = ref[q] + One(r, q)
BY Typed DEF Count, One, Tracker

LEMMA AddKinds ==
    ASSUME IInv, Fitting,
           \/ AddCallback \/ \E h \in Slots : AddHeld(h)
           \/ \E w \in Runners : Resolve(w) \/ ResolveInThread(w)
    PROVE  \E c \in Callbacks : Adds(c)
<1>0. /\ cur \in Tracker /\ None \in Tracker /\ None \in Run /\ Runners \subseteq Run
      /\ \A r \in Requests : One(None, r) = 0 /\ ref[r] \in Int
      /\ \A r, q : One(r, q) \in {0, 1}
  BY Typed DEF Run, One
<1>1. ASSUME NEW tracker \in Tracker, NEW counted \in Tracker, NEW run \in Run,
             NEW slot \in Slots \cup {None}
      PROVE  /\ Callback(tracker, counted, run, slot) \in Callbacks
             /\ Callback(tracker, counted, run, slot).tracker = tracker
             /\ Callback(tracker, counted, run, slot).counted = counted
             /\ Callback(tracker, counted, run, slot).run = run
             /\ Callback(tracker, counted, run, slot).slot = slot
  BY DEF Callback, Callbacks
<1>2. CASE AddCallback
  <2>1. PICK c \in Callbacks :
          /\ c.tracker = cur /\ c.counted = cur /\ c.run = None /\ c.slot = None
          /\ pending' = Append(pending, c)
    BY <1>0, <1>1, <1>2 DEF AddCallback
  <2>2. CountedOf(c, held') = cur
    BY <2>1 DEF CountedOf
  <2>3. \A r \in Requests : ref'[r] >= ref[r] + One(CountedOf(c, held'), r)
    BY <1>0, <1>2, <2>2, CountIs DEF AddCallback
  <2> QED
    BY <1>2, <2>1, <2>3 DEF AddCallback, Adds
<1>3. ASSUME NEW h \in Slots, AddHeld(h) PROVE \E c \in Callbacks : Adds(c)
  <2>0. held[h] # None /\ held[h] \in Wrapped /\ h # None
    BY <1>3, Typed DEF AddHeld
  <2>1. PICK c \in Callbacks :
          /\ c.tracker = held[h].tracker /\ c.counted = None /\ c.run = None /\ c.slot = h
          /\ pending' = Append(pending, c)
    BY <1>0, <1>1, <1>3, <2>0 DEF AddHeld, Wrapped
  <2>2. CASE held[h].counted # None /\ held[h].counted # cur
    <3>1. held' = [held EXCEPT ![h].counted = None] /\ ref' = ref
      BY <1>3, <2>2 DEF AddHeld
    <3>2. held'[h].counted = None
      BY <2>0, <3>1, Typed DEF Wrapped
    <3>3. CountedOf(c, held') = None
      BY <2>0, <2>1, <3>2 DEF CountedOf
    <3>4. \A r \in Requests : ref'[r] >= ref[r] + One(CountedOf(c, held'), r)
      BY <1>0, <3>1, <3>3
    <3> QED
      BY <1>3, <2>0, <2>1, <3>1, <3>4 DEF AddHeld, Adds
  <2>3. CASE ~(held[h].counted # None /\ held[h].counted # cur)
    <3>1. held' = held /\ Count(cur)
      BY <1>3, <2>3 DEF AddHeld
    <3>2. CountedOf(c, held') \in {cur, None}
      BY <2>0, <2>1, <2>3, <3>1 DEF CountedOf
    <3>3. \A r \in Requests : ref'[r] >= ref[r] + One(CountedOf(c, held'), r)
      <4>1. \A r \in Requests : ref'[r] = ref[r] + One(cur, r)
        BY <1>0, <3>1, CountIs
      <4> QED
        BY <1>0, <3>2, <4>1
    <3> QED
      BY <1>3, <2>0, <2>1, <3>1, <3>3 DEF AddHeld, Adds
  <2> QED
    BY <2>2, <2>3
<1>4. ASSUME NEW w \in Runners, Resolve(w) PROVE \E c \in Callbacks : Adds(c)
  <2> DEFINE t == Live(on[w])
  <2>0. t \in Tracker /\ t \in {on[w], None}
    BY Typed
  <2>1. PICK c \in Callbacks :
          /\ c.tracker = t /\ c.counted = t /\ c.run = w /\ c.slot = None
          /\ pending' = Append(pending, c)
    BY <1>0, <1>1, <1>4, <2>0 DEF Resolve
  <2>2. CountedOf(c, held') = t
    BY <2>1 DEF CountedOf
  <2>3. \A r \in Requests : ref'[r] >= ref[r] + One(CountedOf(c, held'), r)
    <3>1. \A r \in Requests : ref'[r] = ref[r] + One(t, r)
      BY <1>4, <2>0, CountIs DEF Resolve
    <3> QED
      BY <1>0, <2>2, <3>1
  <2> QED
    BY <1>4, <2>0, <2>1, <2>3 DEF Resolve, Adds, historyVars
<1>5. ASSUME NEW w \in Runners, ResolveInThread(w) PROVE \E c \in Callbacks : Adds(c)
  <2>1. PICK c \in Callbacks :
          /\ c.tracker = on[w] /\ c.counted = None /\ c.run = w /\ c.slot = None
          /\ pending' = Append(pending, c)
    BY <1>0, <1>1, <1>5, Typed DEF ResolveInThread
  <2>2. CountedOf(c, held') = None /\ ref' = ref
    BY <1>5, <2>1 DEF CountedOf, ResolveInThread, trackerVars
  <2>3. \A r \in Requests : ref'[r] >= ref[r] + One(CountedOf(c, held'), r)
    BY <1>0, <2>2
  <2> QED
    BY <1>5, <2>1, <2>3 DEF ResolveInThread, Adds, trackerVars, historyVars
<1> QED
  BY <1>2, <1>3, <1>4, <1>5

LEMMA Kinds ==
    ASSUME IInv, Fitting, Next
    PROVE  \/ \E f \in Frames : Call(f) /\ (Enters(f) \/ Takes(f) \/ Resumes(f))
           \/ \E c \in Callbacks : Adds(c)
           \/ Leaves \/ Stays
<1>1. CASE Calls
  BY <1>1, CallKinds
<1>2. CASE \/ AddCallback \/ \E h \in Slots : AddHeld(h)
           \/ \E w \in Runners : Resolve(w) \/ ResolveInThread(w)
  BY <1>2, AddKinds
<1>3. ASSUME NEW r \in Requests, NewRequest(r) \/ ConnectionClose(r) PROVE Stays
  BY <1>3 DEF NewRequest, ConnectionClose, Stays, trackerVars, loopVars, historyVars
<1>4. ASSUME NEW h \in Slots, Wrap(h) PROVE Stays
  BY <1>4 DEF Wrap, Stays, trackerVars
<1>5. ASSUME NEW w \in Runners, StartRunner(w) PROVE Stays
  BY <1>5 DEF StartRunner, Count, Stays
<1>6. CASE EndEvent
  <2>1. EndTimer(Top.tracker) = depth
    BY <1>6, TopIs DEF EndEvent, FrameFits, EndTimer
  <2> QED
    BY <1>6, <2>1 DEF EndEvent, Leaves, trackerVars, loopVars, historyVars
<1>7. CASE EndDispatch
  BY <1>7 DEF EndDispatch, Leaves, loopVars, historyVars
<1>8. CASE EndCall
  <2>1. PICK refs \in RefsAfter :
          /\ InCode /\ Top.kind = "call" /\ EndRun(Top.run, refs)
          /\ ref' = refs /\ depth' = EndTimer(Top.tracker) /\ frames' = Front(frames)
          /\ UNCHANGED <<pending, held, resumed>>
    BY <1>8 DEF EndCall
  <2>2. Uncount(Top.counted, refs) = refs
    BY <2>1, TopIs DEF FrameFits, Uncount
  <2> QED
    BY <2>1, <2>2 DEF Leaves
<1>9. CASE EndCallback
  BY <1>9 DEF EndCallback, Leaves
<1>10. CASE Idle
  BY <1>10 DEF Idle, vars, Stays, trackerVars, loopVars, historyVars
<1> QED
  BY <1>1, <1>2, <1>3, <1>4, <1>5, <1>6, <1>7, <1>8, <1>9, <1>10
     DEF Next, Return, Code, Connection, Calls


-----------------------------------------------------------------------------
(* What each kind keeps.                                                   *)

StepKind ==
    \/ \E f \in Frames : Call(f) /\ (Enters(f) \/ Takes(f) \/ Resumes(f))
    \/ \E c \in Callbacks : Adds(c)
    \/ Leaves \/ Stays

(* The numbers there are before and after a step.                          *)
LEMMA NumbersAre ==
    ASSUME IInv, IInv', NEW v
    PROVE  /\ Number(Timers, v) \in Nat /\ Number(Timers, v)' \in Nat
           /\ Number(Running, v) \in Nat /\ Number(Running, v)' \in Nat
           /\ Number(RunNow, v) \in Nat /\ Number(RunNow, v)' \in Nat
           /\ Number(RunSoon, v) \in Nat /\ Number(RunSoon, v)' \in Nat
           /\ Number(Queue, v) \in Nat /\ Number(Queue, v)' \in Nat
<1>1. /\ Number(Timers, v) \in Nat /\ Number(Running, v) \in Nat /\ Number(RunNow, v) \in Nat
      /\ Number(RunSoon, v) \in Nat /\ Number(Queue, v) \in Nat
  BY Typed, SeqNumber
<1>2. /\ Len(frames') \in Nat /\ Len(pending') \in Nat
      /\ DOMAIN Timers' = 1 .. Len(frames') /\ DOMAIN Running' = 1 .. Len(frames')
      /\ DOMAIN RunNow' = 1 .. Len(frames')
      /\ DOMAIN RunSoon' = 1 .. Len(pending') /\ DOMAIN Queue' = 1 .. Len(pending')
  BY DEF IInv, TypeOK, Timers, Running, RunNow, RunSoon, Queue
<1>3. Number(Timers', v) \in Nat /\ Number(Running', v) \in Nat /\ Number(RunNow', v) \in Nat
  BY <1>2, SeqNumber
<1>4. Number(RunSoon', v) \in Nat /\ Number(Queue', v) \in Nat
  BY <1>2, SeqNumber
<1> QED
  BY <1>1, <1>3, <1>4

(* The end of the run of a coroutine.                                      *)
LEMMA RunEnds ==
    ASSUME IInv, Fitting, CountsCover, InCode, NEW refs, EndRun(Top.run, refs)
    PROVE  /\ \A r \in Requests :
                /\ refs[r] \in Int /\ IsFiniteSet(Places(on', r)) /\ Number(on', r) \in Nat
                /\ refs[r] = ref[r] \/ (/\ refs[r] = ref[r] - 1 /\ r = Top.tracker
                                        /\ Top.run # None /\ on[Top.run] = r)
                /\ refs[r] - Number(on', r) >= ref[r] - Number(on, r)
           /\ \A w \in Runners :
                runner'[w] # runner[w] \/ on'[w] # on[w] => w = Top.run /\ runner'[w] # "queued"
           /\ Top.run # None => runner'[Top.run] # "queued"
           /\ Top.run = None => refs = ref
<1>0. /\ Top.run \in Run /\ cur \in {Top.tracker, None} /\ None \notin Requests
      /\ Top.run # None => Top.tracker \in {on[Top.run], None}
      /\ on \in [Runners -> Tracker] /\ ref \in [Requests -> Int] /\ None \notin Runners
      /\ runner \in [Runners -> {"free", "waiting", "queued"}]
      /\ \A r \in Requests : /\ IsFiniteSet(Places(on, r)) /\ Number(on, r) \in Nat
                             /\ ref[r] \in Int
  BY Typed, TopIs, NumberIs DEF CountsCover, FrameFits
<1>1. CASE Top.run = None
  BY <1>0, <1>1 DEF EndRun
<1>2. CASE /\ Top.run # None /\ refs = ref
           /\ runner' = [runner EXCEPT ![Top.run] = "waiting"] /\ on' = on
  BY <1>0, <1>2 DEF Run
<1>3. CASE /\ Top.run # None
           /\ refs = IF cur = None THEN ref ELSE [ref EXCEPT ![cur] = @ - 1]
           /\ runner' = [runner EXCEPT ![Top.run] = "free"]
           /\ on' = [on EXCEPT ![Top.run] = None]
  <2>0. Top.run \in Runners /\ DOMAIN on = Runners
    BY <1>0, <1>3 DEF Run
  <2>1. /\ \A w \in Runners : w # Top.run => runner'[w] = runner[w] /\ on'[w] = on[w]
        /\ runner'[Top.run] = "free" /\ on'[Top.run] = None /\ DOMAIN on' = DOMAIN on
    BY <1>0, <1>3, <2>0
  <2>2. ASSUME NEW r \in Requests
        PROVE  /\ IsFiniteSet(Places(on', r)) /\ Number(on', r) \in Nat
               /\ Number(on', r) = Number(on, r) - One(on[Top.run], r)
    <3> PICK w \in Runners : w = Top.run
      BY <2>0
    <3>0. /\ \A x \in Runners : x # w => on'[x] = on[x]
          /\ DOMAIN on = Runners /\ DOMAIN on' = Runners /\ IsFiniteSet(Places(on, r))
      BY <1>0, <2>0, <2>1
    <3>1. /\ IsFiniteSet(Places(on', r))
          /\ Number(on', r) = Number(on, r) - One(on[w], r) + One(on'[w], r)
      BY <3>0, NumberPut
    <3>2. One(on'[Top.run], r) = 0 /\ One(on[Top.run], r) \in Nat
      BY <1>0, <2>1 DEF One
    <3> QED
      BY <1>0, <3>1, <3>2, NumberIs
  <2>3. ASSUME NEW r \in Requests
        PROVE  /\ refs[r] \in Int
               /\ \/ refs[r] = ref[r]
                  \/ refs[r] = ref[r] - 1 /\ r = Top.tracker /\ on[Top.run] = r
    <3>1. refs[r] = IF cur = r THEN ref[r] - 1 ELSE ref[r]
      BY <1>0, <1>3
    <3> QED
      BY <1>0, <1>3, <3>1
  <2>4. ASSUME NEW r \in Requests PROVE refs[r] - Number(on', r) >= ref[r] - Number(on, r)
    BY <1>0, <2>2, <2>3 DEF One
  <2> QED
    BY <1>3, <2>1, <2>2, <2>3, <2>4
<1> QED
  BY <1>1, <1>2, <1>3 DEF EndRun

LEMMA RunsKept ==
    ASSUME IInv, IInv', Fitting, CountsCover, RunsOnce, StepKind
    PROVE  RunsOnce'
<1> SUFFICES ASSUME NEW w \in Runners
             PROVE  Number(RunNow, w)' + Number(RunSoon, w)' <= One(runner'[w], "queued")
  BY DEF RunsOnce
<1>0. /\ Number(RunNow, w) + Number(RunSoon, w) <= One(runner[w], "queued")
      /\ Number(RunNow, w) \in Nat /\ Number(RunNow, w)' \in Nat
      /\ Number(RunSoon, w) \in Nat /\ Number(RunSoon, w)' \in Nat
      /\ w # None /\ runner \in [Runners -> {"free", "waiting", "queued"}]
      /\ \A a, b : One(a, b) \in {0, 1}
      /\ One(None, w) = 0
  BY NumbersAre, Typed DEF RunsOnce, One
<1>1. ASSUME NEW f \in Frames, Call(f)
      PROVE  Number(RunNow, w)' = Number(RunNow, w) + One(f.run, w)
  BY <1>1, CallPushed DEF Call
<1>2. ASSUME NEW f \in Frames, Call(f), Enters(f)
      PROVE  Number(RunNow, w)' + Number(RunSoon, w)' <= One(runner'[w], "queued")
  <2>1. runner' = runner /\ Number(RunSoon, w)' = Number(RunSoon, w) /\ f.run = None
    BY <1>2, QueueSame DEF Enters, loopVars
  <2> QED
    BY <1>0, <1>1, <1>2, <2>1
<1>3. ASSUME NEW f \in Frames, Call(f), Takes(f)
      PROVE  Number(RunNow, w)' + Number(RunSoon, w)' <= One(runner'[w], "queued")
  <2>1. runner' = runner /\ Number(RunSoon, w) = Number(RunSoon, w)' + One(f.run, w)
    BY <1>3, CallbackTaken DEF Takes
  <2> QED
    BY <1>0, <1>1, <1>3, <2>1
<1>4. ASSUME NEW f \in Frames, Call(f), Resumes(f)
      PROVE  Number(RunNow, w)' + Number(RunSoon, w)' <= One(runner'[w], "queued")
  <2>1. /\ Number(RunSoon, w)' = Number(RunSoon, w)
        /\ runner[f.run] = "waiting" /\ runner' = [runner EXCEPT ![f.run] = "queued"]
    BY <1>4, QueueSame DEF Resumes
  <2>2. CASE f.run = w
    <3>1. One(runner[w], "queued") = 0 /\ One(runner'[w], "queued") = 1
      BY <1>0, <2>1, <2>2 DEF One
    <3> QED
      BY <1>0, <1>1, <1>4, <2>1, <3>1
  <2>3. CASE f.run # w
    <3>1. One(f.run, w) = 0 /\ runner'[w] = runner[w]
      BY <1>0, <2>1, <2>3 DEF One
    <3> QED
      BY <1>0, <1>1, <1>4, <2>1, <3>1
  <2> QED
    BY <2>2, <2>3
<1>5. ASSUME NEW c \in Callbacks, Adds(c)
      PROVE  Number(RunNow, w)' + Number(RunSoon, w)' <= One(runner'[w], "queued")
  <2>1. /\ Number(RunNow, w)' = Number(RunNow, w)
        /\ Number(RunSoon, w)' = Number(RunSoon, w) + One(c.run, w)
    BY <1>5, CallsSame, CallbackAdded DEF Adds
  <2>2. CASE c.run = None /\ runner' = runner
    BY <1>0, <2>1, <2>2
  <2>3. CASE /\ c.run \in Runners /\ runner[c.run] = "waiting"
             /\ runner' = [runner EXCEPT ![c.run] = "queued"]
    <3>1. CASE c.run = w
      <4>1. One(runner[w], "queued") = 0 /\ One(runner'[w], "queued") = 1
        BY <1>0, <2>3, <3>1 DEF One
      <4> QED
        BY <1>0, <2>1, <4>1
    <3>2. CASE c.run # w
      <4>1. One(c.run, w) = 0 /\ runner'[w] = runner[w]
        BY <1>0, <2>3, <3>2 DEF One
      <4> QED
        BY <1>0, <2>1, <4>1
    <3> QED
      BY <3>1, <3>2
  <2> QED
    BY <1>5, <2>2, <2>3 DEF Adds
<1>6. CASE Leaves
  <2>1. /\ Number(RunNow, w) = Number(RunNow, w)' + One(Top.run, w)
        /\ Number(RunSoon, w)' = Number(RunSoon, w)
    BY <1>6, CallPopped, QueueSame DEF Leaves
  <2>2. CASE runner' = runner
    BY <1>0, <2>1, <2>2
  <2>3. CASE \E refs : InCode /\ EndRun(Top.run, refs)
    <3>1. CASE Top.run = w
      <4>1. One(Top.run, w) = 1
        BY <3>1 DEF One
      <4> QED
        BY <1>0, <2>1, <4>1
    <3>2. CASE Top.run # w
      <4>1. runner'[w] = runner[w]
        BY <2>3, <3>2, RunEnds
      <4> QED
        BY <1>0, <2>1, <4>1
    <3> QED
      BY <3>1, <3>2
  <2> QED
    BY <1>6, <2>2, <2>3 DEF Leaves
<1>7. CASE Stays
  <2>1. Number(RunNow, w)' = Number(RunNow, w) /\ Number(RunSoon, w)' = Number(RunSoon, w)
    BY <1>7, CallsSame, QueueSame DEF Stays
  <2>2. One(runner'[w], "queued") = One(runner[w], "queued")
    BY <1>0, <1>7 DEF Stays, One
  <2> QED
    BY <1>0, <2>1, <2>2
<1> QED
  BY <1>2, <1>3, <1>4, <1>5, <1>6, <1>7 DEF StepKind

(* What runs or is queued goes on under the tracker it waited with.        *)
LEMMA OnStays ==
    ASSUME IInv, IInv', Fitting, CountsCover, RunsOnce', StepKind
    PROVE  /\ \A i \in 1 .. Len(frames') : frames'[i].run # None =>
                 frames'[i].run \in Runners /\ on'[frames'[i].run] = on[frames'[i].run]
           /\ \A i \in 1 .. Len(pending') : pending'[i].run # None =>
                 pending'[i].run \in Runners /\ on'[pending'[i].run] = on[pending'[i].run]
           /\ resumed \subseteq resumed'
<1>1. ASSUME NEW w \in Runners, runner'[w] = "queued" PROVE on'[w] = on[w]
  <2>1. CASE \E f : Enters(f) \/ Takes(f) \/ Resumes(f)
    BY <2>1 DEF Enters, Takes, Resumes, loopVars
  <2>2. CASE \E c : Adds(c)
    BY <2>2 DEF Adds
  <2>3. CASE Leaves
    <3>1. CASE on' = on
      BY <3>1
    <3>2. CASE \E refs : EndRun(Top.run, refs)
      BY <1>1, <2>3, <3>2, RunEnds DEF Leaves
    <3> QED
      BY <2>3, <3>1, <3>2 DEF Leaves
  <2>4. CASE Stays
    BY <1>1, <2>4, Typed DEF Stays
  <2> QED
    BY <2>1, <2>2, <2>3, <2>4 DEF StepKind
<1>2. ASSUME NEW w \in Runners, Number(RunNow, w)' # 0 \/ Number(RunSoon, w)' # 0
      PROVE  runner'[w] = "queued"
  BY <1>2, NumbersAre DEF RunsOnce, One
<1>3. /\ Len(frames') \in Nat /\ Len(pending') \in Nat
      /\ DOMAIN RunNow' = 1 .. Len(frames') /\ DOMAIN RunSoon' = 1 .. Len(pending')
      /\ frames' \in Seq(Frames) /\ pending' \in Seq(Callbacks)
  BY DEF IInv, TypeOK, RunNow, RunSoon
<1>4. ASSUME NEW i \in 1 .. Len(frames'), frames'[i].run # None
      PROVE  frames'[i].run \in Runners /\ on'[frames'[i].run] = on[frames'[i].run]
  <2>1. PICK w \in Runners : w = frames'[i].run
    <3>1. frames'[i] \in Frames
      BY <1>3
    <3> QED
      BY <1>4, <3>1 DEF Frames, Run
  <2>2. RunNow'[i] = w
    BY <2>1 DEF RunNow
  <2>3. Number(RunNow', w) # 0
    BY <1>3, <2>2, SeqNumber
  <2> QED
    BY <1>1, <1>2, <2>1, <2>3
<1>5. ASSUME NEW i \in 1 .. Len(pending'), pending'[i].run # None
      PROVE  pending'[i].run \in Runners /\ on'[pending'[i].run] = on[pending'[i].run]
  <2>1. PICK w \in Runners : w = pending'[i].run
    <3>1. pending'[i] \in Callbacks
      BY <1>3
    <3> QED
      BY <1>5, <3>1 DEF Callbacks, Run
  <2>2. RunSoon'[i] = w
    BY <2>1 DEF RunSoon
  <2>3. Number(RunSoon', w) # 0
    BY <1>3, <2>2, SeqNumber
  <2> QED
    BY <1>1, <1>2, <2>1, <2>3
<1>6. resumed \subseteq resumed'
  BY DEF StepKind, Enters, Takes, Resumes, Adds, Leaves, Stays
<1> QED
  BY <1>4, <1>5, <1>6

LEMMA FramesFit ==
    ASSUME IInv, IInv', Fitting, CountsCover, RunsOnce', StepKind
    PROVE  \A i \in 1 .. Len(frames') : FrameFits(frames[i], i)'
<1>0. /\ \A i \in 1 .. Len(frames) : FrameFits(frames[i], i)
      /\ \A i \in 1 .. Len(frames') : frames'[i].run # None =>
            on'[frames'[i].run] = on[frames'[i].run]
      /\ resumed \subseteq resumed'
      /\ frames \in Seq(Frames) /\ Len(frames) \in Nat
  BY OnStays, Typed DEF Fitting
<1>1. ASSUME NEW i \in 1 .. Len(frames'), i \in 1 .. Len(frames), frames'[i] = frames[i],
             i = 2 => frames'[1] = frames[1]
      PROVE  FrameFits(frames[i], i)'
  BY <1>0, <1>1 DEF FrameFits
<1>2. CASE frames' = frames
  BY <1>1, <1>2
<1>3. CASE Leaves
  <2>1. /\ Len(frames) >= 1 /\ Len(frames') = Len(frames) - 1
        /\ \A i \in 1 .. Len(frames) - 1 : frames'[i] = frames[i]
    BY <1>0, <1>3, FrontFacts DEF Leaves, InCode
  <2> QED
    BY <1>0, <1>1, <2>1
<1>4. ASSUME NEW f \in Frames, Call(f), Enters(f) \/ Takes(f) \/ Resumes(f)
      PROVE  \A i \in 1 .. Len(frames') : FrameFits(frames[i], i)'
  <2>0. PICK n \in Nat : n = Len(frames) + 1
    BY <1>0
  <2>1. /\ Len(frames') = Len(frames) + 1 /\ frames'[Len(frames) + 1] = f
        /\ \A i \in 1 .. Len(frames) : frames'[i] = frames[i]
    BY <1>0, <1>4, AppendFacts DEF Call
  <2>2. ASSUME NEW i \in 1 .. Len(frames) PROVE FrameFits(frames[i], i)'
    BY <1>0, <1>1, <2>1
  <2>3. FrameFits(f, n)'
    <3>1. CASE Enters(f)
      <4>1. CASE f.kind = "event" /\ f.tracker = None /\ ~InCode
        BY <1>0, <2>0, <3>1, <4>1 DEF Enters, FrameFits, InCode
      <4>2. CASE f.kind = "export" /\ InCode /\ Top.kind = "event"
        <5>1. Len(frames) = 1 /\ frames[1].kind = "event"
          BY <4>2, TopIs DEF FrameFits
        <5>2. frames'[1] = frames[1]
          BY <2>1, <5>1
        <5> QED
          BY <2>0, <3>1, <4>2, <5>1, <5>2 DEF Enters, FrameFits
      <4>3. CASE f.kind = "call"
        BY <3>1, <4>3 DEF Enters, FrameFits
      <4> QED
        BY <3>1, <4>1, <4>2, <4>3 DEF Enters
    <3>2. CASE Takes(f)
      <4> DEFINE c == Head(pending)
      <4>1. c \in Callbacks /\ CallbackFits(c) /\ c = pending[1] /\ 1 \in 1 .. Len(pending)
        <5>1. c = pending[1] /\ 1 \in 1 .. Len(pending) /\ c \in Callbacks
          BY <3>2, Typed DEF Takes
        <5> QED
          BY <5>1 DEF Fitting
      <4>2. f.run # None => f.tracker \in {on'[f.run], None}
        BY <3>2, <4>1, Typed DEF Takes, CallbackFits
      <4>3. ASSUME f.counted # None PROVE f.tracker \in {f.counted, None}
        <5>1. CASE c.slot = None
          BY <3>2, <4>1, <4>3, <5>1, Typed DEF Takes, CallbackFits, CountedOf
        <5>2. CASE c.slot # None
          <6>1. c.slot \in Slots /\ held[c.slot] # None
            BY <4>1, <5>2 DEF Callbacks, IInv, QueueHeld
          <6>2. held[c.slot].counted \in {held[c.slot].tracker, None}
            BY <6>1 DEF Fitting
          <6>3. c.tracker = held[c.slot].tracker /\ f.counted = held[c.slot].counted
            BY <3>2, <4>1, <5>2 DEF Takes, CallbackFits, CountedOf
          <6>4. f.tracker \in {c.tracker, None}
            BY <3>2, Typed DEF Takes
          <6> QED
            BY <4>3, <6>2, <6>3, <6>4
        <5> QED
          BY <5>1, <5>2
      <4>4. n = 1 /\ f.kind = "callback"
        BY <1>0, <2>0, <3>2 DEF Takes, InCode
      <4> QED
        BY <4>2, <4>3, <4>4 DEF FrameFits
    <3>3. CASE Resumes(f)
      BY <3>3, Typed DEF Resumes, FrameFits
    <3> QED
      BY <1>4, <3>1, <3>2, <3>3
  <2> QED
    BY <1>0, <2>0, <2>1, <2>2, <2>3
<1> QED
  BY <1>2, <1>3, <1>4 DEF StepKind, Adds, Stays

LEMMA CallbacksFit ==
    ASSUME IInv, IInv', Fitting, CountsCover, RunsOnce', StepKind
    PROVE  /\ \A i \in 1 .. Len(pending') : CallbackFits(pending[i])'
           /\ \A h \in Slots : held'[h] # None => held'[h].counted \in {held'[h].tracker, None}
<1>0. /\ \A i \in 1 .. Len(pending) : CallbackFits(pending[i])
      /\ \A i \in 1 .. Len(pending') : pending'[i].run # None =>
            on'[pending'[i].run] = on[pending'[i].run]
      /\ pending \in Seq(Callbacks) /\ Len(pending) \in Nat
      /\ held \in [Slots -> {None} \cup Wrapped] /\ None \notin Wrapped /\ None \notin Slots
      /\ \A h \in Slots : held[h] # None => held[h].counted \in {held[h].tracker, None}
  BY OnStays, Typed DEF Fitting
<1>1. \/ held' = held
      \/ \E h \in Slots : held[h] # None /\ held' = [held EXCEPT ![h].counted = None]
      \/ \E h \in Slots : held[h] = None /\ held' =
                               [held EXCEPT ![h] = [tracker |-> cur, counted |-> cur]]
  BY DEF StepKind, Enters, Takes, Resumes, Adds, Leaves, Stays, loopVars
<1>2. ASSUME NEW h \in Slots
      PROVE  /\ held[h] # None => held'[h].tracker = held[h].tracker
             /\ held'[h] # None => held'[h].counted \in {held'[h].tracker, None}
  <2>1. CASE held' = held
    BY <1>0, <2>1
  <2>2. ASSUME NEW q \in Slots, held[q] # None, held' = [held EXCEPT ![q].counted = None]
        PROVE  /\ held[h] # None => held'[h].tracker = held[h].tracker
               /\ held'[h] # None => held'[h].counted \in {held'[h].tracker, None}
    <3>1. held[q] \in Wrapped
      BY <1>0, <2>2
    <3>2. held'[q].tracker = held[q].tracker /\ held'[q].counted = None
      BY <1>0, <2>2, <3>1 DEF Wrapped
    <3>3. h # q => held'[h] = held[h]
      BY <1>0, <2>2
    <3> QED
      BY <1>0, <3>2, <3>3
  <2>3. ASSUME NEW q \in Slots, held[q] = None,
               held' = [held EXCEPT ![q] = [tracker |-> cur, counted |-> cur]]
        PROVE  /\ held[h] # None => held'[h].tracker = held[h].tracker
               /\ held'[h] # None => held'[h].counted \in {held'[h].tracker, None}
    BY <1>0, <2>3
  <2> QED
    BY <1>1, <2>1, <2>2, <2>3
<1>3. ASSUME NEW i \in 1 .. Len(pending'), NEW j \in 1 .. Len(pending), pending'[i] = pending[j]
      PROVE  CallbackFits(pending[i])'
  <2>1. CallbackFits(pending[j]) /\ pending[j] \in Callbacks
    BY <1>0
  <2>2. pending[j].slot # None => pending[j].slot \in Slots /\ held[pending[j].slot] # None
    BY <2>1 DEF Callbacks, IInv, QueueHeld
  <2> QED
    BY <1>0, <1>2, <1>3, <2>1, <2>2 DEF CallbackFits
<1>4. ASSUME pending' = pending
      PROVE  \A i \in 1 .. Len(pending') : CallbackFits(pending[i])'
  <2>1. ASSUME NEW i \in 1 .. Len(pending') PROVE CallbackFits(pending[i])'
    <3>1. i \in 1 .. Len(pending) /\ pending'[i] = pending[i]
      BY <1>4
    <3> QED
      BY <1>3, <3>1
  <2> QED
    BY <2>1
<1>5. ASSUME pending # << >>, pending' = Tail(pending)
      PROVE  \A i \in 1 .. Len(pending') : CallbackFits(pending[i])'
  <2>1. \A i \in 1 .. Len(pending') : i + 1 \in 1 .. Len(pending) /\ pending'[i] = pending[i + 1]
    BY <1>0, <1>5
  <2>2. ASSUME NEW i \in 1 .. Len(pending') PROVE CallbackFits(pending[i])'
    <3>1. i + 1 \in 1 .. Len(pending) /\ pending'[i] = pending[i + 1]
      BY <2>1
    <3> QED
      BY <1>3, <3>1
  <2> QED
    BY <2>2
<1>6. ASSUME NEW c \in Callbacks, Adds(c)
      PROVE  \A i \in 1 .. Len(pending') : CallbackFits(pending[i])'
  <2>1. /\ Len(pending') = Len(pending) + 1 /\ pending'[Len(pending) + 1] = c
        /\ \A i \in 1 .. Len(pending) : pending'[i] = pending[i]
    BY <1>0, <1>6, AppendFacts DEF Adds
  <2>2. CallbackFits(c)'
    <3>1. c.run # None => c.slot = None /\ c.tracker \in {on'[c.run], None}
      BY <1>6 DEF Adds
    <3>2. c.slot # None => held'[c.slot].tracker = c.tracker
      BY <1>2, <1>6 DEF Adds, Callbacks
    <3> QED
      BY <1>6, <3>1, <3>2 DEF Adds, CallbackFits
  <2>3. ASSUME NEW i \in 1 .. Len(pending) PROVE CallbackFits(pending[i])'
    BY <1>0, <1>3, <2>1
  <2> QED
    BY <1>0, <2>1, <2>2, <2>3
<1>7. \A i \in 1 .. Len(pending') : CallbackFits(pending[i])'
  BY <1>4, <1>5, <1>6 DEF StepKind, Enters, Takes, Resumes, Leaves, Stays, loopVars
<1> QED
  BY <1>2, <1>7


(* No callback of the queue comes to count for a request it did not count  *)
(* for when it was added.                                                  *)
LEMMA QueueLoses ==
    ASSUME IInv, NEW r \in Requests,
           \/ held' = held
           \/ \E h \in Slots : held[h] # None /\ held' = [held EXCEPT ![h].counted = None]
           \/ \E h \in Slots : held[h] = None /\ held' =
                                  [held EXCEPT ![h] = [tracker |-> cur, counted |-> cur]]
    PROVE  \A i \in 1 .. Len(pending) :
              CountedOf(pending[i], held') = r => CountedOf(pending[i], held) = r
<1> SUFFICES ASSUME NEW i \in 1 .. Len(pending), CountedOf(pending[i], held') = r
             PROVE  CountedOf(pending[i], held) = r
  OBVIOUS
<1>0. /\ held \in [Slots -> {None} \cup Wrapped] /\ None \notin Wrapped /\ r # None
      /\ pending[i] \in Callbacks
  BY Typed
<1>1. pending[i].slot # None => pending[i].slot \in Slots /\ held[pending[i].slot] # None
  BY <1>0 DEF Callbacks, IInv, QueueHeld
<1>2. CASE held' = held
  BY <1>2
<1>3. ASSUME NEW h \in Slots, held[h] # None, held' = [held EXCEPT ![h].counted = None]
      PROVE  CountedOf(pending[i], held) = r
  <2>1. held[h] \in Wrapped /\ held'[h].counted = None
    BY <1>0, <1>3 DEF Wrapped
  <2>2. \A q \in Slots : q # h => held'[q] = held[q]
    BY <1>0, <1>3
  <2> QED
    BY <1>0, <1>1, <2>1, <2>2 DEF CountedOf
<1>4. ASSUME NEW h \in Slots, held[h] = None,
             held' = [held EXCEPT ![h] = [tracker |-> cur, counted |-> cur]]
      PROVE  CountedOf(pending[i], held) = r
  BY <1>0, <1>1, <1>4 DEF CountedOf
<1> QED
  BY <1>2, <1>3, <1>4

LEMMA CoverKept ==
    ASSUME IInv, IInv', Fitting, CountsCover, StepKind
    PROVE  CountsCover'
<1> SUFFICES ASSUME NEW r \in Requests
             PROVE  /\ IsFiniteSet(Places(on', r))
                    /\ ref'[r] >= Number(on', r) + Number(Queue', r) + Number(Running', r)
  BY DEF CountsCover
<1> DEFINE q == Number(Queue, r)
           n == Number(Running, r)
<1>0. /\ IsFiniteSet(Places(on, r)) /\ Number(on, r) \in Nat /\ ref[r] \in Int /\ ref'[r] \in Int
      /\ ref[r] >= Number(on, r) + q + n
      /\ q \in Nat /\ n \in Nat /\ q' \in Nat /\ n' \in Nat
      /\ r # None /\ One(None, r) = 0 /\ \A a, b : One(a, b) \in {0, 1}
  <2>1. ref' \in [Requests -> Int]
    BY DEF IInv, TypeOK
  <2> QED
    BY <2>1, NumbersAre, NumberIs, Typed DEF CountsCover, One
<1>1. ASSUME on' = on, ref'[r] - q' - n' >= ref[r] - q - n
      PROVE  IsFiniteSet(Places(on', r)) /\ ref'[r] >= Number(on', r) + q' + n'
  <2>1. Number(on', r) = Number(on, r) /\ Places(on', r) = Places(on, r)
    BY <1>1
  <2> QED
    BY <1>0, <1>1, <2>1
<1>2. ASSUME NEW f \in Frames, Call(f) PROVE n' = n + One(f.counted, r)
  BY <1>2, CallPushed DEF Call
<1>3. ASSUME NEW f \in Frames, Call(f), Enters(f) \/ Resumes(f)
      PROVE  IsFiniteSet(Places(on', r)) /\ ref'[r] >= Number(on', r) + q' + n'
  <2>1. on' = on /\ ref' = ref /\ q' = q /\ f.counted = None
    BY <1>3, QueueSame DEF Enters, Resumes, loopVars
  <2> QED
    BY <1>0, <1>1, <1>2, <1>3, <2>1
<1>4. ASSUME NEW f \in Frames, Call(f), Takes(f)
      PROVE  IsFiniteSet(Places(on', r)) /\ ref'[r] >= Number(on', r) + q' + n'
  <2>1. on' = on /\ ref' = ref /\ q = q' + One(f.counted, r)
    BY <1>4, CallbackTaken DEF Takes
  <2> QED
    BY <1>0, <1>1, <1>2, <1>4, <2>1
<1>5. ASSUME NEW c \in Callbacks, Adds(c)
      PROVE  IsFiniteSet(Places(on', r)) /\ ref'[r] >= Number(on', r) + q' + n'
  <2>1. on' = on /\ n' = n /\ ref'[r] >= ref[r] + One(CountedOf(c, held'), r)
    BY <1>5, CallsSame DEF Adds
  <2>2. q' <= q + One(CountedOf(c, held'), r)
    BY <1>5, QueueLoses, CallbackAdded DEF Adds
  <2>3. PICK k \in {0, 1} : k = One(CountedOf(c, held'), r)
    BY DEF One
  <2>4. ref'[r] - q' - n' >= ref[r] - q - n
    BY <1>0, <2>1, <2>2, <2>3
  <2> QED
    BY <1>1, <2>1, <2>4
<1>6. CASE Leaves
  <2>1. n = n' + One(Top.counted, r) /\ q' = q
    BY <1>6, CallPopped, QueueSame DEF Leaves
  <2>2. CASE UNCHANGED <<runner, on, ref>>
    <3> QED
      BY <1>0, <1>1, <2>1, <2>2
  <2>3. ASSUME NEW refs, EndRun(Top.run, refs), ref' = Uncount(Top.counted, refs), InCode,
               refs \in RefsAfter
        PROVE  IsFiniteSet(Places(on', r)) /\ ref'[r] >= Number(on', r) + q' + n'
    <3>1. /\ IsFiniteSet(Places(on', r)) /\ Number(on', r) \in Nat /\ refs[r] \in Int
          /\ refs[r] - Number(on', r) >= ref[r] - Number(on, r)
      BY <2>3, RunEnds
    <3>2. refs \in [Requests -> Int] /\ Top.counted \in Tracker
      BY <2>3, Typed, TopIs DEF RefsAfter
    <3>3. ref'[r] = refs[r] - One(Top.counted, r)
      BY <1>0, <2>3, <3>2 DEF Uncount, Tracker, One
    <3> QED
      BY <1>0, <2>1, <3>1, <3>3
  <2> QED
    BY <1>6, <2>2, <2>3 DEF Leaves
<1>7. CASE Stays
  <2>1. n' = n
    BY <1>7, CallsSame DEF Stays
  <2>2. q' <= q
    <3>1. \A i \in 1 .. Len(pending) :
             CountedOf(pending[i], held') = r => CountedOf(pending[i], held) = r
      BY <1>7, QueueLoses DEF Stays
    <3>2. pending' = pending
      BY <1>7 DEF Stays
    <3>3. /\ DOMAIN Queue' = 1 .. Len(pending) /\ DOMAIN Queue = 1 .. Len(pending)
          /\ \A i \in 1 .. Len(pending) : Queue'[i] = r => Queue[i] = r
      BY <3>1, <3>2 DEF Queue
    <3>4. IsFiniteSet(Places(Queue, r))
      BY Typed, SeqNumber
    <3> QED
      BY <3>3, <3>4, NumberLess
  <2>3. CASE UNCHANGED <<on, ref>>
    <3>1. ref'[r] - q' - n' >= ref[r] - q - n
      BY <1>0, <2>1, <2>2, <2>3
    <3> QED
      BY <1>1, <2>3, <3>1
  <2>4. CASE /\ cur # None /\ ref' = [ref EXCEPT ![cur] = @ + 1]
             /\ \E w \in Runners : on' = [on EXCEPT ![w] = cur]
    <3>1. PICK w \in Runners : on' = [on EXCEPT ![w] = cur]
      BY <2>4
    <3>2. /\ DOMAIN on = Runners /\ DOMAIN on' = Runners
          /\ \A x \in Runners : x # w => on'[x] = on[x]
          /\ on'[w] = cur
      BY <3>1, Typed
    <3>3. /\ IsFiniteSet(Places(on', r))
          /\ Number(on', r) = Number(on, r) - One(on[w], r) + One(cur, r)
      <4>1. IsFiniteSet(Places(on, r))
        BY <1>0
      <4>2. /\ IsFiniteSet(Places(on', r))
            /\ Number(on', r) = Number(on, r) - One(on[w], r) + One(on'[w], r)
        BY <3>2, <4>1, NumberPut
      <4> QED
        BY <3>2, <4>2
    <3>4. ref'[r] = ref[r] + One(cur, r)
      BY <2>4, Typed DEF Tracker, One
    <3>5. PICK a \in {0, 1}, b \in {0, 1} : a = One(on[w], r) /\ b = One(cur, r)
      BY DEF One
    <3> QED
      BY <1>0, <2>1, <2>2, <3>3, <3>4, <3>5
  <2> QED
    BY <1>7, <2>3, <2>4 DEF Stays
<1> QED
  BY <1>3, <1>4, <1>5, <1>6, <1>7 DEF StepKind

(* The timers of a request are those of the calls under it.                *)
LEMMA DepthKept ==
    ASSUME IInv, IInv', Fitting, DepthIs, StepKind
    PROVE  DepthIs'
<1> SUFFICES ASSUME NEW r \in Requests PROVE depth'[r] = Number(Timers', r)
  BY DEF DepthIs
<1>0. /\ depth \in [Requests -> Int] /\ depth[r] = Number(Timers, r) /\ None \notin Requests
      /\ Number(Timers, r) \in Nat /\ Number(Timers', r) \in Nat
  BY NumbersAre, Typed DEF DepthIs
<1>1. ASSUME NEW f \in Frames, Call(f) PROVE depth'[r] = Number(Timers', r)
  <2>1. Number(Timers', r) = Number(Timers, r) + One(f.tracker, r)
    BY <1>1, CallPushed DEF Call
  <2>2. f.tracker \in Tracker
    BY DEF Frames
  <2>3. depth'[r] = depth[r] + One(f.tracker, r)
    BY <1>0, <1>1, <2>2 DEF Call, One, Tracker
  <2> QED
    BY <1>0, <2>1, <2>3
<1>2. CASE frames' = frames /\ depth' = depth
  BY <1>0, <1>2, CallsSame
<1>3. CASE Leaves
  <2>1. Number(Timers, r) = Number(Timers', r) + One(Top.tracker, r) /\ Top.tracker \in Tracker
    BY <1>3, CallPopped, TopIs DEF Leaves
  <2>2. depth'[r] = depth[r] - One(Top.tracker, r)
    BY <1>0, <1>3, <2>1 DEF Leaves, EndTimer, One, Tracker
  <2>3. One(Top.tracker, r) \in Int
    BY DEF One
  <2> QED
    BY <1>0, <2>1, <2>2, <2>3
<1> QED
  BY <1>1, <1>2, <1>3 DEF StepKind, Adds, Stays


-----------------------------------------------------------------------------
(* The end of a request.                                                   *)

(* Nobody looks at a count, so that it only rises.                         *)
Counts ==
    /\ UNCHANGED <<can_finalize, is_finalized, misnested>>
    /\ \A r \in Requests : ref'[r] \in {ref[r], ref[r] + 1}

(* The count of one request is looked at: with the last of its calls, or   *)
(* within another if it was a coroutine resumed there that ended.          *)
Looks(r) ==
    /\ \E before \in Tracker : TryFinish(r, can_finalize', ref', depth', before)
    /\ \A q \in Requests : q # r => ref'[q] = ref[q] /\ can_finalize'[q] = can_finalize[q]
    /\ \/ \A i \in 1 .. Len(frames') : frames'[i].tracker = None
       \/ can_finalize' = can_finalize /\ (ref'[r] = ref[r] \/ r \in resumed)

LEMMA CountsOnly ==
    ASSUME IInv, NEW t \in Tracker, Count(t) \/ UNCHANGED ref
    PROVE  \A r \in Requests : ref'[r] \in {ref[r], ref[r] + 1}
BY CountIs, Typed DEF One

LEMMA EndCallLooks ==
    ASSUME IInv, Fitting, CountsCover, EndCall
    PROVE  Counts \/ \E r \in Requests : Looks(r)
<1>1. PICK refs \in RefsAfter, raised \in BOOLEAN :
        /\ InCode /\ Top.kind = "call" /\ MayRaise(raised)
        /\ EndRun(Top.run, refs) /\ ref' = refs
        /\ IF Top.tracker = None \/ raised
             THEN cur' = Top.old /\ UNCHANGED <<is_finalized, reports, misnested>>
             ELSE TryFinish(Top.tracker, can_finalize, refs, depth', Top.old)
        /\ can_finalize' = can_finalize
  BY DEF EndCall
<1>2. /\ Top.tracker \in Tracker /\ Top.old \in Tracker /\ None \notin Requests
      /\ Top.run # None => on[Top.run] \in resumed
  <2>1. Top \in Frames
    BY <1>1, TopIs
  <2> QED
    BY <1>1, <2>1, TopIs, Typed DEF Frames, FrameFits
<1>3. \A r \in Requests :
         refs[r] = ref[r] \/ (r = Top.tracker /\ Top.run # None /\ on[Top.run] = r)
  BY <1>1, RunEnds
<1>4. CASE Top.tracker = None \/ raised
  <2>1. \A r \in Requests : ref'[r] = ref[r]
    BY <1>1, <1>2, <1>3, <1>4 DEF MayRaise
  <2> QED
    BY <1>1, <1>4, <2>1 DEF Counts
<1>5. CASE ~(Top.tracker = None \/ raised)
  <2>1. Top.tracker \in Requests
    BY <1>2, <1>5 DEF Tracker
  <2>2. TryFinish(Top.tracker, can_finalize', ref', depth', Top.old)
    BY <1>1, <1>5
  <2>3. \A q \in Requests :
           q # Top.tracker => ref'[q] = ref[q] /\ can_finalize'[q] = can_finalize[q]
    BY <1>1, <1>3
  <2>4. ref'[Top.tracker] = ref[Top.tracker] \/ Top.tracker \in resumed
    BY <1>1, <1>2, <1>3, <2>1
  <2>5. Looks(Top.tracker)
    BY <1>1, <1>2, <2>2, <2>3, <2>4 DEF Looks
  <2> QED
    BY <2>1, <2>5
<1> QED
  BY <1>4, <1>5

LEMMA EndCallbackLooks ==
    ASSUME IInv, Fitting, CountsCover, EndCallback
    PROVE  Counts \/ \E r \in Requests : Looks(r)
<1>1. PICK refs \in RefsAfter, raised \in BOOLEAN :
        /\ InCode /\ Top.kind = "callback" /\ MayRaise(raised)
        /\ EndRun(Top.run, refs) /\ ref' = Uncount(Top.counted, refs) /\ frames' = Front(frames)
        /\ CASE Top.counted # None ->
                  TryFinish(Top.counted, can_finalize, ref', depth', Top.old)
             [] Top.counted = None /\ Top.tracker # None /\ ~raised ->
                  TryFinish(Top.tracker, can_finalize, refs, depth', Top.old)
             [] Top.counted = None /\ (Top.tracker = None \/ raised) ->
                  cur' = Top.old /\ UNCHANGED <<is_finalized, reports, misnested>>
        /\ can_finalize' = can_finalize
  BY DEF EndCallback
<1>2. /\ Top.tracker \in Tracker /\ Top.counted \in Tracker /\ Top.old \in Tracker
      /\ None \notin Requests
      /\ Top.counted # None => Top.tracker \in {Top.counted, None}
      /\ Len(frames) = 1
  <2>1. Top \in Frames
    BY <1>1, TopIs
  <2> QED
    BY <1>1, <2>1, TopIs, Typed DEF Frames, FrameFits
<1>3. \A r \in Requests :
         refs[r] = ref[r] \/ (r = Top.tracker /\ Top.run # None)
  BY <1>1, RunEnds
<1>4. \A i \in 1 .. Len(frames') : frames'[i].tracker = None
  <2>1. Len(frames') = 0
    BY <1>1, <1>2, Typed, FrontFacts DEF InCode
  <2> QED
    BY <2>1
<1>5. CASE Top.counted # None
  <2>1. Top.counted \in Requests /\ refs \in [Requests -> Int]
    BY <1>2, <1>5, Typed DEF Tracker, RefsAfter
  <2>2. \A q \in Requests : q # Top.counted => ref'[q] = ref[q]
    BY <1>1, <1>2, <1>3, <1>5, <2>1 DEF Uncount
  <2>3. TryFinish(Top.counted, can_finalize', ref', depth', Top.old)
    BY <1>1, <1>5
  <2> QED
    BY <1>1, <1>2, <1>4, <2>1, <2>2, <2>3 DEF Looks
<1>6. CASE Top.counted = None /\ Top.tracker # None /\ ~raised
  <2>1. Top.tracker \in Requests /\ ref' = refs
    BY <1>1, <1>2, <1>6 DEF Tracker, Uncount
  <2>2. TryFinish(Top.tracker, can_finalize', ref', depth', Top.old)
    BY <1>1, <1>6, <2>1
  <2> QED
    BY <1>1, <1>2, <1>3, <1>4, <2>1, <2>2 DEF Looks
<1>7. CASE Top.counted = None /\ (Top.tracker = None \/ raised)
  <2>1. ref' = refs /\ UNCHANGED <<is_finalized, misnested>>
    BY <1>1, <1>7 DEF Uncount
  <2>2. \A r \in Requests : ref'[r] = ref[r]
    BY <1>1, <1>2, <1>3, <1>7, <2>1 DEF MayRaise
  <2> QED
    BY <1>1, <2>1, <2>2 DEF Counts
<1> QED
  BY <1>5, <1>6, <1>7

LEMMA CountLooks ==
    ASSUME IInv, Fitting, CountsCover, Next
    PROVE  Counts \/ \E r \in Requests : Looks(r)
<1>0. cur \in Tracker /\ None \in Tracker /\ Requests \subseteq Tracker
  BY Typed DEF Tracker
<1>1. ASSUME \/ HandleEvent \/ RunCallback \/ EndEvent \/ Idle
             \/ \E r \in Requests : NewRequest(r) \/ Dispatch(r)
             \/ \E h \in Slots : Wrap(h) \/ CallHeld(h)
             \/ \E w \in Runners : ResolveInThread(w) \/ ResumeDirectly(w)
      PROVE  Counts
  BY <1>1 DEF HandleEvent, RunCallback, EndEvent, Idle, NewRequest, Dispatch, Wrap, CallHeld,
     ResolveInThread, ResumeDirectly, vars, trackerVars, Counts
<1>2. ASSUME AddCallback \/ (\E h \in Slots : AddHeld(h)) \/ \E w \in Runners : StartRunner(w)
      PROVE  Counts
  <2>1. Count(cur) \/ UNCHANGED ref
    BY <1>2 DEF AddCallback, AddHeld, StartRunner
  <2>2. UNCHANGED <<can_finalize, is_finalized, misnested>>
    BY <1>2 DEF AddCallback, AddHeld, StartRunner
  <2> QED
    BY <1>0, <2>1, <2>2, CountsOnly DEF Counts
<1>3. ASSUME NEW w \in Runners, Resolve(w) PROVE Counts
  <2>1. Live(on[w]) \in Tracker
    <3>1. on[w] \in Tracker /\ Live(on[w]) \in {on[w], None}
      BY Typed
    <3> QED
      BY <1>0, <3>1
  <2> QED
    BY <1>3, <2>1, CountsOnly DEF Resolve, Counts
<1>4. ASSUME NEW r \in Requests, ConnectionClose(r) PROVE Looks(r)
  <2>1. \A i \in 1 .. Len(frames') : frames'[i].tracker = None
    <3>1. InCode /\ Top.kind = "event" /\ frames' = frames
      BY <1>4 DEF ConnectionClose
    <3>2. Len(frames) = 1 /\ frames[1].tracker = None
      BY <3>1, TopIs DEF FrameFits
    <3> QED
      BY <3>1, <3>2
  <2>2. /\ can_finalize' = [can_finalize EXCEPT ![r] = TRUE] /\ ref' = ref
        /\ TryFinish(r, can_finalize', ref', depth', cur)
    BY <1>4 DEF ConnectionClose
  <2>3. \A q \in Requests : q # r => can_finalize'[q] = can_finalize[q]
    BY <2>2, Typed
  <2> QED
    BY <1>0, <2>1, <2>2, <2>3 DEF Looks
<1>5. ASSUME EndDispatch PROVE Top.tracker \in Requests /\ Looks(Top.tracker)
  <2>1. /\ InCode /\ Top.kind = "export" /\ frames' = Front(frames) /\ ref' = ref
        /\ can_finalize' = [can_finalize EXCEPT ![Top.tracker] = TRUE]
        /\ TryFinish(Top.tracker, can_finalize', ref', depth', Top.old)
    BY <1>5 DEF EndDispatch
  <2>2. Top.tracker \in Requests /\ Top.old \in Tracker
    BY <2>1, TopIs DEF IInv, OnlyOpenFinish, Frames
  <2>3. Len(frames) = 2 /\ frames[1].kind = "event"
    BY <2>1, TopIs DEF FrameFits
  <2>4. frames[1].tracker = None
    BY <2>3 DEF Fitting, FrameFits
  <2>5. Len(frames') = 1 /\ frames'[1] = frames[1]
    <3>1. frames # << >> /\ frames \in Seq(Frames)
      BY <2>1, Typed DEF InCode
    <3>2. /\ Len(Front(frames)) = Len(frames) - 1
          /\ \A i \in 1 .. Len(frames) - 1 : Front(frames)[i] = frames[i]
      BY <3>1, FrontFacts
    <3> QED
      BY <2>1, <2>3, <3>2
  <2>6. \A i \in 1 .. Len(frames') : frames'[i].tracker = None
    BY <2>4, <2>5
  <2>7. \A q \in Requests : q # Top.tracker => can_finalize'[q] = can_finalize[q]
    BY <2>1, <2>2, Typed
  <2> QED
    BY <2>1, <2>2, <2>6, <2>7 DEF Looks
<1>6. CASE EndCall
  BY <1>6, EndCallLooks
<1>7. CASE EndCallback
  BY <1>7, EndCallbackLooks
<1> QED
  BY <1>1, <1>2, <1>3, <1>4, <1>5, <1>6, <1>7 DEF Next, Return, Code, Connection

LEMMA DueKept ==
    ASSUME IInv, IInv', CountsCover, Due, Counts \/ \E r \in Requests : Looks(r)
    PROVE  Due'
<1> SUFFICES ASSUME NEW r \in Requests, can_finalize'[r], ~is_finalized'[r] PROVE ref'[r] # 0
  BY DEF Due
<1>0. can_finalize[r] /\ ~is_finalized[r] => ref[r] # 0
  BY DEF Due
<1>1. CASE Counts
  <2>1. ref[r] \in Nat
    BY NumbersAre, NumberIs, Typed DEF CountsCover
  <2> QED
    BY <1>0, <1>1, <2>1 DEF Counts
<1>2. ASSUME NEW q \in Requests, Looks(q) PROVE ref'[r] # 0
  <2>1. PICK before \in Tracker : TryFinish(q, can_finalize', ref', depth', before)
    BY <1>2 DEF Looks
  <2>2. CASE CanFinish(q, can_finalize', ref')
    <3>1. is_finalized' = [is_finalized EXCEPT ![q] = TRUE]
      BY <2>1, <2>2 DEF TryFinish, FinishTracker
    <3>2. q # r /\ is_finalized'[r] = is_finalized[r]
      BY <3>1, Typed
    <3> QED
      BY <1>0, <1>2, <3>2 DEF Looks
  <2>3. CASE ~CanFinish(q, can_finalize', ref')
    <3>1. is_finalized' = is_finalized
      BY <2>1, <2>3 DEF TryFinish
    <3> QED
      BY <1>0, <1>2, <2>3, <3>1 DEF Looks, CanFinish
  <2> QED
    BY <2>2, <2>3
<1> QED
  BY <1>1, <1>2

LEMMA RootKept ==
    ASSUME IInv, IInv', Due, DepthIs', FinishedAtRoot, resumed \subseteq resumed',
           Counts \/ \E r \in Requests : Looks(r)
    PROVE  FinishedAtRoot'
<1>1. CASE Counts
  BY <1>1 DEF Counts, FinishedAtRoot
<1>2. ASSUME NEW r \in Requests, Looks(r) PROVE FinishedAtRoot'
  <2>1. PICK before \in Tracker : TryFinish(r, can_finalize', ref', depth', before)
    BY <1>2 DEF Looks
  <2>2. CASE misnested' = misnested
    BY <2>2 DEF FinishedAtRoot
  <2>3. CASE misnested' # misnested
    <3>1. CanFinish(r, can_finalize', ref') /\ depth'[r] > 0 /\ misnested' = misnested \cup {r}
      BY <2>1, <2>3 DEF TryFinish, FinishTracker
    <3>2. CASE \A i \in 1 .. Len(frames') : frames'[i].tracker = None
      <4>1. \A i \in 1 .. Len(frames') : Timers'[i] # r
        BY <3>2, Typed DEF Timers
      <4>2. DOMAIN Timers' = 1 .. Len(frames') /\ Len(frames') \in Nat
        BY DEF IInv, TypeOK, Timers
      <4>3. Number(Timers', r) = 0
        BY <4>1, <4>2, SeqNumber
      <4>4. depth'[r] = 0
        BY <4>3 DEF DepthIs
      <4> QED
        BY <3>1, <4>4
    <3>3. CASE can_finalize' = can_finalize /\ (ref'[r] = ref[r] \/ r \in resumed)
      <4>1. r \in resumed
        BY <3>1, <3>3 DEF CanFinish, Due
      <4> QED
        BY <3>1, <4>1 DEF FinishedAtRoot
    <3> QED
      BY <1>2, <3>2, <3>3 DEF Looks
  <2> QED
    BY <2>2, <2>3
<1> QED
  BY <1>1, <1>2

LEMMA EndInit == Init => EndInv
<1> SUFFICES ASSUME Init PROVE EndInv
  OBVIOUS
<1>1. IInv /\ frames = << >> /\ pending = << >> /\ ~InCode
  BY InitInv DEF Init, InCode
<1>2. Fitting /\ Due /\ FinishedAtRoot
  <2>1. (\A i \in 1 .. Len(frames) : FALSE) /\ \A i \in 1 .. Len(pending) : FALSE
    BY <1>1
  <2>2. Fitting
    BY <2>1 DEF Init, Fitting
  <2>3. Due /\ FinishedAtRoot
    BY DEF Init, Due, FinishedAtRoot
  <2> QED
    BY <2>2, <2>3
<1>3. ASSUME NEW v
      PROVE  /\ Number(Timers, v) = 0 /\ Number(Running, v) = 0 /\ Number(RunNow, v) = 0
             /\ Number(Queue, v) = 0 /\ Number(RunSoon, v) = 0
  <2>1. /\ DOMAIN Timers = 1 .. 0 /\ DOMAIN Running = 1 .. 0 /\ DOMAIN RunNow = 1 .. 0
        /\ DOMAIN Queue = 1 .. 0 /\ DOMAIN RunSoon = 1 .. 0 /\ \A i \in 1 .. 0 : FALSE
    BY <1>1 DEF Timers, Running, RunNow, Queue, RunSoon
  <2>2. ASSUME NEW f, DOMAIN f = 1 .. 0 PROVE Number(f, v) = 0
    BY <2>1, <2>2, SeqNumber
  <2> QED
    BY <2>1, <2>2
<1>4. RunsOnce /\ DepthIs
  BY <1>3 DEF RunsOnce, DepthIs, One, Init
<1>5. CountsCover
  <2>1. ASSUME NEW r \in Requests PROVE IsFiniteSet(Places(on, r)) /\ Number(on, r) = 0
    <3>1. Places(on, r) = {}
      BY Typed, <1>1 DEF Places, Init
    <3> QED
      BY <3>1, FS_EmptySet DEF Number
  <2> QED
    BY <1>3, <2>1 DEF CountsCover, Init
<1> QED
  BY <1>1, <1>2, <1>4, <1>5 DEF EndInv

LEMMA EndKept == EndInv /\ [Next]_vars => EndInv'
<1> SUFFICES ASSUME EndInv, [Next]_vars PROVE EndInv'
  OBVIOUS
<1>0. IInv /\ IInv'
  BY NextKeeps DEF EndInv
<1>1. CASE Next
  <2>1. StepKind
    BY <1>1, Kinds DEF EndInv, StepKind
  <2>2. Counts \/ \E r \in Requests : Looks(r)
    BY <1>1, CountLooks DEF EndInv
  <2>3. RunsOnce' /\ CountsCover' /\ DepthIs'
    BY <1>0, <2>1, RunsKept, CoverKept, DepthKept DEF EndInv
  <2>4. Fitting' /\ resumed \subseteq resumed'
    BY <1>0, <2>1, <2>3, OnStays, FramesFit, CallbacksFit DEF EndInv, Fitting
  <2>5. Due' /\ FinishedAtRoot'
    BY <1>0, <2>2, <2>3, <2>4, DueKept, RootKept DEF EndInv
  <2> QED
    BY <1>0, <2>3, <2>4, <2>5 DEF EndInv
<1>2. CASE UNCHANGED vars
  <2>1. UNCHANGED <<frames, pending, held, on, runner, ref, depth, resumed, misnested,
                    can_finalize, is_finalized>>
    BY <1>2 DEF vars, trackerVars, loopVars, historyVars
  <2>2. /\ Timers' = Timers /\ Running' = Running /\ RunNow' = RunNow
        /\ Queue' = Queue /\ RunSoon' = RunSoon
    BY <2>1, CallsSame, QueueSame
  <2>3. Fitting'
    BY <2>1 DEF EndInv, Fitting, FrameFits, CallbackFits
  <2>4. RunsOnce' /\ CountsCover' /\ DepthIs' /\ Due' /\ FinishedAtRoot'
    BY <2>1, <2>2 DEF EndInv, RunsOnce, CountsCover, DepthIs, Due, FinishedAtRoot
  <2> QED
    BY <1>0, <2>3, <2>4 DEF EndInv
<1> QED
  BY <1>1, <1>2

(* At every moment the count of a request covers the coroutines and the    *)
(* callbacks it still has, and is not zero for one that waits to be        *)
(* finished.                                                               *)
THEOREM CountsHold == Spec => []EndInv
BY EndInit, EndKept, PTL DEF Spec

(* When a request is finished its timers are closed, whatever callbacks    *)
(* and coroutines it had, unless one of them was resumed within another of *)
(* its calls.                                                              *)
THEOREM FinishesAtRoot == Spec => []FinishedAtRoot
<1>1. EndInv => FinishedAtRoot
  BY DEF EndInv
<1> QED
  BY <1>1, CountsHold, PTL

(* It is finished after the last of its coroutines and of the callbacks    *)
(* that are counted for it.                                                *)
THEOREM LastToFinish == Spec => FinishesLast
<1> DEFINE Leave(r) == /\ \A w \in Runners : on'[w] # r
                       /\ \A i \in DOMAIN pending' : pending'[i].counted # r
           Step == \A r \in Requests : is_finalized'[r] /\ ~is_finalized[r] => Leave(r)
<1>2. ASSUME EndInv, EndInv', [Next]_vars PROVE [Step]_vars
  <2> SUFFICES ASSUME Next, NEW r \in Requests, is_finalized'[r], ~is_finalized[r] PROVE Leave(r)
    BY <1>2
  <2>1. PICK q \in Requests : Looks(q)
    BY <1>2, CountLooks DEF EndInv, Counts
  <2>2. PICK before \in Tracker : TryFinish(q, can_finalize', ref', depth', before)
    BY <2>1 DEF Looks
  <2>3. CanFinish(q, can_finalize', ref') /\ is_finalized' = [is_finalized EXCEPT ![q] = TRUE]
    BY <2>2 DEF TryFinish, FinishTracker
  <2>4. q = r /\ ref'[r] = 0
    BY <1>2, <2>3, Typed DEF EndInv, CanFinish
  <2>5. /\ Number(on', r) \in Nat /\ Number(Queue', r) \in Nat /\ Number(Running', r) \in Nat
        /\ ref'[r] >= Number(on', r) + Number(Queue', r) + Number(Running', r)
        /\ IsFiniteSet(Places(on', r))
    <3>1. /\ IsFiniteSet(Places(on', r))
          /\ ref'[r] >= Number(on', r) + Number(Queue', r) + Number(Running', r)
      BY <1>2 DEF EndInv, CountsCover
    <3> QED
      BY <1>2, <3>1, NumbersAre, NumberIs DEF EndInv
  <2>6. Number(on', r) = 0 /\ Number(Queue', r) = 0
    BY <2>4, <2>5
  <2>7. /\ on' \in [Runners -> Tracker] /\ Len(pending') \in Nat
        /\ DOMAIN pending' = 1 .. Len(pending') /\ r # None
        /\ DOMAIN Queue' = 1 .. Len(pending')
    BY <1>2, Typed DEF EndInv, IInv, TypeOK, Queue
  <2>8. ASSUME NEW w \in Runners PROVE on'[w] # r
    BY <2>5, <2>6, <2>7, NumberIs
  <2>9. ASSUME NEW i \in DOMAIN pending' PROVE pending'[i].counted # r
    <3>1. Queue'[i] # r
      BY <2>6, <2>7, SeqNumber
    <3>2. Queue'[i] = CountedOf(pending'[i], held')
      BY <2>7 DEF Queue
    <3>3. CallbackFits(pending[i])'
      BY <1>2, <2>7 DEF EndInv, Fitting
    <3> QED
      BY <2>7, <3>1, <3>2, <3>3 DEF CallbackFits, CountedOf
  <2> QED
    BY <2>8, <2>9
<1> QED
  BY <1>2, CountsHold, PTL DEF Spec, FinishesLast
=============================================================================

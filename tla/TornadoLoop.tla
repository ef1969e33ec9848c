----------------------------- MODULE TornadoLoop -----------------------------
(***************************************************************************)
(* Requests of Tornado 4 on the one thread of an IOLoop                    *)
(* (armoury/ammunition/tornado_4/). Between the steps of a request the     *)
(* thread runs callbacks of other requests, so that its tracker is put     *)
(* into the cache of trackers while code of the request runs, and taken    *)
(* out after; and the tracker counts the callbacks and coroutines that     *)
(* belong to it, for the last of them to finish it.                        *)
(*                                                                         *)
(* IOLoop, Future, Runner and stack_context are Tornado's, modelled from   *)
(* the way the wrappers use them: a callback is wrapped where it is handed *)
(* over, callbacks run in the order they were added, handlers and timers   *)
(* run outside any request, and a coroutine goes on as a callback when the *)
(* future it waits for is resolved.                                        *)
(***************************************************************************)
EXTENDS Integers, Sequences, FiniteSets, SequencesExt

CONSTANTS
    Requests,
    Runners,        (* slots for coroutines that wait                      *)
    Slots,          (* slots for functions wrapped by stack_context.wrap   *)
    None,           (* no tracker, or nothing in a slot                    *)
    MaxWork,        (* bound: calls the application makes, in all          *)
    MaxFrames       (* bound: calls within each other                      *)

ASSUME NoneAssumption  ==
    /\ None \notin Requests \cup Runners \cup Slots
    /\ None \notin [tracker : Requests \cup {None}, counted : Requests \cup {None}]
ASSUME BoundAssumption == MaxWork \in Nat /\ MaxFrames \in Nat

VARIABLES
    stage,          (* of a request: "idle", "untraced", "open" (headers   *)
                    (* read), "dispatched"                                 *)
    cur,            (* Knapsack._cache: the tracker of the thread          *)
    frames,         (* calls under way: callbacks and wrapped functions    *)
    pending,        (* IOLoop._callbacks                                   *)
    held,           (* wrapped functions somebody keeps                    *)
    runner,         (* of a coroutine: "free", "waiting", "queued"         *)
    on,             (* the tracker its callbacks were wrapped under        *)
    ref,            (* Tracer._ref_count                                   *)
    can_finalize,   (* Tracer._can_finalize                                *)
    is_finalized,   (* Tracer._is_finalized                                *)
    depth,          (* timers open on the tracker, besides the root        *)
    reports,        (* nodes handed to the dispatcher                      *)
    work,           (* calls made so far                                   *)
    leaked,         (* history: requests that added a foreign function     *)
    resumed,        (* history: requests with a coroutine resumed directly *)
    misnested       (* history: requests finished with timers open         *)

trackerVars == <<ref, can_finalize, is_finalized, depth, reports, misnested>>
loopVars    == <<pending, held, runner, on>>
historyVars == <<work, leaked, resumed>>
vars == <<stage, cur, frames, trackerVars, loopVars, historyVars>>

Top == frames[Len(frames)]
InCode == frames # << >>

Init ==
    /\ stage = [r \in Requests |-> "idle"]
    /\ cur = None /\ frames = << >> /\ pending = << >>
    /\ held = [h \in Slots |-> None]
    /\ runner = [w \in Runners |-> "free"] /\ on = [w \in Runners |-> None]
    /\ ref = [r \in Requests |-> 0]
    /\ can_finalize = [r \in Requests |-> FALSE]
    /\ is_finalized = [r \in Requests |-> FALSE]
    /\ depth = [r \in Requests |-> 0] /\ reports = [r \in Requests |-> 0]
    /\ work = 0 /\ leaked = {} /\ resumed = {} /\ misnested = {}

-----------------------------------------------------------------------------
(* finish_tracker.                                                         *)

(* tracker_aware forgets a tracker that is finished.                       *)
Live(r) == IF r = None THEN None ELSE IF is_finalized[r] THEN None ELSE r

(* A plausible bug: only the count is looked at.                           *)
MutFinishAgain(r, can, refs) == can[r] /\ refs[r] = 0

CanFinish(r, can, refs) == can[r] /\ refs[r] = 0 /\ ~is_finalized[r]

(* The tracker becomes the current one to be finished, which takes it off  *)
(* the thread; the one before comes back unless it is the same. An         *)
(* uncaptured URI is not reported.                                         *)
FinishTracker(r, depths, before) ==
    /\ is_finalized' = [is_finalized EXCEPT ![r] = TRUE]
    /\ \E n \in {0, 1} : reports' = [reports EXCEPT ![r] = @ + n]
    /\ misnested' = IF depths[r] > 0 THEN misnested \cup {r} ELSE misnested
    /\ cur' = IF before = r THEN None ELSE before

(* It has to be allowed to, and nothing may count for it any more.         *)
TryFinish(r, can, refs, depths, before) ==
    IF CanFinish(r, can, refs)
      THEN FinishTracker(r, depths, before)
      ELSE cur' = before /\ UNCHANGED <<is_finalized, reports, misnested>>

-----------------------------------------------------------------------------
(* Calls. A frame is a call under a TrackerTransferContext.                *)

(* A plausible bug: the context keeps the tracker it puts into the cache,  *)
(* not the one it takes out.                                               *)
MutFrameSwapped(kind, tracker, counted, run) ==
    [kind |-> kind, tracker |-> tracker, old |-> tracker, counted |-> counted, run |-> run]

Frame(kind, tracker, counted, run) ==
    [kind |-> kind, tracker |-> tracker, old |-> cur,
     counted |-> counted,   (* the _nb_tracker that trace_run_callback read *)
     run |-> run]           (* the coroutine that goes on in it             *)

(* tracker_aware: the tracker becomes the current one, and gets a timer.   *)
Call(frame) ==
    /\ frames' = Append(frames, frame)
    /\ cur' = frame.tracker
    /\ depth' = IF frame.tracker = None THEN depth
                ELSE [depth EXCEPT ![frame.tracker] = @ + 1]

CanCall == InCode /\ work < MaxWork
Work == CanCall /\ work' = work + 1

(* A handler of a socket, or a timer: add_handler and call_at wrap it      *)
(* under no tracker at all.                                                *)
HandleEvent ==
    /\ ~InCode /\ Call(Frame("event", None, None, None))
    /\ UNCHANGED <<stage, ref, can_finalize, is_finalized, reports, misnested, loopVars,
                   historyVars>>

(* _run_callback takes the oldest callback.                                *)
RunCallback ==
    /\ ~InCode /\ pending # << >>
    /\ LET callback == Head(pending)
           counted  == IF callback.slot = None THEN callback.counted
                       ELSE held[callback.slot].counted
       IN  Call(Frame("callback", Live(callback.tracker), counted, callback.run))
    /\ pending' = Tail(pending)
    /\ UNCHANGED <<stage, ref, can_finalize, is_finalized, reports, misnested, held, runner,
                   on, historyVars>>

(* The headers have been read: HTTPServerRequest gets a tracer, which is   *)
(* not left in the cache; a websocket or a disabled agent gets none.       *)
NewRequest(r) ==
    /\ InCode /\ Top.kind = "event" /\ stage[r] = "idle"
    /\ \E s \in {"open", "untraced"} : stage' = [stage EXCEPT ![r] = s]
    /\ cur' = None
    /\ UNCHANGED <<frames, trackerVars, loopVars, historyVars>>

(* trace_tracker_export around _ServerRequestAdapter.finish: the handler   *)
(* executes, up to its first wait. trace_handler_execute in it puts the    *)
(* tracker in; it is that of ammunition/tornado/web.py, which the list of  *)
(* hooks (repertoire.py:199) names in the place of tornado_4/web.py.       *)
Dispatch(r) ==
    /\ InCode /\ Top.kind = "event" /\ stage[r] = "open" /\ ~is_finalized[r]
    /\ stage' = [stage EXCEPT ![r] = "dispatched"]
    /\ Call(Frame("export", r, None, None))
    /\ UNCHANGED <<ref, can_finalize, is_finalized, reports, misnested, loopVars, historyVars>>

(* And around on_connection_close, before or after that.                   *)
ConnectionClose(r) ==
    /\ InCode /\ Top.kind = "event" /\ stage[r] \in {"open", "dispatched"}
    /\ ~is_finalized[r]
    /\ can_finalize' = [can_finalize EXCEPT ![r] = TRUE]
    /\ TryFinish(r, can_finalize', ref, depth, cur)
    /\ UNCHANGED <<stage, frames, ref, depth, loopVars, historyVars>>

-----------------------------------------------------------------------------
(* What the code of a request does.                                        *)

(* A plausible bug: the callback is not counted.                           *)
MutCountNot(r) == UNCHANGED ref

Count(r) == ref' = IF r = None THEN ref ELSE [ref EXCEPT ![r] = @ + 1]

Callback(tracker, counted, run, slot) ==
    [tracker |-> tracker, counted |-> counted, run |-> run, slot |-> slot]

(* add_callback with a plain function: wrapped there and then.             *)
AddCallback ==
    /\ Work /\ Count(cur)
    /\ pending' = Append(pending, Callback(cur, cur, None, None))
    /\ UNCHANGED <<stage, cur, frames, can_finalize, is_finalized, depth, reports, misnested,
                   held, runner, on, leaked, resumed>>

(* stack_context.wrap, for a stream or for later.                          *)
Wrap(h) ==
    /\ Work /\ held[h] = None
    /\ held' = [held EXCEPT ![h] = [tracker |-> cur, counted |-> cur]]
    /\ UNCHANGED <<stage, cur, frames, trackerVars, pending, runner, on, leaked, resumed>>

(* add_callback with such a function. One wrapped under another tracker is *)
(* not counted, and forgets that tracker, also where it was counted for it *)
(* before; one that was wrapped under none is counted for the request that *)
(* adds it, which nothing undoes.                                          *)
AddHeld(h) ==
    LET owner   == held[h].counted
        waits   == \E i \in DOMAIN pending : pending[i].slot = h
    IN  /\ Work /\ held[h] # None
        /\ pending' = Append(pending, Callback(held[h].tracker, None, None, h))
        /\ IF owner # None /\ owner # cur
             THEN /\ held' = [held EXCEPT ![h].counted = None] /\ UNCHANGED ref
                  /\ leaked' = IF waits THEN leaked \cup {owner} ELSE leaked
             ELSE /\ Count(cur) /\ UNCHANGED held
                  /\ leaked' = IF cur # owner THEN leaked \cup {cur} ELSE leaked
        /\ UNCHANGED <<stage, cur, frames, can_finalize, is_finalized, depth, reports,
                       misnested, runner, on, resumed>>

(* Such a function is called, by whatever code runs.                       *)
CallHeld(h) ==
    /\ Work /\ held[h] # None /\ Len(frames) < MaxFrames
    /\ Call(Frame("call", Live(held[h].tracker), None, None))
    /\ UNCHANGED <<stage, ref, can_finalize, is_finalized, reports, misnested, loopVars,
                   leaked, resumed>>

(* Runner.__init__: a coroutine of the request waits.                      *)
StartRunner(w) ==
    /\ Work /\ cur # None /\ runner[w] = "free"
    /\ runner' = [runner EXCEPT ![w] = "waiting"] /\ on' = [on EXCEPT ![w] = cur]
    /\ Count(cur)
    /\ UNCHANGED <<stage, cur, frames, can_finalize, is_finalized, depth, reports, misnested,
                   pending, held, leaked, resumed>>

(* Its future is resolved: the wrapped done callback adds Runner.run.      *)
Resolve(w) ==
    LET tracker == Live(on[w])
    IN  /\ InCode /\ runner[w] = "waiting"
        /\ runner' = [runner EXCEPT ![w] = "queued"]
        /\ pending' = Append(pending, Callback(tracker, tracker, w, None))
        /\ Count(tracker)
        /\ UNCHANGED <<stage, cur, frames, can_finalize, is_finalized, depth, reports,
                       misnested, held, on, historyVars>>

(* The same in a thread of an executor: the cache of that thread is left   *)
(* alone, and the callback is not counted.                                 *)
ResolveInThread(w) ==
    /\ runner[w] = "waiting" /\ runner' = [runner EXCEPT ![w] = "queued"]
    /\ pending' = Append(pending, Callback(on[w], None, w, None))
    /\ UNCHANGED <<stage, cur, frames, trackerVars, held, on, historyVars>>

(* A callback made by gen.Callback is called: its coroutine goes on there  *)
(* and then.                                                               *)
ResumeDirectly(w) ==
    /\ Work /\ runner[w] = "waiting" /\ Len(frames) < MaxFrames
    /\ runner' = [runner EXCEPT ![w] = "queued"]
    /\ Call(Frame("call", Live(on[w]), None, w))
    /\ resumed' = resumed \cup {on[w]}
    /\ UNCHANGED <<stage, ref, can_finalize, is_finalized, reports, misnested, pending, held,
                   on, leaked>>

-----------------------------------------------------------------------------
(* The end of a call.                                                      *)

(* Runner.run returns: the coroutine waits again, or is finished and no    *)
(* longer counts for the tracker that is current then.                     *)
EndRun(w, refs) ==
    \/ /\ w = None /\ refs = ref /\ UNCHANGED <<runner, on, work>>
    \/ /\ w # None /\ work < MaxWork /\ work' = work + 1
       /\ refs = ref
       /\ runner' = [runner EXCEPT ![w] = "waiting"] /\ UNCHANGED on
    \/ /\ w # None
       /\ refs = IF cur = None THEN ref ELSE [ref EXCEPT ![cur] = @ - 1]
       /\ runner' = [runner EXCEPT ![w] = "free"] /\ on' = [on EXCEPT ![w] = None]
       /\ UNCHANGED work

(* A plausible bug: a callback that was counted stays so.                  *)
MutUncountNot(r, refs) == refs

Uncount(r, refs) == IF r = None THEN refs ELSE [refs EXCEPT ![r] = @ - 1]

EndTimer(r) == IF r = None THEN depth ELSE [depth EXCEPT ![r] = @ - 1]

(* The counts that are possible after a run.                               *)
RefsAfter == {ref} \cup {[ref EXCEPT ![r] = @ - 1] : r \in Requests}

(* A handler returns.                                                      *)
EndEvent ==
    /\ InCode /\ Top.kind = "event"
    /\ frames' = Front(frames) /\ cur' = Top.old
    /\ UNCHANGED <<stage, trackerVars, loopVars, historyVars>>

(* A plausible bug: the tracker is only marked, for a callback to finish.  *)
MutDispatchMarks ==
    /\ InCode /\ Top.kind = "export"
    /\ frames' = Front(frames) /\ cur' = Top.old
    /\ depth' = EndTimer(Top.tracker)
    /\ can_finalize' = [can_finalize EXCEPT ![Top.tracker] = TRUE]
    /\ UNCHANGED <<stage, ref, is_finalized, reports, misnested, loopVars, historyVars>>

(* The handler of the request has executed up to its first wait: from now  *)
(* on the tracker may be finished, and it is if nothing counts for it.     *)
EndDispatch ==
    /\ InCode /\ Top.kind = "export"
    /\ frames' = Front(frames)
    /\ depth' = EndTimer(Top.tracker)
    /\ can_finalize' = [can_finalize EXCEPT ![Top.tracker] = TRUE]
    /\ TryFinish(Top.tracker, can_finalize', ref, depth', Top.old)
    /\ UNCHANGED <<stage, ref, loopVars, historyVars>>

(* A wrapped function returns, or raises past the look at the count.       *)
(* Runner.run does not raise: it keeps the error for its future.           *)
MayRaise(raised) == raised => Top.run = None

EndCall ==
    \E refs \in RefsAfter, raised \in BOOLEAN :
        /\ InCode /\ Top.kind = "call" /\ MayRaise(raised)
        /\ EndRun(Top.run, refs)
        /\ ref' = refs /\ depth' = EndTimer(Top.tracker)
        /\ frames' = Front(frames)
        /\ IF Top.tracker = None \/ raised
             THEN cur' = Top.old /\ UNCHANGED <<is_finalized, reports, misnested>>
             ELSE TryFinish(Top.tracker, can_finalize, refs, depth', Top.old)
        /\ UNCHANGED <<stage, can_finalize, pending, held, leaked, resumed>>

(* A callback returns or raises: where it was counted, trace_run_callback  *)
(* takes it off the count and looks at that; otherwise the wrapped         *)
(* function has looked, unless it raised.                                  *)
EndCallback ==
    \E refs \in RefsAfter, raised \in BOOLEAN :
        /\ InCode /\ Top.kind = "callback" /\ MayRaise(raised)
        /\ EndRun(Top.run, refs)
        /\ ref' = Uncount(Top.counted, refs) /\ depth' = EndTimer(Top.tracker)
        /\ frames' = Front(frames)
        /\ CASE Top.counted # None ->
                  TryFinish(Top.counted, can_finalize, ref', depth', Top.old)
             [] Top.counted = None /\ Top.tracker # None /\ ~raised ->
                  TryFinish(Top.tracker, can_finalize, refs, depth', Top.old)
             [] Top.counted = None /\ (Top.tracker = None \/ raised) ->
                  cur' = Top.old /\ UNCHANGED <<is_finalized, reports, misnested>>
        /\ UNCHANGED <<stage, can_finalize, pending, held, leaked, resumed>>

(* Nothing more will happen: no request to come, to go on or to be closed. *)
Idle ==
    /\ ~InCode /\ pending = << >> /\ (\A r \in Requests : stage[r] # "idle")
    /\ (\A w \in Runners : runner[w] = "free")
    /\ UNCHANGED vars

Return == EndEvent \/ EndDispatch \/ EndCall \/ EndCallback

Code ==
    \/ AddCallback
    \/ \E h \in Slots : Wrap(h) \/ AddHeld(h) \/ CallHeld(h)
    \/ \E w \in Runners : StartRunner(w) \/ Resolve(w) \/ ResumeDirectly(w)

Connection(r) == NewRequest(r) \/ Dispatch(r) \/ ConnectionClose(r)

Next ==
    \/ HandleEvent \/ RunCallback \/ Return \/ Code \/ Idle
    \/ \E w \in Runners : ResolveInThread(w)
    \/ \E r \in Requests : Connection(r)

Spec == Init /\ [][Next]_vars

(* A call returns, the loop gets to its callbacks, a future is resolved at *)
(* last, by a thread if by nothing else.                                   *)
Fairness ==
    /\ WF_vars(Return) /\ SF_vars(RunCallback)
    /\ \A w \in Runners : WF_vars(ResolveInThread(w) \/ Resolve(w))

FairSpec == Spec /\ Fairness

-----------------------------------------------------------------------------
(* What should hold.                                                       *)

Tracker == Requests \cup {None}
Run == Runners \cup {None}

Frames == [kind : {"event", "callback", "call", "export"}, tracker : Tracker,
           old : Tracker, counted : Tracker, run : Run]

Callbacks == [tracker : Tracker, counted : Tracker, run : Run, slot : Slots \cup {None}]

Wrapped == [tracker : Tracker, counted : Tracker]

TypeOK ==
    /\ stage \in [Requests -> {"idle", "untraced", "open", "dispatched"}]
    /\ cur \in Tracker
    /\ frames \in Seq(Frames) /\ pending \in Seq(Callbacks)
    /\ held \in [Slots -> {None} \cup Wrapped]
    /\ runner \in [Runners -> {"free", "waiting", "queued"}]
    /\ on \in [Runners -> Tracker]
    /\ ref \in [Requests -> Int] /\ depth \in [Requests -> Int]
    /\ can_finalize \in [Requests -> BOOLEAN] /\ is_finalized \in [Requests -> BOOLEAN]
    /\ reports \in [Requests -> Nat]
    /\ work \in 0 .. MaxWork
    /\ leaked \subseteq Tracker /\ resumed \subseteq Tracker /\ misnested \subseteq Requests

(* The thread never carries the tracker of another request than the one    *)
(* whose code runs, and none at all between callbacks: what one request    *)
(* does is not put down to another.                                        *)
OwnTracker == IF InCode THEN cur \in {Top.tracker, None} ELSE cur = None

(* Calls nest: the context of each puts back what the one around it had    *)
(* put in, or nothing; the outermost leaves the thread without a tracker.  *)
CallsNest ==
    \A i \in 1 .. Len(frames) :
        frames[i].old = None \/ (i > 1 /\ frames[i].old = frames[i - 1].tracker)

(* Only a request whose headers were read is ever marked to be finished.   *)
OnlyOpenFinish ==
    /\ \A i \in 1 .. Len(frames) : frames[i].kind = "export" =>
          frames[i].tracker \in Requests /\ stage[frames[i].tracker] = "dispatched"
    /\ \A r \in Requests : can_finalize[r] => stage[r] \in {"open", "dispatched"}

(* It is reported with its end, and no second time.                        *)
ReportedOnce ==
    \A r \in Requests :
        /\ is_finalized[r] => can_finalize[r]
        /\ reports[r] > 0 => is_finalized[r] /\ reports[r] = 1

(* A function in the queue is one that somebody keeps.                     *)
QueueHeld ==
    \A i \in 1 .. Len(pending) : pending[i].slot # None => held[pending[i].slot] # None

IInv == TypeOK /\ OwnTracker /\ CallsNest /\ OnlyOpenFinish /\ ReportedOnce /\ QueueHeld

(* A request is finished after the last of its coroutines and of the       *)
(* callbacks that are counted for it.                                      *)
FinishesLast ==
    [][\A r \in Requests :
         is_finalized'[r] /\ ~is_finalized[r] =>
             /\ \A w \in Runners : on'[w] # r
             /\ \A i \in DOMAIN pending' : pending'[i].counted # r]_vars

(* When it is finished its timers are closed, unless a coroutine of it was *)
(* resumed in the middle of another of its calls.                          *)
FinishedAtRoot == misnested \subseteq resumed

LifeOf(r) ==
    CASE stage[r] = "idle" -> "idle"
      [] stage[r] = "untraced" -> "dropped"
      [] stage[r] \in {"open", "dispatched"} /\ ~is_finalized[r] -> "open"
      [] stage[r] \in {"open", "dispatched"} /\ is_finalized[r] ->
           IF reports[r] = 0 THEN "dropped" ELSE IF reports[r] = 1 THEN "reported" ELSE "repeated"

life == [r \in Requests |-> LifeOf(r)]

Report == INSTANCE RequestReport

(* Every request is reported once or dropped, and that is its end.         *)
ImplementsRequestReport == Report!LifeSpec

(* A request whose connection is done with is finished at last, unless it  *)
(* added a function that was wrapped elsewhere.                            *)
EachIsFinished ==
    \A r \in Requests : can_finalize[r] ~> (is_finalized[r] \/ r \in leaked)

(* The same of any request: "when 'finish' or 'on_connection_close' is     *)
(* called on server requests. tracer should be finished" (utils.py:172).   *)
FinishIsFinish == \A r \in Requests : can_finalize[r] ~> is_finalized[r]

(* The assertion of pop_node (tracker.py:459): a timer that closes is the  *)
(* one on top, so that none is open when the root is popped.               *)
PopsItself == misnested = {}
=============================================================================

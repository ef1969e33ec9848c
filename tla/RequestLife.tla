----------------------------- MODULE RequestLife -----------------------------
(***************************************************************************)
(* The life of a traced request under a WSGI server: the entrance that     *)
(* creates its Tracer (armoury/trigger/wsgi_entrance.py), the cache of     *)
(* trackers by thread (battlefield/knapsack.py), the timers that open and  *)
(* close around the functions of the application (armoury/ammunition/),    *)
(* and the ways a server may end a response: read to its end, stopped      *)
(* early, failed in the middle, never read, closed twice, or forgotten.    *)
(*                                                                         *)
(* A request is a member of Requests and stands for its tracker, its       *)
(* response and the iterator the server made of it. The middleware that    *)
(* is iterated in between is BrowserRum's subject.                         *)
(***************************************************************************)
EXTENDS Integers, Sequences, FiniteSets

CONSTANTS
    Requests,
    Threads,        (* of the web server                                   *)
    None,           (* no tracker in the cache                             *)
    Kinds,          (* kinds of timer the application opens                *)
    TicksPerMs,     (* the clock is finer than a duration, which is in ms  *)
    MaxNow,         (* bound: ticks of the clock                           *)
    MaxDepth,       (* bound: timers open at once                          *)
    ReleaseFirst    (* the server drops the iterator before it closes      *)

(* The classes derived from Timer.                                         *)
AllKinds == {"function", "database", "external", "redis", "memcache", "mongo", "mq"}

ASSUME NoneAssumption  == None \notin Requests \cup Threads
ASSUME KindsAssumption == Kinds \subseteq AllKinds
ASSUME ClockAssumption == TicksPerMs \in Nat \ {0} /\ MaxNow \in Nat
ASSUME DepthAssumption == MaxDepth \in Nat
ASSUME OrderAssumption == ReleaseFirst \in BOOLEAN

VARIABLES
    now,        (* time.time()                                             *)
    stage,      (* of each request: "idle", "passed" (untraced), "open",   *)
                (* "closed", "gone" (nobody holds the response)            *)
    on,         (* the thread it began on: Tracker.thread_id               *)
    cache,      (* Knapsack._cache                                         *)
    iterator,   (* the generator of WSGIApplicationResponse.__iter__:      *)
                (* "new", "running", "suspended" or "ended"                *)
    begun,      (* Tracker.start_time                                      *)
    nodes,      (* Tracker.trace_node                                      *)
    spent,      (* Tracker.db_time, external_time, redis_time and so on    *)
    errors,     (* Tracker._errors: how many                               *)
    reports,    (* what went to the dispatcher                             *)
    inner,      (* history: own time of the timers closed so far, in all   *)
    misnested   (* history: requests for which pop_node failed its assert  *)

cacheVars  == <<stage, on, cache>>
timerVars  == <<nodes, spent, inner>>
reportVars == <<errors, reports, misnested>>
vars == <<now, cacheVars, iterator, begun, timerVars, reportVars>>

-----------------------------------------------------------------------------
(* Timers.                                                                 *)

(* What terminal_node says, class by class: no timer opens inside such a   *)
(* timer. And the counter of the tracker create_node stores the time in.   *)
FunctionTimer == [terminal |-> FALSE, counter |-> "none"]
DatabaseTimer == [terminal |-> TRUE,  counter |-> "db"]
ExternalTimer == [terminal |-> TRUE,  counter |-> "ex"]
RedisTimer    == [terminal |-> TRUE,  counter |-> "rds"]
MemcacheTimer == [terminal |-> TRUE,  counter |-> "mc"]
MongoTimer    == [terminal |-> TRUE,  counter |-> "mon"]
MqTimer       == [terminal |-> FALSE, counter |-> "none"]

Class(kind) ==
    CASE kind = "database" -> DatabaseTimer
      [] kind = "external" -> ExternalTimer
      [] kind = "redis"    -> RedisTimer
      [] kind = "memcache" -> MemcacheTimer
      [] kind = "mongo"    -> MongoTimer
      [] kind = "mq"       -> MqTimer
      [] kind \in {"root", "response", "function"} -> FunctionTimer

Counters == {"db", "ex", "rds", "mc", "mon"}

Timer(kind) == [kind |-> kind, start |-> now, exclusive |-> 0]

Top(s) == s[Len(s)]
Pop(s) == SubSeq(s, 1, Len(s) - 1)

Ms(ticks) == ticks \div TicksPerMs

(* A plausible bug: a timer opens inside a terminal one.                   *)
MutPushAnywhere(r) == nodes[r] # << >>

(* Timer.__enter__: there has to be a parent that takes children.          *)
MayPush(r) == nodes[r] # << >> /\ ~Class(Top(nodes[r]).kind).terminal

Push(r, kind) == nodes' = [nodes EXCEPT ![r] = Append(@, Timer(kind))]

(* A plausible bug: the root, which is a bare Timer, is not charged.       *)
MutRootUncharged(stack, duration) ==
    IF Len(stack) = 1 THEN stack ELSE [stack EXCEPT ![Len(stack)].exclusive = @ - duration]

(* Timer.process_child: the parent no longer calls this time its own.      *)
ProcessChild(stack, duration) == [stack EXCEPT ![Len(stack)].exclusive = @ - duration]

(* Timer.__exit__ of the timer on top: its duration is cut to whole        *)
(* milliseconds. A counter of the tracker holds the last such time only.   *)
PopTimer(r) ==
    LET timer    == Top(nodes[r])
        duration == Ms(now - timer.start)
        counter  == Class(timer.kind).counter
    IN  /\ nodes' = [nodes EXCEPT ![r] = ProcessChild(Pop(@), duration)]
        /\ inner' = [inner EXCEPT ![r] = @ + timer.exclusive + duration]
        /\ spent' = IF counter \in Counters
                      THEN [spent EXCEPT ![r][counter] = duration] ELSE spent

-----------------------------------------------------------------------------
(* The entrance and the end of a request.                                  *)

Init ==
    /\ now = 0
    /\ stage = [r \in Requests |-> "idle"]
    /\ on = [r \in Requests |-> None]
    /\ cache = [t \in Threads |-> None]
    /\ iterator = [r \in Requests |-> "new"]
    /\ begun = [r \in Requests |-> 0]
    /\ nodes = [r \in Requests |-> << >>]
    /\ spent = [r \in Requests |-> [c \in Counters |-> 0]]
    /\ errors = [r \in Requests |-> 0]
    /\ reports = [r \in Requests |-> << >>]
    /\ inner = [r \in Requests |-> 0]
    /\ misnested = {}

(* The thread has a tracker, the request carries DISABLE_TING_YUN_AGENT,   *)
(* or the agent is not enabled: the application answers alone.             *)
LetPass(r) ==
    /\ stage[r] = "idle"
    /\ stage' = [stage EXCEPT ![r] = "passed"]
    /\ UNCHANGED <<now, on, cache, iterator, begun, timerVars, reportVars>>

Untracked(t) == cache[t] = None

(* The wrapper: Tracer, start_work, save_tracker. The middleware is a      *)
(* generator, so that the timer named Application opens and closes before  *)
(* anything has run, and leaves no time behind.                            *)
StartWork(r, t) ==
    /\ stage[r] = "idle" /\ Untracked(t)
    /\ stage' = [stage EXCEPT ![r] = "open"]
    /\ on' = [on EXCEPT ![r] = t]
    /\ cache' = [cache EXCEPT ![t] = r]
    /\ begun' = [begun EXCEPT ![r] = now]
    /\ nodes' = [nodes EXCEPT ![r] = << Timer("root") >>]
    /\ UNCHANGED <<now, iterator, spent, inner, reportVars>>

(* A plausible bug: only that the thread has a tracker is checked.         *)
MutAnyIsCurrent(r) == on[r] # None /\ cache[on[r]] # None

(* Knapsack.drop_tracker raises unless the cache holds this very tracker.  *)
IsCurrent(r) == on[r] # None /\ cache[on[r]] = r

DropTracker(r) ==
    /\ IsCurrent(r)
    /\ cache' = [cache EXCEPT ![on[r]] = None]

(* What finish_work hands to the dispatcher, with the node it popped as    *)
(* the root. The time of the request is cut to milliseconds like a timer's.*)
Node(r, failed) ==
    LET duration == Ms(now - begun[r])
    IN  [root |-> Top(nodes[r]).kind, duration |-> duration,
         exclusive |-> duration + Top(nodes[r]).exclusive, errors |-> errors[r] + failed]

(* Tracker.__exit__: off the thread first, whether or not the URI is one   *)
(* to be captured; only then the root is popped and the node reported.     *)
FinishWork(r, captured, failed) ==
    /\ DropTracker(r)
    /\ IF captured
         THEN /\ reports' = [reports EXCEPT ![r] = Append(@, Node(r, failed))]
              /\ nodes' = [nodes EXCEPT ![r] = Pop(@)]
              /\ errors' = [errors EXCEPT ![r] = @ + failed]
         ELSE UNCHANGED <<reports, nodes, errors>>

(* The wrapper's except: what surrounds the call of the application fails. *)
(* The error may be one that is not recorded, for its status is ignored.   *)
EntranceFails(r, captured, failed) ==
    /\ stage[r] = "open" /\ iterator[r] = "new"
    /\ FinishWork(r, captured, failed)
    /\ stage' = [stage EXCEPT ![r] = "gone"]
    /\ UNCHANGED <<now, on, iterator, begun, spent, inner, misnested>>

-----------------------------------------------------------------------------
(* The response is read.                                                   *)

Move(r, from, to) == iterator[r] = from /\ iterator' = [iterator EXCEPT ![r] = to]

(* The first item is asked for: the timer named Response opens.            *)
StartReading(r) ==
    /\ stage[r] = "open" /\ Move(r, "new", "running")
    /\ MayPush(r) /\ Push(r, "response")
    /\ UNCHANGED <<now, cacheVars, begun, spent, inner, reportVars>>

Resume(r) ==
    /\ stage[r] = "open" /\ Move(r, "suspended", "running")
    /\ UNCHANGED <<now, cacheVars, begun, timerVars, reportVars>>

(* A wrapped function of the application is called, and returns or fails.  *)
EnterTimer(r, kind) ==
    /\ iterator[r] = "running" /\ MayPush(r) /\ Len(nodes[r]) < MaxDepth
    /\ Push(r, kind)
    /\ UNCHANGED <<now, cacheVars, iterator, begun, spent, inner, reportVars>>

ExitTimer(r) ==
    /\ iterator[r] = "running" /\ Top(nodes[r]).kind \in Kinds
    /\ PopTimer(r)
    /\ UNCHANGED <<now, cacheVars, iterator, begun, reportVars>>

(* The wrapped functions have returned: the middleware itself is running.  *)
AtResponse(r) == nodes[r] # << >> /\ Top(nodes[r]).kind = "response"

Yield(r) ==
    /\ AtResponse(r) /\ Move(r, "running", "suspended")
    /\ UNCHANGED <<now, cacheVars, begun, timerVars, reportVars>>

Exhaust(r) ==
    /\ AtResponse(r) /\ Move(r, "running", "ended")
    /\ PopTimer(r)
    /\ UNCHANGED <<now, cacheVars, begun, reportVars>>

(* record_exception keeps the error, unless its status is to be ignored.   *)
RecordException(r) == \E n \in {0, 1} : errors' = [errors EXCEPT ![r] = @ + n]

(* A plausible bug: the timer is opened and closed by hand, and an error   *)
(* goes past the close.                                                    *)
MutRaisePast(r) ==
    /\ AtResponse(r) /\ Move(r, "running", "ended")
    /\ RecordException(r)
    /\ UNCHANGED <<now, cacheVars, begun, timerVars, reports, misnested>>

Raise(r) ==
    /\ AtResponse(r) /\ Move(r, "running", "ended")
    /\ PopTimer(r) /\ RecordException(r)
    /\ UNCHANGED <<now, cacheVars, begun, reports, misnested>>

(* The generator is deallocated where it is suspended: GeneratorExit goes  *)
(* through the timer, and pop_node asserts that it is the one on top.      *)
Release(r) ==
    /\ stage[r] = "open" \/ (stage[r] = "closed" /\ ~ReleaseFirst)
    /\ Move(r, "suspended", "ended")
    /\ IF AtResponse(r)
         THEN PopTimer(r) /\ UNCHANGED misnested
         ELSE /\ nodes' = [nodes EXCEPT ![r] = IF @ = << >> THEN @ ELSE Pop(@)]
              /\ misnested' = misnested \cup {r}
              /\ UNCHANGED <<spent, inner>>
    /\ UNCHANGED <<now, cacheVars, begun, errors, reports>>

(* WSGIApplicationResponse.close: the server is done with the response.    *)
(* Closing the application's iterator may fail, and then that is an error. *)
Close(r, captured, failed) ==
    /\ stage[r] \in {"open", "closed"} /\ iterator[r] # "running"
    /\ ReleaseFirst => iterator[r] # "suspended"
    /\ FinishWork(r, captured, failed)
    /\ stage' = [stage EXCEPT ![r] = "closed"]
    /\ UNCHANGED <<now, on, iterator, begun, spent, inner, misnested>>

(* A plausible bug: an ordinary dictionary, which keeps the tracker.       *)
MutForgetStrong(r) ==
    /\ stage[r] \in {"open", "closed"} /\ iterator[r] \in {"new", "ended"}
    /\ stage' = [stage EXCEPT ![r] = "gone"]
    /\ UNCHANGED <<now, on, cache, iterator, begun, timerVars, reportVars>>

(* Nobody holds the response any more, closed or not: the tracker goes,    *)
(* and with it its entry, for the cache holds it weakly.                   *)
Forget(r) ==
    /\ stage[r] \in {"open", "closed"} /\ iterator[r] \in {"new", "ended"}
    /\ stage' = [stage EXCEPT ![r] = "gone"]
    /\ cache' = [t \in Threads |-> IF cache[t] = r THEN None ELSE cache[t]]
    /\ UNCHANGED <<now, on, iterator, begun, timerVars, reportVars>>

Tick ==
    /\ now < MaxNow /\ now' = now + 1
    /\ UNCHANGED <<cacheVars, iterator, begun, timerVars, reportVars>>

(* All requests are over: the server waits for more.                       *)
Idle == (\A r \in Requests : stage[r] \in {"passed", "gone"}) /\ UNCHANGED vars

Application(r) ==
    \/ \E kind \in Kinds : EnterTimer(r, kind)
    \/ ExitTimer(r) \/ Yield(r) \/ Exhaust(r) \/ Raise(r)

Server(r) ==
    \/ \E captured \in BOOLEAN, failed \in {0, 1} : Close(r, captured, failed)
    \/ StartReading(r) \/ Resume(r) \/ Release(r) \/ Forget(r)

Entrance(r) ==
    \/ LetPass(r)
    \/ \E t \in Threads : StartWork(r, t)
    \/ \E captured \in BOOLEAN, failed \in {0, 1} : EntranceFails(r, captured, failed)

Next == Tick \/ Idle \/ \E r \in Requests : Entrance(r) \/ Application(r) \/ Server(r)

Spec == Init /\ [][Next]_vars

(* Wrapped functions return, whatever they call meanwhile, and a response  *)
(* ends at last; a server lets go of every response, by then or before.    *)
(* (The root and the timer named Response are below all others.)           *)
Fairness ==
    \A r \in Requests :
        /\ \A depth \in 3 .. MaxDepth : SF_vars(Len(nodes[r]) = depth /\ ExitTimer(r))
        /\ SF_vars(Exhaust(r) \/ Raise(r))
        /\ WF_vars(Resume(r) \/ Release(r))
        /\ SF_vars(Forget(r))

FairSpec == Spec /\ Fairness

-----------------------------------------------------------------------------
(* What should hold.                                                       *)

Timers == [kind : {"root", "response"} \cup AllKinds, start : Nat, exclusive : Int]

Nodes == [root : {"root", "response"} \cup AllKinds, duration : Int, exclusive : Int,
          errors : Nat]

TypeOK ==
    /\ now \in 0 .. MaxNow
    /\ stage \in [Requests -> {"idle", "passed", "open", "closed", "gone"}]
    /\ on \in [Requests -> Threads \cup {None}]
    /\ cache \in [Threads -> Requests \cup {None}]
    /\ iterator \in [Requests -> {"new", "running", "suspended", "ended"}]
    /\ begun \in [Requests -> Nat]
    /\ nodes \in [Requests -> Seq(Timers)]
    /\ spent \in [Requests -> [Counters -> Nat]]
    /\ errors \in [Requests -> Nat]
    /\ reports \in [Requests -> Seq(Nodes)]
    /\ inner \in [Requests -> Int]
    /\ misnested \in SUBSET Requests

(* The cache of trackers holds the requests that are open, each on its     *)
(* thread, and nothing else: no stale tracker, no request cut off.         *)
CacheHoldsOpen ==
    \A r \in Requests, t \in Threads :
        cache[t] = r <=> stage[r] = "open" /\ on[r] = t

(* A request is reported after it was closed, and once.                    *)
ReportedOnce ==
    \A r \in Requests :
        /\ Len(reports[r]) <= 1
        /\ reports[r] # << >> => stage[r] \in {"closed", "gone"}

(* The timers open are those of the calls under way: the root below all    *)
(* others until the request is closed, and Response above it while the     *)
(* middleware is iterated.                                                 *)
Nested(r) ==
    /\ stage[r] = "open" => nodes[r] # << >> /\ nodes[r][1].kind = "root"
    /\ stage[r] = "open" /\ iterator[r] \in {"new", "ended"} => Len(nodes[r]) = 1
    /\ stage[r] = "open" /\ iterator[r] = "suspended" =>
          Len(nodes[r]) = 2 /\ nodes[r][2].kind = "response"
    /\ iterator[r] = "running" =>
          /\ stage[r] = "open" /\ Len(nodes[r]) >= 2
          /\ nodes[r][2].kind = "response"
          /\ \A i \in 3 .. Len(nodes[r]) : nodes[r][i].kind \in Kinds
    /\ stage[r] \in {"idle", "passed"} => iterator[r] = "new"

TimersNest == \A r \in Requests : Nested(r)

(* No time is taken from a timer or a request that starts in the future.   *)
InThePast ==
    \A r \in Requests :
        /\ begun[r] <= now
        /\ \A i \in 1 .. Len(nodes[r]) : nodes[r][i].start <= now

(* Together with the types: what every step of every server keeps.         *)
IInv == TypeOK /\ CacheHoldsOpen /\ ReportedOnce /\ TimersNest /\ InThePast

(* The counters of a tracker, taken together.                              *)
Total(f) == f["db"] + f["ex"] + f["rds"] + f["mc"] + f["mon"]

(* No millisecond of a request is counted twice or lost in its tree: what  *)
(* its timers call their own adds up to its duration, and no timer's       *)
(* children took longer than the timer itself.                             *)
TimesAddUp ==
    \A r \in Requests :
        /\ \A i \in 1 .. Len(reports[r]) :
              LET node == reports[r][i]
              IN  node.exclusive >= 0 /\ node.exclusive + inner[r] = node.duration
        /\ \A i \in 1 .. Len(nodes[r]) :
              nodes[r][i].exclusive + Ms(now - nodes[r][i].start) >= 0

(* What is left for the code, after the databases, services and caches     *)
(* (Tracker.finalize_tracker_data), is never less than nothing: the clamp  *)
(* to zero there is for the wait before the request only, which is taken   *)
(* off a duration that never held it.                                      *)
CodeTimeNotNegative ==
    \A r \in Requests :
        \A i \in 1 .. Len(reports[r]) : Total(spent[r]) <= reports[r][i].duration

(* What a request comes to, in the terms of RequestReport.                 *)
LifeOf(r) ==
    CASE stage[r] = "idle" -> "idle"
      [] stage[r] = "passed" -> "dropped"
      [] stage[r] = "open" -> "open"
      [] stage[r] \in {"closed", "gone"} ->
           IF reports[r] = << >> THEN "dropped"
           ELSE IF Len(reports[r]) = 1 THEN "reported" ELSE "repeated"

life == [r \in Requests |-> LifeOf(r)]

Report == INSTANCE RequestReport

(* However a server ends a response: the request is taken up or let pass,  *)
(* and one that was taken up is reported once or dropped, for good, also   *)
(* when its response is closed twice, or never.                            *)
ImplementsRequestReport == Report!LifeSpec

(* However the response ended, the node popped as the root is the root.    *)
ReportsRoot ==
    \A r \in Requests :
        \A i \in 1 .. Len(reports[r]) : reports[r][i].root = "root"

(* The assertion of pop_node (tracker.py:459): a timer pops itself.        *)
PopsItself == misnested = {}

(* A thread is free for its next request at last, also when the server     *)
(* forgets to close a response.                                            *)
ThreadsFreed == \A t \in Threads : []<>(cache[t] = None)
=============================================================================

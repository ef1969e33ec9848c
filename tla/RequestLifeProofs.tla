-------------------------- MODULE RequestLifeProofs --------------------------
(***************************************************************************)
(* Proofs about RequestLife, for any requests, threads, kinds of timer,    *)
(* and either order in which servers end a response.                       *)
(*                                                                         *)
(* The invariant is kept part by part: what a step does to the cache, to   *)
(* the reports and to the timers of one request is stated first, and the   *)
(* part follows from that.                                                 *)
(***************************************************************************)
EXTENDS RequestLife, SequenceTheorems, TLAPS

-----------------------------------------------------------------------------
(* Stacks of timers.                                                       *)

LEMMA MsFacts ==
    ASSUME NEW ticks \in Nat
    PROVE  Ms(ticks) \in Nat
<1>1. TicksPerMs \in Nat /\ TicksPerMs >= 1
  BY ClockAssumption
<1> QED
  BY <1>1 DEF Ms

LEMMA PopFacts ==
    ASSUME NEW S, NEW s \in Seq(S), s # << >>
    PROVE  /\ Len(s) \in Nat /\ Len(s) >= 1 /\ Top(s) \in S
           /\ Pop(s) \in Seq(S) /\ Len(Pop(s)) = Len(s) - 1
           /\ \A i \in 1 .. Len(s) - 1 : Pop(s)[i] = s[i]
<1>1. Len(s) \in Nat /\ Len(s) >= 1 /\ Top(s) \in S
  BY DEF Top
<1>2. PICK n \in Nat : n = Len(s) - 1
  BY <1>1
<1>3. Pop(s) = SubSeq(s, 1, n)
  BY <1>2 DEF Pop
<1>4. \A i \in 1 .. n : s[i] \in S
  BY <1>1, <1>2
<1>5. /\ SubSeq(s, 1, n) \in Seq(S)
      /\ Len(SubSeq(s, 1, n)) = IF 1 <= n THEN n - 1 + 1 ELSE 0
      /\ \A i \in 1 .. n - 1 + 1 : SubSeq(s, 1, n)[i] = s[1 + i - 1]
  BY <1>4, SubSeqProperties
<1>6. \A i \in 1 .. n : SubSeq(s, 1, n)[i] = s[i]
  BY <1>2, <1>5
<1> QED
  BY <1>1, <1>2, <1>3, <1>5, <1>6

(* Charging the timer on top changes its own time and nothing else.        *)
LEMMA ChargeFacts ==
    ASSUME NEW s \in Seq(Timers), NEW d \in Nat
    PROVE  /\ ProcessChild(s, d) \in Seq(Timers) /\ Len(ProcessChild(s, d)) = Len(s)
           /\ \A i \in 1 .. Len(s) : /\ ProcessChild(s, d)[i].kind = s[i].kind
                                     /\ ProcessChild(s, d)[i].start = s[i].start
<1>1. Len(s) \in Nat /\ \A i \in 1 .. Len(s) : s[i] \in Timers
  OBVIOUS
<1>2. CASE s = << >>
  <2>1. ProcessChild(s, d) = s
    BY <1>2 DEF ProcessChild
  <2> QED
    BY <2>1
<1>3. CASE s # << >>
  <2> DEFINE n == Len(s)
             e == [s[n] EXCEPT !.exclusive = @ - d]
  <2>1. n \in 1 .. Len(s) /\ s[n] \in Timers
    BY <1>1, <1>3
  <2>2. e \in Timers /\ e.kind = s[n].kind /\ e.start = s[n].start
    BY <2>1 DEF Timers
  <2>3. ProcessChild(s, d) = [s EXCEPT ![n] = e]
    BY DEF ProcessChild
  <2> QED
    BY <1>1, <2>1, <2>2, <2>3
<1> QED
  BY <1>2, <1>3

(* A timer that ends: the one below is charged, the others stay.           *)
LEMMA PopTimerFacts ==
    ASSUME TypeOK, InThePast, NEW r \in Requests, nodes[r] # << >>, PopTimer(r)
    PROVE  /\ nodes' \in [Requests -> Seq(Timers)]
           /\ Len(nodes'[r]) = Len(nodes[r]) - 1
           /\ \A i \in 1 .. Len(nodes[r]) - 1 : /\ nodes'[r][i].kind = nodes[r][i].kind
                                                /\ nodes'[r][i].start = nodes[r][i].start
           /\ \A q \in Requests : q # r => nodes'[q] = nodes[q]
           /\ spent' \in [Requests -> [Counters -> Nat]] /\ inner' \in [Requests -> Int]
<1>0. /\ nodes \in [Requests -> Seq(Timers)] /\ spent \in [Requests -> [Counters -> Nat]]
      /\ inner \in [Requests -> Int] /\ now \in Nat
  BY DEF TypeOK
<1> DEFINE timer    == Top(nodes[r])
           duration == Ms(now - timer.start)
           counter  == Class(timer.kind).counter
<1>1. /\ Len(nodes[r]) \in Nat /\ Len(nodes[r]) >= 1 /\ timer \in Timers
      /\ Pop(nodes[r]) \in Seq(Timers) /\ Len(Pop(nodes[r])) = Len(nodes[r]) - 1
      /\ \A i \in 1 .. Len(nodes[r]) - 1 : Pop(nodes[r])[i] = nodes[r][i]
  <2>1. nodes[r] \in Seq(Timers)
    BY <1>0
  <2> HIDE DEF timer
  <2> QED
    BY <2>1, PopFacts, Zenon DEF timer
<1>2. duration \in Nat
  <2>1. timer.start \in Nat /\ timer.start <= now
    BY <1>1 DEF InThePast, Top, Timers
  <2>2. now - timer.start \in Nat
    BY <1>0, <2>1
  <2> QED
    BY <2>2, MsFacts, Zenon
<1>3. /\ nodes' = [nodes EXCEPT ![r] = ProcessChild(Pop(@), duration)]
      /\ inner' = [inner EXCEPT ![r] = @ + timer.exclusive + duration]
      /\ spent' = IF counter \in Counters
                    THEN [spent EXCEPT ![r][counter] = duration] ELSE spent
  BY DEF PopTimer
<1> HIDE DEF duration, counter
<1>4. /\ ProcessChild(Pop(nodes[r]), duration) \in Seq(Timers)
      /\ Len(ProcessChild(Pop(nodes[r]), duration)) = Len(nodes[r]) - 1
      /\ \A i \in 1 .. Len(nodes[r]) - 1 :
            /\ ProcessChild(Pop(nodes[r]), duration)[i].kind = nodes[r][i].kind
            /\ ProcessChild(Pop(nodes[r]), duration)[i].start = nodes[r][i].start
  BY <1>1, <1>2, ChargeFacts
<1>5. /\ nodes' \in [Requests -> Seq(Timers)]
      /\ nodes'[r] = ProcessChild(Pop(nodes[r]), duration)
      /\ \A q \in Requests : q # r => nodes'[q] = nodes[q]
  BY <1>0, <1>3, <1>4
<1>6. timer.exclusive \in Int
  BY <1>1 DEF Timers
<1>7. inner' \in [Requests -> Int]
  BY <1>0, <1>2, <1>3, <1>6
<1>8. spent' \in [Requests -> [Counters -> Nat]]
  BY <1>0, <1>2, <1>3
<1> QED
  BY <1>4, <1>5, <1>7, <1>8

-----------------------------------------------------------------------------
(* The cache.                                                              *)

Stages == {"idle", "passed", "open", "closed", "gone"}

CacheTypes ==
    /\ stage \in [Requests -> Stages]
    /\ on \in [Requests -> Threads \cup {None}]
    /\ cache \in [Threads -> Requests \cup {None}]

Leaves(r) == \E s \in {"closed", "gone"} : stage' = [stage EXCEPT ![r] = s]

Takes(r, t) ==
    /\ stage[r] = "idle" /\ cache[t] = None
    /\ stage' = [stage EXCEPT ![r] = "open"]
    /\ on' = [on EXCEPT ![r] = t] /\ cache' = [cache EXCEPT ![t] = r]

(* A request that holds its thread is open.                                *)
LEMMA CurrentIsOpen ==
    ASSUME IInv, NEW r \in Requests, IsCurrent(r)
    PROVE  on[r] \in Threads /\ stage[r] = "open"
BY DEF IInv, TypeOK, CacheHoldsOpen, IsCurrent

LEMMA TakesKeeps ==
    ASSUME IInv, NEW r \in Requests, NEW t \in Threads, Takes(r, t)
    PROVE  CacheTypes' /\ CacheHoldsOpen'
<1>0. /\ stage \in [Requests -> Stages] /\ on \in [Requests -> Threads \cup {None}]
      /\ cache \in [Threads -> Requests \cup {None}]
  BY DEF IInv, TypeOK, Stages
<1>1. CacheTypes'
  BY <1>0 DEF Takes, CacheTypes, Stages
<1>2. /\ stage'[r] = "open" /\ on'[r] = t /\ cache'[t] = r /\ stage[r] = "idle" /\ cache[t] = None
      /\ \A q \in Requests : q # r => stage'[q] = stage[q] /\ on'[q] = on[q]
      /\ \A u \in Threads : u # t => cache'[u] = cache[u]
  BY <1>0 DEF Takes
<1>3. ASSUME NEW q \in Requests, NEW u \in Threads
      PROVE  cache'[u] = q <=> stage'[q] = "open" /\ on'[q] = u
  <2>0. cache[u] = q <=> stage[q] = "open" /\ on[q] = u
    BY DEF IInv, CacheHoldsOpen
  <2>1. CASE q = r /\ u = t
    BY <1>2, <2>1
  <2>2. CASE q = r /\ u # t
    BY <1>2, <2>0, <2>2
  <2>3. CASE q # r /\ u = t
    BY <1>2, <2>0, <2>3, NoneAssumption
  <2>4. CASE q # r /\ u # t
    BY <1>2, <2>0, <2>4
  <2> QED
    BY <2>1, <2>2, <2>3, <2>4
<1> QED
  BY <1>1, <1>3 DEF CacheHoldsOpen

LEMMA DropKeeps ==
    ASSUME IInv, NEW r \in Requests, DropTracker(r), Leaves(r), on' = on
    PROVE  CacheTypes' /\ CacheHoldsOpen'
<1>0. /\ stage \in [Requests -> Stages] /\ on \in [Requests -> Threads \cup {None}]
      /\ cache \in [Threads -> Requests \cup {None}]
  BY DEF IInv, TypeOK, Stages
<1>1. PICK t \in Threads : on[r] = t /\ cache[t] = r /\ cache' = [cache EXCEPT ![t] = None]
  BY CurrentIsOpen DEF DropTracker, IsCurrent
<1>2. CacheTypes'
  BY <1>0, <1>1 DEF Leaves, CacheTypes, Stages
<1>3. /\ stage'[r] # "open" /\ cache'[t] = None
      /\ \A q \in Requests : q # r => stage'[q] = stage[q]
      /\ \A u \in Threads : u # t => cache'[u] = cache[u]
  BY <1>0, <1>1 DEF Leaves
<1>4. ASSUME NEW q \in Requests, NEW u \in Threads
      PROVE  cache'[u] = q <=> stage'[q] = "open" /\ on'[q] = u
  <2>0. cache[u] = q <=> stage[q] = "open" /\ on[q] = u
    BY DEF IInv, CacheHoldsOpen
  <2>1. CASE q = r
    BY <1>1, <1>3, <2>0, <2>1, NoneAssumption
  <2>2. CASE q # r
    BY <1>1, <1>3, <2>0, <2>2, NoneAssumption
  <2> QED
    BY <2>1, <2>2
<1> QED
  BY <1>2, <1>4 DEF CacheHoldsOpen

LEMMA ForgetKeeps ==
    ASSUME IInv, NEW r \in Requests, Forget(r)
    PROVE  CacheTypes' /\ CacheHoldsOpen'
<1>0. /\ stage \in [Requests -> Stages] /\ on \in [Requests -> Threads \cup {None}]
      /\ cache \in [Threads -> Requests \cup {None}]
  BY DEF IInv, TypeOK, Stages
<1>1. CacheTypes'
  BY <1>0 DEF Forget, CacheTypes, Stages
<1>2. /\ stage'[r] = "gone" /\ on' = on
      /\ \A q \in Requests : q # r => stage'[q] = stage[q]
      /\ \A u \in Threads : cache'[u] = IF cache[u] = r THEN None ELSE cache[u]
  BY <1>0 DEF Forget
<1>3. ASSUME NEW q \in Requests, NEW u \in Threads
      PROVE  cache'[u] = q <=> stage'[q] = "open" /\ on'[q] = u
  <2>0. cache[u] = q <=> stage[q] = "open" /\ on[q] = u
    BY DEF IInv, CacheHoldsOpen
  <2>1. CASE q = r
    BY <1>2, <2>1, NoneAssumption
  <2>2. CASE q # r
    BY <1>2, <2>0, <2>2, NoneAssumption
  <2> QED
    BY <2>1, <2>2
<1> QED
  BY <1>1, <1>3 DEF CacheHoldsOpen

LEMMA CacheSame ==
    ASSUME IInv, UNCHANGED cacheVars
    PROVE  CacheTypes' /\ CacheHoldsOpen'
BY DEF IInv, TypeOK, CacheTypes, CacheHoldsOpen, cacheVars, Stages

LEMMA PassKeeps ==
    ASSUME IInv, NEW r \in Requests, LetPass(r)
    PROVE  CacheTypes' /\ CacheHoldsOpen'
<1>0. /\ stage \in [Requests -> Stages] /\ on \in [Requests -> Threads \cup {None}]
      /\ cache \in [Threads -> Requests \cup {None}]
  BY DEF IInv, TypeOK, Stages
<1>1. CacheTypes'
  BY <1>0 DEF LetPass, CacheTypes, Stages
<1>2. \A q \in Requests : stage'[q] = "open" <=> stage[q] = "open"
  BY <1>0 DEF LetPass
<1> QED
  BY <1>1, <1>2 DEF IInv, CacheHoldsOpen, LetPass

-----------------------------------------------------------------------------
(* Reports.                                                                *)

ReportTypes ==
    /\ errors \in [Requests -> Nat] /\ reports \in [Requests -> Seq(Nodes)]
    /\ misnested \subseteq Requests

(* No report, and no stage but towards the end.                            *)
LEMMA NoReport ==
    ASSUME IInv, reports' = reports,
           \A q \in Requests : \/ stage'[q] = stage[q] \/ stage[q] = "idle"
                               \/ stage'[q] \in {"closed", "gone"}
    PROVE  ReportedOnce'
BY DEF IInv, ReportedOnce

(* What is reported of a request, by then open, is its first report.       *)
LEMMA FinishReports ==
    ASSUME IInv, NEW r \in Requests, NEW captured, NEW failed \in {0, 1},
           FinishWork(r, captured, failed), Leaves(r), misnested' = misnested
    PROVE  ReportTypes' /\ ReportedOnce'
<1>0. /\ stage \in [Requests -> Stages] /\ errors \in [Requests -> Nat]
      /\ reports \in [Requests -> Seq(Nodes)] /\ misnested \subseteq Requests
      /\ nodes[r] \in Seq(Timers) /\ now \in Nat /\ begun[r] \in Nat /\ begun[r] <= now
  BY DEF IInv, TypeOK, Stages, InThePast
<1>1. stage[r] = "open" /\ nodes[r] # << >> /\ reports[r] = << >>
  <2>1. stage[r] = "open"
    BY CurrentIsOpen DEF FinishWork, DropTracker
  <2> QED
    BY <2>1 DEF IInv, TimersNest, Nested, ReportedOnce
<1>2. stage'[r] \in {"closed", "gone"} /\ \A q \in Requests : q # r => stage'[q] = stage[q]
  BY <1>0 DEF Leaves
<1>3. Node(r, failed) \in Nodes
  <2>1. Top(nodes[r]) \in Timers
    BY <1>0, <1>1, PopFacts
  <2>2. Ms(now - begun[r]) \in Nat
    <3>1. now - begun[r] \in Nat
      BY <1>0
    <3> QED
      BY <3>1, MsFacts, Zenon
  <2>3. errors[r] + failed \in Nat
    BY <1>0
  <2> QED
    BY <2>1, <2>2, <2>3 DEF Node, Nodes, Timers
<1>4. CASE captured
  <2>1. /\ reports' = [reports EXCEPT ![r] = Append(@, Node(r, failed))]
        /\ errors' = [errors EXCEPT ![r] = @ + failed]
    BY <1>4 DEF FinishWork
  <2>2. /\ Append(reports[r], Node(r, failed)) \in Seq(Nodes)
        /\ Len(Append(reports[r], Node(r, failed))) = 1
    BY <1>0, <1>1, <1>3
  <2>3. /\ reports' \in [Requests -> Seq(Nodes)] /\ Len(reports'[r]) = 1
        /\ \A q \in Requests : q # r => reports'[q] = reports[q]
    BY <1>0, <2>1, <2>2
  <2>4. errors' \in [Requests -> Nat]
    BY <1>0, <2>1
  <2>5. ASSUME NEW q \in Requests
        PROVE  Len(reports'[q]) <= 1
               /\ (reports'[q] # << >> => stage'[q] \in {"closed", "gone"})
    <3>1. CASE q = r
      <4>1. Len(reports'[r]) <= 1
        BY <2>3
      <4> QED
        BY <1>2, <3>1, <4>1, Zenon
    <3>2. CASE q # r
      BY <1>2, <2>3, <3>2 DEF IInv, ReportedOnce
    <3> QED
      BY <3>1, <3>2
  <2> QED
    BY <1>0, <2>3, <2>4, <2>5 DEF ReportedOnce, ReportTypes
<1>5. CASE ~captured
  <2>1. reports' = reports /\ errors' = errors
    BY <1>5 DEF FinishWork
  <2> QED
    BY <1>0, <1>2, <2>1, NoReport DEF ReportTypes
<1> QED
  BY <1>4, <1>5

-----------------------------------------------------------------------------
(* Timers.                                                                 *)

TimerTypes ==
    /\ now \in 0 .. MaxNow /\ begun \in [Requests -> Nat]
    /\ iterator \in [Requests -> {"new", "running", "suspended", "ended"}]
    /\ nodes \in [Requests -> Seq(Timers)]
    /\ spent \in [Requests -> [Counters -> Nat]] /\ inner \in [Requests -> Int]

(* A step of one request leaves the timers of the others alone.            *)
LEMMA NestsApart ==
    ASSUME IInv, NEW r \in Requests, Nested(r)',
           \A q \in Requests : q # r => /\ stage'[q] = stage[q] /\ iterator'[q] = iterator[q]
                                        /\ nodes'[q] = nodes[q]
    PROVE  TimersNest'
<1>1. ASSUME NEW q \in Requests, q # r PROVE Nested(q)'
  <2>1. Nested(q)
    BY DEF IInv, TimersNest
  <2>2. stage'[q] = stage[q] /\ iterator'[q] = iterator[q] /\ nodes'[q] = nodes[q]
    BY <1>1
  <2> QED
    BY <2>1, <2>2 DEF Nested
<1> QED
  BY <1>1 DEF TimersNest

LEMMA PastApart ==
    ASSUME IInv, NEW r \in Requests, now' = now, begun'[r] <= now,
           \A i \in 1 .. Len(nodes'[r]) : nodes'[r][i].start <= now,
           \A q \in Requests : q # r => begun'[q] = begun[q] /\ nodes'[q] = nodes[q]
    PROVE  InThePast'
<1>1. ASSUME NEW q \in Requests
      PROVE  begun'[q] <= now' /\ \A i \in 1 .. Len(nodes'[q]) : nodes'[q][i].start <= now'
  <2>1. CASE q = r
    BY <2>1
  <2>2. CASE q # r
    BY <2>2 DEF IInv, InThePast
  <2> QED
    BY <2>1, <2>2
<1> QED
  BY <1>1 DEF InThePast

(* A timer that opens: under the ones that are open, with the time of now. *)
LEMMA PushFacts ==
    ASSUME IInv, NEW r \in Requests, NEW kind \in {"root", "response"} \cup AllKinds,
           Push(r, kind)
    PROVE  /\ nodes' \in [Requests -> Seq(Timers)]
           /\ Len(nodes[r]) \in Nat /\ Len(nodes'[r]) = Len(nodes[r]) + 1
           /\ nodes'[r][Len(nodes[r]) + 1].kind = kind
           /\ nodes'[r][Len(nodes[r]) + 1].start = now
           /\ \A i \in 1 .. Len(nodes[r]) : nodes'[r][i] = nodes[r][i]
           /\ \A q \in Requests : q # r => nodes'[q] = nodes[q]
<1>0. nodes \in [Requests -> Seq(Timers)] /\ now \in Nat
  BY DEF IInv, TypeOK
<1>1. Timer(kind) \in Timers /\ Timer(kind).kind = kind /\ Timer(kind).start = now
  BY <1>0 DEF Timer, Timers
<1>2. nodes' = [nodes EXCEPT ![r] = Append(@, Timer(kind))]
  BY DEF Push
<1> QED
  BY <1>0, <1>1, <1>2

(* The same of InThePast.                                                  *)
LEMMA PushPast ==
    ASSUME IInv, NEW r \in Requests, NEW kind \in {"root", "response"} \cup AllKinds,
           Push(r, kind), UNCHANGED <<now, begun>>
    PROVE  InThePast'
<1>0. /\ Len(nodes[r]) \in Nat /\ Len(nodes'[r]) = Len(nodes[r]) + 1
      /\ nodes'[r][Len(nodes[r]) + 1].start = now
      /\ \A i \in 1 .. Len(nodes[r]) : nodes'[r][i] = nodes[r][i]
      /\ \A q \in Requests : q # r => nodes'[q] = nodes[q]
  BY PushFacts, Zenon
<1>3. now \in Nat
  BY DEF IInv, TypeOK
<1>1. ASSUME NEW i \in 1 .. Len(nodes'[r]) PROVE nodes'[r][i].start <= now
  <2>1. CASE i \in 1 .. Len(nodes[r])
    BY <1>0, <2>1 DEF IInv, InThePast
  <2>2. CASE i = Len(nodes[r]) + 1
    BY <1>0, <1>3, <2>2
  <2> QED
    BY <1>0, <2>1, <2>2
<1>2. begun'[r] <= now
  BY DEF IInv, InThePast
<1> QED
  BY <1>0, <1>1, <1>2, PastApart

LEMMA PopPast ==
    ASSUME IInv, NEW r \in Requests, UNCHANGED <<now, begun>>,
           \A i \in 1 .. Len(nodes'[r]) : /\ i \in 1 .. Len(nodes[r])
                                          /\ nodes'[r][i].start = nodes[r][i].start,
           \A q \in Requests : q # r => nodes'[q] = nodes[q]
    PROVE  InThePast'
<1>1. begun'[r] <= now /\ \A i \in 1 .. Len(nodes'[r]) : nodes'[r][i].start <= now
  BY DEF IInv, InThePast
<1> QED
  BY <1>1, PastApart

(* The invariant follows from its parts.                                   *)
LEMMA Parts ==
    ASSUME CacheTypes', CacheHoldsOpen', ReportTypes', ReportedOnce', TimerTypes', TimersNest',
           InThePast'
    PROVE  IInv'
BY DEF CacheTypes, ReportTypes, TimerTypes, IInv, TypeOK, Stages

-----------------------------------------------------------------------------
(* One lemma per action.                                                   *)

LEMMA InitInv == Init => IInv
<1> SUFFICES ASSUME Init PROVE IInv
  OBVIOUS
<1>1. TypeOK
  BY ClockAssumption, NoneAssumption DEF Init, TypeOK
<1>2. CacheHoldsOpen /\ ReportedOnce
  BY NoneAssumption DEF Init, CacheHoldsOpen, ReportedOnce
<1>3. TimersNest /\ InThePast
  BY DEF Init, TimersNest, Nested, InThePast
<1> QED
  BY <1>1, <1>2, <1>3 DEF IInv

LEMMA Unchanged ==
    ASSUME IInv
    PROVE  /\ UNCHANGED reportVars => ReportTypes'
           /\ UNCHANGED <<reportVars, stage>> => ReportedOnce'
           /\ UNCHANGED <<now, iterator, begun, timerVars>> => TimerTypes' /\ InThePast'
           /\ UNCHANGED <<stage, iterator, nodes>> => TimersNest'
<1>1. UNCHANGED reportVars => ReportTypes'
  BY DEF IInv, TypeOK, reportVars, ReportTypes
<1>2. UNCHANGED <<reportVars, stage>> => ReportedOnce'
  BY DEF IInv, ReportedOnce, reportVars
<1>3. UNCHANGED <<now, iterator, begun, timerVars>> => TimerTypes' /\ InThePast'
  BY DEF IInv, TypeOK, timerVars, TimerTypes, InThePast
<1>4. UNCHANGED <<stage, iterator, nodes>> => TimersNest'
  BY DEF IInv, TimersNest, Nested
<1> QED
  BY <1>1, <1>2, <1>3, <1>4

LEMMA TickKeeps == ASSUME IInv, Tick PROVE IInv'
<1>1. now \in 0 .. MaxNow /\ now' = now + 1 /\ now' \in 0 .. MaxNow
  BY ClockAssumption DEF IInv, TypeOK, Tick
<1>2. CacheTypes' /\ CacheHoldsOpen'
  BY CacheSame DEF Tick
<1>3. ReportTypes' /\ ReportedOnce' /\ TimersNest'
  BY Unchanged DEF Tick, cacheVars, timerVars
<1>4. TimerTypes'
  BY <1>1 DEF IInv, TypeOK, Tick, timerVars, TimerTypes
<1>5. InThePast'
  <2>1. /\ begun \in [Requests -> Nat] /\ nodes \in [Requests -> Seq(Timers)]
        /\ begun' = begun /\ nodes' = nodes
    BY DEF IInv, TypeOK, Tick, timerVars
  <2>2. ASSUME NEW q \in Requests, NEW i \in 1 .. Len(nodes[q])
        PROVE  nodes[q][i].start <= now + 1
    <3>1. nodes[q][i] \in Timers
      BY <2>1
    <3>2. nodes[q][i].start \in Nat /\ nodes[q][i].start <= now
      BY <3>1 DEF Timers, IInv, InThePast
    <3> QED
      BY <1>1, <3>2
  <2>3. \A q \in Requests : begun[q] \in Nat /\ begun[q] <= now
    BY <2>1 DEF IInv, InThePast
  <2> QED
    BY <1>1, <2>1, <2>2, <2>3 DEF InThePast
<1> QED
  BY <1>2, <1>3, <1>4, <1>5, Parts

LEMMA PassKeepsAll == ASSUME IInv, NEW r \in Requests, LetPass(r) PROVE IInv'
<1>0. stage \in [Requests -> Stages] /\ stage[r] = "idle"
      /\ stage' = [stage EXCEPT ![r] = "passed"]
      /\ UNCHANGED <<now, iterator, begun, timerVars, reportVars>>
  BY DEF IInv, TypeOK, LetPass, Stages
<1>1. ReportedOnce'
  <2>1. \A q \in Requests : stage'[q] = stage[q] \/ stage[q] = "idle"
    BY <1>0
  <2> QED
    BY <1>0, <2>1, NoReport DEF reportVars
<1>2. Nested(r)'
  <2>1. stage'[r] = "passed" /\ iterator'[r] = iterator[r] /\ iterator[r] = "new"
    BY <1>0 DEF IInv, TimersNest, Nested
  <2> QED
    BY <2>1 DEF Nested
<1>3. TimersNest'
  BY <1>0, <1>2, NestsApart DEF timerVars
<1> QED
  BY <1>0, <1>1, <1>3, PassKeeps, Unchanged, Parts

LEMMA StartKeeps ==
    ASSUME IInv, NEW r \in Requests, NEW t \in Threads, StartWork(r, t) PROVE IInv'
<1>0. /\ stage \in [Requests -> Stages] /\ begun \in [Requests -> Nat] /\ now \in 0 .. MaxNow
      /\ nodes \in [Requests -> Seq(Timers)] /\ now \in Nat
      /\ iterator \in [Requests -> {"new", "running", "suspended", "ended"}]
  BY DEF IInv, TypeOK, Stages
<1>1. Takes(r, t)
  BY DEF StartWork, Takes, Untracked
<1>2. ReportTypes' /\ ReportedOnce'
  <2>1. \A q \in Requests : stage'[q] = stage[q] \/ stage[q] = "idle"
    BY <1>0 DEF StartWork
  <2> QED
    BY <2>1, NoReport, Unchanged DEF StartWork, reportVars
<1>3. /\ nodes' \in [Requests -> Seq(Timers)] /\ nodes'[r] = <<Timer("root")>>
      /\ \A q \in Requests : q # r => nodes'[q] = nodes[q]
  <2>1. Timer("root") \in Timers
    BY <1>0 DEF Timer, Timers
  <2> QED
    BY <1>0, <2>1 DEF StartWork
<1>4. Len(nodes'[r]) = 1 /\ nodes'[r][1].kind = "root" /\ nodes'[r][1].start = now
  BY <1>3 DEF Timer
<1>5. /\ begun' \in [Requests -> Nat] /\ begun'[r] = now
      /\ \A q \in Requests : q # r => begun'[q] = begun[q] /\ stage'[q] = stage[q]
      /\ stage'[r] = "open" /\ iterator' = iterator /\ iterator[r] = "new"
      /\ UNCHANGED <<now, spent, inner>>
  BY <1>0 DEF StartWork, IInv, TimersNest, Nested
<1>6. TimerTypes'
  BY <1>0, <1>3, <1>5 DEF TimerTypes, IInv, TypeOK
<1>7. TimersNest'
  <2>1. Nested(r)'
    BY <1>3, <1>4, <1>5 DEF Nested
  <2> QED
    BY <1>3, <1>5, <2>1, NestsApart
<1>8. InThePast'
  <2>1. begun'[r] <= now /\ \A i \in 1 .. Len(nodes'[r]) : nodes'[r][i].start <= now
    BY <1>0, <1>4, <1>5
  <2>2. \A q \in Requests : q # r => begun'[q] = begun[q] /\ nodes'[q] = nodes[q]
    BY <1>3, <1>5
  <2> QED
    BY <1>5, <2>1, <2>2, PastApart
<1> QED
  BY <1>1, <1>2, <1>6, <1>7, <1>8, TakesKeeps, Parts

(* A request that leaves has no timers to nest.                            *)
LEMMA LeftNests ==
    ASSUME IInv, NEW r \in Requests, Leaves(r), iterator' = iterator, iterator[r] # "running",
           \A q \in Requests : q # r => nodes'[q] = nodes[q]
    PROVE  TimersNest'
<1>1. /\ stage'[r] \in {"closed", "gone"}
      /\ \A q \in Requests : q # r => stage'[q] = stage[q]
  BY DEF IInv, TypeOK, Leaves
<1>2. Nested(r)'
  BY <1>1 DEF Nested
<1> QED
  BY <1>1, <1>2, NestsApart

LEMMA FinishKeeps ==
    ASSUME IInv, NEW r \in Requests, NEW captured \in BOOLEAN, NEW failed \in {0, 1},
           FinishWork(r, captured, failed), Leaves(r), iterator[r] # "running",
           UNCHANGED <<now, on, iterator, begun, spent, inner, misnested>>
    PROVE  IInv'
<1>1. CacheTypes' /\ CacheHoldsOpen'
  BY DropKeeps DEF FinishWork
<1>2. ReportTypes' /\ ReportedOnce'
  BY FinishReports
<1>3. nodes[r] \in Seq(Timers) /\ nodes[r] # << >> /\ nodes \in [Requests -> Seq(Timers)]
  <2>1. stage[r] = "open"
    BY CurrentIsOpen DEF FinishWork, DropTracker
  <2> QED
    BY <2>1 DEF IInv, TypeOK, TimersNest, Nested
<1>4. nodes' = [nodes EXCEPT ![r] = Pop(@)] \/ nodes' = nodes
  BY DEF FinishWork
<1>5. /\ nodes' \in [Requests -> Seq(Timers)]
      /\ \A q \in Requests : q # r => nodes'[q] = nodes[q]
      /\ \A i \in 1 .. Len(nodes'[r]) : /\ i \in 1 .. Len(nodes[r])
                                        /\ nodes'[r][i].start = nodes[r][i].start
  <2>1. CASE nodes' = nodes
    BY <1>3, <2>1
  <2>2. CASE nodes' = [nodes EXCEPT ![r] = Pop(@)]
    <3>1. /\ Len(nodes[r]) \in Nat /\ Pop(nodes[r]) \in Seq(Timers)
          /\ Len(Pop(nodes[r])) = Len(nodes[r]) - 1
          /\ \A i \in 1 .. Len(nodes[r]) - 1 : Pop(nodes[r])[i] = nodes[r][i]
      BY <1>3, PopFacts
    <3>2. nodes'[r] = Pop(nodes[r]) /\ nodes' \in [Requests -> Seq(Timers)]
      BY <1>3, <2>2, <3>1
    <3> QED
      BY <1>3, <2>2, <3>1, <3>2
  <2> QED
    BY <1>4, <2>1, <2>2
<1>6. TimerTypes'
  BY <1>5 DEF IInv, TypeOK, TimerTypes
<1>7. TimersNest'
  BY <1>5, LeftNests
<1>8. InThePast'
  BY <1>5, PopPast
<1> QED
  BY <1>1, <1>2, <1>6, <1>7, <1>8, Parts

LEMMA ForgetKeepsAll == ASSUME IInv, NEW r \in Requests, Forget(r) PROVE IInv'
<1>0. /\ Leaves(r) /\ iterator' = iterator /\ iterator[r] # "running"
      /\ UNCHANGED <<now, begun, timerVars, reportVars>>
  BY DEF Forget, Leaves
<1>1. ReportedOnce'
  <2>1. \A q \in Requests : stage'[q] = stage[q] \/ stage'[q] \in {"closed", "gone"}
    BY DEF IInv, TypeOK, Forget
  <2> QED
    BY <1>0, <2>1, NoReport DEF reportVars
<1>2. TimersNest'
  BY <1>0, LeftNests DEF timerVars
<1> QED
  BY <1>0, <1>1, <1>2, ForgetKeeps, Unchanged, Parts

(* The middleware goes on or stops, and no timer opens or closes.          *)
LEMMA ResumeKeeps == ASSUME IInv, NEW r \in Requests, Resume(r) \/ Yield(r) PROVE IInv'
<1>0. /\ nodes \in [Requests -> Seq(Timers)] /\ UNCHANGED <<now, cacheVars, begun, timerVars>>
      /\ UNCHANGED reportVars
      /\ iterator \in [Requests -> {"new", "running", "suspended", "ended"}]
  BY DEF IInv, TypeOK, Resume, Yield
<1>1. /\ iterator' \in [Requests -> {"new", "running", "suspended", "ended"}]
      /\ \A q \in Requests : q # r => iterator'[q] = iterator[q]
  BY <1>0 DEF Resume, Yield, Move
<1>2. Nested(r)'
  <2>0. Nested(r) /\ nodes[r] \in Seq(Timers) /\ Len(nodes[r]) \in Nat
    BY <1>0 DEF IInv, TimersNest
  <2>1. CASE Resume(r)
    <3>1. stage[r] = "open" /\ iterator[r] = "suspended" /\ iterator'[r] = "running"
      BY <1>0, <2>1 DEF Resume, Move
    <3>2. /\ nodes[r][1].kind = "root" /\ nodes[r][2].kind = "response"
          /\ Len(nodes[r]) = 2 /\ nodes[r] # << >>
      BY <2>0, <3>1 DEF Nested
    <3>3. stage'[r] = stage[r] /\ nodes'[r] = nodes[r]
      BY <1>0 DEF cacheVars, timerVars
    <3> QED
      BY <3>1, <3>2, <3>3 DEF Nested
  <2>2. CASE Yield(r)
    <3>1. iterator[r] = "running" /\ iterator'[r] = "suspended" /\ AtResponse(r)
      BY <1>0, <2>2 DEF Yield, Move
    <3>2. nodes[r][Len(nodes[r])].kind = "response" /\ Len(nodes[r]) >= 2
      BY <2>0, <3>1 DEF Nested, AtResponse, Top
    <3>3. "response" \notin Kinds
      BY KindsAssumption DEF AllKinds
    <3>4. Len(nodes[r]) = 2
      <4>1. \A i \in 3 .. Len(nodes[r]) : nodes[r][i].kind \in Kinds
        BY <2>0, <3>1 DEF Nested
      <4>2. ~(Len(nodes[r]) >= 3)
        BY <2>0, <3>2, <3>3, <4>1
      <4>3. PICK n \in Nat : n = Len(nodes[r])
        BY <2>0
      <4>4. n >= 2 /\ ~(n >= 3)
        BY <3>2, <4>2, <4>3, Zenon
      <4>5. n = 2
        BY <4>4
      <4> QED
        BY <4>3, <4>5, Zenon
    <3> QED
      BY <1>0, <2>0, <3>1, <3>2, <3>4 DEF Nested, cacheVars, timerVars
  <2> QED
    BY <2>1, <2>2
<1>3. TimersNest'
  BY <1>0, <1>1, <1>2, NestsApart DEF cacheVars, timerVars
<1>4. TimerTypes' /\ InThePast'
  BY <1>0, <1>1 DEF IInv, TypeOK, TimerTypes, InThePast, timerVars
<1>5. ReportTypes' /\ ReportedOnce'
  BY <1>0, Unchanged DEF cacheVars
<1> QED
  BY <1>0, <1>3, <1>4, <1>5, CacheSame, Parts

(* A timer opens, or the last one closes.                                  *)
LEMMA EnterKeeps ==
    ASSUME IInv, NEW r \in Requests,
           StartReading(r) \/ \E kind \in Kinds : EnterTimer(r, kind)
    PROVE  IInv'
<1>0. /\ nodes \in [Requests -> Seq(Timers)] /\ nodes[r] \in Seq(Timers)
      /\ iterator \in [Requests -> {"new", "running", "suspended", "ended"}]
      /\ UNCHANGED <<now, cacheVars, begun, spent, inner, reportVars>>
  BY DEF IInv, TypeOK, StartReading, EnterTimer
<1>1. PICK kind \in {"response"} \cup Kinds :
        /\ Push(r, kind)
        /\ iterator'[r] = "running" /\ stage[r] = "open"
        /\ iterator' \in [Requests -> {"new", "running", "suspended", "ended"}]
        /\ \A q \in Requests : q # r => iterator'[q] = iterator[q]
        /\ \/ iterator[r] = "new" /\ kind = "response"
           \/ iterator[r] = "running" /\ kind \in Kinds
  <2>1. CASE StartReading(r)
    BY <1>0, <2>1 DEF StartReading, Move
  <2>2. ASSUME NEW kind \in Kinds, EnterTimer(r, kind)
        PROVE  /\ Push(r, kind) /\ iterator' = iterator /\ iterator[r] = "running"
               /\ stage[r] = "open"
    BY <2>2 DEF EnterTimer, IInv, TimersNest, Nested
  <2> QED
    BY <1>0, <2>1, <2>2
<1>2. kind \in {"root", "response"} \cup AllKinds
  BY KindsAssumption
<1>3. /\ nodes' \in [Requests -> Seq(Timers)]
      /\ Len(nodes[r]) \in Nat /\ Len(nodes'[r]) = Len(nodes[r]) + 1
      /\ nodes'[r][Len(nodes[r]) + 1].kind = kind
      /\ \A i \in 1 .. Len(nodes[r]) : nodes'[r][i] = nodes[r][i]
      /\ \A q \in Requests : q # r => nodes'[q] = nodes[q]
  BY <1>1, <1>2, PushFacts
<1>4. InThePast'
  BY <1>0, <1>1, <1>2, PushPast
<1>5. Nested(r)'
  <2>0. /\ Len(nodes[r]) >= 1 /\ nodes[r][1].kind = "root"
        /\ iterator[r] = "new" => Len(nodes[r]) = 1
        /\ iterator[r] = "running" =>
              /\ Len(nodes[r]) >= 2 /\ nodes[r][2].kind = "response"
              /\ \A i \in 3 .. Len(nodes[r]) : nodes[r][i].kind \in Kinds
    BY <1>0, <1>1 DEF IInv, TimersNest, Nested
  <2>1. nodes'[r][1].kind = "root" /\ Len(nodes'[r]) >= 2 /\ nodes'[r] # << >>
    BY <1>3, <2>0
  <2>2. nodes'[r][2].kind = "response"
    BY <1>1, <1>3, <2>0
  <2>3. ASSUME NEW i \in 3 .. Len(nodes'[r]) PROVE nodes'[r][i].kind \in Kinds
    <3>1. CASE i \in 1 .. Len(nodes[r])
      BY <1>1, <1>3, <2>0, <3>1
    <3>2. CASE i = Len(nodes[r]) + 1
      BY <1>1, <1>3, <2>0, <3>2
    <3> QED
      BY <1>3, <3>1, <3>2
  <2>4. stage'[r] = "open"
    BY <1>0, <1>1 DEF cacheVars
  <2> QED
    BY <1>1, <2>1, <2>2, <2>3, <2>4 DEF Nested
<1>6. TimersNest'
  BY <1>0, <1>1, <1>3, <1>5, NestsApart DEF cacheVars
<1>7. TimerTypes'
  BY <1>0, <1>1, <1>3 DEF IInv, TypeOK, TimerTypes
<1>8. ReportTypes' /\ ReportedOnce'
  BY <1>0, Unchanged DEF cacheVars
<1> QED
  BY <1>0, <1>4, <1>6, <1>7, <1>8, CacheSame, Parts

LEMMA ExitKeeps ==
    ASSUME IInv, NEW r \in Requests, ExitTimer(r) \/ Exhaust(r) \/ Raise(r)
    PROVE  IInv'
<1>0. /\ nodes \in [Requests -> Seq(Timers)] /\ nodes[r] \in Seq(Timers)
      /\ iterator \in [Requests -> {"new", "running", "suspended", "ended"}]
      /\ UNCHANGED <<now, cacheVars, begun>> /\ UNCHANGED <<reports, misnested>>
      /\ PopTimer(r) /\ iterator[r] = "running"
  BY DEF IInv, TypeOK, ExitTimer, Exhaust, Raise, Move, reportVars
<1>1. /\ stage[r] = "open" /\ Len(nodes[r]) >= 2 /\ nodes[r] # << >> /\ Len(nodes[r]) \in Nat
      /\ nodes[r][1].kind = "root" /\ nodes[r][2].kind = "response"
      /\ \A i \in 3 .. Len(nodes[r]) : nodes[r][i].kind \in Kinds
  BY <1>0 DEF IInv, TimersNest, Nested
<1>2. /\ nodes' \in [Requests -> Seq(Timers)]
      /\ Len(nodes'[r]) = Len(nodes[r]) - 1
      /\ \A i \in 1 .. Len(nodes[r]) - 1 : /\ nodes'[r][i].kind = nodes[r][i].kind
                                           /\ nodes'[r][i].start = nodes[r][i].start
      /\ \A q \in Requests : q # r => nodes'[q] = nodes[q]
      /\ spent' \in [Requests -> [Counters -> Nat]] /\ inner' \in [Requests -> Int]
  BY <1>0, <1>1, PopTimerFacts DEF IInv
<1>3. InThePast'
  <2>1. \A i \in 1 .. Len(nodes'[r]) : /\ i \in 1 .. Len(nodes[r])
                                       /\ nodes'[r][i].start = nodes[r][i].start
    BY <1>1, <1>2
  <2> QED
    BY <1>0, <1>2, <2>1, PopPast
<1>4. "response" \notin Kinds
  BY KindsAssumption DEF AllKinds
<1>5. /\ iterator' \in [Requests -> {"new", "running", "suspended", "ended"}]
      /\ \A q \in Requests : q # r => iterator'[q] = iterator[q]
      /\ \/ iterator'[r] = "running" /\ nodes[r][Len(nodes[r])].kind \in Kinds
         \/ iterator'[r] = "ended" /\ nodes[r][Len(nodes[r])].kind = "response"
  BY <1>0 DEF ExitTimer, Exhaust, Raise, Move, AtResponse, Top
<1>6. /\ nodes'[r][1].kind = "root" /\ Len(nodes'[r]) >= 1 /\ nodes'[r] # << >>
      /\ Len(nodes'[r]) >= 2 => nodes'[r][2].kind = "response"
      /\ \A i \in 3 .. Len(nodes'[r]) : nodes'[r][i].kind \in Kinds
  <2>1. PICK n \in Nat : n = Len(nodes[r]) /\ n >= 2
    BY <1>1
  <2>2. Len(nodes'[r]) = n - 1
    BY <1>2, <2>1
  <2>3. nodes'[r][1].kind = "root" /\ Len(nodes'[r]) >= 1 /\ nodes'[r] # << >>
    BY <1>1, <1>2, <2>1, <2>2
  <2>4. Len(nodes'[r]) >= 2 => nodes'[r][2].kind = "response"
    BY <1>1, <1>2, <2>1, <2>2
  <2>5. ASSUME NEW i \in 3 .. Len(nodes'[r]) PROVE nodes'[r][i].kind \in Kinds
    <3>1. i \in 1 .. Len(nodes[r]) - 1 /\ i \in 3 .. Len(nodes[r])
      BY <2>1, <2>2
    <3> QED
      BY <1>1, <1>2, <3>1
  <2> QED
    BY <2>3, <2>4, <2>5
<1>7. iterator'[r] = "running" => Len(nodes'[r]) >= 2
  BY <1>1, <1>2, <1>4, <1>5
<1>8. iterator'[r] = "ended" => Len(nodes'[r]) = 1
  <2>1. PICK n \in Nat : n = Len(nodes[r]) /\ n >= 2
    BY <1>1
  <2>2. iterator'[r] = "ended" => nodes[r][n].kind \notin Kinds
    BY <1>4, <1>5, <2>1
  <2>3. n >= 3 => nodes[r][n].kind \in Kinds
    <3>1. n >= 3 => n \in 3 .. Len(nodes[r])
      BY <2>1
    <3> QED
      BY <1>1, <3>1, Zenon
  <2>4. n >= 2
    BY <2>1, Zenon
  <2>5. iterator'[r] = "ended" => n = 2
    <3>1. iterator'[r] = "ended" => ~(n >= 3)
      BY <2>2, <2>3, Zenon
    <3> QED
      BY <2>4, <3>1
  <2> QED
    BY <1>2, <2>1, <2>5
<1>9. Nested(r)'
  <2>1. stage'[r] = "open"
    BY <1>0, <1>1 DEF cacheVars
  <2> QED
    BY <1>5, <1>6, <1>7, <1>8, <2>1 DEF Nested
<1>10. TimersNest'
  BY <1>0, <1>2, <1>5, <1>9, NestsApart DEF cacheVars
<1>11. TimerTypes'
  BY <1>0, <1>2, <1>5 DEF IInv, TypeOK, TimerTypes
<1>12. ReportTypes' /\ ReportedOnce'
  <2>1. errors' \in [Requests -> Nat]
    <3>1. errors \in [Requests -> Nat]
      BY DEF IInv, TypeOK
    <3>2. errors' = errors \/ RecordException(r)
      BY DEF ExitTimer, Exhaust, Raise, reportVars
    <3> QED
      BY <3>1, <3>2 DEF RecordException
  <2> QED
    BY <1>0, <2>1 DEF IInv, TypeOK, ReportTypes, ReportedOnce, cacheVars
<1> QED
  BY <1>0, <1>3, <1>10, <1>11, <1>12, CacheSame, Parts

(* The generator is released, after the request was closed or before.      *)
LEMMA ReleaseKeeps == ASSUME IInv, NEW r \in Requests, Release(r) PROVE IInv'
<1>0. /\ nodes \in [Requests -> Seq(Timers)] /\ nodes[r] \in Seq(Timers)
      /\ spent \in [Requests -> [Counters -> Nat]] /\ inner \in [Requests -> Int]
      /\ iterator \in [Requests -> {"new", "running", "suspended", "ended"}]
      /\ UNCHANGED <<now, cacheVars, begun, errors, reports>>
      /\ iterator[r] = "suspended" /\ iterator'[r] = "ended"
      /\ iterator' \in [Requests -> {"new", "running", "suspended", "ended"}]
      /\ \A q \in Requests : q # r => iterator'[q] = iterator[q]
  BY DEF IInv, TypeOK, Release, Move
<1>1. /\ nodes' \in [Requests -> Seq(Timers)]
      /\ \A i \in 1 .. Len(nodes'[r]) : /\ i \in 1 .. Len(nodes[r])
                                        /\ nodes'[r][i].kind = nodes[r][i].kind
                                        /\ nodes'[r][i].start = nodes[r][i].start
      /\ nodes[r] # << >> => Len(nodes'[r]) = Len(nodes[r]) - 1
      /\ \A q \in Requests : q # r => nodes'[q] = nodes[q]
      /\ spent' \in [Requests -> [Counters -> Nat]] /\ inner' \in [Requests -> Int]
      /\ misnested' \subseteq Requests
  <2>0. Len(nodes[r]) \in Nat /\ misnested \subseteq Requests
    BY <1>0 DEF IInv, TypeOK
  <2>1. CASE AtResponse(r)
    <3>1. PopTimer(r) /\ misnested' = misnested /\ nodes[r] # << >>
      BY <2>1 DEF Release, AtResponse
    <3> QED
      BY <2>0, <3>1, PopTimerFacts DEF IInv
  <2>2. CASE ~AtResponse(r) /\ nodes[r] = << >>
    <3>1. /\ nodes' = [nodes EXCEPT ![r] = @] /\ UNCHANGED <<spent, inner>>
          /\ misnested' = misnested \cup {r}
      BY <2>2 DEF Release
    <3> QED
      BY <1>0, <2>0, <2>2, <3>1
  <2>3. CASE ~AtResponse(r) /\ nodes[r] # << >>
    <3>1. /\ nodes' = [nodes EXCEPT ![r] = Pop(@)] /\ UNCHANGED <<spent, inner>>
          /\ misnested' = misnested \cup {r}
      BY <2>3 DEF Release
    <3>2. /\ Pop(nodes[r]) \in Seq(Timers) /\ Len(Pop(nodes[r])) = Len(nodes[r]) - 1
          /\ \A i \in 1 .. Len(nodes[r]) - 1 : Pop(nodes[r])[i] = nodes[r][i]
      BY <1>0, <2>3, PopFacts
    <3>3. nodes'[r] = Pop(nodes[r]) /\ nodes' \in [Requests -> Seq(Timers)]
      BY <1>0, <3>1, <3>2
    <3>4. /\ Len(nodes'[r]) = Len(nodes[r]) - 1
          /\ \A i \in 1 .. Len(nodes'[r]) : i \in 1 .. Len(nodes[r])
                                           /\ nodes'[r][i] = nodes[r][i]
      BY <2>0, <3>2, <3>3
    <3>5. \A q \in Requests : q # r => nodes'[q] = nodes[q]
      BY <1>0, <3>1
    <3> QED
      BY <1>0, <2>0, <3>1, <3>3, <3>4, <3>5
  <2> QED
    BY <2>1, <2>2, <2>3
<1>2. Nested(r)'
  <2>1. stage'[r] = stage[r]
    BY <1>0 DEF cacheVars
  <2>2. CASE stage[r] = "open"
    <3>1. Len(nodes[r]) = 2 /\ nodes[r] # << >> /\ nodes[r][1].kind = "root"
      BY <1>0, <2>2 DEF IInv, TimersNest, Nested
    <3>2. Len(nodes'[r]) = 1 /\ nodes'[r][1].kind = "root" /\ nodes'[r] # << >>
      <4>1. Len(nodes'[r]) = 1
        BY <1>1, <3>1
      <4>2. 1 \in 1 .. Len(nodes'[r])
        BY <4>1
      <4>3. nodes'[r][1].kind = nodes[r][1].kind
        BY <1>1, <4>2
      <4> QED
        BY <3>1, <4>1, <4>3
    <3> QED
      BY <1>0, <2>1, <2>2, <3>2 DEF Nested
  <2>3. CASE stage[r] # "open"
    <3>1. stage[r] = "closed"
      BY <2>3 DEF Release
    <3> QED
      BY <1>0, <2>1, <3>1 DEF Nested
  <2> QED
    BY <2>2, <2>3
<1>3. TimersNest'
  BY <1>0, <1>1, <1>2, NestsApart DEF cacheVars
<1>4. InThePast'
  BY <1>0, <1>1, PopPast
<1>5. TimerTypes'
  BY <1>0, <1>1 DEF IInv, TypeOK, TimerTypes
<1>6. ReportTypes' /\ ReportedOnce'
  BY <1>0, <1>1 DEF IInv, TypeOK, ReportTypes, ReportedOnce, cacheVars
<1> QED
  BY <1>0, <1>3, <1>4, <1>5, <1>6, CacheSame, Parts

-----------------------------------------------------------------------------
(* The invariant.                                                          *)

LEMMA NextKeeps == IInv /\ [Next]_vars => IInv'
<1> SUFFICES ASSUME IInv, [Next]_vars PROVE IInv'
  OBVIOUS
<1>1. CASE Tick
  BY <1>1, TickKeeps
<1>2. CASE Idle \/ UNCHANGED vars
  <2>1. UNCHANGED vars
    BY <1>2 DEF Idle
  <2> QED
    BY <2>1, CacheSame, Unchanged, Parts DEF vars, cacheVars, timerVars
<1>3. ASSUME NEW r \in Requests, Entrance(r) PROVE IInv'
  <2>1. CASE LetPass(r)
    BY <2>1, PassKeepsAll
  <2>2. ASSUME NEW t \in Threads, StartWork(r, t) PROVE IInv'
    BY <2>2, StartKeeps
  <2>3. ASSUME NEW captured \in BOOLEAN, NEW failed \in {0, 1}, EntranceFails(r, captured, failed)
        PROVE  IInv'
    <3>1. /\ FinishWork(r, captured, failed) /\ Leaves(r) /\ iterator[r] # "running"
          /\ UNCHANGED <<now, on, iterator, begun, spent, inner, misnested>>
      BY <2>3 DEF EntranceFails, Leaves
    <3> QED
      BY <3>1, FinishKeeps
  <2> QED
    BY <1>3, <2>1, <2>2, <2>3 DEF Entrance
<1>4. ASSUME NEW r \in Requests, Application(r) PROVE IInv'
  BY <1>4, EnterKeeps, ExitKeeps, ResumeKeeps DEF Application
<1>5. ASSUME NEW r \in Requests, Server(r) PROVE IInv'
  <2>1. ASSUME NEW captured \in BOOLEAN, NEW failed \in {0, 1}, Close(r, captured, failed)
        PROVE  IInv'
    <3>1. /\ FinishWork(r, captured, failed) /\ Leaves(r) /\ iterator[r] # "running"
          /\ UNCHANGED <<now, on, iterator, begun, spent, inner, misnested>>
      BY <2>1 DEF Close, Leaves
    <3> QED
      BY <3>1, FinishKeeps
  <2>2. CASE StartReading(r) \/ Resume(r)
    BY <2>2, EnterKeeps, ResumeKeeps
  <2>3. CASE Release(r) \/ Forget(r)
    BY <2>3, ReleaseKeeps, ForgetKeepsAll
  <2> QED
    BY <1>5, <2>1, <2>2, <2>3 DEF Server
<1> QED
  BY <1>1, <1>2, <1>3, <1>4, <1>5 DEF Next

(* However a server ends its responses: the cache holds the requests that  *)
(* are open, each on its thread, a request is reported once, after it was  *)
(* closed, and the timers that are open are those of the calls under way.  *)
THEOREM Invariance == Spec => []IInv
BY InitInv, NextKeeps, PTL DEF Spec

-----------------------------------------------------------------------------
(* The root.                                                               *)

(* A request that is closed as a well-behaved server does it, or whose     *)
(* entrance fails, has one timer left: the root. The reports of others     *)
(* stay as they are.                                                       *)
LEMMA RootStep ==
    ASSUME IInv, ReportsRoot, ReleaseFirst, [Next]_vars
    PROVE  ReportsRoot'
<1>1. CASE reports' = reports
  BY <1>1 DEF ReportsRoot
<1>2. ASSUME NEW r \in Requests, NEW captured \in BOOLEAN, NEW failed \in {0, 1},
             FinishWork(r, captured, failed), iterator[r] \in {"new", "ended"}
      PROVE  ReportsRoot'
  <2>0. reports \in [Requests -> Seq(Nodes)]
    BY DEF IInv, TypeOK
  <2>1. stage[r] = "open"
    BY <1>2, CurrentIsOpen DEF FinishWork, DropTracker
  <2>2. Len(nodes[r]) = 1 /\ nodes[r][1].kind = "root" /\ reports[r] = << >>
    BY <1>2, <2>1 DEF IInv, TimersNest, Nested, ReportedOnce
  <2>3. Node(r, failed).root = "root"
    <3>1. Top(nodes[r]).kind = "root"
      BY <2>2 DEF Top
    <3> QED
      BY <3>1 DEF Node
  <2>4. CASE captured
    <3>1. /\ reports'[r] = <<Node(r, failed)>>
          /\ \A q \in Requests : q # r => reports'[q] = reports[q]
      BY <1>2, <2>0, <2>2, <2>4 DEF FinishWork
    <3>2. ASSUME NEW q \in Requests, NEW i \in 1 .. Len(reports'[q])
          PROVE  reports'[q][i].root = "root"
      <4>1. CASE q = r
        <5>1. reports'[q] = <<Node(r, failed)>>
          BY <3>1, <4>1
        <5>2. Len(<<Node(r, failed)>>) = 1 /\ <<Node(r, failed)>>[1] = Node(r, failed)
          OBVIOUS
        <5>3. i = 1
          BY <5>1, <5>2
        <5> QED
          BY <2>3, <5>1, <5>2, <5>3
      <4>2. CASE q # r
        BY <3>1, <4>2 DEF ReportsRoot
      <4> QED
        BY <4>1, <4>2
    <3> QED
      BY <3>2 DEF ReportsRoot
  <2>5. CASE ~captured
    BY <1>1, <1>2, <2>5 DEF FinishWork
  <2> QED
    BY <2>4, <2>5
<1>3. ASSUME NEW r \in Requests, Entrance(r) PROVE ReportsRoot'
  <2>1. ASSUME NEW captured \in BOOLEAN, NEW failed \in {0, 1}, EntranceFails(r, captured, failed)
        PROVE  ReportsRoot'
    BY <1>2, <2>1 DEF EntranceFails
  <2>2. CASE LetPass(r) \/ \E t \in Threads : StartWork(r, t)
    BY <1>1, <2>2 DEF LetPass, StartWork, reportVars
  <2> QED
    BY <1>3, <2>1, <2>2 DEF Entrance
<1>4. ASSUME NEW r \in Requests, Application(r) PROVE ReportsRoot'
  BY <1>1, <1>4 DEF Application, EnterTimer, ExitTimer, Yield, Exhaust, Raise, reportVars
<1>5. ASSUME NEW r \in Requests, Server(r) PROVE ReportsRoot'
  <2>1. ASSUME NEW captured \in BOOLEAN, NEW failed \in {0, 1}, Close(r, captured, failed)
        PROVE  ReportsRoot'
    <3>1. iterator[r] \in {"new", "ended"}
      BY <2>1 DEF Close, IInv, TypeOK
    <3> QED
      BY <1>2, <2>1, <3>1 DEF Close
  <2>2. CASE StartReading(r) \/ Resume(r) \/ Release(r) \/ Forget(r)
    BY <1>1, <2>2 DEF StartReading, Resume, Release, Forget, reportVars
  <2> QED
    BY <1>5, <2>1, <2>2 DEF Server
<1>6. CASE Tick \/ Idle \/ UNCHANGED vars
  BY <1>1, <1>6 DEF Tick, Idle, vars, reportVars
<1> QED
  BY <1>3, <1>4, <1>5, <1>6 DEF Next

(* Behind a server that drops the iterator of a response before it closes  *)
(* the response, the node that is popped as the root is the root: every    *)
(* timer opened on the way was closed, however the response ended.         *)
THEOREM RootReported ==
    ASSUME ReleaseFirst
    PROVE  Spec => []ReportsRoot
<1>1. Init => ReportsRoot
  BY DEF Init, ReportsRoot
<1>2. IInv /\ ReportsRoot /\ [Next]_vars => ReportsRoot'
  BY RootStep
<1> QED
  BY <1>1, <1>2, Invariance, PTL DEF Spec

-----------------------------------------------------------------------------
(* Times.                                                                  *)

(* What a timer calls its own is never less than nothing: its children     *)
(* came one after the other, and ended before the one that is open began.  *)
Fits(start, exclusive, until) == start <= until /\ exclusive + Ms(until - start) >= 0

Until(r, i) == IF i = Len(nodes[r]) THEN now ELSE nodes[r][i + 1].start

ChildrenFit(r) ==
    \A i \in 1 .. Len(nodes[r]) : Fits(nodes[r][i].start, nodes[r][i].exclusive, Until(r, i))

(* What the timers closed so far call their own was taken from the timers  *)
(* that are open: f is the sum of those, from the root upwards.            *)
Sums(r, f) ==
    /\ f[0] = 0
    /\ \A i \in 1 .. Len(nodes[r]) : f[i] = f[i - 1] + nodes[r][i].exclusive
    /\ f[Len(nodes[r])] + inner[r] = 0

Balanced(r) ==
    /\ stage[r] = "idle" => inner[r] = 0
    /\ stage[r] = "open" => \E f \in [0 .. Len(nodes[r]) -> Int] : Sums(r, f)

(* The root began with the request, and is charged when Response closes.   *)
RootCharged(r) ==
    stage[r] = "open" =>
        /\ \A i \in 1 .. Len(nodes[r]) : begun[r] <= nodes[r][i].start
        /\ iterator[r] # "ended" => nodes[r][1].exclusive = 0

(* The counters of a tracker hold times of timers that never overlapped.   *)
SpentBefore(r) ==
    /\ stage[r] = "idle" => Total(spent[r]) = 0
    /\ \A i \in 1 .. Len(nodes[r]) - 1 : ~Class(nodes[r][i].kind).terminal
    /\ stage[r] = "open" =>
          /\ Total(spent[r]) <= Ms(now - begun[r])
          /\ Class(Top(nodes[r]).kind).terminal =>
                Total(spent[r]) <= Ms(Top(nodes[r]).start - begun[r])

(* What was reported stays true: no timer with a time of its own is left.  *)
ReportsTrue(r) ==
    /\ reports[r] # << >> => \A i \in 1 .. Len(nodes[r]) : nodes[r][i].kind = "root"
    /\ \A i \in 1 .. Len(reports[r]) :
          /\ reports[r][i].exclusive >= 0
          /\ reports[r][i].exclusive + inner[r] = reports[r][i].duration
          /\ Total(spent[r]) <= reports[r][i].duration

Timed(r) ==
    ChildrenFit(r) /\ Balanced(r) /\ RootCharged(r) /\ SpentBefore(r) /\ ReportsTrue(r)

(* Together with IInv: what every step keeps of the times.                 *)
TimesInv == \A r \in Requests : Timed(r)

(* Two spans, each cut to milliseconds, are no longer than both together.  *)
LEMMA MsOrder ==
    ASSUME NEW a \in Nat, NEW b \in Nat
    PROVE  /\ Ms(a) \in Nat /\ Ms(b) \in Nat /\ Ms(a + b) \in Nat
           /\ Ms(a) + Ms(b) <= Ms(a + b)
           /\ a <= b => Ms(a) <= Ms(b)
<1> DEFINE k == TicksPerMs
<1>0. k \in Nat /\ k >= 1
  BY ClockAssumption
<1> HIDE DEF k
<1>1. ASSUME NEW c \in Nat
      PROVE  /\ c \div k \in Int /\ c = k * (c \div k) + (c % k)
             /\ c % k \in 0 .. k - 1
  BY <1>0, SMT
<1>2. ASSUME NEW p \in Int, NEW q \in Int, k * p < k * q + k
      PROVE  p <= q
  <2>1. CASE p >= q + 1
    <3>1. k * p >= k * (q + 1)
      BY <1>0, <2>1, SMT
    <3> QED
      BY <1>0, <1>2, <3>1, SMT
  <2> QED
    BY <2>1
<1>3. a \div k + b \div k <= (a + b) \div k
  <2> DEFINE x == a \div k
             y == b \div k
             z == (a + b) \div k
  <2>1. /\ x \in Int /\ y \in Int /\ z \in Int
        /\ k * x <= a /\ k * y <= b /\ a + b < k * z + k
    BY <1>0, <1>1
  <2> HIDE DEF x, y, z
  <2>2. k * (x + y) = k * x + k * y
    BY <1>0, <2>1, SMT
  <2>3. k * (x + y) < k * z + k
    BY <1>0, <2>1, <2>2, SMT
  <2>4. x + y <= z
    BY <1>2, <2>1, <2>3
  <2> QED
    BY <2>4 DEF x, y, z
<1>4. a <= b => a \div k <= b \div k
  <2> DEFINE x == a \div k
             y == b \div k
  <2>1. /\ x \in Int /\ y \in Int
        /\ k * x <= a /\ b < k * y + k
    BY <1>0, <1>1
  <2> HIDE DEF x, y
  <2>2. a <= b => k * x < k * y + k
    BY <1>0, <2>1, SMT
  <2>3. a <= b => x <= y
    BY <1>2, <2>1, <2>2
  <2> QED
    BY <2>3 DEF x, y
<1>5. Ms(a) \in Nat /\ Ms(b) \in Nat /\ Ms(a + b) \in Nat
  BY MsFacts
<1> QED
  BY <1>3, <1>4, <1>5 DEF Ms, k

LEMMA MsGrows ==
    ASSUME NEW a \in Nat, NEW b \in Nat, a <= b
    PROVE  Ms(a) \in Nat /\ Ms(b) \in Nat /\ Ms(a) <= Ms(b)
BY MsOrder

LEMMA FitsLonger ==
    ASSUME NEW start \in Nat, NEW exclusive \in Int, NEW a \in Nat, NEW b \in Nat,
           Fits(start, exclusive, a), a <= b
    PROVE  Fits(start, exclusive, b)
<1>1. a - start \in Nat /\ b - start \in Nat /\ a - start <= b - start
  BY DEF Fits
<1>2. /\ Ms(a - start) \in Nat /\ Ms(b - start) \in Nat
      /\ Ms(a - start) <= Ms(b - start)
  BY <1>1, MsGrows
<1> QED
  BY <1>2 DEF Fits

(* The timer below is charged for a child that ran from b to c.            *)
LEMMA FitsCharged ==
    ASSUME NEW a \in Nat, NEW exclusive \in Int, NEW b \in Nat, NEW c \in Nat,
           Fits(a, exclusive, b), b <= c
    PROVE  Fits(a, exclusive - Ms(c - b), c)
<1>1. b - a \in Nat /\ c - b \in Nat /\ (b - a) + (c - b) = c - a /\ a <= c
  BY DEF Fits
<1>2. /\ Ms(b - a) \in Nat /\ Ms(c - b) \in Nat /\ Ms((b - a) + (c - b)) \in Nat
      /\ Ms(b - a) + Ms(c - b) <= Ms((b - a) + (c - b))
  BY <1>1, MsOrder
<1>3. Ms((b - a) + (c - b)) = Ms(c - a)
  BY <1>1
<1> QED
  BY <1>1, <1>2, <1>3 DEF Fits

LEMMA ClassFacts ==
    ASSUME NEW kind \in {"root", "response"} \cup AllKinds
    PROVE  /\ Class(kind).counter \in Counters => Class(kind).terminal
           /\ kind \in {"root", "response"} => ~Class(kind).terminal
           /\ Class(kind).counter \in Counters \cup {"none"}
BY DEF Class, AllKinds, Counters, FunctionTimer, DatabaseTimer, ExternalTimer, RedisTimer,
       MemcacheTimer, MongoTimer, MqTimer

LEMMA TotalFacts ==
    ASSUME NEW f \in [Counters -> Nat], NEW c \in Counters, NEW d \in Nat
    PROVE  /\ Total(f) \in Nat /\ Total([f EXCEPT ![c] = d]) \in Nat
           /\ Total([f EXCEPT ![c] = d]) <= Total(f) + d
BY DEF Total, Counters

(* What Timed(r) is about, of a step that leaves r as it was.              *)
SameOf(r) ==
    /\ stage'[r] = stage[r] /\ iterator'[r] = iterator[r] /\ begun'[r] = begun[r]
    /\ nodes'[r] = nodes[r] /\ spent'[r] = spent[r] /\ inner'[r] = inner[r]
    /\ reports'[r] = reports[r]

LEMMA TimedSame ==
    ASSUME NEW r \in Requests, Timed(r), SameOf(r), now' = now
    PROVE  Timed(r)'
<1>1. \A i \in 1 .. Len(nodes[r]) : Until(r, i)' = Until(r, i)
  BY DEF Until, SameOf
<1>2. ChildrenFit(r)'
  BY <1>1 DEF Timed, ChildrenFit, SameOf
<1>3. Balanced(r)' /\ RootCharged(r)'
  BY DEF Timed, Balanced, Sums, RootCharged, SameOf
<1>4. SpentBefore(r)' /\ ReportsTrue(r)'
  BY DEF Timed, SpentBefore, ReportsTrue, SameOf
<1> QED
  BY <1>2, <1>3, <1>4 DEF Timed

LEMMA TimedApart ==
    ASSUME TimesInv, NEW r \in Requests, Timed(r)', now' = now,
           \A q \in Requests : q # r => SameOf(q)
    PROVE  TimesInv'
BY TimedSame DEF TimesInv

(* The types of one request.                                               *)
LEMMA TypesOf ==
    ASSUME IInv, NEW r \in Requests
    PROVE  /\ now \in Nat /\ begun[r] \in Nat /\ begun[r] <= now /\ inner[r] \in Int
           /\ nodes[r] \in Seq(Timers) /\ Len(nodes[r]) \in Nat
           /\ spent[r] \in [Counters -> Nat] /\ Total(spent[r]) \in Nat
           /\ reports[r] \in Seq(Nodes)
           /\ \A i \in 1 .. Len(nodes[r]) :
                 /\ nodes[r][i].start \in Nat /\ nodes[r][i].exclusive \in Int
                 /\ nodes[r][i].kind \in {"root", "response"} \cup AllKinds
                 /\ nodes[r][i].start <= now
<1>1. /\ now \in Nat /\ begun[r] \in Nat /\ begun[r] <= now /\ inner[r] \in Int
      /\ nodes[r] \in Seq(Timers) /\ Len(nodes[r]) \in Nat
      /\ spent[r] \in [Counters -> Nat] /\ reports[r] \in Seq(Nodes)
  BY DEF IInv, TypeOK, InThePast
<1>2. "db" \in Counters
  BY DEF Counters
<1>3. Total(spent[r]) \in Nat
  BY <1>1, <1>2, TotalFacts
<1>4. ASSUME NEW i \in 1 .. Len(nodes[r])
      PROVE  /\ nodes[r][i].start \in Nat /\ nodes[r][i].exclusive \in Int
             /\ nodes[r][i].kind \in {"root", "response"} \cup AllKinds
             /\ nodes[r][i].start <= now
  <2>1. nodes[r][i] \in Timers
    BY <1>1
  <2> QED
    BY <2>1 DEF Timers, IInv, InThePast
<1> QED
  BY <1>1, <1>3, <1>4

(* A tick of the clock lets the timer on top have more time.               *)
LEMMA TimedLater ==
    ASSUME IInv, NEW r \in Requests, Timed(r), SameOf(r),
           NEW later \in Nat, now <= later, now' = later
    PROVE  Timed(r)'
<1>0. /\ now \in Nat /\ begun[r] \in Nat /\ begun[r] <= now
      /\ Len(nodes[r]) \in Nat /\ Total(spent[r]) \in Nat
      /\ \A i \in 1 .. Len(nodes[r]) :
            /\ nodes[r][i].start \in Nat /\ nodes[r][i].exclusive \in Int
            /\ nodes[r][i].start <= now
  BY TypesOf
<1>1. ChildrenFit(r)'
  <2>1. ASSUME NEW i \in 1 .. Len(nodes[r])
        PROVE  Fits(nodes[r][i].start, nodes[r][i].exclusive, Until(r, i)')
    <3>0. Fits(nodes[r][i].start, nodes[r][i].exclusive, Until(r, i))
      BY DEF Timed, ChildrenFit
    <3>1. CASE i # Len(nodes[r])
      <4>1. Until(r, i)' = Until(r, i)
        BY <3>1 DEF Until, SameOf
      <4> QED
        BY <3>0, <4>1
    <3>2. CASE i = Len(nodes[r])
      <4>1. Until(r, i)' = later /\ Until(r, i) = now
        BY <3>2 DEF Until, SameOf
      <4>2. Fits(nodes[r][i].start, nodes[r][i].exclusive, later)
        BY <1>0, <3>0, <4>1, FitsLonger
      <4> QED
        BY <4>1, <4>2
    <3> QED
      BY <3>1, <3>2
  <2> QED
    BY <2>1 DEF ChildrenFit, SameOf
<1>2. Balanced(r)' /\ RootCharged(r)' /\ ReportsTrue(r)'
  BY DEF Timed, Balanced, Sums, RootCharged, ReportsTrue, SameOf
<1>3. SpentBefore(r)'
  <2>1. PICK s \in Nat : s = begun[r] /\ s <= now
    BY <1>0
  <2>2. now - s \in Nat /\ later - s \in Nat /\ now - s <= later - s
    BY <1>0, <2>1
  <2>3. /\ Ms(now - s) <= Ms(later - s)
        /\ Ms(now - s) \in Nat /\ Ms(later - s) \in Nat
    BY <2>2, MsGrows
  <2>4. stage[r] = "open" => Total(spent[r]) <= Ms(now - s)
    BY <2>1 DEF Timed, SpentBefore
  <2>5. stage[r] = "open" => Total(spent[r]) <= Ms(later - s)
    BY <1>0, <2>3, <2>4
  <2>6. now' = later /\ begun'[r] = s
    BY <2>1 DEF SameOf
  <2> QED
    BY <2>5, <2>6 DEF Timed, SpentBefore, SameOf
<1> QED
  BY <1>1, <1>2, <1>3 DEF Timed

(* The request is over, or let pass, and its timers are left alone.        *)
LEMMA TimedLeft ==
    ASSUME NEW r \in Requests, Timed(r), stage'[r] \notin {"idle", "open"},
           nodes'[r] = nodes[r], spent'[r] = spent[r], inner'[r] = inner[r],
           reports'[r] = reports[r], now' = now
    PROVE  Timed(r)'
<1>1. \A i \in 1 .. Len(nodes[r]) : Until(r, i)' = Until(r, i)
  BY DEF Until
<1>2. ChildrenFit(r)'
  BY <1>1 DEF Timed, ChildrenFit
<1>3. Balanced(r)' /\ RootCharged(r)' /\ SpentBefore(r)' /\ ReportsTrue(r)'
  BY DEF Timed, Balanced, RootCharged, SpentBefore, ReportsTrue
<1> QED
  BY <1>2, <1>3 DEF Timed

(* The middleware goes on, or stops for now.                               *)
LEMMA TimedMoved ==
    ASSUME NEW r \in Requests, Timed(r), iterator[r] # "ended", stage'[r] = stage[r],
           begun'[r] = begun[r], nodes'[r] = nodes[r], spent'[r] = spent[r],
           inner'[r] = inner[r], reports'[r] = reports[r], now' = now
    PROVE  Timed(r)'
<1>1. \A i \in 1 .. Len(nodes[r]) : Until(r, i)' = Until(r, i)
  BY DEF Until
<1>2. ChildrenFit(r)'
  BY <1>1 DEF Timed, ChildrenFit
<1>3. Balanced(r)' /\ RootCharged(r)' /\ SpentBefore(r)' /\ ReportsTrue(r)'
  BY DEF Timed, Balanced, Sums, RootCharged, SpentBefore, ReportsTrue
<1> QED
  BY <1>2, <1>3 DEF Timed

LEMMA TimedStarts ==
    ASSUME IInv, NEW r \in Requests, NEW t \in Threads, Timed(r), StartWork(r, t)
    PROVE  Timed(r)'
<1>0. /\ now \in Nat /\ now' = now /\ stage[r] = "idle" /\ stage'[r] = "open"
      /\ begun'[r] = now /\ nodes'[r] = <<Timer("root")>>
      /\ spent' = spent /\ inner' = inner /\ reports' = reports /\ iterator' = iterator
  BY DEF IInv, TypeOK, StartWork, reportVars
<1>1. /\ Len(nodes'[r]) = 1 /\ nodes'[r][1].start = now /\ nodes'[r][1].exclusive = 0
      /\ nodes'[r][1].kind = "root" /\ Top(nodes'[r]).kind = "root"
  BY <1>0 DEF Timer, Top
<1>2. inner[r] = 0 /\ Total(spent[r]) = 0 /\ reports[r] = << >>
  BY <1>0 DEF Timed, Balanced, SpentBefore, IInv, ReportedOnce
<1>3. Ms(now - now) \in Nat
  <2>1. now - now \in Nat
    BY <1>0
  <2> QED
    BY <2>1, MsFacts, Zenon
<1>4. ChildrenFit(r)'
  <2>1. Fits(now, 0, now)
    BY <1>0, <1>3 DEF Fits
  <2>2. Until(r, 1)' = now
    BY <1>0, <1>1 DEF Until
  <2>3. \A i \in 1 .. Len(nodes'[r]) : i = 1
    BY <1>1
  <2> QED
    BY <1>1, <2>1, <2>2, <2>3 DEF ChildrenFit
<1>5. Balanced(r)'
  <2> DEFINE f == [k \in 0 .. 1 |-> 0]
  <2>1. f \in [0 .. Len(nodes'[r]) -> Int] /\ f[0] = 0 /\ f[1] = 0
    BY <1>1
  <2>2. Sums(r, f)'
    BY <1>0, <1>1, <1>2, <2>1 DEF Sums
  <2> QED
    BY <1>0, <2>1, <2>2 DEF Balanced
<1>6. RootCharged(r)'
  BY <1>0, <1>1 DEF RootCharged
<1>7. SpentBefore(r)'
  <2>1. ~Class("root").terminal
    BY ClassFacts
  <2> QED
    BY <1>0, <1>1, <1>2, <1>3, <2>1 DEF SpentBefore
<1>8. ReportsTrue(r)'
  BY <1>0, <1>2 DEF ReportsTrue
<1> QED
  BY <1>4, <1>5, <1>6, <1>7, <1>8 DEF Timed

(* A timer opens on top.                                                   *)
LEMMA TimedPushed ==
    ASSUME IInv, NEW r \in Requests, NEW kind \in {"root", "response"} \cup AllKinds,
           Timed(r), MayPush(r), Push(r, kind), stage[r] = "open", iterator[r] # "ended",
           UNCHANGED <<now, stage, begun, spent, inner, reports>>
    PROVE  Timed(r)'
<1> DEFINE n == Len(nodes[r])
<1>0. /\ now \in Nat /\ begun[r] \in Nat /\ begun[r] <= now /\ inner[r] \in Int
      /\ n \in Nat /\ nodes[r] \in Seq(Timers)
      /\ \A i \in 1 .. n :
            /\ nodes[r][i].start \in Nat /\ nodes[r][i].exclusive \in Int
            /\ nodes[r][i].kind \in {"root", "response"} \cup AllKinds
            /\ nodes[r][i].start <= now
  BY TypesOf
<1>1. /\ Len(nodes'[r]) = n + 1 /\ nodes'[r][n + 1] = Timer(kind)
      /\ \A i \in 1 .. n : nodes'[r][i] = nodes[r][i]
  <2>1. nodes' = [nodes EXCEPT ![r] = Append(@, Timer(kind))]
    BY DEF Push
  <2>2. nodes'[r] = Append(nodes[r], Timer(kind))
    BY <2>1 DEF IInv, TypeOK
  <2> QED
    BY <1>0, <2>2
<1>2. /\ nodes'[r][n + 1].start = now /\ nodes'[r][n + 1].exclusive = 0
      /\ Top(nodes'[r]) = nodes'[r][n + 1]
  BY <1>1 DEF Timer, Top
<1>3. n >= 1 /\ ~Class(nodes[r][n].kind).terminal
  BY <1>0 DEF MayPush, Top
<1> HIDE DEF n
<1>4. ChildrenFit(r)'
  <2>1. ASSUME NEW i \in 1 .. n + 1
        PROVE  Fits(nodes'[r][i].start, nodes'[r][i].exclusive, Until(r, i)')
    <3>1. CASE i = n + 1
      <4>1. Until(r, i)' = now
        BY <1>1, <3>1 DEF Until
      <4>2. now - now \in Nat /\ now <= now
        BY <1>0
      <4>3. Ms(now - now) \in Nat
        BY <4>2, MsFacts, Zenon
      <4>4. Fits(now, 0, now)
        BY <4>2, <4>3 DEF Fits
      <4> QED
        BY <1>2, <3>1, <4>1, <4>4
    <3>2. CASE i \in 1 .. n
      <4>1. Until(r, i)' = Until(r, i)
        <5>1. i # n + 1 /\ Until(r, i)' = nodes'[r][i + 1].start
          BY <1>0, <1>1, <3>2 DEF Until
        <5>2. CASE i = n
          BY <1>2, <5>1, <5>2 DEF Until, n
        <5>3. CASE i # n
          <6>1. i + 1 \in 1 .. n
            BY <1>0, <3>2, <5>3
          <6> QED
            BY <1>1, <5>1, <5>3, <6>1 DEF Until, n
        <5> QED
          BY <5>2, <5>3
      <4>2. Fits(nodes[r][i].start, nodes[r][i].exclusive, Until(r, i))
        BY <3>2 DEF Timed, ChildrenFit, n
      <4> QED
        BY <1>1, <3>2, <4>1, <4>2
    <3> QED
      BY <1>0, <3>1, <3>2
  <2> QED
    BY <1>1, <2>1 DEF ChildrenFit
<1>5. Balanced(r)'
  <2>1. PICK f \in [0 .. n -> Int] : Sums(r, f)
    BY DEF Timed, Balanced, n
  <2>2. PICK g \in [0 .. n + 1 -> Int] :
          g[0] = 0 /\ g[n + 1] = f[n] /\ \A i \in 0 .. n : g[i] = f[i]
    <3> DEFINE e == [k \in 0 .. n + 1 |-> IF k = n + 1 THEN f[n] ELSE f[k]]
    <3>1. e \in [0 .. n + 1 -> Int]
      BY <1>0, <2>1
    <3>2. e[0] = 0 /\ e[n + 1] = f[n] /\ \A i \in 0 .. n : e[i] = f[i]
      BY <1>0, <2>1 DEF Sums
    <3> QED
      BY <3>1, <3>2
  <2>4. ASSUME NEW i \in 1 .. n + 1
        PROVE  g[i] = g[i - 1] + nodes'[r][i].exclusive
    <3>1. CASE i = n + 1
      BY <1>0, <1>2, <2>1, <2>2, <3>1
    <3>2. CASE i \in 1 .. n
      <4>1. i \in 0 .. n /\ i - 1 \in 0 .. n
        BY <1>0, <3>2
      <4>2. f[i] = f[i - 1] + nodes[r][i].exclusive
        BY <2>1, <3>2 DEF Sums, n
      <4> QED
        BY <1>1, <2>2, <3>2, <4>1, <4>2
    <3> QED
      BY <1>0, <3>1, <3>2
  <2>5. g[n + 1] + inner[r] = 0
    BY <2>1, <2>2 DEF Sums, n
  <2>6. Sums(r, g)'
    BY <1>1, <2>2, <2>4, <2>5 DEF Sums
  <2> QED
    BY <1>1, <2>2, <2>6 DEF Balanced
<1>6. RootCharged(r)'
  <2>1. ASSUME NEW i \in 1 .. n + 1 PROVE begun[r] <= nodes'[r][i].start
    <3>1. CASE i = n + 1
      BY <1>0, <1>2, <3>1
    <3>2. CASE i \in 1 .. n
      BY <1>1, <3>2 DEF Timed, RootCharged, n
    <3> QED
      BY <1>0, <3>1, <3>2
  <2>2. nodes'[r][1].exclusive = 0
    <3>1. nodes'[r][1] = nodes[r][1]
      BY <1>0, <1>1, <1>3
    <3> QED
      BY <3>1 DEF Timed, RootCharged
  <2> QED
    BY <1>1, <2>1, <2>2 DEF RootCharged
<1>7. SpentBefore(r)'
  <2>1. Total(spent[r]) <= Ms(now - begun[r])
    BY DEF Timed, SpentBefore
  <2>2. ASSUME NEW i \in 1 .. n PROVE ~Class(nodes'[r][i].kind).terminal
    <3>1. CASE i = n
      BY <1>1, <1>3, <3>1
    <3>2. CASE i # n
      <4>1. i \in 1 .. n - 1
        BY <1>0, <3>2
      <4> QED
        BY <1>1, <4>1 DEF Timed, SpentBefore, n
    <3> QED
      BY <3>1, <3>2
  <2>3. Len(nodes'[r]) - 1 = n
    BY <1>0, <1>1
  <2> QED
    BY <1>2, <2>1, <2>2, <2>3 DEF SpentBefore
<1>8. ReportsTrue(r)'
  <2>1. reports[r] = << >>
    BY DEF IInv, ReportedOnce
  <2> QED
    BY <2>1 DEF ReportsTrue
<1> QED
  BY <1>4, <1>5, <1>6, <1>7, <1>8 DEF Timed

(* What is left of a stack when its top is taken off: d is what the timer  *)
(* below is charged.                                                       *)
Popped(r, d) ==
    LET n == Len(nodes[r])
    IN  /\ Len(nodes'[r]) = n - 1
        /\ \A i \in 1 .. n - 1 :
              /\ nodes'[r][i].kind = nodes[r][i].kind
              /\ nodes'[r][i].start = nodes[r][i].start
              /\ nodes'[r][i].exclusive = nodes[r][i].exclusive - (IF i = n - 1 THEN d ELSE 0)

LEMMA PopTimerPops ==
    ASSUME IInv, NEW r \in Requests, nodes[r] # << >>, PopTimer(r),
           NEW d \in Nat, d = Ms(now - Top(nodes[r]).start)
    PROVE  Popped(r, d)
<1>0. nodes[r] \in Seq(Timers)
  BY TypesOf
<1>1. /\ Len(nodes[r]) \in Nat /\ Len(nodes[r]) >= 1
      /\ Pop(nodes[r]) \in Seq(Timers) /\ Len(Pop(nodes[r])) = Len(nodes[r]) - 1
      /\ \A i \in 1 .. Len(nodes[r]) - 1 : Pop(nodes[r])[i] = nodes[r][i]
  BY <1>0, PopFacts, Zenon
<1>2. PICK n \in Nat : n = Len(nodes[r]) /\ n >= 1
  BY <1>1
<1>3. nodes'[r] = ProcessChild(Pop(nodes[r]), d)
  BY DEF PopTimer, IInv, TypeOK
<1>4. PICK s \in Seq(Timers) : s = Pop(nodes[r]) /\ Len(s) = n - 1
  BY <1>1, <1>2
<1>5. /\ Len(nodes'[r]) = n - 1
      /\ \A i \in 1 .. n - 1 : /\ nodes'[r][i].kind = s[i].kind
                               /\ nodes'[r][i].start = s[i].start
  BY <1>3, <1>4, ChargeFacts
<1>6. ASSUME NEW i \in 1 .. n - 1
      PROVE  nodes'[r][i].exclusive = s[i].exclusive - (IF i = n - 1 THEN d ELSE 0)
  <2>1. s[i] \in Timers /\ nodes'[r] = [s EXCEPT ![n - 1].exclusive = @ - d]
    BY <1>2, <1>3, <1>4 DEF ProcessChild
  <2>2. s[i].exclusive \in Int
    BY <2>1 DEF Timers
  <2>3. CASE i = n - 1
    <3>1. nodes'[r][i] = [s[i] EXCEPT !.exclusive = @ - d]
      BY <1>2, <1>4, <2>1, <2>3
    <3> QED
      BY <2>1, <2>3, <3>1 DEF Timers
  <2>4. CASE i # n - 1
    <3>1. nodes'[r][i] = s[i]
      BY <1>2, <1>4, <2>1, <2>4
    <3> QED
      BY <2>2, <2>4, <3>1
  <2> QED
    BY <2>3, <2>4
<1> QED
  BY <1>1, <1>2, <1>4, <1>5, <1>6 DEF Popped

(* The timer below still has enough of its time.                           *)
LEMMA PoppedFits ==
    ASSUME IInv, NEW r \in Requests, Timed(r), nodes[r] # << >>, now' = now,
           NEW d \in Nat, d \in {0, Ms(now - Top(nodes[r]).start)}, Popped(r, d)
    PROVE  ChildrenFit(r)'
<1>0. /\ now \in Nat /\ Len(nodes[r]) \in Nat
      /\ \A i \in 1 .. Len(nodes[r]) :
            /\ nodes[r][i].start \in Nat /\ nodes[r][i].exclusive \in Int
            /\ nodes[r][i].start <= now
  BY TypesOf
<1>1. PICK n \in Nat : n = Len(nodes[r]) /\ n >= 1
  BY <1>0, TypesOf
<1>2. /\ Len(nodes'[r]) = n - 1
      /\ \A i \in 1 .. n - 1 :
            /\ nodes'[r][i].start = nodes[r][i].start
            /\ nodes'[r][i].exclusive = nodes[r][i].exclusive - (IF i = n - 1 THEN d ELSE 0)
  BY <1>1 DEF Popped
<1>3. ASSUME NEW i \in 1 .. n - 1
      PROVE  Fits(nodes'[r][i].start, nodes'[r][i].exclusive, Until(r, i)')
  <2>0. i \in 1 .. Len(nodes[r]) /\ i + 1 \in 1 .. Len(nodes[r])
    BY <1>1
  <2>1. Fits(nodes[r][i].start, nodes[r][i].exclusive, nodes[r][i + 1].start)
    <3>1. Fits(nodes[r][i].start, nodes[r][i].exclusive, Until(r, i))
      BY <2>0 DEF Timed, ChildrenFit
    <3>2. Until(r, i) = nodes[r][i + 1].start
      BY <1>1 DEF Until
    <3> QED
      BY <3>1, <3>2
  <2>2. PICK a \in Nat, e \in Int, b \in Nat :
          a = nodes[r][i].start /\ e = nodes[r][i].exclusive /\ b = nodes[r][i + 1].start
    BY <1>0, <2>0
  <2>3. b <= now /\ Fits(a, e, b) /\ nodes'[r][i].start = a
    BY <1>0, <1>2, <2>0, <2>1, <2>2
  <2>4. CASE i = n - 1
    <3>1. Until(r, i)' = now /\ nodes'[r][i].exclusive = e - d
      BY <1>2, <2>2, <2>4 DEF Until
    <3>2. Top(nodes[r]).start = b
      BY <1>1, <2>2, <2>4 DEF Top
    <3>3. CASE d = Ms(now - b)
      <4>1. Fits(a, e - Ms(now - b), now)
        BY <1>0, <2>2, <2>3, FitsCharged
      <4> QED
        BY <2>3, <3>1, <3>3, <4>1
    <3>4. CASE d = 0
      <4>1. Fits(a, e, now)
        BY <1>0, <2>2, <2>3, FitsLonger
      <4>2. e - d = e
        BY <2>2, <3>4
      <4> QED
        BY <2>3, <3>1, <4>1, <4>2
    <3> QED
      BY <3>2, <3>3, <3>4
  <2>5. CASE i # n - 1
    <3>1. i + 1 \in 1 .. n - 1 /\ i # Len(nodes'[r])
      BY <1>1, <1>2, <2>5
    <3>2. Until(r, i)' = b
      BY <1>2, <2>2, <3>1 DEF Until
    <3>3. nodes'[r][i].exclusive = e
      BY <1>2, <2>2, <2>5
    <3> QED
      BY <2>3, <3>2, <3>3
  <2> QED
    BY <2>4, <2>5
<1> QED
  BY <1>2, <1>3 DEF ChildrenFit

(* The counters of the tracker grow by no more than the time of the timer, *)
(* and only when it is a terminal one.                                     *)
LEMMA SpentFacts ==
    ASSUME IInv, NEW r \in Requests, nodes[r] # << >>, PopTimer(r),
           NEW d \in Nat, d = Ms(now - Top(nodes[r]).start)
    PROVE  /\ Total(spent'[r]) \in Nat
           /\ \/ spent'[r] = spent[r]
              \/ /\ Class(Top(nodes[r]).kind).terminal
                 /\ Total(spent'[r]) <= Total(spent[r]) + d
           /\ inner'[r] = inner[r] + Top(nodes[r]).exclusive + d
<1> DEFINE c == Class(Top(nodes[r]).kind).counter
<1>0. /\ spent \in [Requests -> [Counters -> Nat]] /\ inner \in [Requests -> Int]
      /\ Total(spent[r]) \in Nat /\ spent[r] \in [Counters -> Nat]
  BY TypesOf DEF IInv, TypeOK
<1>1. Top(nodes[r]).kind \in {"root", "response"} \cup AllKinds
  <2>1. Len(nodes[r]) \in 1 .. Len(nodes[r])
    BY TypesOf
  <2> QED
    BY <2>1, TypesOf DEF Top
<1>2. spent' = IF c \in Counters THEN [spent EXCEPT ![r][c] = d] ELSE spent
  BY DEF PopTimer
<1>3. inner'[r] = inner[r] + Top(nodes[r]).exclusive + d
  BY <1>0 DEF PopTimer
<1>4. CASE c \in Counters
  <2>1. Class(Top(nodes[r]).kind).terminal
    BY <1>1, <1>4, ClassFacts
  <2>2. spent'[r] = [spent[r] EXCEPT ![c] = d]
    BY <1>0, <1>2, <1>4
  <2>3. Total([spent[r] EXCEPT ![c] = d]) \in Nat
        /\ Total([spent[r] EXCEPT ![c] = d]) <= Total(spent[r]) + d
    BY <1>0, <1>4, TotalFacts
  <2> QED
    BY <1>3, <2>1, <2>2, <2>3
<1>5. CASE c \notin Counters
  BY <1>0, <1>2, <1>3, <1>5
<1> QED
  BY <1>4, <1>5

(* A timer of a request under way closes: any but the root.                *)
LEMMA TimedPopped ==
    ASSUME IInv, NEW r \in Requests, Timed(r), PopTimer(r), stage[r] = "open",
           Len(nodes[r]) >= 2, iterator[r] # "ended",
           iterator'[r] # "ended" => Len(nodes[r]) >= 3,
           UNCHANGED <<now, stage, begun, reports>>
    PROVE  Timed(r)'
<1>0. /\ now \in Nat /\ begun[r] \in Nat /\ begun[r] <= now /\ inner[r] \in Int
      /\ Len(nodes[r]) \in Nat /\ nodes[r] \in Seq(Timers) /\ Total(spent[r]) \in Nat
      /\ \A i \in 1 .. Len(nodes[r]) :
            /\ nodes[r][i].start \in Nat /\ nodes[r][i].exclusive \in Int
            /\ nodes[r][i].start <= now
  BY TypesOf
<1>1. PICK n \in Nat : n = Len(nodes[r]) /\ n >= 2
  BY <1>0
<1>2. nodes[r] # << >> /\ Top(nodes[r]) = nodes[r][n] /\ n \in 1 .. Len(nodes[r])
  BY <1>1 DEF Top
<1>3. PICK b \in Nat, e \in Int :
        b = Top(nodes[r]).start /\ e = Top(nodes[r]).exclusive /\ b <= now
  BY <1>0, <1>2
<1>4. PICK d \in Nat : d = Ms(now - b)
  <2>1. now - b \in Nat
    BY <1>0, <1>3
  <2> QED
    BY <2>1, MsFacts
<1>5. Popped(r, d) /\ ChildrenFit(r)'
  BY <1>2, <1>3, <1>4, PopTimerPops, PoppedFits
<1>6. /\ Len(nodes'[r]) = n - 1
      /\ \A i \in 1 .. n - 1 :
            /\ nodes'[r][i].kind = nodes[r][i].kind
            /\ nodes'[r][i].start = nodes[r][i].start
            /\ nodes'[r][i].exclusive = nodes[r][i].exclusive - (IF i = n - 1 THEN d ELSE 0)
  BY <1>1, <1>5 DEF Popped
<1>7. /\ Total(spent'[r]) \in Nat
      /\ \/ spent'[r] = spent[r]
         \/ /\ Class(Top(nodes[r]).kind).terminal
            /\ Total(spent'[r]) <= Total(spent[r]) + d
      /\ inner'[r] = inner[r] + e + d
  BY <1>2, <1>3, <1>4, SpentFacts
<1>8. Balanced(r)'
  <2>1. PICK f \in [0 .. n -> Int] : Sums(r, f)
    BY <1>1 DEF Timed, Balanced
  <2>2. PICK g \in [0 .. n - 1 -> Int] :
          g[n - 1] = f[n - 1] - d /\ \A i \in 0 .. n - 2 : g[i] = f[i]
    <3> DEFINE h == [k \in 0 .. n - 1 |-> IF k = n - 1 THEN f[k] - d ELSE f[k]]
    <3>1. h \in [0 .. n - 1 -> Int]
      BY <1>1, <1>4, <2>1
    <3>2. h[n - 1] = f[n - 1] - d /\ \A i \in 0 .. n - 2 : h[i] = f[i]
      BY <1>1
    <3> QED
      BY <3>1, <3>2
  <2>3. f[n] = f[n - 1] + e /\ f[n] + inner[r] = 0 /\ f[0] = 0
    BY <1>1, <1>2, <1>3, <2>1 DEF Sums
  <2>4. f[n - 1] \in Int /\ f[n] \in Int
    BY <1>1, <2>1
  <2>5. g[n - 1] + inner'[r] = 0
    <3>1. PICK x \in Int, y \in Int : x = f[n - 1] /\ y = inner[r]
      BY <1>0, <2>4
    <3>2. x + e + y = 0 /\ g[n - 1] = x - d /\ inner'[r] = y + e + d
      BY <1>7, <2>2, <2>3, <3>1
    <3>3. (x - d) + (y + e + d) = 0
      BY <1>4, <3>2
    <3> QED
      BY <3>2, <3>3
  <2>6. ASSUME NEW i \in 1 .. n - 1
        PROVE  g[i] = g[i - 1] + nodes'[r][i].exclusive
    <3>1. i - 1 \in 0 .. n - 2 /\ i \in 0 .. n /\ i - 1 \in 0 .. n /\ i \in 1 .. Len(nodes[r])
      BY <1>1
    <3>2. f[i] = f[i - 1] + nodes[r][i].exclusive /\ f[i] \in Int /\ f[i - 1] \in Int
      BY <2>1, <3>1 DEF Sums
    <3>3. g[i - 1] = f[i - 1]
      BY <2>2, <3>1
    <3>4. nodes[r][i].exclusive \in Int
      BY <1>0, <3>1
    <3>5. CASE i = n - 1
      <4>1. PICK x \in Int, y \in Int : x = f[i - 1] /\ y = nodes[r][i].exclusive
        BY <3>2, <3>4
      <4>2. f[i] = x + y /\ g[i] = f[i] - d /\ nodes'[r][i].exclusive = y - d
        BY <1>6, <2>2, <3>2, <3>5, <4>1
      <4>3. (x + y) - d = x + (y - d)
        BY <1>4
      <4> QED
        BY <3>3, <4>1, <4>2, <4>3
    <3>6. CASE i # n - 1
      <4>1. i \in 0 .. n - 2
        BY <1>1, <3>6
      <4>2. g[i] = f[i]
        BY <2>2, <4>1
      <4>3. nodes'[r][i].exclusive = nodes[r][i].exclusive - 0
        BY <1>6, <3>6
      <4>4. nodes'[r][i].exclusive = nodes[r][i].exclusive
        BY <3>4, <4>3
      <4> QED
        BY <3>2, <3>3, <4>2, <4>4
    <3> QED
      BY <3>5, <3>6
  <2>7. g[0] = 0
    <3>1. 0 \in 0 .. n - 2
      BY <1>1
    <3> QED
      BY <2>2, <2>3, <3>1
  <2>8. Sums(r, g)'
    BY <1>6, <2>5, <2>6, <2>7 DEF Sums
  <2> QED
    BY <1>6, <2>8 DEF Balanced
<1>9. RootCharged(r)'
  <2>1. \A i \in 1 .. Len(nodes[r]) : begun[r] <= nodes[r][i].start
    BY DEF Timed, RootCharged
  <2>2. ASSUME NEW i \in 1 .. n - 1 PROVE begun[r] <= nodes'[r][i].start
    <3>1. i \in 1 .. Len(nodes[r])
      BY <1>1
    <3> QED
      BY <1>6, <2>1, <3>1
  <2>3. CASE iterator'[r] # "ended"
    <3>0. n >= 3
      BY <1>1, <2>3, Zenon
    <3>1. 1 \in 1 .. n - 1 /\ 1 # n - 1
      BY <3>0
    <3>2. nodes'[r][1].exclusive = nodes[r][1].exclusive - 0
      BY <1>6, <3>1
    <3>3. nodes[r][1].exclusive = 0
      BY DEF Timed, RootCharged
    <3> QED
      BY <1>6, <2>2, <3>2, <3>3 DEF RootCharged
  <2>4. CASE iterator'[r] = "ended"
    BY <1>6, <2>2, <2>4 DEF RootCharged
  <2> QED
    BY <2>3, <2>4
<1>10. SpentBefore(r)'
  <2>1. \A i \in 1 .. n - 1 : ~Class(nodes'[r][i].kind).terminal
    <3>1. \A i \in 1 .. n - 1 : ~Class(nodes[r][i].kind).terminal
      BY <1>1 DEF Timed, SpentBefore
    <3> QED
      BY <1>6, <3>1
  <2>2. ~Class(Top(nodes'[r]).kind).terminal
    <3>1. n - 1 \in 1 .. n - 1
      BY <1>1
    <3> QED
      BY <1>6, <2>1, <3>1 DEF Top
  <2>3. \A i \in 1 .. Len(nodes'[r]) - 1 : i \in 1 .. n - 1
    BY <1>1, <1>6
  <2>4. PICK z \in Nat : z = begun[r] /\ z <= b
    BY <1>0, <1>2, <1>3 DEF Timed, RootCharged
  <2>5. /\ now - b \in Nat /\ b - z \in Nat /\ (b - z) + (now - b) = now - z
    BY <1>0, <1>3, <2>4
  <2>6. /\ Ms(b - z) \in Nat /\ Ms(now - b) \in Nat /\ Ms((b - z) + (now - b)) \in Nat
        /\ Ms(b - z) + Ms(now - b) <= Ms((b - z) + (now - b))
    BY <2>5, MsOrder
  <2>7. /\ Total(spent[r]) <= Ms(now - z)
        /\ Class(Top(nodes[r]).kind).terminal => Total(spent[r]) <= Ms(b - z)
    BY <1>3, <2>4 DEF Timed, SpentBefore
  <2>8. Total(spent'[r]) <= Ms(now - z)
    <3>1. CASE spent'[r] = spent[r]
      BY <2>7, <3>1
    <3>2. CASE /\ Class(Top(nodes[r]).kind).terminal
               /\ Total(spent'[r]) <= Total(spent[r]) + d
      <4>1. PICK t \in Nat, u \in Nat : t = Total(spent[r]) /\ u = Total(spent'[r])
        BY <1>0, <1>7
      <4>2. t <= Ms(b - z) /\ u <= t + d /\ Ms((b - z) + (now - b)) = Ms(now - z)
        BY <2>5, <2>7, <3>2, <4>1
      <4>3. u <= Ms((b - z) + (now - b))
        BY <1>4, <2>6, <4>1, <4>2
      <4> QED
        BY <4>1, <4>2, <4>3
    <3> QED
      BY <1>7, <3>1, <3>2
  <2>9. now' = now /\ begun'[r] = z /\ stage'[r] = "open"
    BY <2>4
  <2> QED
    BY <2>1, <2>2, <2>3, <2>8, <2>9 DEF SpentBefore
<1>11. ReportsTrue(r)'
  <2>1. reports[r] = << >>
    BY DEF IInv, ReportedOnce
  <2> QED
    BY <2>1 DEF ReportsTrue
<1> QED
  BY <1>5, <1>8, <1>9, <1>10, <1>11 DEF Timed

(* The top is taken off, and nobody is charged.                            *)
LEMMA PlainPop ==
    ASSUME IInv, NEW r \in Requests, nodes[r] # << >>, nodes'[r] = Pop(nodes[r])
    PROVE  Popped(r, 0)
<1>0. nodes[r] \in Seq(Timers)
  BY TypesOf
<1>1. /\ Len(nodes[r]) \in Nat /\ Len(nodes[r]) >= 1
      /\ Pop(nodes[r]) \in Seq(Timers) /\ Len(Pop(nodes[r])) = Len(nodes[r]) - 1
      /\ \A i \in 1 .. Len(nodes[r]) - 1 : Pop(nodes[r])[i] = nodes[r][i]
  BY <1>0, PopFacts, Zenon
<1>2. ASSUME NEW i \in 1 .. Len(nodes[r]) - 1
      PROVE  nodes[r][i].exclusive
               = nodes[r][i].exclusive - (IF i = Len(nodes[r]) - 1 THEN 0 ELSE 0)
  <2>1. i \in 1 .. Len(nodes[r])
    BY <1>1
  <2>2. nodes[r][i].exclusive \in Int
    BY <2>1, TypesOf
  <2> QED
    BY <2>2
<1> QED
  BY <1>1, <1>2 DEF Popped

(* What a pop of either kind leaves behind of a request that is over.      *)
LEMMA TimedOver ==
    ASSUME IInv, NEW r \in Requests, Timed(r), nodes[r] # << >>, now' = now,
           NEW d \in Nat, d \in {0, Ms(now - Top(nodes[r]).start)}, Popped(r, d),
           stage'[r] \in {"closed", "gone"}, ReportsTrue(r)'
    PROVE  Timed(r)'
<1>0. Len(nodes[r]) \in Nat
  BY TypesOf
<1>1. PICK n \in Nat : n = Len(nodes[r])
  BY <1>0
<1>2. /\ Len(nodes'[r]) = n - 1
      /\ \A i \in 1 .. n - 1 : nodes'[r][i].kind = nodes[r][i].kind
  BY <1>1 DEF Popped
<1>3. \A i \in 1 .. n - 1 : ~Class(nodes[r][i].kind).terminal
  BY <1>1 DEF Timed, SpentBefore
<1>4. ChildrenFit(r)'
  BY PoppedFits
<1>5. \A i \in 1 .. Len(nodes'[r]) - 1 : i \in 1 .. n - 1
  BY <1>1, <1>2
<1>6. Balanced(r)' /\ RootCharged(r)' /\ SpentBefore(r)'
  BY <1>2, <1>3, <1>5 DEF Balanced, RootCharged, SpentBefore
<1> QED
  BY <1>4, <1>6 DEF Timed

(* A generator that is released only after its request was closed.         *)
LEMMA TimedReleased ==
    ASSUME IInv, NEW r \in Requests, Timed(r), Release(r), stage[r] = "closed"
    PROVE  Timed(r)'
<1>0. /\ now' = now /\ stage'[r] = "closed" /\ reports' = reports /\ begun' = begun
      /\ nodes \in [Requests -> Seq(Timers)]
      /\ spent \in [Requests -> [Counters -> Nat]] /\ inner \in [Requests -> Int]
  BY DEF Release, cacheVars, IInv, TypeOK
<1>1. CASE AtResponse(r)
  <2>1. PopTimer(r) /\ nodes[r] # << >> /\ Top(nodes[r]).kind = "response"
    BY <1>1 DEF Release, AtResponse
  <2>2. Len(nodes[r]) \in 1 .. Len(nodes[r]) /\ now \in Nat
    BY <2>1, TypesOf
  <2>3. reports[r] = << >>
    BY <2>1, <2>2 DEF Timed, ReportsTrue, Top
  <2>4. PICK d \in Nat : d = Ms(now - Top(nodes[r]).start)
    <3>1. Top(nodes[r]).start \in Nat /\ Top(nodes[r]).start <= now
      BY <2>2, TypesOf DEF Top
    <3>2. now - Top(nodes[r]).start \in Nat
      BY <2>2, <3>1
    <3> QED
      BY <3>2, MsFacts
  <2>5. Popped(r, d)
    BY <2>1, <2>4, PopTimerPops
  <2>6. ReportsTrue(r)'
    BY <1>0, <2>3 DEF ReportsTrue
  <2> QED
    BY <1>0, <2>1, <2>4, <2>5, <2>6, TimedOver
<1>2. CASE ~AtResponse(r) /\ nodes[r] = << >>
  <2>1. /\ nodes' = [nodes EXCEPT ![r] = IF @ = << >> THEN @ ELSE Pop(@)]
        /\ spent' = spent /\ inner' = inner
    BY <1>2 DEF Release
  <2>2. nodes'[r] = nodes[r]
    BY <1>0, <1>2, <2>1
  <2> QED
    BY <1>0, <2>1, <2>2, TimedLeft
<1>3. CASE ~AtResponse(r) /\ nodes[r] # << >>
  <2>1. /\ nodes' = [nodes EXCEPT ![r] = IF @ = << >> THEN @ ELSE Pop(@)]
        /\ spent' = spent /\ inner' = inner
    BY <1>3 DEF Release
  <2>2. nodes'[r] = Pop(nodes[r])
    BY <1>0, <1>3, <2>1
  <2>3. Popped(r, 0)
    BY <1>3, <2>2, PlainPop
  <2>4. ReportsTrue(r)'
    <3>1. Len(nodes[r]) \in Nat
      BY TypesOf
    <3>2. \A i \in 1 .. Len(nodes'[r]) : i \in 1 .. Len(nodes[r])
                                         /\ nodes'[r][i].kind = nodes[r][i].kind
      BY <2>3, <3>1 DEF Popped
    <3> QED
      BY <1>0, <2>1, <3>2 DEF Timed, ReportsTrue
  <2> QED
    BY <1>0, <1>3, <2>3, <2>4, TimedOver
<1> QED
  BY <1>1, <1>2, <1>3

(* The node that is reported: what it calls its own, with the times of the *)
(* timers that closed, is its duration, also where it is not the root.     *)
LEMMA NodeTrue ==
    ASSUME IInv, NEW r \in Requests, Timed(r), stage[r] = "open", iterator[r] # "running",
           NEW failed \in {0, 1}
    PROVE  /\ Node(r, failed).exclusive >= 0
           /\ Node(r, failed).exclusive + inner[r] = Node(r, failed).duration
           /\ Total(spent[r]) <= Node(r, failed).duration
           /\ Len(nodes[r]) \in {1, 2} /\ nodes[r][1].kind = "root"
<1>0. /\ now \in Nat /\ begun[r] \in Nat /\ begun[r] <= now /\ inner[r] \in Int
      /\ \A i \in 1 .. Len(nodes[r]) :
            /\ nodes[r][i].start \in Nat /\ nodes[r][i].exclusive \in Int
            /\ nodes[r][i].start <= now
  BY TypesOf
<1>1. /\ nodes[r][1].kind = "root"
      /\ \/ Len(nodes[r]) = 1
         \/ Len(nodes[r]) = 2 /\ iterator[r] = "suspended"
  BY DEF IInv, TypeOK, TimersNest, Nested
<1>2. PICK n \in {1, 2} : n = Len(nodes[r])
  BY <1>1
<1>3. PICK z \in Nat, s \in Nat, e \in Int, y \in Int :
        /\ z = begun[r] /\ s = Top(nodes[r]).start /\ e = Top(nodes[r]).exclusive
        /\ y = inner[r] /\ z <= s /\ s <= now
  <2>1. n \in 1 .. Len(nodes[r]) /\ Top(nodes[r]) = nodes[r][n]
    BY <1>2 DEF Top
  <2> QED
    BY <1>0, <2>1 DEF Timed, RootCharged
<1>4. e + y = 0
  <2>1. PICK f \in [0 .. n -> Int] : Sums(r, f)
    BY <1>2 DEF Timed, Balanced
  <2>2. f[n] + y = 0 /\ f[0] = 0 /\ \A i \in 1 .. n : f[i] = f[i - 1] + nodes[r][i].exclusive
    BY <1>2, <1>3, <2>1 DEF Sums
  <2>3. CASE n = 1
    <3>1. f[1] = f[0] + nodes[r][1].exclusive /\ e = nodes[r][1].exclusive
      BY <1>2, <1>3, <2>2, <2>3 DEF Top
    <3> QED
      BY <1>3, <2>2, <2>3, <3>1
  <2>4. CASE n = 2
    <3>1. /\ f[1] = f[0] + nodes[r][1].exclusive /\ f[2] = f[1] + nodes[r][2].exclusive
          /\ e = nodes[r][2].exclusive
      BY <1>2, <1>3, <2>2, <2>4 DEF Top
    <3>2. nodes[r][1].exclusive = 0
      BY <1>1, <1>2, <2>4 DEF Timed, RootCharged
    <3> QED
      BY <1>3, <2>2, <2>4, <3>1, <3>2
  <2> QED
    BY <2>3, <2>4
<1>5. /\ now - s \in Nat /\ now - z \in Nat /\ now - s <= now - z
  BY <1>0, <1>3
<1>6. Ms(now - s) \in Nat /\ Ms(now - z) \in Nat /\ Ms(now - s) <= Ms(now - z)
  BY <1>5, MsGrows
<1>7. e + Ms(now - s) >= 0
  <2>1. n \in 1 .. Len(nodes[r]) /\ Until(r, n) = now
    <3>1. n \in 1 .. n
      OBVIOUS
    <3> QED
      BY <1>2, <3>1, Zenon DEF Until
  <2>2. Fits(nodes[r][n].start, nodes[r][n].exclusive, Until(r, n))
    BY <2>1 DEF Timed, ChildrenFit
  <2>3. Fits(s, e, now)
    BY <1>2, <1>3, <2>1, <2>2 DEF Top
  <2> QED
    BY <2>3 DEF Fits
<1>8. Node(r, failed).duration = Ms(now - z) /\ Node(r, failed).exclusive = Ms(now - z) + e
  BY <1>3 DEF Node
<1>9. PICK k \in Nat, m \in Nat : k = Ms(now - z) /\ m = Ms(now - s)
  BY <1>6
<1>10. k + e >= 0 /\ k + e + y = k
  BY <1>3, <1>4, <1>6, <1>7, <1>9
<1>11. Total(spent[r]) <= Ms(now - z)
  BY <1>3 DEF Timed, SpentBefore
<1> QED
  BY <1>1, <1>2, <1>3, <1>8, <1>9, <1>10, <1>11

LEMMA TimedFinished ==
    ASSUME IInv, NEW r \in Requests, NEW captured \in BOOLEAN, NEW failed \in {0, 1}, Timed(r),
           FinishWork(r, captured, failed), Leaves(r), iterator[r] # "running",
           UNCHANGED <<now, on, iterator, begun, spent, inner, misnested>>
    PROVE  Timed(r)'
<1>0. /\ nodes \in [Requests -> Seq(Timers)] /\ reports \in [Requests -> Seq(Nodes)]
      /\ stage'[r] \in {"closed", "gone"} /\ stage[r] = "open"
  BY CurrentIsOpen DEF IInv, TypeOK, Leaves, FinishWork, DropTracker
<1>1. CASE ~captured
  BY <1>0, <1>1, TimedLeft DEF FinishWork
<1>2. CASE captured
  <2>1. /\ reports'[r] = Append(reports[r], Node(r, failed)) /\ nodes'[r] = Pop(nodes[r])
        /\ reports[r] = << >>
    BY <1>0, <1>2 DEF FinishWork, IInv, ReportedOnce
  <2>2. Len(nodes[r]) \in {1, 2} /\ nodes[r][1].kind = "root" /\ nodes[r] # << >>
    <3>1. Len(nodes[r]) \in {1, 2} /\ nodes[r][1].kind = "root"
      BY <1>0, NodeTrue
    <3> QED
      BY <3>1
  <2>3. Popped(r, 0)
    BY <2>1, <2>2, PlainPop
  <2>4. ReportsTrue(r)'
    <3>1. ASSUME NEW i \in 1 .. Len(nodes'[r]) PROVE nodes'[r][i].kind = "root"
      <4>0. Len(nodes'[r]) = Len(nodes[r]) - 1
        BY <2>3 DEF Popped
      <4>1. i \in 1 .. Len(nodes[r]) - 1 /\ i = 1
        <5>1. PICK n \in {0, 1} : n = Len(nodes'[r])
          BY <2>2, <4>0
        <5>2. i \in 1 .. n
          BY <5>1, Zenon
        <5>3. i = 1
          BY <5>2
        <5> QED
          BY <4>0, <5>3
      <4> QED
        BY <2>2, <2>3, <4>1 DEF Popped
    <3>2. reports'[r] = << Node(r, failed) >>
      BY <2>1
    <3>3. ASSUME NEW i \in 1 .. Len(reports'[r]) PROVE reports'[r][i] = Node(r, failed)
      <4>1. Len(<< Node(r, failed) >>) = 1 /\ << Node(r, failed) >>[1] = Node(r, failed)
        OBVIOUS
      <4>2. i = 1
        BY <3>2, <4>1
      <4> QED
        BY <3>2, <4>1, <4>2
    <3>4. /\ Node(r, failed).exclusive >= 0
          /\ Node(r, failed).exclusive + inner[r] = Node(r, failed).duration
          /\ Total(spent[r]) <= Node(r, failed).duration
      BY <1>0, NodeTrue
    <3>5. inner'[r] = inner[r] /\ spent'[r] = spent[r]
      OBVIOUS
    <3> QED
      BY <3>1, <3>3, <3>4, <3>5 DEF ReportsTrue
  <2> QED
    BY <1>0, <2>2, <2>3, <2>4, TimedOver
<1> QED
  BY <1>1, <1>2

(* Who does not take part in a step is left as it was.                     *)
Apart(r) == \A q \in Requests : q # r => SameOf(q)

LEMMA StepsApart ==
    ASSUME IInv, NEW r \in Requests, Entrance(r) \/ Application(r) \/ Server(r)
    PROVE  now' = now /\ Apart(r)
<1>0. /\ stage \in [Requests -> Stages] /\ begun \in [Requests -> Nat]
      /\ iterator \in [Requests -> {"new", "running", "suspended", "ended"}]
      /\ nodes \in [Requests -> Seq(Timers)] /\ reports \in [Requests -> Seq(Nodes)]
      /\ spent \in [Requests -> [Counters -> Nat]] /\ inner \in [Requests -> Int]
  BY DEF IInv, TypeOK, Stages
<1> USE <1>0 DEF Apart, SameOf, cacheVars, timerVars, reportVars
<1>1. ASSUME NEW captured, NEW failed, FinishWork(r, captured, failed)
      PROVE  \A q \in Requests : q # r => nodes'[q] = nodes[q] /\ reports'[q] = reports[q]
  BY <1>1 DEF FinishWork
<1>2. CASE LetPass(r) \/ \E t \in Threads : StartWork(r, t)
  BY <1>2 DEF LetPass, StartWork
<1>3. ASSUME NEW captured, NEW failed, EntranceFails(r, captured, failed)
      PROVE  now' = now /\ Apart(r)
  BY <1>1, <1>3 DEF EntranceFails
<1>4. ASSUME NEW captured, NEW failed, Close(r, captured, failed)
      PROVE  now' = now /\ Apart(r)
  BY <1>1, <1>4 DEF Close
<1>5. CASE StartReading(r) \/ Resume(r) \/ Yield(r) \/ \E kind \in Kinds : EnterTimer(r, kind)
  BY <1>5 DEF StartReading, Resume, Yield, EnterTimer, Move, Push
<1>6. ASSUME PopTimer(r)
      PROVE  \A q \in Requests : q # r => /\ nodes'[q] = nodes[q] /\ spent'[q] = spent[q]
                                           /\ inner'[q] = inner[q]
  BY <1>6 DEF PopTimer
<1>7. CASE ExitTimer(r) \/ Exhaust(r) \/ Raise(r)
  BY <1>6, <1>7 DEF ExitTimer, Exhaust, Raise, Move
<1>8. CASE Release(r)
  BY <1>6, <1>8 DEF Release, Move
<1>9. CASE Forget(r)
  BY <1>9 DEF Forget
<1> QED
  BY <1>2, <1>3, <1>4, <1>5, <1>7, <1>8, <1>9 DEF Entrance, Application, Server

LEMMA StepsTimed ==
    ASSUME IInv, NEW r \in Requests, Timed(r), Entrance(r) \/ Application(r) \/ Server(r)
    PROVE  Timed(r)'
<1>0. /\ stage \in [Requests -> Stages]
      /\ iterator \in [Requests -> {"new", "running", "suspended", "ended"}]
      /\ Len(nodes[r]) \in Nat /\ "response" \notin Kinds
  BY TypesOf, KindsAssumption DEF IInv, TypeOK, Stages, AllKinds
<1>1. CASE LetPass(r) \/ Forget(r)
  BY <1>0, <1>1, TimedLeft DEF LetPass, Forget, timerVars, reportVars
<1>2. CASE \E t \in Threads : StartWork(r, t)
  BY <1>2, TimedStarts
<1>3. ASSUME NEW captured \in BOOLEAN, NEW failed \in {0, 1}, EntranceFails(r, captured, failed)
      PROVE  Timed(r)'
  <2>1. /\ FinishWork(r, captured, failed) /\ Leaves(r) /\ iterator[r] # "running"
        /\ UNCHANGED <<now, on, iterator, begun, spent, inner, misnested>>
    BY <1>3 DEF EntranceFails, Leaves
  <2> QED
    BY <2>1, TimedFinished
<1>4. ASSUME NEW captured \in BOOLEAN, NEW failed \in {0, 1}, Close(r, captured, failed)
      PROVE  Timed(r)'
  <2>1. /\ FinishWork(r, captured, failed) /\ Leaves(r) /\ iterator[r] # "running"
        /\ UNCHANGED <<now, on, iterator, begun, spent, inner, misnested>>
    BY <1>4 DEF Close, Leaves
  <2> QED
    BY <2>1, TimedFinished
<1>5. CASE Resume(r) \/ Yield(r)
  <2>1. iterator[r] # "ended"
    BY <1>5 DEF Resume, Yield, Move
  <2> QED
    BY <1>5, <2>1, TimedMoved DEF Resume, Yield, cacheVars, timerVars, reportVars
<1>6. CASE StartReading(r)
  <2>1. /\ MayPush(r) /\ Push(r, "response") /\ stage[r] = "open" /\ iterator[r] # "ended"
        /\ UNCHANGED <<now, stage, begun, spent, inner, reports>>
    BY <1>6 DEF StartReading, Move, cacheVars, reportVars
  <2> QED
    BY <2>1, TimedPushed
<1>7. ASSUME NEW kind \in Kinds, EnterTimer(r, kind) PROVE Timed(r)'
  <2>1. /\ MayPush(r) /\ Push(r, kind) /\ stage[r] = "open" /\ iterator[r] # "ended"
        /\ UNCHANGED <<now, stage, begun, spent, inner, reports>>
    BY <1>7 DEF EnterTimer, cacheVars, reportVars, IInv, TimersNest, Nested
  <2> QED
    BY <2>1, KindsAssumption, TimedPushed
<1>8. CASE ExitTimer(r) \/ Exhaust(r) \/ Raise(r)
  <2>1. /\ PopTimer(r) /\ iterator[r] = "running"
        /\ iterator'[r] # "ended" => Top(nodes[r]).kind \in Kinds
        /\ UNCHANGED <<now, stage, begun, reports>>
    BY <1>0, <1>8 DEF ExitTimer, Exhaust, Raise, Move, cacheVars, reportVars
  <2>2. stage[r] = "open" /\ Len(nodes[r]) >= 2 /\ nodes[r][2].kind = "response"
    BY <2>1 DEF IInv, TimersNest, Nested
  <2>3. iterator'[r] # "ended" => Len(nodes[r]) # 2
    BY <1>0, <2>1, <2>2 DEF Top
  <2>4. iterator'[r] # "ended" => Len(nodes[r]) >= 3
    <3>1. PICK n \in Nat : n = Len(nodes[r]) /\ n >= 2
      BY <1>0, <2>2
    <3>2. n >= 2
      BY <3>1, Zenon
    <3>3. n # 2 => n >= 3
      BY <3>2
    <3> QED
      BY <2>3, <3>1, <3>3, Zenon
  <2> QED
    BY <2>1, <2>2, <2>4, TimedPopped
<1>9. CASE Release(r)
  <2>1. CASE stage[r] = "closed"
    BY <1>9, <2>1, TimedReleased
  <2>2. CASE stage[r] = "open"
    <3>1. /\ iterator[r] = "suspended" /\ iterator'[r] = "ended"
          /\ UNCHANGED <<now, stage, begun, reports>>
      BY <1>0, <1>9 DEF Release, Move, cacheVars
    <3>2. Len(nodes[r]) = 2 /\ nodes[r][2].kind = "response" /\ nodes[r] # << >>
      BY <2>2, <3>1 DEF IInv, TimersNest, Nested
    <3>3. AtResponse(r)
      BY <3>2 DEF AtResponse, Top
    <3>4. PopTimer(r) /\ Len(nodes[r]) >= 2
      BY <1>9, <3>2, <3>3 DEF Release
    <3> QED
      BY <2>2, <3>1, <3>4, TimedPopped
  <2> QED
    BY <1>9, <2>1, <2>2 DEF Release
<1> QED
  BY <1>1, <1>2, <1>3, <1>4, <1>5, <1>6, <1>7, <1>8, <1>9 DEF Entrance, Application, Server

LEMMA TimesKept == IInv /\ TimesInv /\ [Next]_vars => TimesInv'
<1> SUFFICES ASSUME IInv, TimesInv, [Next]_vars PROVE TimesInv'
  OBVIOUS
<1>1. CASE Tick
  <2>1. \A r \in Requests : SameOf(r)
    BY <1>1 DEF Tick, SameOf, cacheVars, timerVars, reportVars
  <2>2. PICK later \in Nat : now' = later /\ now <= later
    BY <1>1 DEF Tick, IInv, TypeOK
  <2> QED
    BY <2>1, <2>2, TimedLater DEF TimesInv
<1>2. CASE Idle \/ UNCHANGED vars
  <2>1. now' = now /\ \A r \in Requests : SameOf(r)
    BY <1>2 DEF Idle, SameOf, vars, cacheVars, timerVars, reportVars
  <2> QED
    BY <2>1, TimedSame DEF TimesInv
<1>3. ASSUME NEW r \in Requests, Entrance(r) \/ Application(r) \/ Server(r)
      PROVE  TimesInv'
  <2>1. Timed(r)
    BY DEF TimesInv
  <2>2. Timed(r)' /\ now' = now /\ Apart(r)
    BY <1>3, <2>1, StepsTimed, StepsApart
  <2> QED
    BY <2>2, TimedApart DEF Apart
<1> QED
  BY <1>1, <1>2, <1>3 DEF Next

LEMMA TimesBegin == Init => TimesInv
<1> SUFFICES ASSUME Init, NEW r \in Requests PROVE Timed(r)
  BY DEF TimesInv
<1>1. /\ stage[r] = "idle" /\ nodes[r] = << >> /\ inner[r] = 0 /\ reports[r] = << >>
      /\ spent[r] = [c \in Counters |-> 0]
  BY DEF Init
<1>2. Total(spent[r]) = 0
  BY <1>1 DEF Total, Counters
<1> QED
  BY <1>1, <1>2 DEF Timed, ChildrenFit, Balanced, RootCharged, SpentBefore, ReportsTrue

LEMMA TimesHold == Spec => []TimesInv
BY TimesBegin, TimesKept, Invariance, PTL DEF Spec

(* Whatever timers an application opens and however its responses end, no  *)
(* millisecond of a request is counted twice or lost: what its timers call *)
(* their own adds up to its duration, and none is charged for more than    *)
(* its own time (Timer.process_child, and Tracker.__exit__ for the root).  *)
THEOREM TimesAreWhole == Spec => []TimesAddUp
<1>1. IInv /\ TimesInv => TimesAddUp
  <2> SUFFICES ASSUME IInv, TimesInv, NEW r \in Requests
               PROVE  /\ \A i \in 1 .. Len(reports[r]) :
                           /\ reports[r][i].exclusive >= 0
                           /\ reports[r][i].exclusive + inner[r] = reports[r][i].duration
                      /\ \A i \in 1 .. Len(nodes[r]) :
                           nodes[r][i].exclusive + Ms(now - nodes[r][i].start) >= 0
    BY DEF TimesAddUp
  <2>1. Timed(r)
    BY DEF TimesInv
  <2>2. ASSUME NEW i \in 1 .. Len(nodes[r])
        PROVE  nodes[r][i].exclusive + Ms(now - nodes[r][i].start) >= 0
    <3>1. Fits(nodes[r][i].start, nodes[r][i].exclusive, Until(r, i))
      BY <2>1 DEF Timed, ChildrenFit
    <3>2. /\ Until(r, i) \in Nat /\ Until(r, i) <= now /\ now \in Nat
          /\ nodes[r][i].start \in Nat /\ nodes[r][i].exclusive \in Int
      <4>1. Len(nodes[r]) \in Nat
        BY TypesOf
      <4>2. i # Len(nodes[r]) => i + 1 \in 1 .. Len(nodes[r])
        BY <4>1
      <4>3. now \in Nat /\ \A j \in 1 .. Len(nodes[r]) :
                               /\ nodes[r][j].start \in Nat /\ nodes[r][j].exclusive \in Int
                               /\ nodes[r][j].start <= now
        BY TypesOf
      <4> QED
        BY <4>2, <4>3 DEF Until
    <3>3. Fits(nodes[r][i].start, nodes[r][i].exclusive, now)
      BY <3>1, <3>2, FitsLonger
    <3> QED
      BY <3>3 DEF Fits
  <2> QED
    BY <2>1, <2>2 DEF Timed, ReportsTrue
<1> QED
  BY <1>1, Invariance, TimesHold, PTL

(* The databases, services and caches never take more of a request than it *)
(* lasted (Tracker.finalize_tracker_data), for their timers are terminal:  *)
(* no other opens within one, so that no two of them overlap.              *)
THEOREM CodeTimeLeft == Spec => []CodeTimeNotNegative
<1>1. TimesInv => CodeTimeNotNegative
  BY DEF TimesInv, Timed, ReportsTrue, CodeTimeNotNegative
<1> QED
  BY <1>1, TimesHold, PTL

-----------------------------------------------------------------------------
(* What a request comes to.                                                *)

LEMMA LifeSame ==
    ASSUME NEW r \in Requests, stage'[r] = stage[r], reports'[r] = reports[r]
    PROVE  life'[r] = life[r]
<1>1. LifeOf(r)' = LifeOf(r)
  BY DEF LifeOf
<1>2. life[r] = LifeOf(r) /\ life'[r] = LifeOf(r)'
  BY DEF life
<1> QED
  BY <1>1, <1>2

LEMMA LifeMoves ==
    ASSUME NEW r \in Requests,
           \A q \in Requests : q # r => life'[q] = life[q],
           \/ life'[r] = life[r]
           \/ life[r] = "idle" /\ life'[r] \in {"open", "dropped"}
           \/ life[r] = "open" /\ life'[r] \in {"reported", "dropped"}
    PROVE  [Report!LifeNext]_life
<1>1. life = [q \in Requests |-> life[q]] /\ life' = [q \in Requests |-> life'[q]]
  BY DEF life
<1>2. CASE life'[r] = life[r]
  BY <1>1, <1>2
<1>3. CASE life'[r] # life[r]
  <2>1. life' = [life EXCEPT ![r] = life'[r]]
    BY <1>1
  <2> QED
    BY <1>3, <2>1 DEF Report!LifeNext, Report!Open, Report!Report, Report!Drop, Report!Move
<1> QED
  BY <1>2, <1>3

(* The end of an open request: its first report, or none.                  *)
LEMMA LifeFinishes ==
    ASSUME IInv, NEW r \in Requests, NEW captured \in BOOLEAN, NEW failed \in {0, 1},
           FinishWork(r, captured, failed), Leaves(r)
    PROVE  life[r] = "open" /\ life'[r] \in {"reported", "dropped"}
<1>0. /\ reports \in [Requests -> Seq(Nodes)] /\ stage'[r] \in {"closed", "gone"}
      /\ stage[r] = "open" /\ reports[r] = << >>
  BY CurrentIsOpen DEF IInv, TypeOK, ReportedOnce, Leaves, FinishWork, DropTracker
<1>1. life[r] = "open"
  BY <1>0 DEF life, LifeOf
<1>2. CASE captured
  <2>1. reports'[r] = << Node(r, failed) >>
    BY <1>0, <1>2 DEF FinishWork
  <2>2. reports'[r] # << >> /\ Len(reports'[r]) = 1
    BY <2>1
  <2> QED
    BY <1>0, <1>1, <2>2 DEF life, LifeOf
<1>3. CASE ~captured
  BY <1>0, <1>1, <1>3 DEF FinishWork, life, LifeOf
<1> QED
  BY <1>2, <1>3

LEMMA LifeStep == IInv /\ [Next]_vars => [Report!LifeNext]_life
<1> SUFFICES ASSUME IInv, [Next]_vars PROVE [Report!LifeNext]_life
  OBVIOUS
<1>0. stage \in [Requests -> Stages]
  BY DEF IInv, TypeOK, Stages
<1>1. CASE Tick \/ Idle \/ UNCHANGED vars
  <2>1. stage' = stage /\ reports' = reports
    BY <1>1 DEF Tick, Idle, vars, cacheVars, reportVars
  <2> QED
    BY <2>1 DEF life, LifeOf
<1>2. ASSUME NEW r \in Requests, Entrance(r) \/ Application(r) \/ Server(r)
      PROVE  [Report!LifeNext]_life
  <2>1. \A q \in Requests : q # r => life'[q] = life[q]
    BY <1>2, StepsApart, LifeSame DEF Apart, SameOf
  <2>2. CASE LetPass(r)
    <3>1. life[r] = "idle" /\ life'[r] = "dropped"
      BY <1>0, <2>2 DEF LetPass, life, LifeOf
    <3> QED
      BY <2>1, <3>1, LifeMoves
  <2>3. CASE \E t \in Threads : StartWork(r, t)
    <3>1. life[r] = "idle" /\ life'[r] = "open"
      BY <1>0, <2>3 DEF StartWork, life, LifeOf
    <3> QED
      BY <2>1, <3>1, LifeMoves
  <2>4. ASSUME NEW captured \in BOOLEAN, NEW failed \in {0, 1}, EntranceFails(r, captured, failed)
        PROVE  [Report!LifeNext]_life
    <3>1. FinishWork(r, captured, failed) /\ Leaves(r)
      BY <2>4 DEF EntranceFails, Leaves
    <3> QED
      BY <2>1, <3>1, LifeFinishes, LifeMoves
  <2>5. ASSUME NEW captured \in BOOLEAN, NEW failed \in {0, 1}, Close(r, captured, failed)
        PROVE  [Report!LifeNext]_life
    <3>1. FinishWork(r, captured, failed) /\ Leaves(r)
      BY <2>5 DEF Close, Leaves
    <3> QED
      BY <2>1, <3>1, LifeFinishes, LifeMoves
  <2>6. CASE Forget(r)
    <3>1. /\ stage[r] \in {"open", "closed"} /\ stage'[r] = "gone"
          /\ reports'[r] = reports[r]
          /\ stage[r] = "open" => reports[r] = << >>
      BY <1>0, <2>6 DEF Forget, reportVars, IInv, ReportedOnce
    <3>2. \/ life'[r] = life[r]
          \/ life[r] = "open" /\ life'[r] = "dropped"
      <4>1. CASE stage[r] = "open"
        BY <3>1, <4>1 DEF life, LifeOf
      <4>2. CASE stage[r] = "closed"
        <5>1. LifeOf(r)' = LifeOf(r)
          BY <3>1, <4>2 DEF LifeOf
        <5>2. life[r] = LifeOf(r) /\ life'[r] = LifeOf(r)'
          BY DEF life
        <5> QED
          BY <5>1, <5>2
      <4> QED
        BY <3>1, <4>1, <4>2
    <3> QED
      BY <2>1, <3>2, LifeMoves
  <2>7. CASE Application(r) \/ StartReading(r) \/ Resume(r) \/ Release(r)
    <3>1. stage' = stage /\ reports' = reports
      BY <2>7 DEF Application, EnterTimer, ExitTimer, Yield, Exhaust, Raise, StartReading,
                  Resume, Release, cacheVars, reportVars
    <3> QED
      BY <2>1, <3>1, LifeSame, LifeMoves
  <2> QED
    BY <1>2, <2>2, <2>3, <2>4, <2>5, <2>6, <2>7 DEF Entrance, Server
<1> QED
  BY <1>1, <1>2 DEF Next

(* Whichever way a server ends its responses (read, failed, never read,    *)
(* closed twice, forgotten): the request is let pass, or taken up and then *)
(* reported once or dropped, and that is its end.                          *)
THEOREM Refinement == Spec => ImplementsRequestReport
<1>1. Init => Report!LifeInit
  BY DEF Init, life, LifeOf, Report!LifeInit
<1> QED
  BY <1>1, Invariance, LifeStep, PTL DEF Spec, ImplementsRequestReport, Report!LifeSpec
=============================================================================

------------------------------ MODULE HttpProofs ------------------------------
(***************************************************************************)
(* Proofs about the two places where the agent meets HTTP.                 *)
(*                                                                         *)
(* Transport, for any limit of retries and number of changes: a session is *)
(* there when it is needed, and nothing is taken for received that was     *)
(* not.                                                                    *)
(*                                                                         *)
(* BrowserRum, for responses of any number of blocks and any number of     *)
(* restarts. The length of a response and what it shows are defined by     *)
(* recursion over its blocks; of those the proofs need what one more block *)
(* makes of them (TotalOfMore, SentOfMore), by induction over the number   *)
(* of blocks.                                                              *)
(***************************************************************************)
EXTENDS Transport, BrowserRum, FiniteSetTheorems, SequenceTheorems, TLAPS

-----------------------------------------------------------------------------
(* Transport.                                                              *)

(* The parts are no phases of connecting.                                  *)
LEMMA PartsOf ==
    /\ Parts = {"metrics", "errors", "externals", "actions", "sql", "commands", "profile"}
    /\ \A p \in Parts : Following[p] \in (Parts \ {"metrics"}) \cup {"idle"}
BY DEF Parts, Following

LEMMA NoSessionIsNone == NoSession \notin Sessions
<1> SUFFICES ASSUME NoSession \in Sessions PROVE FALSE
  OBVIOUS
<1>1. DOMAIN NoSession = {"granted", "known", "current", "here", "enabled"}
  BY DEF Sessions
<1>2. DOMAIN NoSession = {"none"}
  BY DEF NoSession
<1> QED
  BY <1>1, <1>2

(* A step of the collector.                                                *)
LEMMA ChangeKeeps ==
    ASSUME IInv, Forgets \/ Reconfigures \/ Moves \/ Licenses
    PROVE  IInv'
<1>1. session' = session \/ (session \in Sessions /\ session' \in Sessions
          /\ session'.granted = session.granted /\ (session'.here => session.here))
  BY NoSessionIsNone DEF IInv, TypeOK, Forgets, Reconfigures, Moves, Licenses, Sessions
<1>2. redirect' = redirect \/ (redirect' = FALSE /\ (session' # NoSession => ~session'.here))
  BY NoSessionIsNone DEF IInv, TypeOK, Forgets, Reconfigures, Moves, Licenses, Sessions
<1>3. /\ UNCHANGED <<phase, retry, mistaken>>
      /\ changes' \in 0 .. MaxChanges /\ license' \in BOOLEAN
  <2>1. Change
    BY DEF Forgets, Reconfigures, Moves, Licenses
  <2>2. license' \in BOOLEAN
    BY DEF Forgets, Reconfigures, Moves, Licenses, IInv, TypeOK
  <2>3. changes' \in 0 .. MaxChanges
    BY <2>1, ChangesAssumption DEF Change, IInv, TypeOK
  <2> QED
    BY <2>1, <2>2, <2>3 DEF Change
<1> QED
  BY <1>1, <1>2, <1>3, NoSessionIsNone
     DEF IInv, TypeOK, SessionWhenNeeded, Honest, NothingMistaken

(* With the known codes only an answer to what was taken is a success.     *)
LEMMA OnlySuccess ==
    ASSUME NEW reply \in AllReplies, Verdict(reply) = "ok", ~NewCodes
    PROVE  reply = "success"
BY DEF AllReplies, Verdict, Troubles, Complaints

(* A success says that the collector took it.                              *)
LEMMA SuccessTaken ==
    ASSUME IInv, ~NewCodes, NEW reply \in Replies(session), reply = "success",
           session \in Sessions
    PROVE  Took(session, reply)
BY OldHostAssumption DEF Replies, AnswerTo, Says, Took, Troubles, Complaints

LEMMA ConnectKeeps ==
    ASSUME IInv, NEW reply \in AllReplies, GetRedirect(reply) \/ InitAgentApp(reply)
    PROVE  IInv'
<1>1. CASE GetRedirect(reply)
  <2>1. /\ phase' \in {"connect", "init"} /\ session = NoSession /\ session' = NoSession
        /\ redirect' \in BOOLEAN /\ retry' \in 0 .. MaxRetry
    BY <1>1, PartsOf, RetryAssumption
       DEF GetRedirect, IInv, TypeOK, SessionWhenNeeded
  <2> QED
    BY <1>1, <2>1 DEF GetRedirect, IInv, TypeOK, SessionWhenNeeded, Honest, NothingMistaken,
       connectFrame, collector
<1>2. CASE InitAgentApp(reply)
  <2>1. CASE Verdict(reply) = "ok"
    <3>1. PICK on \in BOOLEAN :
            session' = [granted |-> reply = "success", known |-> TRUE, current |-> TRUE,
                        here |-> redirect, enabled |-> on]
      BY <1>2, <2>1 DEF InitAgentApp
    <3>2. session' \in Sessions /\ session'.here = redirect
      BY <3>1 DEF Sessions, IInv, TypeOK
    <3>3. ~NewCodes => session'.granted
      BY <3>1, <2>1, OnlySuccess
    <3> QED
      BY <1>2, <2>1, <3>2, <3>3, NoSessionIsNone
         DEF InitAgentApp, IInv, TypeOK, SessionWhenNeeded, Honest, NothingMistaken,
             connectFrame, collector
  <2>2. CASE Verdict(reply) # "ok"
    BY <1>2, <2>2 DEF InitAgentApp, IInv, TypeOK, SessionWhenNeeded, Honest, NothingMistaken,
       connectFrame, collector
  <2> QED
    BY <2>1, <2>2
<1> QED
  BY <1>1, <1>2

LEMMA UploadKeeps ==
    ASSUME IInv, NEW reply \in AllReplies, Upload(reply)
    PROVE  IInv'
<1>1. session \in Sessions /\ session # NoSession /\ phase \in Parts /\ reply \in Replies(session)
  BY PartsOf DEF Upload, IInv, TypeOK, SessionWhenNeeded
<1>2. /\ \/ phase' \in Parts \cup {"idle"} /\ session' = session
         \/ phase' = "connect" /\ session' = NoSession
      /\ retry' \in 0 .. MaxRetry
  <2>1. CASE Exchanged(reply) \/ Refused(reply) \/ Discarded(reply)
    BY <1>1, <2>1, PartsOf DEF Exchanged, Refused, Discarded, IInv, TypeOK
  <2>2. CASE Unattended(reply) \/ Exhausted(reply)
    BY <2>2, RetryAssumption DEF Unattended, Exhausted, IInv, TypeOK
  <2> QED
    BY <2>1, <2>2 DEF Upload
<1>3. mistaken' \in BOOLEAN /\ (~NewCodes => ~mistaken')
  <2>1. mistaken' = (mistaken \/ (Verdict(reply) = "ok" /\ ~Took(session, reply)))
    BY DEF Upload
  <2>2. ~NewCodes /\ Verdict(reply) = "ok" => Took(session, reply)
    BY <1>1, OnlySuccess, SuccessTaken
  <2> QED
    BY <2>1, <2>2 DEF IInv, TypeOK, Honest, NothingMistaken
<1>4. UNCHANGED <<redirect, license, changes>>
  BY DEF Upload, harvestFrame, collector
<1> QED
  BY <1>1, <1>2, <1>3, <1>4, PartsOf
     DEF IInv, TypeOK, SessionWhenNeeded, Honest, NothingMistaken

(* Whatever the collector does and answers, the agent has a session when   *)
(* it uploads, every session was granted, and what counts as uploaded was  *)
(* taken, as long as the collector uses the codes transmitter knows.       *)
THEOREM Invariance == Spec => []IInv
<1>1. Init => IInv
  <2> SUFFICES ASSUME Init PROVE IInv
    OBVIOUS
  <2>1. retry \in 0 .. MaxRetry /\ changes \in 0 .. MaxChanges
    BY RetryAssumption, ChangesAssumption DEF Init
  <2> QED
    BY <2>1 DEF Init, IInv, TypeOK, SessionWhenNeeded, Honest, NothingMistaken
<1>2. IInv /\ [Next]_vars => IInv'
  <2> SUFFICES ASSUME IInv, [Next]_vars PROVE IInv'
    OBVIOUS
  <2>1. CASE \E reply \in AllReplies : GetRedirect(reply) \/ InitAgentApp(reply)
    BY <2>1, ConnectKeeps
  <2>2. CASE \E reply \in AllReplies : Upload(reply)
    BY <2>2, UploadKeeps
  <2>3. CASE BeginHarvest \/ NothingToSend
    BY <2>3, PartsOf DEF BeginHarvest, NothingToSend, harvestFrame, collector,
       IInv, TypeOK, SessionWhenNeeded, Honest, NothingMistaken
  <2>4. CASE Forgets \/ Reconfigures \/ Moves \/ Licenses
    BY <2>4, ChangeKeeps
  <2>5. CASE UNCHANGED vars
    BY <2>5 DEF vars, collector, IInv, TypeOK, SessionWhenNeeded, Honest, NothingMistaken
  <2> QED
    BY <2>1, <2>2, <2>3, <2>4, <2>5 DEF Next, Agent
<1> QED
  BY <1>1, <1>2, PTL DEF Spec

-----------------------------------------------------------------------------
(* Induction.                                                              *)

(* Induction, from what is known of injections of a finite set: were n not *)
(* in T, k |-> k - 1 would map the numbers up to n that are not in T into  *)
(* themselves, one to one, and nothing to n.                               *)
LEMMA SetInduction ==
    ASSUME NEW T, 0 \in T, \A n \in Nat : n \in T => n + 1 \in T
    PROVE  \A n \in Nat : n \in T
<1> SUFFICES ASSUME NEW n \in Nat, n \notin T PROVE FALSE
  OBVIOUS
<1> DEFINE S == {k \in 0 .. n : k \notin T}
<1> DEFINE f == [k \in S |-> k - 1]
<1>1. IsFiniteSet(S)
  <2>1. IsFiniteSet(0 .. n)
    BY FS_Interval
  <2> QED
    BY <2>1, FS_Subset
<1>2. f \in [S -> S]
  <2> SUFFICES ASSUME NEW k \in S PROVE k - 1 \in S
    OBVIOUS
  <2>1. k \in Nat /\ k # 0 /\ k - 1 \in Nat /\ k - 1 \in 0 .. n /\ (k - 1) + 1 = k
    OBVIOUS
  <2> QED
    BY <2>1
<1>3. f \in Injection(S, S)
  BY <1>2 DEF Injection, IsInjective
<1>4. f \in Surjection(S, S)
  BY <1>1, <1>3, FS_Injection
<1>5. \A t \in S : \E k \in S : f[k] = t
  <2> HIDE DEF f, S
  <2> QED
    BY <1>4 DEF Surjection
<1>6. n \in S
  OBVIOUS
<1>7. PICK k \in S : f[k] = n
  BY <1>5, <1>6
<1> QED
  BY <1>7

(* Definitions by recursion over an interval define something.             *)
LEMMA RecursionDefines ==
    ASSUME NEW V, NEW first \in V, NEW n \in Nat, NEW step \in [1 .. n -> [V -> V]]
    PROVE  \E f \in [0 .. n -> V] : f[0] = first /\ \A i \in 1 .. n : f[i] = step[i][f[i - 1]]
<1> DEFINE Upto(k) ==
      \E f \in [0 .. k -> V] : f[0] = first /\ \A i \in 1 .. k : f[i] = step[i][f[i - 1]]
<1> DEFINE T == {k \in Nat : k <= n => Upto(k)}
<1>1. 0 \in T
  <2> DEFINE f == [i \in 0 .. 0 |-> first]
  <2>1. f \in [0 .. 0 -> V] /\ f[0] = first /\ \A i \in 1 .. 0 : f[i] = step[i][f[i - 1]]
    OBVIOUS
  <2>2. Upto(0)
    BY <2>1
  <2> QED
    BY <2>2
<1>2. ASSUME NEW k \in Nat, k \in T PROVE k + 1 \in T
  <2> SUFFICES ASSUME k + 1 <= n PROVE Upto(k + 1)
    OBVIOUS
  <2>1. Upto(k)
    BY <1>2
  <2>2. PICK f \in [0 .. k -> V] :
            f[0] = first /\ \A i \in 1 .. k : f[i] = step[i][f[i - 1]]
    BY <2>1
  <2> DEFINE g == [i \in 0 .. k + 1 |-> IF i = k + 1 THEN step[k + 1][f[k]] ELSE f[i]]
  <2>3. step[k + 1][f[k]] \in V
    OBVIOUS
  <2>4. g \in [0 .. k + 1 -> V] /\ g[0] = first
    BY <2>2, <2>3
  <2>5. ASSUME NEW i \in 1 .. k + 1 PROVE g[i] = step[i][g[i - 1]]
    <3>1. CASE i = k + 1
      BY <3>1
    <3>2. CASE i # k + 1
      <4>1. i \in 1 .. k /\ i - 1 \in 0 .. k
        BY <3>2
      <4> QED
        BY <2>2, <3>2, <4>1
    <3> QED
      BY <3>1, <3>2
  <2> QED
    BY <2>4, <2>5
<1> HIDE DEF T
<1>3. n \in T
  BY <1>1, <1>2, SetInduction
<1> QED
  BY <1>3 DEF T

(* And they agree as far as what they are defined from does.               *)
LEMMA RecursionAgrees ==
    ASSUME NEW n \in Nat, NEW f, NEW g, f[0] = g[0],
           \A i \in 1 .. n : f[i - 1] = g[i - 1] => f[i] = g[i]
    PROVE  \A i \in 0 .. n : f[i] = g[i]
<1> DEFINE T == {k \in Nat : k <= n => f[k] = g[k]}
<1>1. 0 \in T
  OBVIOUS
<1>2. ASSUME NEW k \in Nat, k \in T PROVE k + 1 \in T
  <2> SUFFICES ASSUME k + 1 <= n PROVE f[k + 1] = g[k + 1]
    OBVIOUS
  <2>1. f[k] = g[k] /\ k + 1 \in 1 .. n /\ (k + 1) - 1 = k
    BY <1>2
  <2> QED
    BY <2>1
<1> HIDE DEF T
<1>3. \A k \in Nat : k \in T
  BY <1>1, <1>2, SetInduction
<1> QED
  BY <1>3 DEF T

-----------------------------------------------------------------------------
(* Blocks.                                                                 *)

AllBlocks == Blocks \cup {"scripted"}

(* The recursion of Total defines something.                               *)
LEMMA SumDefines ==
    ASSUME NEW n \in Nat, NEW size \in [1 .. n -> Nat]
    PROVE  \E f \in [0 .. n -> Nat] :
             f[0] = 0 /\ \A i \in 1 .. n : f[i] = f[i - 1] + size[i]
<1> DEFINE step == [i \in 1 .. n |-> [v \in Nat |-> v + size[i]]]
<1>1. step \in [1 .. n -> [Nat -> Nat]]
  OBVIOUS
<1>2. PICK f \in [0 .. n -> Nat] : f[0] = 0 /\ \A i \in 1 .. n : f[i] = step[i][f[i - 1]]
  <2>1. PICK V : V = Nat
    OBVIOUS
  <2>2. 0 \in V /\ step \in [1 .. n -> [V -> V]]
    BY <1>1, <2>1
  <2> HIDE DEF step
  <2>3. \E f \in [0 .. n -> V] : f[0] = 0 /\ \A i \in 1 .. n : f[i] = step[i][f[i - 1]]
    BY <2>2, RecursionDefines
  <2> QED
    BY <2>1, <2>3
<1>3. ASSUME NEW i \in 1 .. n PROVE f[i] = f[i - 1] + size[i]
  <2>1. i - 1 \in 0 .. n /\ f[i - 1] \in Nat
    OBVIOUS
  <2> QED
    BY <1>2, <2>1
<1> QED
  BY <1>2, <1>3

(* The length of blocks, block by block.                                   *)
LEMMA TotalOf ==
    ASSUME NEW s \in Seq(AllBlocks)
    PROVE  \E f \in [0 .. Len(s) -> Nat] :
             /\ f[0] = 0 /\ \A i \in 1 .. Len(s) : f[i] = f[i - 1] + Size(s[i])
             /\ Total(s) = f[Len(s)]
<1>1. PICK n \in Nat : n = Len(s)
  OBVIOUS
<1>2. \A i \in 1 .. n : Size(s[i]) \in Nat
  BY DEF Size
<1> DEFINE size == [i \in 1 .. n |-> Size(s[i])]
<1>3. size \in [1 .. n -> Nat]
  BY <1>2
<1>4. PICK f \in [0 .. n -> Nat] : f[0] = 0 /\ \A i \in 1 .. n : f[i] = f[i - 1] + size[i]
  <2> HIDE DEF size
  <2> QED
    BY <1>3, SumDefines
<1> DEFINE Unfold(h) == [i \in 0 .. Len(s) |-> IF i = 0 THEN 0 ELSE h[i - 1] + Size(s[i])]
<1>5. f = Unfold(f)
  BY <1>1, <1>4
<1> DEFINE sum == CHOOSE h : h = Unfold(h)
<1>6. sum = Unfold(sum)
  BY <1>5
<1>7. Total(s) = sum[n]
  BY <1>1 DEF Total
<1> HIDE DEF sum
<1>8. sum[0] = 0 /\ \A i \in 1 .. n : sum[i] = sum[i - 1] + Size(s[i])
  BY <1>1, <1>6
<1>9. \A i \in 0 .. n : sum[i] = f[i]
  <2>1. ASSUME NEW i \in 1 .. n, sum[i - 1] = f[i - 1] PROVE sum[i] = f[i]
    BY <1>4, <1>8, <2>1
  <2>2. sum[0] = f[0]
    BY <1>4, <1>8
  <2> QED
    BY <2>1, <2>2, RecursionAgrees
<1> QED
  BY <1>1, <1>4, <1>7, <1>9

(* Nothing has no length; one more block adds its own.                     *)
LEMMA TotalOfNone == Total(<< >>) = 0
<1>1. << >> \in Seq(AllBlocks) /\ Len(<< >>) = 0
  OBVIOUS
<1> QED
  BY <1>1, TotalOf

LEMMA TotalOfMore ==
    ASSUME NEW s \in Seq(AllBlocks), NEW b \in AllBlocks
    PROVE  Total(s) \in Nat /\ Total(Append(s, b)) = Total(s) + Size(b)
<1>1. PICK n \in Nat : n = Len(s)
  OBVIOUS
<1>2. PICK t \in Seq(AllBlocks) : t = Append(s, b)
  BY AppendProperties
<1>3. Len(t) = n + 1 /\ t[n + 1] = b /\ \A i \in 1 .. n : t[i] = s[i]
  BY <1>1, <1>2
<1>4. PICK f :
          /\ f \in [0 .. n -> Nat]
          /\ f[0] = 0 /\ \A i \in 1 .. n : f[i] = f[i - 1] + Size(s[i])
          /\ Total(s) = f[n]
  BY <1>1, TotalOf
<1>5. PICK g :
          /\ g \in [0 .. n + 1 -> Nat]
          /\ g[0] = 0 /\ \A i \in 1 .. n + 1 : g[i] = g[i - 1] + Size(t[i])
          /\ Total(t) = g[n + 1]
  BY <1>3, TotalOf
<1>6. \A i \in 0 .. n : g[i] = f[i]
  <2>1. ASSUME NEW i \in 1 .. n, g[i - 1] = f[i - 1] PROVE g[i] = f[i]
    <3>1. i \in 1 .. n + 1 /\ t[i] = s[i]
      BY <1>3
    <3> QED
      BY <1>4, <1>5, <2>1, <3>1
  <2>2. g[0] = f[0]
    BY <1>4, <1>5
  <2>3. \A i \in 1 .. n : g[i - 1] = f[i - 1] => g[i] = f[i]
    BY <2>1
  <2> QED
    BY <2>2, <2>3, RecursionAgrees
<1>7. g[n] = f[n] /\ n + 1 \in 1 .. n + 1 /\ (n + 1) - 1 = n
  BY <1>6
<1>8. Total(s) \in Nat /\ Total(t) = Total(s) + Size(b)
  BY <1>3, <1>4, <1>5, <1>7
<1> QED
  BY <1>2, <1>8

(* The same for what blocks show.                                          *)
LEMMA SentDefines ==
    ASSUME NEW n \in Nat, NEW s \in [1 .. n -> AllBlocks]
    PROVE  \E f \in [0 .. n -> Seq(AllBlocks)] :
             /\ f[0] = << >>
             /\ \A i \in 1 .. n : f[i] = IF s[i] = "empty" THEN f[i - 1] ELSE Append(f[i - 1], s[i])
<1>1. PICK V : V = Seq(AllBlocks)
  OBVIOUS
<1> DEFINE step ==
      [i \in 1 .. n |-> [v \in V |-> IF s[i] = "empty" THEN v ELSE Append(v, s[i])]]
<1>2. << >> \in V /\ step \in [1 .. n -> [V -> V]]
  <2>1. \A v \in V, i \in 1 .. n : (IF s[i] = "empty" THEN v ELSE Append(v, s[i])) \in V
    BY <1>1
  <2>2. << >> \in V
    BY <1>1
  <2> QED
    BY <2>1, <2>2
<1>3. PICK f \in [0 .. n -> V] : f[0] = << >> /\ \A i \in 1 .. n : f[i] = step[i][f[i - 1]]
  <2> HIDE DEF step
  <2> QED
    BY <1>2, RecursionDefines
<1>4. ASSUME NEW i \in 1 .. n
      PROVE  f[i] = IF s[i] = "empty" THEN f[i - 1] ELSE Append(f[i - 1], s[i])
  <2>1. i - 1 \in 0 .. n /\ f[i - 1] \in V
    OBVIOUS
  <2> QED
    BY <1>3, <2>1
<1> QED
  BY <1>1, <1>3, <1>4

LEMMA SentOf ==
    ASSUME NEW s \in Seq(AllBlocks)
    PROVE  \E f \in [0 .. Len(s) -> Seq(AllBlocks)] :
             /\ f[0] = << >>
             /\ \A i \in 1 .. Len(s) :
                  f[i] = IF s[i] = "empty" THEN f[i - 1] ELSE Append(f[i - 1], s[i])
             /\ Sent(s) = f[Len(s)]
<1>1. PICK n \in Nat : n = Len(s)
  OBVIOUS
<1>2. PICK f \in [0 .. n -> Seq(AllBlocks)] :
          /\ f[0] = << >>
          /\ \A i \in 1 .. n : f[i] = IF s[i] = "empty" THEN f[i - 1] ELSE Append(f[i - 1], s[i])
  <2>1. s \in [1 .. n -> AllBlocks]
    BY <1>1
  <2> QED
    BY <2>1, SentDefines
<1> DEFINE Unfold(h) ==
      [i \in 0 .. Len(s) |->
          IF i = 0 THEN << >>
          ELSE IF s[i] = "empty" THEN h[i - 1] ELSE Append(h[i - 1], s[i])]
<1>3. f = Unfold(f)
  <2>1. f = [i \in 0 .. n |-> f[i]]
    BY <1>2
  <2>2. ASSUME NEW i \in 0 .. n, i # 0 PROVE i \in 1 .. n
    BY <2>2
  <2>3. ASSUME NEW i \in 0 .. n
        PROVE  f[i] = IF i = 0 THEN << >>
                      ELSE IF s[i] = "empty" THEN f[i - 1] ELSE Append(f[i - 1], s[i])
    BY <1>2, <2>2, Zenon
  <2> QED
    BY <1>1, <2>1, <2>3, Zenon
<1> DEFINE sent == CHOOSE h : h = Unfold(h)
<1>4. sent = Unfold(sent)
  BY <1>3
<1>5. Sent(s) = sent[n]
  BY <1>1 DEF Sent
<1> HIDE DEF sent
<1>6. /\ sent[0] = << >>
      /\ \A i \in 1 .. n :
           sent[i] = IF s[i] = "empty" THEN sent[i - 1] ELSE Append(sent[i - 1], s[i])
  <2>1. 0 \in 0 .. n /\ \A i \in 1 .. n : i \in 0 .. n /\ i # 0
    OBVIOUS
  <2> QED
    BY <1>1, <1>4, <2>1, Zenon
<1>7. \A i \in 0 .. n : sent[i] = f[i]
  <2>1. ASSUME NEW i \in 1 .. n, sent[i - 1] = f[i - 1] PROVE sent[i] = f[i]
    BY <1>2, <1>6, <2>1
  <2>2. sent[0] = f[0]
    BY <1>2, <1>6
  <2> QED
    BY <2>1, <2>2, RecursionAgrees
<1> QED
  BY <1>1, <1>2, <1>5, <1>7

LEMMA SentOfNone == Sent(<< >>) = << >>
<1>1. << >> \in Seq(AllBlocks) /\ Len(<< >>) = 0
  OBVIOUS
<1> QED
  BY <1>1, SentOf

LEMMA SentOfMore ==
    ASSUME NEW s \in Seq(AllBlocks), NEW b \in AllBlocks
    PROVE  /\ Sent(s) \in Seq(AllBlocks)
           /\ Sent(Append(s, b)) = IF b = "empty" THEN Sent(s) ELSE Append(Sent(s), b)
<1>1. PICK n \in Nat : n = Len(s)
  OBVIOUS
<1>2. PICK t \in Seq(AllBlocks) : t = Append(s, b)
  BY AppendProperties
<1>3. Len(t) = n + 1 /\ t[n + 1] = b /\ \A i \in 1 .. n : t[i] = s[i]
  BY <1>1, <1>2
<1>4. PICK f :
          /\ f \in [0 .. n -> Seq(AllBlocks)]
          /\ f[0] = << >>
          /\ \A i \in 1 .. n : f[i] = IF s[i] = "empty" THEN f[i - 1] ELSE Append(f[i - 1], s[i])
          /\ Sent(s) = f[n]
  BY <1>1, SentOf
<1>5. PICK g :
          /\ g \in [0 .. n + 1 -> Seq(AllBlocks)]
          /\ g[0] = << >>
          /\ \A i \in 1 .. n + 1 :
               g[i] = IF t[i] = "empty" THEN g[i - 1] ELSE Append(g[i - 1], t[i])
          /\ Sent(t) = g[n + 1]
  BY <1>3, SentOf
<1>6. \A i \in 0 .. n : g[i] = f[i]
  <2>1. ASSUME NEW i \in 1 .. n, g[i - 1] = f[i - 1] PROVE g[i] = f[i]
    <3>1. i \in 1 .. n + 1 /\ t[i] = s[i]
      BY <1>3
    <3> QED
      BY <1>4, <1>5, <2>1, <3>1
  <2>2. g[0] = f[0]
    BY <1>4, <1>5
  <2>3. \A i \in 1 .. n : g[i - 1] = f[i - 1] => g[i] = f[i]
    BY <2>1
  <2> QED
    BY <2>2, <2>3, RecursionAgrees
<1>7. g[n] = f[n] /\ n + 1 \in 1 .. n + 1 /\ (n + 1) - 1 = n
  BY <1>6
<1>8. /\ Sent(s) \in Seq(AllBlocks)
      /\ Sent(t) = IF b = "empty" THEN Sent(s) ELSE Append(Sent(s), b)
  BY <1>3, <1>4, <1>5, <1>7
<1> QED
  BY <1>2, <1>8

-----------------------------------------------------------------------------
(* What the parts of a step do.                                            *)

(* A block that is produced.                                               *)
LEMMA Produces ==
    ASSUME RumTypeOK, Produce
    PROVE  /\ Head(todo) \in Blocks /\ todo' \in Seq(Blocks) /\ produced' \in Seq(Blocks)
           /\ Total(produced') = Total(produced) + Size(Head(todo))
           /\ Total(produced) \in Nat /\ Size(Head(todo)) \in Nat
           /\ Sent(produced') = IF Head(todo) = "empty" THEN Sent(produced)
                                ELSE Append(Sent(produced), Head(todo))
           /\ produced' \o todo' = produced \o todo
<1>1. PICK b \in Blocks, rest \in Seq(Blocks) :
          b = Head(todo) /\ rest = Tail(todo) /\ todo = <<b>> \o rest
  <2>1. todo \in Seq(Blocks) /\ todo # << >>
    BY DEF Produce, RumTypeOK
  <2>2. Head(todo) \in Blocks /\ Tail(todo) \in Seq(Blocks)
    BY <2>1, HeadTailProperties
  <2>3. todo = <<Head(todo)>> \o Tail(todo)
    BY <2>1
  <2> QED
    BY <2>2, <2>3
<1>2. produced' = Append(produced, b) /\ todo' = rest /\ produced \in Seq(Blocks)
  BY <1>1 DEF Produce, RumTypeOK
<1>3. b \in AllBlocks /\ produced \in Seq(AllBlocks)
  BY <1>2 DEF AllBlocks
<1>4. /\ Total(produced) \in Nat /\ Total(produced') = Total(produced) + Size(b)
      /\ Sent(produced') = IF b = "empty" THEN Sent(produced) ELSE Append(Sent(produced), b)
  BY <1>2, <1>3, TotalOfMore, SentOfMore
<1>5. Size(b) \in Nat
  BY DEF Size
<1>6. Append(produced, b) \in Seq(Blocks) /\ Append(produced, b) = produced \o <<b>>
  BY <1>2, AppendProperties, AppendIsConcat
<1>7. (produced \o <<b>>) \o rest = produced \o (<<b>> \o rest)
  BY <1>2, ConcatAssociative
<1> QED
  BY <1>1, <1>2, <1>4, <1>5, <1>6, <1>7

(* A sequence with one more element, pointwise.                            *)
LEMMA AppendIs ==
    ASSUME NEW S, NEW s \in Seq(S), NEW b \in S
    PROVE  /\ Append(s, b) \in Seq(S) /\ Len(Append(s, b)) = Len(s) + 1
           /\ DOMAIN Append(s, b) = 1 .. Len(s) + 1
           /\ Append(s, b)[Len(s) + 1] = b
           /\ \A i \in 1 .. Len(s) : Append(s, b)[i] = s[i]
<1>1. PICK t : t = Append(s, b)
  OBVIOUS
<1>2. t \in Seq(S)
  BY <1>1, AppendProperties
<1>3. Len(t) = Len(s) + 1 /\ t[Len(s) + 1] = b /\ \A i \in 1 .. Len(s) : t[i] = s[i]
  BY <1>1
<1>4. DOMAIN t = 1 .. Len(s) + 1
  BY <1>2, <1>3
<1> QED
  BY <1>1, <1>2, <1>3, <1>4

(* Without scripts a block more is a block more.                           *)
LEMMA PlainAppends ==
    ASSUME NEW s \in Seq(AllBlocks), NEW b \in AllBlocks
    PROVE  /\ Plain(s) \in Seq(AllBlocks) /\ Unscripted(b) \in AllBlocks
           /\ Plain(Append(s, b)) = Append(Plain(s), Unscripted(b))
<1>1. PICK n \in Nat : n = Len(s) /\ s \in [1 .. n -> AllBlocks]
  OBVIOUS
<1>2. \A c \in AllBlocks : Unscripted(c) \in AllBlocks
  BY DEF Unscripted, AllBlocks, Blocks
<1>3. PICK p : p = Plain(s)
  OBVIOUS
<1>4. p = [i \in 1 .. n |-> Unscripted(s[i])]
  BY <1>1, <1>3 DEF Plain
<1>5. p \in Seq(AllBlocks) /\ Len(p) = n /\ \A i \in 1 .. n : p[i] = Unscripted(s[i])
  <2>1. p \in [1 .. n -> AllBlocks]
    BY <1>1, <1>2, <1>4
  <2> QED
    BY <1>4, <2>1
<1>6. PICK t : t = Append(s, b)
  OBVIOUS
<1>7. /\ t \in Seq(AllBlocks) /\ DOMAIN t = 1 .. n + 1 /\ t[n + 1] = b
      /\ \A i \in 1 .. n : t[i] = s[i]
  BY <1>1, <1>6, AppendIs
<1>8. PICK q : q = Plain(t)
  OBVIOUS
<1>9. q = [i \in 1 .. n + 1 |-> Unscripted(t[i])]
  BY <1>7, <1>8 DEF Plain
<1>10. PICK u \in AllBlocks : u = Unscripted(b)
  BY <1>2
<1>11. PICK a : a = Append(p, u)
  OBVIOUS
<1>12. /\ a \in Seq(AllBlocks) /\ DOMAIN a = 1 .. n + 1 /\ a[n + 1] = u
       /\ \A i \in 1 .. n : a[i] = p[i]
  BY <1>5, <1>11, AppendIs
<1>13. ASSUME NEW i \in 1 .. n + 1 PROVE a[i] = Unscripted(t[i])
  <2>1. CASE i = n + 1
    BY <1>7, <1>10, <1>12, <2>1
  <2>2. CASE i # n + 1
    <3>1. i \in 1 .. n
      BY <2>2
    <3> QED
      BY <1>5, <1>7, <1>12, <3>1
  <2> QED
    BY <2>1, <2>2
<1>14. a = [i \in 1 .. n + 1 |-> a[i]]
  <2>1. a \in [1 .. n + 1 -> AllBlocks]
    BY <1>12
  <2> QED
    BY <2>1
<1>15. q = a
  BY <1>9, <1>13, <1>14
<1> QED
  BY <1>2, <1>3, <1>5, <1>6, <1>8, <1>10, <1>11, <1>15

(* A block that the server is given.                                       *)
LEMMA Delivers ==
    ASSUME body \in Seq(AllBlocks), NEW b \in AllBlocks, Deliver(b)
    PROVE  /\ body' \in Seq(AllBlocks)
           /\ Total(body) \in Nat /\ Total(body') = Total(body) + Size(b)
           /\ Sent(Plain(body')) = IF b = "empty" THEN Sent(Plain(body))
                                   ELSE Append(Sent(Plain(body)), Unscripted(b))
           /\ DOMAIN body' = 1 .. Len(body) + 1 /\ body'[Len(body) + 1] = b
           /\ \A i \in 1 .. Len(body) : body'[i] = body[i]
<1>1. PICK s \in Seq(AllBlocks) : s = body
  OBVIOUS
<1>2. body' = Append(s, b)
  BY <1>1 DEF Deliver
<1>3. /\ Append(s, b) \in Seq(AllBlocks) /\ DOMAIN Append(s, b) = 1 .. Len(s) + 1
      /\ Append(s, b)[Len(s) + 1] = b /\ \A i \in 1 .. Len(s) : Append(s, b)[i] = s[i]
  BY AppendIs
<1>4. Total(s) \in Nat /\ Total(Append(s, b)) = Total(s) + Size(b)
  BY TotalOfMore
<1>5. b = "empty" <=> Unscripted(b) = "empty"
  BY DEF Unscripted
<1>6. Sent(Plain(Append(s, b))) = IF b = "empty" THEN Sent(Plain(s))
                                  ELSE Append(Sent(Plain(s)), Unscripted(b))
  BY <1>5, PlainAppends, SentOfMore
<1> QED
  BY <1>1, <1>2, <1>3, <1>4, <1>6

(* What an application may answer.                                         *)
LEMMA ResponseTypes ==
    ASSUME NEW r \in Responses \cup {NoResponse}
    PROVE  /\ r.blocks \in Seq(Blocks) /\ r.ok \in BOOLEAN
           /\ Total(r.blocks) \in Nat
           /\ Declared(r) \in Nat \cup {Absent}
           /\ r.spelling = "Content-Length" => Declared(r) = Total(r.blocks)
<1>1. r.blocks \in Seq(Blocks) /\ r.ok \in BOOLEAN
  <2>1. CASE r = NoResponse
    BY <2>1 DEF NoResponse
  <2>2. CASE r \in Responses
    <3>1. PICK n \in 0 .. MaxBlocks : r.blocks \in [1 .. n -> Blocks]
      BY <2>2 DEF Responses, BoundedSeq, SeqOf
    <3>2. n \in Nat
      BY BoundsAssumption
    <3> QED
      BY <2>2, <3>1, <3>2 DEF Responses
  <2> QED
    BY <2>1, <2>2
<1>2. Total(r.blocks) \in Nat
  <2>1. r.blocks \in Seq(AllBlocks)
    BY <1>1 DEF AllBlocks
  <2>2. "page" \in AllBlocks
    BY DEF AllBlocks, Blocks
  <2> QED
    BY <2>1, <2>2, TotalOfMore
<1> QED
  BY <1>1, <1>2 DEF Declared, Absent

(* The headers that go out.                                                *)
LEMMA HeadersGoOut ==
    ASSUME RumTypeOK, NEW r \in Responses \cup {NoResponse},
           NEW length \in Nat \cup {Absent}, WriteHeaders(r, length)
    PROVE  /\ writer'
           /\ headers' \in [declared : Nat \cup {Absent}, tx : BOOLEAN, ok : BOOLEAN]
           /\ headers' # NoHeaders
           /\ called' \in {"no", "told"}
           /\ called' = "told" => called = "told" \/ headers'.tx
           /\ length # Absent /\ r.spelling = "Content-Length" => headers'.declared = length
           /\ length = Absent => headers'.declared = Declared(r)
<1>1. Announced(r, length) \in Nat \cup {Absent} /\ r.ok \in BOOLEAN
  BY ResponseTypes DEF Announced
<1>2. headers' = [declared |-> Announced(r, length), tx |-> called = "waits", ok |-> r.ok]
  BY DEF WriteHeaders
<1>3. headers' \in [declared : Nat \cup {Absent}, tx : BOOLEAN, ok : BOOLEAN]
  BY <1>1, <1>2
<1>4. headers'.declared = Announced(r, length) /\ headers'.tx = (called = "waits")
  BY <1>2
<1>5. headers' # NoHeaders
  BY <1>1, <1>4 DEF NoHeaders, Absent
<1>6. called' \in {"no", "told"} /\ (called' = "told" => called = "told" \/ called = "waits")
  BY DEF WriteHeaders, ProcessHeader, RumTypeOK
<1> QED
  BY <1>3, <1>4, <1>5, <1>6 DEF WriteHeaders, Announced

(* start_response: an insertable response is not passed on yet.            *)
LEMMA AnswerDoes ==
    ASSUME RumTypeOK, NEW r \in Responses, NEW enabled \in BOOLEAN, Answer(r, enabled)
    PROVE  /\ response' = r /\ todo' = r.blocks
           /\ ignore_rum' \in BOOLEAN /\ content_length' \in Nat \cup {Absent}
           /\ IF ignore_rum' THEN WriteHeaders(r, content_length') ELSE HeadersStay
           /\ ignore_rum /\ content_length = Absent
                => content_length' = IF ignore_rum' THEN Absent ELSE Declared(r)
<1> DEFINE insertable == enabled /\ IsInsertable(r)
<1> DEFINE ignore     == IF enabled THEN ~insertable /\ ignore_rum ELSE TRUE
<1> DEFINE length     == IF insertable THEN Declared(r) ELSE content_length
<1>1. /\ response' = r /\ todo' = r.blocks
      /\ ignore_rum' = ignore /\ content_length' = length
      /\ IF ignore THEN WriteHeaders(r, length) ELSE HeadersStay
  BY Zenon DEF Answer
<1>2. insertable \in BOOLEAN
  BY DEF IsInsertable, Responses
<1>3. ignore \in BOOLEAN /\ length \in Nat \cup {Absent}
  BY <1>2, ResponseTypes DEF RumTypeOK
<1>4. ignore => ~insertable
  OBVIOUS
<1>5. ignore_rum /\ ~ignore => insertable
  OBVIOUS
<1> HIDE DEF ignore, insertable
<1> QED
  BY <1>1, <1>3, <1>4, <1>5

-----------------------------------------------------------------------------
(* The steps.                                                              *)

LEMMA StartKeeps ==
    ASSUME RumInv, StartResponse
    PROVE  RumInv'
<1>1. PICK r \in Responses, enabled \in BOOLEAN : Answer(r, enabled)
  BY DEF StartResponse
<1>2. /\ response' = r /\ todo' = r.blocks
      /\ ignore_rum' \in BOOLEAN /\ content_length' \in Nat \cup {Absent}
      /\ IF ignore_rum' THEN WriteHeaders(r, content_length') ELSE HeadersStay
      /\ ignore_rum /\ content_length = Absent
           => content_length' = IF ignore_rum' THEN Absent ELSE Declared(r)
  BY <1>1, AnswerDoes DEF RumInv
<1>3. /\ ignore_rum /\ ~writer /\ content_length = Absent /\ produced = << >>
      /\ restarts = 0 /\ called # "told" /\ body = << >> /\ inserted = << >>
      /\ headers = NoHeaders /\ stage = "called" /\ stage' = "answering"
  BY DEF RumInv, HeadersFirst, StartResponse
<1>4. UNCHANGED <<prepared, body, produced, inserted, restarts>>
  BY DEF StartResponse, history
<1>5. /\ r.blocks \in Seq(Blocks) /\ Total(r.blocks) \in Nat
      /\ Declared(r) \in Nat \cup {Absent}
      /\ r.spelling = "Content-Length" => Declared(r) = Total(r.blocks)
  BY ResponseTypes
<1>6. << >> \o r.blocks = r.blocks
  BY <1>5, ConcatEmptySeq
<1>7. (SameBlocks /\ ScriptIsFirst)'
  BY <1>3, <1>4 DEF RumInv, SameBlocks, ScriptIsFirst
<1>8. Len(<< >>) = 0
  OBVIOUS
<1>9. CASE ignore_rum'
  <2>1. WriteHeaders(r, content_length') /\ content_length' = Absent
    BY <1>2, <1>3, <1>9
  <2>2. /\ writer'
        /\ headers' \in [declared : Nat \cup {Absent}, tx : BOOLEAN, ok : BOOLEAN]
        /\ headers' # NoHeaders /\ called' \in {"no", "told"}
        /\ called' = "told" => called = "told" \/ headers'.tx
        /\ headers'.declared = Declared(r)
    BY <1>2, <2>1, HeadersGoOut DEF RumInv
  <2>3. writer' = TRUE
    BY <2>1 DEF WriteHeaders
  <2>4. RumTypeOK'
    BY <1>2, <1>3, <1>4, <1>5, <2>2, <2>3 DEF RumInv, RumTypeOK
  <2>5. HeadersFirst'
    BY <1>3, <2>2, <2>3 DEF HeadersFirst
  <2>6. AnsweredOnce'
    BY <1>2, <1>3, <1>4, <1>5, <1>6, <1>8, <2>2 DEF AnsweredOnce
  <2> QED
    BY <1>7, <2>4, <2>5, <2>6 DEF RumInv
<1>10. CASE ~ignore_rum'
  <2>1. UNCHANGED <<writer, headers, called>> /\ content_length' = Declared(r)
    BY <1>2, <1>3, <1>10 DEF HeadersStay
  <2>2. RumTypeOK'
    BY <1>2, <1>3, <1>4, <1>5, <2>1 DEF RumInv, RumTypeOK
  <2>3. HeadersFirst'
    BY <1>3, <1>4, <1>10, <2>1 DEF RumInv, HeadersFirst
  <2>4. AnsweredOnce'
    BY <1>2, <1>3, <1>4, <1>6, <2>1 DEF AnsweredOnce, Declared
  <2> QED
    BY <1>7, <2>2, <2>3, <2>4 DEF RumInv
<1> QED
  BY <1>9, <1>10

LEMMA RestartKeeps ==
    ASSUME RumInv, Restart
    PROVE  RumInv'
<1>1. PICK r \in Responses, enabled \in BOOLEAN : Answer(r, enabled)
  BY DEF Restart
<1>2. /\ response' = r /\ todo' = r.blocks
      /\ ignore_rum' \in BOOLEAN /\ content_length' \in Nat \cup {Absent}
      /\ IF ignore_rum' THEN WriteHeaders(r, content_length') ELSE HeadersStay
  BY <1>1, AnswerDoes DEF RumInv
<1>3. stage = "answering" /\ restarts' \in Nat /\ restarts' # 0
  BY DEF Restart, RumInv, RumTypeOK
<1>4. UNCHANGED <<stage, prepared, body, produced, inserted>>
  BY DEF Restart, history
<1>5. r.blocks \in Seq(Blocks)
  BY ResponseTypes
<1>6. (SameBlocks /\ ScriptIsFirst)'
  BY <1>4 DEF RumInv, SameBlocks, ScriptIsFirst
<1>7. AnsweredOnce'
  BY <1>3 DEF AnsweredOnce
<1>8. CASE ignore_rum'
  <2>1. WriteHeaders(r, content_length')
    BY <1>2, <1>8
  <2>2. /\ headers' \in [declared : Nat \cup {Absent}, tx : BOOLEAN, ok : BOOLEAN]
        /\ headers' # NoHeaders /\ called' \in {"no", "told"}
    BY <1>2, <2>1, HeadersGoOut DEF RumInv
  <2>3. writer' = TRUE
    BY <2>1 DEF WriteHeaders
  <2>4. RumTypeOK'
    BY <1>2, <1>3, <1>4, <1>5, <2>2, <2>3 DEF RumInv, RumTypeOK
  <2>5. HeadersFirst'
    BY <1>3, <1>4, <2>2, <2>3 DEF HeadersFirst
  <2> QED
    BY <1>6, <1>7, <2>4, <2>5 DEF RumInv
<1>9. CASE ~ignore_rum'
  <2>1. UNCHANGED <<writer, headers, called>>
    BY <1>2, <1>9 DEF HeadersStay
  <2>2. RumTypeOK'
    BY <1>2, <1>3, <1>4, <1>5, <2>1 DEF RumInv, RumTypeOK
  <2>3. HeadersFirst'
    BY <1>3, <1>4, <1>9, <2>1 DEF RumInv, HeadersFirst
  <2> QED
    BY <1>6, <1>7, <2>2, <2>3 DEF RumInv
<1> QED
  BY <1>8, <1>9

(* The headers go out, or went out before: for a response that answers     *)
(* once they have what its blocks and its script together are long.        *)
HeadersOut ==
    IF writer THEN HeadersStay ELSE WriteHeaders(response, content_length)

LEMMA HeadersAreOut ==
    ASSUME RumInv, stage = "answering", HeadersOut
    PROVE  /\ writer' = TRUE
           /\ headers' \in [declared : Nat \cup {Absent}, tx : BOOLEAN, ok : BOOLEAN]
           /\ headers' # NoHeaders /\ called' \in {"no", "told"}
           /\ restarts = 0 => (called' = "told" => headers'.tx)
           /\ restarts = 0 /\ response.spelling = "Content-Length"
                => headers'.declared = Total(response.blocks) + Len(inserted)
<1>1. CASE writer
  <2>1. writer = TRUE
    BY <1>1 DEF RumInv, RumTypeOK
  <2>2. UNCHANGED <<writer, headers, called>>
    BY <1>1 DEF HeadersOut, HeadersStay
  <2> QED
    BY <1>1, <2>1, <2>2 DEF RumInv, RumTypeOK, HeadersFirst, AnsweredOnce
<1>2. CASE ~writer
  <2>1. WriteHeaders(response, content_length)
    BY <1>2 DEF HeadersOut
  <2>2. response \in Responses \cup {NoResponse} /\ content_length \in Nat \cup {Absent}
    BY DEF RumInv, RumTypeOK
  <2>3. /\ headers' \in [declared : Nat \cup {Absent}, tx : BOOLEAN, ok : BOOLEAN]
        /\ headers' # NoHeaders /\ called' \in {"no", "told"}
        /\ called' = "told" => called = "told" \/ headers'.tx
        /\ content_length # Absent /\ response.spelling = "Content-Length"
              => headers'.declared = content_length
        /\ content_length = Absent => headers'.declared = Declared(response)
    BY <2>1, <2>2, HeadersGoOut DEF RumInv
  <2>4. writer' = TRUE
    BY <2>1 DEF WriteHeaders
  <2>5. restarts = 0 => called # "told" /\ content_length = Declared(response)
    BY <1>2 DEF RumInv, AnsweredOnce
  <2>6. Len(inserted) = 0
    BY <1>2 DEF RumInv, HeadersFirst
  <2>7. /\ Total(response.blocks) \in Nat
        /\ response.spelling = "Content-Length" => Declared(response) = Total(response.blocks)
    BY <2>2, ResponseTypes
  <2>8. restarts = 0 /\ response.spelling = "Content-Length"
            => headers'.declared = Total(response.blocks) + Len(inserted)
    BY <2>3, <2>5, <2>6, <2>7
  <2> QED
    BY <2>3, <2>4, <2>5, <2>8
<1> QED
  BY <1>1, <1>2

(* A block that is handed on as it is.                                     *)
LEMMA PassesOnKeeps ==
    ASSUME RumInv, Write \/ HandOn \/ InsertNothing
    PROVE  RumInv'
<1> USE DEF RumInv
<1>1. /\ Produce /\ stage = "answering" /\ Deliver(Head(todo)) /\ ignore_rum' \in BOOLEAN
      /\ UNCHANGED <<stage, response, content_length, prepared, inserted, restarts>>
  BY DEF Write, HandOn, InsertNothing, Produce, RumTypeOK, middleware, tracer
<1>2. HeadersOut
  <2>1. CASE Write
    BY <2>1 DEF Write, HeadersOut
  <2>2. CASE HandOn
    <3>1. writer
      BY <1>1, <2>2 DEF HandOn, HeadersFirst
    <3> QED
      BY <2>2, <3>1 DEF HandOn, HeadersOut, HeadersStay, middleware, tracer
  <2>3. CASE InsertNothing
    BY <2>3 DEF InsertNothing, HeadersOut
  <2> QED
    BY <2>1, <2>2, <2>3
<1>3. /\ writer' = TRUE
      /\ headers' \in [declared : Nat \cup {Absent}, tx : BOOLEAN, ok : BOOLEAN]
      /\ headers' # NoHeaders /\ called' \in {"no", "told"}
      /\ restarts = 0 => (called' = "told" => headers'.tx)
      /\ restarts = 0 /\ response.spelling = "Content-Length"
              => headers'.declared = Total(response.blocks) + Len(inserted)
  BY <1>1, <1>2, HeadersAreOut
<1>4. PICK b \in Blocks : b = Head(todo)
  BY <1>1, Produces
<1>5. /\ todo' \in Seq(Blocks) /\ produced' \in Seq(Blocks)
      /\ Total(produced') = Total(produced) + Size(b)
      /\ Total(produced) \in Nat /\ Size(b) \in Nat
      /\ Sent(produced') = IF b = "empty" THEN Sent(produced) ELSE Append(Sent(produced), b)
      /\ produced' \o todo' = produced \o todo
  BY <1>1, <1>4, Produces
<1>6. b \in AllBlocks /\ body \in Seq(AllBlocks) /\ Unscripted(b) = b /\ b # "scripted"
  BY <1>4 DEF AllBlocks, Blocks, Unscripted, RumTypeOK
<1>7. /\ body' \in Seq(AllBlocks)
      /\ Total(body) \in Nat /\ Total(body') = Total(body) + Size(b)
      /\ Sent(Plain(body')) = IF b = "empty" THEN Sent(Plain(body))
                              ELSE Append(Sent(Plain(body)), Unscripted(b))
      /\ DOMAIN body' = 1 .. Len(body) + 1 /\ body'[Len(body) + 1] = b
      /\ \A i \in 1 .. Len(body) : body'[i] = body[i]
  BY <1>1, <1>4, <1>6, Delivers
<1>8. RumTypeOK'
  BY <1>1, <1>3, <1>5, <1>7 DEF RumTypeOK, AllBlocks
<1>9. HeadersFirst'
  BY <1>1, <1>3 DEF HeadersFirst
<1>10. SameBlocks'
  <2>1. Sent(Plain(body)) = Sent(produced) /\ Total(body) = Total(produced) + Len(inserted)
    BY <1>1 DEF SameBlocks
  <2>2. Sent(Plain(body')) = Sent(produced')
    BY <1>5, <1>6, <1>7, <2>1, Zenon
  <2>3. Len(inserted) \in Nat
    BY DEF RumTypeOK
  <2>4. Total(body') = Total(produced') + Len(inserted)
    BY <1>5, <1>7, <2>1, <2>3
  <2> QED
    BY <1>1, <2>2, <2>4 DEF SameBlocks
<1>11. ScriptIsFirst'
  <2>1. ASSUME NEW i \in DOMAIN body', body'[i] = "scripted" PROVE i = 1
    <3>1. i \in 1 .. Len(body)
      BY <1>6, <1>7, <2>1
    <3>2. i \in DOMAIN body /\ body[i] = "scripted"
      BY <1>6, <1>7, <2>1, <3>1
    <3> QED
      BY <3>2 DEF ScriptIsFirst
  <2> QED
    BY <1>1, <2>1 DEF ScriptIsFirst
<1>12. AnsweredOnce'
  BY <1>1, <1>3, <1>5 DEF AnsweredOnce
<1> QED
  BY <1>8, <1>9, <1>10, <1>11, <1>12

LEMMA SkipKeeps ==
    ASSUME RumInv, SkipEmpty
    PROVE  RumInv'
<1> USE DEF RumInv
<1>1. /\ Produce /\ stage = "answering" /\ Head(todo) = "empty"
      /\ UNCHANGED <<stage, response, ignore_rum, writer, content_length, prepared, called,
                     headers, body, inserted, restarts>>
  BY DEF SkipEmpty, Produce, middleware, tracer, server
<1>2. /\ todo' \in Seq(Blocks) /\ produced' \in Seq(Blocks)
      /\ Total(produced') = Total(produced) + Size(Head(todo)) /\ Total(produced) \in Nat
      /\ Sent(produced') = Sent(produced)
      /\ produced' \o todo' = produced \o todo
  BY <1>1, Produces
<1>3. Total(produced') = Total(produced)
  BY <1>1, <1>2 DEF Size
<1>4. RumTypeOK'
  BY <1>1, <1>2 DEF RumTypeOK
<1>5. HeadersFirst'
  BY <1>1 DEF HeadersFirst
<1>6. (SameBlocks /\ ScriptIsFirst)'
  BY <1>1, <1>2, <1>3 DEF SameBlocks, ScriptIsFirst
<1>7. AnsweredOnce'
  BY <1>1, <1>2 DEF AnsweredOnce, Declared
<1> QED
  BY <1>4, <1>5, <1>6, <1>7

LEMMA InsertKeeps ==
    ASSUME RumInv, Insert
    PROVE  RumInv'
<1> USE DEF RumInv
<1>1. /\ Produce /\ stage = "answering" /\ ~writer /\ Head(todo) = "page"
      /\ prepared' = TRUE /\ ignore_rum' = TRUE /\ content_length' = Grown(content_length)
      /\ inserted' = Append(inserted, response.ok)
      /\ WriteHeaders(response, content_length') /\ Deliver("scripted")
      /\ UNCHANGED <<stage, response, restarts>>
  BY DEF Insert, Produce
<1>2. /\ todo' \in Seq(Blocks) /\ produced' \in Seq(Blocks)
      /\ Total(produced') = Total(produced) + 1 /\ Total(produced) \in Nat
      /\ Sent(produced') = Append(Sent(produced), "page")
      /\ produced' \o todo' = produced \o todo
  BY <1>1, Produces DEF Size
<1>3. body = << >> /\ inserted = << >> /\ headers = NoHeaders
  BY <1>1 DEF HeadersFirst
<1>4. "scripted" \in AllBlocks /\ body \in Seq(AllBlocks) /\ Unscripted("scripted") = "page"
  BY DEF AllBlocks, Unscripted, RumTypeOK
<1>5. /\ body' \in Seq(AllBlocks) /\ DOMAIN body' = 1 .. Len(body) + 1
      /\ Total(body) \in Nat /\ Total(body') = Total(body) + 2
      /\ Sent(Plain(body')) = Append(Sent(Plain(body)), "page")
  BY <1>1, <1>4, Delivers DEF Size
<1>6. response \in Responses \cup {NoResponse} /\ content_length \in Nat \cup {Absent}
  BY DEF RumTypeOK
<1>7. /\ Total(response.blocks) \in Nat /\ response.ok \in BOOLEAN
      /\ Declared(response) \in Nat \cup {Absent}
      /\ response.spelling = "Content-Length" => Declared(response) = Total(response.blocks)
  BY <1>6, ResponseTypes
<1>8. content_length' \in Nat \cup {Absent}
  BY <1>1, <1>6 DEF Grown, Absent
<1>9. /\ writer' = TRUE
      /\ headers' \in [declared : Nat \cup {Absent}, tx : BOOLEAN, ok : BOOLEAN]
      /\ headers' # NoHeaders /\ called' \in {"no", "told"}
      /\ called' = "told" => called = "told" \/ headers'.tx
      /\ content_length' # Absent /\ response.spelling = "Content-Length"
            => headers'.declared = content_length'
  <2>1. writer' = TRUE
    BY <1>1 DEF WriteHeaders
  <2> QED
    BY <1>1, <1>6, <1>8, <2>1, HeadersGoOut
<1>10. inserted' = <<response.ok>> /\ inserted' \in Seq(BOOLEAN) /\ Len(inserted') = 1
  BY <1>1, <1>3, <1>7
<1>11. RumTypeOK'
  BY <1>1, <1>2, <1>5, <1>8, <1>9, <1>10 DEF RumTypeOK, AllBlocks
<1>12. HeadersFirst'
  BY <1>1, <1>9 DEF HeadersFirst
<1>13. SameBlocks'
  <2>1. Sent(Plain(body)) = Sent(produced) /\ Total(body) = Total(produced) + Len(inserted)
    BY <1>1 DEF SameBlocks
  <2>2. Sent(Plain(body')) = Sent(produced')
    BY <1>2, <1>5, <2>1
  <2>3. Len(inserted) = 0
    BY <1>3
  <2>4. Total(body') = Total(produced') + Len(inserted')
    BY <1>2, <1>5, <1>10, <2>1, <2>3
  <2> QED
    BY <2>2, <2>4 DEF SameBlocks
<1>14. ScriptIsFirst'
  <2>1. DOMAIN body' = 1 .. 1
    BY <1>3, <1>5
  <2> QED
    BY <1>10, <2>1 DEF ScriptIsFirst
<1>15. AnsweredOnce'
  <2> SUFFICES ASSUME restarts = 0
               PROVE  /\ response.blocks = produced' \o todo'
                      /\ called' = "told" => headers'.tx
                      /\ response.spelling = "Content-Length"
                           => headers'.declared = Total(response.blocks) + Len(inserted')
    BY <1>1, <1>9 DEF AnsweredOnce
  <2>1. /\ response.blocks = produced \o todo /\ called # "told"
        /\ content_length = Declared(response)
    BY <1>1 DEF AnsweredOnce
  <2>2. ASSUME response.spelling = "Content-Length"
        PROVE  headers'.declared = Total(response.blocks) + 1
    <3>1. content_length \in Nat /\ content_length = Total(response.blocks)
      BY <1>7, <2>1, <2>2
    <3>2. content_length' = content_length + 1 /\ content_length' # Absent
      BY <1>1, <3>1 DEF Grown, Absent
    <3> QED
      BY <1>9, <2>2, <3>1, <3>2
  <2> QED
    BY <1>2, <1>9, <1>10, <2>1, <2>2
<1> QED
  BY <1>11, <1>12, <1>13, <1>14, <1>15

LEMMA RaisesKeeps ==
    ASSUME RumInv, InsertRaises
    PROVE  RumInv'
<1> USE DEF RumInv
<1>1. /\ Produce /\ stage = "answering" /\ stage' = "failed" /\ prepared' = TRUE
      /\ UNCHANGED <<response, ignore_rum, writer, content_length, called, headers, body,
                     inserted, restarts>>
      /\ ~ignore_rum
  BY DEF InsertRaises, Produce, middleware, server
<1>2. /\ todo' \in Seq(Blocks) /\ produced' \in Seq(Blocks)
      /\ produced' \o todo' = produced \o todo
  BY <1>1, Produces
<1>3. RumTypeOK'
  BY <1>1, <1>2 DEF RumTypeOK
<1>4. HeadersFirst'
  BY <1>1 DEF HeadersFirst
<1>5. (SameBlocks /\ ScriptIsFirst)'
  BY <1>1 DEF SameBlocks, ScriptIsFirst
<1>6. AnsweredOnce'
  BY <1>1, <1>2 DEF AnsweredOnce, Declared
<1> QED
  BY <1>3, <1>4, <1>5, <1>6

LEMMA EndKeeps ==
    ASSUME RumInv, End
    PROVE  RumInv'
<1> USE DEF RumInv
<1>1. /\ stage = "answering" /\ todo = << >> /\ stage' = "ended" /\ ignore_rum' = TRUE
      /\ UNCHANGED <<response, todo, content_length, prepared, body, produced, inserted,
                     restarts>>
      /\ HeadersOut
  BY DEF End, HeadersOut, history
<1>2. /\ writer' = TRUE
      /\ headers' \in [declared : Nat \cup {Absent}, tx : BOOLEAN, ok : BOOLEAN]
      /\ headers' # NoHeaders /\ called' \in {"no", "told"}
      /\ restarts = 0 => (called' = "told" => headers'.tx)
      /\ restarts = 0 /\ response.spelling = "Content-Length"
              => headers'.declared = Total(response.blocks) + Len(inserted)
  BY <1>1, HeadersAreOut
<1>3. RumTypeOK'
  BY <1>1, <1>2 DEF RumTypeOK
<1>4. HeadersFirst'
  BY <1>1, <1>2 DEF HeadersFirst
<1>5. (SameBlocks /\ ScriptIsFirst)'
  BY <1>1 DEF SameBlocks, ScriptIsFirst
<1>6. AnsweredOnce'
  BY <1>1, <1>2 DEF AnsweredOnce
<1> QED
  BY <1>3, <1>4, <1>5, <1>6

LEMMA RumNextKeeps == RumInv /\ [RumNext]_rumVars => RumInv'
<1> SUFFICES ASSUME RumInv, [RumNext]_rumVars PROVE RumInv'
  OBVIOUS
<1>1. CASE StartResponse
  BY <1>1, StartKeeps
<1>2. CASE Restart
  BY <1>2, RestartKeeps
<1>3. CASE Write \/ HandOn \/ InsertNothing
  BY <1>3, PassesOnKeeps
<1>4. CASE SkipEmpty
  BY <1>4, SkipKeeps
<1>5. CASE Insert
  BY <1>5, InsertKeeps
<1>6. CASE InsertRaises
  BY <1>6, RaisesKeeps
<1>7. CASE End
  BY <1>7, EndKeeps
<1>8. CASE Stop
  <2>1. /\ stage = "answering" /\ stage' = "stopped"
        /\ UNCHANGED <<response, todo, ignore_rum, writer, content_length, prepared, called,
                       headers, body, produced, inserted, restarts>>
    BY <1>8 DEF Stop, middleware, tracer, server, history
  <2> QED
    BY <2>1 DEF RumInv, RumTypeOK, HeadersFirst, SameBlocks, ScriptIsFirst, AnsweredOnce, Declared
<1>9. CASE UNCHANGED rumVars
  BY <1>9 DEF rumVars, middleware, tracer, server, history, RumInv, RumTypeOK, HeadersFirst,
              SameBlocks, ScriptIsFirst, AnsweredOnce, Declared
<1> QED
  BY <1>1, <1>2, <1>3, <1>4, <1>5, <1>6, <1>7, <1>8, <1>9 DEF RumNext, Idle

LEMMA RumInitInv == RumInit => RumInv
<1> SUFFICES ASSUME RumInit PROVE RumInv
  OBVIOUS
<1>1. RumTypeOK
  <2>1. /\ << >> \in Seq(Blocks) /\ << >> \in Seq(AllBlocks) /\ << >> \in Seq(BOOLEAN)
    OBVIOUS
  <2> QED
    BY <2>1 DEF RumInit, RumTypeOK, AllBlocks
<1>2. HeadersFirst
  BY DEF RumInit, HeadersFirst
<1>3. SameBlocks
  <2>1. Plain(<< >>) = << >> /\ Len(<< >>) = 0
    BY DEF Plain
  <2> QED
    BY <2>1, TotalOfNone DEF RumInit, SameBlocks
<1>4. ScriptIsFirst
  BY DEF RumInit, ScriptIsFirst
<1>5. AnsweredOnce
  <2>1. << >> \o << >> = << >>
    OBVIOUS
  <2> QED
    BY <2>1 DEF RumInit, AnsweredOnce, NoResponse
<1> QED
  BY <1>1, <1>2, <1>3, <1>4, <1>5 DEF RumInv

-----------------------------------------------------------------------------
(* Whatever the application answers, in however many blocks and however    *)
(* often it begins again: the invariant of the middleware holds.           *)
THEOREM RumInvariance == RumSpec => []RumInv
BY RumInitInv, RumNextKeeps, PTL DEF RumSpec

(* But for the script the server is given, block by block, what the        *)
(* application produced, and never a block before the headers: the loop of *)
(* __call__, write and the end of the response leave nothing behind.       *)
THEOREM OnlyTheScript == RumSpec => []Transparent
<1>1. RumInv => Transparent
  <2> SUFFICES ASSUME RumInv PROVE Transparent
    OBVIOUS
  <2>1. stage # "failed" => Sent(Plain(body)) = Sent(produced)
    BY DEF RumInv, SameBlocks
  <2>2. Sent(body) # << >> => body # << >>
    BY SentOfNone
  <2> QED
    BY <2>1, <2>2 DEF RumInv, HeadersFirst, Transparent
<1> QED
  BY <1>1, RumInvariance, PTL

(* Content-Length is the length of what was sent, with the script in it:   *)
(* write_headers is called after insert_js_to_html, with what it added.    *)
THEOREM LengthAnnounced == RumSpec => []LengthIsTrue
<1>1. RumInv => LengthIsTrue
  <2> SUFFICES ASSUME RumInv, stage = "ended", restarts = 0,
                      response.spelling = "Content-Length"
               PROVE  headers.declared = Total(body)
    BY DEF LengthIsTrue
  <2>1. writer /\ todo = << >> /\ produced \in Seq(Blocks)
    BY DEF RumInv, HeadersFirst, RumTypeOK
  <2>2. response.blocks = produced
    BY <2>1, ConcatEmptySeq DEF RumInv, AnsweredOnce
  <2>3. headers.declared = Total(response.blocks) + Len(inserted)
    BY <2>1 DEF RumInv, AnsweredOnce
  <2>4. Total(body) = Total(produced) + Len(inserted)
    BY DEF RumInv, SameBlocks
  <2> QED
    BY <2>2, <2>3, <2>4
<1> QED
  BY <1>1, RumInvariance, PTL

(* There is one script at most and nothing with content before it: only a  *)
(* response without headers is a place for one, and then they go out.      *)
THEOREM OneScriptAtMost == RumSpec => []OneScript
<1>1. RumInv => OneScript
  <2> SUFFICES ASSUME RumInv PROVE OneScript
    OBVIOUS
  <2>1. ASSUME NEW i \in DOMAIN body, body[i] = "scripted", NEW j \in 1 .. i - 1 PROVE FALSE
    BY <2>1 DEF RumInv, ScriptIsFirst
  <2> QED
    BY <2>1 DEF OneScript, RumInv, ScriptIsFirst
<1> QED
  BY <1>1, RumInvariance, PTL

(* Trace data asked for go out with the one set of headers there is.       *)
THEOREM TraceReachesCaller == RumSpec => []CallerGetsTrace
<1>1. RumInv => CallerGetsTrace
  BY DEF RumInv, HeadersFirst, AnsweredOnce, CallerGetsTrace
<1> QED
  BY <1>1, RumInvariance, PTL
===============================================================================

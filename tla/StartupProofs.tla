---------------------------- MODULE StartupProofs ----------------------------
(***************************************************************************)
(* Proofs about Startup, for any number of threads and hooks.              *)
(***************************************************************************)
EXTENDS Startup, TLAPS

(* The inductive invariant begins.                                         *)
LEMMA Begins == Init => IInv
<1> SUFFICES ASSUME Init PROVE IInv
  OBVIOUS
<1>1. TypeOK
  <2>1. /\ pc \in [Threads -> LoadPC \cup ReqPC]
        /\ \A t \in Loaders : pc[t] \in LoadPC
        /\ \A t \in Requests : pc[t] \in ReqPC
    BY DEF Init, Threads, LoadPC, ReqPC
  <2>2. got \in [Requests -> BOOLEAN]
    BY DEF Init
  <2>3. /\ hooked \in 0 .. Hooks /\ dispatchers \in {0, 1}
        /\ samplers \in 0 .. Samplers /\ copied \in 0 .. Samplers
        /\ harvest \in {0, 1} /\ activated \in {0, 1}
    BY HooksAssumption DEF Init, Samplers
  <2> QED
    BY <2>1, <2>2, <2>3 DEF Init, TypeOK
<1>2. LoadedBeforeHooks
  BY HooksAssumption, NamesAssumption DEF Init, LoadedBeforeHooks, Threads
<1>3. OneDispatcher
  BY DEF Init, OneDispatcher, Threads, Bringing
<1>4. OneProxy
  BY NamesAssumption DEF Init, OneProxy, Threads
<1>5. OneApplication
  BY NamesAssumption DEF Init, OneApplication, Threads, Registering
<1> QED
  BY <1>1, <1>2, <1>3, <1>4, <1>5 DEF IInv

(* A step of initialize touches nothing but its own part.                  *)
LEMMA LoadKeeps ==
    ASSUME IInv, NEW t \in Loaders, Load(t)
    PROVE  IInv'
<1>1. /\ t \in Threads /\ t \notin Requests /\ t # NoOne
      /\ \A u \in Requests : u \in Threads /\ u # NoOne
      /\ \A u \in Loaders : u \in Threads /\ u # NoOne
      /\ Hooks \in Nat /\ Hooks > 0
  BY NamesAssumption, HooksAssumption DEF Threads
<1>2. /\ \A u \in Requests : pc'[u] = pc[u]
      /\ UNCHANGED loadFrame
  BY <1>1 DEF Load, TakeControl, MakeEmbattle, Execute, LockInspect, Inspect, InspectRaises,
     ActivateWeapons, Goto, IInv, TypeOK
<1>3. TypeOK'
  <2>1. /\ pc' \in [Threads -> LoadPC \cup ReqPC]
        /\ \A u \in Loaders : pc'[u] \in LoadPC
    BY <1>1 DEF Load, TakeControl, MakeEmbattle, Execute, LockInspect, Inspect, InspectRaises,
       ActivateWeapons, Goto, IInv, TypeOK, LoadPC
  <2>2. hooked' \in 0 .. Hooks
    BY <1>1 DEF Load, TakeControl, MakeEmbattle, Execute, LockInspect, Inspect, InspectRaises,
       ActivateWeapons, Goto, IInv, TypeOK, LoadedBeforeHooks, loadVars
  <2>3. /\ embattle' \in {"none", "valid", "invalid"}
        /\ embattled' \in BOOLEAN /\ loaded' \in BOOLEAN /\ enabled' \in BOOLEAN
        /\ inspecting' \in Loaders \cup {NoOne}
    BY <1>1 DEF Load, TakeControl, MakeEmbattle, Execute, LockInspect, Inspect, InspectRaises,
       ActivateWeapons, Goto, IInv, TypeOK, loadVars
  <2> QED
    BY <1>2, <2>1, <2>2, <2>3
       DEF IInv, TypeOK, loadFrame, dispVars, proxVars, appVars
<1>4. LoadedBeforeHooks'
  BY <1>1 DEF Load, TakeControl, MakeEmbattle, Execute, LockInspect, Inspect, InspectRaises,
     ActivateWeapons, Goto, IInv, TypeOK, LoadedBeforeHooks, loadFrame, loadVars, dispVars,
        proxVars, appVars
<1>5. enabled' = enabled \/ hooked = 0
  BY DEF Load, TakeControl, MakeEmbattle, Execute, LockInspect, Inspect, InspectRaises,
     ActivateWeapons, Goto, IInv, TypeOK, LoadedBeforeHooks, loadVars
<1>6. OneDispatcher' /\ OneProxy' /\ OneApplication'
  BY <1>2, <1>5 DEF IInv, TypeOK, LoadedBeforeHooks, OneDispatcher, OneProxy, OneApplication,
     Bringing, Registering, loadFrame, dispVars, proxVars, appVars
<1> QED
  BY <1>3, <1>4, <1>6 DEF IInv

(* A step of a request: its own part of the invariant, and what the other  *)
(* threads rely on.                                                        *)
LEMMA ServeKeeps ==
    ASSUME IInv, NEW t \in Requests, Enter(t) \/ Serve(t)
    PROVE  IInv'
<1>1. /\ t \in Threads /\ t \notin Loaders /\ t # NoOne
      /\ \A u \in Requests : u \in Threads /\ u # NoOne
      /\ \A u \in Loaders : u \in Threads /\ u # NoOne
      /\ Hooks \in Nat /\ Hooks > 0
  BY NamesAssumption, HooksAssumption DEF Threads
<1>2. CASE Enter(t)
  <2>1. TypeOK'
    BY <1>1, <1>2 DEF Enter, Goto, Caller, IInv, TypeOK, OneDispatcher, OneProxy, OneApplication,
       Bringing, Registering, Samplers, ReqPC, loadVars, dispVars, proxVars, appVars
  <2>2. LoadedBeforeHooks'
    BY <1>1, <1>2 DEF Enter, Goto, IInv, TypeOK, LoadedBeforeHooks, OneProxy,
       loadVars, dispVars, proxVars, appVars
  <2>3. OneDispatcher'
    BY <1>1, <1>2 DEF Enter, Goto, Caller, IInv, TypeOK, OneDispatcher, OneProxy,
       Bringing, Samplers, loadVars, dispVars, proxVars, appVars
  <2>4. OneProxy'
    BY <1>1, <1>2 DEF Enter, Goto, Caller, IInv, TypeOK, OneDispatcher, OneProxy, Bringing,
       loadVars, dispVars, proxVars, appVars
  <2>5. OneApplication'
    BY <1>1, <1>2 DEF Enter, Goto, Caller, IInv, TypeOK, OneProxy, OneApplication, Registering,
       Samplers, loadVars, dispVars, proxVars, appVars
  <2> QED
    BY <2>1, <2>2, <2>3, <2>4, <2>5 DEF IInv
<1>3. CASE LookUpDispatcher(t)
  <2>1. TypeOK'
    BY <1>1, <1>3 DEF LookUpDispatcher, Goto, Caller, IInv, TypeOK, OneDispatcher, OneProxy,
       OneApplication,
       Bringing, Registering, Samplers, ReqPC, loadVars, dispVars, proxVars, appVars
  <2>2. LoadedBeforeHooks'
    BY <1>1, <1>3 DEF LookUpDispatcher, Goto, IInv, TypeOK, LoadedBeforeHooks, OneProxy,
       loadVars, dispVars, proxVars, appVars
  <2>3. OneDispatcher'
    BY <1>1, <1>3 DEF LookUpDispatcher, Goto, Caller, IInv, TypeOK, OneDispatcher, OneProxy,
       Bringing, Samplers, loadVars, dispVars, proxVars, appVars
  <2>4. OneProxy'
    <3>1. /\ dispatchers > 0 => got'[t]
          /\ \A u \in Requests : u # t => got'[u] = got[u]
      BY <1>3 DEF LookUpDispatcher, IInv, TypeOK
    <3> QED
      BY <1>1, <1>3, <3>1
         DEF LookUpDispatcher, Goto, Caller, IInv, TypeOK, OneProxy, proxVars
  <2>5. OneApplication'
    BY <1>1, <1>3 DEF LookUpDispatcher, Goto, Caller, IInv, TypeOK, OneProxy, OneApplication,
       Registering,
       Samplers, loadVars, dispVars, proxVars, appVars
  <2> QED
    BY <2>1, <2>2, <2>3, <2>4, <2>5 DEF IInv
<1>4. CASE CreateDispatcher(t)
  <2>1. TypeOK'
    BY <1>1, <1>4 DEF CreateDispatcher, Goto, Caller, IInv, TypeOK, OneDispatcher, OneProxy,
       OneApplication,
       Bringing, Registering, Samplers, ReqPC, loadVars, dispVars, proxVars, appVars
  <2>2. LoadedBeforeHooks'
    BY <1>1, <1>4 DEF CreateDispatcher, Goto, IInv, TypeOK, LoadedBeforeHooks, OneProxy,
       loadVars, dispVars, proxVars, appVars
  <2>3. OneDispatcher'
    BY <1>1, <1>4 DEF CreateDispatcher, Goto, Caller, IInv, TypeOK, OneDispatcher, OneProxy,
       Bringing, Samplers, loadVars, dispVars, proxVars, appVars
  <2>4. OneProxy'
    BY <1>1, <1>4 DEF CreateDispatcher, Goto, Caller, IInv, TypeOK, OneDispatcher, OneProxy,
       Bringing,
       loadVars, dispVars, proxVars, appVars
  <2>5. OneApplication'
    BY <1>1, <1>4 DEF CreateDispatcher, Goto, Caller, IInv, TypeOK, OneProxy, OneApplication,
       Registering,
       Samplers, loadVars, dispVars, proxVars, appVars
  <2> QED
    BY <2>1, <2>2, <2>3, <2>4, <2>5 DEF IInv
<1>5. CASE RegisterSampler(t)
  <2>1. TypeOK'
    BY <1>1, <1>5 DEF RegisterSampler, Goto, Caller, IInv, TypeOK, OneDispatcher, OneProxy,
       OneApplication,
       Bringing, Registering, Samplers, ReqPC, loadVars, dispVars, proxVars, appVars
  <2>2. LoadedBeforeHooks'
    BY <1>1, <1>5 DEF RegisterSampler, Goto, IInv, TypeOK, LoadedBeforeHooks, OneProxy,
       loadVars, dispVars, proxVars, appVars
  <2>3. OneDispatcher'
    BY <1>1, <1>5 DEF RegisterSampler, Goto, Caller, IInv, TypeOK, OneDispatcher, OneProxy,
       Bringing, Samplers, loadVars, dispVars, proxVars, appVars
  <2>4. OneProxy'
    BY <1>1, <1>5 DEF RegisterSampler, Goto, Caller, IInv, TypeOK, OneDispatcher, OneProxy,
       Bringing,
       loadVars, dispVars, proxVars, appVars
  <2>5. OneApplication'
    BY <1>1, <1>5 DEF RegisterSampler, Goto, Caller, IInv, TypeOK, OneProxy, OneApplication,
       Registering,
       Samplers, loadVars, dispVars, proxVars, appVars
  <2> QED
    BY <2>1, <2>2, <2>3, <2>4, <2>5 DEF IInv
<1>6. CASE ActiveDispatcher(t)
  <2>1. TypeOK'
    BY <1>1, <1>6 DEF ActiveDispatcher, Goto, Caller, IInv, TypeOK, OneDispatcher, OneProxy,
       OneApplication,
       Bringing, Registering, Samplers, ReqPC, loadVars, dispVars, proxVars, appVars
  <2>2. LoadedBeforeHooks'
    BY <1>1, <1>6 DEF ActiveDispatcher, Goto, IInv, TypeOK, LoadedBeforeHooks, OneProxy,
       loadVars, dispVars, proxVars, appVars
  <2>3. OneDispatcher'
    BY <1>1, <1>6 DEF ActiveDispatcher, Goto, Caller, IInv, TypeOK, OneDispatcher, OneProxy,
       Bringing, Samplers, loadVars, dispVars, proxVars, appVars
  <2>4. OneProxy'
    BY <1>1, <1>6 DEF ActiveDispatcher, Goto, Caller, IInv, TypeOK, OneDispatcher, OneProxy,
       Bringing,
       loadVars, dispVars, proxVars, appVars
  <2>5. OneApplication'
    BY <1>1, <1>6 DEF ActiveDispatcher, Goto, Caller, IInv, TypeOK, OneProxy, OneApplication,
       Registering,
       Samplers, loadVars, dispVars, proxVars, appVars
  <2> QED
    BY <2>1, <2>2, <2>3, <2>4, <2>5 DEF IInv
<1>7. CASE LookUpProxy(t)
  <2>1. TypeOK'
    BY <1>1, <1>7 DEF LookUpProxy, Goto, Caller, IInv, TypeOK, OneDispatcher, OneProxy,
       OneApplication,
       Bringing, Registering, Samplers, ReqPC, loadVars, dispVars, proxVars, appVars
  <2>2. LoadedBeforeHooks'
    BY <1>1, <1>7 DEF LookUpProxy, Goto, IInv, TypeOK, LoadedBeforeHooks, OneProxy,
       loadVars, dispVars, proxVars, appVars
  <2>3. OneDispatcher'
    BY <1>1, <1>7 DEF LookUpProxy, Goto, Caller, IInv, TypeOK, OneDispatcher, OneProxy,
       Bringing, Samplers, loadVars, dispVars, proxVars, appVars
  <2>4. OneProxy'
    BY <1>1, <1>7 DEF LookUpProxy, Goto, Caller, IInv, TypeOK, OneDispatcher, OneProxy, Bringing,
       loadVars, dispVars, proxVars, appVars
  <2>5. OneApplication'
    BY <1>1, <1>7 DEF LookUpProxy, Goto, Caller, IInv, TypeOK, OneProxy, OneApplication,
       Registering,
       Samplers, loadVars, dispVars, proxVars, appVars
  <2> QED
    BY <2>1, <2>2, <2>3, <2>4, <2>5 DEF IInv
<1>8. CASE LockProxy(t)
  <2>1. TypeOK'
    BY <1>1, <1>8 DEF LockProxy, Goto, Caller, IInv, TypeOK, OneDispatcher, OneProxy,
       OneApplication,
       Bringing, Registering, Samplers, ReqPC, loadVars, dispVars, proxVars, appVars
  <2>2. LoadedBeforeHooks'
    BY <1>1, <1>8 DEF LockProxy, Goto, IInv, TypeOK, LoadedBeforeHooks, OneProxy,
       loadVars, dispVars, proxVars, appVars
  <2>3. OneDispatcher'
    BY <1>1, <1>8 DEF LockProxy, Goto, Caller, IInv, TypeOK, OneDispatcher, OneProxy,
       Bringing, Samplers, loadVars, dispVars, proxVars, appVars
  <2>4. OneProxy'
    BY <1>1, <1>8 DEF LockProxy, Goto, Caller, IInv, TypeOK, OneDispatcher, OneProxy, Bringing,
       loadVars, dispVars, proxVars, appVars
  <2>5. OneApplication'
    BY <1>1, <1>8 DEF LockProxy, Goto, Caller, IInv, TypeOK, OneProxy, OneApplication, Registering,
       Samplers, loadVars, dispVars, proxVars, appVars
  <2> QED
    BY <2>1, <2>2, <2>3, <2>4, <2>5 DEF IInv
<1>9. CASE BindProxy(t)
  <2>1. TypeOK'
    BY <1>1, <1>9 DEF BindProxy, Goto, Caller, IInv, TypeOK, OneDispatcher, OneProxy,
       OneApplication,
       Bringing, Registering, Samplers, ReqPC, loadVars, dispVars, proxVars, appVars
  <2>2. LoadedBeforeHooks'
    BY <1>1, <1>9 DEF BindProxy, Goto, IInv, TypeOK, LoadedBeforeHooks, OneProxy,
       loadVars, dispVars, proxVars, appVars
  <2>3. OneDispatcher'
    BY <1>1, <1>9 DEF BindProxy, Goto, Caller, IInv, TypeOK, OneDispatcher, OneProxy,
       Bringing, Samplers, loadVars, dispVars, proxVars, appVars
  <2>4. OneProxy'
    <3>1. proxies = {} /\ got[t]
      BY <1>9 DEF BindProxy, Goto, IInv, OneProxy
    <3>2. \A p \in proxies' : p = [by |-> t, bound |-> got[t]]
      BY <1>9, <3>1 DEF BindProxy
    <3>3. proxies' # {}
      BY <1>9 DEF BindProxy
    <3> QED
      BY <1>1, <1>9, <3>1, <3>2, <3>3
         DEF BindProxy, Goto, IInv, TypeOK, OneProxy, dispVars
  <2>5. OneApplication'
    BY <1>1, <1>9 DEF BindProxy, Goto, Caller, IInv, TypeOK, OneProxy, OneApplication, Registering,
       Samplers, loadVars, dispVars, proxVars, appVars
  <2> QED
    BY <2>1, <2>2, <2>3, <2>4, <2>5 DEF IInv
<1>10. CASE ReadSettings(t)
  <2>1. TypeOK'
    BY <1>1, <1>10 DEF ReadSettings, Goto, Caller, IInv, TypeOK, OneDispatcher, OneProxy,
       OneApplication,
       Bringing, Registering, Samplers, ReqPC, loadVars, dispVars, proxVars, appVars
  <2>2. LoadedBeforeHooks'
    BY <1>1, <1>10 DEF ReadSettings, Goto, IInv, TypeOK, LoadedBeforeHooks, OneProxy,
       loadVars, dispVars, proxVars, appVars
  <2>3. OneDispatcher'
    BY <1>1, <1>10 DEF ReadSettings, Goto, Caller, IInv, TypeOK, OneDispatcher, OneProxy,
       Bringing, Samplers, loadVars, dispVars, proxVars, appVars
  <2>4. OneProxy'
    BY <1>1, <1>10 DEF ReadSettings, Goto, Caller, IInv, TypeOK, OneDispatcher, OneProxy, Bringing,
       loadVars, dispVars, proxVars, appVars
  <2>5. OneApplication'
    BY <1>1, <1>10 DEF ReadSettings, Goto, Caller, IInv, TypeOK, OneProxy, OneApplication,
       Registering,
       Samplers, loadVars, dispVars, proxVars, appVars
  <2> QED
    BY <2>1, <2>2, <2>3, <2>4, <2>5 DEF IInv
<1>11. CASE LookUpApplication(t)
  <2>1. TypeOK'
    BY <1>1, <1>11 DEF LookUpApplication, Goto, Caller, IInv, TypeOK, OneDispatcher, OneProxy,
       OneApplication,
       Bringing, Registering, Samplers, ReqPC, loadVars, dispVars, proxVars, appVars
  <2>2. LoadedBeforeHooks'
    BY <1>1, <1>11 DEF LookUpApplication, Goto, IInv, TypeOK, LoadedBeforeHooks, OneProxy,
       loadVars, dispVars, proxVars, appVars
  <2>3. OneDispatcher'
    BY <1>1, <1>11 DEF LookUpApplication, Goto, Caller, IInv, TypeOK, OneDispatcher, OneProxy,
       Bringing, Samplers, loadVars, dispVars, proxVars, appVars
  <2>4. OneProxy'
    BY <1>1, <1>11 DEF LookUpApplication, Goto, Caller, IInv, TypeOK, OneDispatcher, OneProxy,
       Bringing,
       loadVars, dispVars, proxVars, appVars
  <2>5. OneApplication'
    BY <1>1, <1>11 DEF LookUpApplication, Goto, Caller, IInv, TypeOK, OneProxy, OneApplication,
       Registering,
       Samplers, loadVars, dispVars, proxVars, appVars
  <2> QED
    BY <2>1, <2>2, <2>3, <2>4, <2>5 DEF IInv
<1>12. CASE RegisterApplication(t)
  <2>1. TypeOK'
    BY <1>1, <1>12 DEF RegisterApplication, Goto, Caller, IInv, TypeOK, OneDispatcher, OneProxy,
       OneApplication,
       Bringing, Registering, Samplers, ReqPC, loadVars, dispVars, proxVars, appVars
  <2>2. LoadedBeforeHooks'
    BY <1>1, <1>12 DEF RegisterApplication, Goto, IInv, TypeOK, LoadedBeforeHooks, OneProxy,
       loadVars, dispVars, proxVars, appVars
  <2>3. OneDispatcher'
    BY <1>1, <1>12 DEF RegisterApplication, Goto, Caller, IInv, TypeOK, OneDispatcher, OneProxy,
       Bringing, Samplers, loadVars, dispVars, proxVars, appVars
  <2>4. OneProxy'
    BY <1>1, <1>12 DEF RegisterApplication, Goto, Caller, IInv, TypeOK, OneDispatcher, OneProxy,
       Bringing,
       loadVars, dispVars, proxVars, appVars
  <2>5. OneApplication'
    BY <1>1, <1>12 DEF RegisterApplication, Goto, Caller, IInv, TypeOK, OneProxy, OneApplication,
       Registering,
       Samplers, loadVars, dispVars, proxVars, appVars
  <2> QED
    BY <2>1, <2>2, <2>3, <2>4, <2>5 DEF IInv
<1>13. CASE CopySamplers(t)
  <2>1. TypeOK'
    BY <1>1, <1>13 DEF CopySamplers, Goto, Caller, IInv, TypeOK, OneDispatcher, OneProxy,
       OneApplication,
       Bringing, Registering, Samplers, ReqPC, loadVars, dispVars, proxVars, appVars
  <2>2. LoadedBeforeHooks'
    BY <1>1, <1>13 DEF CopySamplers, Goto, IInv, TypeOK, LoadedBeforeHooks, OneProxy,
       loadVars, dispVars, proxVars, appVars
  <2>3. OneDispatcher'
    BY <1>1, <1>13 DEF CopySamplers, Goto, Caller, IInv, TypeOK, OneDispatcher, OneProxy,
       Bringing, Samplers, loadVars, dispVars, proxVars, appVars
  <2>4. OneProxy'
    BY <1>1, <1>13 DEF CopySamplers, Goto, Caller, IInv, TypeOK, OneDispatcher, OneProxy, Bringing,
       loadVars, dispVars, proxVars, appVars
  <2>5. OneApplication'
    BY <1>1, <1>13 DEF CopySamplers, Goto, Caller, IInv, TypeOK, OneProxy, OneApplication,
       Registering,
       Samplers, loadVars, dispVars, proxVars, appVars
  <2> QED
    BY <2>1, <2>2, <2>3, <2>4, <2>5 DEF IInv
<1>14. CASE ActivateSession(t)
  <2>1. TypeOK'
    BY <1>1, <1>14 DEF ActivateSession, Goto, Caller, IInv, TypeOK, OneDispatcher, OneProxy,
       OneApplication,
       Bringing, Registering, Samplers, ReqPC, loadVars, dispVars, proxVars, appVars
  <2>2. LoadedBeforeHooks'
    BY <1>1, <1>14 DEF ActivateSession, Goto, IInv, TypeOK, LoadedBeforeHooks, OneProxy,
       loadVars, dispVars, proxVars, appVars
  <2>3. OneDispatcher'
    BY <1>1, <1>14 DEF ActivateSession, Goto, Caller, IInv, TypeOK, OneDispatcher, OneProxy,
       Bringing, Samplers, loadVars, dispVars, proxVars, appVars
  <2>4. OneProxy'
    BY <1>1, <1>14 DEF ActivateSession, Goto, Caller, IInv, TypeOK, OneDispatcher, OneProxy,
       Bringing,
       loadVars, dispVars, proxVars, appVars
  <2>5. OneApplication'
    BY <1>1, <1>14 DEF ActivateSession, Goto, Caller, IInv, TypeOK, OneProxy, OneApplication,
       Registering,
       Samplers, loadVars, dispVars, proxVars, appVars
  <2> QED
    BY <2>1, <2>2, <2>3, <2>4, <2>5 DEF IInv
<1> QED
  BY <1>2, <1>3, <1>4, <1>5, <1>6, <1>7, <1>8, <1>9, <1>10, <1>11, <1>12, <1>13, <1>14 DEF Serve

(* Whatever threads race through the start-up, there is one Embattle, one  *)
(* Dispatcher started once, one Proxy that has it, and one application     *)
(* that is activated once.                                                 *)
THEOREM Invariance == Spec => []IInv
<1>1. IInv /\ [Next]_vars => IInv'
  <2> SUFFICES ASSUME IInv, [Next]_vars PROVE IInv'
    OBVIOUS
  <2>1. CASE \E t \in Loaders : Load(t)
    BY <2>1, LoadKeeps
  <2>2. CASE \E t \in Requests : Enter(t) \/ Serve(t)
    BY <2>2, ServeKeeps
  <2>3. CASE UNCHANGED vars
    BY <2>3 DEF vars, loadVars, dispVars, proxVars, appVars, IInv, TypeOK, LoadedBeforeHooks,
       OneDispatcher, OneProxy, OneApplication, Bringing, Registering
  <2> QED
    BY <2>1, <2>2, <2>3 DEF Next, Idle
<1> QED
  BY <1>1, Begins, PTL DEF Spec
=============================================================================

------------------------------ MODULE Startup ------------------------------
(***************************************************************************)
(* How the agent comes up inside the process of the web application.       *)
(*                                                                         *)
(*   - Loaders: threads that call tingyun.embattle.initialize (Embattle,   *)
(*     its settings and its import hooks).                                 *)
(*   - Requests: threads of the application that enter a hooked function   *)
(*     and ask for the proxy: Proxy.singleton_instance, in it              *)
(*     Dispatcher.singleton_instance, then Tracker.__init__ and            *)
(*     Dispatcher.active_application.                                      *)
(*                                                                         *)
(* Each of the singletons is looked at without its lock and again with it. *)
(* A section under a lock is one step where nothing in it shows before its *)
(* end; where something does, or another lock is taken inside, the lock    *)
(* has a holder.                                                           *)
(***************************************************************************)
EXTENDS Naturals

CONSTANTS
    Requests,       (* threads of the application                          *)
    Loaders,        (* threads that call initialize                        *)
    NoOne,          (* nobody holds the lock                               *)
    Hooks,          (* number of hooks in defined_repertoire()             *)
    Python          (* 2, or 3 for a version without Thread.isAlive        *)

ASSUME NamesAssumption  == Requests \cap Loaders = {} /\ NoOne \notin Requests \cup Loaders
ASSUME HooksAssumption  == Hooks \in Nat \ {0}
ASSUME PythonAssumption == Python \in {2, 3}

Threads == Requests \cup Loaders

VARIABLES
    pc,          (* where each thread is                                   *)
    embattle,    (* Embattle._instance: "none", "valid" or "invalid"       *)
    embattled,   (* Embattle.is_embattled                                  *)
    inspecting,  (* holder of Embattle._inspect_lock                       *)
    loaded,      (* the settings are those of the config file              *)
    enabled,     (* global_settings().enabled                              *)
    hooked,      (* hooks registered                                       *)
    dispatchers, (* Dispatchers made; Dispatcher._instance is the first    *)
    samplers,    (* length of Dispatcher.__data_sampler                    *)
    harvest,     (* Dispatcher._harvest_thread has been started: how often *)
    got,         (* the thread's dispatcher_instance() was not None        *)
    proxies,     (* Proxies made: one record each                          *)
    proxyLock,   (* holder of Proxy._lock                                  *)
    dispLock,    (* holder of Dispatcher._lock                             *)
    app,         (* Dispatcher._applications has the application           *)
    copied,      (* samplers the application has copied                    *)
    activated    (* calls of its activate_session                          *)

loadVars == <<embattle, embattled, inspecting, loaded, enabled, hooked>>
dispVars == <<dispatchers, samplers, harvest, got>>
proxVars == <<proxies, proxyLock>>
appVars  == <<app, copied, activated>>
vars == <<pc, loadVars, dispVars, proxVars, dispLock, appVars>>

Samplers == 2   (* memory_usage_sampler and cpu_usage_sampler              *)

LoadPC == {"idle", "make", "execute", "inspect", "load", "hook", "done"}
ReqPC  == {"idle", "look", "create", "sampler", "harvest", "proxies", "lock", "bind",
           "tracker", "activate", "register", "copy", "session", "done"}

Init ==
    /\ pc = [t \in Threads |-> "idle"]
    /\ embattle = "none" /\ embattled = FALSE /\ inspecting = NoOne
    /\ loaded = FALSE /\ enabled = TRUE /\ hooked = 0
    /\ dispatchers = 0 /\ samplers = 0 /\ harvest = 0
    /\ got = [t \in Requests |-> FALSE]
    /\ proxies = {} /\ proxyLock = NoOne /\ dispLock = NoOne
    /\ app = FALSE /\ copied = 0 /\ activated = 0

Goto(t, from, to) == pc[t] = from /\ pc' = [pc EXCEPT ![t] = to]

-----------------------------------------------------------------------------
(* initialize(): take_control, then execute.                               *)

loadFrame == <<dispVars, proxVars, dispLock, appVars>>

TakeControl(t) ==
    /\ Goto(t, "idle", IF embattle = "none" THEN "make" ELSE "execute")
    /\ UNCHANGED <<loadVars, loadFrame>>

(* The second look, under Embattle._lock; without a config file the        *)
(* instance is not valid.                                                  *)
MakeEmbattle(t) ==
    /\ Goto(t, "make", "execute")
    /\ IF embattle = "none" THEN embattle' \in {"valid", "invalid"}
                            ELSE UNCHANGED embattle
    /\ UNCHANGED <<embattled, inspecting, loaded, enabled, hooked, loadFrame>>

(* What execute tests before it takes the lock.                            *)
Execute(t) ==
    /\ Goto(t, "execute", IF embattle = "invalid" \/ embattled THEN "done" ELSE "inspect")
    /\ UNCHANGED <<loadVars, loadFrame>>

LockInspect(t) ==
    /\ inspecting = NoOne
    /\ Goto(t, "inspect", IF embattled THEN "done" ELSE "load")
    /\ embattled' = TRUE
    /\ inspecting' = IF embattled THEN NoOne ELSE t
    /\ UNCHANGED <<embattle, loaded, enabled, hooked, loadFrame>>

(* inspect_prerequisites read the config file ...                          *)
Inspect(t) ==
    /\ Goto(t, "load", "hook")
    /\ loaded' = TRUE /\ enabled' \in BOOLEAN
    /\ UNCHANGED <<embattle, embattled, inspecting, hooked, loadFrame>>

(* ... or could not: execute answers False, and is_embattled stays set.    *)
InspectRaises(t) ==
    /\ Goto(t, "load", "done")
    /\ inspecting' = NoOne
    /\ UNCHANGED <<embattle, embattled, loaded, enabled, hooked, loadFrame>>

(* activate_weapons, one hook at a time: the hook of a module that is      *)
(* imported already runs at once, and requests may enter what it wrapped.  *)
ActivateWeapons(t) ==
    /\ Goto(t, "hook", IF hooked + 1 = Hooks THEN "done" ELSE "hook")
    /\ hooked' = hooked + 1
    /\ inspecting' = IF hooked + 1 = Hooks THEN NoOne ELSE t
    /\ UNCHANGED <<embattle, embattled, loaded, enabled, loadFrame>>

Load(t) ==
    \/ TakeControl(t) \/ MakeEmbattle(t) \/ Execute(t) \/ LockInspect(t)
    \/ Inspect(t) \/ InspectRaises(t) \/ ActivateWeapons(t)

-----------------------------------------------------------------------------
(* Dispatcher.singleton_instance, called by Proxy.singleton_instance and,  *)
(* when that got None, once more by Proxy.__init__ under Proxy._lock.      *)

(* Where singleton_instance of the Dispatcher returns to.                  *)
Caller(t) == IF proxyLock = t THEN "bind" ELSE "proxies"

(* A request enters a hooked function.                                     *)
Enter(t) ==
    /\ hooked > 0
    /\ Goto(t, "idle", "look")
    /\ UNCHANGED <<loadVars, dispVars, proxVars, dispLock, appVars>>

LookUpDispatcher(t) ==
    /\ Goto(t, "look", IF dispatchers > 0 THEN Caller(t) ELSE "create")
    /\ got' = [got EXCEPT ![t] = dispatchers > 0]
    /\ UNCHANGED <<loadVars, dispatchers, samplers, harvest, proxVars, dispLock, appVars>>

(* Mutant of CreateDispatcher: no second look under the lock.              *)
MutCreateUnlooked(t) ==
    /\ Goto(t, "create", "sampler")
    /\ dispatchers' = dispatchers + 1
    /\ got' = [got EXCEPT ![t] = TRUE]
    /\ UNCHANGED <<loadVars, samplers, harvest, proxVars, dispLock, appVars>>

(* The second look under Dispatcher._instance_lock: who comes too late     *)
(* returns the None its variable `instance` began with.                    *)
CreateDispatcher(t) ==
    /\ Goto(t, "create", IF dispatchers > 0 THEN Caller(t) ELSE "sampler")
    /\ dispatchers' = IF dispatchers > 0 THEN dispatchers ELSE 1
    /\ got' = [got EXCEPT ![t] = dispatchers = 0]
    /\ UNCHANGED <<loadVars, samplers, harvest, proxVars, dispLock, appVars>>

(* The one who made it registers the samplers, after the lock was released.*)
RegisterSampler(t) ==
    /\ dispLock = NoOne
    /\ Goto(t, "sampler", IF samplers + 1 = Samplers THEN "harvest" ELSE "sampler")
    /\ samplers' = samplers + 1
    /\ UNCHANGED <<loadVars, dispatchers, harvest, got, proxVars, dispLock, appVars>>

(* active_dispatcher: when isAlive is gone the AttributeError is caught    *)
(* and close_dispatcher returns, as its event is not set.                  *)
ActiveDispatcher(t) ==
    /\ Goto(t, "harvest", Caller(t))
    /\ harvest' = IF enabled /\ Python = 2 THEN harvest + 1 ELSE harvest
    /\ UNCHANGED <<loadVars, dispatchers, samplers, got, proxVars, dispLock, appVars>>

-----------------------------------------------------------------------------
(* Proxy.singleton_instance.                                               *)

LookUpProxy(t) ==
    /\ Goto(t, "proxies", IF proxies # {} THEN "tracker" ELSE "lock")
    /\ UNCHANGED <<loadVars, dispVars, proxVars, dispLock, appVars>>

(* Proxy.__init__ asks for the dispatcher once more when it was given None.*)
LockProxy(t) ==
    /\ proxyLock = NoOne
    /\ \/ /\ proxies # {}
          /\ Goto(t, "lock", "tracker") /\ UNCHANGED proxVars
       \/ /\ proxies = {}
          /\ Goto(t, "lock", IF got[t] THEN "bind" ELSE "look")
          /\ proxyLock' = t /\ UNCHANGED proxies
    /\ UNCHANGED <<loadVars, dispVars, dispLock, appVars>>

(* self._dispatcher = dispatcher; Proxy._instances[app_name] = instance    *)
BindProxy(t) ==
    /\ Goto(t, "bind", "tracker")
    /\ proxies' = proxies \cup {[by |-> t, bound |-> got[t]]}
    /\ proxyLock' = NoOne
    /\ UNCHANGED <<loadVars, dispVars, dispLock, appVars>>

-----------------------------------------------------------------------------
(* Tracker.__init__ and Dispatcher.active_application.                     *)

(* The settings of a session are there at the earliest when the connect    *)
(* thread was started.                                                     *)
ReadSettings(t) ==
    /\ \/ Goto(t, "tracker", IF enabled THEN "activate" ELSE "done")
       \/ enabled /\ activated > 0 /\ Goto(t, "tracker", "done")
    /\ UNCHANGED <<loadVars, dispVars, proxVars, dispLock, appVars>>

LookUpApplication(t) ==
    /\ Goto(t, "activate", IF app THEN "done" ELSE "register")
    /\ UNCHANGED <<loadVars, dispVars, proxVars, dispLock, appVars>>

RegisterApplication(t) ==
    /\ dispLock = NoOne
    /\ Goto(t, "register", IF app THEN "done" ELSE "copy")
    /\ app' = TRUE
    /\ dispLock' = IF app THEN NoOne ELSE t
    /\ UNCHANGED <<loadVars, dispVars, proxVars, copied, activated>>

(* Mutant of CopySamplers: the dispatcher's own register_data_sampler,     *)
(* which takes the lock, is called in the place of the application's.      *)
MutCopyRelocks(t) ==
    /\ dispLock = NoOne
    /\ Goto(t, "copy", "session")
    /\ copied' = samplers
    /\ UNCHANGED <<dispLock, loadVars, dispVars, proxVars, app, activated>>

(* for s in self.__data_sampler: app.register_data_sampler(..)             *)
CopySamplers(t) ==
    /\ Goto(t, "copy", "session")
    /\ copied' = samplers
    /\ dispLock' = NoOne
    /\ UNCHANGED <<loadVars, dispVars, proxVars, app, activated>>

ActivateSession(t) ==
    /\ Goto(t, "session", "done")
    /\ activated' = activated + 1
    /\ UNCHANGED <<loadVars, dispVars, proxVars, dispLock, app, copied>>

Serve(t) ==
    \/ LookUpDispatcher(t) \/ CreateDispatcher(t) \/ RegisterSampler(t)
    \/ ActiveDispatcher(t) \/ LookUpProxy(t) \/ LockProxy(t) \/ BindProxy(t)
    \/ ReadSettings(t) \/ LookUpApplication(t) \/ RegisterApplication(t)
    \/ CopySamplers(t) \/ ActivateSession(t)

(* Every thread that came through goes on with the application's own work. *)
Idle == (\A t \in Threads : pc[t] \in {"idle", "done"}) /\ UNCHANGED vars

Next ==
    \/ \E t \in Loaders : Load(t)
    \/ \E t \in Requests : Enter(t) \/ Serve(t)
    \/ Idle

Spec == Init /\ [][Next]_vars

(* The interpreter runs every thread; nobody has to call initialize or     *)
(* send a request.                                                         *)
FairSpec ==
    /\ Spec
    /\ \A t \in Loaders : WF_vars(pc[t] # "idle" /\ Load(t))
    /\ \A t \in Requests : WF_vars(Serve(t))

-----------------------------------------------------------------------------
(* Properties.                                                             *)

TypeOK ==
    /\ pc \in [Threads -> LoadPC \cup ReqPC]
    /\ \A t \in Loaders : pc[t] \in LoadPC
    /\ \A t \in Requests : pc[t] \in ReqPC
    /\ embattle \in {"none", "valid", "invalid"}
    /\ embattled \in BOOLEAN /\ loaded \in BOOLEAN /\ enabled \in BOOLEAN
    /\ inspecting \in Loaders \cup {NoOne}
    /\ hooked \in 0 .. Hooks /\ dispatchers \in {0, 1}
    /\ samplers \in 0 .. Samplers /\ copied \in 0 .. Samplers
    /\ harvest \in {0, 1} /\ activated \in {0, 1}
    /\ got \in [Requests -> BOOLEAN]
    /\ proxies \subseteq [by : Requests, bound : BOOLEAN]
    /\ proxyLock \in Requests \cup {NoOne} /\ dispLock \in Requests \cup {NoOne}
    /\ app \in BOOLEAN

(* The settings are read and the hooks registered by one thread, in that   *)
(* order, so that no request finds the agent with its default settings.    *)
LoadedBeforeHooks ==
    /\ \A t \in Loaders :
        /\ inspecting = t <=> pc[t] \in {"load", "hook"}
        /\ pc[t] = "load" => embattled /\ ~loaded
        /\ pc[t] = "hook" => embattled /\ loaded /\ hooked < Hooks
    /\ loaded => embattled
    /\ hooked > 0 => loaded
    /\ hooked = 0 => dispatchers = 0 /\ proxies = {} /\ ~app
    /\ \A t \in Requests : pc[t] # "idle" => hooked > 0

(* One thread brings the dispatcher up: two samplers, then its thread.     *)
Bringing(t) == pc[t] \in {"sampler", "harvest"}
OneDispatcher ==
    /\ \A t, u \in Requests : Bringing(t) /\ Bringing(u) => t = u
    /\ \A t \in Requests :
        /\ Bringing(t) => dispatchers = 1 /\ harvest = 0
        /\ pc[t] = "sampler" => samplers < Samplers
        /\ pc[t] = "harvest" => samplers = Samplers
    /\ dispatchers = 0 => samplers = 0 /\ harvest = 0
    /\ dispatchers = 1 /\ (\A t \in Requests : ~Bringing(t)) =>
            /\ samplers = Samplers
            /\ enabled /\ Python = 2 => harvest = 1

(* There is one proxy, and it has the dispatcher, also when the thread     *)
(* that makes it had lost the race for the dispatcher: when it was told    *)
(* None there was one.                                                     *)
OneProxy ==
    /\ \A p, q \in proxies : p = q
    /\ \A p \in proxies : p.bound
    /\ \A t \in Requests :
        /\ proxyLock = t => pc[t] \in {"look", "bind"} /\ proxies = {}
        /\ pc[t] = "bind" => proxyLock = t /\ got[t]
        /\ proxyLock = t \/ pc[t] \in {"proxies", "lock"} => dispatchers = 1
        /\ pc[t] \in {"tracker", "activate", "register", "copy", "session"} => proxies # {}

(* One thread registers the application and activates its session, and the *)
(* session is not activated before the samplers were copied.               *)
Registering(t) == pc[t] \in {"copy", "session"}
OneApplication ==
    /\ \A t, u \in Requests : Registering(t) /\ Registering(u) => t = u
    /\ \A t \in Requests :
        /\ Registering(t) => app /\ activated = 0
        /\ dispLock = t <=> pc[t] = "copy"
        /\ pc[t] \in {"activate", "register", "copy", "session"} => enabled
    /\ app => enabled /\ proxies # {}
    /\ ~app => activated = 0 /\ copied = 0
    /\ app /\ (\A t \in Requests : ~Registering(t)) => activated = 1

(* The inductive invariant: whatever threads race through the start-up     *)
(* (inspection.py:54-67, 197-225; dispatcher.py:61-82, 205-238;            *)
(* proxy.py:40-63), there is one Embattle, one Dispatcher with its thread  *)
(* started once, one Proxy that has it, and one application activated once.*)
IInv ==
    /\ TypeOK
    /\ LoadedBeforeHooks
    /\ OneDispatcher
    /\ OneProxy
    /\ OneApplication

(* Nobody waits for ever on the locks that are taken inside each other     *)
(* (Proxy._lock over Dispatcher._instance_lock, proxy.py:57-59; the        *)
(* dispatcher's _lock, dispatcher.py:190-227): who calls initialize or     *)
(* enters a hooked function comes through, and once an application is      *)
(* activated the harvest thread will be started, whoever made it.          *)
ComesUp ==
    /\ \A t \in Threads : pc[t] # "idle" ~> pc[t] = "done"
    /\ activated > 0 ~> harvest = 1

(* "Agent was initialized before." (inspection.py:207): initialize says so *)
(* to its caller while another thread is still at it.                      *)
InitializedBefore ==
    \A t \in Loaders : pc[t] = "done" => embattle = "invalid" \/ inspecting = NoOne

(* "agent was initialized before, skip it now." (inspection.py:213): also  *)
(* said for ever after an attempt that failed.                             *)
InitializedWell ==
    (\E t, u \in Loaders : t # u /\ pc[t] = "done" /\ pc[u] = "done") =>
        embattle = "invalid" \/ loaded

(* register_data_sampler is meant for every application                    *)
(* (dispatcher.py:232-233): one that is registered before the creator of   *)
(* the dispatcher came to its samplers goes without them for ever.         *)
SamplersComplete == activated > 0 => copied = Samplers
=============================================================================

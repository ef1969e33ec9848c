---------------------------- MODULE AgentSession ----------------------------
(***************************************************************************)
(* The session of the agent with its server, and every thread that reads   *)
(* or writes it:                                                           *)
(*                                                                         *)
(*   - the harvest thread (Dispatcher._harvest_loop, _do_harvest) which    *)
(*     uploads for every application once a minute, gives a session up on  *)
(*     an error and asks for a new one;                                    *)
(*   - the connect thread of an application                                *)
(*     (Application.connect_to_headquarters), started by activate_session; *)
(*   - the request threads of the web application: Tracker.__init__ reads  *)
(*     the settings of the session and registers the application, and      *)
(*     Dispatcher.record_tracker reads the session again at the end;       *)
(*   - the exit hook (Dispatcher._atexit_shutdown).                        *)
(*                                                                         *)
(* A step is what a thread does between two points where the interpreter   *)
(* may switch to another one and the other can tell the difference. What   *)
(* is recorded and uploaded is not modelled here: a harvest is its outcome.*)
(***************************************************************************)
EXTENDS Naturals, FiniteSets

CONSTANTS
    Apps,           (* application names, the keys of Dispatcher._applications *)
    Slots,          (* Thread objects for the connect threads of one application *)
    Requests,       (* threads of the web application                      *)
    NoThread,       (* connect_thread is None                              *)
    NoApp,          (* the harvest thread is between two applications      *)
    MaxSessions,    (* bound: sessions the server opens per application    *)
    MaxRetry        (* MAX_RETRY_UPLOAD_FAILED_TIMES                       *)

ASSUME SessionsAssumption == MaxSessions \in Nat \ {0}
ASSUME RetryAssumption    == MaxRetry \in Nat
ASSUME NamesAssumption    == NoThread \notin Slots /\ NoApp \notin Apps
ASSUME FiniteAssumption   == IsFiniteSet(Apps)

VARIABLES
    applications,     (* Dispatcher._applications                          *)
    session,          (* Application._active_session: NoSession or the how-manieth *)
    epoch,            (* sessions the application has had                  *)
    settings,         (* the session whose config the packager has         *)
    event,            (* Application._connect_event is set                 *)
    thread,           (* Application.connect_thread                        *)
    conn,             (* where each Thread object of an application is     *)
    retry,            (* Application.retry_upload_times                    *)
    hpc,              (* where the harvest thread is                       *)
    happ,             (* the application it harvests                       *)
    hseen,            (* applications the loop of _do_harvest has visited  *)
    hsize,            (* size of the dictionary when its iterator was made *)
    hsnap,            (* settings the harvested snapshot was taken under   *)
    rpc,              (* where each request thread is                      *)
    rapp,             (* the application it records for, or NoApp           *)
    processShutdown,  (* Dispatcher._process_shutdown                      *)
    harvestShutdown,  (* Dispatcher._harvest_shutdown is set               *)
    exited,           (* the interpreter is gone, and its threads with it  *)
    refused,          (* history: activate_session answered False to the harvest *)
    mended            (* history: an upload went well since retry was last 0 *)

sessVars  == <<session, epoch, settings>>
connVars  == <<event, thread, conn>>
harvVars  == <<hpc, happ, hseen, hsize, hsnap>>
reqVars   == <<rpc, rapp>>
exitVars  == <<processShutdown, harvestShutdown, exited>>
histVars  == <<refused, mended>>
vars == <<applications, sessVars, connVars, retry, harvVars, reqVars, exitVars, histVars>>

NoSession == 0

(* Points of connect_to_headquarters. *)
ConnPC == {"dead", "loop", "connecting", "waiting", "announce", "publish", "reset"}

(* Points of _harvest_loop, _do_harvest and Application.harvest. *)
HarvPC == {"idle", "next", "check", "snapshot", "upload", "revoked", "exhausted",
           "activate", "start", "dead"}

(* Points of Tracker.__init__ and Dispatcher.record_tracker. *)
ReqPC == {"idle", "register", "activate", "start", "again", "config", "serving",
          "enabled", "flag", "raised"}

Alive(a, s) == conn[a][s] # "dead"

(* Mutant of PacketsLockFree: the session is published without the lock.   *)
MutLockNotTaken(a) == TRUE

(* Application._packets_lock: the one section that others can look into    *)
(* while the lock is held is the end of connect_to_headquarters.           *)
PacketsLockFree(a) == \A s \in Slots : conn[a][s] # "reset"

Init ==
    /\ applications = {}
    /\ session  = [a \in Apps |-> NoSession]
    /\ epoch    = [a \in Apps |-> 0]
    /\ settings = [a \in Apps |-> NoSession]
    /\ event    = [a \in Apps |-> FALSE]
    /\ thread   = [a \in Apps |-> NoThread]
    /\ conn     = [a \in Apps |-> [s \in Slots |-> "dead"]]
    /\ retry    = [a \in Apps |-> 0]
    /\ hpc = "idle" /\ happ = NoApp /\ hseen = {} /\ hsize = 0 /\ hsnap = NoSession
    /\ rpc  = [r \in Requests |-> "idle"]
    /\ rapp = [r \in Requests |-> NoApp]
    /\ processShutdown = FALSE /\ harvestShutdown = FALSE /\ exited = FALSE
    /\ refused = [a \in Apps |-> FALSE]
    /\ mended  = [a \in Apps |-> FALSE]

-----------------------------------------------------------------------------
(* Application.activate_session: refuse while the recorded thread lives,   *)
(* otherwise clear the event and start a new thread in a free slot.        *)

(* Mutant of ConnectThreadAlive: activate_session does not look.           *)
MutConnectThreadForgotten(a) == FALSE

ConnectThreadAlive(a) == thread[a] # NoThread /\ Alive(a, thread[a])

(* Mutant of StartConnectThread: no _connect_event.clear().                *)
MutStartUncleared(a, s) ==
    /\ ~Alive(a, s)
    /\ thread' = [thread EXCEPT ![a] = s]
    /\ conn'   = [conn EXCEPT ![a][s] = "loop"]
    /\ UNCHANGED event

StartConnectThread(a, s) ==
    /\ ~Alive(a, s)
    /\ event'  = [event EXCEPT ![a] = FALSE]
    /\ thread' = [thread EXCEPT ![a] = s]
    /\ conn'   = [conn EXCEPT ![a][s] = "loop"]

-----------------------------------------------------------------------------
(* The connect thread.                                                     *)

ConnGoto(a, s, from, to) ==
    /\ ~exited
    /\ conn[a][s] = from
    /\ conn' = [conn EXCEPT ![a][s] = to]

connFrame == <<applications, thread, harvVars, reqVars, exitVars, refused>>

(* while not self._active_session: self.retry_upload_times = 0 *)
ConnectLoop(a, s) ==
    /\ ConnGoto(a, s, "loop", IF session[a] = NoSession THEN "connecting" ELSE "dead")
    /\ IF session[a] = NoSession
         THEN retry' = [retry EXCEPT ![a] = 0] /\ mended' = [mended EXCEPT ![a] = FALSE]
         ELSE UNCHANGED <<retry, mended>>
    /\ UNCHANGED <<connFrame, sessVars, event>>

(* create_connection returned a session; the finally clause looks at the   *)
(* event first, and the session is thrown away when it is set.             *)
CreateConnectionOk(a, s) ==
    /\ ConnGoto(a, s, "connecting", IF event[a] THEN "dead" ELSE "announce")
    /\ UNCHANGED <<connFrame, sessVars, event, retry, mended>>

(* create_connection raised, whatever the reason: it wraps every error.    *)
CreateConnectionFails(a, s) ==
    /\ ConnGoto(a, s, "connecting", "waiting")
    /\ UNCHANGED <<connFrame, sessVars, event, retry, mended>>

(* self._connect_event.wait(60) is over, by the event or by the time.      *)
WaitEnds(a, s) ==
    /\ ConnGoto(a, s, "waiting", IF event[a] THEN "dead" ELSE "loop")
    /\ UNCHANGED <<connFrame, sessVars, event, retry, mended>>

(* Mutant of Announce: no _connect_event.set().                            *)
MutAnnounceUnset(a, s) ==
    /\ ConnGoto(a, s, "announce", "publish")
    /\ UNCHANGED <<connFrame, sessVars, event, retry, mended>>

(* self._connect_event.set(); self.start_sampler() *)
Announce(a, s) ==
    /\ ConnGoto(a, s, "announce", "publish")
    /\ event' = [event EXCEPT ![a] = TRUE]
    /\ UNCHANGED <<connFrame, sessVars, retry, mended>>

(* with self._packets_lock: self._active_session = active_session *)
PublishSession(a, s) ==
    /\ PacketsLockFree(a)
    /\ ConnGoto(a, s, "publish", "reset")
    /\ epoch'   = [epoch EXCEPT ![a] = @ + 1]
    /\ session' = [session EXCEPT ![a] = epoch[a] + 1]
    /\ UNCHANGED <<connFrame, settings, event, retry, mended>>

(* ... self._packager.reset_packets(self._active_session.config) *)
ResetPackets(a, s) ==
    /\ ConnGoto(a, s, "reset", "loop")
    /\ settings' = [settings EXCEPT ![a] = session[a]]
    /\ UNCHANGED <<connFrame, session, epoch, event, retry, mended>>

Connect(a, s) ==
    \/ ConnectLoop(a, s)
    \/ CreateConnectionOk(a, s)
    \/ CreateConnectionFails(a, s)
    \/ WaitEnds(a, s)
    \/ Announce(a, s)
    \/ PublishSession(a, s)
    \/ ResetPackets(a, s)

-----------------------------------------------------------------------------
(* The harvest thread.                                                     *)

harvFrame == <<applications, epoch, settings, reqVars, exitVars>>

HarvGoto(from, to) == ~exited /\ hpc = from /\ hpc' = to

(* The timer of _harvest_loop is over; _do_harvest opens an iterator over  *)
(* the applications. A set event would mean a last harvest and the end of  *)
(* the thread, but nothing ever sets it: see CloseDispatcher.              *)
HarvestTick ==
    /\ ~harvestShutdown
    /\ HarvGoto("idle", "next")
    /\ hseen' = {} /\ hsize' = Cardinality(applications)
    /\ UNCHANGED <<harvFrame, session, connVars, retry, happ, hsnap, histVars>>

(* The iterator gives an application it has not given yet.                 *)
NextApplication(a) ==
    /\ HarvGoto("next", "check")
    /\ Cardinality(applications) = hsize
    /\ a \in applications \ hseen
    /\ happ' = a /\ hseen' = hseen \cup {a}
    /\ UNCHANGED <<harvFrame, session, connVars, retry, hsize, hsnap, histVars>>

RoundDone ==
    /\ HarvGoto("next", "idle")
    /\ Cardinality(applications) = hsize
    /\ applications \subseteq hseen
    /\ happ' = NoApp /\ hseen' = {} /\ hsize' = 0
    /\ UNCHANGED <<harvFrame, session, connVars, retry, hsnap, histVars>>

(* The dictionary has grown under the iterator: RuntimeError, which leaves *)
(* _do_harvest and then the loop of _harvest_loop.                         *)
IterationFails ==
    /\ HarvGoto("next", "dead")
    /\ Cardinality(applications) # hsize
    /\ happ' = NoApp
    /\ UNCHANGED <<harvFrame, session, connVars, retry, hseen, hsize, hsnap, histVars>>

(* Application.harvest: without a session, CONSTANCE_SESSION_NOT_ACTIVED.  *)
CheckSession ==
    /\ HarvGoto("check", IF session[happ] = NoSession THEN "next" ELSE "snapshot")
    /\ UNCHANGED <<harvFrame, session, connVars, retry, happ, hseen, hsize, hsnap, histVars>>

(* with self._packets_lock: stat = self._packager.packets_snapshot() *)
TakeSnapshot ==
    /\ HarvGoto("snapshot", "upload")
    /\ PacketsLockFree(happ)
    /\ hsnap' = settings[happ]
    /\ UNCHANGED <<harvFrame, session, connVars, retry, happ, hseen, hsize, histVars>>

(* Every request was answered well, or the server has the agent disabled.  *)
UploadOk ==
    /\ HarvGoto("upload", "next")
    /\ hsnap' = NoSession
    /\ mended' = [mended EXCEPT ![happ] = @ \/ retry[happ] > 0]
    /\ UNCHANGED <<harvFrame, session, connVars, retry, happ, hseen, hsize, refused>>

(* DiscardDataForRequest or any other exception: the data is lost.         *)
UploadError ==
    /\ HarvGoto("upload", "next")
    /\ hsnap' = NoSession
    /\ UNCHANGED <<harvFrame, session, connVars, retry, happ, hseen, hsize, histVars>>

RetriesLeft == retry[happ] < MaxRetry

(* RetryDataForRequest, and retries are left: count it and roll back.      *)
UploadRetry ==
    /\ HarvGoto("upload", "next")
    /\ PacketsLockFree(happ)
    /\ RetriesLeft
    /\ retry' = [retry EXCEPT ![happ] = @ + 1]
    /\ hsnap' = NoSession
    /\ UNCHANGED <<harvFrame, session, connVars, happ, hseen, hsize, histVars>>

(* self._active_session = None and a code that makes the dispatcher act.   *)
DropSession(why) ==
    /\ HarvGoto("upload", why)
    /\ epoch[happ] < MaxSessions
    /\ session' = [session EXCEPT ![happ] = NoSession]
    /\ hsnap' = NoSession
    /\ UNCHANGED <<harvFrame, connVars, retry, happ, hseen, hsize, histVars>>

(* OutOfDateConfig, InvalidDataToken, InvalidLicense from the server.      *)
SessionRevoked == DropSession("revoked")

(* RetryDataForRequest, and no retry is left.                              *)
RetryExhausted ==
    /\ DropSession("exhausted")
    /\ ~RetriesLeft

(* application.stop_connecting() *)
StopConnecting ==
    /\ \E why \in {"revoked", "exhausted"} : HarvGoto(why, "activate")
    /\ event' = [event EXCEPT ![happ] = TRUE]
    /\ UNCHANGED <<harvFrame, session, thread, conn, retry, happ, hseen, hsize, hsnap, histVars>>

(* application.activate_session(), by the harvest thread                   *)
ReactivateCheck ==
    /\ HarvGoto("activate", IF ConnectThreadAlive(happ) THEN "next" ELSE "start")
    /\ refused' = [refused EXCEPT ![happ] = @ \/ ConnectThreadAlive(happ)]
    /\ UNCHANGED <<harvFrame, session, connVars, retry, happ, hseen, hsize, hsnap, mended>>

ReactivateStart(s) ==
    /\ HarvGoto("start", "next")
    /\ StartConnectThread(happ, s)
    /\ UNCHANGED <<harvFrame, session, retry, happ, hseen, hsize, hsnap, histVars>>

Harvest ==
    \/ HarvestTick
    \/ \E a \in Apps : NextApplication(a)
    \/ RoundDone
    \/ IterationFails
    \/ CheckSession
    \/ TakeSnapshot
    \/ UploadOk
    \/ UploadError
    \/ UploadRetry
    \/ SessionRevoked
    \/ RetryExhausted
    \/ StopConnecting
    \/ ReactivateCheck
    \/ \E s \in Slots : ReactivateStart(s)

-----------------------------------------------------------------------------
(* A request thread. application_config is                                 *)
(*     self._active_session and self._active_session.config                *)
(* two reads, and the caller of Dispatcher.record_tracker reads once more  *)
(* before them.                                                            *)

reqFrame == <<sessVars, retry, harvVars, exitVars, histVars>>

ReqGoto(r, from, to) == ~exited /\ rpc[r] = from /\ rpc' = [rpc EXCEPT ![r] = to]

Connected(r) == session[rapp[r]] # NoSession

(* Tracker.__init__: proxy.settings, first read.                           *)
BeginRequest(r, a) ==
    /\ ReqGoto(r, "idle", IF session[a] # NoSession THEN "config" ELSE "register")
    /\ rapp' = [rapp EXCEPT ![r] = a]
    /\ UNCHANGED <<reqFrame, applications, connVars>>

(* Mutant of RegisterApplication: no second look at the dictionary under   *)
(* Dispatcher._lock.                                                       *)
MutRegisterUnlooked(r) ==
    /\ ReqGoto(r, "register", "activate")
    /\ applications' = applications \cup {rapp[r]}
    /\ UNCHANGED <<reqFrame, rapp, connVars>>

(* Dispatcher.active_application: the section under Dispatcher._lock.      *)
RegisterApplication(r) ==
    /\ ReqGoto(r, "register", IF rapp[r] \in applications THEN "again" ELSE "activate")
    /\ applications' = applications \cup {rapp[r]}
    /\ UNCHANGED <<reqFrame, rapp, connVars>>

(* app.activate_session(), by the thread that registered the application   *)
ActivateCheck(r) ==
    /\ ReqGoto(r, "activate", IF ConnectThreadAlive(rapp[r]) THEN "again" ELSE "start")
    /\ UNCHANGED <<reqFrame, rapp, applications, connVars>>

ActivateStart(r, s) ==
    /\ ReqGoto(r, "start", "again")
    /\ StartConnectThread(rapp[r], s)
    /\ UNCHANGED <<reqFrame, rapp, applications>>

(* self._settings = proxy.settings once more; without, nothing is traced.  *)
ReadSettingsAgain(r) ==
    /\ ReqGoto(r, "again", IF Connected(r) THEN "config" ELSE "idle")
    /\ rapp' = [rapp EXCEPT ![r] = IF Connected(r) THEN @ ELSE NoApp]
    /\ UNCHANGED <<reqFrame, applications, connVars>>

(* ... self._active_session.config, the second read *)
ReadConfig(r) ==
    /\ ReqGoto(r, "config", IF Connected(r) THEN "serving" ELSE "raised")
    /\ UNCHANGED <<reqFrame, rapp, applications, connVars>>

(* Dispatcher.record_tracker: application.active *)
FinishRequest(r) ==
    /\ ReqGoto(r, "serving", IF Connected(r) THEN "enabled" ELSE "idle")
    /\ rapp' = [rapp EXCEPT ![r] = IF Connected(r) THEN @ ELSE NoApp]
    /\ UNCHANGED <<reqFrame, applications, connVars>>

(* application.application_config.enabled, first read: None has no enabled *)
ReadEnabled(r) ==
    /\ ReqGoto(r, "enabled", IF Connected(r) THEN "flag" ELSE "raised")
    /\ UNCHANGED <<reqFrame, rapp, applications, connVars>>

(* ... second read: None has no config. The tracker is recorded or not.    *)
ReadFlag(r) ==
    /\ ReqGoto(r, "flag", IF Connected(r) THEN "idle" ELSE "raised")
    /\ rapp' = [rapp EXCEPT ![r] = IF Connected(r) THEN NoApp ELSE @]
    /\ UNCHANGED <<reqFrame, applications, connVars>>

(* The AttributeError leaves the agent through the request; the thread of  *)
(* the server goes on to another one.                                      *)
RequestBroken(r) ==
    /\ ReqGoto(r, "raised", "idle")
    /\ rapp' = [rapp EXCEPT ![r] = NoApp]
    /\ UNCHANGED <<reqFrame, applications, connVars>>

Request(r) ==
    \/ \E a \in Apps : BeginRequest(r, a)
    \/ RegisterApplication(r)
    \/ ActivateCheck(r)
    \/ \E s \in Slots : ActivateStart(r, s)
    \/ ReadSettingsAgain(r)
    \/ ReadConfig(r)
    \/ FinishRequest(r)
    \/ ReadEnabled(r)
    \/ ReadFlag(r)
    \/ RequestBroken(r)

-----------------------------------------------------------------------------
(* The exit hook. close_dispatcher returns at once unless the harvest      *)
(* thread was told to stop already; the rest of it tells connect threads   *)
(* and harvest thread to stop and waits for the latter for a limited time. *)

CloseDispatcher ==
    IF ~harvestShutdown
      THEN UNCHANGED <<harvestShutdown, event>>
      ELSE /\ event' = [a \in Apps |-> event[a] \/ a \in applications]
           /\ harvestShutdown' = TRUE

exitFrame == <<applications, sessVars, thread, conn, retry, harvVars, reqVars, histVars>>

AtExitShutdown ==
    /\ ~processShutdown
    /\ processShutdown' = TRUE
    /\ CloseDispatcher
    /\ UNCHANGED <<exitFrame, exited>>

(* The interpreter goes down and the daemon threads go with it.            *)
InterpreterExit ==
    /\ processShutdown /\ ~exited
    /\ exited' = TRUE
    /\ UNCHANGED <<exitFrame, event, processShutdown, harvestShutdown>>

Exited == exited /\ UNCHANGED vars

-----------------------------------------------------------------------------
Next ==
    \/ \E a \in Apps, s \in Slots : Connect(a, s)
    \/ Harvest
    \/ \E r \in Requests : Request(r)
    \/ AtExitShutdown
    \/ InterpreterExit
    \/ Exited

Spec == Init /\ [][Next]_vars

(* Threads are scheduled, waits time out and uploads return; the server    *)
(* does not refuse a registration for ever. Nobody owes a request.         *)
Fairness ==
    /\ \A a \in Apps, s \in Slots :
         /\ WF_vars(Connect(a, s))
         /\ SF_vars(CreateConnectionOk(a, s))
    /\ WF_vars(Harvest)
    /\ \A r \in Requests :
         /\ WF_vars(ActivateCheck(r))
         /\ WF_vars(\E s \in Slots : ActivateStart(r, s))

FairSpec == Spec /\ Fairness

-----------------------------------------------------------------------------
(* The type of every variable.                                             *)
TypeOK ==
    /\ applications \subseteq Apps
    /\ session  \in [Apps -> 0 .. MaxSessions]
    /\ epoch    \in [Apps -> 0 .. MaxSessions]
    /\ settings \in [Apps -> 0 .. MaxSessions]
    /\ event  \in [Apps -> BOOLEAN]
    /\ thread \in [Apps -> Slots \cup {NoThread}]
    /\ conn   \in [Apps -> [Slots -> ConnPC]]
    /\ retry  \in [Apps -> 0 .. MaxRetry]
    /\ hpc \in HarvPC /\ happ \in Apps \cup {NoApp}
    /\ hseen \subseteq Apps /\ hsize \in Nat /\ hsnap \in 0 .. MaxSessions
    /\ rpc  \in [Requests -> ReqPC]
    /\ rapp \in [Requests -> Apps \cup {NoApp}]
    /\ processShutdown \in BOOLEAN /\ harvestShutdown \in BOOLEAN /\ exited \in BOOLEAN
    /\ refused \in [Apps -> BOOLEAN] /\ mended \in [Apps -> BOOLEAN]

(* An application never has two connect threads at work, whoever starts    *)
(* them: the request that registers the application or the harvest thread  *)
(* that lost its session (the is_alive test of activate_session).          *)
OneConnectThread ==
    \A a \in Apps : \A s, t \in Slots : Alive(a, s) /\ Alive(a, t) => s = t

(* What the harvest thread uploads over a session was snapshot under the   *)
(* settings of that very session: it cannot see the session published but  *)
(* the packager not yet reset, although it tests the session unlocked.     *)
HarvestUsesSessionSettings ==
    hpc = "upload" => hsnap = session[happ]

(* A new session starts with all its retries: the connect thread zeroes    *)
(* the counter long before it publishes, and the harvest thread does not   *)
(* count in between.                                                       *)
FreshSessionFreshRetries ==
    [][\A a \in Apps : session[a] = NoSession /\ session'[a] # NoSession => retry[a] = 0]_vars

(* The harvest thread has given the session of a up and is about to ask    *)
(* for a new one, or a request thread has just registered a.               *)
Restarting(a) ==
    \/ happ = a /\ hpc \in {"revoked", "exhausted", "activate", "start"}
    \/ \E r \in Requests : rapp[r] = a /\ rpc[r] \in {"activate", "start"}

(* A connect thread that will publish a session in the end: it would not   *)
(* be stopped by the event after its next attempt.                         *)
Connecting(a) ==
    \E s \in Slots :
        \/ conn[a][s] \in {"announce", "publish"}
        \/ conn[a][s] \in {"loop", "connecting", "waiting"} /\ ~event[a]

(* An activated application without a session is being connected, unless   *)
(* activate_session refused once because the old connect thread had not    *)
(* quite ended.                                                            *)
NoSessionIsConnecting ==
    \A a \in applications :
        session[a] = NoSession => Connecting(a) \/ Restarting(a) \/ refused[a]

(* That refusal is final: the application has no session ever after.       *)
RefusalIsFinal ==
    [][\A a \in Apps : refused[a] => session[a] = NoSession /\ session'[a] = NoSession]_vars

(* What AgentSession implements.                                           *)
Abstract == INSTANCE AppSession

(* Sessions come and go as AppSession says: never one over another one,    *)
(* never an old one again.                                                 *)
ImplementsAppSession == Abstract!AbsSpec

(* A registered application without a session gets one, the first time and *)
(* after each loss, unless its reactivation was refused: as long as the    *)
(* server does not refuse for ever and the process lives on.               *)
Reconnects ==
    \A a \in Apps :
        (a \in applications /\ session[a] = NoSession)
            ~> (session[a] # NoSession \/ refused[a] \/ exited)

-----------------------------------------------------------------------------
(* The inductive invariant behind the safety properties above.             *)

(* The Thread object recorded last is the only one that may be at work.    *)
RecordedThreadOnly == \A a \in Apps, s \in Slots : Alive(a, s) => thread[a] = s

(* Sessions are numbered by epoch, and the bound leaves room for one more. *)
SessionsNumbered ==
    \A a \in Apps :
        /\ session[a] \in {NoSession, epoch[a]}
        /\ session[a] = NoSession => epoch[a] < MaxSessions

(* Before its first connect thread an application has nothing, and only    *)
(* the one request that registered it goes on to start that thread.        *)
FirstThread ==
    /\ \A a \in Apps : a \notin applications => thread[a] = NoThread
    /\ \A a \in Apps : thread[a] = NoThread => session[a] = NoSession
    /\ \A r \in Requests : rpc[r] \in {"activate", "start"} =>
          /\ rapp[r] \in applications
          /\ thread[rapp[r]] = NoThread
          /\ \A q \in Requests : rpc[q] \in {"activate", "start"} /\ rapp[q] = rapp[r] => q = r

(* A connect thread past the test of its loop works for an application     *)
(* without a session and without counted retries.                          *)
ConnectsWithoutSession ==
    \A a \in Apps, s \in Slots :
        conn[a][s] \in {"connecting", "waiting", "announce", "publish"} =>
            session[a] = NoSession /\ retry[a] = 0

(* A session in use has stopped further attempts, and its config is in the *)
(* packager except in the middle of the locked section that puts it there. *)
SessionSettled ==
    \A a \in Apps :
        /\ (session[a] # NoSession \/ \E s \in Slots : conn[a][s] = "publish") => event[a]
        /\ session[a] # NoSession /\ PacketsLockFree(a) => settings[a] = session[a]
        /\ ~PacketsLockFree(a) => session[a] # NoSession

(* What remains of the old connect thread when its session is lost.        *)
Leftover(a) ==
    /\ event[a] /\ session[a] = NoSession /\ thread[a] # NoThread
    /\ \A s \in Slots : conn[a][s] \in {"dead", "loop", "connecting", "waiting"}

HarvestInProgress ==
    /\ hpc \notin {"idle", "next", "dead"} => happ \in applications
    /\ hpc \in {"snapshot", "upload"} => session[happ] # NoSession
    /\ hpc = "upload" => PacketsLockFree(happ) /\ hsnap = session[happ]
    /\ hpc \in {"revoked", "exhausted", "activate", "start"} => Leftover(happ)
    /\ hpc = "start" => \A s \in Slots : ~Alive(happ, s)

RequestInProgress == \A r \in Requests : rpc[r] # "idle" => rapp[r] \in Apps

(* A refused application keeps what the old connect thread left, for ever. *)
RefusedStays ==
    \A a \in Apps : refused[a] =>
        /\ Leftover(a)
        /\ hpc \in {"revoked", "exhausted", "activate", "start"} => happ # a

NeverSignalled == harvestShutdown = FALSE

IInv ==
    /\ TypeOK
    /\ RecordedThreadOnly
    /\ SessionsNumbered
    /\ FirstThread
    /\ ConnectsWithoutSession
    /\ SessionSettled
    /\ HarvestInProgress
    /\ RequestInProgress
    /\ RefusedStays
    /\ NeverSignalled
    /\ NoSessionIsConnecting

-----------------------------------------------------------------------------
(* What comments and messages of the source say, and the code does not do. *)

(* "controller should ignore session/license error code, because the       *)
(* connecting thread doing/did it" (application.py:193): a harvest that    *)
(* finds no session can count on a connect thread, or on its starter.      *)
SkipOnlyWhileConnecting ==
    hpc = "check" /\ session[happ] = NoSession => Connecting(happ) \/ Restarting(happ)

(* "shutdown the controller through the event signal" (dispatcher.py:249): *)
(* when the exit hook has run, the harvest thread was told.                *)
ExitSignalsController == processShutdown => harvestShutdown

(* "four minutes" (mapper.py:18), "if this error continues"                *)
(* (application.py:285): retries end a session only when they are a row    *)
(* of failures, with no successful upload between them.                    *)
OnlyARowOfFailuresDrops ==
    hpc = "exhausted" => ~mended[happ]

(* "server disabled or agent not registered, skip to record the tracker    *)
(* data" (dispatcher.py:276): a session that ends while record_tracker     *)
(* looks at it means no record, never an error in the request.             *)
UnregisteredIsSkipped ==
    [][\A r \in Requests : rpc[r] \in {"enabled", "flag"} => rpc'[r] # "raised"]_vars

(* The message of _harvest_loop calls an exception there unexpected        *)
(* (dispatcher.py:139): the harvest thread lives as long as the process.   *)
HarvestLoopSurvives == hpc # "dead"
=============================================================================

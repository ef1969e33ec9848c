------------------------- MODULE AgentSessionProofs -------------------------
(***************************************************************************)
(* Proofs about AgentSession, for any applications, slots and requests and *)
(* any number of sessions and retries.                                     *)
(*                                                                         *)
(* IInv is inductive: one lemma per thread (connect, harvest, request,     *)
(* exit) takes its actions through the conjuncts of IInv.  The invariant   *)
(* gives the safety properties the runs check, the two action properties   *)
(* and the refinement of AppSession; SessionMoves is what the action       *)
(* property FreshRetries and the refinement have in common.                *)
(***************************************************************************)
EXTENDS AgentSession, TLAPS, FiniteSetTheorems

USE SessionsAssumption, RetryAssumption, NamesAssumption
USE DEF connFrame, harvFrame, reqFrame, sessVars, connVars, harvVars, reqVars, exitVars,
        histVars, ConnGoto, HarvGoto, ReqGoto, Connected, ConnectThreadAlive,
        StartConnectThread, DropSession, PacketsLockFree, Alive, NoSession, RetriesLeft

(* A connect thread keeps the invariant: it publishes only while there is no*)
(* session, and only one of the threads is recorded.                       *)
LEMMA ConnectKeepsIInv ==
    ASSUME NEW a \in Apps, NEW s \in Slots, IInv, Connect(a, s)
    PROVE  IInv'
<1> USE DEF IInv, TypeOK
<1>1. TypeOK'
  <2>1. ASSUME ConnectLoop(a, s) PROVE TypeOK'
    <3>1. conn' \in [Apps -> [Slots -> ConnPC]]
      BY <2>1 DEF ConnectLoop, ConnPC
    <3>2. retry' \in [Apps -> 0 .. MaxRetry] /\ mended' \in [Apps -> BOOLEAN]
      <4>1. CASE session[a] = NoSession
        <5>1. retry' = [retry EXCEPT ![a] = 0] /\ mended' = [mended EXCEPT ![a] = FALSE]
          BY <2>1, <4>1 DEF ConnectLoop
        <5>2. QED
          BY <5>1
      <4>2. CASE session[a] # NoSession
        BY <2>1, <4>2 DEF ConnectLoop
      <4>3. QED
        BY <4>1, <4>2
    <3>3. QED
      BY <2>1, <3>1, <3>2 DEF ConnectLoop
  <2>2. ASSUME CreateConnectionOk(a, s) PROVE TypeOK'
    BY <2>2 DEF ConnPC, CreateConnectionOk
  <2>3. ASSUME CreateConnectionFails(a, s) PROVE TypeOK'
    BY <2>3 DEF ConnPC, CreateConnectionFails
  <2>4. ASSUME WaitEnds(a, s) PROVE TypeOK'
    BY <2>4 DEF ConnPC, WaitEnds
  <2>5. ASSUME Announce(a, s) PROVE TypeOK'
    BY <2>5 DEF ConnPC, Announce
  <2>6. ASSUME PublishSession(a, s) PROVE TypeOK'
    BY <2>6 DEF SessionsNumbered, ConnectsWithoutSession, ConnPC, PublishSession
  <2>7. ASSUME ResetPackets(a, s) PROVE TypeOK'
    BY <2>7 DEF ConnPC, ResetPackets
  <2>8. QED
    BY <2>1, <2>2, <2>3, <2>4, <2>5, <2>6, <2>7 DEF Connect
<1>2. RecordedThreadOnly'
  BY DEF RecordedThreadOnly, Connect, ConnectLoop, CreateConnectionOk, CreateConnectionFails,
         WaitEnds, Announce, PublishSession, ResetPackets
<1>3. SessionsNumbered'
  <2>1. ASSUME ConnectLoop(a, s) PROVE SessionsNumbered'
    BY <2>1 DEF SessionsNumbered, ConnectLoop
  <2>2. ASSUME CreateConnectionOk(a, s) PROVE SessionsNumbered'
    BY <2>2 DEF SessionsNumbered, CreateConnectionOk
  <2>3. ASSUME CreateConnectionFails(a, s) PROVE SessionsNumbered'
    BY <2>3 DEF SessionsNumbered, CreateConnectionFails
  <2>4. ASSUME WaitEnds(a, s) PROVE SessionsNumbered'
    BY <2>4 DEF SessionsNumbered, WaitEnds
  <2>5. ASSUME Announce(a, s) PROVE SessionsNumbered'
    BY <2>5 DEF SessionsNumbered, Announce
  <2>6. ASSUME PublishSession(a, s) PROVE SessionsNumbered'
    BY <2>6 DEF SessionsNumbered, PublishSession
  <2>7. ASSUME ResetPackets(a, s) PROVE SessionsNumbered'
    BY <2>7 DEF SessionsNumbered, ResetPackets
  <2>8. QED
    BY <2>1, <2>2, <2>3, <2>4, <2>5, <2>6, <2>7 DEF Connect
<1>4. FirstThread'
  BY DEF FirstThread, RecordedThreadOnly, Connect, ConnectLoop, CreateConnectionOk,
         CreateConnectionFails, WaitEnds, Announce, PublishSession, ResetPackets
<1>5. ConnectsWithoutSession'
  <2>1. ASSUME ConnectLoop(a, s) PROVE ConnectsWithoutSession'
    BY <2>1 DEF ConnectsWithoutSession, ConnectLoop
  <2>2. ASSUME CreateConnectionOk(a, s) PROVE ConnectsWithoutSession'
    BY <2>2 DEF ConnectsWithoutSession, CreateConnectionOk
  <2>3. ASSUME CreateConnectionFails(a, s) PROVE ConnectsWithoutSession'
    BY <2>3 DEF ConnectsWithoutSession, CreateConnectionFails
  <2>4. ASSUME WaitEnds(a, s) PROVE ConnectsWithoutSession'
    BY <2>4 DEF ConnectsWithoutSession, WaitEnds
  <2>5. ASSUME Announce(a, s) PROVE ConnectsWithoutSession'
    BY <2>5 DEF ConnectsWithoutSession, Announce
  <2>6. ASSUME PublishSession(a, s) PROVE ConnectsWithoutSession'
    BY <2>6 DEF ConnectsWithoutSession, RecordedThreadOnly, PublishSession
  <2>7. ASSUME ResetPackets(a, s) PROVE ConnectsWithoutSession'
    BY <2>7 DEF ConnectsWithoutSession, ResetPackets
  <2>8. QED
    BY <2>1, <2>2, <2>3, <2>4, <2>5, <2>6, <2>7 DEF Connect
<1>6. SessionSettled'
  BY DEF SessionSettled, ConnectsWithoutSession, SessionsNumbered, NeverSignalled, Connect,
         ConnectLoop, CreateConnectionOk, CreateConnectionFails, WaitEnds, Announce,
         PublishSession, ResetPackets
<1>7. HarvestInProgress'
  <2>1. ASSUME ConnectLoop(a, s) PROVE HarvestInProgress'
    BY <2>1 DEF HarvestInProgress, Leftover, ConnectLoop
  <2>2. ASSUME CreateConnectionOk(a, s) PROVE HarvestInProgress'
    BY <2>2 DEF HarvestInProgress, Leftover, CreateConnectionOk
  <2>3. ASSUME CreateConnectionFails(a, s) PROVE HarvestInProgress'
    BY <2>3 DEF HarvestInProgress, Leftover, CreateConnectionFails
  <2>4. ASSUME WaitEnds(a, s) PROVE HarvestInProgress'
    BY <2>4 DEF HarvestInProgress, Leftover, WaitEnds
  <2>5. ASSUME Announce(a, s) PROVE HarvestInProgress'
    BY <2>5 DEF HarvestInProgress, Leftover, Announce
  <2>6. ASSUME PublishSession(a, s) PROVE HarvestInProgress'
    BY <2>6 DEF HarvestInProgress, RecordedThreadOnly, ConnectsWithoutSession, Leftover,
                PublishSession
  <2>7. ASSUME ResetPackets(a, s) PROVE HarvestInProgress'
    BY <2>7 DEF HarvestInProgress, Leftover, ResetPackets
  <2>8. QED
    BY <2>1, <2>2, <2>3, <2>4, <2>5, <2>6, <2>7 DEF Connect
<1>8. RequestInProgress'
  BY DEF RequestInProgress, Connect, ConnectLoop, CreateConnectionOk, CreateConnectionFails,
         WaitEnds, Announce, PublishSession, ResetPackets
<1>9. RefusedStays'
  <2> SUFFICES ASSUME NEW b \in Apps, refused[b]
               PROVE  Leftover(b)'
    BY DEF RefusedStays, Connect, ConnectLoop, CreateConnectionOk, CreateConnectionFails,
           WaitEnds, Announce, PublishSession, ResetPackets
  <2>1. Leftover(b)
    BY DEF RefusedStays
  <2>2. QED
    BY <2>1 DEF Leftover, Connect, ConnectLoop, CreateConnectionOk, CreateConnectionFails,
                WaitEnds, Announce, PublishSession, ResetPackets
<1>10. NeverSignalled'
  BY DEF NeverSignalled, Connect, ConnectLoop, CreateConnectionOk, CreateConnectionFails,
         WaitEnds, Announce, PublishSession, ResetPackets
<1>11. NoSessionIsConnecting'
  <2> SUFFICES ASSUME NEW b \in applications, session'[b] = NoSession,
                      ~Restarting(b), ~refused[b]
               PROVE  Connecting(b)'
    BY DEF NoSessionIsConnecting, Restarting, Connect, ConnectLoop, CreateConnectionOk,
           CreateConnectionFails, WaitEnds, Announce, PublishSession, ResetPackets
  <2>1. ASSUME session[b] = NoSession
        PROVE  Connecting(b)
    BY <2>1 DEF NoSessionIsConnecting
  <2>2. CASE ConnectLoop(a, s)
    BY <2>1, <2>2 DEF Connecting, ConnectLoop
  <2>3. CASE CreateConnectionOk(a, s)
    BY <2>1, <2>3 DEF Connecting, CreateConnectionOk
  <2>4. CASE CreateConnectionFails(a, s)
    BY <2>1, <2>4 DEF Connecting, CreateConnectionFails
  <2>5. CASE WaitEnds(a, s)
    BY <2>1, <2>5 DEF Connecting, WaitEnds
  <2>6. CASE Announce(a, s)
    BY <2>1, <2>6 DEF Connecting, Announce
  <2>7. CASE PublishSession(a, s)
    BY <2>1, <2>7 DEF Connecting, PublishSession
  <2>8. CASE ResetPackets(a, s)
    BY <2>1, <2>8 DEF Connecting, ResetPackets
  <2>9. QED
    BY <2>2, <2>3, <2>4, <2>5, <2>6, <2>7, <2>8 DEF Connect
<1>12. QED
  BY <1>1, <1>2, <1>3, <1>4, <1>5, <1>6, <1>7, <1>8, <1>9, <1>10, <1>11

(* The harvest thread keeps it: it holds the packets lock while it drops a *)
(* session, and activate_session starts a thread only where none is alive. *)
LEMMA HarvestKeepsIInv ==
    ASSUME IInv, Harvest
    PROVE  IInv'
<1> USE DEF IInv, TypeOK
<1>1. TypeOK'
  <2>1. ASSUME HarvestTick PROVE TypeOK'
    BY <2>1, FiniteAssumption, FS_Subset, FS_CardinalityType DEF HarvPC, HarvestTick
  <2>2. ASSUME NEW b \in Apps, NextApplication(b) PROVE TypeOK'
    BY <2>2 DEF HarvPC, NextApplication
  <2>3. ASSUME RoundDone PROVE TypeOK'
    BY <2>3 DEF HarvPC, RoundDone
  <2>4. ASSUME IterationFails PROVE TypeOK'
    BY <2>4 DEF HarvPC, IterationFails
  <2>5. ASSUME CheckSession PROVE TypeOK'
    BY <2>5 DEF HarvPC, CheckSession
  <2>6. ASSUME TakeSnapshot PROVE TypeOK'
    BY <2>6 DEF HarvestInProgress, HarvPC, TakeSnapshot
  <2>7. ASSUME UploadOk PROVE TypeOK'
    BY <2>7 DEF HarvestInProgress, HarvPC, UploadOk
  <2>8. ASSUME UploadError PROVE TypeOK'
    BY <2>8 DEF HarvPC, UploadError
  <2>9. ASSUME UploadRetry PROVE TypeOK'
    BY <2>9 DEF HarvestInProgress, HarvPC, UploadRetry
  <2>10. ASSUME SessionRevoked PROVE TypeOK'
    BY <2>10 DEF HarvestInProgress, HarvPC, SessionRevoked
  <2>11. ASSUME RetryExhausted PROVE TypeOK'
    BY <2>11 DEF HarvestInProgress, HarvPC, RetryExhausted
  <2>12. ASSUME StopConnecting PROVE TypeOK'
    BY <2>12 DEF HarvPC, StopConnecting
  <2>13. ASSUME ReactivateCheck PROVE TypeOK'
    BY <2>13 DEF HarvPC, ReactivateCheck
  <2>14. ASSUME NEW t \in Slots, ReactivateStart(t) PROVE TypeOK'
    BY <2>14 DEF HarvPC, ConnPC, ReactivateStart
  <2>15. QED
    BY <2>1, <2>2, <2>3, <2>4, <2>5, <2>6, <2>7, <2>8, <2>9, <2>10, <2>11, <2>12, <2>13, <2>14
       DEF Harvest
<1>2. RecordedThreadOnly'
  BY DEF RecordedThreadOnly, HarvestInProgress, Harvest, HarvestTick, NextApplication,
         RoundDone, IterationFails, CheckSession, TakeSnapshot, UploadOk, UploadError,
         UploadRetry, SessionRevoked, RetryExhausted, StopConnecting, ReactivateCheck,
         ReactivateStart
<1>3. SessionsNumbered'
  BY DEF SessionsNumbered, Harvest, HarvestTick, NextApplication, RoundDone, IterationFails,
         CheckSession, TakeSnapshot, UploadOk, UploadError, UploadRetry, SessionRevoked,
         RetryExhausted, StopConnecting, ReactivateCheck, ReactivateStart
<1>4. FirstThread'
  BY DEF FirstThread, HarvestInProgress, Leftover, Harvest, HarvestTick, NextApplication,
         RoundDone, IterationFails, CheckSession, TakeSnapshot, UploadOk, UploadError,
         UploadRetry, SessionRevoked, RetryExhausted, StopConnecting, ReactivateCheck,
         ReactivateStart
<1>5. ConnectsWithoutSession'
  BY DEF ConnectsWithoutSession, HarvestInProgress, Harvest, HarvestTick, NextApplication,
         RoundDone, IterationFails, CheckSession, TakeSnapshot, UploadOk, UploadError,
         UploadRetry, SessionRevoked, RetryExhausted, StopConnecting, ReactivateCheck,
         ReactivateStart
<1>6. SessionSettled'
  <2>1. ASSUME HarvestTick PROVE SessionSettled'
    BY <2>1 DEF SessionSettled, HarvestTick
  <2>2. ASSUME NEW b \in Apps, NextApplication(b) PROVE SessionSettled'
    BY <2>2 DEF SessionSettled, NextApplication
  <2>3. ASSUME RoundDone PROVE SessionSettled'
    BY <2>3 DEF SessionSettled, RoundDone
  <2>4. ASSUME IterationFails PROVE SessionSettled'
    BY <2>4 DEF SessionSettled, IterationFails
  <2>5. ASSUME CheckSession PROVE SessionSettled'
    BY <2>5 DEF SessionSettled, CheckSession
  <2>6. ASSUME TakeSnapshot PROVE SessionSettled'
    BY <2>6 DEF SessionSettled, TakeSnapshot
  <2>7. ASSUME UploadOk PROVE SessionSettled'
    BY <2>7 DEF SessionSettled, UploadOk
  <2>8. ASSUME UploadError PROVE SessionSettled'
    BY <2>8 DEF SessionSettled, UploadError
  <2>9. ASSUME UploadRetry PROVE SessionSettled'
    BY <2>9 DEF SessionSettled, UploadRetry
  <2>10. ASSUME SessionRevoked PROVE SessionSettled'
    BY <2>10 DEF SessionSettled, HarvestInProgress, SessionRevoked
  <2>11. ASSUME RetryExhausted PROVE SessionSettled'
    BY <2>11 DEF SessionSettled, HarvestInProgress, RetryExhausted
  <2>12. ASSUME StopConnecting PROVE SessionSettled'
    BY <2>12 DEF SessionSettled, StopConnecting
  <2>13. ASSUME ReactivateCheck PROVE SessionSettled'
    BY <2>13 DEF SessionSettled, ReactivateCheck
  <2>14. ASSUME NEW t \in Slots, ReactivateStart(t) PROVE SessionSettled'
    BY <2>14 DEF SessionSettled, HarvestInProgress, Leftover, ReactivateStart
  <2>15. QED
    BY <2>1, <2>2, <2>3, <2>4, <2>5, <2>6, <2>7, <2>8, <2>9, <2>10, <2>11, <2>12, <2>13, <2>14
       DEF Harvest
<1>7. HarvestInProgress'
  BY DEF HarvestInProgress, RecordedThreadOnly, FirstThread, ConnectsWithoutSession,
         SessionSettled, Leftover, ConnPC, Harvest, HarvestTick, NextApplication, RoundDone,
         IterationFails, CheckSession, TakeSnapshot, UploadOk, UploadError, UploadRetry,
         SessionRevoked, RetryExhausted, StopConnecting, ReactivateCheck, ReactivateStart
<1>8. RequestInProgress'
  BY DEF RequestInProgress, Harvest, HarvestTick, NextApplication, RoundDone, IterationFails,
         CheckSession, TakeSnapshot, UploadOk, UploadError, UploadRetry, SessionRevoked,
         RetryExhausted, StopConnecting, ReactivateCheck, ReactivateStart
<1>9. RefusedStays'
  BY DEF RefusedStays, Leftover, HarvestInProgress, Harvest, HarvestTick, NextApplication,
         RoundDone, IterationFails, CheckSession, TakeSnapshot, UploadOk, UploadError,
         UploadRetry, SessionRevoked, RetryExhausted, StopConnecting, ReactivateCheck,
         ReactivateStart
<1>10. NeverSignalled'
  BY DEF NeverSignalled, Harvest, HarvestTick, NextApplication, RoundDone, IterationFails,
         CheckSession, TakeSnapshot, UploadOk, UploadError, UploadRetry, SessionRevoked,
         RetryExhausted, StopConnecting, ReactivateCheck, ReactivateStart
<1>11. NoSessionIsConnecting'
  <2>1. ASSUME HarvestTick PROVE NoSessionIsConnecting'
    BY <2>1 DEF NoSessionIsConnecting, Connecting, Restarting, HarvestTick
  <2>2. ASSUME NEW b \in Apps, NextApplication(b) PROVE NoSessionIsConnecting'
    BY <2>2 DEF NoSessionIsConnecting, Connecting, Restarting, NextApplication
  <2>3. ASSUME RoundDone PROVE NoSessionIsConnecting'
    BY <2>3 DEF NoSessionIsConnecting, Connecting, Restarting, RoundDone
  <2>4. ASSUME IterationFails PROVE NoSessionIsConnecting'
    BY <2>4 DEF NoSessionIsConnecting, Connecting, Restarting, IterationFails
  <2>5. ASSUME CheckSession PROVE NoSessionIsConnecting'
    BY <2>5 DEF NoSessionIsConnecting, Connecting, Restarting, CheckSession
  <2>6. ASSUME TakeSnapshot PROVE NoSessionIsConnecting'
    BY <2>6 DEF NoSessionIsConnecting, Connecting, Restarting, TakeSnapshot
  <2>7. ASSUME UploadOk PROVE NoSessionIsConnecting'
    BY <2>7 DEF NoSessionIsConnecting, Connecting, Restarting, UploadOk
  <2>8. ASSUME UploadError PROVE NoSessionIsConnecting'
    BY <2>8 DEF NoSessionIsConnecting, Connecting, Restarting, UploadError
  <2>9. ASSUME UploadRetry PROVE NoSessionIsConnecting'
    BY <2>9 DEF NoSessionIsConnecting, Connecting, Restarting, UploadRetry
  <2>10. ASSUME SessionRevoked PROVE NoSessionIsConnecting'
    BY <2>10 DEF NoSessionIsConnecting, Connecting, Restarting, SessionRevoked
  <2>11. ASSUME RetryExhausted PROVE NoSessionIsConnecting'
    BY <2>11 DEF NoSessionIsConnecting, Connecting, Restarting, RetryExhausted
  <2>12. ASSUME StopConnecting PROVE NoSessionIsConnecting'
    BY <2>12 DEF NoSessionIsConnecting, Connecting, Restarting, StopConnecting
  <2>13. ASSUME ReactivateCheck PROVE NoSessionIsConnecting'
    BY <2>13 DEF NoSessionIsConnecting, Connecting, Restarting, ReactivateCheck
  <2>14. ASSUME NEW t \in Slots, ReactivateStart(t) PROVE NoSessionIsConnecting'
    BY <2>14 DEF NoSessionIsConnecting, Connecting, Restarting, ReactivateStart
  <2>15. QED
    BY <2>1, <2>2, <2>3, <2>4, <2>5, <2>6, <2>7, <2>8, <2>9, <2>10, <2>11, <2>12, <2>13, <2>14
       DEF Harvest
<1>12. QED
  BY <1>1, <1>2, <1>3, <1>4, <1>5, <1>6, <1>7, <1>8, <1>9, <1>10, <1>11

(* A request thread keeps it: the Dispatcher lock lets one request register*)
(* an application, and only that one starts its first connect thread.      *)
LEMMA RequestKeepsIInv ==
    ASSUME NEW r \in Requests, IInv, Request(r)
    PROVE  IInv'
<1> USE DEF IInv, TypeOK
<1>1. TypeOK'
  <2>1. ASSUME NEW b \in Apps, BeginRequest(r, b) PROVE TypeOK'
    BY <2>1 DEF ReqPC, BeginRequest
  <2>2. ASSUME RegisterApplication(r) PROVE TypeOK'
    BY <2>2 DEF RequestInProgress, ReqPC, RegisterApplication
  <2>3. ASSUME ActivateCheck(r) PROVE TypeOK'
    BY <2>3 DEF ReqPC, ActivateCheck
  <2>4. ASSUME NEW t \in Slots, ActivateStart(r, t) PROVE TypeOK'
    BY <2>4 DEF ReqPC, ConnPC, ActivateStart
  <2>5. ASSUME ReadSettingsAgain(r) PROVE TypeOK'
    BY <2>5 DEF ReqPC, ReadSettingsAgain
  <2>6. ASSUME ReadConfig(r) PROVE TypeOK'
    BY <2>6 DEF ReqPC, ReadConfig
  <2>7. ASSUME FinishRequest(r) PROVE TypeOK'
    BY <2>7 DEF ReqPC, FinishRequest
  <2>8. ASSUME ReadEnabled(r) PROVE TypeOK'
    BY <2>8 DEF ReqPC, ReadEnabled
  <2>9. ASSUME ReadFlag(r) PROVE TypeOK'
    BY <2>9 DEF ReqPC, ReadFlag
  <2>10. ASSUME RequestBroken(r) PROVE TypeOK'
    BY <2>10 DEF ReqPC, RequestBroken
  <2>11. QED
    BY <2>1, <2>2, <2>3, <2>4, <2>5, <2>6, <2>7, <2>8, <2>9, <2>10 DEF Request
<1>2. RecordedThreadOnly'
  BY DEF RecordedThreadOnly, FirstThread, Request, BeginRequest, RegisterApplication,
         ActivateCheck, ActivateStart, ReadSettingsAgain, ReadConfig, FinishRequest,
         ReadEnabled, ReadFlag, RequestBroken
<1>3. SessionsNumbered'
  BY DEF SessionsNumbered, Request, BeginRequest, RegisterApplication, ActivateCheck,
         ActivateStart, ReadSettingsAgain, ReadConfig, FinishRequest, ReadEnabled, ReadFlag,
         RequestBroken
<1>4. FirstThread'
  <2>1. ASSUME NEW b \in Apps, BeginRequest(r, b) PROVE FirstThread'
    BY <2>1 DEF FirstThread, ConnPC, BeginRequest
  <2>2. ASSUME RegisterApplication(r) PROVE FirstThread'
    BY <2>2 DEF FirstThread, RecordedThreadOnly, RequestInProgress, RegisterApplication
  <2>3. ASSUME ActivateCheck(r) PROVE FirstThread'
    BY <2>3 DEF FirstThread, ConnPC, ActivateCheck
  <2>4. ASSUME NEW t \in Slots, ActivateStart(r, t) PROVE FirstThread'
    BY <2>4 DEF FirstThread, ConnPC, ActivateStart
  <2>5. ASSUME ReadSettingsAgain(r) PROVE FirstThread'
    BY <2>5 DEF FirstThread, ConnPC, ReadSettingsAgain
  <2>6. ASSUME ReadConfig(r) PROVE FirstThread'
    BY <2>6 DEF FirstThread, ConnPC, ReadConfig
  <2>7. ASSUME FinishRequest(r) PROVE FirstThread'
    BY <2>7 DEF FirstThread, ConnPC, FinishRequest
  <2>8. ASSUME ReadEnabled(r) PROVE FirstThread'
    BY <2>8 DEF FirstThread, ConnPC, ReadEnabled
  <2>9. ASSUME ReadFlag(r) PROVE FirstThread'
    BY <2>9 DEF FirstThread, ConnPC, ReadFlag
  <2>10. ASSUME RequestBroken(r) PROVE FirstThread'
    BY <2>10 DEF FirstThread, ConnPC, RequestBroken
  <2>11. QED
    BY <2>1, <2>2, <2>3, <2>4, <2>5, <2>6, <2>7, <2>8, <2>9, <2>10 DEF Request
<1>5. ConnectsWithoutSession'
  <2>1. ASSUME NEW b \in Apps, BeginRequest(r, b) PROVE ConnectsWithoutSession'
    BY <2>1 DEF ConnectsWithoutSession, BeginRequest
  <2>2. ASSUME RegisterApplication(r) PROVE ConnectsWithoutSession'
    BY <2>2 DEF ConnectsWithoutSession, RegisterApplication
  <2>3. ASSUME ActivateCheck(r) PROVE ConnectsWithoutSession'
    BY <2>3 DEF ConnectsWithoutSession, ActivateCheck
  <2>4. ASSUME NEW t \in Slots, ActivateStart(r, t) PROVE ConnectsWithoutSession'
    BY <2>4 DEF ConnectsWithoutSession, ActivateStart
  <2>5. ASSUME ReadSettingsAgain(r) PROVE ConnectsWithoutSession'
    BY <2>5 DEF ConnectsWithoutSession, ReadSettingsAgain
  <2>6. ASSUME ReadConfig(r) PROVE ConnectsWithoutSession'
    BY <2>6 DEF ConnectsWithoutSession, ReadConfig
  <2>7. ASSUME FinishRequest(r) PROVE ConnectsWithoutSession'
    BY <2>7 DEF ConnectsWithoutSession, FinishRequest
  <2>8. ASSUME ReadEnabled(r) PROVE ConnectsWithoutSession'
    BY <2>8 DEF ConnectsWithoutSession, ReadEnabled
  <2>9. ASSUME ReadFlag(r) PROVE ConnectsWithoutSession'
    BY <2>9 DEF ConnectsWithoutSession, ReadFlag
  <2>10. ASSUME RequestBroken(r) PROVE ConnectsWithoutSession'
    BY <2>10 DEF ConnectsWithoutSession, RequestBroken
  <2>11. QED
    BY <2>1, <2>2, <2>3, <2>4, <2>5, <2>6, <2>7, <2>8, <2>9, <2>10 DEF Request
<1>6. SessionSettled'
  <2>1. ASSUME NEW b \in Apps, BeginRequest(r, b) PROVE SessionSettled'
    BY <2>1 DEF SessionSettled, BeginRequest
  <2>2. ASSUME RegisterApplication(r) PROVE SessionSettled'
    BY <2>2 DEF SessionSettled, RegisterApplication
  <2>3. ASSUME ActivateCheck(r) PROVE SessionSettled'
    BY <2>3 DEF SessionSettled, ActivateCheck
  <2>4. ASSUME NEW t \in Slots, ActivateStart(r, t) PROVE SessionSettled'
    <3> DEFINE b == rapp[r]
    <3>1. b \in Apps /\ thread[b] = NoThread /\ session[b] = NoSession
      BY <2>4 DEF ActivateStart, FirstThread
    <3>2. \A u \in Slots : conn[b][u] = "dead"
      BY <3>1 DEF RecordedThreadOnly
    <3>3. \A c \in Apps : c # b => conn'[c] = conn[c] /\ event'[c] = event[c]
      BY <2>4 DEF ActivateStart
    <3>4. \A u \in Slots : conn'[b][u] \in {"dead", "loop"}
      BY <2>4, <3>1, <3>2 DEF ActivateStart
    <3>5. session' = session /\ settings' = settings
      BY <2>4 DEF ActivateStart
    <3>6. SUFFICES ASSUME NEW c \in Apps
                   PROVE  /\ session'[c] # NoSession \/ (\E u \in Slots : conn'[c][u] = "publish")
                               => event'[c]
                          /\ session'[c] # NoSession /\ PacketsLockFree(c)'
                               => settings'[c] = session'[c]
                          /\ ~PacketsLockFree(c)' => session'[c] # NoSession
      BY DEF SessionSettled
    <3>7. CASE c = b
      BY <3>1, <3>4, <3>5, <3>7
    <3>8. CASE c # b
      BY <3>3, <3>5, <3>8 DEF SessionSettled
    <3>9. QED
      BY <3>7, <3>8
  <2>5. ASSUME ReadSettingsAgain(r) PROVE SessionSettled'
    BY <2>5 DEF SessionSettled, ReadSettingsAgain
  <2>6. ASSUME ReadConfig(r) PROVE SessionSettled'
    BY <2>6 DEF SessionSettled, ReadConfig
  <2>7. ASSUME FinishRequest(r) PROVE SessionSettled'
    BY <2>7 DEF SessionSettled, FinishRequest
  <2>8. ASSUME ReadEnabled(r) PROVE SessionSettled'
    BY <2>8 DEF SessionSettled, ReadEnabled
  <2>9. ASSUME ReadFlag(r) PROVE SessionSettled'
    BY <2>9 DEF SessionSettled, ReadFlag
  <2>10. ASSUME RequestBroken(r) PROVE SessionSettled'
    BY <2>10 DEF SessionSettled, RequestBroken
  <2>11. QED
    BY <2>1, <2>2, <2>3, <2>4, <2>5, <2>6, <2>7, <2>8, <2>9, <2>10 DEF Request
<1>7. HarvestInProgress'
  <2>1. ASSUME NEW b \in Apps, BeginRequest(r, b) PROVE HarvestInProgress'
    BY <2>1 DEF HarvestInProgress, RecordedThreadOnly, FirstThread, Leftover, ConnPC,
                BeginRequest
  <2>2. ASSUME RegisterApplication(r) PROVE HarvestInProgress'
    BY <2>2 DEF HarvestInProgress, RecordedThreadOnly, FirstThread, Leftover, ConnPC,
                RegisterApplication
  <2>3. ASSUME ActivateCheck(r) PROVE HarvestInProgress'
    BY <2>3 DEF HarvestInProgress, RecordedThreadOnly, FirstThread, Leftover, ConnPC,
                ActivateCheck
  <2>4. ASSUME NEW t \in Slots, ActivateStart(r, t) PROVE HarvestInProgress'
    BY <2>4 DEF HarvestInProgress, RecordedThreadOnly, FirstThread, Leftover, ConnPC,
                ActivateStart
  <2>5. ASSUME ReadSettingsAgain(r) PROVE HarvestInProgress'
    BY <2>5 DEF HarvestInProgress, RecordedThreadOnly, FirstThread, Leftover, ConnPC,
                ReadSettingsAgain
  <2>6. ASSUME ReadConfig(r) PROVE HarvestInProgress'
    BY <2>6 DEF HarvestInProgress, RecordedThreadOnly, FirstThread, Leftover, ConnPC, ReadConfig
  <2>7. ASSUME FinishRequest(r) PROVE HarvestInProgress'
    BY <2>7 DEF HarvestInProgress, RecordedThreadOnly, FirstThread, Leftover, ConnPC,
                FinishRequest
  <2>8. ASSUME ReadEnabled(r) PROVE HarvestInProgress'
    BY <2>8 DEF HarvestInProgress, RecordedThreadOnly, FirstThread, Leftover, ConnPC,
                ReadEnabled
  <2>9. ASSUME ReadFlag(r) PROVE HarvestInProgress'
    BY <2>9 DEF HarvestInProgress, RecordedThreadOnly, FirstThread, Leftover, ConnPC, ReadFlag
  <2>10. ASSUME RequestBroken(r) PROVE HarvestInProgress'
    BY <2>10 DEF HarvestInProgress, RecordedThreadOnly, FirstThread, Leftover, ConnPC,
                 RequestBroken
  <2>11. QED
    BY <2>1, <2>2, <2>3, <2>4, <2>5, <2>6, <2>7, <2>8, <2>9, <2>10 DEF Request
<1>8. RequestInProgress'
  BY DEF RequestInProgress, Request, BeginRequest, RegisterApplication, ActivateCheck,
         ActivateStart, ReadSettingsAgain, ReadConfig, FinishRequest, ReadEnabled, ReadFlag,
         RequestBroken
<1>9. RefusedStays'
  BY DEF RefusedStays, Leftover, HarvestInProgress, FirstThread, Request, BeginRequest,
         RegisterApplication, ActivateCheck, ActivateStart, ReadSettingsAgain, ReadConfig,
         FinishRequest, ReadEnabled, ReadFlag, RequestBroken
<1>10. NeverSignalled'
  BY DEF NeverSignalled, Request, BeginRequest, RegisterApplication, ActivateCheck,
         ActivateStart, ReadSettingsAgain, ReadConfig, FinishRequest, ReadEnabled, ReadFlag,
         RequestBroken
<1>11. NoSessionIsConnecting'
  BY DEF NoSessionIsConnecting, Connecting, Restarting, RecordedThreadOnly, FirstThread,
         HarvestInProgress, RequestInProgress, Leftover, NeverSignalled, Request, BeginRequest,
         RegisterApplication, ActivateCheck, ActivateStart, ReadSettingsAgain, ReadConfig,
         FinishRequest, ReadEnabled, ReadFlag, RequestBroken
<1>12. QED
  BY <1>1, <1>2, <1>3, <1>4, <1>5, <1>6, <1>7, <1>8, <1>9, <1>10, <1>11

(* The exit of the process, before and after the atexit handler, keeps it. *)
LEMMA ExitKeepsIInv ==
    ASSUME IInv, AtExitShutdown \/ InterpreterExit \/ UNCHANGED vars
    PROVE  IInv'
<1> USE DEF IInv, TypeOK
<1>1. TypeOK'
  <2>1. ASSUME AtExitShutdown PROVE TypeOK'
    BY <2>1 DEF AtExitShutdown, CloseDispatcher, exitFrame
  <2>2. ASSUME InterpreterExit PROVE TypeOK'
    BY <2>2 DEF InterpreterExit, exitFrame
  <2>3. ASSUME UNCHANGED vars PROVE TypeOK'
    BY <2>3 DEF exitFrame, vars
  <2>4. QED
    BY <2>1, <2>2, <2>3
<1>2. RecordedThreadOnly'
  BY DEF RecordedThreadOnly, exitFrame, AtExitShutdown, InterpreterExit, vars
<1>3. SessionsNumbered'
  BY DEF SessionsNumbered, exitFrame, AtExitShutdown, InterpreterExit, vars
<1>4. FirstThread'
  BY DEF FirstThread, ConnPC, exitFrame, AtExitShutdown, InterpreterExit, vars
<1>5. ConnectsWithoutSession'
  BY DEF ConnectsWithoutSession, exitFrame, AtExitShutdown, InterpreterExit, vars
<1>6. SessionSettled'
  BY DEF SessionSettled, SessionsNumbered, exitFrame, AtExitShutdown, InterpreterExit,
         CloseDispatcher, vars
<1>7. HarvestInProgress'
  BY DEF HarvestInProgress, Leftover, ConnPC, exitFrame, AtExitShutdown, InterpreterExit,
         CloseDispatcher, vars
<1>8. RequestInProgress'
  BY DEF RequestInProgress, exitFrame, AtExitShutdown, InterpreterExit, vars
<1>9. RefusedStays'
  BY DEF RefusedStays, Leftover, exitFrame, AtExitShutdown, InterpreterExit, CloseDispatcher,
         vars
<1>10. NeverSignalled'
  BY DEF NeverSignalled, exitFrame, AtExitShutdown, InterpreterExit, CloseDispatcher, vars
<1>11. NoSessionIsConnecting'
  BY DEF NoSessionIsConnecting, Connecting, Restarting, NeverSignalled, CloseDispatcher,
         exitFrame, AtExitShutdown, InterpreterExit, vars
<1>12. QED
  BY <1>1, <1>2, <1>3, <1>4, <1>5, <1>6, <1>7, <1>8, <1>9, <1>10, <1>11

(* Nothing is connected in the initial state.                              *)
LEMMA InitIInv == Init => IInv
<1> SUFFICES ASSUME Init PROVE IInv
  OBVIOUS
<1>1. TypeOK
  <2>1. conn \in [Apps -> [Slots -> ConnPC]] /\ rpc \in [Requests -> ReqPC] /\ hpc \in HarvPC
    BY DEF Init, ConnPC, HarvPC, ReqPC
  <2>2. thread \in [Apps -> Slots \cup {NoThread}] /\ rapp \in [Requests -> Apps \cup {NoApp}]
    BY DEF Init
  <2>3. /\ session \in [Apps -> 0 .. MaxSessions] /\ epoch \in [Apps -> 0 .. MaxSessions]
        /\ settings \in [Apps -> 0 .. MaxSessions] /\ retry \in [Apps -> 0 .. MaxRetry]
    BY DEF Init
  <2>4. /\ event \in [Apps -> BOOLEAN]
        /\ refused \in [Apps -> BOOLEAN] /\ mended \in [Apps -> BOOLEAN]
    BY DEF Init
  <2>5. applications \subseteq Apps /\ happ \in Apps \cup {NoApp} /\ hseen \subseteq Apps
    BY DEF Init
  <2>6. hsize \in Nat /\ hsnap \in 0 .. MaxSessions
    BY DEF Init
  <2>7. processShutdown \in BOOLEAN /\ harvestShutdown \in BOOLEAN /\ exited \in BOOLEAN
    BY DEF Init
  <2>8. QED
    BY <2>1, <2>2, <2>3, <2>4, <2>5, <2>6, <2>7 DEF TypeOK
<1>2. RecordedThreadOnly /\ ConnectsWithoutSession
  BY DEF Init, RecordedThreadOnly, ConnectsWithoutSession
<1>3. SessionsNumbered /\ FirstThread
  BY DEF Init, SessionsNumbered, FirstThread
<1>4. SessionSettled /\ RefusedStays /\ NeverSignalled
  BY DEF Init, SessionSettled, RefusedStays, NeverSignalled
<1>5. HarvestInProgress /\ RequestInProgress /\ NoSessionIsConnecting
  BY DEF Init, HarvestInProgress, RequestInProgress, NoSessionIsConnecting
<1>6. QED
  BY <1>1, <1>2, <1>3, <1>4, <1>5 DEF IInv

(* Every step keeps the invariant.                                         *)
LEMMA NextKeepsIInv == IInv /\ [Next]_vars => IInv'
<1> SUFFICES ASSUME IInv, [Next]_vars PROVE IInv'
  OBVIOUS
<1>1. ASSUME NEW a \in Apps, NEW s \in Slots, Connect(a, s) PROVE IInv'
  BY <1>1, ConnectKeepsIInv
<1>2. CASE Harvest
  BY <1>2, HarvestKeepsIInv
<1>3. ASSUME NEW r \in Requests, Request(r) PROVE IInv'
  BY <1>3, RequestKeepsIInv
<1>4. CASE AtExitShutdown \/ InterpreterExit \/ UNCHANGED vars
  BY <1>4, ExitKeepsIInv
<1>5. QED
  BY <1>1, <1>2, <1>3, <1>4 DEF Next, Exited

(* The agent keeps its inductive invariant.                                *)
THEOREM Invariance == Spec => []IInv
BY InitIInv, NextKeepsIInv, PTL DEF Spec

(* Every variable of the agent keeps its type.                             *)
THEOREM TypeCorrect == Spec => []TypeOK
<1>1. IInv => TypeOK
  BY DEF IInv
<1>2. QED
  BY <1>1, Invariance, PTL

(* At most one connect thread of an application is alive (the test of      *)
(* activate_session, application.py:83-88, run by requests and the harvest).*)
THEOREM OneConnectThreadHolds == Spec => []OneConnectThread
<1>1. IInv => OneConnectThread
  BY DEF IInv, RecordedThreadOnly, OneConnectThread
<1>2. QED
  BY <1>1, Invariance, PTL

(* The harvest uploads with the settings of the session it uploads to.     *)
THEOREM SnapshotMatchesSession == Spec => []HarvestUsesSessionSettings
<1>1. IInv => HarvestUsesSessionSettings
  BY DEF IInv, HarvestInProgress, HarvestUsesSessionSettings
<1>2. QED
  BY <1>1, Invariance, PTL

(* A registered application without a session has a connect thread at work,*)
(* or a restart on its way, or was refused one.                            *)
THEOREM NoSessionIsConnectingHolds == Spec => []NoSessionIsConnecting
<1>1. IInv => NoSessionIsConnecting
  BY DEF IInv
<1>2. QED
  BY <1>1, Invariance, PTL

(* Who may change a session: PublishSession sets one, SessionRevoked and   *)
(* RetryExhausted drop one, every other step leaves all of them alone.     *)
LEMMA SessionMoves ==
    ASSUME IInv, Next
    PROVE  \/ UNCHANGED <<session, epoch>>
           \/ \E a \in Apps, s \in Slots : PublishSession(a, s)
           \/ SessionRevoked
           \/ RetryExhausted
<1>1. ASSUME NEW a \in Apps, NEW s \in Slots, Connect(a, s), ~PublishSession(a, s)
      PROVE  UNCHANGED <<session, epoch>>
  BY <1>1 DEF Connect, ConnectLoop, CreateConnectionOk, CreateConnectionFails, WaitEnds,
              Announce, ResetPackets
<1>2. ASSUME Harvest, ~SessionRevoked, ~RetryExhausted
      PROVE  UNCHANGED <<session, epoch>>
  BY <1>2 DEF Harvest, HarvestTick, NextApplication, RoundDone, IterationFails, CheckSession,
              TakeSnapshot, UploadOk, UploadError, UploadRetry, StopConnecting,
              ReactivateCheck, ReactivateStart
<1>3. ASSUME NEW r \in Requests, Request(r)
      PROVE  UNCHANGED <<session, epoch>>
  BY <1>3 DEF Request, BeginRequest, RegisterApplication, ActivateCheck, ActivateStart,
              ReadSettingsAgain, ReadConfig, FinishRequest, ReadEnabled, ReadFlag, RequestBroken
<1>4. ASSUME AtExitShutdown \/ InterpreterExit \/ Exited
      PROVE  UNCHANGED <<session, epoch>>
  BY <1>4 DEF AtExitShutdown, InterpreterExit, Exited, exitFrame, vars
<1>5. QED
  BY <1>1, <1>2, <1>3, <1>4 DEF Next

(* A session starts with no failed upload counted against it.              *)
THEOREM FreshRetries == Spec => FreshSessionFreshRetries
<1>1. ASSUME IInv, [Next]_vars
      PROVE  [\A a \in Apps :
                session[a] = NoSession /\ session'[a] # NoSession => retry[a] = 0]_vars
  <2> SUFFICES ASSUME Next, NEW a \in Apps, session[a] = NoSession, session'[a] # NoSession
               PROVE  retry[a] = 0
    BY <1>1
  <2>1. CASE \E b \in Apps, s \in Slots : PublishSession(b, s)
    BY <2>1, <1>1 DEF IInv, TypeOK, ConnectsWithoutSession, PublishSession
  <2>2. CASE SessionRevoked \/ RetryExhausted
    BY <2>2, <1>1 DEF IInv, TypeOK, SessionRevoked, RetryExhausted
  <2>3. QED
    BY <1>1, <2>1, <2>2, SessionMoves
<1>2. QED
  BY <1>1, Invariance, PTL DEF Spec, FreshSessionFreshRetries

(* Once activate_session refused the harvest, the application never has a  *)
(* session again.                                                          *)
THEOREM RefusalFinal == Spec => RefusalIsFinal
<1>1. IInv /\ IInv' /\ [Next]_vars => [\A a \in Apps : refused[a] => refused'[a]]_vars
  <2> SUFFICES ASSUME IInv, Next PROVE \A a \in Apps : refused[a] => refused'[a]
    OBVIOUS
  <2>1. UNCHANGED refused \/ ReactivateCheck
    <3>1. ASSUME NEW a \in Apps, NEW s \in Slots, Connect(a, s) PROVE UNCHANGED refused
      BY <3>1 DEF Connect, ConnectLoop, CreateConnectionOk, CreateConnectionFails, WaitEnds,
                  Announce, PublishSession, ResetPackets
    <3>2. CASE Harvest
      BY <3>2 DEF Harvest, HarvestTick, NextApplication, RoundDone, IterationFails,
                  CheckSession,
                  TakeSnapshot, UploadOk, UploadError, UploadRetry, StopConnecting,
                  SessionRevoked, RetryExhausted, ReactivateStart
    <3>3. ASSUME NEW r \in Requests, Request(r) PROVE UNCHANGED refused
      BY <3>3 DEF Request, BeginRequest, RegisterApplication, ActivateCheck, ActivateStart,
                  ReadSettingsAgain, ReadConfig, FinishRequest, ReadEnabled, ReadFlag, RequestBroken
    <3>4. CASE AtExitShutdown \/ InterpreterExit \/ Exited
      BY <3>4 DEF AtExitShutdown, InterpreterExit, Exited, exitFrame, vars
    <3>5. QED
      BY <3>1, <3>2, <3>3, <3>4 DEF Next
  <2>2. QED
    BY <2>1 DEF IInv, TypeOK, ReactivateCheck
<1>2. IInv /\ IInv' /\ [Next]_vars =>
        [\A a \in Apps : refused[a] => session[a] = NoSession /\ session'[a] = NoSession]_vars
  BY <1>1 DEF IInv, RefusedStays, Leftover
<1>3. QED
  BY <1>2, Invariance, PTL DEF Spec, RefusalIsFinal

(* The agent implements AppSession: the session of an application is       *)
(* published when there is none, and dropped only when there is one.       *)
THEOREM Refinement == Spec => ImplementsAppSession
<1>1. Init => Abstract!AbsInit
  BY DEF Init, Abstract!AbsInit, Abstract!NoSession
<1>2. ASSUME IInv, [Next]_vars
      PROVE  [Abstract!AbsNext]_(Abstract!absVars)
  <2> USE DEF Abstract!AbsNext, Abstract!absVars, Abstract!NoSession
  <2>1. ASSUME NEW a \in Apps, NEW s \in Slots, PublishSession(a, s)
        PROVE  Abstract!Publish(a)
    BY <1>2, <2>1 DEF IInv, ConnectsWithoutSession, PublishSession, Abstract!Publish
  <2>2. ASSUME SessionRevoked \/ RetryExhausted
        PROVE  happ \in Apps /\ Abstract!Drop(happ)
    BY <1>2, <2>2 DEF IInv, TypeOK, HarvestInProgress, SessionRevoked, RetryExhausted,
                      Abstract!Drop
  <2>3. CASE UNCHANGED vars
    BY <2>3 DEF vars
  <2>4. QED
    BY <1>2, <2>1, <2>2, <2>3, SessionMoves
<1>3. QED
  BY <1>1, <1>2, Invariance, PTL DEF Spec, ImplementsAppSession, Abstract!AbsSpec
=============================================================================

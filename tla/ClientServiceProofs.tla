------------------------ MODULE ClientServiceProofs -------------------------
(***************************************************************************)
(* For any sessions, delays, entries and files: frpc has one session open  *)
(* at a time and none that nobody runs, its attempts to connect are paced, *)
(* and its store keeps what the answers said.                              *)
(***************************************************************************)
EXTENDS ClientService, Backoff, ConfigStore, FiniteSetTheorems, TLAPS

-----------------------------------------------------------------------------
(***************************************************************************)
(* The service (client/service.go): whatever is open belongs to the session*)
(* the login goroutine is working on.                                      *)
(***************************************************************************)
(* SvcTypeOK in parts, its sets named.                                     *)
Places == {"open", "connect", "exchange", "config", "run", "publish", "wait", "over"}
Workers == {"none", "runs", "done"}
Configs == 0 .. MaxVersion
Failures == 0 .. 3
MaybeSession == Session \cup {NoSession}
SessionRecord ==
  [connector : BOOLEAN, conn : BOOLEAN, cfg : Configs, worker : Workers, pong : BOOLEAN]
SessionOK == session \in [Session -> SessionRecord]
LoginOK ==
  login \in [at : Places, first : BOOLEAN, s : MaybeSession, cfg : Version, failures : Failures]
ServiceOK ==
  svc \in [cancelled : BOOLEAN, stopped : BOOLEAN, ctl : MaybeSession, runID : BOOLEAN,
           version : Version]
RestOK ==
  server \in {"fresh", "any"} /\ visitors \in Configs /\ reload \in {"idle", "stored", "apply"}
TypesOK == SessionOK /\ LoginOK /\ ServiceOK /\ RestOK

(* The inductive invariant.  A session that is open is the one of the      *)
(* login goroutine, which leaves "wait" only when the worker is done; a    *)
(* worker that is done has closed its session, and none runs on the one    *)
(* that is being dialled.                                                  *)
IsOpen(s) == session[s].connector \/ session[s].conn
Working == {"connect", "exchange", "config", "run", "publish", "wait"}
OpenIsCurrent ==
  \A s \in Session : IsOpen(s) => login.s = s /\ login.at \in Working
DoneIsClosed == \A s \in Session : session[s].worker = "done" => ~IsOpen(s)
Dialling ==
  /\ login.at \in Working => login.s \in Session
  /\ login.at \in {"connect", "exchange", "config"} => session[login.s].worker = "none"
SvcIInv == TypesOK /\ OpenIsCurrent /\ DoneIsClosed /\ Dialling /\ NothingLeftOpen

(* What the steps write is in these sets.                                  *)
LEMMA Members ==
  /\ Version \subseteq Configs /\ 0 \in Configs /\ 0 \in Failures /\ 3 \in Failures
  /\ \A n \in Failures : n < 3 => n + 1 \in Failures
  /\ \A v \in Version : v < MaxVersion => v + 1 \in Version
  /\ NoSession \in MaybeSession /\ Session \subseteq MaybeSession
  /\ MaybeSession \subseteq Session \cup {NoSession}
  /\ \A p \in {"open", "connect", "exchange", "config", "run", "publish", "wait", "over"} : p \in Places
  /\ "none" \in Workers /\ "runs" \in Workers /\ "done" \in Workers
  BY ServiceAssumption DEF Version, Configs, Failures, MaybeSession, Places, Workers
(* At the start nothing is open.                                           *)
LEMMA InitHolds == SvcInit => SvcIInv
<1> SUFFICES ASSUME SvcInit PROVE SvcIInv
  BY Zenon
<1>1. 1 \in Version
  BY ServiceAssumption DEF Version
<1>2. TypesOK
  BY Zenon, <1>1, Members DEF SvcInit, TypesOK, SessionOK, SessionRecord, LoginOK, ServiceOK, RestOK, Unused
<1> QED
  BY Zenon, <1>2
  DEF SvcInit, SvcIInv, OpenIsCurrent, DoneIsClosed, Dialling, NothingLeftOpen, IsOpen, Working, Unused

(* Every step keeps the types.                                             *)
LEMMA TypesKept == TypesOK /\ [SvcNext]_svcVars => TypesOK'
<1> SUFFICES ASSUME TypesOK, [SvcNext]_svcVars PROVE TypesOK'
  BY Zenon
<1> USE Members DEF TypesOK
<1>1. CASE \E s \in Session : OpenConnector(s)
  <2>0. PICK s \in Session : OpenConnector(s)
    BY Zenon, <1>1
  <2>1. SessionOK'
    <3>1. [session[s] EXCEPT !.connector = TRUE] \in SessionRecord
      BY Zenon DEF SessionOK, SessionRecord
    <3> QED
      BY <2>0, <3>1 DEF OpenConnector, SessionOK, LoginOK, ServiceOK
  <2>2. LoginOK'
    BY Zenon, <2>0, Zenon DEF OpenConnector, LoginOK, ServiceOK
  <2>3. ServiceOK'
    BY Zenon, <2>0 DEF OpenConnector, ServiceOK, LoginOK
  <2>4. RestOK'
    BY Zenon, <2>0 DEF OpenConnector, RestOK, LoginOK, ServiceOK
  <2> QED
    BY <2>1, <2>2, <2>3, <2>4
<1>2. CASE ConnectServer
  <2>1. SessionOK'
    BY <1>2, Zenon DEF ConnectServer, SessionOK, SessionRecord, LoginOK, ServiceOK
  <2>2. LoginOK'
    BY Zenon, <1>2 DEF ConnectServer, LoginOK, ServiceOK
  <2>3. ServiceOK'
    BY Zenon, <1>2 DEF ConnectServer, ServiceOK, LoginOK
  <2>4. RestOK'
    BY Zenon, <1>2 DEF ConnectServer, RestOK, LoginOK, ServiceOK
  <2> QED
    BY <2>1, <2>2, <2>3, <2>4
<1>3. CASE ExchangeLogin
  <2>1. SessionOK'
    BY Zenon, <1>3 DEF ExchangeLogin, SessionOK, SessionRecord, LoginOK, ServiceOK
  <2>2. LoginOK'
    BY <1>3, Zenon DEF ExchangeLogin, LoginOK, ServiceOK
  <2>3. ServiceOK'
    BY Zenon, <1>3, Zenon DEF ExchangeLogin, ServiceOK, LoginOK
  <2>4. RestOK'
    BY <1>3 DEF ExchangeLogin, RestOK, LoginOK, ServiceOK
  <2> QED
    BY <2>1, <2>2, <2>3, <2>4
<1>4. CASE ReadConfig
  <2>1. SessionOK'
    BY <1>4, Zenon DEF ReadConfig, SessionOK, SessionRecord, LoginOK, ServiceOK
  <2>2. LoginOK'
    BY Zenon, <1>4, Zenon DEF ReadConfig, LoginOK, ServiceOK
  <2>3. ServiceOK'
    BY Zenon, <1>4 DEF ReadConfig, ServiceOK, LoginOK
  <2>4. RestOK'
    BY Zenon, <1>4 DEF ReadConfig, RestOK, LoginOK, ServiceOK
  <2> QED
    BY <2>1, <2>2, <2>3, <2>4
<1>5. CASE ControlRun
  <2>1. SessionOK'
    BY <1>5, Zenon DEF ControlRun, SessionOK, SessionRecord, LoginOK, ServiceOK
  <2>2. LoginOK'
    BY Zenon, <1>5 DEF ControlRun, LoginOK, ServiceOK
  <2>3. ServiceOK'
    BY Zenon, <1>5 DEF ControlRun, ServiceOK, LoginOK
  <2>4. RestOK'
    BY Zenon, <1>5 DEF ControlRun, RestOK, LoginOK, ServiceOK
  <2> QED
    BY <2>1, <2>2, <2>3, <2>4
<1>6. CASE Publish
  <2>1. SessionOK'
    <3>1. svc.ctl \in Session => CloseControl(session[svc.ctl]) \in SessionRecord
      BY Zenon DEF CloseControl, CloseSession, SessionOK, SessionRecord, Unused
    <3> QED
      BY Zenon, <1>6, <3>1 DEF Publish, SessionOK, LoginOK, ServiceOK
  <2>2. LoginOK'
    BY Zenon, <1>6 DEF Publish, CloseControl, CloseSession, LoginOK, ServiceOK
  <2>3. ServiceOK'
    BY Zenon, <1>6 DEF Publish, CloseControl, CloseSession, ServiceOK, LoginOK
  <2>4. RestOK'
    BY Zenon, <1>6 DEF Publish, CloseControl, CloseSession, RestOK, LoginOK, ServiceOK
  <2> QED
    BY <2>1, <2>2, <2>3, <2>4
<1>7. CASE KeepControllerWorking
  <2>1. SessionOK'
    BY Zenon, <1>7 DEF KeepControllerWorking, SessionOK, SessionRecord, LoginOK, ServiceOK
  <2>2. LoginOK'
    BY <1>7, Zenon DEF KeepControllerWorking, LoginOK, ServiceOK
  <2>3. ServiceOK'
    BY Zenon, <1>7 DEF KeepControllerWorking, ServiceOK, LoginOK
  <2>4. RestOK'
    BY <1>7 DEF KeepControllerWorking, RestOK, LoginOK, ServiceOK
  <2> QED
    BY <2>1, <2>2, <2>3, <2>4
<1>8. CASE LoginOver
  <2>1. SessionOK'
    BY Zenon, <1>8 DEF LoginOver, SessionOK, SessionRecord, LoginOK, ServiceOK
  <2>2. LoginOK'
    BY Zenon, <1>8, Zenon DEF LoginOver, LoginOK, ServiceOK
  <2>3. ServiceOK'
    BY Zenon, <1>8 DEF LoginOver, ServiceOK, LoginOK
  <2>4. RestOK'
    BY Zenon, <1>8 DEF LoginOver, RestOK, LoginOK, ServiceOK
  <2> QED
    BY <2>1, <2>2, <2>3, <2>4
<1>9. CASE \E exit \in BOOLEAN : LoginFails(exit)
  <2>0. PICK exit \in BOOLEAN : LoginFails(exit)
    BY Zenon, <1>9
  <2>1. SessionOK'
    <3>1. login.s \in Session => Abandon(login.s) \in SessionRecord
      BY Zenon DEF Abandon, SessionOK, SessionRecord
    <3> QED
      BY <2>0, <3>1 DEF LoginFails, SessionOK, LoginOK, ServiceOK
  <2>2. LoginOK'
    <3>1. PICK n \in Failures : login' = [login EXCEPT !.at = "open", !.s = NoSession, !.failures = n]
      BY <2>0, Zenon DEF LoginFails, LoginOK
    <3> QED
      BY Zenon, <3>1, Zenon DEF LoginOK
  <2>3. ServiceOK'
    BY <2>0, Zenon DEF LoginFails, Abandon, RunIDAfter, ServiceOK, LoginOK
  <2>4. RestOK'
    BY Zenon, <2>0 DEF LoginFails, Abandon, RunIDAfter, RestOK, LoginOK, ServiceOK
  <2> QED
    BY <2>1, <2>2, <2>3, <2>4
<1>10. CASE \E s \in Session : PongsStop(s)
  <2>0. PICK s \in Session : PongsStop(s)
    BY <1>10
  <2>1. SessionOK'
    <3>1. [session[s] EXCEPT !.pong = FALSE] \in SessionRecord
      BY Zenon DEF SessionOK, SessionRecord
    <3> QED
      BY <2>0, <3>1 DEF PongsStop, SessionOK, LoginOK, ServiceOK
  <2>2. LoginOK'
    BY Zenon, <2>0 DEF PongsStop, LoginOK, ServiceOK
  <2>3. ServiceOK'
    BY Zenon, <2>0 DEF PongsStop, ServiceOK, LoginOK
  <2>4. RestOK'
    BY <2>0 DEF PongsStop, RestOK, LoginOK, ServiceOK
  <2> QED
    BY <2>1, <2>2, <2>3, <2>4
<1>11. CASE \E s \in Session : HandlePong(s)
  <2>0. PICK s \in Session : HandlePong(s)
    BY <1>11
  <2>1. SessionOK'
    <3>1. CloseSession(session[s]) \in SessionRecord /\ [session[s] EXCEPT !.pong = TRUE] \in SessionRecord
      BY Zenon DEF CloseSession, SessionOK, SessionRecord
    <3> QED
      BY <2>0, <3>1 DEF HandlePong, SessionOK, LoginOK, ServiceOK
  <2>2. LoginOK'
    BY Zenon, <2>0 DEF HandlePong, CloseSession, LoginOK, ServiceOK
  <2>3. ServiceOK'
    BY Zenon, <2>0 DEF HandlePong, CloseSession, ServiceOK, LoginOK
  <2>4. RestOK'
    BY <2>0 DEF HandlePong, CloseSession, RestOK, LoginOK, ServiceOK
  <2> QED
    BY <2>1, <2>2, <2>3, <2>4
<1>12. CASE \E s \in Session : HeartbeatTimeout(s)
  <2>0. PICK s \in Session : HeartbeatTimeout(s)
    BY <1>12
  <2>1. SessionOK'
    <3>1. CloseSession(session[s]) \in SessionRecord
      BY Zenon DEF CloseSession, SessionOK, SessionRecord
    <3> QED
      BY <2>0, <3>1 DEF HeartbeatTimeout, SessionOK, LoginOK, ServiceOK
  <2>2. LoginOK'
    BY Zenon, <2>0 DEF HeartbeatTimeout, CloseSession, LoginOK, ServiceOK
  <2>3. ServiceOK'
    BY Zenon, <2>0 DEF HeartbeatTimeout, CloseSession, ServiceOK, LoginOK
  <2>4. RestOK'
    BY <2>0 DEF HeartbeatTimeout, CloseSession, RestOK, LoginOK, ServiceOK
  <2> QED
    BY <2>1, <2>2, <2>3, <2>4
<1>13. CASE \E s \in Session : Worker(s)
  <2>0. PICK s \in Session : Worker(s)
    BY <1>13
  <2>1. SessionOK'
    <3>1. [CloseSession(session[s]) EXCEPT !.worker = "done", !.cfg = 0, !.pong = TRUE] \in SessionRecord
      BY Zenon DEF CloseSession, SessionOK, SessionRecord
    <3> QED
      BY <2>0, <3>1 DEF Worker, SessionOK, LoginOK, ServiceOK
  <2>2. LoginOK'
    BY Zenon, <2>0 DEF Worker, CloseSession, LoginOK, ServiceOK
  <2>3. ServiceOK'
    BY Zenon, <2>0 DEF Worker, CloseSession, ServiceOK, LoginOK
  <2>4. RestOK'
    BY <2>0 DEF Worker, CloseSession, RestOK, LoginOK, ServiceOK
  <2> QED
    BY <2>1, <2>2, <2>3, <2>4
<1>14. CASE \E s \in Session : SessionLost(s)
  <2>0. PICK s \in Session : SessionLost(s)
    BY <1>14
  <2>1. SessionOK'
    <3>1. [session[s] EXCEPT !.conn = FALSE] \in SessionRecord
      BY Zenon DEF SessionOK, SessionRecord
    <3> QED
      BY <2>0, <3>1 DEF SessionLost, SessionOK, LoginOK, ServiceOK
  <2>2. LoginOK'
    BY Zenon, <2>0 DEF SessionLost, LoginOK, ServiceOK
  <2>3. ServiceOK'
    BY Zenon, <2>0 DEF SessionLost, ServiceOK, LoginOK
  <2>4. RestOK'
    BY <2>0 DEF SessionLost, RestOK, LoginOK, ServiceOK
  <2> QED
    BY <2>1, <2>2, <2>3, <2>4
<1>15. CASE StoreConfig
  <2>1. SessionOK'
    BY Zenon, <1>15 DEF StoreConfig, SessionOK, SessionRecord, LoginOK, ServiceOK
  <2>2. LoginOK'
    BY Zenon, <1>15 DEF StoreConfig, LoginOK, ServiceOK
  <2>3. ServiceOK'
    BY Zenon, <1>15 DEF StoreConfig, ServiceOK, LoginOK
  <2>4. RestOK'
    BY <1>15 DEF StoreConfig, RestOK, LoginOK, ServiceOK
  <2> QED
    BY <2>1, <2>2, <2>3, <2>4
<1>16. CASE CopyControl
  <2>1. SessionOK'
    BY <1>16 DEF CopyControl, SessionOK, SessionRecord, LoginOK, ServiceOK
  <2>2. LoginOK'
    BY Zenon, <1>16 DEF CopyControl, LoginOK, ServiceOK
  <2>3. ServiceOK'
    BY Zenon, <1>16 DEF CopyControl, ServiceOK, LoginOK
  <2>4. RestOK'
    BY <1>16 DEF CopyControl, RestOK, LoginOK, ServiceOK
  <2> QED
    BY <2>1, <2>2, <2>3, <2>4
<1>17. CASE ApplyConfig
  <2>1. SessionOK'
    BY <1>17, Zenon DEF ApplyConfig, UpdateAll, SessionOK, SessionRecord, LoginOK, ServiceOK
  <2>2. LoginOK'
    BY Zenon, <1>17 DEF ApplyConfig, UpdateAll, LoginOK, ServiceOK
  <2>3. ServiceOK'
    BY Zenon, <1>17 DEF ApplyConfig, UpdateAll, ServiceOK, LoginOK
  <2>4. RestOK'
    BY Zenon, <1>17 DEF ApplyConfig, UpdateAll, RestOK, LoginOK, ServiceOK
  <2> QED
    BY <2>1, <2>2, <2>3, <2>4
<1>18. CASE CancelService
  <2>1. SessionOK'
    BY Zenon, <1>18 DEF CancelService, SessionOK, SessionRecord, LoginOK, ServiceOK
  <2>2. LoginOK'
    BY Zenon, <1>18 DEF CancelService, LoginOK, ServiceOK
  <2>3. ServiceOK'
    BY Zenon, <1>18, Zenon DEF CancelService, ServiceOK, LoginOK
  <2>4. RestOK'
    BY Zenon, <1>18 DEF CancelService, RestOK, LoginOK, ServiceOK
  <2> QED
    BY <2>1, <2>2, <2>3, <2>4
<1>19. CASE StopService
  <2>1. SessionOK'
    <3>1. svc.ctl \in Session => CloseControl(session[svc.ctl]) \in SessionRecord
      BY Zenon DEF CloseControl, CloseSession, SessionOK, SessionRecord, Unused
    <3> QED
      BY Zenon, <1>19, <3>1 DEF StopService, SessionOK, LoginOK, ServiceOK
  <2>2. LoginOK'
    BY Zenon, <1>19 DEF StopService, CloseControl, CloseSession, LoginOK, ServiceOK
  <2>3. ServiceOK'
    BY Zenon, <1>19, Zenon DEF StopService, CloseControl, CloseSession, ServiceOK, LoginOK
  <2>4. RestOK'
    BY Zenon, <1>19 DEF StopService, CloseControl, CloseSession, RestOK, LoginOK, ServiceOK
  <2> QED
    BY <2>1, <2>2, <2>3, <2>4
<1>20. CASE UNCHANGED svcVars
  <2>1. SessionOK'
    BY Zenon, <1>20 DEF svcVars, SessionOK, SessionRecord, LoginOK, ServiceOK
  <2>2. LoginOK'
    BY Zenon, <1>20 DEF svcVars, LoginOK, ServiceOK
  <2>3. ServiceOK'
    BY Zenon, <1>20 DEF svcVars, ServiceOK, LoginOK
  <2>4. RestOK'
    BY Zenon, <1>20 DEF svcVars, RestOK, LoginOK, ServiceOK
  <2> QED
    BY <2>1, <2>2, <2>3, <2>4
<1> QED
  BY <1>1, <1>2, <1>3, <1>4, <1>5, <1>6, <1>7, <1>8, <1>9, <1>10, <1>11, <1>12,
     <1>13, <1>14, <1>15, <1>16, <1>17, <1>18, <1>19, <1>20
  DEF SvcNext, LoginStep, SessionStep

(* Every step keeps the rest of the invariant: only OpenConnector opens a  *)
(* session, when the goroutine has none, and what makes the goroutine      *)
(* leave one closes it.                                                    *)
SafeParts == OpenIsCurrent /\ DoneIsClosed /\ Dialling /\ NothingLeftOpen
(* Every step keeps the parts that the safety properties are made of.      *)
LEMMA SafeKept == SvcIInv /\ [SvcNext]_svcVars => SafeParts'
<1> SUFFICES ASSUME SvcIInv, [SvcNext]_svcVars PROVE SafeParts'
  BY Zenon
<1> USE ServiceAssumption
    DEF SvcIInv, TypesOK, SessionOK, SessionRecord, LoginOK, ServiceOK, MaybeSession, OpenIsCurrent,
        DoneIsClosed, Dialling, NothingLeftOpen, IsOpen, Working, Unused
<1>1. CASE \E s \in Session : OpenConnector(s)
  <2>0. PICK s \in Session : OpenConnector(s)
    BY Zenon, <1>1
  <2>1. OpenIsCurrent'
    BY Zenon, <2>0 DEF OpenConnector
  <2>2. DoneIsClosed'
    BY <2>0 DEF OpenConnector
  <2>3. Dialling'
    BY <2>0 DEF OpenConnector
  <2>4. NothingLeftOpen'
    BY Zenon, <2>0 DEF OpenConnector
  <2> QED
    BY Zenon, <2>1, <2>2, <2>3, <2>4 DEF SafeParts
<1>2. CASE ConnectServer
  <2>1. OpenIsCurrent'
    BY Zenon, <1>2 DEF ConnectServer
  <2>2. DoneIsClosed'
    BY <1>2 DEF ConnectServer
  <2>3. Dialling'
    BY <1>2 DEF ConnectServer
  <2>4. NothingLeftOpen'
    BY Zenon, <1>2 DEF ConnectServer
  <2> QED
    BY Zenon, <2>1, <2>2, <2>3, <2>4 DEF SafeParts
<1>3. CASE ExchangeLogin
  <2>1. OpenIsCurrent'
    BY Zenon, <1>3 DEF ExchangeLogin
  <2>2. DoneIsClosed'
    BY Zenon, <1>3 DEF ExchangeLogin
  <2>3. Dialling'
    BY Zenon, <1>3 DEF ExchangeLogin
  <2>4. NothingLeftOpen'
    BY Zenon, <1>3 DEF ExchangeLogin
  <2> QED
    BY <2>1, <2>2, <2>3, <2>4 DEF SafeParts
<1>4. CASE ReadConfig
  <2>1. OpenIsCurrent'
    BY Zenon, <1>4 DEF ReadConfig
  <2>2. DoneIsClosed'
    BY <1>4 DEF ReadConfig
  <2>3. Dialling'
    BY Zenon, <1>4 DEF ReadConfig
  <2>4. NothingLeftOpen'
    BY <1>4 DEF ReadConfig
  <2> QED
    BY <2>1, <2>2, <2>3, <2>4 DEF SafeParts
<1>5. CASE ControlRun
  <2>1. OpenIsCurrent'
    BY Zenon, <1>5 DEF ControlRun
  <2>2. DoneIsClosed'
    BY <1>5 DEF ControlRun
  <2>3. Dialling'
    BY Zenon, <1>5 DEF ControlRun
  <2>4. NothingLeftOpen'
    BY <1>5 DEF ControlRun
  <2> QED
    BY <2>1, <2>2, <2>3, <2>4 DEF SafeParts
<1>6. CASE Publish
  <2>1. OpenIsCurrent'
    BY <1>6 DEF Publish, CloseControl, CloseSession
  <2>2. DoneIsClosed'
    BY <1>6 DEF Publish, CloseControl, CloseSession
  <2>3. Dialling'
    BY Zenon, <1>6 DEF Publish, CloseControl, CloseSession
  <2>4. NothingLeftOpen'
    BY <1>6 DEF Publish, CloseControl, CloseSession
  <2> QED
    BY <2>1, <2>2, <2>3, <2>4 DEF SafeParts
<1>7. CASE KeepControllerWorking
  <2>1. OpenIsCurrent'
    BY Zenon, <1>7 DEF KeepControllerWorking, ControlDone
  <2>2. DoneIsClosed'
    BY Zenon, <1>7 DEF KeepControllerWorking, ControlDone
  <2>3. Dialling'
    BY Zenon, <1>7 DEF KeepControllerWorking, ControlDone
  <2>4. NothingLeftOpen'
    BY Zenon, <1>7 DEF KeepControllerWorking, ControlDone
  <2> QED
    BY <2>1, <2>2, <2>3, <2>4 DEF SafeParts
<1>8. CASE LoginOver
  <2>1. OpenIsCurrent'
    BY Zenon, <1>8 DEF LoginOver, ControlDone
  <2>2. DoneIsClosed'
    BY Zenon, <1>8 DEF LoginOver, ControlDone
  <2>3. Dialling'
    BY Zenon, <1>8 DEF LoginOver, ControlDone
  <2>4. NothingLeftOpen'
    BY Zenon, <1>8 DEF LoginOver, ControlDone
  <2> QED
    BY <2>1, <2>2, <2>3, <2>4 DEF SafeParts
<1>9. CASE \E exit \in BOOLEAN : LoginFails(exit)
  <2>0. PICK exit \in BOOLEAN : LoginFails(exit)
    BY Zenon, <1>9
  <2>1. login'.at = "open"
    BY <2>0 DEF LoginFails
  <2>2. ASSUME NEW s \in Session PROVE ~IsOpen(s)'
    <3>1. CASE login.at = "open"
      BY Zenon, <2>0, <3>1 DEF LoginFails
    <3>2. CASE login.at # "open" /\ s = login.s
      <4>1. session'[s] = [session[s] EXCEPT !.conn = FALSE, !.connector = FALSE]
        BY <2>0, <3>2 DEF LoginFails, Abandon
      <4> QED
        BY <4>1
    <3>3. CASE login.at # "open" /\ s # login.s
      BY <2>0, <3>3 DEF LoginFails
    <3> QED
      BY Zenon, <3>1, <3>2, <3>3
  <2> QED
    BY Zenon, <2>1, <2>2 DEF SafeParts
<1>10. CASE \E s \in Session : PongsStop(s)
  <2>0. PICK s \in Session : PongsStop(s)
    BY <1>10
  <2>1. OpenIsCurrent'
    BY Zenon, <2>0 DEF PongsStop
  <2>2. DoneIsClosed'
    BY <2>0 DEF PongsStop
  <2>3. Dialling'
    BY Zenon, <2>0 DEF PongsStop
  <2>4. NothingLeftOpen'
    BY <2>0 DEF PongsStop
  <2> QED
    BY <2>1, <2>2, <2>3, <2>4 DEF SafeParts
<1>11. CASE \E s \in Session : HandlePong(s)
  <2>0. PICK s \in Session : HandlePong(s)
    BY <1>11
  <2>1. OpenIsCurrent'
    BY Zenon, <2>0 DEF HandlePong, CloseSession
  <2>2. DoneIsClosed'
    BY <2>0 DEF HandlePong, CloseSession
  <2>3. Dialling'
    BY Zenon, <2>0 DEF HandlePong, CloseSession
  <2>4. NothingLeftOpen'
    BY <2>0 DEF HandlePong, CloseSession
  <2> QED
    BY <2>1, <2>2, <2>3, <2>4 DEF SafeParts
<1>12. CASE \E s \in Session : HeartbeatTimeout(s)
  <2>0. PICK s \in Session : HeartbeatTimeout(s)
    BY <1>12
  <2>1. OpenIsCurrent'
    BY Zenon, <2>0 DEF HeartbeatTimeout, CloseSession
  <2>2. DoneIsClosed'
    BY <2>0 DEF HeartbeatTimeout, CloseSession
  <2>3. Dialling'
    BY Zenon, <2>0 DEF HeartbeatTimeout, CloseSession
  <2>4. NothingLeftOpen'
    BY <2>0 DEF HeartbeatTimeout, CloseSession
  <2> QED
    BY <2>1, <2>2, <2>3, <2>4 DEF SafeParts
<1>13. CASE \E s \in Session : Worker(s)
  <2>0. PICK s \in Session : Worker(s)
    BY <1>13
  <2>1. OpenIsCurrent'
    BY <2>0 DEF Worker, CloseSession
  <2>2. DoneIsClosed'
    BY <2>0 DEF Worker, CloseSession
  <2>3. Dialling'
    BY Zenon, <2>0 DEF Worker, CloseSession
  <2>4. NothingLeftOpen'
    BY <2>0 DEF Worker, CloseSession
  <2> QED
    BY <2>1, <2>2, <2>3, <2>4 DEF SafeParts
<1>14. CASE \E s \in Session : SessionLost(s)
  <2>0. PICK s \in Session : SessionLost(s)
    BY <1>14
  <2>1. OpenIsCurrent'
    BY Zenon, <2>0 DEF SessionLost
  <2>2. DoneIsClosed'
    BY <2>0 DEF SessionLost
  <2>3. Dialling'
    BY Zenon, <2>0 DEF SessionLost
  <2>4. NothingLeftOpen'
    BY <2>0 DEF SessionLost
  <2> QED
    BY <2>1, <2>2, <2>3, <2>4 DEF SafeParts
<1>15. CASE StoreConfig
  <2>1. OpenIsCurrent'
    BY Zenon, <1>15 DEF StoreConfig
  <2>2. DoneIsClosed'
    BY Zenon, <1>15 DEF StoreConfig
  <2>3. Dialling'
    BY Zenon, <1>15 DEF StoreConfig
  <2>4. NothingLeftOpen'
    BY Zenon, <1>15 DEF StoreConfig
  <2> QED
    BY <2>1, <2>2, <2>3, <2>4 DEF SafeParts
<1>16. CASE CopyControl
  <2>1. OpenIsCurrent'
    BY Zenon, <1>16 DEF CopyControl
  <2>2. DoneIsClosed'
    BY Zenon, <1>16 DEF CopyControl
  <2>3. Dialling'
    BY Zenon, <1>16 DEF CopyControl
  <2>4. NothingLeftOpen'
    BY Zenon, <1>16 DEF CopyControl
  <2> QED
    BY <2>1, <2>2, <2>3, <2>4 DEF SafeParts
<1>17. CASE ApplyConfig
  <2>1. OpenIsCurrent'
    BY <1>17 DEF ApplyConfig, UpdateAll
  <2>2. DoneIsClosed'
    BY <1>17 DEF ApplyConfig, UpdateAll
  <2>3. Dialling'
    BY <1>17 DEF ApplyConfig, UpdateAll
  <2>4. NothingLeftOpen'
    BY <1>17 DEF ApplyConfig, UpdateAll
  <2> QED
    BY <2>1, <2>2, <2>3, <2>4 DEF SafeParts
<1>18. CASE CancelService
  <2>1. OpenIsCurrent'
    BY Zenon, <1>18 DEF CancelService
  <2>2. DoneIsClosed'
    BY Zenon, <1>18 DEF CancelService
  <2>3. Dialling'
    BY Zenon, <1>18 DEF CancelService
  <2>4. NothingLeftOpen'
    BY Zenon, <1>18 DEF CancelService
  <2> QED
    BY <2>1, <2>2, <2>3, <2>4 DEF SafeParts
<1>19. CASE StopService
  <2>1. OpenIsCurrent'
    BY <1>19 DEF StopService, CloseControl, CloseSession
  <2>2. DoneIsClosed'
    BY <1>19 DEF StopService, CloseControl, CloseSession
  <2>3. Dialling'
    BY <1>19 DEF StopService, CloseControl, CloseSession
  <2>4. NothingLeftOpen'
    BY <1>19 DEF StopService, CloseControl, CloseSession
  <2> QED
    BY <2>1, <2>2, <2>3, <2>4 DEF SafeParts
<1>20. CASE UNCHANGED svcVars
  <2>1. OpenIsCurrent'
    BY Zenon, <1>20 DEF svcVars
  <2>2. DoneIsClosed'
    BY Zenon, <1>20 DEF svcVars
  <2>3. Dialling'
    BY Zenon, <1>20 DEF svcVars
  <2>4. NothingLeftOpen'
    BY Zenon, <1>20 DEF svcVars
  <2> QED
    BY <2>1, <2>2, <2>3, <2>4 DEF SafeParts
<1> QED
  BY Zenon, <1>1, <1>2, <1>3, <1>4, <1>5, <1>6, <1>7, <1>8, <1>9, <1>10, <1>11, <1>12,
     <1>13, <1>14, <1>15, <1>16, <1>17, <1>18, <1>19, <1>20
  DEF SvcNext, LoginStep, SessionStep

(* The invariant bounds the open connectors by one: they are all the login *)
(* goroutine's.                                                            *)
LEMMA InvImpliesOneSession == SvcIInv => OneSession
<1> SUFFICES ASSUME SvcIInv PROVE OneSession
  BY Zenon
<1> DEFINE connected == {s \in Session : session[s].connector}
<1>1. connected \subseteq {login.s}
  BY Zenon DEF SvcIInv, OpenIsCurrent, IsOpen
<1>2. IsFiniteSet({login.s}) /\ Cardinality({login.s}) = 1
  BY Zenon, FS_Singleton, Zenon
<1>3. Cardinality(connected) <= Cardinality({login.s})
  BY Zenon, <1>1, <1>2, FS_Subset
<1> QED
  BY Zenon, <1>2, <1>3 DEF OneSession

(* The invariant holds in every reachable state of frpc.                   *)
LEMMA InvAlways == SvcSpec => []SvcIInv
<1>1. SvcIInv /\ [SvcNext]_svcVars => SvcIInv'
  BY Zenon, TypesKept, SafeKept DEF SvcIInv, SafeParts
<1> QED
  BY <1>1, InitHolds, PTL DEF SvcSpec  

(* The state of the client service (client/service.go) keeps its types.    *)
THEOREM ServiceTypeCorrect == SvcSpec => []SvcTypeOK
<1>1. SvcIInv => SvcTypeOK
  BY Zenon DEF SvcIInv, TypesOK, SvcTypeOK, SessionOK, SessionRecord, LoginOK, ServiceOK, RestOK, Places,
         Workers, Configs, Failures, MaybeSession
<1> QED
  BY <1>1, InvAlways, PTL

(* However logins fail, connections are lost and the service is reloaded   *)
(* or stopped, frpc has at most one session with the server, and no failed *)
(* login and no control that is done leaves a connection or a connector    *)
(* open.                                                                   *)
THEOREM ServiceSafe == SvcSpec => []SessionsSafe
<1>1. SvcIInv => SessionsSafe
  BY Zenon, InvImpliesOneSession DEF SvcIInv, SessionsSafe
<1> QED
  BY <1>1, InvAlways, PTL

-----------------------------------------------------------------------------
(***************************************************************************)
(* The delays between attempts (pkg/util/wait/backoff.go).                 *)
(***************************************************************************)
(* With n counted and c left of the window: the short retries since it was *)
(* opened are counted, and those of before are one count at most.          *)
Recent(c, s) == {a \in s : a < FastRetryWindow - c}
Older(c, s) == {a \in s : a >= FastRetryWindow - c}
PacedAt(n, c, s) ==
  IF c >= 0 THEN Cardinality(Recent(c, s)) <= n /\ Cardinality(Older(c, s)) <= FastRetryCount
  ELSE Cardinality(s) <= n

BackoffIInv ==
  /\ BackoffTypeOK /\ NeverLonger
  /\ fastCount <= FastRetryCount /\ cutoff < FastRetryWindow
  /\ PacedAt(fastCount, cutoff, shorts)

(* The ages of the fast retries are finite sets, and so are their parts.   *)
LEMMA AgesFinite == ASSUME NEW s \in SUBSET (0 .. FastRetryWindow - 1)
                    PROVE  /\ IsFiniteSet(s) /\ Cardinality(s) \in Nat
                           /\ \A r \in SUBSET s : IsFiniteSet(r) /\ Cardinality(r) \in Nat
                                                   /\ Cardinality(r) <= Cardinality(s)
<1>1. IsFiniteSet(0 .. FastRetryWindow - 1)
  <2>1. 0 \in Int /\ FastRetryWindow - 1 \in Int BY BackoffAssumption
  <2> QED BY Zenon, <2>1, FS_Interval
<1>2. IsFiniteSet(s) BY Zenon, <1>1, FS_Subset
<1> QED BY Zenon, <1>2, FS_Subset, FS_CardinalityType

(* Ages that grow by t are no more than they were.                         *)
LEMMA ShiftedAges ==
  ASSUME NEW s, IsFiniteSet(s), NEW t \in Nat, NEW r \in SUBSET Int, \A a \in r : a - t \in s
  PROVE  Cardinality(r) <= Cardinality(s)
<1> DEFINE f == [a \in r |-> a - t]
<1>1. f \in [r -> s] BY Zenon
<1>2. \A a, b \in r : f[a] = f[b] => a = b OBVIOUS
<1> HIDE DEF f
<1>3. f \in Injection(r, s) BY Zenon, <1>1, <1>2 DEF Injection, IsInjective
<1> QED BY Zenon, <1>3, FS_Injection

(* Time that passes keeps the number of fast retries in the window within  *)
(* its count.                                                              *)
LEMMA Elapses ==
  ASSUME NEW n \in 0 .. FastRetryCount, NEW c \in -1 .. FastRetryWindow,
         NEW s \in SUBSET (0 .. FastRetryWindow - 1), NEW t \in Nat, PacedAt(n, c, s)
  PROVE  /\ PacedAt(n, Left(c, t), Later(s, t))
         /\ Later(s, t) \in SUBSET (0 .. FastRetryWindow - 1)
         /\ Left(c, t) \in -1 .. FastRetryWindow /\ Left(c, t) <= c
         /\ t > 0 => Left(c, t) < FastRetryWindow
<1> DEFINE l == Later(s, t)
<1>0. FastRetryWindow \in Nat \ {0} /\ FastRetryCount \in Nat BY Zenon, BackoffAssumption
<1>1. l \in SUBSET (0 .. FastRetryWindow - 1) /\ \A a \in l : a \in Int /\ a < FastRetryWindow /\ a - t \in s
  BY <1>0 DEF Later
<1>2. Left(c, t) \in -1 .. FastRetryWindow /\ Left(c, t) <= c /\ (t > 0 => Left(c, t) < FastRetryWindow)
  BY <1>0 DEF Left
<1>3. CASE c < 0
  <2>1. Left(c, t) < 0 BY <1>3 DEF Left
  <2>2. Cardinality(l) <= Cardinality(s) BY Zenon, <1>1, AgesFinite, ShiftedAges
  <2>3. Cardinality(s) <= n BY <1>3 DEF PacedAt
  <2>4. Cardinality(l) <= n BY <1>1, <2>2, <2>3, AgesFinite
  <2> QED BY <1>1, <1>2, <2>1, <2>4 DEF PacedAt
<1>4. CASE c >= 0 /\ c < t
  <2>1. Left(c, t) = -1 BY Zenon, <1>4 DEF Left
  <2>2. \A a \in l : a - t \in Recent(c, s) BY <1>0, <1>1, <1>4 DEF Recent
  <2>3. Recent(c, s) \in SUBSET s BY Zenon DEF Recent
  <2>4. Cardinality(l) <= Cardinality(Recent(c, s)) BY Zenon, <1>1, <2>2, <2>3, AgesFinite, ShiftedAges
  <2>5. Cardinality(Recent(c, s)) <= n BY Zenon, <1>4 DEF PacedAt
  <2>6. Cardinality(l) <= n BY <1>1, <2>3, <2>4, <2>5, AgesFinite
  <2> QED BY <1>1, <1>2, <2>1, <2>6 DEF PacedAt
<1>5. CASE c >= 0 /\ c >= t
  <2>1. Left(c, t) = c - t /\ c - t >= 0 BY <1>5 DEF Left
  <2>2. \A a \in Recent(c - t, l) : a - t \in Recent(c, s) BY <1>0, <1>1, <1>5 DEF Recent
  <2>3. \A a \in Older(c - t, l) : a - t \in Older(c, s) BY <1>0, <1>1, <1>5 DEF Older
  <2>4. Recent(c, s) \in SUBSET s /\ Older(c, s) \in SUBSET s BY Zenon DEF Recent, Older
  <2>5. Recent(c - t, l) \in SUBSET l /\ Older(c - t, l) \in SUBSET l BY Zenon DEF Recent, Older
  <2>6. Recent(c - t, l) \in SUBSET Int /\ Older(c - t, l) \in SUBSET Int BY Zenon, <1>1, <2>5
  <2>f. IsFiniteSet(Recent(c, s)) /\ IsFiniteSet(Older(c, s)) BY Zenon, <2>4, AgesFinite
  <2> HIDE DEF l
  <2>7. Cardinality(Recent(c - t, l)) <= Cardinality(Recent(c, s)) BY Zenon, <2>2, <2>6, <2>f, ShiftedAges
  <2>8. Cardinality(Older(c - t, l)) <= Cardinality(Older(c, s)) BY Zenon, <2>3, <2>6, <2>f, ShiftedAges
  <2>9. Cardinality(Recent(c, s)) <= n /\ Cardinality(Older(c, s)) <= FastRetryCount BY Zenon, <1>5 DEF PacedAt
  <2>10. /\ Cardinality(Recent(c, s)) \in Nat /\ Cardinality(Older(c, s)) \in Nat
         /\ Cardinality(Recent(c - t, l)) \in Nat /\ Cardinality(Older(c - t, l)) \in Nat
    BY Zenon, <1>1, <2>4, <2>5, AgesFinite
  <2>11. Cardinality(Recent(c - t, l)) <= n /\ Cardinality(Older(c - t, l)) <= FastRetryCount
    BY <1>0, <2>7, <2>8, <2>9, <2>10
  <2> QED BY Zenon, <1>1, <1>2, <2>1, <2>11 DEF PacedAt, l
<1> QED BY <1>3, <1>4, <1>5

(* A fast retry is counted.                                                *)
LEMMA FastRetried ==
  ASSUME NEW n \in 0 .. FastRetryCount, NEW c \in -1 .. FastRetryWindow, c < FastRetryWindow,
         NEW s \in SUBSET (0 .. FastRetryWindow - 1), PacedAt(n, c, s)
  PROVE  PacedAt(n + 1, c, s \cup {0}) /\ s \cup {0} \in SUBSET (0 .. FastRetryWindow - 1)
<1>0. FastRetryWindow \in Nat \ {0} /\ FastRetryCount \in Nat BY Zenon, BackoffAssumption
<1>1. s \cup {0} \in SUBSET (0 .. FastRetryWindow - 1) BY <1>0
<1>2. \A r : IsFiniteSet(r) => Cardinality(r \cup {0}) = IF 0 \in r THEN Cardinality(r) ELSE Cardinality(r) + 1
  BY Zenon, FS_AddElement
<1>3. CASE c < 0
  <2>1. Cardinality(s) <= n BY <1>3 DEF PacedAt
  <2>2. Cardinality(s) \in Nat /\ IsFiniteSet(s) BY Zenon, AgesFinite
  <2>3. Cardinality(s \cup {0}) <= n + 1 BY <1>2, <2>1, <2>2
  <2> QED BY <1>1, <1>3, <2>3 DEF PacedAt
<1>4. CASE c >= 0
  <2>1. Recent(c, s \cup {0}) = Recent(c, s) \cup {0} BY <1>0 DEF Recent
  <2>2. Older(c, s \cup {0}) = Older(c, s) BY <1>0 DEF Older
  <2>3. Cardinality(Recent(c, s)) <= n /\ Cardinality(Older(c, s)) <= FastRetryCount BY Zenon, <1>4 DEF PacedAt
  <2>4. Recent(c, s) \in SUBSET s BY Zenon DEF Recent
  <2>5. Cardinality(Recent(c, s)) \in Nat /\ IsFiniteSet(Recent(c, s)) BY Zenon, <2>4, AgesFinite
  <2>6. Cardinality(Recent(c, s) \cup {0}) <= n + 1 BY <1>2, <2>3, <2>5
  <2> QED BY Zenon, <1>1, <1>4, <2>1, <2>2, <2>3, <2>6 DEF PacedAt
<1> QED BY <1>3, <1>4

(* A window that opens finds no more than one count before it.             *)
LEMMA WindowOpens ==
  ASSUME NEW n \in 0 .. FastRetryCount, NEW c \in -1 .. FastRetryWindow, c < 0,
         NEW s \in SUBSET (0 .. FastRetryWindow - 1), PacedAt(n, c, s)
  PROVE  PacedAt(0, FastRetryWindow, s)
<1>0. FastRetryWindow \in Nat \ {0} /\ FastRetryCount \in Nat BY Zenon, BackoffAssumption
<1>e. \A a \in s : a \in Int /\ a >= 0 BY <1>0
<1>w. FastRetryWindow - FastRetryWindow = 0 BY <1>0
<1>f. \A a \in s : ~(a < FastRetryWindow - FastRetryWindow) BY <1>e, <1>w
<1>1. Recent(FastRetryWindow, s) = {} BY Zenon, <1>f DEF Recent
<1>2. Older(FastRetryWindow, s) = s BY Zenon, <1>e, <1>w DEF Older
<1>3. Cardinality(s) <= n BY DEF PacedAt
<1>4. Cardinality(s) \in Nat BY Zenon, AgesFinite
<1>5. Cardinality({}) = 0 BY Zenon, FS_EmptySet
<1>6. Cardinality(s) <= FastRetryCount BY <1>0, <1>3, <1>4
<1> QED BY <1>0, <1>1, <1>2, <1>5, <1>6 DEF PacedAt

(* Multiplying a delay leaves a positive delay.                            *)
LEMMA TimesFacts == ASSUME NEW d \in Nat \ {0}, NEW x \in Nat PROVE Times(d, x) \in Nat \ {0}
<1>1. d * x \in Nat OBVIOUS
<1>2. (d * x) \div 10 \in Nat BY <1>1
<1> QED BY <1>2 DEF Times

(* Every step of the backoff manager keeps the inductive invariant.        *)
LEMMA BackoffStep == ASSUME BackoffIInv, BackoffNext PROVE BackoffIInv'
<1>a. /\ Duration \in Nat \ {0} /\ Factor \in Nat \ {0} /\ FastRetryCount \in Nat \ {0}
      /\ FastRetryDelay \in Nat \ {0} /\ FastRetryWindow \in Nat \ {0}
      /\ MaxDuration \in Nat /\ MaxDuration >= Duration /\ Spread \subseteq Nat /\ Lasts \subseteq Nat
      /\ \A x \in Spread : Times(FastRetryDelay, x) <= MaxDuration
  BY Zenon, BackoffAssumption
<1>i. /\ delay \in Nat /\ fastCount \in 0 .. FastRetryCount /\ cutoff \in -1 .. FastRetryWindow
      /\ cutoff < FastRetryWindow /\ shorts \in SUBSET (0 .. FastRetryWindow - 1)
      /\ PacedAt(fastCount, cutoff, shorts)
  BY <1>a DEF BackoffIInv, BackoffTypeOK
(* What was so before the delay d is so after it.                          *)
<1>q. ASSUME NEW n \in 0 .. FastRetryCount, NEW c \in -1 .. FastRetryWindow,
             NEW s \in SUBSET (0 .. FastRetryWindow - 1), PacedAt(n, c, s),
             NEW d \in Nat \ {0}, d <= MaxDuration, delay' = d, fastCount' = n,
             cutoff' = Left(c, d), shorts' = Later(s, d)
      PROVE  BackoffIInv'
  <2>1. /\ PacedAt(n, Left(c, d), Later(s, d)) /\ Later(s, d) \in SUBSET (0 .. FastRetryWindow - 1)
        /\ Left(c, d) \in -1 .. FastRetryWindow /\ Left(c, d) < FastRetryWindow
    BY <1>q, Elapses
  <2>2. PacedAt(fastCount, cutoff, shorts)' BY Zenon, <1>q, <2>1 DEF PacedAt, Recent, Older
  <2>3. BackoffTypeOK' BY <1>a, <1>q, <2>1 DEF BackoffTypeOK
  <2> QED BY <1>a, <1>q, <2>1, <2>2, <2>3 DEF BackoffIInv, NeverLonger
<1>1. PICK t \in Lasts : Succeeds(t) \/ \E x \in Spread : RoundFails(t, x) BY Zenon DEF BackoffNext
<1> DEFINE left == Left(cutoff, t)  seen == Later(shorts, t)
<1>2. t \in Nat BY Zenon, <1>1, <1>a
<1>3. /\ PacedAt(fastCount, left, seen) /\ seen \in SUBSET (0 .. FastRetryWindow - 1)
      /\ left \in -1 .. FastRetryWindow /\ left < FastRetryWindow
  <2>1. /\ PacedAt(fastCount, left, seen) /\ seen \in SUBSET (0 .. FastRetryWindow - 1)
        /\ left \in -1 .. FastRetryWindow /\ left <= cutoff
    BY Zenon, <1>i, <1>2, Elapses
  <2> QED BY <1>a, <1>i, <2>1
<1>4. CASE Succeeds(t)
  <2>1. /\ delay' = Duration /\ cutoff' = Left(left, Duration) /\ shorts' = Later(seen, Duration)
        /\ fastCount' = fastCount
    BY Zenon, <1>4 DEF Succeeds
  <2> HIDE DEF left, seen
  <2> QED BY Zenon, <1>q, <1>a, <1>i, <1>3, <2>1
<1>5. CASE \E x \in Spread : RoundFails(t, x)
  <2>1. PICK x \in Spread : RoundFails(t, x) BY Zenon, <1>5
  <2>2. x \in Nat BY Zenon, <1>a
  <2>3. CASE fastCount + 1 <= FastRetryCount
    <3> DEFINE d == Times(FastRetryDelay, x)
    <3>1. /\ fastCount' = fastCount + 1 /\ cutoff' = Left(left, d) /\ delay' = d
          /\ shorts' = Later(seen \cup {0}, d)
      BY Zenon, <2>1, <2>3 DEF RoundFails
    <3>2. d \in Nat \ {0} /\ d <= MaxDuration BY Zenon, <1>a, <2>2, TimesFacts
    <3>3. fastCount + 1 \in 0 .. FastRetryCount BY <1>i, <1>a, <2>3
    <3> HIDE DEF d, left, seen
    <3>4. /\ PacedAt(fastCount + 1, left, seen \cup {0})
          /\ seen \cup {0} \in SUBSET (0 .. FastRetryWindow - 1)
      BY Zenon, <1>i, <1>3, FastRetried
    <3> QED BY Zenon, <1>q, <1>3, <3>1, <3>2, <3>3, <3>4
  <2>4. CASE ~(fastCount + 1 <= FastRetryCount)
    <3> DEFINE d == Longer(x)
    <3>1. /\ fastCount' = IF WindowOver(left) THEN 0 ELSE FastRetryCount
          /\ cutoff' = Left(IF WindowOver(left) THEN FastRetryWindow ELSE left, d) /\ delay' = d
          /\ shorts' = Later(seen, d)
      BY Zenon, <2>1, <2>4 DEF RoundFails
    <3>2. d \in Nat \ {0} /\ d <= MaxDuration
      <4> DEFINE b == IF delay = 0 THEN Duration ELSE delay
      <4>1. b \in Nat \ {0} BY Zenon, <1>a, <1>i
      <4> HIDE DEF b
      <4>2. b * Factor \in Nat \ {0} BY <1>a, <4>1
      <4>3. Times(b * Factor, x) \in Nat \ {0} BY Zenon, <2>2, <4>2, TimesFacts
      <4>4. Capped(Times(b * Factor, x)) \in Nat \ {0} /\ Capped(Times(b * Factor, x)) <= MaxDuration
        BY <1>a, <4>3 DEF Capped
      <4> QED BY Zenon, <4>4 DEF Longer, b
    <3>3. fastCount = FastRetryCount BY <1>i, <1>a, <2>4
    <3> HIDE DEF d, left, seen
    <3>4. CASE WindowOver(left)
      <4>1. left < 0 BY Zenon, <3>4 DEF WindowOver
      <4>2. PacedAt(0, FastRetryWindow, seen) BY Zenon, <1>i, <1>3, <4>1, WindowOpens
      <4>3. 0 \in 0 .. FastRetryCount /\ FastRetryWindow \in -1 .. FastRetryWindow BY <1>a
      <4>4. fastCount' = 0 /\ cutoff' = Left(FastRetryWindow, d) BY Zenon, <3>1, <3>4
      <4> QED BY Zenon, <1>q, <1>3, <3>1, <3>2, <4>2, <4>3, <4>4
    <3>5. CASE ~WindowOver(left)
      <4>1. fastCount' = fastCount /\ cutoff' = Left(left, d) BY Zenon, <3>1, <3>3, <3>5
      <4> QED BY Zenon, <1>q, <1>i, <1>3, <3>1, <3>2, <4>1
    <3> QED BY Zenon, <3>4, <3>5
  <2> QED BY Zenon, <2>3, <2>4
<1> QED BY Zenon, <1>1, <1>4, <1>5

(* No delay is longer than the maximum and no window of any length holds   *)
(* more than two counts of short retries.                                  *)
THEOREM RetriesSafe == BackoffSpec => [](BackoffTypeOK /\ RetriesPaced)
<1>0. /\ FastRetryCount \in Nat \ {0} /\ FastRetryWindow \in Nat \ {0} /\ MaxDuration \in Nat
  BY Zenon, BackoffAssumption
<1>1. BackoffInit => BackoffIInv
  <2>1. Cardinality({}) = 0 BY Zenon, FS_EmptySet
  <2> QED BY <1>0, <2>1 DEF BackoffInit, BackoffIInv, BackoffTypeOK, NeverLonger, PacedAt
<1>2. BackoffIInv /\ [BackoffNext]_backoffVars => BackoffIInv'
  <2> SUFFICES ASSUME BackoffIInv, [BackoffNext]_backoffVars PROVE BackoffIInv' OBVIOUS
  <2>1. CASE UNCHANGED backoffVars
    BY Zenon, <2>1 DEF BackoffIInv, backoffVars, BackoffTypeOK, NeverLonger, PacedAt, Recent, Older
  <2> QED BY Zenon, <2>1, BackoffStep
<1>3. BackoffIInv => BackoffTypeOK /\ RetriesPaced
  <2> SUFFICES ASSUME BackoffIInv PROVE Cardinality(shorts) <= 2 * FastRetryCount
    BY Zenon DEF BackoffIInv, RetriesPaced, FewShortRetries
  <2>1. shorts \in SUBSET (0 .. FastRetryWindow - 1) /\ fastCount \in 0 .. FastRetryCount
    BY <1>0 DEF BackoffIInv, BackoffTypeOK
  <2>2. CASE cutoff < 0
    <3>1. Cardinality(shorts) <= fastCount BY <2>2 DEF BackoffIInv, PacedAt, BackoffTypeOK
    <3>2. Cardinality(shorts) \in Nat BY Zenon, <2>1, AgesFinite
    <3> QED BY <1>0, <2>1, <3>1, <3>2
  <2>3. CASE cutoff >= 0
    <3> DEFINE r == Recent(cutoff, shorts)  o == Older(cutoff, shorts)
    <3>1. Cardinality(r) <= fastCount /\ Cardinality(o) <= FastRetryCount BY Zenon, <2>3 DEF BackoffIInv, PacedAt
    <3>i. cutoff \in Int /\ \A a \in shorts : a \in Int BY <2>1 DEF BackoffIInv, BackoffTypeOK
    <3>j. \A a \in shorts : a < FastRetryWindow - cutoff \/ a >= FastRetryWindow - cutoff BY <1>0, <3>i
    <3>2. r \in SUBSET shorts /\ o \in SUBSET shorts /\ shorts = r \cup o
      BY Zenon, <3>j DEF Recent, Older
    <3>3. IsFiniteSet(r) /\ IsFiniteSet(o) /\ Cardinality(r) \in Nat /\ Cardinality(o) \in Nat
      BY Zenon, <2>1, <3>2, AgesFinite
    <3> HIDE DEF r, o
    <3>4. Cardinality(shorts) = Cardinality(r) + Cardinality(o) - Cardinality(r \cap o)
      BY Zenon, <3>2, <3>3, FS_Union
    <3>5. Cardinality(r \cap o) \in Nat
      <4>1. r \cap o \in SUBSET shorts BY Zenon, <3>2
      <4> QED BY Zenon, <2>1, <4>1, AgesFinite
    <3> QED BY <1>0, <2>1, <3>1, <3>3, <3>4, <3>5
  <2> QED BY <2>1, <2>2, <2>3 DEF BackoffIInv, BackoffTypeOK
<1> QED BY <1>1, <1>2, <1>3, PTL DEF BackoffSpec

-----------------------------------------------------------------------------
(***************************************************************************)
(* The store: at whatever step of saveToFileUnlocked the process crashes.  *)
(***************************************************************************)
Saving == {"open", "sync", "rename"}
Whole(f) == f.kind # "part" /\ f.entries \in Entries

StoreTypes ==
  /\ storeMem \in Entries /\ acked \in Entries /\ Whole(storeFile)
  /\ op.at \in {"none", "open", "sync", "rename", "reload"}

(* Between calls memory and file are what was answered.                    *)
IdleIsAcked == (up /\ op.at = "none") => storeMem = acked /\ storeFile.entries = acked

(* During a change memory is what was answered, changed at one name, and   *)
(* the operation remembers what to put back.                               *)
BusyIsOneOff ==
  op.at # "none" =>
    /\ up /\ pending = {storeMem}
    /\ op.name \in Entry /\ op.old = acked[op.name]
    /\ storeMem = [acked EXCEPT ![op.name] = storeMem[op.name]]

(* The file changes at the rename, all at once: the old content before it, *)
(* the new one after it, and the temporary file is complete by then.       *)
FileOldOrNew ==
  /\ op.at \in Saving => storeFile.entries = acked
  /\ op.at = "rename" => tmpFile = [kind |-> "whole", entries |-> storeMem]
  /\ op.at = "reload" => storeFile.entries = storeMem

(* What a crash leaves is one of the two.                                  *)
DownIsOldOrNew == ~up => op.at = "none" /\ storeFile.entries \in {acked} \cup pending

StoreIInv == StoreTypes /\ IdleIsAcked /\ BusyIsOneOff /\ FileOldOrNew /\ DownIsOldOrNew

(* An item is a value, and entries are a function of them.                 *)
LEMMA EmptyIsEntries == NoEntries \in Entries /\ NoOp.at = "none"
  BY Zenon DEF NoEntries, Entries, Item, NoOp

(* The aggregator hands out clones, so that Complete changes nothing in    *)
(* the store.                                                              *)
LEMMA CompleteChangesNothing ==
  ASSUME NEW src, NEW store \in Entries, ReloadConfigFromSources(src, store)
  PROVE  storeMem' = store
<1> DEFINE merged == AggregatorLoad(src.entries, store)
           loaded == FilterClientConfigurers(src.start, merged)
<1>1. \A n \in DOMAIN merged : merged[n].same = FALSE
  BY Zenon DEF AggregatorLoad, LoadSource, Cloned
<1>2. DOMAIN loaded \subseteq DOMAIN merged /\ \A n \in DOMAIN loaded : loaded[n] = merged[n]
  BY Zenon DEF FilterClientConfigurers
<1>3. storeMem' = AfterComplete(store, loaded)
  BY Zenon DEF ReloadConfigFromSources
<1> HIDE DEF merged, loaded
<1>4. AfterComplete(store, loaded) = [n \in Entry |-> store[n]]
  BY Zenon, <1>1, <1>2 DEF AfterComplete
<1> QED
  BY Zenon, <1>3, <1>4 DEF Entries

(* A client that starts without a store.                                   *)
LEMMA StoreInitial == StoreInit => StoreIInv
  BY EmptyIsEntries
  DEF StoreInit, StoreIInv, StoreTypes, Whole, IdleIsAcked, BusyIsOneOff, FileOldOrNew, DownIsOldOrNew,
      NoFile, Saving

(* A change of one entry begins.                                           *)
LEMMA MutateKeeps ==
  ASSUME StoreIInv, NEW n \in Entry, NEW e \in Item, Mutate(n, e)
  PROVE  StoreIInv'
<1> USE DEF StoreIInv, StoreTypes, Whole, IdleIsAcked, BusyIsOneOff, FileOldOrNew, DownIsOldOrNew, Saving
<1>1. storeMem = acked /\ storeMem' = [acked EXCEPT ![n] = e] /\ pending' = {storeMem'}
  BY Zenon DEF Mutate
<1>2. op'.at = "open" /\ op'.name = n /\ op'.old = acked[n] /\ acked' = acked /\ up' /\ up
  BY Zenon, <1>1 DEF Mutate
<1>3. storeMem' \in Entries /\ storeMem'[n] = e
  BY Zenon, <1>1 DEF Entries
<1>4. storeMem' = [acked' EXCEPT ![op'.name] = storeMem'[op'.name]]
  BY Zenon, <1>1, <1>2, <1>3
<1>5. storeFile' = storeFile /\ storeFile.entries = acked
  BY Zenon DEF Mutate
<1> QED
  BY Zenon, <1>1, <1>2, <1>3, <1>4, <1>5

(* Every step keeps the invariant.                                         *)
LEMMA StoreStep == StoreIInv /\ [StoreNext]_storeVars => StoreIInv'
<1> SUFFICES ASSUME StoreIInv, [StoreNext]_storeVars PROVE StoreIInv'
  OBVIOUS
<1> USE DEF StoreIInv, StoreTypes, Whole, IdleIsAcked, BusyIsOneOff, FileOldOrNew, DownIsOldOrNew, Saving
<1>1. CASE StartClient
  <2>1. storeMem' = storeFile.entries
    BY Zenon, <1>1, CompleteChangesNothing DEF StartClient, LoadFromFile
  <2> QED
    BY Zenon, <1>1, <2>1 DEF StartClient, LoadFromFile
<1>2. CASE CrashClient
  BY Zenon, <1>2, EmptyIsEntries DEF CrashClient
<1>3. CASE OpenTemp
  BY <1>3 DEF OpenTemp, ToTemp
<1>4. CASE SyncTemp
  BY <1>4 DEF SyncTemp
<1>5. CASE RenameTemp
  BY <1>5 DEF RenameTemp
<1>6. CASE PersistFails
  <2>1. storeMem' = acked
    BY Zenon, <1>6 DEF PersistFails, Rollback, Entries
  <2> QED
    BY Zenon, <1>6, <2>1, EmptyIsEntries DEF PersistFails
<1>7. CASE ReloadAfterStore
  <2>1. storeMem' = storeMem
    BY Zenon, <1>7, CompleteChangesNothing DEF ReloadAfterStore
  <2>2. acked' = storeMem
    BY Zenon, <1>7 DEF ReloadAfterStore
  <2> QED
    BY Zenon, <1>7, <2>1, <2>2, EmptyIsEntries DEF ReloadAfterStore
<1>8. CASE WriteConfigFile
  BY Zenon, <1>8 DEF WriteConfigFile
<1>9. CASE ReloadFromFile
  BY Zenon, <1>9 DEF ReloadFromFile
<1>10. CASE UpdateConfigSource
  <2>1. storeMem' = storeMem
    BY Zenon, <1>10, CompleteChangesNothing DEF UpdateConfigSource
  <2> QED
    BY Zenon, <1>10, <2>1 DEF UpdateConfigSource
<1>11. CASE \E n \in Entry : CreateStoreProxy(n) \/ UpdateStoreProxy(n) \/ DeleteStoreProxy(n)
                         \/ CreateStoreVisitor(n) \/ UpdateStoreVisitor(n) \/ DeleteStoreVisitor(n)
  <2>1. PICK n \in Entry, e \in Item : Mutate(n, e)
    BY Zenon, <1>11
    DEF CreateStoreProxy, UpdateStoreProxy, DeleteStoreProxy, CreateStoreVisitor, UpdateStoreVisitor,
        DeleteStoreVisitor, AddStoreEntry, UpdateStoreEntry, RemoveStoreEntry, ValidItem, Item
  <2> QED
    BY Zenon, <2>1, MutateKeeps
<1>12. CASE UNCHANGED storeVars
  BY Zenon, <1>12 DEF storeVars
<1> QED
  BY Zenon, <1>1, <1>2, <1>3, <1>4, <1>5, <1>6, <1>7, <1>8, <1>9, <1>10, <1>11, <1>12 DEF StoreNext

(* The invariant holds in every reachable state of the store.              *)
LEMMA StoreAlways == StoreSpec => []StoreIInv
  BY StoreInitial, StoreStep, PTL DEF StoreSpec

(* Only StartClient brings a client up, and what it reads is what was      *)
(* answered, or the change that the crash cut off.                         *)
LEMMA StartSurvives ==
  StoreIInv /\ [StoreNext]_storeVars => [(~up /\ up') => storeMem' \in {acked} \cup pending]_storeVars
<1> SUFFICES ASSUME StoreIInv, [StoreNext]_storeVars, ~up, up'
             PROVE  storeMem' \in {acked} \cup pending
  BY Zenon
<1>1. StartClient
  BY Zenon DEF StoreIInv, BusyIsOneOff, StoreNext, storeVars, CrashClient, OpenTemp, SyncTemp, RenameTemp,
         PersistFails, ReloadAfterStore, WriteConfigFile, ReloadFromFile, UpdateConfigSource,
         CreateStoreProxy, UpdateStoreProxy, DeleteStoreProxy, CreateStoreVisitor, UpdateStoreVisitor,
         DeleteStoreVisitor, AddStoreEntry, UpdateStoreEntry, RemoveStoreEntry, Mutate
<1>2. storeMem' = storeFile.entries
  BY Zenon, <1>1, CompleteChangesNothing DEF StartClient, LoadFromFile, StoreIInv, StoreTypes, Whole
<1> QED
  BY Zenon, <1>2 DEF StoreIInv, DownIsOldOrNew

(* A call of the API that was answered is kept and one that failed leaves  *)
(* nothing behind, over crashes at every step of saveToFileUnlocked, and   *)
(* the file can always be read (pkg/config/source/store.go).               *)
THEOREM StoreIsDurable == StoreSpec => StoreDurable
<1>1. StoreIInv => StoreAsAcked /\ Readable
  BY Zenon DEF StoreIInv, IdleIsAcked, StoreTypes, Whole, StoreAsAcked, Readable
<1> QED
  BY <1>1, StoreAlways, StartSurvives, PTL DEF StoreSpec, StoreDurable, Survives
=============================================================================

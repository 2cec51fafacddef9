--------------------------- MODULE ClientService ---------------------------
(***************************************************************************)
(* The life of frpc: client/service.go, the sessions it dials              *)
(* (client/control_session.go, client/connector.go) and the controls it    *)
(* runs on them (client/control.go).                                       *)
(*                                                                         *)
(* Run logs in and starts keepControllerWorking, which logs in again when  *)
(* a control is done: one goroutine after the other, together the          *)
(* variable login.  A reload replaces the configuration, and stop runs     *)
(* once the context is cancelled.  The locks are held within a step.       *)
(***************************************************************************)
EXTENDS Integers, FiniteSets

CONSTANTS Session,       \* sessions, with the controls made of them
          MaxVersion,    \* bound: configurations
          NoSession

ASSUME ServiceAssumption == NoSession \notin Session /\ MaxVersion \in Nat \ {0}

VARIABLES
  server,    \* "fresh": it leaves logins with an old run id unanswered; "any"
  svc,       \* Service: ctx, ctl, runID, the configuration, stop
  login,     \* the goroutine that logs in
  session,   \* connector, conn, worker, and the configuration of its proxies
  visitors,  \* the configuration of the visitor manager
  reload     \* UpdateAllConfigurer of a reload

svcVars == <<server, svc, login, session, visitors, reload>>
Version == 1 .. MaxVersion
Unused == [connector |-> FALSE, conn |-> FALSE, worker |-> "none", cfg |-> 0, pong |-> TRUE]

SvcTypeOK ==
  /\ server \in {"fresh", "any"}
  /\ svc \in [cancelled : BOOLEAN, stopped : BOOLEAN, ctl : Session \cup {NoSession},
              runID : BOOLEAN, version : Version]
  /\ login \in [at : {"open", "connect", "exchange", "config", "run", "publish", "wait", "over"},
                first : BOOLEAN, s : Session \cup {NoSession}, cfg : Version, failures : 0 .. 3]
  /\ session \in [Session -> [connector : BOOLEAN, conn : BOOLEAN, cfg : 0 .. MaxVersion,
                              worker : {"none", "runs", "done"}, pong : BOOLEAN]]
  /\ visitors \in 0 .. MaxVersion
  /\ reload \in {"idle", "stored", "apply"}

SvcInit ==
  /\ server \in {"fresh", "any"}
  /\ svc = [cancelled |-> FALSE, stopped |-> FALSE, ctl |-> NoSession, runID |-> FALSE,
            version |-> 1]
  /\ login = [at |-> "open", first |-> TRUE, s |-> NoSession, cfg |-> 1, failures |-> 0]
  /\ session = [s \in Session |-> Unused]
  /\ visitors = 0 /\ reload = "idle"
-----------------------------------------------------------------------------
(* Connector.Open: the quic connection or the tcp mux session.             *)
OpenConnector(s) ==
  /\ login.at = "open" /\ ~svc.cancelled /\ session[s] = Unused
  /\ session' = [session EXCEPT ![s].connector = TRUE]
  /\ login' = [login EXCEPT !.at = "connect", !.s = s]
  /\ UNCHANGED <<server, svc, visitors, reload>>

(* Connector.Connect: a stream of it, or a connection of its own.          *)
ConnectServer ==
  /\ login.at = "connect"
  /\ session' = [session EXCEPT ![login.s].conn = TRUE]
  /\ login' = [login EXCEPT !.at = "exchange"]
  /\ UNCHANGED <<server, svc, visitors, reload>>

(* A failed attempt: the deferred calls of Dial close what is open, and    *)
(* the third failure in a row drops the run id.  With loginFailExit the    *)
(* first failure of the first login cancels the service.                   *)
LeaveConnector(s) == [session[s] EXCEPT !.conn = FALSE]
Abandon(s) == [session[s] EXCEPT !.conn = FALSE, !.connector = FALSE]
KeepRunID(n) == svc.runID
RunIDAfter(n) == svc.runID /\ n < 3
LoginFails(exit) ==
  /\ login.at \in {"open", "connect", "exchange"} /\ (login.at = "open" => ~svc.cancelled)
  /\ exit => login.first
  /\ \E n \in {IF login.failures < 3 THEN login.failures + 1 ELSE 3} :
       /\ login' = [login EXCEPT !.at = "open", !.s = NoSession, !.failures = n]
       /\ svc' = [svc EXCEPT !.runID = RunIDAfter(n), !.cancelled = @ \/ exit]
  /\ IF login.at = "open" THEN UNCHANGED session
     ELSE session' = [session EXCEPT ![login.s] = Abandon(login.s)]
  /\ UNCHANGED <<server, visitors, reload>>

(* exchangeLogin, and the control connection's crypto.                     *)
ExchangeLogin ==
  /\ login.at = "exchange" /\ (server = "fresh" => ~svc.runID)
  /\ svc' = [svc EXCEPT !.runID = TRUE]
  /\ login' = [login EXCEPT !.at = "config", !.failures = 0]
  /\ UNCHANGED <<server, session, visitors, reload>>

(* The configuration is read under cfgMu; NewControl.                      *)
ReadConfig ==
  /\ login.at = "config"
  /\ login' = [login EXCEPT !.at = "run", !.cfg = svc.version]
  /\ session' = [session EXCEPT ![login.s].worker = "runs"]
  /\ UNCHANGED <<server, svc, visitors, reload>>

(* Control.Run after its go ctl.worker(): proxies, then visitors.          *)
ControlRun ==
  /\ login.at = "run"
  /\ login' = [login EXCEPT !.at = "publish"]
  /\ session' = [session EXCEPT ![login.s].cfg = login.cfg]
  /\ visitors' = login.cfg
  /\ UNCHANGED <<server, svc, reload>>

(* Control.Close: the proxy manager, then closeSession.  A control that is *)
(* done is dropped with it.                                                *)
CloseSession(r) == [r EXCEPT !.conn = FALSE, !.connector = FALSE]
CloseControl(r) == IF r.worker = "done" THEN Unused ELSE [CloseSession(r) EXCEPT !.cfg = 0]

(* Under ctlMu the old control is closed and replaced.                     *)
Publish ==
  /\ login.at = "publish"
  /\ session' = IF svc.ctl = NoSession THEN session
                ELSE [session EXCEPT ![svc.ctl] = CloseControl(@)]
  /\ svc' = [svc EXCEPT !.ctl = login.s]
  /\ login' = [login EXCEPT !.at = "wait"]
  /\ UNCHANGED <<server, visitors, reload>>

(* keepControllerWorking: wait for the control, then log in again unless   *)
(* the context is done.                                                    *)
DoNotWait == TRUE
ControlDone == session[login.s].worker = "done"
KeepControllerWorking ==
  /\ login.at = "wait" /\ ControlDone /\ ~svc.cancelled
  /\ login' = [login EXCEPT !.at = "open", !.first = FALSE, !.s = NoSession, !.failures = 0]
  /\ UNCHANGED <<server, svc, session, visitors, reload>>

LoginOver ==
  /\ svc.cancelled /\ \/ login.at = "open"
                      \/ login.at = "wait" /\ ControlDone
  /\ login' = [login EXCEPT !.at = "over", !.s = NoSession]
  /\ UNCHANGED <<server, svc, session, visitors, reload>>
-----------------------------------------------------------------------------
(* The connection fails under the control.                                 *)
SessionLost(s) ==
  /\ session[s].conn /\ session[s].worker = "runs"
  /\ session' = [session EXCEPT ![s].conn = FALSE]
  /\ UNCHANGED <<server, svc, login, visitors, reload>>

(* heartbeatWorker: no Pong comes for HeartbeatTimeout, or one with an     *)
(* error does.                                                             *)
PongsStop(s) ==
  /\ session[s].conn /\ session[s].worker = "runs" /\ session[s].pong
  /\ session' = [session EXCEPT ![s].pong = FALSE]
  /\ UNCHANGED <<server, svc, login, visitors, reload>>

NeverTimesOut(s) == FALSE
TimedOut(s) == ~session[s].pong
HeartbeatTimeout(s) ==
  /\ session[s].worker = "runs" /\ session[s].conn /\ TimedOut(s)
  /\ session' = [session EXCEPT ![s] = CloseSession(@)]
  /\ UNCHANGED <<server, svc, login, visitors, reload>>

HandlePong(s) ==
  /\ session[s].worker = "runs" /\ session[s].conn
  /\ \E error \in BOOLEAN :
       session' = [session EXCEPT ![s] = IF error THEN CloseSession(@) ELSE [@ EXCEPT !.pong = TRUE]]
  /\ UNCHANGED <<server, svc, login, visitors, reload>>

(* worker: the dispatcher is done; the session and the proxies are closed. *)
Worker(s) ==
  /\ session[s].worker = "runs" /\ ~session[s].conn
  /\ session' = [session EXCEPT ![s] = [CloseSession(@) EXCEPT !.worker = "done", !.cfg = 0,
                                                               !.pong = TRUE]]
  /\ UNCHANGED <<server, svc, login, visitors, reload>>
-----------------------------------------------------------------------------
(* UpdateAllConfigurer, under reloadMu: the configuration under cfgMu, a   *)
(* copy of the control under ctlMu, then the control of the field again.   *)
StoreConfig ==
  /\ reload = "idle" /\ ~svc.stopped /\ svc.version < MaxVersion
  /\ svc' = [svc EXCEPT !.version = @ + 1] /\ reload' = "stored"
  /\ UNCHANGED <<server, login, session, visitors>>

CopyControl ==
  /\ reload = "stored"
  /\ reload' = IF svc.ctl = NoSession THEN "idle" ELSE "apply"
  /\ UNCHANGED <<server, svc, login, session, visitors>>

UpdateAll(s) == visitors' = svc.version /\ session' = [session EXCEPT ![s].cfg = svc.version]
ApplyConfig ==
  /\ reload = "apply" /\ reload' = "idle"
  /\ UpdateAll(svc.ctl)
  /\ UNCHANGED <<server, svc, login>>
-----------------------------------------------------------------------------
CancelService ==
  /\ ~svc.cancelled /\ svc' = [svc EXCEPT !.cancelled = TRUE]
  /\ UNCHANGED <<server, login, session, visitors, reload>>

(* stop, of Run: the first login has returned; reloadMu keeps it out of a  *)
(* reload.  The visitor manager is closed with the last control.           *)
StopService ==
  /\ svc.cancelled /\ ~svc.stopped /\ reload = "idle"
  /\ ~login.first \/ login.at \in {"wait", "over"}
  /\ session' = IF svc.ctl = NoSession THEN session
                ELSE [session EXCEPT ![svc.ctl] = CloseControl(@)]
  /\ svc' = [svc EXCEPT !.stopped = TRUE, !.ctl = NoSession]
  /\ visitors' = 0
  /\ UNCHANGED <<server, login, reload>>
-----------------------------------------------------------------------------
SessionStep(s) == PongsStop(s) \/ HandlePong(s) \/ HeartbeatTimeout(s) \/ Worker(s) \/ SessionLost(s)
LoginStep ==
  \/ \E s \in Session : OpenConnector(s)
  \/ ConnectServer \/ ExchangeLogin \/ ReadConfig \/ ControlRun \/ Publish
  \/ KeepControllerWorking \/ LoginOver
  \/ \E exit \in BOOLEAN : LoginFails(exit)

SvcNext ==
  \/ LoginStep \/ StoreConfig \/ CopyControl \/ ApplyConfig \/ CancelService \/ StopService
  \/ \E s \in Session : SessionStep(s)

(* BackoffUntil tries again: every step of the login is taken if it stays  *)
(* possible, and one that the network lets pass again and again succeeds.  *)
LoginFairness ==
  /\ SF_svcVars(\E s \in Session : OpenConnector(s)) /\ SF_svcVars(ConnectServer)
  /\ SF_svcVars(ExchangeLogin)
  /\ WF_svcVars(ReadConfig) /\ WF_svcVars(ControlRun) /\ WF_svcVars(Publish)
  /\ WF_svcVars(KeepControllerWorking) /\ WF_svcVars(LoginOver)
  /\ WF_svcVars(LoginFails(FALSE) /\ login.at # "open")
SvcFairness ==
  /\ LoginFairness
  /\ WF_svcVars(StopService) /\ WF_svcVars(CopyControl) /\ WF_svcVars(ApplyConfig)
  /\ \A s \in Session : WF_svcVars(Worker(s)) /\ WF_svcVars(HeartbeatTimeout(s))
SvcSpec == SvcInit /\ [][SvcNext]_svcVars /\ SvcFairness
-----------------------------------------------------------------------------
(* A client has at most one session with the server at a time: it logs in  *)
(* again only when the control before is done and its connector closed.    *)
OneSession == Cardinality({s \in Session : session[s].connector}) <= 1

(* A session nobody runs is closed: a failed login leaves neither a        *)
(* connection nor a connector open, and neither does a control that is     *)
(* done.                                                                   *)
NothingLeftOpen ==
  \A s \in Session :
    session[s].worker \in {"none", "done"} =>
      \/ login.s = s /\ login.at \in {"connect", "exchange", "config"}
      \/ ~session[s].connector /\ ~session[s].conn

Settled == login.at = "wait" /\ reload = "idle" /\ svc.ctl # NoSession /\ session[svc.ctl].conn
Running == <<session[svc.ctl].cfg, visitors>>
Works(s) == session[s].conn /\ session[s].pong

(* A session whose connection or whose heartbeats are lost is followed by  *)
(* another login that succeeds, whatever the server does with the old run  *)
(* id, unless the service is cancelled.                                    *)
Reconnects ==
  \A s \in Session :
    []<>(svc.ctl = s => svc.cancelled \/ login.at = "publish" \/ Works(s))

(* The configuration a reload stores is, once nothing is under way, the    *)
(* one that runs.                                                          *)
LatestConfigRuns == Settled => Running = <<svc.version, svc.version>>

(* frpc has at most one session open, and none that neither a login nor a  *)
(* control looks after (loopLoginUntilSuccess, keepControllerWorking,      *)
(* stop).                                                                  *)
SessionsSafe ==
  OneSession /\ NothingLeftOpen
=============================================================================

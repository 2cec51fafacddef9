---------------------------- MODULE ClientProxy ----------------------------
(***************************************************************************)
(* The proxies of a client session: client/proxy/proxy_manager.go,         *)
(* client/proxy/proxy_wrapper.go, client/health/health.go and the          *)
(* handleNewProxyResp of client/control.go, with the server that answers   *)
(* NewProxy and obeys CloseProxy (server/control.go).                      *)
(*                                                                         *)
(* A wrapper is one incarnation of a configured proxy: a reload that       *)
(* changes the configuration stops the wrapper of the name and starts      *)
(* another.  Messages of different names do not interact, so the two       *)
(* directions of the control connection are kept as a queue per name.      *)
(* The response timeout and the start error timeout may expire at any      *)
(* check.                                                                  *)
(***************************************************************************)
EXTENDS Naturals, Sequences

CONSTANTS Name,       \* proxy names
          Wrapper,    \* incarnations of the proxies
          NameOf,     \* the name of each
          Monitored,  \* those with a health check
          MaxFailed,  \* healthCheck.maxFailed
          SendRoom,   \* messages of a name a sender may have queued
          None

ASSUME ClientProxyAssumption ==
  /\ NameOf \in [Wrapper -> Name]
  /\ Monitored \subseteq Wrapper
  /\ MaxFailed \in Nat \ {0} /\ SendRoom \in Nat \ {0}
  /\ None \notin Wrapper

(* An instance for TLC: incarnations of one name.                          *)
OneName == [w \in Wrapper |-> CHOOSE n \in Name : TRUE]

VARIABLES
  session,     \* the control connection: "up" or "lost"
  proxies,     \* Manager.proxies
  phase,       \* Wrapper.Phase; "none" before NewWrapper
  worker,      \* the wrappers whose checkWorker runs
  health,      \* Wrapper.health: 0 is healthy
  statusOK,    \* Monitor.statusOK
  failed,      \* Monitor.failedTimes, counted up to MaxFailed
  streak,      \* failed checks since the last success, up to MaxFailed
  callback,    \* the monitors about to call back
  toServer,    \* NewProxy and CloseProxy messages
  toClient,    \* NewProxyResp messages: "ok" or "error"
  handling,    \* the response handleNewProxyResp is at
  registered   \* the names the server has

monitorVars == <<health, statusOK, failed, streak, callback>>
vars == <<session, proxies, phase, worker, monitorVars, toServer, toClient,
          handling, registered>>

Phases == {"none", "new", "wait start", "start error", "running",
           "check failed", "closed"}
Handling == [wrapper : Wrapper, resp : {"ok", "error"}]

TypeOK ==
  /\ session \in {"up", "lost"}
  /\ proxies \in [Name -> Wrapper \cup {None}]
  /\ phase \in [Wrapper -> Phases]
  /\ worker \in SUBSET Wrapper
  /\ health \in [Wrapper -> {0, 1}]
  /\ statusOK \in SUBSET Monitored
  /\ failed \in [Wrapper -> 0..MaxFailed] /\ streak \in [Wrapper -> 0..MaxFailed]
  /\ callback \in SUBSET Monitored
  /\ toServer \in [Name -> Seq({"NewProxy", "CloseProxy"})]
  /\ toClient \in [Name -> Seq({"ok", "error"})]
  /\ handling \in Handling \cup {None}
  /\ registered \in SUBSET Name

Init ==
  /\ session = "up"
  /\ proxies = [n \in Name |-> None]
  /\ phase = [w \in Wrapper |-> "none"] /\ worker = {}
  /\ health = [w \in Wrapper |-> IF w \in Monitored THEN 1 ELSE 0]
  /\ statusOK = {} /\ callback = {}
  /\ failed = [w \in Wrapper |-> 0] /\ streak = [w \in Wrapper |-> 0]
  /\ toServer = [n \in Name |-> <<>>] /\ toClient = [n \in Name |-> <<>>]
  /\ handling = None /\ registered = {}

Live == {w \in Wrapper : phase[w] \notin {"none", "closed"}}
Saturated(k) == IF k < MaxFailed THEN k + 1 ELSE MaxFailed

(* Manager.HandleEvent and Dispatcher.Send: a full queue blocks the        *)
(* sender; once the dispatcher is done the message goes nowhere.           *)
Room(n) == session = "lost" \/ Len(toServer[n]) < SendRoom
Send(n, m) ==
  toServer' = IF session = "up"
              THEN [toServer EXCEPT ![n] = Append(@, m)] ELSE toServer
-----------------------------------------------------------------------------
(* The manager.                                                            *)

(* Wrapper.Stop of the wrappers in W: each tells the server.               *)
Silent(W) == UNCHANGED toServer
Withdraw(W) ==
  toServer' = [n \in Name |->
    IF session = "up" /\ \E w \in W : NameOf[w] = n
    THEN Append(toServer[n], "CloseProxy") ELSE toServer[n]]

Stopped(W) == [w \in Wrapper |-> IF w \in W THEN "closed" ELSE phase[w]]

(* Manager.UpdateAll: conf is what the manager will list.  The wrappers    *)
(* whose configuration is gone or has changed stop, those it adds start.   *)
UpdateAll(conf) ==
  LET old == {w \in Wrapper : proxies[NameOf[w]] = w /\ conf[NameOf[w]] # w}
      new == {w \in Wrapper : conf[NameOf[w]] = w /\ proxies[NameOf[w]] # w}
  IN /\ old \cup new # {}
     /\ \A n \in Name : conf[n] # None => NameOf[conf[n]] = n
     /\ \A w \in new : phase[w] = "none"
     /\ \A w \in old : Room(NameOf[w])
     /\ Withdraw(old)
     /\ proxies' = conf
     /\ phase' = [w \in Wrapper |-> IF w \in new THEN "new" ELSE Stopped(old)[w]]
     /\ worker' = worker \cup new
     /\ UNCHANGED <<session, monitorVars, toClient, handling, registered>>

(* Manager.Close, by GracefulClose or by the worker of a lost control.     *)
Close ==
  LET old == {w \in Wrapper : proxies[NameOf[w]] = w}
  IN /\ old # {} /\ \A w \in old : Room(NameOf[w])
     /\ Withdraw(old)
     /\ phase' = Stopped(old)
     /\ proxies' = [n \in Name |-> None]
     /\ UNCHANGED <<session, worker, monitorVars, toClient, handling, registered>>

(* handleNewProxyResp and Manager.StartProxy: the dispatcher reads a       *)
(* response and looks its name up.                                         *)
KnownOnly(n) == handling = None /\ proxies[n] # None
Readable(n) == handling = None

StartProxy(n) ==
  /\ session = "up" /\ Readable(n) /\ toClient[n] # <<>>
  /\ toClient' = [toClient EXCEPT ![n] = Tail(@)]
  /\ handling' = IF proxies[n] = None THEN None
                 ELSE [wrapper |-> proxies[n], resp |-> Head(toClient[n])]
  /\ UNCHANGED <<session, proxies, phase, worker, monitorVars, toServer, registered>>

(* Wrapper.SetRunningStatus: a response counts only while the wrapper      *)
(* waits for one.  Running the proxy may fail: then it is withdrawn.       *)
AnyPhase(w) == phase[w] # "none"
Awaited(w) == phase[w] = "wait start"

SetRunningStatus ==
  /\ handling # None /\ handling' = None
  /\ LET w == handling.wrapper IN
     \/ ~Awaited(w) /\ UNCHANGED <<phase, toServer>>
     \/ /\ Awaited(w) /\ handling.resp = "error"
        /\ phase' = [phase EXCEPT ![w] = "start error"] /\ UNCHANGED toServer
     \/ /\ Awaited(w) /\ handling.resp = "ok"
        /\ phase' = [phase EXCEPT ![w] = "running"] /\ UNCHANGED toServer
     \/ /\ Awaited(w) /\ handling.resp = "ok"
        /\ phase' = [phase EXCEPT ![w] = "start error"]
        /\ Send(NameOf[w], "CloseProxy")
  /\ UNCHANGED <<session, proxies, worker, monitorVars, toClient, registered>>
-----------------------------------------------------------------------------
(* Wrapper.checkWorker.                                                    *)

CheckHealthy(w) ==
  /\ w \in worker /\ health[w] = 0
  /\ phase[w] \in {"new", "check failed", "wait start", "start error"}
  /\ Room(NameOf[w])
  /\ phase' = [phase EXCEPT ![w] = "wait start"]
  /\ Send(NameOf[w], "NewProxy")
  /\ UNCHANGED <<session, proxies, worker, monitorVars, toClient, handling, registered>>

NeverFails == {}
Withdrawable == {"running", "wait start"}

CheckUnhealthy(w) ==
  /\ w \in worker /\ health[w] = 1
  /\ phase[w] \in Withdrawable
  /\ Room(NameOf[w])
  /\ phase' = [phase EXCEPT ![w] = "check failed"]
  /\ Send(NameOf[w], "CloseProxy")
  /\ UNCHANGED <<session, proxies, worker, monitorVars, toClient, handling, registered>>

ExitWorker(w) ==
  /\ w \in worker /\ phase[w] = "closed"
  /\ worker' = worker \ {w}
  /\ UNCHANGED <<session, proxies, phase, monitorVars, toServer, toClient,
                 handling, registered>>
-----------------------------------------------------------------------------
(* health.Monitor.checkWorker: one check of the local service, then the    *)
(* callback if the status changes.  failedTimes is never reset.            *)

EveryOne == Wrapper
WithMonitor == Monitored

Probe(w) ==
  /\ w \in WithMonitor \ callback /\ w \in Live
  /\ UNCHANGED <<session, proxies, phase, worker, health, toServer, toClient,
                 handling, registered>>

CheckSucceeds(w) ==
  /\ Probe(w)
  /\ streak' = [streak EXCEPT ![w] = 0] /\ UNCHANGED failed
  /\ statusOK' = statusOK \cup {w}
  /\ callback' = IF w \in statusOK THEN callback ELSE callback \cup {w}

CheckFails(w) ==
  /\ Probe(w)
  /\ streak' = [streak EXCEPT ![w] = Saturated(@)]
  /\ failed' = [failed EXCEPT ![w] = Saturated(@)]
  /\ LET down == w \in statusOK /\ failed'[w] >= MaxFailed IN
     /\ statusOK' = IF down THEN statusOK \ {w} ELSE statusOK
     /\ callback' = IF down THEN callback \cup {w} ELSE callback

(* statusNormalCallback and statusFailedCallback; they also wake the       *)
(* worker, which may check at any time here, and survive a closed channel. *)
CallBack(w) ==
  /\ w \in callback /\ callback' = callback \ {w}
  /\ health' = [health EXCEPT ![w] = IF w \in statusOK THEN 0 ELSE 1]
  /\ UNCHANGED <<session, proxies, phase, worker, statusOK, failed, streak,
                 toServer, toClient, handling, registered>>
-----------------------------------------------------------------------------
(* The server, one message at a time: handleNewProxy refuses a name it     *)
(* has, and may refuse any other; handleCloseProxy.                        *)
HandleNewProxy(n) ==
  /\ toServer[n] # <<>> /\ Head(toServer[n]) = "NewProxy"
  /\ Len(toClient[n]) < SendRoom
  /\ toServer' = [toServer EXCEPT ![n] = Tail(@)]
  /\ \/ /\ n \notin registered /\ registered' = registered \cup {n}
        /\ toClient' = [toClient EXCEPT ![n] = Append(@, "ok")]
     \/ /\ toClient' = [toClient EXCEPT ![n] = Append(@, "error")]
        /\ UNCHANGED registered
  /\ UNCHANGED <<session, proxies, phase, worker, monitorVars, handling>>

HandleCloseProxy(n) ==
  /\ toServer[n] # <<>> /\ Head(toServer[n]) = "CloseProxy"
  /\ toServer' = [toServer EXCEPT ![n] = Tail(@)]
  /\ registered' = registered \ {n}
  /\ UNCHANGED <<session, proxies, phase, worker, monitorVars, toClient, handling>>

(* The control connection ends, on both sides.                             *)
LoseSession ==
  /\ session = "up" /\ handling = None
  /\ session' = "lost"
  /\ toServer' = [n \in Name |-> <<>>] /\ toClient' = [n \in Name |-> <<>>]
  /\ registered' = {}
  /\ UNCHANGED <<proxies, phase, worker, monitorVars, handling>>
-----------------------------------------------------------------------------
Check(w) == CheckHealthy(w) \/ CheckUnhealthy(w) \/ ExitWorker(w)
Serve(n) == HandleNewProxy(n) \/ HandleCloseProxy(n)

Next ==
  \/ \E conf \in [Name -> Wrapper \cup {None}] : UpdateAll(conf)
  \/ Close \/ SetRunningStatus \/ LoseSession
  \/ \E n \in Name : StartProxy(n) \/ HandleNewProxy(n) \/ HandleCloseProxy(n)
  \/ \E w \in Wrapper :
       \/ CheckHealthy(w) \/ CheckUnhealthy(w) \/ ExitWorker(w)
       \/ CheckSucceeds(w) \/ CheckFails(w) \/ CallBack(w)

Spec == Init /\ [][Next]_vars

(* The worker's timer fires, the dispatchers of both ends read and handle, *)
(* and a monitor's callback returns.                                       *)
FairSpec ==
  /\ Spec
  /\ \A w \in Wrapper : WF_vars(Check(w)) /\ WF_vars(CallBack(w))
  /\ \A n \in Name : WF_vars(Serve(n)) /\ WF_vars(StartProxy(n))
  /\ WF_vars(SetRunningStatus)
-----------------------------------------------------------------------------
(* The manager lists exactly the wrappers that are started and not         *)
(* stopped: Stop, which closes channels, is never called twice on one, and *)
(* no wrapper keeps working unlisted (Manager.UpdateAll, Manager.Close).   *)
ListedIsLive ==
  \A w \in Wrapper : proxies[NameOf[w]] = w <=> w \in Live

(* A name with no wrapper, or whose wrapper has not asked for it or has    *)
(* withdrawn it, is not and will not stay registered at the server: after  *)
(* what is still queued for the server, the name is free.                  *)
Unclaimed(n) ==
  proxies[n] = None \/ phase[proxies[n]] \in {"new", "check failed", "closed"}
Withdrawn(n) ==
  LET q == toServer[n] IN
  \E i \in 0..Len(q) :
     /\ IF i = 0 THEN n \notin registered ELSE q[i] = "CloseProxy"
     /\ \A j \in i+1..Len(q) : q[j] # "NewProxy"
UnclaimedIsWithdrawn == \A n \in Name : Unclaimed(n) => Withdrawn(n)

(* A proxy whose local service stays down stops being served: once the     *)
(* health of a wrapper is bad for good, its phase is not running           *)
(* (Wrapper.checkWorker).                                                  *)
UnhealthyStops ==
  \A w \in Wrapper : <>[](health[w] = 1) => <>[](phase[w] # "running")

(* A proxy removed from the configuration disappears from the server.      *)
RemovedForgotten ==
  \A n \in Name : <>[](proxies[n] = None) => <>[](n \notin registered)

(* "Server will return NewProxyResp message to each NewProxy message.      *)
(* Start a new proxy handler if no error got" (client/control.go): a proxy *)
(* the server has registered is eventually started, or withdrawn.          *)
AcceptedStarts ==
  \A n \in Name :
    n \in registered ~> \/ n \notin registered
                        \/ proxies[n] # None /\ phase[proxies[n]] = "running"

(* "If continuous failed in 3 times, the proxy will be removed from frps"  *)
(* (conf/frpc_full_example.toml): the health status turns bad only after   *)
(* MaxFailed checks in a row have failed.                                  *)
ContinuousFailures ==
  [][\A w \in Wrapper :
       w \in statusOK /\ w \notin statusOK' => streak'[w] >= MaxFailed]_vars
=============================================================================

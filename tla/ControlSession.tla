--------------------------- MODULE ControlSession ---------------------------
(***************************************************************************)
(* Logins of frpc clients at frps and the life of the controls they        *)
(* create: server/service.go (handleConnection, RegisterControl) and       *)
(* server/control.go (ControlManager, Control).  A control belongs to one  *)
(* connection.  A client that reconnects presents the run id it was given, *)
(* and the new control takes the place of the old one.                     *)
(*                                                                         *)
(* Three goroutines work on a control c: the login goroutine               *)
(* (handleConnection, login[c], which turns into the goroutine that waits  *)
(* for the control to end), the worker (work[c]), and whoever logs in with *)
(* the same run id.  A step of the model is a stretch of code between two  *)
(* points where another goroutine can act: a mutex section, a channel      *)
(* operation, a write on the connection.                                   *)
(***************************************************************************)
EXTENDS ClientRegistry, Integers

CONSTANTS Ctl,       \* controls, one for each login attempt
          ClientOf,  \* the client id configured by the owner of a run id
          MayStop    \* whether behaviours with a shutdown are considered

ASSUME SessionAssumption ==
  /\ ClientOf \in [RunID -> ClientID \cup {None}]
  /\ None \notin Ctl
  /\ MayStop \in BOOLEAN

VARIABLES
  login,        \* where the login goroutine of a control is
  work,         \* where its worker is
  runOf,        \* loginMsg.RunID
  waitFor,      \* the control whose doneCh RegisterControl waits for
  ownRun,       \* ctl.runID, emptied by Replaced
  started,      \* ctl.started
  replaced,     \* ctl.replaced
  done,         \* ctl.doneCh is closed
  closed,       \* the server closed the control connection
  expired,      \* its read deadline is in the past
  peer,         \* the client's end of the connection
  offRun,       \* the run id worker passes to MarkOfflineByRunID
  ctlsByRunID,  \* ControlManager.ctlsByRunID
  reg,          \* the client registry
  clientCount,  \* ClientCounts of the server metrics
  svcClosed     \* the service is shut down

vars == <<login, work, runOf, waitFor, ownRun, started, replaced, done, closed,
          expired, peer, offRun, ctlsByRunID, reg, clientCount, svcClosed>>

ctlVars  == <<runOf, waitFor, ownRun, started, replaced, done>>
connVars == <<closed, expired, peer>>

LoginPC == {"idle", "replacing", "waiting", "registering", "conflict",
            "responding", "undoing", "offlining", "starting", "counting",
            "reaping", "ended"}

WorkPC == {"none", "running", "closing", "reading", "offlining", "finishing", "dead"}

Peers == {"alive", "closed", "silent"}

TypeOK ==
  /\ login \in [Ctl -> LoginPC]
  /\ work \in [Ctl -> WorkPC]
  /\ runOf \in [Ctl -> RunID \cup {None}]
  /\ waitFor \in [Ctl -> Ctl \cup {None}]
  /\ ownRun \in [Ctl -> RunID \cup {None}]
  /\ started \in [Ctl -> BOOLEAN]
  /\ replaced \in [Ctl -> BOOLEAN]
  /\ done \in [Ctl -> BOOLEAN]
  /\ closed \in [Ctl -> BOOLEAN]
  /\ expired \in [Ctl -> BOOLEAN]
  /\ peer \in [Ctl -> Peers]
  /\ offRun \in [Ctl -> RunID \cup {None}]
  /\ ctlsByRunID \in [RunID -> Ctl \cup {None}]
  /\ reg \in Registries
  /\ clientCount \in Int
  /\ svcClosed \in BOOLEAN

Init ==
  /\ login = [c \in Ctl |-> "idle"]
  /\ work = [c \in Ctl |-> "none"]
  /\ runOf = [c \in Ctl |-> None]
  /\ waitFor = [c \in Ctl |-> None]
  /\ ownRun = [c \in Ctl |-> None]
  /\ started = [c \in Ctl |-> FALSE]
  /\ replaced = [c \in Ctl |-> FALSE]
  /\ done = [c \in Ctl |-> FALSE]
  /\ closed = [c \in Ctl |-> FALSE]
  /\ expired = [c \in Ctl |-> FALSE]
  /\ peer = [c \in Ctl |-> "alive"]
  /\ offRun = [c \in Ctl |-> None]
  /\ ctlsByRunID = [r \in RunID |-> None]
  /\ reg = EmptyRegistry
  /\ clientCount = 0
  /\ svcClosed = FALSE

(* The mutex of the ControlManager is free: Add keeps it while it runs     *)
(* Replaced on the control it replaces.                                    *)
ManagerFree == \A c \in Ctl : login[c] # "replacing"

LoginStep(c, from, to) == /\ login[c] = from
                          /\ login' = [login EXCEPT ![c] = to]

WorkStep(c, from, to) == /\ work[c] = from
                         /\ work' = [work EXCEPT ![c] = to]
-----------------------------------------------------------------------------
(* Login handling.                                                         *)

(* Login refused by a plugin or by the authentication: nothing was         *)
(* created, an error is written and the connection closed.                 *)
RejectLogin(c) ==
  /\ LoginStep(c, "idle", "ended")
  /\ closed' = [closed EXCEPT ![c] = TRUE]
  /\ UNCHANGED <<work, ctlVars, expired, peer, offRun, ctlsByRunID, reg,
                 clientCount, svcClosed>>

(* NewControl, then ControlManager.Add up to the unlock of the old         *)
(* control's mutex inside Replaced.  The run id is the one the client      *)
(* presents, or a generated one: RandID's results are the run ids no login *)
(* has used.                                                               *)
AddControl(c, r) ==
  LET old == ctlsByRunID[r] IN
  /\ ManagerFree
  /\ runOf' = [runOf EXCEPT ![c] = r]
  /\ IF old = None
     THEN /\ LoginStep(c, "idle", "registering")
          /\ ownRun' = [ownRun EXCEPT ![c] = r]
          /\ ctlsByRunID' = [ctlsByRunID EXCEPT ![r] = c]
          /\ UNCHANGED <<waitFor, replaced>>
     ELSE /\ LoginStep(c, "idle", "replacing")
          /\ waitFor' = [waitFor EXCEPT ![c] = old]
          /\ replaced' = [replaced EXCEPT ![old] = TRUE]
          /\ ownRun' = [ownRun EXCEPT ![c] = r, ![old] = None]
          /\ UNCHANGED ctlsByRunID
  /\ UNCHANGED <<work, started, done, connVars, offRun, reg, clientCount, svcClosed>>

(* Replaced expires the read deadline: a close alone does not wake a       *)
(* reader whose peer is silent.                                            *)
NoDeadline(old) == UNCHANGED expired
InterruptRead(old) == expired' = [expired EXCEPT ![old] = TRUE]

(* Replaced closes doneCh of a control that has no worker to do it.        *)
DoneAlways(old) == done' = [done EXCEPT ![old] = TRUE]
DoneNever(old) == UNCHANGED done
DoneIfUnstarted(old) == done' = [done EXCEPT ![old] = @ \/ ~started[old]]

(* Add stores the new control.                                             *)
NoStore(c) == UNCHANGED ctlsByRunID
Store(c) == ctlsByRunID' = [ctlsByRunID EXCEPT ![runOf[c]] = c]

(* The rest of Replaced, on a control marked as replaced, and of Add.      *)
FinishAdd(c) ==
  LET old == waitFor[c] IN
  /\ LoginStep(c, "replacing", "waiting")
  /\ InterruptRead(old)
  /\ closed' = [closed EXCEPT ![old] = TRUE]
  /\ DoneIfUnstarted(old)
  /\ Store(c)
  /\ UNCHANGED <<work, runOf, waitFor, ownRun, started, replaced, peer, offRun,
                 reg, clientCount, svcClosed>>

(* oldCtl.WaitClosed() returns.                                            *)
OldClosed(c) ==
  /\ LoginStep(c, "waiting", "registering")
  /\ done[waitFor[c]]
  /\ UNCHANGED <<work, ctlVars, connVars, offRun, ctlsByRunID, reg, clientCount, svcClosed>>

(* clientRegistry.Register: a conflict ends the login.                     *)
RegisterClient(c) ==
  LET r == runOf[c] IN
  /\ \/ /\ LoginStep(c, "registering", "conflict")
        /\ Conflicts(reg, ClientOf[r], r)
        /\ UNCHANGED reg
     \/ /\ LoginStep(c, "registering", "responding")
        /\ ~Conflicts(reg, ClientOf[r], r)
        /\ reg' = Registered(reg, ClientOf[r], r)
  /\ UNCHANGED <<work, ctlVars, connVars, offRun, ctlsByRunID, clientCount, svcClosed>>

(* ControlManager.Del removes the entry of the same control only.          *)
DelAny(c) == /\ ManagerFree
             /\ ctlsByRunID' = [ctlsByRunID EXCEPT ![runOf[c]] = None]
Del(c) == /\ ManagerFree
          /\ ctlsByRunID' = IF ctlsByRunID[runOf[c]] = c
                            THEN [ctlsByRunID EXCEPT ![runOf[c]] = None]
                            ELSE ctlsByRunID

(* The control of a conflicting login leaves the manager; the error is     *)
(* written and the connection closed.                                      *)
DropConflict(c) ==
  /\ LoginStep(c, "conflict", "ended")
  /\ Del(c)
  /\ closed' = [closed EXCEPT ![c] = TRUE]
  /\ UNCHANGED <<work, ctlVars, expired, peer, offRun, reg, clientCount, svcClosed>>

(* LoginResp is written: impossible once the connection is closed on this  *)
(* side.                                                                   *)
WriteResp(c) ==
  /\ LoginStep(c, "responding", "starting")
  /\ ~closed[c]
  /\ UNCHANGED <<work, ctlVars, connVars, offRun, ctlsByRunID, reg, clientCount, svcClosed>>

(* Writing LoginResp fails: closed here, gone there, or a write timeout.   *)
WriteRespFails(c) ==
  /\ LoginStep(c, "responding", "undoing")
  /\ UNCHANGED <<work, ctlVars, connVars, offRun, ctlsByRunID, reg, clientCount, svcClosed>>

(* ctlManager.Del after a failed LoginResp.                                *)
UndoControl(c) ==
  /\ LoginStep(c, "undoing", "offlining")
  /\ Del(c)
  /\ UNCHANGED <<work, ctlVars, connVars, offRun, reg, clientCount, svcClosed>>

(* clientRegistry.MarkOfflineByRunID(m.RunID) and conn.Close().            *)
UndoRegister(c) ==
  /\ LoginStep(c, "offlining", "ended")
  /\ reg' = MarkedOffline(reg, runOf[c])
  /\ closed' = [closed EXCEPT ![c] = TRUE]
  /\ UNCHANGED <<work, ctlVars, expired, peer, offRun, ctlsByRunID, clientCount, svcClosed>>

(* Control.Start: a control replaced in the meantime stays down.           *)
Start(c) ==
  /\ LoginStep(c, "starting", "counting")
  /\ IF replaced[c]
     THEN UNCHANGED <<started, work>>
     ELSE /\ started' = [started EXCEPT ![c] = TRUE]
          /\ WorkStep(c, "none", "running")
  /\ UNCHANGED <<runOf, waitFor, ownRun, replaced, done, connVars, offRun,
                 ctlsByRunID, reg, clientCount, svcClosed>>

(* metrics.Server.NewClient().                                             *)
CountClient(c) ==
  /\ LoginStep(c, "counting", "reaping")
  /\ clientCount' = clientCount + 1
  /\ UNCHANGED <<work, ctlVars, connVars, offRun, ctlsByRunID, reg, svcClosed>>

(* The goroutine that waits for the control to end and takes it out of the *)
(* manager.                                                                *)
Reap(c) ==
  /\ LoginStep(c, "reaping", "ended")
  /\ done[c]
  /\ Del(c)
  /\ UNCHANGED <<work, ctlVars, connVars, offRun, reg, clientCount, svcClosed>>
-----------------------------------------------------------------------------
(* Control.worker.                                                         *)

(* The dispatcher's read returns: the peer closed, the deadline expired,   *)
(* or the close on this side was answered by a live peer (closing a yamux  *)
(* stream only half-closes it).                                            *)
ReaderWakes(c) == expired[c] \/ peer[c] = "closed" \/ (closed[c] /\ peer[c] = "alive")

(* <-msgDispatcher.Done() and Conn.Close().                                *)
WorkerEnds(c) ==
  /\ WorkStep(c, "running", "closing")
  /\ ReaderWakes(c)
  /\ closed' = [closed EXCEPT ![c] = TRUE]
  /\ UNCHANGED <<login, ctlVars, expired, peer, offRun, ctlsByRunID, reg,
                 clientCount, svcClosed>>

(* The pool is drained, the proxies are closed, metrics CloseClient().     *)
CloseProxies(c) ==
  /\ WorkStep(c, "closing", "reading")
  /\ clientCount' = clientCount - 1
  /\ UNCHANGED <<login, ctlVars, connVars, offRun, ctlsByRunID, reg, svcClosed>>

(* ctl.runID is read, without its mutex, as the argument of                *)
(* MarkOfflineByRunID: what Replaced emptied or did not empty yet.         *)
OfflineKey(c) == IF ownRun[c] = None THEN None
                 ELSE ClientKey(ClientOf[ownRun[c]], ownRun[c])
OfflineArg(c) == ownRun[c]

ReadRunID(c) ==
  /\ WorkStep(c, "reading", "offlining")
  /\ offRun' = [offRun EXCEPT ![c] = OfflineArg(c)]
  /\ UNCHANGED <<login, ctlVars, connVars, ctlsByRunID, reg, clientCount, svcClosed>>

MarkOffline(c) ==
  /\ WorkStep(c, "offlining", "finishing")
  /\ reg' = MarkedOffline(reg, offRun[c])
  /\ UNCHANGED <<login, ctlVars, connVars, offRun, ctlsByRunID, clientCount, svcClosed>>

CloseDone(c) ==
  /\ WorkStep(c, "finishing", "dead")
  /\ done' = [done EXCEPT ![c] = TRUE]
  /\ UNCHANGED <<login, runOf, waitFor, ownRun, started, replaced, connVars,
                 offRun, ctlsByRunID, reg, clientCount, svcClosed>>

(* heartbeatWorker closes the connection of a client that stopped pinging. *)
HeartbeatTimeout(c) ==
  /\ work[c] # "none" /\ ~done[c] /\ ~closed[c]
  /\ closed' = [closed EXCEPT ![c] = TRUE]
  /\ UNCHANGED <<login, work, ctlVars, expired, peer, offRun, ctlsByRunID, reg,
                 clientCount, svcClosed>>
-----------------------------------------------------------------------------
(* The environment: the client closes its end, or dies without a FIN and   *)
(* is perhaps noticed by the transport later.                              *)
PeerLeaves(c) ==
  /\ login[c] # "idle" /\ peer[c] # "closed"
  /\ \E p \in {"closed", "silent"} \ {peer[c]} : peer' = [peer EXCEPT ![c] = p]
  /\ UNCHANGED <<login, work, ctlVars, closed, expired, offRun, ctlsByRunID, reg,
                 clientCount, svcClosed>>

(* Service.Close: ControlManager.Close closes every connection it knows    *)
(* and forgets the controls.                                               *)
CloseManager ==
  /\ MayStop /\ ManagerFree /\ ~svcClosed
  /\ svcClosed' = TRUE
  /\ closed' = [c \in Ctl |-> closed[c] \/ \E r \in RunID : ctlsByRunID[r] = c]
  /\ ctlsByRunID' = [r \in RunID |-> None]
  /\ UNCHANGED <<login, work, ctlVars, expired, peer, offRun, reg, clientCount>>

LoginActions(c) ==
  \/ FinishAdd(c) \/ OldClosed(c) \/ RegisterClient(c) \/ DropConflict(c)
  \/ WriteResp(c) \/ WriteRespFails(c) \/ UndoControl(c) \/ UndoRegister(c)
  \/ Start(c) \/ CountClient(c) \/ Reap(c)

WorkerActions(c) ==
  \/ WorkerEnds(c) \/ CloseProxies(c) \/ ReadRunID(c) \/ MarkOffline(c) \/ CloseDone(c)

Next ==
  \/ \E c \in Ctl : \/ RejectLogin(c)
                    \/ \E r \in RunID : AddControl(c, r)
                    \/ LoginActions(c)
                    \/ WorkerActions(c)
                    \/ HeartbeatTimeout(c)
                    \/ PeerLeaves(c)
  \/ CloseManager

Spec == Init /\ [][Next]_vars

(* The table of run ids that the manager implements: a control owns its    *)
(* run id from the store in Add on.                                        *)
Table == INSTANCE RunIDTable WITH
           owner <- ctlsByRunID,
           seen  <- {c \in Ctl : runOf[c] # None /\ login[c] # "replacing"},
           left  <- {c \in Ctl : login[c] \in {"offlining", "ended"}}

(* Goroutines run; clients and the network promise nothing.                *)
FairSpec == /\ Spec
            /\ \A c \in Ctl : WF_vars(LoginActions(c)) /\ WF_vars(WorkerActions(c))

-----------------------------------------------------------------------------
(* WaitClosed returns only for a control that holds nothing: doneCh is     *)
(* closed by a worker after its cleanup, or by Replaced when there is no   *)
(* worker and never will be (Control.closeDone has both callers).          *)
DoneMeansReleased == \A c \in Ctl : done[c] => work[c] \in {"none", "dead"}

(* A login that waits for the control it replaced is always on its way     *)
(* out: either doneCh is closed already, or the old worker is running and  *)
(* its blocked read has been interrupted.  This is what the comment above  *)
(* Control.Replaced asks of it.                                            *)
NoStrandedWaiter ==
  \A c \in Ctl : login[c] = "waiting" =>
    LET old == waitFor[c]
    IN  done[old] \/ (work[old] \notin {"none", "dead"} /\ expired[old])

(* A control that was not replaced stays reachable under its run id from   *)
(* the moment it is stored until its own login or reaper goroutine removes *)
(* it: no other control's Del takes it away (the comment above Del).       *)
OwnerReachable ==
  \A c \in Ctl :
    /\ ~svcClosed /\ ~replaced[c]
    /\ login[c] \in {"waiting", "registering", "conflict", "responding", "undoing",
                     "starting", "counting", "reaping"}
    => ctlsByRunID[runOf[c]] = c

(* Work and visitor connections are never handed to a retired control: the *)
(* manager holds no replaced control, except the one Add is about to       *)
(* overwrite.                                                              *)
RetiredUnreachable ==
  ManagerFree => \A r \in RunID : ctlsByRunID[r] # None => ~replaced[ctlsByRunID[r]]

(* A login never stays blocked on the control it replaces, however the     *)
(* client of the old control died (server/control.go:321, "anything this   *)
(* does not release stays blocked for the life of the process").           *)
WaiterReleased == \A c \in Ctl : login[c] = "waiting" ~> login[c] # "waiting"

(* The handover of run ids, with its locks, waits and failures, implements *)
(* the table of owners: no interleaving of Add, Replaced and Del gives a   *)
(* run id back to a control that lost it, or takes it from the newest one  *)
(* before that one leaves.                                                 *)
ImplementsTable == Table!TableSpec

(* A session runs alone under its run id: "we release previous controller  *)
(* and start new one" (RegisterControl).                                   *)
SingleSession ==
  \A c, d \in Ctl :
    /\ c # d /\ runOf[c] = runOf[d] /\ ~svcClosed
    /\ work[c] \notin {"none", "dead"}
    => work[d] \in {"none", "dead"}

(* The registry shows the client of a running session online:              *)
(* MarkOfflineByRunID is for "when the corresponding control disconnects". *)
RunningIsOnline ==
  \A c \in Ctl : work[c] = "running" /\ ~replaced[c] => OnlineUnder(reg, runOf[c])

(* The manager leads from a run id to the newest control that may serve it *)
(* and never to one that was replaced (Add, Del and GetByID).              *)
HandoverSound ==
  OwnerReachable /\ RetiredUnreachable
=============================================================================

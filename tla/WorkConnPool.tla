---------------------------- MODULE WorkConnPool ----------------------------
(***************************************************************************)
(* The work connections of one control: server/control.go (Start,          *)
(* RegisterWorkConn, GetWorkConn, worker), server/service.go               *)
(* (RegisterWorkConn) and server/proxy/proxy.go (GetWorkConnFromPool,      *)
(* handleUserTCPConnection).                                               *)
(*                                                                         *)
(* frps asks the client for work connections with ReqWorkConn messages;    *)
(* the client dials one for each.  A user connection takes one from the    *)
(* pool, or asks for one and waits.  The pool is a buffered channel; which *)
(* of the pooled connections a receive yields is left open.                *)
(***************************************************************************)
EXTENDS Naturals, FiniteSets

CONSTANTS Conn,       \* work connections
          User,       \* user connections
          PoolCount,  \* ctl.poolCount
          Slack,      \* the channel holds PoolCount + Slack connections
          None

ASSUME PoolAssumption ==
  /\ IsFiniteSet(Conn) /\ IsFiniteSet(User)
  /\ PoolCount \in Nat /\ Slack \in Nat
  /\ None \notin Conn

VARIABLES
  phase,   \* of the control: "up", "done" (dispatcher), "draining" or "gone"
  toAsk,   \* ReqWorkConn messages Start has still to send
  reqs,    \* ReqWorkConn messages on their way to the client
  conn,    \* where a work connection is
  dead,    \* the work connections whose client end has vanished
  lost,    \* ReqWorkConn messages that led to no pooled connection
  user,    \* where the goroutine of a user connection is
  has,     \* the work connection it holds
  tries    \* how many it has tried

vars == <<phase, toAsk, reqs, conn, dead, lost, user, has, tries>>
userVars == <<user, has, tries>>

Phases == {"up", "done", "draining", "gone"}
Places == {"unused", "arriving", "found", "pooled", "taken", "closed", "leaked"}
UserPC == {"idle", "getting", "waiting", "replacing", "starting", "joined",
           "failed", "served"}

TypeOK ==
  /\ phase \in Phases
  /\ toAsk \in 0..PoolCount /\ reqs \in Nat /\ lost \in Nat
  /\ conn \in [Conn -> Places]
  /\ dead \in SUBSET Conn
  /\ user \in [User -> UserPC]
  /\ has \in [User -> Conn \cup {None}]
  /\ tries \in [User -> 0..PoolCount + 1]

Init ==
  /\ phase = "up" /\ toAsk = PoolCount /\ reqs = 0 /\ lost = 0
  /\ conn = [k \in Conn |-> "unused"] /\ dead = {}
  /\ user = [u \in User |-> "idle"]
  /\ has = [u \in User |-> None]
  /\ tries = [u \in User |-> 0]

At(place) == {k \in Conn : conn[k] = place}
Move(k, from, to) == conn[k] = from /\ conn' = [conn EXCEPT ![k] = to]
Go(u, from, to) == user[u] = from /\ user' = [user EXCEPT ![u] = to]

ChanClosed == phase \in {"draining", "gone"}

(* Dispatcher.Send: once the dispatcher is done the message is refused or  *)
(* queued and never sent.                                                  *)
Sent(n) == reqs' = IF phase = "up" THEN reqs + n ELSE reqs
-----------------------------------------------------------------------------
(* The control and the client.                                             *)

(* Start: the goroutine that fills the pool.                               *)
AskInitial ==
  /\ toAsk > 0
  /\ toAsk' = toAsk - 1
  /\ Sent(1)
  /\ UNCHANGED <<phase, conn, dead, lost, userVars>>

(* The client handles a ReqWorkConn: it dials a work connection, or fails. *)
Unasked == TRUE
Asked == reqs > 0

ClientDials(k) ==
  /\ Asked /\ reqs' = reqs - 1
  /\ \/ Move(k, "unused", "arriving") /\ UNCHANGED lost
     \/ conn[k] = "unused" /\ lost' = lost + 1 /\ UNCHANGED conn
  /\ UNCHANGED <<phase, toAsk, dead, userVars>>

ClientEndVanishes(k) ==
  /\ conn[k] \in {"arriving", "found", "pooled", "taken"} /\ k \notin dead
  /\ dead' = dead \cup {k}
  /\ UNCHANGED <<phase, toAsk, reqs, conn, lost, userVars>>

(* Service.RegisterWorkConn finds the control, or refuses and closes the   *)
(* connection: unknown run id, plugin, authentication.                     *)
FindControl(k) ==
  /\ \/ phase # "gone" /\ Move(k, "arriving", "found") /\ UNCHANGED lost
     \/ Move(k, "arriving", "closed") /\ lost' = lost + 1
  /\ UNCHANGED <<phase, toAsk, reqs, dead, userVars>>

(* Control.RegisterWorkConn: a full pool refuses the connection; a send on *)
(* the closed channel panics and is recovered, and nobody closes the       *)
(* connection.                                                             *)
Room == Cardinality(At("pooled")) < PoolCount + Slack

Unchecked == FALSE
SendPanics == ChanClosed

PoolConn(k) ==
  /\ \/ ~SendPanics /\ Room  /\ Move(k, "found", "pooled") /\ UNCHANGED lost
     \/ ~SendPanics /\ ~Room /\ Move(k, "found", "closed") /\ lost' = lost + 1
     \/ SendPanics /\ Move(k, "found", "leaked") /\ UNCHANGED lost
  /\ UNCHANGED <<phase, toAsk, reqs, dead, userVars>>

(* The control connection ends; the worker closes the channel, closes what *)
(* is left in it, and the control leaves the manager.                      *)
DispatcherDone ==
  /\ phase = "up" /\ phase' = "done"
  /\ UNCHANGED <<toAsk, reqs, conn, dead, lost, userVars>>

CloseChan ==
  /\ phase = "done" /\ phase' = "draining"
  /\ UNCHANGED <<toAsk, reqs, conn, dead, lost, userVars>>

DrainConn(k) ==
  /\ phase = "draining" /\ Move(k, "pooled", "closed")
  /\ UNCHANGED <<phase, toAsk, reqs, dead, lost, userVars>>

LeaveManager ==
  /\ phase = "draining" /\ At("pooled") = {} /\ phase' = "gone"
  /\ UNCHANGED <<toAsk, reqs, conn, dead, lost, userVars>>
-----------------------------------------------------------------------------
(* The goroutine of a user connection: GetWorkConnFromPool calls           *)
(* GetWorkConn up to PoolCount + 1 times.                                  *)

Arrive(u) ==
  /\ Go(u, "idle", "getting")
  /\ UNCHANGED <<phase, toAsk, reqs, conn, dead, lost, has, tries>>

Take(u, k) ==
  /\ Move(k, "pooled", "taken")
  /\ \/ Go(u, "getting", "replacing") \/ Go(u, "waiting", "replacing")
  /\ has' = [has EXCEPT ![u] = k]
  /\ UNCHANGED <<phase, toAsk, reqs, dead, lost, tries>>

(* The pool is empty: ask the client and wait, unless the control is done. *)
AskAndWait(u) ==
  /\ At("pooled") = {} /\ ~ChanClosed
  /\ \/ Go(u, "getting", "waiting") /\ Sent(1)
     \/ phase = "done" /\ Go(u, "getting", "failed") /\ UNCHANGED reqs
  /\ UNCHANGED <<phase, toAsk, conn, dead, lost, has, tries>>

SeeClosed(u) ==
  /\ At("pooled") = {} /\ ChanClosed
  /\ Go(u, "getting", "failed") \/ Go(u, "waiting", "failed")
  /\ UNCHANGED <<phase, toAsk, reqs, conn, dead, lost, has, tries>>

(* UserConnTimeout.                                                        *)
NoTimeout(u) == FALSE
Timeout(u) ==
  /\ Go(u, "waiting", "failed")
  /\ UNCHANGED <<phase, toAsk, reqs, conn, dead, lost, has, tries>>

(* Ask for a connection in place of the one taken.                         *)
NoReplacement == 0
Replacement == 1

Replace(u) ==
  /\ Go(u, "replacing", "starting")
  /\ Sent(Replacement)
  /\ UNCHANGED <<phase, toAsk, conn, dead, lost, has, tries>>

(* StartWorkConn is written: the connections are joined, or the next work  *)
(* connection is tried.  A write to a dead peer may still succeed.         *)
KeptOpen(k) == conn
ClosedConn(k) == [conn EXCEPT ![k] = "closed"]

LastTry(u) == tries[u] = PoolCount

StartConn(u) ==
  /\ \/ /\ Go(u, "starting", "joined")
        /\ UNCHANGED <<conn, has, tries>>
     \/ /\ has[u] \in dead
        /\ Go(u, "starting", IF LastTry(u) THEN "failed" ELSE "getting")
        /\ conn' = ClosedConn(has[u])
        /\ has' = [has EXCEPT ![u] = None]
        /\ tries' = [tries EXCEPT ![u] = @ + 1]
  /\ UNCHANGED <<phase, toAsk, reqs, dead, lost>>

Part(u) ==
  /\ Go(u, "joined", "served")
  /\ conn' = ClosedConn(has[u])
  /\ has' = [has EXCEPT ![u] = None]
  /\ UNCHANGED <<phase, toAsk, reqs, dead, lost, tries>>
-----------------------------------------------------------------------------
UserStep(u) ==
  \/ (\E k \in Conn : Take(u, k)) \/ AskAndWait(u) \/ SeeClosed(u) \/ Timeout(u)
  \/ Replace(u) \/ StartConn(u)

WorkerStep == CloseChan \/ (\E k \in Conn : DrainConn(k)) \/ LeaveManager

Next ==
  \/ AskInitial \/ DispatcherDone \/ WorkerStep
  \/ \E k \in Conn : \/ ClientDials(k) \/ ClientEndVanishes(k) \/ FindControl(k)
                     \/ PoolConn(k)
  \/ \E u \in User : Arrive(u) \/ UserStep(u) \/ Part(u)

Spec == Init /\ [][Next]_vars

(* Goroutines and timers of frps run; the client promises nothing.         *)
FairSpec ==
  /\ Spec
  /\ WF_vars(WorkerStep)
  /\ \A u \in User : WF_vars(UserStep(u))
-----------------------------------------------------------------------------
(* A work connection is handed to one user connection at most, and only    *)
(* its holder closes it or starts it.                                      *)
OneHolder ==
  /\ \A u \in User : has[u] # None => conn[has[u]] = "taken"
  /\ \A u, v \in User : has[u] = has[v] /\ has[u] # None => u = v
  /\ \A k \in At("taken") : \E u \in User : has[u] = k

(* After the worker, the pool stays empty: a connection registered late    *)
(* never enters the pool of a control nobody will take it from.            *)
GoneIsEmpty == phase = "gone" => At("pooled") = {}

(* While the control is up, every connection taken from the pool has been  *)
(* or will be asked for again: what is pooled, under way and asked for     *)
(* never falls below PoolCount, but for the requests the client failed.    *)
UnderWay == At("arriving") \cup At("found") \cup At("pooled")
Replacing == {u \in User : user[u] = "replacing"}
Supply == Cardinality(UnderWay) + Cardinality(Replacing) + toAsk + reqs + lost

Replenished == phase = "up" => Supply >= PoolCount

(* A user connection never waits for ever: it is joined or it fails,       *)
(* whatever the client does and also when the control ends meanwhile.      *)
UserSettles ==
  \A u \in User : user[u] = "getting" ~> user[u] \in {"joined", "failed", "served"}

(* A work connection has one holder, and none is left in the pool of a     *)
(* control that has ended (RegisterWorkConn, GetWorkConn and the draining  *)
(* by the worker).                                                         *)
WorkConnsHeld ==
  OneHolder /\ GoneIsEmpty
=============================================================================

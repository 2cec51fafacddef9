--------------------------- MODULE TunnelSession ---------------------------
(***************************************************************************)
(* The visitors that make NAT holes: client/visitor/xtcp.go, xudp.go and   *)
(* xtcpxudp.go.  Users share one tunnel session.  A user that finds none,  *)
(* or a dead one, closes it and asks processTunnelStartEvents for a new    *)
(* hole by an unbuffered channel on which nobody may be listening.  With   *)
(* KeepTunnelOpen a keeper does the same on a ticker.  The user called     *)
(* Datagrams is the dispatcher of UDP datagrams.                           *)
(***************************************************************************)
EXTENDS Integers

CONSTANTS TunnelUser,  \* TCP connections of users
          Datagrams,   \* the dispatcher
          MaxTunnels   \* bound: sessions made

ASSUME TunnelAssumption == Datagrams \notin TunnelUser /\ MaxTunnels \in Nat

VARIABLES
  tconf,   \* the type of the visitor, KeepTunnelOpen, and whether it has a fallback
  tsess,   \* the session in use (0: nil), those made, alive and not closed
  starter, \* processTunnelStartEvents: idle, in makeNatHole, or over
  tuser,   \* each user
  tkeeper, \* keepTunnelOpenWorker
  tclosed  \* the visitor is closed

tunnelVars == <<tconf, tsess, starter, tuser, tkeeper, tclosed>>
Tunnels == 1..MaxTunnels
TunnelUsers == TunnelUser \cup {Datagrams}
Waiting == {"try", "failed", "post"}

TunnelTypeOK ==
  /\ tconf \in [type : {"xtcp", "xudp", "xtcpxudp"}, keep : BOOLEAN, fallback : BOOLEAN]
  /\ tsess \in [cur : 0..MaxTunnels, made : 0..MaxTunnels, alive : SUBSET Tunnels, open : SUBSET Tunnels]
  /\ starter \in {"idle", "hole", "over"}
  /\ tuser \in [TunnelUsers -> Waiting \cup {"idle", "joined", "relayed", "over"}]
  /\ tkeeper \in Waiting \cup {"off", "first", "over"}
  /\ tclosed \in BOOLEAN

(* Run.  The xtcp visitor falls back to another visitor if FallbackTo is   *)
(* set, the xtcp+xudp one always to the relay, and the xudp one never.     *)
Tconfs ==
  {c \in [type : {"xtcp", "xudp", "xtcpxudp"}, keep : BOOLEAN, fallback : BOOLEAN] :
     (c.type = "xudp" => ~c.fallback) /\ (c.type = "xtcpxudp" => c.fallback)}
UsersOf(c) ==
  CASE c.type = "xtcp" -> TunnelUser [] c.type = "xudp" -> {Datagrams} [] OTHER -> TunnelUsers
TunnelInit ==
  /\ tconf \in Tconfs
  /\ tsess = [cur |-> 0, made |-> 0, alive |-> {}, open |-> {}] /\ starter = "idle"
  /\ tuser = [u \in TunnelUsers |-> IF u \in UsersOf(tconf) THEN "idle" ELSE "over"]
  /\ tkeeper = (IF tconf.keep THEN "first" ELSE "off") /\ tclosed = FALSE
-----------------------------------------------------------------------------
(* The session: Init puts a new one in place, OpenConn fails without one   *)
(* or on a dead one, Close forgets it.                                     *)
InitSession ==
  LET n == tsess.made + 1
  IN [cur |-> n, made |-> n, alive |-> tsess.alive \cup {n}, open |-> tsess.open \cup {n}]
InitKCP == tsess' = InitSession
InitQUIC == tsess' = InitSession
OpenConnKCP == tsess.cur \in tsess.alive
OpenConnQUIC == tsess.cur \in tsess.alive
OpenConn == OpenConnKCP \/ OpenConnQUIC
KeepSession == tsess
CloseKCP == [tsess EXCEPT !.cur = 0, !.open = @ \ {tsess.cur}, !.alive = @ \ {tsess.cur}]
CloseQUIC == CloseKCP
CloseTunnelSession == CloseKCP

SessionDies(s) ==
  /\ s \in tsess.alive /\ tsess' = [tsess EXCEPT !.alive = @ \ {s}]
  /\ UNCHANGED <<tconf, starter, tuser, tkeeper, tclosed>>
-----------------------------------------------------------------------------
(* getTunnelConn, in three steps: OpenConn fails, the session is closed,   *)
(* and the start event is posted if someone waits for it.                  *)
NeverPosts(where) == where = "post" /\ UNCHANGED starter
PostStart(where) == where = "post" /\ starter' = IF starter = "idle" THEN "hole" ELSE starter
GetTunnelConn(at, next) ==
  \/ /\ at = "try" /\ ~OpenConn /\ next = "failed" /\ UNCHANGED <<tsess, starter>>
  \/ /\ at = "failed" /\ next = "post" /\ tsess' = CloseTunnelSession /\ UNCHANGED starter
  \/ /\ PostStart(at) /\ next = "try" /\ UNCHANGED tsess

(* openTunnel: again every half second, until there is a tunnel.           *)
OpenTunnel(u) ==
  /\ \/ \E next \in Waiting : GetTunnelConn(tuser[u], next) /\ tuser' = [tuser EXCEPT ![u] = next]
     \/ /\ tuser[u] = "try" /\ OpenConn /\ tuser' = [tuser EXCEPT ![u] = "joined"]
        /\ UNCHANGED <<tsess, starter>>
  /\ UNCHANGED <<tconf, tkeeper, tclosed>>

(* It gives up after a timeout or when the visitor is closed.              *)
OpenTunnelEnds(u) ==
  /\ tuser[u] = "try"
  /\ tuser' = [tuser EXCEPT ![u] = IF tconf.fallback THEN "relayed"
                                   ELSE IF u = Datagrams /\ ~tclosed THEN "idle" ELSE "over"]
  /\ UNCHANGED <<tconf, tsess, starter, tkeeper, tclosed>>
XTCPOpenTunnel(u) == tconf.type = "xtcp" /\ (OpenTunnel(u) \/ OpenTunnelEnds(u))
XUDPOpenTunnel(u) == tconf.type = "xudp" /\ (OpenTunnel(u) \/ OpenTunnelEnds(u))
XTCPXUDPOpenTunnel(u) == tconf.type = "xtcpxudp" /\ (OpenTunnel(u) \/ OpenTunnelEnds(u))

(* A user: handleConn, or the dispatcher with the first datagram.          *)
Arrives(u) ==
  /\ tuser[u] = "idle" /\ ~tclosed /\ tuser' = [tuser EXCEPT ![u] = "try"]
  /\ UNCHANGED <<tconf, tsess, starter, tkeeper, tclosed>>

(* The connection, the relay or the worker for datagrams is over.          *)
Leaves(u) ==
  /\ tuser[u] \in {"joined", "relayed"}
  /\ tuser' = [tuser EXCEPT ![u] = IF tclosed THEN "over" ELSE "idle"]
  /\ UNCHANGED <<tconf, tsess, starter, tkeeper, tclosed>>
HandleConn(u) == tconf.type = "xtcp" /\ (Arrives(u) \/ Leaves(u))
Dispatcher(u) == tconf.type = "xudp" /\ (Arrives(u) \/ Leaves(u))
HandleTCPConn(u) == tconf.type = "xtcpxudp" /\ u # Datagrams /\ (Arrives(u) \/ Leaves(u))
UDPDispatcher(u) == tconf.type = "xtcpxudp" /\ u = Datagrams /\ (Arrives(u) \/ Leaves(u))
-----------------------------------------------------------------------------
(* processTunnelStartEvents, with what makeNatHole comes to.               *)
HoleMade ==
  /\ starter = "hole" /\ tsess.made < MaxTunnels /\ (InitKCP \/ InitQUIC) /\ starter' = "idle"
  /\ UNCHANGED <<tconf, tuser, tkeeper, tclosed>>
HoleFails ==
  /\ starter = "hole" /\ starter' = "idle"
  /\ UNCHANGED <<tconf, tsess, tuser, tkeeper, tclosed>>

GoesOnWaiting == FALSE
SeesCtxDone == tclosed
StarterEnds ==
  /\ starter = "idle" /\ SeesCtxDone /\ starter' = "over"
  /\ UNCHANGED <<tconf, tsess, tuser, tkeeper, tclosed>>
StarterStep == HoleMade \/ HoleFails \/ StarterEnds
XTCPProcessTunnelStartEvents == tconf.type = "xtcp" /\ StarterStep
XUDPProcessTunnelStartEvents == tconf.type = "xudp" /\ StarterStep
XTCPXUDPProcessTunnelStartEvents == tconf.type = "xtcpxudp" /\ StarterStep

(* keepTunnelOpenWorker: its first post waits until it is taken.           *)
KeeperStep ==
  \/ /\ tkeeper = "first" /\ starter = "idle" /\ starter' = "hole" /\ tkeeper' = "try"
     /\ UNCHANGED <<tconf, tsess, tuser, tclosed>>
  \/ /\ \E next \in Waiting : GetTunnelConn(tkeeper, next) /\ tkeeper' = next
     /\ UNCHANGED <<tconf, tuser, tclosed>>
  \/ /\ tkeeper = "try" /\ tclosed /\ tkeeper' = "over"
     /\ UNCHANGED <<tconf, tsess, starter, tuser, tclosed>>
XTCPKeepTunnelOpenWorker == tconf.type = "xtcp" /\ KeeperStep
XUDPKeepTunnelOpenWorker == tconf.type = "xudp" /\ KeeperStep
XTCPXUDPKeepTunnelOpenWorker == tconf.type = "xtcpxudp" /\ KeeperStep

CloseVisitor ==
  /\ ~tclosed /\ tclosed' = TRUE /\ tsess' = CloseTunnelSession
  /\ tuser' = [u \in TunnelUsers |-> IF tuser[u] = "idle" THEN "over" ELSE tuser[u]]
  /\ UNCHANGED <<tconf, starter, tkeeper>>
XTCPClose == tconf.type = "xtcp" /\ CloseVisitor
XUDPClose == tconf.type = "xudp" /\ CloseVisitor
XTCPXUDPClose == tconf.type = "xtcpxudp" /\ CloseVisitor
-----------------------------------------------------------------------------
OpenTunnelStep(u) == XTCPOpenTunnel(u) \/ XUDPOpenTunnel(u) \/ XTCPXUDPOpenTunnel(u)
KeepStep == XTCPKeepTunnelOpenWorker \/ XUDPKeepTunnelOpenWorker \/ XTCPXUDPKeepTunnelOpenWorker
ProcessStep ==
  XTCPProcessTunnelStartEvents \/ XUDPProcessTunnelStartEvents \/ XTCPXUDPProcessTunnelStartEvents

TunnelNext ==
  \/ \E u \in TunnelUsers : OpenTunnelStep(u) \/ HandleConn(u) \/ Dispatcher(u) \/ HandleTCPConn(u)
                            \/ UDPDispatcher(u)
  \/ \E s \in Tunnels : SessionDies(s)
  \/ ProcessStep \/ KeepStep \/ XTCPClose \/ XUDPClose \/ XTCPXUDPClose

(* Goroutines that can go on do; users, sessions and the visitor may last. *)
(* A select that finds its context done again and again takes that case.   *)
TunnelFairness ==
  /\ \A u \in TunnelUsers : WF_tunnelVars(OpenTunnelStep(u))
  /\ WF_tunnelVars(ProcessStep) /\ WF_tunnelVars(KeepStep) /\ SF_tunnelVars(StarterEnds)
TunnelSpec == TunnelInit /\ [][TunnelNext]_tunnelVars /\ TunnelFairness
-----------------------------------------------------------------------------
(* With KeepTunnelOpen a session that died does not stay in place: its     *)
(* keeper, or a user, finds out and makes room for a new one.              *)
DeadSessionDropped ==
  \A s \in Tunnels : []<>(tconf.keep /\ s \notin tsess.alive => tsess.cur # s \/ tclosed)

(* A user without a tunnel gets a hole made for it, though its start event *)
(* is dropped when nobody listens: or it no longer waits.                  *)
HoleAskedFor ==
  \A u \in TunnelUsers :
    []<>(starter # "idle" \/ tsess.cur # 0 \/ tuser[u] \notin Waiting)

(* A closed visitor makes no more holes: the goroutine that makes them     *)
(* ends, even if the visitor is closed while one is being made.            *)
StarterGone == []<>(tclosed => starter = "over")
=============================================================================

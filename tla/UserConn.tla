------------------------------ MODULE UserConn ------------------------------
(***************************************************************************)
(* One user connection from end to end.  A user reaches the server         *)
(* directly (tcp), or by a visitor (stcp): dialRawVisitorConn of           *)
(* client/visitor/visitor.go, RegisterVisitorConn of server/service.go and *)
(* NewConn of server/visitor/visitor.go, which queues it for the listener  *)
(* of the proxy.  handleUserTCPConnection of server/proxy/proxy.go gets a  *)
(* work connection for it and joins the two; HandleTCPWorkConnection of    *)
(* client/proxy/proxy.go joins that with the local service.                *)
(*                                                                         *)
(* A hop is a connection with a near end (towards the user) and a far end. *)
(***************************************************************************)
EXTENDS Integers

VARIABLES
  route,      \* by a visitor or directly, and whether the server limits the bandwidth
  hops,       \* the ends of each connection: none, open or closed
  vconn,      \* handleConn of the visitor
  uconn,      \* handleUserTCPConnection, from the queue of the listener on
  wconn,      \* HandleTCPWorkConnection
  pipes,      \* the pipes of the joins that have ended
  answered,   \* the NewVisitorConnResp the server has written: none, ok or error
  listening   \* the proxy's listener is open

userConnVars == <<route, hops, vconn, uconn, wconn, pipes, answered, listening>>
Hop == {"user", "visitor", "work", "local"}
Pipe == {"vIn", "vOut", "uIn", "uOut", "wIn", "wOut"}

ConnTypeOK ==
  /\ route \in [visitor : BOOLEAN, limited : BOOLEAN]
  /\ hops \in [Hop -> [near : {"none", "open", "closed"}, far : {"none", "open", "closed"}]]
  /\ vconn \in {"none", "dialed", "join", "over"}
  /\ uconn \in {"none", "queued", "handle", "join", "over"}
  /\ wconn \in {"none", "dial", "join", "over"}
  /\ pipes \subseteq Pipe /\ answered \in {"none", "ok", "error"} /\ listening \in BOOLEAN

Opened2 == [near |-> "open", far |-> "open"]
Absent == [near |-> "none", far |-> "none"]
Shut(e) == IF e = "open" THEN "closed" ELSE e

ConnInit ==
  /\ route \in [visitor : BOOLEAN, limited : BOOLEAN]
  /\ hops = [h \in Hop |-> IF h = (IF route.visitor THEN "user" ELSE "visitor") THEN Opened2 ELSE Absent]
  /\ vconn = "none" /\ uconn = (IF route.visitor THEN "none" ELSE "queued")
  /\ wconn = "none" /\ pipes = {} /\ answered = "none" /\ listening = TRUE
-----------------------------------------------------------------------------
(* The visitor: dial and ask, or close the user's connection.              *)
DialRawVisitorConn(ok) ==
  /\ route.visitor /\ vconn = "none"
  /\ IF ok THEN vconn' = "dialed" /\ hops' = [hops EXCEPT !["visitor"] = Opened2]
     ELSE vconn' = "over" /\ hops' = [hops EXCEPT !["user"].far = "closed"]
  /\ UNCHANGED <<route, uconn, wconn, pipes, answered, listening>>

(* An error, the deadline or a connection that cannot be wrapped: the      *)
(* deferred calls close both.                                              *)
LeavesDialed(hs) == [hs EXCEPT !["user"].far = "closed"]
ClosesBoth(hs) == [hs EXCEPT !["user"].far = "closed", !["visitor"].near = "closed"]
VisitorFails ==
  /\ vconn = "dialed" /\ vconn' = "over" /\ hops' = ClosesBoth(hops)
  /\ UNCHANGED <<route, uconn, wconn, pipes, answered, listening>>
VisitorJoins ==
  /\ vconn = "dialed" /\ answered = "ok" /\ vconn' = "join"
  /\ UNCHANGED <<route, hops, uconn, wconn, pipes, answered, listening>>
-----------------------------------------------------------------------------
(* The server: NewConn queues the connection, refuses it, or closes it     *)
(* when the queue is full; the response comes after that.                  *)
NewVisitorConn(how) ==
  /\ route.visitor /\ vconn # "none" /\ hops["visitor"].far = "open" /\ uconn = "none"
  /\ IF how = "queued" /\ listening THEN uconn' = "queued" /\ UNCHANGED <<hops, answered>>
     ELSE /\ uconn' = "over" /\ hops' = [hops EXCEPT !["visitor"].far = "closed"]
          /\ answered' = (IF how = "full" /\ listening THEN "none" ELSE "error")
  /\ UNCHANGED <<route, vconn, wconn, pipes, listening>>
WriteResp ==
  /\ route.visitor /\ uconn # "none" /\ answered = "none" /\ hops["visitor"].far = "open" /\ answered' = "ok"
  /\ UNCHANGED <<route, hops, vconn, uconn, wconn, pipes, listening>>

CloseUserListener ==
  /\ listening /\ listening' = FALSE
  /\ UNCHANGED <<route, hops, vconn, uconn, wconn, pipes, answered>>

(* What was queued is accepted, also after the listener is closed.         *)
AcceptUser ==
  /\ uconn = "queued" /\ uconn' = "handle"
  /\ UNCHANGED <<route, hops, vconn, wconn, pipes, answered, listening>>

(* The firewall or a plugin rejects it, there is no work connection, or    *)
(* the stream cannot be encrypted.                                         *)
UserRejected ==
  /\ uconn = "handle" /\ uconn' = "over"
  /\ hops' = [hops EXCEPT !["visitor"].far = "closed"]
  /\ UNCHANGED <<route, vconn, wconn, pipes, answered, listening>>
WorkConnFound ==
  /\ uconn = "handle" /\ uconn' = "join" /\ wconn = "none" /\ wconn' = "dial"
  /\ hops' = [hops EXCEPT !["work"] = Opened2]
  /\ UNCHANGED <<route, vconn, pipes, answered, listening>>

(* The client: the local service does not answer, or the two are joined.   *)
DialLocal(ok) ==
  /\ wconn = "dial"
  /\ IF ok THEN wconn' = "join" /\ hops' = [hops EXCEPT !["local"] = Opened2]
     ELSE wconn' = "over" /\ hops' = [hops EXCEPT !["work"].far = "closed"]
  /\ UNCHANGED <<route, vconn, uconn, pipes, answered, listening>>
-----------------------------------------------------------------------------
(* A join copies both ways; a pipe that ends closes the two connections of *)
(* its join.  The wrapper that limits the bandwidth of the server closes   *)
(* the variable it was itself assigned to, and so nothing.                 *)
CloseSource(p, hs) ==
  CASE p = "vIn" -> [hs EXCEPT !["user"].far = Shut(@)]
    [] p = "vOut" -> [hs EXCEPT !["visitor"].near = Shut(@)]
    [] p = "uIn" -> [hs EXCEPT !["visitor"].far = Shut(@)]
    [] p = "uOut" -> [hs EXCEPT !["work"].near = Shut(@)]
    [] p = "wIn" -> [hs EXCEPT !["work"].far = Shut(@)]
    [] p = "wOut" -> [hs EXCEPT !["local"].near = Shut(@)]
CloseHopEnds(p, hs) ==
  CASE p \in {"vIn", "vOut"} -> [hs EXCEPT !["user"].far = Shut(@), !["visitor"].near = Shut(@)]
    [] p \in {"uIn", "uOut"} /\ ~route.limited ->
         [hs EXCEPT !["visitor"].far = Shut(@), !["work"].near = Shut(@)]
    [] p \in {"uIn", "uOut"} /\ route.limited -> [hs EXCEPT !["visitor"].far = Shut(@)]
    [] p \in {"wIn", "wOut"} -> [hs EXCEPT !["work"].far = Shut(@), !["local"].near = Shut(@)]

(* The end a pipe reads from is closed, or it gets an EOF from the other.  *)
ReadEnds(p) ==
  CASE p = "vIn" -> "closed" \in {hops["user"].far, hops["user"].near}
    [] p = "vOut" -> "closed" \in {hops["visitor"].near, hops["visitor"].far}
    [] p = "uIn" -> "closed" \in {hops["visitor"].far, hops["visitor"].near}
    [] p = "uOut" -> "closed" \in {hops["work"].near, hops["work"].far}
    [] p = "wIn" -> "closed" \in {hops["work"].far, hops["work"].near}
    [] p = "wOut" -> "closed" \in {hops["local"].near, hops["local"].far}

Joined(p) ==
  CASE p \in {"vIn", "vOut"} -> vconn = "join"
    [] p \in {"uIn", "uOut"} -> uconn = "join"
    [] OTHER -> wconn = "join"
PipeEnds(p) ==
  /\ Joined(p) /\ p \notin pipes /\ ReadEnds(p)
  /\ pipes' = pipes \cup {p} /\ hops' = CloseHopEnds(p, hops)
  /\ UNCHANGED <<route, vconn, uconn, wconn, answered, listening>>

(* Both pipes have ended: the deferred calls close what is left.           *)
VisitorDone ==
  /\ vconn = "join" /\ {"vIn", "vOut"} \subseteq pipes /\ vconn' = "over"
  /\ hops' = [hops EXCEPT !["user"].far = "closed", !["visitor"].near = "closed"]
  /\ UNCHANGED <<route, uconn, wconn, pipes, answered, listening>>
UserDone ==
  /\ uconn = "join" /\ {"uIn", "uOut"} \subseteq pipes /\ uconn' = "over"
  /\ hops' = [hops EXCEPT !["visitor"].far = "closed", !["work"].near = "closed"]
  /\ UNCHANGED <<route, vconn, wconn, pipes, answered, listening>>
WorkDone ==
  /\ wconn = "join" /\ {"wIn", "wOut"} \subseteq pipes /\ wconn' = "over"
  /\ UNCHANGED <<route, hops, vconn, uconn, pipes, answered, listening>>

(* The user or the local service closes its end.                           *)
FirstHop == IF route.visitor THEN "user" ELSE "visitor"
UserLeaves ==
  /\ hops[FirstHop].near = "open" /\ hops' = [hops EXCEPT ![FirstHop].near = "closed"]
  /\ UNCHANGED <<route, vconn, uconn, wconn, pipes, answered, listening>>
ServiceLeaves ==
  /\ hops["local"].far = "open" /\ hops' = [hops EXCEPT !["local"].far = "closed"]
  /\ UNCHANGED <<route, vconn, uconn, wconn, pipes, answered, listening>>
-----------------------------------------------------------------------------
VconnStep == (\E ok \in BOOLEAN : DialRawVisitorConn(ok)) \/ VisitorFails \/ VisitorJoins \/ VisitorDone
UconnStep == (\E how \in {"queued", "full", "refused"} : NewVisitorConn(how)) \/ AcceptUser \/ UserRejected \/ WorkConnFound \/ UserDone
WconnStep == (\E ok \in BOOLEAN : DialLocal(ok)) \/ WorkDone
ConnNext ==
  \/ VconnStep \/ UconnStep \/ WconnStep \/ WriteResp \/ CloseUserListener \/ UserLeaves \/ ServiceLeaves
  \/ \E p \in Pipe : PipeEnds(p)

(* Goroutines go on; users and services need not leave.                    *)
ConnFairness ==
  /\ WF_userConnVars(VconnStep) /\ WF_userConnVars(UconnStep) /\ WF_userConnVars(WconnStep) /\ WF_userConnVars(WriteResp)
  /\ \A p \in Pipe : WF_userConnVars(PipeEnds(p))
ConnSpec == ConnInit /\ [][ConnNext]_userConnVars /\ ConnFairness
-----------------------------------------------------------------------------
AllClosed ==
  /\ \A h \in Hop \ {FirstHop, "local"} : "open" \notin {hops[h].near, hops[h].far}
  /\ hops[FirstHop].far # "open" /\ hops["local"].near # "open"

(* A user that leaves takes the whole chain along: no connection to the    *)
(* server, of the pool or to the local service stays open, at whatever     *)
(* point of the set-up the user left.  Where the server limits the         *)
(* bandwidth this holds only once the service sends or leaves.             *)
LeavingClosesAll == []<>(~route.limited /\ hops[FirstHop].near = "closed" => AllClosed)

(* When the local service ends the connection, every connection of the     *)
(* chain back to the user is closed in the end, whoever was copying.       *)
ServiceEndsAll == []<>(hops["local"].far = "closed" => AllClosed)
=============================================================================

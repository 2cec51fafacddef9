-------------------------- MODULE NatHoleExchange --------------------------
(***************************************************************************)
(* How a visitor and the client of a proxy are brought together to make a  *)
(* NAT hole: pkg/nathole/controller.go on the server, the sid loops of the *)
(* xtcp, xudp and xtcp+xudp proxies of server/proxy, makeNatHole of the    *)
(* visitors of client/visitor and InWorkConn of the proxies of             *)
(* client/proxy, with PreCheck, Prepare and ExchangeInfo of                *)
(* pkg/nathole/nathole.go.                                                 *)
(*                                                                         *)
(* A round is one call of makeNatHole: the visitor, the HandleVisitor that *)
(* serves it (its sid is the round), and the provider that reads the sid   *)
(* from a work connection.  The analysis is in NatHoleAnalysis, the hole   *)
(* itself in MakeHole, what the visitor does with it in TunnelSession.      *)
(* Each of the three types of proxy and visitor has its own copy of the    *)
(* code; here they do the same.                                            *)
(***************************************************************************)
EXTENDS Integers, FiniteSets

CONSTANTS Round,       \* calls of makeNatHole
          Incarnation, \* proxies registered under the one name, one after another
          NoProxy

ASSUME ExchangeAssumption ==
  NoProxy \notin Incarnation /\ Round \cap {"none", "idle", "closed"} = {}

VARIABLES
  clientCfgs,  \* Controller.clientCfgs of the name
  sidLoop,     \* the goroutine of each proxy: none, idle, closed, or the sid it has
  visitor,     \* makeNatHole: where it is, and whether it has a socket
  handler,     \* HandleVisitor: where it is, and the proxy it found
  sessions,    \* Controller.sessions
  provider,    \* InWorkConn: where it is, and whether it has a socket
  sent,        \* messages on their way to the server
  clientMsg,   \* the sessions HandleClient found
  notifyCh     \* the sessions whose notifyCh is filled

exchangeVars == <<clientCfgs, sidLoop, visitor, handler, sessions, provider, sent, clientMsg, notifyCh>>
serverVars == <<clientCfgs, sidLoop, handler, sessions, clientMsg, notifyCh>>

ExchangeTypeOK ==
  /\ clientCfgs \in Incarnation \cup {NoProxy}
  /\ sidLoop \in [Incarnation -> {"none", "idle", "closed"} \cup Round]
  /\ visitor \in [Round -> [at : {"idle", "prepare", "exchange", "hole", "over", "session"}, sock : BOOLEAN]]
  /\ handler \in [Round -> [at : {"none", "offer", "wait", "answer", "linger", "over"},
                            pxy : Incarnation \cup {NoProxy}]]
  /\ sent \subseteq Round \X {"visitor", "client"}
  /\ sessions \subseteq Round /\ clientMsg \subseteq Round /\ notifyCh \subseteq Round
  /\ provider \in [Round -> [at : {"none", "prepare", "exchange", "hole", "serve", "over"},
                             sock : BOOLEAN]]

ExchangeInit ==
  /\ clientCfgs = NoProxy /\ sidLoop = [i \in Incarnation |-> "none"]
  /\ visitor = [r \in Round |-> [at |-> "idle", sock |-> FALSE]]
  /\ handler = [r \in Round |-> [at |-> "none", pxy |-> NoProxy]]
  /\ provider = [r \in Round |-> [at |-> "none", sock |-> FALSE]]
  /\ sessions = {} /\ sent = {} /\ clientMsg = {} /\ notifyCh = {}
-----------------------------------------------------------------------------
(* The proxy on the server: ListenClient refuses a name that is in use.    *)
ListenClient(i) ==
  /\ sidLoop[i] = "none" /\ clientCfgs = NoProxy
  /\ clientCfgs' = i /\ sidLoop' = [sidLoop EXCEPT ![i] = "idle"]
  /\ UNCHANGED <<visitor, handler, sessions, provider, sent, clientMsg, notifyCh>>

(* Close: CloseClient, then closeCh.  A loop that serves a sid sees it     *)
(* when it is back.                                                        *)
CloseClient(i) ==
  /\ clientCfgs = i /\ clientCfgs' = NoProxy
  /\ sidLoop' = [sidLoop EXCEPT ![i] = IF @ = "idle" THEN "closed" ELSE @]
  /\ UNCHANGED <<visitor, handler, sessions, provider, sent, clientMsg, notifyCh>>

(* The loop has a sid: a work connection that takes it, or none.           *)
SidLoop(i, ok) ==
  /\ sidLoop[i] \in Round
  /\ sidLoop' = [sidLoop EXCEPT ![i] = IF clientCfgs = i THEN "idle" ELSE "closed"]
  /\ provider' = IF ok THEN [provider EXCEPT ![sidLoop[i]].at = "prepare"] ELSE provider
  /\ UNCHANGED <<clientCfgs, visitor, handler, sessions, sent, clientMsg, notifyCh>>
XTCPSidLoop(i, ok) == SidLoop(i, ok)
XUDPSidLoop(i, ok) == SidLoop(i, ok)
XTCPXUDPSidLoop(i, ok) == SidLoop(i, ok)
-----------------------------------------------------------------------------
(* makeNatHole: PreCheck asks the server whether the proxy is there.       *)
PreCheck(r) ==
  /\ visitor[r].at = "idle"
  /\ \/ clientCfgs # NoProxy /\ visitor' = [visitor EXCEPT ![r].at = "prepare"]
     \/ visitor' = [visitor EXCEPT ![r].at = "over"]
  /\ UNCHANGED <<serverVars, provider, sent>>

(* Prepare: the addresses of the STUN server, and a socket; both or none.  *)
Prepare(r, ok) ==
  /\ visitor[r].at = "prepare"
  /\ visitor' = [visitor EXCEPT ![r] = IF ok THEN [at |-> "exchange", sock |-> TRUE]
                                       ELSE [@ EXCEPT !.at = "over"]]
  /\ sent' = IF ok THEN sent \cup {<<r, "visitor">>} ELSE sent
  /\ UNCHANGED <<serverVars, provider>>

(* ExchangeInfo gives up after five seconds, or gets an error.             *)
LeaveSocket(rec) == [rec EXCEPT !.at = "over"]
ClosesSocket(rec) == [rec EXCEPT !.at = "over", !.sock = FALSE]
ExchangeFails(r) ==
  /\ visitor[r].at = "exchange"
  /\ visitor' = [visitor EXCEPT ![r] = ClosesSocket(@)]
  /\ UNCHANGED <<serverVars, provider, sent>>

(* MakeHole, then Init of the tunnel session, which owns the socket.       *)
VisitorHole(r, ok) ==
  /\ visitor[r].at = "hole"
  /\ visitor' = [visitor EXCEPT ![r] = IF ok THEN [@ EXCEPT !.at = "session"] ELSE ClosesSocket(@)]
  /\ UNCHANGED <<serverVars, provider, sent>>

MakeNatHole(r) ==
  \/ PreCheck(r) \/ ExchangeFails(r)
  \/ \E ok \in BOOLEAN : Prepare(r, ok) \/ VisitorHole(r, ok)
XTCPMakeNatHole(r) == MakeNatHole(r)
XUDPMakeNatHole(r) == MakeNatHole(r)
XTCPXUDPMakeNatHole(r) == MakeNatHole(r)
-----------------------------------------------------------------------------
(* HandleVisitor: the proxy is looked up and the session kept.             *)
HandleVisitor(r) ==
  /\ <<r, "visitor">> \in sent /\ sent' = sent \ {<<r, "visitor">>}
  /\ \/ /\ clientCfgs # NoProxy
        /\ handler' = [handler EXCEPT ![r] = [at |-> "offer", pxy |-> clientCfgs]]
        /\ sessions' = sessions \cup {r}
     \/ /\ clientCfgs = NoProxy
        /\ handler' = [handler EXCEPT ![r].at = "over"] /\ UNCHANGED sessions
  /\ UNCHANGED <<clientCfgs, sidLoop, visitor, provider, clientMsg, notifyCh>>

(* The sid is handed over on the unbuffered sidCh of the proxy it found.   *)
OfferSid(r) ==
  /\ handler[r].at = "offer" /\ sidLoop[handler[r].pxy] = "idle"
  /\ sidLoop' = [sidLoop EXCEPT ![handler[r].pxy] = r]
  /\ handler' = [handler EXCEPT ![r].at = "wait"]
  /\ UNCHANGED <<clientCfgs, visitor, sessions, provider, sent, clientMsg, notifyCh>>

WaitNotified(r) ==
  /\ handler[r].at = "wait" /\ r \in notifyCh
  /\ handler' = [handler EXCEPT ![r].at = "answer"] /\ notifyCh' = notifyCh \ {r}
  /\ UNCHANGED <<clientCfgs, sidLoop, visitor, sessions, provider, sent, clientMsg>>

Forget(r) == sessions' = sessions \ {r} /\ handler' = [handler EXCEPT ![r] = [at |-> "over", pxy |-> NoProxy]]
GoesOn(r) == handler' = [handler EXCEPT ![r].at = "answer"] /\ UNCHANGED sessions
ExchangeNeverTimesOut(r) == FALSE /\ GoesOn(r)
TimesOut(r) == Forget(r)
WaitTimeout(r) ==
  /\ handler[r].at = "wait" /\ r \notin notifyCh
  /\ TimesOut(r)
  /\ UNCHANGED <<clientCfgs, sidLoop, visitor, provider, sent, clientMsg, notifyCh>>

(* analysis, and a response to each; one that nobody waits for any more is *)
(* dropped.  An address list that cannot be classified makes both errors.  *)
Answer(r, ok) ==
  /\ handler[r].at = "answer"
  /\ handler' = [handler EXCEPT ![r].at = "linger"]
  /\ visitor' = IF visitor[r].at # "exchange" THEN visitor
                ELSE [visitor EXCEPT ![r] = IF ok THEN [@ EXCEPT !.at = "hole"] ELSE ClosesSocket(@)]
  /\ provider' = IF provider[r].at # "exchange" THEN provider
                 ELSE [provider EXCEPT ![r] = IF ok THEN [@ EXCEPT !.at = "hole"] ELSE ClosesSocket(@)]
  /\ UNCHANGED <<clientCfgs, sidLoop, sessions, sent, clientMsg, notifyCh>>

(* It keeps the session for the report, then forgets it.                   *)
Linger(r) ==
  /\ handler[r].at = "linger" /\ Forget(r)
  /\ UNCHANGED <<clientCfgs, sidLoop, visitor, provider, sent, clientMsg, notifyCh>>

HandleClient(r) ==
  /\ <<r, "client">> \in sent /\ sent' = sent \ {<<r, "client">>}
  /\ IF r \in sessions THEN clientMsg' = clientMsg \cup {r} /\ notifyCh' = notifyCh \cup {r}
     ELSE UNCHANGED <<clientMsg, notifyCh>>
  /\ UNCHANGED <<clientCfgs, sidLoop, visitor, handler, sessions, provider>>
-----------------------------------------------------------------------------
(* InWorkConn: the sid is read, Prepare, ExchangeInfo, MakeHole, and the   *)
(* kcp or quic session of the tunnel, until it ends.  The deferred Close   *)
(* closes the socket however it returns.                                   *)
ProviderPrepare(r, ok) ==
  /\ provider[r].at = "prepare"
  /\ provider' = [provider EXCEPT ![r] = IF ok THEN [at |-> "exchange", sock |-> TRUE]
                                         ELSE [@ EXCEPT !.at = "over"]]
  /\ sent' = IF ok THEN sent \cup {<<r, "client">>} ELSE sent
  /\ UNCHANGED <<serverVars, visitor>>

ProviderExchangeFails(r) ==
  /\ provider[r].at = "exchange"
  /\ provider' = [provider EXCEPT ![r] = ClosesSocket(@)]
  /\ UNCHANGED <<serverVars, visitor, sent>>

(* MakeHole and HandleReport; a success is reported before the session.    *)
ProviderHole(r, ok) ==
  /\ provider[r].at = "hole"
  /\ provider' = [provider EXCEPT ![r] = IF ok THEN [@ EXCEPT !.at = "serve"] ELSE ClosesSocket(@)]
  /\ UNCHANGED <<serverVars, visitor, sent>>

ServeEnds(r) ==
  /\ provider[r].at = "serve"
  /\ provider' = [provider EXCEPT ![r] = ClosesSocket(@)]
  /\ UNCHANGED <<serverVars, visitor, sent>>
ListenByKCP(r) == ServeEnds(r)
ListenByQUIC(r) == ServeEnds(r)

InWorkConn(r) ==
  \/ \E ok \in BOOLEAN : ProviderPrepare(r, ok) \/ ProviderHole(r, ok)
  \/ ProviderExchangeFails(r) \/ ListenByKCP(r) \/ ListenByQUIC(r)
XTCPInWorkConn(r) == InWorkConn(r)
XUDPInWorkConn(r) == InWorkConn(r)
XTCPXUDPInWorkConn(r) == InWorkConn(r)
-----------------------------------------------------------------------------
SidLoopStep(i, ok) == XTCPSidLoop(i, ok) \/ XUDPSidLoop(i, ok) \/ XTCPXUDPSidLoop(i, ok)
VisitorStep(r) == XTCPMakeNatHole(r) \/ XUDPMakeNatHole(r) \/ XTCPXUDPMakeNatHole(r)
ProviderStep(r) == XTCPInWorkConn(r) \/ XUDPInWorkConn(r) \/ XTCPXUDPInWorkConn(r)
ControllerStep(r) ==
  OfferSid(r) \/ WaitNotified(r) \/ WaitTimeout(r) \/ Linger(r) \/ \E ok \in BOOLEAN : Answer(r, ok)

ExchangeNext ==
  \/ \E i \in Incarnation : ListenClient(i) \/ CloseClient(i) \/ \E ok \in BOOLEAN : SidLoopStep(i, ok)
  \/ \E r \in Round : VisitorStep(r) \/ ProviderStep(r) \/ ControllerStep(r) \/ HandleVisitor(r)
                      \/ HandleClient(r)

(* Every wait of the exchange has a timeout, except that for the sid loop  *)
(* of a proxy; visitors need not begin and tunnels need not end.           *)
ExchangeFairness ==
  /\ \A i \in Incarnation : WF_exchangeVars(\E ok \in BOOLEAN : SidLoopStep(i, ok))
  /\ \A r \in Round :
       /\ WF_exchangeVars(ControllerStep(r)) /\ WF_exchangeVars(HandleClient(r))
       /\ SF_exchangeVars(OfferSid(r))
       /\ WF_exchangeVars(visitor[r].at # "idle" /\ VisitorStep(r))
       /\ WF_exchangeVars(provider[r].at # "serve" /\ ProviderStep(r))
ExchangeSpec == ExchangeInit /\ [][ExchangeNext]_exchangeVars /\ ExchangeFairness
-----------------------------------------------------------------------------
(* Nobody starts to make a hole on one side's addresses alone: a visitor   *)
(* told how to make the hole was matched with the addresses of a client    *)
(* that got the sid of its own round.                                      *)
HoleHasBothSides ==
  \A r \in Round : handler[r].at = "answer" \/ visitor[r].at \in {"hole", "session"} => r \in clientMsg

(* A side that gives up keeps no socket: neither the visitor's nor the     *)
(* provider's is left open by a timeout, an error or a failed hole.        *)
NoSocketLeft ==
  \A r \in Round : (visitor[r].at = "over" => ~visitor[r].sock)
                   /\ (provider[r].at = "over" => ~provider[r].sock)

(* The session of a visitor is forgotten in the end, whether the client    *)
(* answers, answers too late or never, as long as the proxy it found is    *)
(* there to take the sid.                                                  *)
SessionsForgotten ==
  \A r \in Round :
    []<>(r \notin sessions \/ (handler[r].at = "offer" /\ sidLoop[handler[r].pxy] = "closed"))

(* However the visitor, the controller and the provider fail or are late,  *)
(* a round ends on all three: the controller forgets its session, nobody   *)
(* keeps a socket without a hole, and a hole is made by both sides or by   *)
(* none.                                                                   *)
ExchangeEnds ==
  []HoleHasBothSides /\ []NoSocketLeft /\ SessionsForgotten
=============================================================================

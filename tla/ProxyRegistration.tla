------------------------- MODULE ProxyRegistration -------------------------
(***************************************************************************)
(* Proxies at frps, from NewProxy to CloseProxy or the end of the control: *)
(* Control.RegisterProxy, CloseProxy and worker (server/control.go), the   *)
(* proxy manager (server/proxy/proxy.go), and Run and Close of the proxies *)
(* that take public ports: tcp, udp, tcpudp and mc (server/proxy,          *)
(* server/group/minecraft.go).                                             *)
(*                                                                         *)
(* Each proxy instance stands for one NewProxy message.  The dispatcher of *)
(* a control runs one handler at a time (busy), and its worker starts to   *)
(* close proxies when no handler runs any more, so at most one goroutine   *)
(* of a control works on its proxies.  A udp or tcpudp proxy has one       *)
(* goroutine of its own: the forwarder, which closes the proxy as well.    *)
(***************************************************************************)
EXTENDS PortManager

CONSTANTS Ctl,       \* controls
          Pxy,       \* proxy instances
          CtlOf,     \* the control a proxy is registered by
          Kind,      \* "tcp", "udp", "tcpudp" or "mc"
          Want,      \* the remote port of its configuration
          Mux,       \* the owner of a shared Minecraft port
          MaxPorts   \* maxPortsPerClient, 0 for no limit

Kinds == {"tcp", "udp", "tcpudp", "mc"}

ASSUME ProxyAssumption ==
  /\ CtlOf \in [Pxy -> Ctl]
  /\ Kind \in [Pxy -> Kinds]
  /\ Want \in [Pxy -> Port \cup {AnyPort}]
  /\ \A p \in Pxy : Kind[p] = "mc" => Want[p] \in Port
  /\ Mux \in [Port -> Owner \ Pxy] /\ Pxy \subseteq Owner
  /\ \A q, r \in Port : Mux[q] = Mux[r] => q = r
  /\ None \notin Pxy /\ MaxPorts \in Nat

VARIABLES
  pc,        \* where a proxy is in its life; ctl.proxies holds the open ones
  busy,      \* the proxy a control's goroutine works on
  up,        \* "up", "draining" (worker cleans up) or "gone"
  usedNum,   \* ctl.portsUsedNum
  pxys,      \* the proxy manager
  tcp, udp,  \* the port managers
  tcpSock, udpSock,  \* the sockets frps has bound
  real,      \* realBindPort
  routes,    \* the names routed by the Minecraft muxer of a port
  refs,      \* its reference count, 0 when there is no muxer
  fwd        \* the forwarder of a udp or tcpudp proxy

vars == <<pc, busy, up, usedNum, pxys, tcp, udp, tcpSock, udpSock, real, routes,
          refs, fwd>>

ctlVars  == <<busy, up, usedNum, pxys>>
muxVars  == <<routes, refs>>
portVars == <<tcp, udp, tcpSock, udpSock, real, muxVars, fwd>>

ProxyName == {NameOf[p] : p \in Pxy}

PC == {"none", "checking", "acquiring", "acquiringUDP", "listening", "listeningUDP",
       "failing", "failingTCP", "undoing", "adding", "aborting", "abortingPorts",
       "open", "closing", "closingPorts", "deleting", "closed"}

TypeOK ==
  /\ pc \in [Pxy -> PC]
  /\ busy \in [Ctl -> Pxy \cup {None}]
  /\ up \in [Ctl -> {"up", "draining", "gone"}]
  /\ usedNum \in [Ctl -> Int]
  /\ pxys \in [ProxyName -> Pxy \cup {None}]
  /\ tcp \in Managers /\ udp \in Managers
  /\ tcpSock \in [Port -> Owner \cup {None}] /\ udpSock \in [Port -> Owner \cup {None}]
  /\ real \in [Pxy -> Port \cup {None}]
  /\ routes \in [Port -> SUBSET ProxyName] /\ refs \in [Port -> Int]
  /\ fwd \in [Pxy -> {"off", "reading", "closing", "done"}]

Init ==
  /\ pc = [p \in Pxy |-> "none"]
  /\ busy = [c \in Ctl |-> None]
  /\ up = [c \in Ctl |-> "up"]
  /\ usedNum = [c \in Ctl |-> 0]
  /\ pxys = [n \in ProxyName |-> None]
  /\ tcp = NewManager /\ udp = NewManager
  /\ tcpSock = [q \in Port |-> None] /\ udpSock = [q \in Port |-> None]
  /\ real = [p \in Pxy |-> None]
  /\ routes = [q \in Port |-> {}] /\ refs = [q \in Port |-> 0]
  /\ fwd = [p \in Pxy |-> "off"]

Uses(p) == IF Kind[p] = "mc" THEN 0 ELSE 1
Bindable(sock) == {q \in Port : sock[q] = None}
Step(p, from, to) == pc[p] = from /\ pc' = [pc EXCEPT ![p] = to]
Idle(c) == up[c] = "up" /\ busy[c] = None

(* portsUsedNum is kept only when there is a limit.                        *)
Count(c, n) == usedNum' = IF MaxPorts = 0 THEN usedNum
                          ELSE [usedNum EXCEPT ![c] = @ + n]
-----------------------------------------------------------------------------
(* RegisterProxy.                                                          *)

(* A plugin, the validation or the limit of ports refuses the message.     *)
RejectProxy(p) ==
  /\ Idle(CtlOf[p])
  /\ Step(p, "none", "closed")
  /\ UNCHANGED <<ctlVars, portVars>>

WithinLimit(c, n) == MaxPorts > 0 => usedNum[c] + n <= MaxPorts

CountPorts(p) ==
  /\ Idle(CtlOf[p])
  /\ WithinLimit(CtlOf[p], Uses(p))
  /\ Step(p, "none", "checking")
  /\ Count(CtlOf[p], Uses(p))
  /\ busy' = [busy EXCEPT ![CtlOf[p]] = p]
  /\ UNCHANGED <<up, pxys, portVars>>

CheckExist(p) ==
  /\ \/ pxys[NameOf[p]] # None /\ Step(p, "checking", "undoing")
     \/ /\ pxys[NameOf[p]] = None
        /\ Step(p, "checking", IF Kind[p] = "udp" THEN "acquiringUDP" ELSE "acquiring")
  /\ UNCHANGED <<ctlVars, portVars>>

(* Run: TCPPortManager.Acquire of a tcp or tcpudp proxy.  Any of the ports *)
(* frps has not bound may be bound by another process.                     *)
AcquireTCP(p) ==
  /\ pc[p] = "acquiring" /\ Kind[p] \in {"tcp", "tcpudp"}
  /\ \E avail \in SUBSET Bindable(tcpSock) :
     \E q \in Acquirable(tcp, p, Want[p], avail) :
       \/ /\ q = None
          /\ Step(p, "acquiring", "undoing")
          /\ UNCHANGED <<tcp, real>>
       \/ /\ q # None
          /\ Step(p, "acquiring", IF Kind[p] = "tcp" THEN "listening" ELSE "acquiringUDP")
          /\ tcp' = Marked(tcp, p, q)
          /\ real' = [real EXCEPT ![p] = q]
  /\ UNCHANGED <<ctlVars, udp, tcpSock, udpSock, muxVars, fwd>>

(* Run: UDPPortManager.Acquire; a tcpudp proxy asks for its TCP port.      *)
AcquireUDP(p) ==
  /\ pc[p] = "acquiringUDP"
  /\ \E avail \in SUBSET Bindable(udpSock) :
     \E q \in Acquirable(udp, p, IF Kind[p] = "udp" THEN Want[p] ELSE real[p], avail) :
       \/ /\ q = None
          /\ Step(p, "acquiringUDP", IF Kind[p] = "udp" THEN "undoing" ELSE "failingTCP")
          /\ UNCHANGED <<udp, real>>
       \/ /\ q # None
          /\ Step(p, "acquiringUDP", IF Kind[p] = "udp" THEN "listeningUDP" ELSE "listening")
          /\ udp' = Marked(udp, p, q)
          /\ real' = [real EXCEPT ![p] = q]
  /\ UNCHANGED <<ctlVars, tcp, tcpSock, udpSock, muxVars, fwd>>

(* Run: net.Listen, which fails if the port was taken meanwhile.           *)
ListenTCP(p) ==
  /\ pc[p] = "listening"
  /\ \/ /\ tcpSock[real[p]] = None
        /\ Step(p, "listening", IF Kind[p] = "tcp" THEN "adding" ELSE "listeningUDP")
        /\ tcpSock' = [tcpSock EXCEPT ![real[p]] = p]
     \/ /\ Step(p, "listening", IF Kind[p] = "tcp" THEN "failingTCP" ELSE "failing")
        /\ UNCHANGED tcpSock
  /\ UNCHANGED <<ctlVars, tcp, udp, udpSock, real, muxVars, fwd>>

(* Run: net.ListenUDP, and the relay goroutines.                           *)
ListenUDP(p) ==
  /\ pc[p] = "listeningUDP"
  /\ \/ /\ udpSock[real[p]] = None
        /\ Step(p, "listeningUDP", "adding")
        /\ udpSock' = [udpSock EXCEPT ![real[p]] = p]
        /\ fwd' = [fwd EXCEPT ![p] = "reading"]
     \/ /\ Step(p, "listeningUDP", "failing")
        /\ UNCHANGED <<udpSock, fwd>>
  /\ UNCHANGED <<ctlVars, tcp, udp, tcpSock, real, muxVars>>

(* Run failed: the deferred releases, of the UDP port and of the TCP port. *)
Kept(pm, q) == pm
GiveBack(pm, q) == Released(pm, q)

FailUDP(p) ==
  /\ Step(p, "failing", IF Kind[p] = "udp" THEN "undoing" ELSE "failingTCP")
  /\ udp' = GiveBack(udp, real[p])
  /\ UNCHANGED <<ctlVars, tcp, tcpSock, udpSock, real, muxVars, fwd>>

FailTCP(p) ==
  /\ Step(p, "failingTCP", "undoing")
  /\ tcp' = GiveBack(tcp, real[p])
  /\ UNCHANGED <<ctlVars, udp, tcpSock, udpSock, real, muxVars, fwd>>

(* Run of an mc proxy: MinecraftGroupController.Listen.  The first proxy   *)
(* on a port acquires it and binds it for all; a routed name is refused.   *)
(* Acquire, bind and route are one step under the controller's mutex.      *)
ListenMC(p) ==
  LET q == Want[p] n == NameOf[p] IN
  /\ pc[p] = "acquiring" /\ Kind[p] = "mc"
  /\ \/ /\ refs[q] > 0 /\ n \in routes[q]
        /\ Step(p, "acquiring", "undoing")
        /\ UNCHANGED <<tcp, tcpSock, muxVars>>
     \/ /\ refs[q] > 0 /\ n \notin routes[q]
        /\ Step(p, "acquiring", "adding")
        /\ routes' = [routes EXCEPT ![q] = @ \cup {n}]
        /\ refs' = [refs EXCEPT ![q] = @ + 1]
        /\ UNCHANGED <<tcp, tcpSock>>
     \/ /\ refs[q] = 0
        /\ \E avail \in SUBSET Bindable(tcpSock) :
             \/ /\ None \in Acquirable(tcp, Mux[q], q, avail)
                /\ Step(p, "acquiring", "undoing")
                /\ UNCHANGED <<tcp, tcpSock, muxVars>>
             \/ /\ q \in Acquirable(tcp, Mux[q], q, avail)
                /\ Step(p, "acquiring", "undoing")
                /\ tcp' = Released(Marked(tcp, Mux[q], q), q)
                /\ UNCHANGED <<tcpSock, muxVars>>
             \/ /\ q \in Acquirable(tcp, Mux[q], q, avail)
                /\ Step(p, "acquiring", "adding")
                /\ tcp' = Marked(tcp, Mux[q], q)
                /\ tcpSock' = [tcpSock EXCEPT ![q] = Mux[q]]
                /\ routes' = [routes EXCEPT ![q] = {n}]
                /\ refs' = [refs EXCEPT ![q] = 1]
  /\ UNCHANGED <<ctlVars, udp, udpSock, real, fwd>>

(* RegisterProxy returns an error: its ports are no longer counted.        *)
Forgotten(c, n) == Count(c, 0)
Uncount(c, n) == Count(c, -n)

Undo(p) ==
  /\ Step(p, "undoing", "closed")
  /\ Uncount(CtlOf[p], Uses(p))
  /\ busy' = [busy EXCEPT ![CtlOf[p]] = None]
  /\ UNCHANGED <<up, pxys, portVars>>

(* PxyManager.Add; the proxy joins ctl.proxies or is closed again.         *)
Overwrites(n) == TRUE
Addable(n) == pxys[n] = None

AddProxy(p) ==
  LET n == NameOf[p] IN
  /\ \/ /\ Addable(n)
        /\ Step(p, "adding", "open")
        /\ pxys' = [pxys EXCEPT ![n] = p]
        /\ busy' = [busy EXCEPT ![CtlOf[p]] = None]
     \/ /\ ~Addable(n)
        /\ Step(p, "adding", "aborting")
        /\ UNCHANGED <<pxys, busy>>
  /\ UNCHANGED <<up, usedNum, portVars>>
-----------------------------------------------------------------------------
(* Closing.                                                                *)

(* handleCloseProxy.                                                       *)
CloseProxy(p) ==
  /\ Idle(CtlOf[p])
  /\ Step(p, "open", "closing")
  /\ Uncount(CtlOf[p], Uses(p))
  /\ busy' = [busy EXCEPT ![CtlOf[p]] = p]
  /\ UNCHANGED <<up, pxys, portVars>>

(* The connection is lost; the worker takes over when no handler runs.     *)
Disconnect(c) ==
  /\ Idle(c)
  /\ up' = [up EXCEPT ![c] = "draining"]
  /\ UNCHANGED <<pc, busy, usedNum, pxys, portVars>>

(* The worker closes the control's proxies one by one, in any order.       *)
HandlerOnly(p) == CloseProxy(p)
Drain(p) ==
  /\ up[CtlOf[p]] = "draining" /\ busy[CtlOf[p]] = None
  /\ Step(p, "open", "closing")
  /\ busy' = [busy EXCEPT ![CtlOf[p]] = p]
  /\ UNCHANGED <<up, usedNum, pxys, portVars>>

Finish(c) ==
  /\ up[c] = "draining" /\ busy[c] = None
  /\ \A p \in Pxy : CtlOf[p] = c => pc[p] # "open"
  /\ up' = [up EXCEPT ![c] = "gone"]
  /\ UNCHANGED <<pc, busy, usedNum, pxys, portVars>>

(* pxy.Close, first half: the listeners are closed.                        *)
Unbound(sock, p) == [q \in Port |-> IF sock[q] = p THEN None ELSE sock[q]]

CloseListeners(p) ==
  /\ Step(p, "closing", "closingPorts") \/ Step(p, "aborting", "abortingPorts")
  /\ tcpSock' = Unbound(tcpSock, p)
  /\ udpSock' = Unbound(udpSock, p)
  /\ routes' = IF Kind[p] = "mc" THEN [routes EXCEPT ![Want[p]] = @ \ {NameOf[p]}]
               ELSE routes
  /\ UNCHANGED <<ctlVars, tcp, udp, real, refs, fwd>>

(* pxy.Close, second half: the ports are released, the port of a muxer     *)
(* with its last listener.                                                 *)
LastRef(q) == refs[q] = 1

ReleasePorts(p) ==
  LET q == Want[p] IN
  /\ Step(p, "closingPorts", "deleting") \/ Step(p, "abortingPorts", "undoing")
  /\ udp' = IF Kind[p] \in {"udp", "tcpudp"} THEN Released(udp, real[p]) ELSE udp
  /\ tcp' = CASE Kind[p] \in {"tcp", "tcpudp"} -> Released(tcp, real[p])
              [] Kind[p] = "mc" /\ LastRef(q) -> Released(tcp, q)
              [] OTHER -> tcp
  /\ refs' = IF Kind[p] = "mc" THEN [refs EXCEPT ![q] = @ - 1] ELSE refs
  /\ tcpSock' = IF Kind[p] = "mc" /\ LastRef(q) THEN Unbound(tcpSock, Mux[q]) ELSE tcpSock
  /\ UNCHANGED <<ctlVars, udpSock, real, routes, fwd>>

(* PxyManager.Del, by name.                                                *)
DelProxy(p) ==
  /\ Step(p, "deleting", "closed")
  /\ pxys' = [pxys EXCEPT ![NameOf[p]] = None]
  /\ busy' = [busy EXCEPT ![CtlOf[p]] = None]
  /\ UNCHANGED <<up, usedNum, portVars>>

(* ForwardUserConn returns when its socket is closed, and its goroutine    *)
(* closes the proxy again: isClosed is set, the ports are released again.  *)
ForwarderReturns(p) ==
  /\ fwd[p] = "reading" /\ udpSock[real[p]] # p
  /\ fwd' = [fwd EXCEPT ![p] = "closing"]
  /\ UNCHANGED <<pc, ctlVars, tcp, udp, tcpSock, udpSock, real, muxVars>>

ForwarderCloses(p) ==
  /\ fwd[p] = "closing"
  /\ pc[p] \notin {"closingPorts", "abortingPorts"}   \* pxy.mu
  /\ fwd' = [fwd EXCEPT ![p] = "done"]
  /\ udp' = Released(udp, real[p])
  /\ tcp' = IF Kind[p] = "tcpudp" THEN Released(tcp, real[p]) ELSE tcp
  /\ UNCHANGED <<pc, ctlVars, tcpSock, udpSock, real, muxVars>>

(* cleanReservedPortsWorker.                                               *)
CleanReserved(n) ==
  /\ \/ Cleanable(tcp, n) /\ tcp' = Cleaned(tcp, n) /\ UNCHANGED udp
     \/ Cleanable(udp, n) /\ udp' = Cleaned(udp, n) /\ UNCHANGED tcp
  /\ UNCHANGED <<pc, ctlVars, tcpSock, udpSock, real, muxVars, fwd>>

Running(p) ==
  \/ CheckExist(p) \/ AcquireTCP(p) \/ AcquireUDP(p) \/ ListenTCP(p) \/ ListenUDP(p)
  \/ ListenMC(p) \/ FailUDP(p) \/ FailTCP(p) \/ Undo(p) \/ AddProxy(p)
  \/ Drain(p) \/ CloseListeners(p) \/ ReleasePorts(p) \/ DelProxy(p)

Next ==
  \/ \E p \in Pxy : \/ RejectProxy(p) \/ CountPorts(p) \/ CloseProxy(p) \/ Running(p)
                    \/ ForwarderReturns(p) \/ ForwarderCloses(p)
  \/ \E c \in Ctl : Disconnect(c) \/ Finish(c)
  \/ \E n \in PortName : CleanReserved(n)

Spec == Init /\ [][Next]_vars

(* A goroutine that is not blocked goes on; peers owe nothing.             *)
FairSpec ==
  /\ Spec
  /\ \A p \in Pxy : WF_vars(Running(p)) /\ WF_vars(ForwarderReturns(p))
                    /\ WF_vars(ForwarderCloses(p))
  /\ \A c \in Ctl : WF_vars(Finish(c))
-----------------------------------------------------------------------------
(* The proxies that hold their name.                                       *)
Registered == {p \in Pxy : pc[p] \in {"open", "closing", "closingPorts", "deleting"}}

(* A name belongs to one proxy at a time, from Add to Del: although Exist  *)
(* and Add are apart, and Del removes whatever is under the name, no proxy *)
(* loses its entry to another one.                                         *)
NameOwned ==
  \A p \in Pxy, n \in ProxyName : pxys[n] = p <=> p \in Registered /\ NameOf[p] = n

(* The proxies whose ports a control counts.                               *)
Counted(c) == {p \in Pxy : /\ CtlOf[p] = c /\ Uses(p) = 1
                           /\ pc[p] \notin {"none", "closing", "closingPorts",
                                            "deleting", "closed"}}

(* While a control runs, portsUsedNum is the number of ports its proxies   *)
(* take or try to take, on every path through RegisterProxy and CloseProxy,*)
(* and never more than maxPortsPerClient.                                  *)
LimitExact ==
  \A c \in Ctl : up[c] = "up" /\ MaxPorts > 0 =>
    usedNum[c] = Cardinality(Counted(c)) /\ usedNum[c] <= MaxPorts

(* Both managers: a port is either free or used.                           *)
PortsPartitioned == Partitioned(tcp) /\ Partitioned(udp)

(* A control that is gone has left nothing behind in the proxy manager and *)
(* in the port managers: no entry of one of its proxies.                   *)
GoneLeavesNothing ==
  \A p \in Pxy : up[CtlOf[p]] = "gone" =>
    /\ \A n \in ProxyName : pxys[n] # p
    /\ \A q \in Port : tcp.used[q] # p /\ udp.used[q] # p

(* A proxy that serves a TCP port of its configuration has its socket, and *)
(* the manager knows: no other Acquire of that port can succeed.           *)
PortHeld ==
  \A p \in Pxy : pc[p] = "open" =>
    CASE Kind[p] = "tcp" -> tcp.used[real[p]] = p /\ tcpSock[real[p]] = p
      [] Kind[p] = "mc"  -> tcp.used[Want[p]] = Mux[Want[p]] /\ tcpSock[Want[p]] = Mux[Want[p]]
      [] OTHER -> TRUE

(* The port of a live Minecraft muxer is reserved through the TCP port     *)
(* manager, as the controller's comment says.                              *)
MuxPortReserved ==
  \A q \in Port : refs[q] > 0 => tcp.used[q] = Mux[q]

(* A tcpudp proxy serves both protocols or none, once it has settled.      *)
BothOrNone ==
  \A p \in Pxy : Kind[p] = "tcpudp" /\ pc[p] \in {"open", "closed"} =>
    ((\E q \in Port : tcpSock[q] = p) <=> (\E q \in Port : udpSock[q] = p))

(* A control that lost its connection gets rid of all its proxies.         *)
DrainFinishes ==
  \A c \in Ctl : up[c] = "draining" ~> up[c] = "gone"
=============================================================================

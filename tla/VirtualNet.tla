------------------------------ MODULE VirtualNet ------------------------------
(***************************************************************************)
(* The virtual network of a client: the controller that owns the TUN       *)
(* device and its two routers (pkg/vnet/controller.go), the visitor plugin *)
(* that keeps a route and a pipe to its visitor                            *)
(* (pkg/plugin/visitor/virtual_net.go), and the proxy plugin that gives    *)
(* the controller its work connections (pkg/plugin/client/virtual_net.go). *)
(*                                                                         *)
(* A visitor plugin makes a new pipe for every connection; it has two      *)
(* slots for pipes, so that the reader of the last one may be late.  Its   *)
(* visitors have names and destinations of their own, so each is modelled  *)
(* alone: Plug has none or one.                                            *)
(***************************************************************************)
EXTENDS Integers, FiniteSets

CONSTANTS
    VnetConn,      \* the work connections handed to the proxy plugin
    VnetIP,        \* the addresses packets come from and go to
    RouteIP,       \* the destinationIP of the visitor plugin
    Plug,          \* the visitor plugin: {1}, or {} for a proxy side alone
    MaxErrors      \* consecutive failed connections

ASSUME VnetAssumption ==
    /\ RouteIP \in VnetIP
    /\ Plug \subseteq {1}
    /\ MaxErrors \in Nat \ {0}

VARIABLES
    plug,        \* the visitor plugin: its run loop, Close and what they share
    pipe,        \* <<plugin, slot>> -> the two ends and their goroutines
    broute,      \* clientRouter.routes[name]: a pipe or NoPipe
    srcIPConns,  \* serverRouter: address -> a connection or NoVnetConn
    nconn,       \* the work connections and their read loops
    nplugin,     \* the proxy plugin: the connections it holds, and Close
    tun          \* Controller.Run: what the only reader of the device does

vnetVars == <<plug, pipe, broute, srcIPConns, nconn, nplugin, tun>>

PipeID == Plug \X {0, 1}

NoPipe == <<0, 0>>

NoVnetConn == "no connection"

NoPipeYet == [ctrl |-> FALSE, far |-> FALSE, loop |-> "none", handler |-> "none", sig |-> "none"]

Targets == [kind : {"none"}] \cup [kind : {"client"}, to : PipeID] \cup [kind : {"server"}, to : VnetConn]

(* The visitor plugin, a pipe it made, the two routers, a work connection  *)
(* and the proxy plugin.                                                   *)
VisitorPlugin == [at : {"top", "pipe", "routed", "wait", "delay", "ended"},
                  shut : {"no", "cancelled", "unrouted", "closed"},
                  held : PipeID \cup {NoPipe}, slot : {0, 1},
                  errors : 0 .. MaxErrors, delay : -1 .. 300]
Pipes == [ctrl : BOOLEAN, far : BOOLEAN, loop : {"none", "reading", "done"},
          handler : {"none", "dialing", "joined"}, sig : {"none", "ok", "err"}]
ClientRouter == PipeID \cup {NoPipe}
ServerRouter == [VnetIP -> VnetConn \cup {NoVnetConn}]
WorkConns == [at : {"new", "read", "register", "cleaned", "done"}, open : BOOLEAN, src : VnetIP]
ProxyPlugin == [conns : SUBSET VnetConn, closed : BOOLEAN]

VnetTypeOK ==
    /\ plug \in [Plug -> VisitorPlugin]
    /\ pipe \in [PipeID -> Pipes]
    /\ broute \in ClientRouter
    /\ srcIPConns \in ServerRouter
    /\ nconn \in [VnetConn -> WorkConns]
    /\ nplugin \in ProxyPlugin
    /\ tun \in [at : {"read", "write", "ended"}, target : Targets]

VnetInit ==
    /\ plug = [g \in Plug |-> [at |-> "top", shut |-> "no", held |-> NoPipe,
                               slot |-> 0, errors |-> 0, delay |-> 0]]
    /\ pipe = [i \in PipeID |-> NoPipeYet]
    /\ broute = NoPipe
    /\ srcIPConns = [i \in VnetIP |-> NoVnetConn]
    /\ nconn = [c \in VnetConn |-> [at |-> "new", open |-> TRUE, src |-> RouteIP]]
    /\ nplugin = [conns |-> {}, closed |-> FALSE]
    /\ tun = [at |-> "read", target |-> [kind |-> "none"]]

Cancelled(g) == plug[g].shut # "no"

PipeOf(g) == <<g, plug[g].slot>>

(***************************************************************************)
(* A pipe whose goroutines are gone, and whose signal was taken, is garbage.*)
(***************************************************************************)
Collected(pipes) ==
    [i \in PipeID |-> IF pipes[i].loop = "done" /\ pipes[i].handler = "none" /\ pipes[i].sig = "none"
                      THEN NoPipeYet ELSE pipes[i]]

(***************************************************************************)
(* cleanupControllerConn closes the controller's end of the plugin's pipe. *)
(***************************************************************************)
CloseHeld(g) ==
    IF plug[g].held = NoPipe THEN pipe ELSE [pipe EXCEPT ![plug[g].held].ctrl = FALSE]

LeaveHeld(g) == pipe

CleanupControllerConn(g) == CloseHeld(g)

-----------------------------------------------------------------------------
(***************************************************************************)
(* The run loop of the visitor plugin.                                     *)
(***************************************************************************)

(***************************************************************************)
(* baseDelay*time.Duration(1<<uint(consecutiveErrors-1)), capped at 300 s, *)
(* in seconds.  A Duration is an int64 of nanoseconds, and                 *)
(* 60 s = 29296875 * 2^11 ns: the product is exact up to a shift of 27,    *)
(* then its top bits are cut.  What is left is zero, negative (-1 here: it *)
(* elapses at once), or at least 2^39 ns, which the cap cuts to 300 s.     *)
(***************************************************************************)
Doubled(shift) == 60 * 2^shift

LowBits(shift) == 29296875 % 2^(53 - shift)

SignBit(shift) == LowBits(shift) >= 2^(52 - shift)

Overflowed(shift) ==
    IF LowBits(shift) = 0 THEN 0
    ELSE IF SignBit(shift) THEN -1 ELSE 300

ReconnectDelay(n) ==
    IF n <= 3 THEN Doubled(n - 1)
    ELSE IF n <= 28 THEN 300
    ELSE IF n <= 53 THEN Overflowed(n - 1) ELSE 0

(***************************************************************************)
(* The top of the loop: it stops when the context is cancelled, and else   *)
(* makes a pipe.  pipe[i] is free once its reader and its handler are gone.*)
(***************************************************************************)
RunStops(g) ==
    /\ plug[g].at = "top"
    /\ Cancelled(g)
    /\ plug' = [plug EXCEPT ![g].at = "ended", ![g].held = NoPipe]
    /\ pipe' = CleanupControllerConn(g)
    /\ UNCHANGED <<broute, srcIPConns, nconn, nplugin, tun>>

NewPipe(g) ==
    /\ plug[g].at = "top"
    /\ ~Cancelled(g)
    /\ LET i == <<g, 1 - plug[g].slot>>
       IN /\ pipe[i].loop \in {"none", "done"} /\ pipe[i].handler = "none"
          /\ tun.target # [kind |-> "client", to |-> i]
          /\ plug' = [plug EXCEPT ![g].at = "pipe", ![g].slot = 1 - @]
          /\ pipe' = [pipe EXCEPT ![i] = [NoPipeYet EXCEPT !.ctrl = TRUE, !.far = TRUE]]
    /\ UNCHANGED <<broute, srcIPConns, nconn, nplugin, tun>>

(***************************************************************************)
(* The controller's end is kept under the lock, then addRoute replaces     *)
(* whatever the name had and the reader starts.                            *)
(***************************************************************************)
RegisterClientRoute(g) ==
    /\ plug[g].at = "pipe"
    /\ IF plug[g].held # PipeOf(g)
       THEN /\ plug' = [plug EXCEPT ![g].held = PipeOf(g)]
            /\ UNCHANGED <<pipe, broute>>
       ELSE /\ plug' = [plug EXCEPT ![g].at = "routed"]
            /\ pipe' = [pipe EXCEPT ![PipeOf(g)].loop = "reading"]
            /\ broute' = PipeOf(g)
    /\ UNCHANGED <<srcIPConns, nconn, nplugin, tun>>

(***************************************************************************)
(* SendConnToVisitor: the internal listener takes the connection, or is    *)
(* closed, and then nobody has the far end.                                *)
(***************************************************************************)
SendConnToVisitor(g) ==
    /\ plug[g].at = "routed"
    /\ plug' = [plug EXCEPT ![g].at = "wait"]
    /\ pipe' = [pipe EXCEPT ![PipeOf(g)].handler = IF plug[g].shut = "no" THEN "dialing" ELSE "none"]
    /\ UNCHANGED <<broute, srcIPConns, nconn, nplugin, tun>>

AfterSignal(g) ==
    LET failed == pipe[PipeOf(g)].sig = "err"
        errors == IF failed THEN plug[g].errors + 1 ELSE 0
    IN [plug[g] EXCEPT !.at = "delay", !.held = NoPipe, !.errors = errors,
                       !.delay = IF failed THEN ReconnectDelay(errors) ELSE 10]

WaitForClose(g) ==
    /\ plug[g].at = "wait"
    /\ \/ /\ Cancelled(g)
          /\ plug' = [plug EXCEPT ![g].at = "ended", ![g].held = NoPipe]
       \/ /\ pipe[PipeOf(g)].sig # "none"
          /\ plug' = [plug EXCEPT ![g] = AfterSignal(g)]
    /\ pipe' = Collected([CleanupControllerConn(g) EXCEPT ![PipeOf(g)].sig = "none"])
    /\ UNCHANGED <<broute, srcIPConns, nconn, nplugin, tun>>

WaitReconnect(g) ==
    /\ plug[g].at = "delay"
    /\ \/ plug' = [plug EXCEPT ![g].at = "top", ![g].delay = 0]
       \/ Cancelled(g) /\ plug' = [plug EXCEPT ![g].at = "ended", ![g].delay = 0]
    /\ UNCHANGED <<pipe, broute, srcIPConns, nconn, nplugin, tun>>

RunLoop(g) ==
    RunStops(g) \/ NewPipe(g) \/ RegisterClientRoute(g) \/ SendConnToVisitor(g) \/ WaitForClose(g) \/ WaitReconnect(g)

(***************************************************************************)
(* BaseVisitor.Close and, in it, the plugin's Close: the internal listener *)
(* and the context, the route by its name, the controller's end of the     *)
(* pipe.                                                                   *)
(***************************************************************************)
UnregisterClientRoute(g) ==
    /\ plug[g].shut = "cancelled"
    /\ plug' = [plug EXCEPT ![g].shut = "unrouted"]
    /\ broute' = NoPipe
    /\ UNCHANGED pipe

FinishClose(g) ==
    /\ plug[g].shut = "unrouted"
    /\ plug' = [plug EXCEPT ![g].shut = "closed", ![g].held = NoPipe]
    /\ pipe' = CleanupControllerConn(g)
    /\ UNCHANGED broute

CloseStep(g) ==
    /\ UnregisterClientRoute(g) \/ FinishClose(g)
    /\ UNCHANGED <<srcIPConns, nconn, nplugin, tun>>

VnetPluginClose(g) ==
    /\ plug[g].shut = "no"
    /\ plug' = [plug EXCEPT ![g].shut = "cancelled"]
    /\ UNCHANGED <<pipe, broute, srcIPConns, nconn, nplugin, tun>>

-----------------------------------------------------------------------------
(***************************************************************************)
(* The visitor's handler of the far end.  CloseNotifyConn closes it and    *)
(* tells the plugin, with the error of a failed dial.                      *)
(***************************************************************************)
Heeded(i) == plug[i[1]].at = "wait" /\ PipeOf(i[1]) = i

CloseFar(i, sig) ==
    Collected([pipe EXCEPT ![i].far = FALSE, ![i].handler = "none", ![i].sig = IF Heeded(i) THEN sig ELSE "none"])

KeepFar(i, sig) == [pipe EXCEPT ![i].handler = "none"]

CloseWithError(i, sig) == CloseFar(i, sig)

HandlerStep(i) ==
    /\ \/ pipe[i].handler = "dialing" /\ pipe' = [pipe EXCEPT ![i].handler = "joined"]
       \/ /\ pipe[i].handler = "dialing" /\ plug[i[1]].errors < MaxErrors
          /\ pipe' = CloseWithError(i, "err")
       \/ pipe[i].handler = "joined" /\ ~pipe[i].ctrl /\ pipe' = CloseFar(i, "ok")
    /\ UNCHANGED <<plug, broute, srcIPConns, nconn, nplugin, tun>>

(***************************************************************************)
(* The other side of the tunnel ends the connection at a time of its own.  *)
(***************************************************************************)
RemoteEnds(i) ==
    /\ pipe[i].handler = "joined"
    /\ pipe' = CloseFar(i, "ok")
    /\ UNCHANGED <<plug, broute, srcIPConns, nconn, nplugin, tun>>

(***************************************************************************)
(* readLoopClient ends with its pipe; it takes the route away only if the  *)
(* route is still its own connection's, and closes the controller's end.   *)
(***************************************************************************)
RemoveConnRoute(i) == IF broute = i THEN NoPipe ELSE broute

RemoveByName(i) == NoPipe

RouteAfter(i) == RemoveConnRoute(i)

ReadLoopClient(i) ==
    /\ pipe[i].loop = "reading"
    /\ ~pipe[i].ctrl \/ ~pipe[i].far
    /\ pipe' = Collected([pipe EXCEPT ![i].loop = "done", ![i].ctrl = FALSE])
    /\ broute' = RouteAfter(i)
    /\ UNCHANGED <<plug, srcIPConns, nconn, nplugin, tun>>

-----------------------------------------------------------------------------
(***************************************************************************)
(* The proxy plugin and readLoopServer.                                    *)
(***************************************************************************)
HandleVnetConn(c) ==
    /\ nconn[c].at = "new"
    /\ nconn' = [nconn EXCEPT ![c].at = "read"]
    /\ nplugin' = [nplugin EXCEPT !.conns = @ \cup {c}]
    /\ UNCHANGED <<plug, pipe, broute, srcIPConns, tun>>

PeerCloses(c) ==
    /\ nconn[c].open
    /\ nconn' = [nconn EXCEPT ![c].open = FALSE]
    /\ UNCHANGED <<plug, pipe, broute, srcIPConns, nplugin, tun>>

(***************************************************************************)
(* A packet from src.  registerSrcIP looks under the read lock, and writes *)
(* under the write lock taken after it.                                    *)
(***************************************************************************)
VnetReadPacket(c, src) ==
    /\ nconn[c].at = "read" /\ nconn[c].open
    /\ srcIPConns[src] # c
    /\ nconn' = [nconn EXCEPT ![c].at = "register", ![c].src = src]
    /\ UNCHANGED <<plug, pipe, broute, srcIPConns, nplugin, tun>>

RegisterSrcIP(c) ==
    /\ nconn[c].at = "register"
    /\ srcIPConns' = [srcIPConns EXCEPT ![nconn[c].src] = c]
    /\ nconn' = [nconn EXCEPT ![c].at = "read", ![c].src = RouteIP]
    /\ UNCHANGED <<plug, pipe, broute, nplugin, tun>>

WithoutConn(c) == [i \in VnetIP |-> IF srcIPConns[i] = c THEN NoVnetConn ELSE srcIPConns[i]]

WithoutOne(c) ==
    IF \E i \in VnetIP : srcIPConns[i] = c
    THEN [srcIPConns EXCEPT ![CHOOSE i \in VnetIP : srcIPConns[i] = c] = NoVnetConn]
    ELSE srcIPConns

CleanupConnIPs(c) == WithoutConn(c)

ReadLoopServer(c) ==
    /\ nconn[c].at = "read" /\ ~nconn[c].open
    /\ srcIPConns' = CleanupConnIPs(c)
    /\ nconn' = [nconn EXCEPT ![c].at = "cleaned"]
    /\ UNCHANGED <<plug, pipe, broute, nplugin, tun>>

RemoveConn(c) ==
    /\ nconn[c].at = "cleaned"
    /\ nconn' = [nconn EXCEPT ![c].at = "done"]
    /\ nplugin' = [nplugin EXCEPT !.conns = @ \ {c}]
    /\ UNCHANGED <<plug, pipe, broute, srcIPConns, tun>>

ClosePlugin ==
    /\ ~nplugin.closed
    /\ nconn' = [c \in VnetConn |-> [nconn[c] EXCEPT !.open = @ /\ c \notin nplugin.conns]]
    /\ nplugin' = [conns |-> {}, closed |-> TRUE]
    /\ UNCHANGED <<plug, pipe, broute, srcIPConns, tun>>

-----------------------------------------------------------------------------
(***************************************************************************)
(* Controller.Run.  handlePacket looks for the destination in the client   *)
(* router, then among the sources of the server router, and writes to what *)
(* it found: a pipe takes a message only when the other end reads it.      *)
(***************************************************************************)
TargetOf(dst) ==
    IF dst = RouteIP /\ broute # NoPipe THEN [kind |-> "client", to |-> broute]
    ELSE IF srcIPConns[dst] # NoVnetConn THEN [kind |-> "server", to |-> srcIPConns[dst]]
    ELSE [kind |-> "none"]

HandlePacket(dst) ==
    /\ tun.at = "read"
    /\ TargetOf(dst).kind # "none"
    /\ tun' = [at |-> "write", target |-> TargetOf(dst)]
    /\ UNCHANGED <<plug, pipe, broute, srcIPConns, nconn, nplugin>>

WriteReturns(t) ==
    \/ t.kind = "client" /\ (~pipe[t.to].ctrl \/ ~pipe[t.to].far \/ pipe[t.to].handler = "joined")
    \/ t.kind = "server"

WriteMessage ==
    /\ tun.at = "write"
    /\ WriteReturns(tun.target)
    /\ tun' = [at |-> "read", target |-> [kind |-> "none"]]
    /\ UNCHANGED <<plug, pipe, broute, srcIPConns, nconn, nplugin>>

StopTun ==
    /\ tun.at = "read"
    /\ tun' = [tun EXCEPT !.at = "ended"]
    /\ UNCHANGED <<plug, pipe, broute, srcIPConns, nconn, nplugin>>

VnetNext ==
    \/ \E g \in Plug : RunLoop(g) \/ VnetPluginClose(g) \/ CloseStep(g)
    \/ \E i \in PipeID : HandlerStep(i) \/ RemoteEnds(i) \/ ReadLoopClient(i)
    \/ \E c \in VnetConn : \/ HandleVnetConn(c) \/ PeerCloses(c) \/ RegisterSrcIP(c)
                           \/ ReadLoopServer(c) \/ RemoveConn(c)
                           \/ \E src \in VnetIP : VnetReadPacket(c, src)
    \/ ClosePlugin
    \/ \E dst \in VnetIP : HandlePacket(dst)
    \/ WriteMessage \/ StopTun

VnetSpec ==
    /\ VnetInit /\ [][VnetNext]_vnetVars
    /\ \A g \in Plug : WF_vnetVars(RunLoop(g)) /\ WF_vnetVars(CloseStep(g))
    /\ \A i \in PipeID : WF_vnetVars(HandlerStep(i)) /\ WF_vnetVars(ReadLoopClient(i))
    /\ WF_vnetVars(WriteMessage)

-----------------------------------------------------------------------------
(***************************************************************************)
(* While a visitor plugin waits on a connection that is open at both ends, *)
(* packets for its destination go to that connection: the reader of an     *)
(* earlier pipe, however late, takes no route away that is not its own.    *)
(***************************************************************************)
RouteKept ==
    \A g \in Plug :
        /\ plug[g].at = "wait" /\ plug[g].shut = "no"
        /\ pipe[PipeOf(g)].ctrl /\ pipe[PipeOf(g)].far
        => broute = PipeOf(g)

(***************************************************************************)
(* An address is never mapped to a work connection whose read loop is over,*)
(* although the mapping is looked up and written under two locks and the   *)
(* connections come and go.                                                *)
(***************************************************************************)
SourcesLive == \A i \in VnetIP : srcIPConns[i] # NoVnetConn => nconn[srcIPConns[i]].at \in {"read", "register"}

PluginGone(g) ==
    /\ plug[g].at = "ended"
    /\ \A s \in {0, 1} : pipe[<<g, s>>].loop # "reading" /\ broute # <<g, s>>

(***************************************************************************)
(* Close of the visitor plugin leaves nothing of it for good: its run loop *)
(* ends, its readers end and no route leads to one of its pipes, even when *)
(* the loop was registering a pipe while Close unregistered the name.      *)
(***************************************************************************)
CloseUndoesRoute == \A g \in Plug : <>[](plug[g].shut = "closed" => PluginGone(g))

(***************************************************************************)
(* The only reader of the TUN device, which every route shares, is never   *)
(* stuck for good in a write: the far end of a pipe is read or closed.     *)
(***************************************************************************)
TunNeverStuck == []<>(tun.at # "write")

(***************************************************************************)
(* "Exponential backoff: 60s, 120s, 240s, 300s (capped)": after a failed   *)
(* connection the plugin waits a minute at least.                          *)
(***************************************************************************)
BackoffAtLeastBase == \A g \in Plug : plug[g].at = "delay" /\ plug[g].errors > 0 => plug[g].delay \in 60 .. 300

(* A visitor's route stays while its pipe lives, and a source address      *)
(* leads to a connection that is still read, whoever registers and cleans  *)
(* up at the same time (RegisterClientRoute, registerSrcIP,                *)
(* cleanupConnIPs).                                                        *)
VnetRoutesLive ==
  RouteKept /\ SourcesLive
=============================================================================

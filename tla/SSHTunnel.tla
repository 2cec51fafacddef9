------------------------------ MODULE SSHTunnel ------------------------------
(***************************************************************************)
(* One connection to the ssh gateway of frps: pkg/ssh/gateway.go and       *)
(* server.go, with the virtual client of pkg/virtual/client.go that the    *)
(* tunnel runs inside the server.                                          *)
(*                                                                         *)
(* The goroutines are Run itself, one per channel (keepAlive), the one     *)
(* that hands the virtual client's connections to the server (transfer),   *)
(* the one that runs the virtual client (runner), and one per work         *)
(* connection.  The peer may leave whenever it likes.                      *)
(***************************************************************************)
EXTENDS Integers, FiniteSets

CONSTANTS
  Channel,     \* channels the peer may open
  WorkID       \* work connections that may be started

VARIABLES
  sconn,       \* the connection: none, open, gone
  sreq,        \* what the peer has asked for: [addr, extra]
  srun,        \* TunnelServer.Run
  keepers,     \* channels whose keepAlive runs
  transfer,    \* none, accepting, ended
  vrunner,     \* none, running, ended
  vclient,     \* the virtual client: none, new, in, lost, closed
  vlistener,   \* its internal listener is open
  vproxy,      \* the proxy of the tunnel: none, starting, running, error
  works,       \* [WorkID -> none, opening, joined, closed]
  doneClosed   \* how often doneCh was closed

sshVars == <<sconn, sreq, srun, keepers, transfer, vrunner, vclient, vlistener, vproxy, works, doneClosed>>

NothingAsked == [addr |-> FALSE, extra |-> "none"]
SSHInit ==
  /\ sconn = "none" /\ sreq = NothingAsked /\ srun = "idle" /\ keepers = {} /\ transfer = "none"
  /\ vrunner = "none" /\ vclient = "none" /\ vlistener = FALSE /\ vproxy = "none"
  /\ works = [w \in WorkID |-> "none"] /\ doneClosed = 0
-----------------------------------------------------------------------------
(* The peer.                                                               *)
PeerLeaves ==
  /\ sconn = "open" /\ sconn' = "gone"
  /\ UNCHANGED <<sreq, srun, keepers, transfer, vrunner, vclient, vlistener, vproxy, works, doneClosed>>
(* handleNewChannel: the channel is kept alive, and an exec request on it  *)
(* carries the flags of the tunnel.                                        *)
OpensChannel(ch) ==
  /\ sconn = "open" /\ srun \notin {"idle", "handshake", "ended"} /\ ch \notin keepers
  /\ keepers' = keepers \cup {ch}
  /\ UNCHANGED <<sconn, sreq, srun, transfer, vrunner, vclient, vlistener, vproxy, works, doneClosed>>
AsksForward ==
  /\ sconn = "open" /\ srun = "wait" /\ ~sreq.addr /\ sreq' = [sreq EXCEPT !.addr = TRUE]
  /\ UNCHANGED <<sconn, srun, keepers, transfer, vrunner, vclient, vlistener, vproxy, works, doneClosed>>
SendsExec(kind) ==
  /\ sconn = "open" /\ srun = "wait" /\ keepers # {} /\ sreq.extra = "none" /\ sreq' = [sreq EXCEPT !.extra = kind]
  /\ UNCHANGED <<sconn, srun, keepers, transfer, vrunner, vclient, vlistener, vproxy, works, doneClosed>>
-----------------------------------------------------------------------------
(* Gateway.Run: the firewall is asked before anything is read.             *)
AcceptPeer(allowed) ==
  /\ srun = "idle" /\ sconn = "none"
  /\ sconn' = (IF allowed THEN "open" ELSE "gone") /\ srun' = (IF allowed THEN "handshake" ELSE "ended")
  /\ UNCHANGED <<sreq, keepers, transfer, vrunner, vclient, vlistener, vproxy, works, doneClosed>>

(* Run returned: handleConn closes the connection under it.                *)
RunReturns == srun' = "ended" /\ sconn' = "gone"

Handshake(ok) ==
  /\ srun = "handshake" /\ (sconn = "gone" => ~ok)
  /\ IF ok THEN srun' = "wait" /\ UNCHANGED sconn ELSE RunReturns
  /\ UNCHANGED <<sreq, keepers, transfer, vrunner, vclient, vlistener, vproxy, works, doneClosed>>

(* waitForwardAddrAndExtraPayload, then the flags are parsed: a request    *)
(* for help, a mistake, or a tunnel.                                       *)
WaitForward ==
  /\ srun = "wait" /\ sreq.addr /\ sreq.extra # "none"
  /\ IF sreq.extra = "tunnel"
     THEN /\ srun' = "ready" /\ vclient' = "new" /\ vlistener' = TRUE /\ vproxy' = "starting"
          /\ transfer' = "accepting" /\ vrunner' = "running" /\ UNCHANGED sconn
     ELSE RunReturns /\ UNCHANGED <<vclient, vlistener, vproxy, transfer, vrunner>>
  /\ UNCHANGED <<sreq, keepers, works, doneClosed>>
WaitTimesOut ==
  /\ srun = "wait" /\ ~(sreq.addr /\ sreq.extra # "none") /\ RunReturns
  /\ UNCHANGED <<sreq, keepers, transfer, vrunner, vclient, vlistener, vproxy, works, doneClosed>>

(* waitProxyStatusReady: the proxy runs, failed or is too late, or the     *)
(* virtual client ended.                                                   *)
ProxyReady ==
  /\ srun = "ready" /\ vproxy = "running" /\ srun' = "serving"
  /\ UNCHANGED <<sconn, sreq, keepers, transfer, vrunner, vclient, vlistener, vproxy, works, doneClosed>>
ProxyNotReady ==
  /\ srun = "ready" /\ (vproxy # "running" \/ doneClosed > 0) /\ srun' = "close"
  /\ UNCHANGED <<sconn, sreq, keepers, transfer, vrunner, vclient, vlistener, vproxy, works, doneClosed>>
PeerGone ==
  /\ srun = "serving" /\ sconn = "gone" /\ srun' = "close"
  /\ UNCHANGED <<sconn, sreq, keepers, transfer, vrunner, vclient, vlistener, vproxy, works, doneClosed>>

(* closeDoneChOnce.                                                        *)
CloseEachTime == doneClosed + 1
CloseOnce == IF doneClosed = 0 THEN 1 ELSE doneClosed

(* The end of Run: the virtual client and its listener are closed, then    *)
(* the connection.                                                         *)
CloseVirtualClient ==
  /\ srun = "close" /\ vclient' = "closed" /\ vlistener' = FALSE /\ srun' = "done"
  /\ UNCHANGED <<sconn, sreq, keepers, transfer, vrunner, vproxy, works, doneClosed>>
CloseTunnel ==
  /\ srun = "done" /\ doneClosed' = CloseOnce /\ RunReturns
  /\ UNCHANGED <<sreq, keepers, transfer, vrunner, vclient, vlistener, vproxy, works>>
-----------------------------------------------------------------------------
(* keepAlive ends with doneCh, or when the next heartbeat fails.           *)
OnlyDone(ch) == doneClosed > 0
KeepAliveEnds(ch) == doneClosed > 0 \/ sconn = "gone"
KeepAlive(ch) ==
  /\ ch \in keepers /\ KeepAliveEnds(ch) /\ keepers' = keepers \ {ch}
  /\ UNCHANGED <<sconn, sreq, srun, transfer, vrunner, vclient, vlistener, vproxy, works, doneClosed>>

TransferEnds ==
  /\ transfer = "accepting" /\ ~vlistener /\ transfer' = "ended"
  /\ UNCHANGED <<sconn, sreq, srun, keepers, vrunner, vclient, vlistener, vproxy, works, doneClosed>>

(* The virtual client logs in through a pipe, which needs the listener and *)
(* the goroutine behind it.  A first failure makes vc.Run return; the end  *)
(* of a session closes the connector, which closes the listener.           *)
LogsIn ==
  /\ vrunner = "running" /\ vclient \in {"new", "lost"} /\ vlistener /\ transfer = "accepting" /\ vclient' = "in"
  /\ UNCHANGED <<sconn, sreq, srun, keepers, transfer, vrunner, vlistener, vproxy, works, doneClosed>>
FirstLoginFails ==
  /\ vrunner = "running" /\ vclient = "new" /\ vclient' = "closed" /\ vlistener' = FALSE
  /\ UNCHANGED <<sconn, sreq, srun, keepers, transfer, vrunner, vproxy, works, doneClosed>>
ConnectorClose == FALSE
SSHSessionLost ==
  /\ vclient = "in" /\ vclient' = "lost" /\ vlistener' = ConnectorClose
  /\ vproxy' = (IF vproxy = "running" THEN "starting" ELSE vproxy)
  /\ UNCHANGED <<sconn, sreq, srun, keepers, transfer, vrunner, works, doneClosed>>
ProxyStarts(ok) ==
  /\ vclient = "in" /\ vproxy \in {"starting", "error"} /\ vproxy' = (IF ok THEN "running" ELSE "error")
  /\ UNCHANGED <<sconn, sreq, srun, keepers, transfer, vrunner, vclient, vlistener, works, doneClosed>>

(* vc.Run returned: the goroutine closes the tunnel.                       *)
ClosesTunnel == sconn' = "gone" /\ doneClosed' = CloseOnce
RunnerEnds ==
  /\ vrunner = "running" /\ vclient = "closed" /\ vrunner' = "ended" /\ ClosesTunnel
  /\ UNCHANGED <<sreq, srun, keepers, transfer, vclient, vlistener, vproxy, works>>
-----------------------------------------------------------------------------
(* A work connection: a channel is opened to the peer and joined with it.  *)
WorkStarts(w) ==
  /\ vclient = "in" /\ vproxy = "running" /\ works[w] = "none" /\ works' = [works EXCEPT ![w] = "opening"]
  /\ UNCHANGED <<sconn, sreq, srun, keepers, transfer, vrunner, vclient, vlistener, vproxy, doneClosed>>
LeavesWork == "opening"
OpenFails == "closed"
HandleWorkConn(w) ==
  /\ works[w] = "opening"
  /\ works' = [works EXCEPT ![w] = IF sconn = "open" THEN "joined" ELSE OpenFails]
  /\ UNCHANGED <<sconn, sreq, srun, keepers, transfer, vrunner, vclient, vlistener, vproxy, doneClosed>>
JoinEnds(w) ==
  /\ works[w] = "joined" /\ sconn = "gone" /\ works' = [works EXCEPT ![w] = "closed"]
  /\ UNCHANGED <<sconn, sreq, srun, keepers, transfer, vrunner, vclient, vlistener, vproxy, doneClosed>>

SSHNext ==
  \/ PeerLeaves \/ AsksForward \/ \E k \in {"help", "bad", "tunnel"} : SendsExec(k)
  \/ \E ch \in Channel : OpensChannel(ch) \/ KeepAlive(ch)
  \/ \E ok \in BOOLEAN : AcceptPeer(ok) \/ Handshake(ok) \/ ProxyStarts(ok)
  \/ WaitForward \/ WaitTimesOut \/ ProxyReady \/ ProxyNotReady \/ PeerGone \/ CloseVirtualClient \/ CloseTunnel
  \/ TransferEnds \/ LogsIn \/ FirstLoginFails \/ SSHSessionLost \/ RunnerEnds
  \/ \E w \in WorkID : WorkStarts(w) \/ HandleWorkConn(w) \/ JoinEnds(w)

(* Goroutines go on, timers fire, heartbeats are sent and a login is tried *)
(* until it succeeds; what the peer does is up to it, but the handshake of *)
(* a peer that has left ends.                                              *)
SSHFairness ==
  /\ WF_sshVars(\E ok \in BOOLEAN : Handshake(ok) /\ sconn = "gone") /\ WF_sshVars(WaitForward) /\ WF_sshVars(WaitTimesOut)
  /\ WF_sshVars(ProxyReady) /\ WF_sshVars(ProxyNotReady) /\ WF_sshVars(PeerGone) /\ WF_sshVars(CloseVirtualClient)
  /\ WF_sshVars(CloseTunnel) /\ WF_sshVars(TransferEnds) /\ WF_sshVars(RunnerEnds) /\ WF_sshVars(LogsIn)
  /\ \A ch \in Channel : WF_sshVars(KeepAlive(ch))
  /\ \A w \in WorkID : WF_sshVars(HandleWorkConn(w)) /\ WF_sshVars(JoinEnds(w))
SSHSpec == SSHInit /\ [][SSHNext]_sshVars /\ SSHFairness
-----------------------------------------------------------------------------
SSHTypeOK ==
  /\ sconn \in {"none", "open", "gone"} /\ keepers \subseteq Channel /\ vlistener \in BOOLEAN
  /\ sreq \in [addr : BOOLEAN, extra : {"none", "help", "bad", "tunnel"}]
  /\ srun \in {"idle", "handshake", "wait", "ready", "serving", "close", "done", "ended"}
  /\ transfer \in {"none", "accepting", "ended"} /\ vrunner \in {"none", "running", "ended"}
  /\ vclient \in {"none", "new", "in", "lost", "closed"} /\ vproxy \in {"none", "starting", "running", "error"}
  /\ works \in [WorkID -> {"none", "opening", "joined", "closed"}] /\ doneClosed \in Nat

(* Run and the goroutine of the virtual client both end the tunnel, in     *)
(* whatever order; doneCh is closed at most once.                          *)
DoneClosedOnce == doneClosed <= 1

Leftover ==
  \/ srun # "ended" \/ keepers # {} \/ transfer = "accepting" \/ vrunner = "running"
  \/ \E w \in WorkID : works[w] \in {"opening", "joined"}

(* Once the connection is gone nothing of the tunnel stays behind: Run,    *)
(* the keepers, the virtual client, its transfer and the work connections. *)
NothingStays == []<>(sconn = "gone" => ~Leftover)

(* A virtual client that lost its session gets a new one, unless the       *)
(* tunnel ends.                                                            *)
TunnelRecovers == (vclient = "lost") ~> (vclient = "in" \/ sconn = "gone")
=============================================================================

----------------------------- MODULE SUDPRelay -----------------------------
(***************************************************************************)
(* Secret UDP: the provider (client/proxy/sudp.go and the UDP half of      *)
(* stcpsudp.go), the visitor (client/visitor/sudp.go and the UDP half of   *)
(* stcpsudp.go), and the bridge frps puts between them when they use       *)
(* different wire protocols (joinSUDPMessageBridge in                      *)
(* server/proxy/proxy.go).                                                 *)
(*                                                                         *)
(* The visitor dials a stream, the bridge joins it with a work connection, *)
(* the provider serves it.  The visitor dials again for the next packet,   *)
(* and a stream that has ended may stand for the new one.                  *)
(***************************************************************************)
EXTENDS Integers, FiniteSets

CONSTANTS SKind,     \* "sudp" and "stcpsudp"
          Stream,    \* streams the visitor may open
          VCap,      \* capacity of sendCh
          NoStream

VARIABLES
  skind,     \* the kind of the proxy and its visitor
  vclosed,   \* checkCloseCh of the visitor, its socket and its channels
  disp,      \* the dispatcher of the visitor, and its stream
  vq,        \* packets in sendCh of the visitor
  vfwd,      \* ForwardUserConn of the visitor
  link,      \* the two ends of a stream that are still open
  side,      \* the goroutines of a stream that still run
  closeCh,   \* streams whose worker has closed its closeCh
  pclosed,   \* closeCh of the provider
  isClose    \* streams whose closeFn has run

sudpVars == <<skind, vclosed, disp, vq, vfwd, link, side, closeCh, pclosed, isClose>>
End == {"visitor", "provider"}
Routine == {"vreader", "vsender", "toVisitor", "toProxy", "preader", "psender", "heartbeat"}

SUDPTypeOK ==
  /\ skind \in SKind /\ vclosed \in BOOLEAN /\ pclosed \in BOOLEAN
  /\ disp \in [at : {"wait", "dial", "work", "over"}, on : Stream \cup {NoStream}]
  /\ vq \in 0 .. VCap /\ vfwd \in {"reading", "sending", "over", "panic"}
  /\ link \in [Stream -> SUBSET End] /\ side \in [Stream -> SUBSET Routine]
  /\ closeCh \subseteq Stream /\ isClose \subseteq Stream

SUDPInit ==
  /\ skind \in SKind /\ vclosed = FALSE /\ pclosed = FALSE
  /\ disp = [at |-> "wait", on |-> NoStream] /\ vq = 0 /\ vfwd = "reading"
  /\ link = [s \in Stream |-> {}] /\ side = [s \in Stream |-> {}]
  /\ closeCh = {} /\ isClose = {}
-----------------------------------------------------------------------------
(* The visitor: the forwarder of its socket and its dispatcher.            *)
VisitorReads ==
  /\ vfwd = "reading" /\ ~vclosed /\ vfwd' = "sending"
  /\ UNCHANGED <<skind, vclosed, disp, vq, link, side, closeCh, pclosed, isClose>>

VisitorOffers ==
  /\ vfwd = "sending"
  /\ vfwd' = IF vclosed THEN "panic" ELSE "reading"
  /\ vq' = IF vclosed \/ vq = VCap THEN vq ELSE vq + 1
  /\ UNCHANGED <<skind, vclosed, disp, link, side, closeCh, pclosed, isClose>>

VisitorForwardEnds ==
  /\ vfwd = "reading" /\ vclosed /\ vfwd' = "over"
  /\ UNCHANGED <<skind, vclosed, disp, vq, link, side, closeCh, pclosed, isClose>>

(* The first packet, or the closed channel; then the stream is dialled.    *)
FirstPacket ==
  /\ disp.at = "wait" /\ vq > 0
  /\ vq' = vq - 1 /\ disp' = [disp EXCEPT !.at = "dial"]
  /\ UNCHANGED <<skind, vclosed, vfwd, link, side, closeCh, pclosed, isClose>>

DialFails ==
  /\ disp.at = "dial" /\ disp' = [disp EXCEPT !.at = "wait"]
  /\ UNCHANGED <<skind, vclosed, vq, vfwd, link, side, closeCh, pclosed, isClose>>

(* getNewVisitorConn succeeds: frps has found the proxy and has joined the *)
(* stream with a work connection, on which the provider serves.            *)
StartStream(s) ==
  /\ disp.at = "dial" /\ link[s] = {} /\ side[s] = {}
  /\ link' = [link EXCEPT ![s] = End]
  /\ side' = [side EXCEPT ![s] = Routine]
  /\ disp' = [at |-> "work", on |-> s]
  /\ closeCh' = closeCh \ {s} /\ isClose' = isClose \ {s}
  /\ UNCHANGED <<skind, vclosed, vq, vfwd, pclosed>>
SUDPDial(s) == skind = "sudp" /\ StartStream(s)
(* The visitor writes the tag of a UDP stream and the provider reads it.   *)
STCPSUDPDial(s) == skind = "stcpsudp" /\ StartStream(s)

WorkerDone ==
  /\ disp.at = "work" /\ side[disp.on] \cap {"vreader", "vsender"} = {}
  /\ disp' = [at |-> IF vclosed THEN "over" ELSE "wait", on |-> NoStream]
  /\ UNCHANGED <<skind, vclosed, vq, vfwd, link, side, closeCh, pclosed, isClose>>

DispatcherEnds ==
  /\ disp.at = "wait" /\ vclosed
  /\ disp' = [disp EXCEPT !.at = "over"]
  /\ UNCHANGED <<skind, vclosed, vq, vfwd, link, side, closeCh, pclosed, isClose>>

Dispatch == FirstPacket \/ DialFails \/ WorkerDone \/ DispatcherEnds
SUDPDispatcher == skind = "sudp" /\ Dispatch
STCPSUDPDispatcher == skind = "stcpsudp" /\ Dispatch

(* A goroutine of stream s ends and leaves the ends in l open.             *)
Ends(s, r, l) ==
  /\ r \in side[s]
  /\ side' = [side EXCEPT ![s] = @ \ {r}] /\ link' = [link EXCEPT ![s] = l]
  /\ UNCHANGED <<skind, vclosed, disp, vfwd, pclosed>>

(* worker: the reader closes closeCh, the sender waits on it.              *)
LeavesOpen(s) == closeCh
ClosesWorker(s) == closeCh \cup {s}
WorkerReaderEnds(s) ==
  /\ "visitor" \notin link[s]
  /\ Ends(s, "vreader", link[s] \ {"visitor"})
  /\ closeCh' = ClosesWorker(s) /\ UNCHANGED <<vq, isClose>>
OnlyCloseCh(s) == s \in closeCh
SenderMustEnd(s) == s \in closeCh \/ (vclosed /\ vq = 0)
WorkerSenderEnds(s) ==
  /\ SenderMustEnd(s)
  /\ Ends(s, "vsender", link[s] \ {"visitor"})
  /\ UNCHANGED <<vq, closeCh, isClose>>
WorkerSends(s) ==
  /\ "vsender" \in side[s] /\ vq > 0 /\ vq' = vq - 1
  /\ IF "visitor" \in link[s] THEN UNCHANGED side ELSE side' = [side EXCEPT ![s] = @ \ {"vsender"}]
  /\ UNCHANGED <<skind, vclosed, disp, vfwd, link, closeCh, pclosed, isClose>>
Work(s) == WorkerReaderEnds(s) \/ WorkerSenderEnds(s) \/ WorkerSends(s)
SUDPWorker(s) == skind = "sudp" /\ Work(s)
STCPSUDPWorker(s) == skind = "stcpsudp" /\ Work(s)

(* A packet of the provider after Close: the send to readCh panics.        *)
LatePacket(s) ==
  /\ vclosed /\ link[s] = End
  /\ Ends(s, "vreader", link[s] \ {"visitor"})
  /\ closeCh' = ClosesWorker(s) /\ UNCHANGED <<vq, isClose>>

VisitorClose ==
  /\ ~vclosed /\ vclosed' = TRUE
  /\ UNCHANGED <<skind, disp, vq, vfwd, link, side, closeCh, pclosed, isClose>>
SUDPVisitorClose == skind = "sudp" /\ VisitorClose
STCPSUDPVisitorClose == skind = "stcpsudp" /\ VisitorClose
-----------------------------------------------------------------------------
(* The bridge of frps, or its Join of the two connections: the direction   *)
(* that ends first closes both.                                            *)
CloseOne(s) == link[s]
CloseBoth(s) == {}
BridgeToVisitor(s) ==
  /\ link[s] # End /\ Ends(s, "toVisitor", CloseBoth(s)) /\ UNCHANGED <<vq, closeCh, isClose>>
BridgeToProxy(s) ==
  /\ link[s] # End /\ Ends(s, "toProxy", CloseBoth(s)) /\ UNCHANGED <<vq, closeCh, isClose>>
-----------------------------------------------------------------------------
(* The provider: whichever goroutine ends runs closeFn, which closes the   *)
(* connection and both channels.                                           *)
CloseFn(s, r) ==
  /\ Ends(s, r, link[s] \ {"provider"})
  /\ isClose' = isClose \cup {s} /\ UNCHANGED <<vq, closeCh>>
JustEnds(s, r) == Ends(s, r, link[s]) /\ UNCHANGED <<vq, closeCh, isClose>>
HeartbeatFn(s, r) == CloseFn(s, r)

ProviderReaderEnds(s) == "provider" \notin link[s] /\ CloseFn(s, "preader")
ProviderSenderEnds(s) == s \in isClose /\ CloseFn(s, "psender")
HeartbeatEnds(s) == (s \in isClose \/ pclosed) /\ HeartbeatFn(s, "heartbeat")
Provide(s) == ProviderReaderEnds(s) \/ ProviderSenderEnds(s) \/ HeartbeatEnds(s)
SUDPProvider(s) == skind = "sudp" /\ Provide(s)
STCPSUDPProvider(s) == skind = "stcpsudp" /\ Provide(s)

(* A packet after Close lets the reader see it; one to a connection that   *)
(* is gone fails the sender.                                               *)
ProviderPacket(s) ==
  \/ pclosed /\ link[s] = End /\ CloseFn(s, "preader")
  \/ "provider" \notin link[s] /\ CloseFn(s, "psender")

ProviderClose ==
  /\ ~pclosed /\ pclosed' = TRUE
  /\ UNCHANGED <<skind, vclosed, disp, vq, vfwd, link, side, closeCh, isClose>>
SUDPProxyClose == skind = "sudp" /\ ProviderClose
STCPSUDPProxyClose == skind = "stcpsudp" /\ ProviderClose

(* The network ends a stream on one side.                                  *)
StreamBreaks(s, e) ==
  /\ e \in link[s] /\ link' = [link EXCEPT ![s] = @ \ {e}]
  /\ UNCHANGED <<skind, vclosed, disp, vq, vfwd, side, closeCh, pclosed, isClose>>

SUp == vfwd # "panic"
Routines(s) == SUDPWorker(s) \/ STCPSUDPWorker(s) \/ SUDPProvider(s) \/ STCPSUDPProvider(s)
VisitorForward == VisitorOffers \/ VisitorForwardEnds
SUDPNext ==
  /\ SUp
  /\ \/ VisitorReads \/ VisitorForward \/ SUDPDispatcher \/ STCPSUDPDispatcher
     \/ SUDPVisitorClose \/ STCPSUDPVisitorClose \/ SUDPProxyClose \/ STCPSUDPProxyClose
     \/ \E s \in Stream : \/ SUDPDial(s) \/ STCPSUDPDial(s) \/ Routines(s)
                           \/ LatePacket(s) \/ BridgeToVisitor(s) \/ BridgeToProxy(s)
                           \/ ProviderPacket(s) \/ \E e \in End : StreamBreaks(s, e)

(* Every goroutine that can go on does; packets and failures need not come.*)
SUDPFairness ==
  /\ WF_sudpVars(SUp /\ VisitorForward)
  /\ WF_sudpVars(SUp /\ (SUDPDispatcher \/ STCPSUDPDispatcher))
  /\ \A s \in Stream :
       /\ WF_sudpVars(SUp /\ WorkerReaderEnds(s)) /\ WF_sudpVars(SUp /\ WorkerSenderEnds(s))
       /\ WF_sudpVars(SUp /\ WorkerSends(s))
       /\ WF_sudpVars(SUp /\ BridgeToVisitor(s)) /\ WF_sudpVars(SUp /\ BridgeToProxy(s))
       /\ WF_sudpVars(SUp /\ ProviderReaderEnds(s)) /\ WF_sudpVars(SUp /\ ProviderSenderEnds(s))
       /\ WF_sudpVars(SUp /\ HeartbeatEnds(s))

SUDPSpec == SUDPInit /\ [][SUDPNext]_sudpVars /\ SUDPFairness
-----------------------------------------------------------------------------
(* A stream that has lost an end is torn down on all three machines, so    *)
(* the dispatcher is free to dial for the next packet.                     *)
BrokenStreamEnds ==
  \A s \in Stream :
    []<>(~SUp \/ link[s] = End \/ (side[s] = {} /\ link[s] = {}))

(* Close of the proxy ends every stream, through the heartbeat goroutine.  *)
ProviderCloseEnds ==
  \A s \in Stream : []<>(pclosed => ~SUp \/ side[s] = {})

(* Close of the visitor ends its dispatcher, wherever it waits.            *)
VisitorCloseEnds == []<>(vclosed => ~SUp \/ disp.at = "over")
=============================================================================

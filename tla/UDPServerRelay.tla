--------------------------- MODULE UDPServerRelay ---------------------------
(***************************************************************************)
(* The UDP side of a udp or a tcp+udp proxy on frps: server/proxy/udp.go,  *)
(* server/proxy/tcpudp.go and ForwardUserConn of pkg/proto/udp/udp.go.     *)
(*                                                                         *)
(* One goroutine keeps a work connection, one forwards the datagrams of    *)
(* the users to sendCh, and each work connection has a reader and a sender.*)
(* A closed channel wakes its receivers and makes a send panic.            *)
(***************************************************************************)
EXTENDS Integers, FiniteSets

CONSTANTS RelayKind,   \* "udp" and "tcpudp"
          SWork,       \* work connections the control may hand out
          SAddr,       \* source addresses of users
          SendCap,     \* capacity of sendCh
          NoWork

ASSUME RelayAssumption == SendCap \in Nat \ {0} /\ NoWork \notin SWork

VARIABLES
  rkind,       \* the kind of the proxy
  isClosed,    \* isClosed, and with it every channel and the socket
  keeper,      \* the goroutine that keeps a work connection, and what it got
  workConn,    \* pxy.workConn
  wlink,       \* a work connection: "unused", "live" or "dead"
  rdr,         \* the reader of a work connection
  snd,         \* the sender of a work connection
  ctxDone,     \* work connections whose context is cancelled
  sendQ,       \* packets in sendCh
  fwd,         \* ForwardUserConn
  sessions,    \* its sessions
  opened       \* OnOpen calls less OnClose calls, by address

relayVars == <<rkind, isClosed, keeper, workConn, wlink, rdr, snd, ctxDone, sendQ, fwd, sessions, opened>>

RelayTypeOK ==
  /\ rkind \in RelayKind /\ isClosed \in BOOLEAN
  /\ keeper \in [at : {"get", "swap", "wait", "over"}, got : SWork \cup {NoWork}]
  /\ workConn \in SWork \cup {NoWork}
  /\ wlink \in [SWork -> {"unused", "live", "dead"}]
  /\ rdr \in [SWork -> {"none", "reading", "notify", "over"}]
  /\ snd \in [SWork -> {"none", "sending", "over"}]
  /\ ctxDone \subseteq SWork /\ sendQ \in 0 .. SendCap
  /\ fwd \in {"reading", "sending", "over", "closed", "panic"}
  /\ sessions \subseteq SAddr /\ opened \in [SAddr -> Int]

(* Run has opened the socket, made the channels and started the goroutines.*)
RelayInit ==
  /\ rkind \in RelayKind /\ isClosed = FALSE
  /\ keeper = [at |-> "get", got |-> NoWork] /\ workConn = NoWork
  /\ wlink = [w \in SWork |-> "unused"]
  /\ rdr = [w \in SWork |-> "none"] /\ snd = [w \in SWork |-> "none"]
  /\ ctxDone = {} /\ sendQ = 0
  /\ fwd = "reading" /\ sessions = {} /\ opened = [a \in SAddr |-> 0]

(* A panic outside PanicToError ends frps.                                 *)
Up == fwd # "panic"
Cut(l, w) == IF w = NoWork THEN l ELSE [l EXCEPT ![w] = "dead"]
-----------------------------------------------------------------------------
(* The goroutine that keeps a work connection.                             *)
GetWorkConn(w) ==
  /\ Up /\ keeper.at = "get" /\ wlink[w] = "unused"
  /\ keeper' = [at |-> "swap", got |-> w]
  /\ wlink' = [wlink EXCEPT ![w] = "live"]
  /\ UNCHANGED <<rkind, isClosed, workConn, rdr, snd, ctxDone, sendQ, fwd, sessions, opened>>

(* No work connection: retry, unless checkCloseCh is closed.  A token of a *)
(* reader would be taken as well, but no reader runs then.                 *)
NeverSeesClose == FALSE
SeesClose == isClosed
GetFails ==
  /\ Up /\ keeper.at = "get" /\ SeesClose
  /\ keeper' = [keeper EXCEPT !.at = "over"]
  /\ UNCHANGED <<rkind, isClosed, workConn, wlink, rdr, snd, ctxDone, sendQ, fwd, sessions, opened>>

UseWorkConn ==
  LET w == keeper.got
  IN  /\ Up /\ keeper.at = "swap"
      /\ wlink' = Cut(wlink, workConn)
      /\ workConn' = w
      /\ rdr' = [rdr EXCEPT ![w] = "reading"] /\ snd' = [snd EXCEPT ![w] = "sending"]
      /\ keeper' = [keeper EXCEPT !.at = "wait"]
      /\ UNCHANGED <<rkind, isClosed, ctxDone, sendQ, fwd, sessions, opened>>

(* The encryption stream cannot be made: the connection is given up.       *)
LeaveOpen(l, w) == l
GiveUp(l, w) == Cut(l, w)
WrapFails ==
  /\ Up /\ keeper.at = "swap"
  /\ wlink' = GiveUp(Cut(wlink, workConn), keeper.got)
  /\ keeper' = [at |-> "get", got |-> NoWork]
  /\ UNCHANGED <<rkind, isClosed, workConn, rdr, snd, ctxDone, sendQ, fwd, sessions, opened>>

WakeByClose ==
  /\ Up /\ keeper.at = "wait" /\ isClosed
  /\ ctxDone' = ctxDone \cup {keeper.got}
  /\ keeper' = [at |-> "over", got |-> NoWork]
  /\ UNCHANGED <<rkind, isClosed, workConn, wlink, rdr, snd, sendQ, fwd, sessions, opened>>

(* The rendezvous on checkCloseCh of the reader of w and the keeper.       *)
WakeByReader(w) ==
  /\ Up /\ keeper.at = "wait" /\ ~isClosed /\ rdr[w] = "notify"
  /\ rdr' = [rdr EXCEPT ![w] = "over"]
  /\ ctxDone' = ctxDone \cup {keeper.got}
  /\ keeper' = [at |-> "get", got |-> NoWork]
  /\ UNCHANGED <<rkind, isClosed, workConn, wlink, snd, sendQ, fwd, sessions, opened>>
-----------------------------------------------------------------------------
(* workConnReaderFn: a read fails on a dead connection, and on a live one  *)
(* that is silent past the deadline.                                       *)
EndQuietly == "over"
AfterReadError == IF isClosed THEN "over" ELSE "notify"
ReadFails(w) ==
  /\ rdr[w] = "reading"
  /\ wlink' = [wlink EXCEPT ![w] = "dead"]
  /\ rdr' = [rdr EXCEPT ![w] = AfterReadError]
  /\ UNCHANGED <<rkind, isClosed, keeper, workConn, snd, ctxDone, sendQ, fwd, sessions, opened>>

(* A packet of the client after Close: the send to readCh panics.          *)
ReadPacket(w) ==
  /\ rdr[w] = "reading" /\ wlink[w] = "live" /\ isClosed
  /\ wlink' = [wlink EXCEPT ![w] = "dead"]
  /\ rdr' = [rdr EXCEPT ![w] = "over"]
  /\ UNCHANGED <<rkind, isClosed, keeper, workConn, snd, ctxDone, sendQ, fwd, sessions, opened>>

(* A reader that waits on checkCloseCh when it is closed.                  *)
NotifyPanics(w) ==
  /\ rdr[w] = "notify" /\ isClosed
  /\ rdr' = [rdr EXCEPT ![w] = "over"]
  /\ UNCHANGED <<rkind, isClosed, keeper, workConn, wlink, snd, ctxDone, sendQ, fwd, sessions, opened>>

UDPReader(w) == Up /\ rkind = "udp" /\ (ReadFails(w) \/ ReadPacket(w) \/ NotifyPanics(w))
TCPUDPReader(w) == Up /\ rkind = "tcpudp" /\ (ReadFails(w) \/ ReadPacket(w) \/ NotifyPanics(w))

(* workConnSenderFn: the next packet, the closed channel or the context.   *)
SendPacket(w) ==
  /\ snd[w] = "sending" /\ sendQ > 0
  /\ sendQ' = sendQ - 1
  /\ IF wlink[w] = "live" THEN UNCHANGED snd ELSE snd' = [snd EXCEPT ![w] = "over"]
  /\ UNCHANGED <<rkind, isClosed, keeper, workConn, wlink, rdr, ctxDone, fwd, sessions, opened>>

SendEnds(w) ==
  /\ snd[w] = "sending" /\ (w \in ctxDone \/ (isClosed /\ sendQ = 0))
  /\ snd' = [snd EXCEPT ![w] = "over"]
  /\ UNCHANGED <<rkind, isClosed, keeper, workConn, wlink, rdr, ctxDone, sendQ, fwd, sessions, opened>>

UDPSender(w) == Up /\ rkind = "udp" /\ (SendPacket(w) \/ SendEnds(w))
TCPUDPSender(w) == Up /\ rkind = "tcpudp" /\ (SendPacket(w) \/ SendEnds(w))

(* The client or the network ends a work connection.                       *)
PeerEnds(w) ==
  /\ Up /\ wlink[w] = "live"
  /\ wlink' = [wlink EXCEPT ![w] = "dead"]
  /\ UNCHANGED <<rkind, isClosed, keeper, workConn, rdr, snd, ctxDone, sendQ, fwd, sessions, opened>>
-----------------------------------------------------------------------------
(* ForwardUserConn: a datagram from a, counted, then offered to sendCh.    *)
ReadFromUDP(a) ==
  /\ fwd = "reading" /\ ~isClosed
  /\ fwd' = "sending"
  /\ opened' = IF a \in sessions THEN opened ELSE [opened EXCEPT ![a] = @ + 1]
  /\ sessions' = sessions \cup {a}
  /\ UNCHANGED <<rkind, isClosed, keeper, workConn, wlink, rdr, snd, ctxDone, sendQ>>

Unbounded(q) == q + 1
Queued(q) == IF q = SendCap THEN q ELSE q + 1
OfferPacket ==
  /\ fwd = "sending"
  /\ fwd' = IF isClosed THEN "panic" ELSE "reading"
  /\ sendQ' = IF isClosed THEN sendQ ELSE Queued(sendQ)
  /\ UNCHANGED <<rkind, isClosed, keeper, workConn, wlink, rdr, snd, ctxDone, sessions, opened>>

(* The deferred release of the sessions, once the socket is closed.        *)
ForwardEnds ==
  /\ fwd = "reading" /\ isClosed
  /\ fwd' = "over"
  /\ opened' = [a \in SAddr |-> IF a \in sessions THEN opened[a] - 1 ELSE opened[a]]
  /\ sessions' = {}
  /\ UNCHANGED <<rkind, isClosed, keeper, workConn, wlink, rdr, snd, ctxDone, sendQ>>

ForgetSession(a) == [sessions |-> sessions \ {a}, opened |-> opened]
ExpireSession(a) == [sessions |-> sessions \ {a}, opened |-> [opened EXCEPT ![a] = @ - 1]]
Janitor(a) ==
  /\ Up /\ fwd # "closed" /\ a \in sessions
  /\ sessions' = ExpireSession(a).sessions /\ opened' = ExpireSession(a).opened
  /\ UNCHANGED <<rkind, isClosed, keeper, workConn, wlink, rdr, snd, ctxDone, sendQ, fwd>>
-----------------------------------------------------------------------------
(* Close, by the control or at the end of ForwardUserConn; the ports are   *)
(* released in ProxyRegistration.                                          *)
CloseRelay ==
  /\ isClosed' = TRUE
  /\ wlink' = IF isClosed THEN wlink ELSE Cut(wlink, workConn)
  /\ \/ ~isClosed /\ UNCHANGED fwd
     \/ fwd = "over" /\ fwd' = "closed"
  /\ UNCHANGED <<rkind, keeper, workConn, rdr, snd, ctxDone, sendQ, sessions, opened>>

UDPClose == Up /\ rkind = "udp" /\ CloseRelay
TCPUDPClose == Up /\ rkind = "tcpudp" /\ CloseRelay

KeepOn == GetFails \/ UseWorkConn \/ WrapFails \/ WakeByClose \/ \E w \in SWork : WakeByReader(w)
Keep == KeepOn \/ \E w \in SWork : GetWorkConn(w)
UDPKeeper == rkind = "udp" /\ Keep
TCPUDPKeeper == rkind = "tcpudp" /\ Keep
ForwardUserConn == OfferPacket \/ ForwardEnds \/ \E a \in SAddr : ReadFromUDP(a) \/ Janitor(a)
UDPForward == rkind = "udp" /\ ForwardUserConn
TCPUDPForward == rkind = "tcpudp" /\ ForwardUserConn

RelayNext ==
  \/ UDPKeeper \/ TCPUDPKeeper \/ UDPForward \/ TCPUDPForward \/ UDPClose \/ TCPUDPClose
  \/ \E w \in SWork : UDPReader(w) \/ TCPUDPReader(w) \/ UDPSender(w) \/ TCPUDPSender(w) \/ PeerEnds(w)

(* The goroutines are scheduled; users, clients and controls need not act. *)
RelayFairness ==
  /\ WF_relayVars(KeepOn) /\ WF_relayVars(OfferPacket \/ ForwardEnds)
  /\ \A w \in SWork :
       /\ WF_relayVars(UDPReader(w) \/ TCPUDPReader(w))
       /\ WF_relayVars(UDPSender(w) \/ TCPUDPSender(w))

RelaySpec == RelayInit /\ [][RelayNext]_relayVars /\ RelayFairness
-----------------------------------------------------------------------------
(* "OnOpen fires when a new source first sends a packet; OnClose fires     *)
(* when that source has been idle or when forwarding stops": each session  *)
(* is counted once, and none is left counted once forwarding has ended.    *)
SessionsCounted ==
  /\ \A a \in SAddr : opened[a] = IF a \in sessions THEN 1 ELSE 0
  /\ fwd \in {"over", "closed"} => sessions = {}

(* "there are always only one workConn at the same time": while the proxy  *)
(* is open, every work connection with a reader but the current one is     *)
(* closed, so a packet takes one way.                                      *)
OneWorkConn ==
  ~isClosed => \A w \in SWork : wlink[w] = "live" => w \in {workConn, keeper.got}

(* "read message from workConn, if it returns any error, notify proxy to   *)
(* start a new workConn": the keeper asks for a new one.                   *)
DeadReplaced ==
  \A w \in SWork :
    []<>(keeper.at = "wait" /\ wlink[w] = "dead" => keeper.got # w \/ ~Up)

(* After Close the keeper and the sender of every work connection end.     *)
CloseEnds ==
  []<>(isClosed => ~Up \/ (keeper.at = "over" /\ \A w \in SWork : snd[w] # "sending"))

(* "Close readCh and sendCh at the end", after ForwardUserConn: no send to *)
(* a closed sendCh.                                                        *)
NoSendAfterClose == fwd # "panic"
=============================================================================

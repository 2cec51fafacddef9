--------------------------- MODULE UDPClientRelay ---------------------------
(***************************************************************************)
(* The work connections of a udp, tcp+udp or pe proxy on frpc:             *)
(* client/proxy/udp.go, tcpudp.go and pe.go.  A new work connection closes *)
(* the channels of the old one, outside the lock under which it installs   *)
(* its own, so handlers of two work connections and a Close of the proxy   *)
(* interleave.  The second part is the Forwarder of pkg/proto/udp/udp.go   *)
(* that each of them starts.  With UDPServerRelay, the other end of the    *)
(* work connections, it makes the way of a datagram.                       *)
(***************************************************************************)
EXTENDS UDPServerRelay

CONSTANTS CKind,    \* "udp", "tcpudp" and "pe"
          CWork,    \* work connections
          NoCWork

VARIABLES
  ckind,      \* the kind of the proxy
  cworkConn,  \* pxy.workConn, and with it pxy.readCh and pxy.sendCh
  cclosed,    \* pxy.closed
  handler,    \* InWorkConn of a work connection
  chans,      \* the channels made for a work connection
  clink,      \* the work connection: "live" or "dead"
  tasks,      \* the goroutines started for a work connection that still run
  uses,       \* the work connection whose channels they were given
  router      \* the Bedrock router of a pe proxy

cliVars == <<ckind, cworkConn, cclosed, handler, chans, clink, tasks, uses, router>>
Task == {"sender", "reader", "heartbeat", "forwarder"}

CliTypeOK ==
  /\ ckind \in CKind /\ cworkConn \in CWork \cup {NoCWork} /\ cclosed \in BOOLEAN
  /\ handler \in [CWork -> {"none", "wrap", "start", "over"}]
  /\ chans \in [CWork -> {"none", "open", "closed", "closed twice"}]
  /\ clink \in [CWork -> {"live", "dead"}]
  /\ tasks \in [CWork -> SUBSET Task] /\ uses \in [CWork -> CWork \cup {NoCWork}]
  /\ router \in {"none", "open", "closed"}

(* Run: only a pe proxy starts something, its router.                      *)
PERun(k) == IF k = "pe" THEN "open" ELSE "none"
CliInit ==
  /\ ckind \in CKind /\ cworkConn = NoCWork /\ cclosed = FALSE
  /\ handler = [w \in CWork |-> "none"] /\ chans = [w \in CWork |-> "none"]
  /\ clink = [w \in CWork |-> "live"]
  /\ tasks = [w \in CWork |-> {}] /\ uses = [w \in CWork |-> NoCWork]
  /\ router = PERun(ckind)
-----------------------------------------------------------------------------
(* Close of the work connection: the connection, readCh and sendCh.        *)
CloseAlways == TRUE
MayClose == ~cclosed
CloseWorkConn ==
  /\ cclosed' = TRUE
  /\ \/ MayClose /\ cworkConn # NoCWork
        /\ clink' = [clink EXCEPT ![cworkConn] = "dead"]
        /\ chans' = [chans EXCEPT ![cworkConn] = IF @ = "open" THEN "closed" ELSE "closed twice"]
     \/ (~MayClose \/ cworkConn = NoCWork) /\ UNCHANGED <<clink, chans>>

UDPInWorkConn(w) == ckind = "udp" /\ CloseWorkConn
TCPUDPInWorkConn(w) == ckind = "tcpudp" /\ CloseWorkConn
PEInWorkConn(w) == ckind = "pe" /\ CloseWorkConn
InWorkConnArrives(w) ==
  /\ handler[w] = "none"
  /\ UDPInWorkConn(w) \/ TCPUDPInWorkConn(w) \/ PEInWorkConn(w)
  /\ handler' = [handler EXCEPT ![w] = "wrap"]
  /\ UNCHANGED <<ckind, cworkConn, tasks, uses, router>>

(* wrapWorkConn fails: the handler returns.                                *)
WrapWorkConnFails(w) ==
  /\ handler[w] = "wrap"
  /\ handler' = [handler EXCEPT ![w] = "over"]
  /\ UNCHANGED <<ckind, cworkConn, cclosed, chans, clink, tasks, uses, router>>

Install(w) ==
  /\ handler[w] = "wrap"
  /\ handler' = [handler EXCEPT ![w] = "start"]
  /\ cworkConn' = w /\ cclosed' = FALSE
  /\ chans' = [chans EXCEPT ![w] = "open"]
  /\ UNCHANGED <<ckind, clink, tasks, uses, router>>

(* The goroutines get the channels pxy holds now.                          *)
StartTasks(w) ==
  /\ handler[w] = "start"
  /\ handler' = [handler EXCEPT ![w] = "over"]
  /\ tasks' = [tasks EXCEPT ![w] = Task]
  /\ uses' = [uses EXCEPT ![w] = cworkConn]
  /\ UNCHANGED <<ckind, cworkConn, cclosed, chans, clink, router>>

(* A goroutine ends: the reader with its connection, the sender when a     *)
(* write fails, all of them on the closed channel.                         *)
StaysOnClose(w, t) == t = "reader" /\ clink[w] = "dead"
TaskMayEnd(w, t) ==
  \/ chans[uses[w]] # "open"
  \/ t \in {"reader", "sender"} /\ clink[w] = "dead"
TaskEnds(w, t) ==
  /\ t \in tasks[w] /\ TaskMayEnd(w, t)
  /\ tasks' = [tasks EXCEPT ![w] = @ \ {t}]
  /\ UNCHANGED <<ckind, cworkConn, cclosed, handler, chans, clink, uses, router>>

PeerCuts(w) ==
  /\ handler[w] # "none" /\ clink[w] = "live"
  /\ clink' = [clink EXCEPT ![w] = "dead"]
  /\ UNCHANGED <<ckind, cworkConn, cclosed, handler, chans, tasks, uses, router>>

(* Close of the proxy.                                                     *)
UDPProxyClose == ckind = "udp" /\ CloseWorkConn /\ UNCHANGED router
TCPUDPProxyClose == ckind = "tcpudp" /\ CloseWorkConn /\ UNCHANGED router
PEProxyClose == ckind = "pe" /\ CloseWorkConn /\ router' = "closed"
CloseProxyRelay ==
  /\ UDPProxyClose \/ TCPUDPProxyClose \/ PEProxyClose
  /\ UNCHANGED <<ckind, cworkConn, handler, tasks, uses>>

CliNext ==
  \/ \E w \in CWork : InWorkConnArrives(w) \/ WrapWorkConnFails(w) \/ Install(w)
                      \/ StartTasks(w) \/ PeerCuts(w) \/ \E t \in Task : TaskEnds(w, t)
  \/ CloseProxyRelay

(* A goroutine notices a closed channel at its next packet or heartbeat.   *)
CliFairness == \A w \in CWork, t \in Task : WF_cliVars(TaskEnds(w, t))
CliSpec == CliInit /\ [][CliNext]_cliVars /\ CliFairness
-----------------------------------------------------------------------------
(* However the handlers and Close interleave, no channel is closed twice,  *)
(* which would end frpc.                                                   *)
ClosedOnce == \A w \in CWork : chans[w] # "closed twice"

(* Once the channels of a work connection are closed, all the goroutines   *)
(* that were given them end.                                               *)
TasksEnd ==
  \A w \in CWork : []<>(chans[w] = "closed" /\ uses[w] = w => tasks[w] = {})
-----------------------------------------------------------------------------
(***************************************************************************)
(* Forwarder, on the side of the local UDP service: one socket for each    *)
(* user address, with a writer that sends the replies back and forgets the *)
(* address after 30 silent seconds.                                        *)
(***************************************************************************)
CONSTANTS FAddr,    \* addresses of users
          FSock,    \* sockets that may be dialled
          NoSock

VARIABLES
  fopen,        \* readCh and sendCh are open
  udpConnMap,   \* udpConnMap
  sock,         \* a socket: "new", "open" or "closed"
  writer,       \* the writerFn of a socket, and the address it serves
  loop          \* the goroutine that reads readCh, and the packet it handles

fwdVars == <<fopen, udpConnMap, sock, writer, loop>>
Idle == [at |-> "recv", addr |-> NoSock, sock |-> NoSock, fresh |-> FALSE]

FwdTypeOK ==
  /\ fopen \in BOOLEAN
  /\ udpConnMap \in [FAddr -> FSock \cup {NoSock}]
  /\ sock \in [FSock -> {"new", "open", "closed"}]
  /\ writer \in [FSock -> [at : {"none", "reading", "expired", "deleted", "over"},
                           addr : FAddr \cup {NoSock}]]
  /\ loop \in [at : {"recv", "write", "over"}, addr : FAddr \cup {NoSock},
               sock : FSock \cup {NoSock}, fresh : BOOLEAN]

FwdInit ==
  /\ fopen = TRUE
  /\ udpConnMap = [a \in FAddr |-> NoSock]
  /\ sock = [s \in FSock |-> "new"]
  /\ writer = [s \in FSock |-> [at |-> "none", addr |-> NoSock]]
  /\ loop = Idle

(* A packet of a: the socket is looked up, or dialled and entered.         *)
FindSocket(a) ==
  /\ loop.at = "recv" /\ udpConnMap[a] # NoSock
  /\ loop' = [at |-> "write", addr |-> a, sock |-> udpConnMap[a], fresh |-> FALSE]
  /\ UNCHANGED <<fopen, udpConnMap, sock, writer>>

DialSocket(a, s) ==
  /\ loop.at = "recv" /\ udpConnMap[a] = NoSock /\ sock[s] = "new"
  /\ sock' = [sock EXCEPT ![s] = "open"]
  /\ udpConnMap' = [udpConnMap EXCEPT ![a] = s]
  /\ loop' = [at |-> "write", addr |-> a, sock |-> s, fresh |-> TRUE]
  /\ UNCHANGED <<fopen, writer>>

(* The packet is written, or the write fails and the socket is closed; a   *)
(* new socket gets its writer in both cases.                               *)
OnlyIfWritten(ok) == loop.fresh /\ ok
NeedsWriter(ok) == loop.fresh
WriteLocal(ok) ==
  LET s == loop.sock
  IN  /\ loop.at = "write" /\ (sock[s] = "closed" => ~ok)
      /\ sock' = IF ok THEN sock ELSE [sock EXCEPT ![s] = "closed"]
      /\ writer' = IF NeedsWriter(ok)
                   THEN [writer EXCEPT ![s] = [at |-> "reading", addr |-> loop.addr]] ELSE writer
      /\ loop' = Idle
      /\ UNCHANGED <<fopen, udpConnMap>>

FwdLoopEnds ==
  /\ loop.at = "recv" /\ ~fopen
  /\ loop' = [loop EXCEPT !.at = "over"]
  /\ UNCHANGED <<fopen, udpConnMap, sock, writer>>

(* writerFn: the deadline passes, the socket is closed under it, or a      *)
(* reply meets the closed sendCh.                                          *)
WithoutDeadline(s) == sock[s] = "closed"
ReadMayEnd(s) == sock[s] \in {"open", "closed"}
WriterStops(s) ==
  /\ writer[s].at = "reading" /\ ReadMayEnd(s)
  /\ writer' = [writer EXCEPT ![s].at = "expired"]
  /\ UNCHANGED <<fopen, udpConnMap, sock, loop>>

DeleteEntry(s) ==
  /\ writer[s].at = "expired"
  /\ writer' = [writer EXCEPT ![s].at = "deleted"]
  /\ udpConnMap' = [udpConnMap EXCEPT ![writer[s].addr] = NoSock]
  /\ UNCHANGED <<fopen, sock, loop>>

CloseSocket(s) ==
  /\ writer[s].at = "deleted"
  /\ writer' = [writer EXCEPT ![s].at = "over"]
  /\ sock' = [sock EXCEPT ![s] = "closed"]
  /\ UNCHANGED <<fopen, udpConnMap, loop>>

(* The proxy closes the channels.                                          *)
CloseChannels == fopen /\ fopen' = FALSE /\ UNCHANGED <<udpConnMap, sock, writer, loop>>

Writer(s) == WriterStops(s) \/ DeleteEntry(s) \/ CloseSocket(s)
LoopStep == FwdLoopEnds \/ \E ok \in BOOLEAN : WriteLocal(ok)

FwdNext ==
  \/ \E a \in FAddr : FindSocket(a) \/ \E s \in FSock : DialSocket(a, s)
  \/ LoopStep \/ CloseChannels
  \/ \E s \in FSock : Writer(s)

(* The goroutines run on, and a silent socket meets its deadline.          *)
FwdFairness == SF_fwdVars(LoopStep) /\ \A s \in FSock : WF_fwdVars(Writer(s))

FwdSpec == FwdInit /\ [][FwdNext]_fwdVars /\ FwdFairness
-----------------------------------------------------------------------------
(* An entry of udpConnMap has a writer that will remove it, so an address  *)
(* is never stuck with a dead socket, and no socket serves two addresses.  *)
EntryHasWriter ==
  \A a \in FAddr :
    udpConnMap[a] # NoSock =>
      \/ writer[udpConnMap[a]] \in [at : {"reading", "expired"}, addr : {a}]
      \/ loop.fresh /\ loop.sock = udpConnMap[a] /\ loop.addr = a

(* Once the proxy has closed its channels, every socket is closed.         *)
SocketsReleased ==
  []<>(fopen \/ (loop.at = "over" /\ \A s \in FSock : sock[s] # "open"))
-----------------------------------------------------------------------------
(* On the way of a datagram, a udp proxy has one work connection and       *)
(* counts its sessions, frpc has one socket with a writer for each user,   *)
(* and no channel is closed twice (UDPProxy, Forwarder and InWorkConn).    *)
DatagramsSafe ==
  SessionsCounted /\ OneWorkConn /\ EntryHasWriter /\ ClosedOnce
=============================================================================

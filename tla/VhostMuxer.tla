----------------------------- MODULE VhostMuxer -----------------------------
(***************************************************************************)
(* A muxer (pkg/util/vhost/vhost.go) with its https (vhost/https.go) and   *)
(* tcpmux (pkg/util/tcpmux/httpconnect.go) forms, and the proxies that     *)
(* listen on it (server/proxy/https.go, tcpmux.go).  A goroutine for each  *)
(* user connection reads the host name, looks the listener up and sends    *)
(* the connection on the listener's unbuffered channel.                    *)
(***************************************************************************)
EXTENDS VhostRouter

CONSTANTS MuxProxy,  \* proxies
          MuxConfs,  \* kind of the muxer, and the domains of the proxies
          MuxConn,   \* user connections
          MuxHost    \* the hosts users ask for

VARIABLES
  muxConf,   \* the configuration
  muxTable,  \* registryRouter
  muxPxy,    \* the progress of a proxy's Run and Close
  muxLoop,   \* the listeners, proxy and index, whose accept loop runs
  muxConn    \* the progress of a connection

muxVars == <<muxConf, muxTable, muxPxy, muxLoop, muxConn>>

MuxListener == {<<p, i>> : p \in MuxProxy, i \in 1..3}

MuxTypeOK ==
  /\ muxConf \in MuxConfs
  /\ muxPxy \in [MuxProxy -> [phase : {"running", "open", "closing", "closed"},
                              done : 0..3, undone : 0..3]]
  /\ muxLoop \subseteq MuxListener
  /\ muxConn \in [MuxConn -> [phase : {"none", "peeking", "sending", "served", "closed", "ignored"},
                              at : MuxListener \cup {NoRoute}]]

MuxInit ==
  /\ muxConf \in MuxConfs
  /\ muxTable = EmptyTable
  /\ muxPxy = [p \in MuxProxy |-> [phase |-> "running", done |-> 0, undone |-> 0]]
  /\ muxLoop = {}
  /\ muxConn = [c \in MuxConn |-> [phase |-> "none", at |-> NoRoute]]

(* A listener's channel is open from its Listen to its Close.              *)
ChanOpen(l) == muxPxy[l[1]].undone < l[2] /\ l[2] <= muxPxy[l[1]].done
-----------------------------------------------------------------------------
(* Muxer.Listen for the next domain of a proxy.  After the last one the    *)
(* accept loops start (startCommonTCPListenersHandler); after an error Run *)
(* closes the proxy.                                                       *)
NotUndone(p) == "closed"
Undoing(p) == IF muxPxy[p].done = 0 THEN "closed" ELSE "closing"
MuxListen(p) ==
  LET n == muxPxy[p].done + 1
      d == muxConf.domains[p][n]
      last == n = Len(muxConf.domains[p])
  IN  /\ muxPxy[p].phase = "running"
      /\ \/ /\ RouteExist(muxTable, d, <<>>, AllUsers)
            /\ muxPxy' = [muxPxy EXCEPT ![p].phase = Undoing(p)]
            /\ UNCHANGED <<muxTable, muxLoop>>
         \/ /\ ~RouteExist(muxTable, d, <<>>, AllUsers)
            /\ muxTable' = RouteAdd(muxTable, d, <<>>, AllUsers, <<p, n>>)
            /\ muxPxy' = [muxPxy EXCEPT ![p].done = n,
                                        ![p].phase = IF last THEN "open" ELSE @]
            /\ muxLoop' = IF last THEN muxLoop \cup {<<p, i>> : i \in 1..n} ELSE muxLoop
      /\ UNCHANGED muxConn

CloseMuxProxy(p) ==
  /\ muxPxy[p].phase = "open"
  /\ muxPxy' = [muxPxy EXCEPT ![p].phase = "closing"]
  /\ UNCHANGED <<muxTable, muxLoop, muxConn>>

(* Listener.Close, of the next listener: remove the route and close the    *)
(* channel.                                                                *)
CloseNext(p) ==
  LET n == muxPxy[p].undone + 1
  IN  /\ muxPxy[p].phase = "closing"
      /\ muxTable' = RouteDel(muxTable, muxConf.domains[p][n], <<>>, AllUsers)
      /\ muxPxy' = [muxPxy EXCEPT ![p].undone = n,
                                  ![p].phase = IF n = muxPxy[p].done THEN "closed" ELSE @]
      /\ UNCHANGED <<muxLoop, muxConn>>

(* Listener.Accept fails on a closed channel and the accept loop returns.  *)
LoopEnds(l) ==
  /\ l \in muxLoop /\ ~ChanOpen(l)
  /\ muxLoop' = muxLoop \ {l}
  /\ UNCHANGED <<muxTable, muxPxy, muxConn>>
-----------------------------------------------------------------------------
Conn(c, phase, l) == /\ muxConn' = [muxConn EXCEPT ![c] = [phase |-> phase, at |-> l]]
                     /\ UNCHANGED <<muxTable, muxPxy, muxLoop>>

(* Muxer.run accepts a connection and starts its handler.                  *)
MuxAccept(c) == muxConn[c].phase = "none" /\ Conn(c, "peeking", NoRoute)

(* Muxer.handle finds the listener of the host name; a connection without *)
(* one is closed by the fail hook.                                         *)
Handle(c) ==
  \E h \in MuxHost : LET l == GetByRoute(muxTable, h, <<>>, AllUsers)
                     IN  Conn(c, IF l = NoRoute THEN "closed" ELSE "sending", l)

(* https: the host name is the server name of the client hello, which the  *)
(* client may fail to send before the deadline.                            *)
HandleHTTPS(c) ==
  /\ muxConf.kind = "https" /\ muxConn[c].phase = "peeking"
  /\ Conn(c, "closed", NoRoute) \/ Handle(c)

(* tcpmux: it is the host of a CONNECT request.  The answer to it (the     *)
(* success hook) may fail, and the credentials of the route may be wrong.  *)
HandleConnect(c) ==
  /\ muxConf.kind = "tcpmux" /\ muxConn[c].phase = "peeking"
  /\ Conn(c, "closed", NoRoute) \/ Handle(c)

(* l.accept <- c: the accept loop receives it, or the channel is closed    *)
(* and the panic is recovered; the connection is then ignored.             *)
Deliver(c) ==
  /\ muxConn[c].phase = "sending" /\ muxConn[c].at \in muxLoop /\ ChanOpen(muxConn[c].at)
  /\ Conn(c, "served", muxConn[c].at)

StillOpen(c) == FALSE
ChanClosed(c) == ~ChanOpen(muxConn[c].at)
Ignore(c) ==
  /\ muxConn[c].phase = "sending" /\ ChanClosed(c)
  /\ Conn(c, "ignored", NoRoute)

RunHTTPS(p) == muxConf.kind = "https" /\ MuxListen(p)
RunTCPMux(p) == muxConf.kind = "tcpmux" /\ MuxListen(p)

MuxProxySteps(p) == RunHTTPS(p) \/ RunTCPMux(p) \/ CloseNext(p)
HandlerSteps(c) == HandleHTTPS(c) \/ HandleConnect(c) \/ Deliver(c) \/ Ignore(c)
MuxNext ==
  /\ \/ \E p \in MuxProxy : MuxProxySteps(p) \/ CloseMuxProxy(p)
     \/ \E l \in MuxListener : LoopEnds(l)
     \/ \E c \in MuxConn : MuxAccept(c) \/ HandlerSteps(c)
  /\ UNCHANGED muxConf
-----------------------------------------------------------------------------
(* The routes of the muxer are the open listeners of its proxies, so a Run *)
(* that fails halfway through its domains leaves none behind.              *)
ListenersRouted ==
  /\ \A p \in MuxProxy : \A n \in (muxPxy[p].undone + 1)..muxPxy[p].done :
       /\ GetLocked(muxTable, muxConf.domains[p][n], <<>>, AllUsers) = <<p, n>>
       /\ muxPxy[p].phase # "closed"
  /\ \A k \in Domain \X HTTPUser : \A i \in DOMAIN muxTable[k] : ChanOpen(muxTable[k][i].payload)

(* No handler waits for ever: a connection that has found its listener is  *)
(* received, or let go when the listener is closed before the accept loop  *)
(* takes it, also while the proxy is still registering its other domains.  *)
HandlerReturns ==
  \A c \in MuxConn : []<>(muxConn[c].phase # "sending")

MuxFairness ==
  /\ \A p \in MuxProxy : WF_muxVars(MuxProxySteps(p) /\ UNCHANGED muxConf)
  /\ \A c \in MuxConn : WF_muxVars(HandlerSteps(c) /\ UNCHANGED muxConf)
=============================================================================

---------------------------- MODULE MCTrafficLive -----------------------------
(***************************************************************************)
(* What must end or come back on the way of a user's packet or connection: *)
(* load-balancing groups and the host muxer, the relays of UDP datagrams,  *)
(* visitors and the direct tunnels between two clients, a connection end   *)
(* to end, the SSH gateway's virtual client, the virtual network and       *)
(* admission. They share no state, so one of them is chosen at the start   *)
(* (area) and the others stay as they are; the fairness is each            *)
(* component's own.                                                        *)
(***************************************************************************)
EXTENDS ListenerGroup, VhostMuxer, UDPClientRelay, SUDPRelay, MakeHole,
        TunnelSession, UserConn, VisitorManager, SSHTunnel, VirtualNet, Admission, TLC

CONSTANTS p1, p2, tg, hg, mg, ng   \* two proxies, four groups

VARIABLE area

Areas == {"group", "muxer", "udp server", "udp forwarder", "udp client", "sudp", "hole", "tunnel",
          "connection", "visitors", "ssh", "vnet", "admission"}

(* Two proxies in a group of each kind: with equal parameters, with        *)
(* different keys, with different ports, and in two groups on one route.   *)
MCKindOf == tg :> "tcp" @@ hg :> "https" @@ mg :> "tcpmux" @@ ng :> "https"
MCIn(g, w, k) == [group |-> g, want |-> w, key |-> k]
MCGroupConfs == {p1 :> MCIn(tg, 0, 1) @@ p2 :> MCIn(tg, 0, 1),
                 p1 :> MCIn(hg, 1, 1) @@ p2 :> MCIn(hg, 1, 1),
                 p1 :> MCIn(hg, 1, 1) @@ p2 :> MCIn(ng, 1, 1),
                 p1 :> MCIn(mg, 1, 1) @@ p2 :> MCIn(mg, 1, 2),
                 p1 :> MCIn(tg, 1, 1) @@ p2 :> MCIn(tg, 0, 2)}
MCNameOf == [o \in Owner |-> o]

(* Two proxies whose domains overlap: registering the second one fails at  *)
(* once or half-way.                                                       *)
MCExact == <<"a", "b", "c">>
MCWild == <<"*", "b", "c">>
MCDomain == {MCExact, MCWild}
MCMuxConfs == {[kind |-> "https", domains |-> p1 :> <<MCExact, MCWild>> @@ p2 :> <<MCWild>>],
               [kind |-> "tcpmux", domains |-> p1 :> <<MCExact, MCWild>> @@ p2 :> <<MCWild, MCExact>>]}

(* Two visitors in four configurations: they have one port number for TCP  *)
(* and UDP, or compete for it, or one has no port of its own.              *)
MCVisitorName == {"v1", "v2"}
MCVisitor(n, k, port) == [name |-> n, kind |-> k, port |-> port]
MCVisitorConfigs == {<<>>,
                     <<MCVisitor("v1", "stcp", 1), MCVisitor("v2", "sudp", 1)>>,
                     <<MCVisitor("v2", "xtcp+xudp", 1), MCVisitor("v1", "xtcp", 1)>>,
                     <<MCVisitor("v1", "stcp+sudp", 1), MCVisitor("v2", "stcp", -1)>>}

(* The firewall off, and on with both defaults and both ways to fail: a    *)
(* rule that expires, a permanent one, and one whose ports do not parse.   *)
MCRule(a, any, cidr, ports, left) ==
    [action |-> a, any |-> any, cidr |-> cidr, port |-> ports, left |-> left]
MCFirewall(on, def, rules, mode, open) ==
    [on |-> on, def |-> def, rules |-> rules, mode |-> mode, failOpen |-> open,
     controlPort |-> TRUE, webPort |-> TRUE]
MCFWConfigs == {MCFirewall(TRUE, "allow", <<MCRule("deny", FALSE, {"a"}, {<<1, 1>>}, 1),
                                            MCRule("allow", TRUE, {}, {<<3, 2>>}, -1)>>, "custom", FALSE),
                MCFirewall(TRUE, "deny", <<MCRule("allow", FALSE, {"a"}, {}, 1)>>, "custom", TRUE),
                MCFirewall(FALSE, "deny", <<>>, "off", FALSE)}
MCFWFirst == {c \in MCFWConfigs : c.failOpen}
MCUserAddr == [u \in AdmUser |-> {"a"}]
MCDoors == [u \in AdmUser |-> IF u = "u1" THEN {"udp"} ELSE {"tcp"}]
MCHomeCases == {{}, {"provider"}, {"plugin"}}

allVars == <<area, groupVars, muxVars, relayVars, fwdVars, cliVars, sudpVars, holeVars, tunnelVars,
             userConnVars, visitorVars, sshVars, vnetVars, admVars>>

Fixed(a, state, states) == area # a => state = CHOOSE s \in states : TRUE

SumInit ==
    /\ area \in Areas
    /\ GroupInit /\ Fixed("group", groupConf, GroupConfs)
    /\ MuxInit /\ Fixed("muxer", muxConf, MuxConfs)
    /\ RelayInit /\ Fixed("udp server", rkind, RelayKind)
    /\ FwdInit
    /\ CliInit /\ Fixed("udp client", ckind, CKind)
    /\ SUDPInit /\ Fixed("sudp", skind, SKind)
    /\ HoleInit /\ Fixed("hole", listenConns, SUBSET HoleSocket \ {{}})
    /\ TunnelInit /\ Fixed("tunnel", tconf, Tconfs)
    /\ ConnInit /\ Fixed("connection", route, [visitor : BOOLEAN, limited : BOOLEAN])
    /\ VisitorInit
    /\ SSHInit
    /\ VnetInit
    /\ AdmInit /\ Fixed("admission", <<fwFile, home>>, {pruneLocked(f) : f \in FWFirst} \X HomeCases)

SumNext ==
    \/ /\ area = "group" /\ GroupNext
       /\ UNCHANGED <<area, muxVars, relayVars, fwdVars, cliVars, sudpVars, holeVars, tunnelVars,
                      userConnVars, visitorVars, sshVars, vnetVars, admVars>>
    \/ /\ area = "muxer" /\ MuxNext
       /\ UNCHANGED <<area, groupVars, relayVars, fwdVars, cliVars, sudpVars, holeVars, tunnelVars,
                      userConnVars, visitorVars, sshVars, vnetVars, admVars>>
    \/ /\ area = "udp server" /\ RelayNext
       /\ UNCHANGED <<area, groupVars, muxVars, fwdVars, cliVars, sudpVars, holeVars, tunnelVars,
                      userConnVars, visitorVars, sshVars, vnetVars, admVars>>
    \/ /\ area = "udp forwarder" /\ FwdNext
       /\ UNCHANGED <<area, groupVars, muxVars, relayVars, cliVars, sudpVars, holeVars, tunnelVars,
                      userConnVars, visitorVars, sshVars, vnetVars, admVars>>
    \/ /\ area = "udp client" /\ CliNext
       /\ UNCHANGED <<area, groupVars, muxVars, relayVars, fwdVars, sudpVars, holeVars, tunnelVars,
                      userConnVars, visitorVars, sshVars, vnetVars, admVars>>
    \/ /\ area = "sudp" /\ SUDPNext
       /\ UNCHANGED <<area, groupVars, muxVars, relayVars, fwdVars, cliVars, holeVars, tunnelVars,
                      userConnVars, visitorVars, sshVars, vnetVars, admVars>>
    \/ /\ area = "hole" /\ HoleNext
       /\ UNCHANGED <<area, groupVars, muxVars, relayVars, fwdVars, cliVars, sudpVars, tunnelVars,
                      userConnVars, visitorVars, sshVars, vnetVars, admVars>>
    \/ /\ area = "tunnel" /\ TunnelNext
       /\ UNCHANGED <<area, groupVars, muxVars, relayVars, fwdVars, cliVars, sudpVars, holeVars,
                      userConnVars, visitorVars, sshVars, vnetVars, admVars>>
    \/ /\ area = "connection" /\ ConnNext
       /\ UNCHANGED <<area, groupVars, muxVars, relayVars, fwdVars, cliVars, sudpVars, holeVars,
                      tunnelVars, visitorVars, sshVars, vnetVars, admVars>>
    \/ /\ area = "visitors" /\ VisitorNext
       /\ UNCHANGED <<area, groupVars, muxVars, relayVars, fwdVars, cliVars, sudpVars, holeVars,
                      tunnelVars, userConnVars, sshVars, vnetVars, admVars>>
    \/ /\ area = "ssh" /\ SSHNext
       /\ UNCHANGED <<area, groupVars, muxVars, relayVars, fwdVars, cliVars, sudpVars, holeVars,
                      tunnelVars, userConnVars, visitorVars, vnetVars, admVars>>
    \/ /\ area = "vnet" /\ VnetNext
       /\ UNCHANGED <<area, groupVars, muxVars, relayVars, fwdVars, cliVars, sudpVars, holeVars,
                      tunnelVars, userConnVars, visitorVars, sshVars, admVars>>
    \/ /\ area = "admission" /\ AdmNext
       /\ UNCHANGED <<area, groupVars, muxVars, relayVars, fwdVars, cliVars, sudpVars, holeVars,
                      tunnelVars, userConnVars, visitorVars, sshVars, vnetVars>>

In(a) == area = a

(* The strongly fair steps of three components, as one: only one of the    *)
(* disjuncts belongs to the chosen area.                                   *)
strongVars == <<fwdVars, tunnelVars, visitorVars>>

StrongStep ==
    \/ In("udp forwarder") /\ LoopStep     /\ UNCHANGED <<tunnelVars, visitorVars>>
    \/ In("tunnel")        /\ StarterEnds  /\ UNCHANGED <<fwdVars, visitorVars>>
    \/ In("visitors")      /\ KeeperStarts /\ UNCHANGED <<fwdVars, tunnelVars>>

SumFairness ==
    /\ SF_strongVars(StrongStep)
    /\ \A o \in Owner  : WF_groupVars(In("group") /\ ListenSteps(o) /\ UNCHANGED groupConf)
    /\ \A o \in Object : WF_groupVars(In("group") /\ WorkerSteps(o) /\ UNCHANGED groupConf)
    /\ \A o \in MuxProxy : WF_muxVars(In("muxer") /\ MuxProxySteps(o) /\ UNCHANGED muxConf)
    /\ \A c \in MuxConn  : WF_muxVars(In("muxer") /\ HandlerSteps(c) /\ UNCHANGED muxConf)
    /\ WF_relayVars(In("udp server") /\ KeepOn)
    /\ WF_relayVars(In("udp server") /\ (OfferPacket \/ ForwardEnds))
    /\ \A w \in SWork : /\ WF_relayVars(In("udp server") /\ (UDPReader(w) \/ TCPUDPReader(w)))
                        /\ WF_relayVars(In("udp server") /\ (UDPSender(w) \/ TCPUDPSender(w)))
    /\ \A s \in FSock : WF_fwdVars(In("udp forwarder") /\ Writer(s))
    /\ \A w \in CWork, t \in Task : WF_cliVars(In("udp client") /\ TaskEnds(w, t))
    /\ WF_sudpVars(In("sudp") /\ SUp /\ VisitorForward)
    /\ WF_sudpVars(In("sudp") /\ SUp /\ (SUDPDispatcher \/ STCPSUDPDispatcher))
    /\ \A s \in Stream :
         /\ WF_sudpVars(In("sudp") /\ SUp /\ WorkerReaderEnds(s))
         /\ WF_sudpVars(In("sudp") /\ SUp /\ WorkerSenderEnds(s))
         /\ WF_sudpVars(In("sudp") /\ SUp /\ WorkerSends(s))
         /\ WF_sudpVars(In("sudp") /\ SUp /\ BridgeToVisitor(s))
         /\ WF_sudpVars(In("sudp") /\ SUp /\ BridgeToProxy(s))
         /\ WF_sudpVars(In("sudp") /\ SUp /\ ProviderReaderEnds(s))
         /\ WF_sudpVars(In("sudp") /\ SUp /\ ProviderSenderEnds(s))
         /\ WF_sudpVars(In("sudp") /\ SUp /\ HeartbeatEnds(s))
    /\ WF_holeVars(In("hole") /\ ReceiverStep) /\ WF_holeVars(In("hole") /\ SenderSends)
    /\ WF_holeVars(In("hole") /\ SenderTimesOut)
    /\ \A s \in HoleSocket : WF_holeVars(In("hole") /\ WaiterStep(s))
    /\ \A u \in TunnelUsers : WF_tunnelVars(In("tunnel") /\ OpenTunnelStep(u))
    /\ WF_tunnelVars(In("tunnel") /\ ProcessStep) /\ WF_tunnelVars(In("tunnel") /\ KeepStep)
    /\ WF_userConnVars(In("connection") /\ VconnStep) /\ WF_userConnVars(In("connection") /\ UconnStep)
    /\ WF_userConnVars(In("connection") /\ WconnStep) /\ WF_userConnVars(In("connection") /\ WriteResp)
    /\ \A h \in Pipe : WF_userConnVars(In("connection") /\ PipeEnds(h))
    /\ WF_visitorVars(In("visitors") /\ KeeperTick) /\ WF_visitorVars(In("visitors") /\ KeeperEnds)
    /\ WF_visitorVars(In("visitors") /\ StartNext)
    /\ WF_sshVars(In("ssh") /\ (\E ok \in BOOLEAN : Handshake(ok) /\ sconn = "gone"))
    /\ WF_sshVars(In("ssh") /\ WaitForward) /\ WF_sshVars(In("ssh") /\ WaitTimesOut)
    /\ WF_sshVars(In("ssh") /\ ProxyReady) /\ WF_sshVars(In("ssh") /\ ProxyNotReady)
    /\ WF_sshVars(In("ssh") /\ PeerGone) /\ WF_sshVars(In("ssh") /\ CloseVirtualClient)
    /\ WF_sshVars(In("ssh") /\ CloseTunnel) /\ WF_sshVars(In("ssh") /\ TransferEnds)
    /\ WF_sshVars(In("ssh") /\ RunnerEnds) /\ WF_sshVars(In("ssh") /\ LogsIn)
    /\ \A ch \in Channel : WF_sshVars(In("ssh") /\ KeepAlive(ch))
    /\ \A w \in WorkID : WF_sshVars(In("ssh") /\ HandleWorkConn(w)) /\ WF_sshVars(In("ssh") /\ JoinEnds(w))
    /\ \A g \in Plug : WF_vnetVars(In("vnet") /\ RunLoop(g)) /\ WF_vnetVars(In("vnet") /\ CloseStep(g))
    /\ \A i \in PipeID : WF_vnetVars(In("vnet") /\ HandlerStep(i)) /\ WF_vnetVars(In("vnet") /\ ReadLoopClient(i))
    /\ WF_vnetVars(In("vnet") /\ WriteMessage)
    /\ \A c \in AdmConn :
         /\ WF_admVars(In("admission") /\ Allow(c)) /\ WF_admVars(In("admission") /\ CheckExternal(c))
         /\ WF_admVars(In("admission") /\ WakeUp(c)) /\ WF_admVars(In("admission") /\ CallHome(c[1]))
         /\ WF_admVars(In("admission") /\ \E b, e \in BOOLEAN : QueryEnds(c, b, e))
         /\ WF_admVars(In("admission") /\ \E ok \in BOOLEAN : HookEnds(c, ok))

SumSpec == SumInit /\ [][SumNext]_allVars /\ SumFairness

(* Every variable of the chosen component keeps to its type: the states of *)
(* the code's goroutines, tables and channels are the ones modelled.       *)
TypeOK ==
    /\ area \in Areas
    /\ area = "group" => GroupTypeOK
    /\ area = "muxer" => MuxTypeOK
    /\ area = "udp server" => RelayTypeOK
    /\ area = "udp forwarder" => FwdTypeOK
    /\ area = "udp client" => CliTypeOK
    /\ area = "sudp" => SUDPTypeOK
    /\ area = "hole" => HoleTypeOK
    /\ area = "tunnel" => TunnelTypeOK
    /\ area = "connection" => ConnTypeOK
    /\ area = "visitors" => VisitorTypeOK
    /\ area = "ssh" => SSHTypeOK
    /\ area = "vnet" => VnetTypeOK
    /\ area = "admission" => AdmTypeOK

(* Where proxies share a port or a muxer, each is reached by what it       *)
(* registered: the members of a group hold its endpoint, the muxer's       *)
(* routes are those of the listeners that are open, and a virtual network  *)
(* visitor that runs has its route (TCPGroup.Listen, Muxer.Listen,         *)
(* RegisterClientRoute and their closes).                                  *)
SharedEndpointHeld ==
    MembersHoldEndpoint /\ ListenersRouted /\ VnetRoutesLive

(* Who arrives at frps is not left waiting: a proxy that joins a group     *)
(* gets an answer, a connection a group or a muxer has accepted is handed  *)
(* over or closed, and a user the firewall judges is let in or turned      *)
(* away.                                                                   *)
ArrivalsSettle ==
    AcceptedSettles /\ ListenSettles /\ HandlerReturns /\ EveryoneJudged

(* The goroutines and sockets on the way of datagrams end where they must: *)
(* a dead work connection is replaced and a closed proxy leaves none,      *)
(* sockets of silent users are closed, the tasks of an old work connection *)
(* end, and a secret stream that breaks or is closed at one place ends at  *)
(* all.                                                                    *)
DatagramPathsEnd ==
    /\ DeadReplaced /\ CloseEnds /\ SocketsReleased /\ TasksEnd
    /\ BrokenStreamEnds /\ ProviderCloseEnds /\ VisitorCloseEnds

(* The visitors of a client run as configured, with the ports they can     *)
(* get (UpdateAll, keepVisitorsRunning); two clients agree on one pair of  *)
(* sockets and close the others (MakeHole); a visitor drops a tunnel that  *)
(* is dead, asks for a new one, and stops asking once it is closed         *)
(* (getTunnelConn and processTunnelStartEvents).                           *)
VisitorsServe ==
    /\ VisitorsRun
    /\ []HoleAgreed /\ OtherSocketsClosed /\ DeadSessionDropped /\ HoleAskedFor /\ StarterGone

(* What someone used is released when they leave: every hop of a user's    *)
(* connection whichever end leaves first, the whole virtual client of an   *)
(* ssh peer, and the route and pipes of a virtual network visitor, without *)
(* blocking the reader of the device.                                      *)
LeavingReleases ==
    /\ LeavingClosesAll /\ ServiceEndsAll /\ []DoneClosedOnce /\ NothingStays
    /\ CloseUndoesRoute /\ TunNeverStuck
===============================================================================

---------------------------- MODULE MCRecordSafety ----------------------------
(***************************************************************************)
(* What must never be wrong in what frps and frpc count, keep and compute: *)
(* the statistics, the delays between attempts, the advice and the probes  *)
(* of NAT traversal, the configuration and its store, the virtual          *)
(* network's sources and the tokens of login. They share no state, so one  *)
(* of them is chosen at the start (area) and the others stay as they are.  *)
(***************************************************************************)
EXTENDS ServerMetrics, Backoff, NatHoleAnalysis, ConfigStore, ProxyConfig,
        VirtualNet, AuthTokens, TLC

VARIABLE area

Areas == {"metrics", "days", "peers", "p2p", "backoff", "nat", "stun", "store", "config", "vnet",
          "auth"}

(* Two proxies that follow each other under one name, with two types.      *)
MCNameOfInc == 1 :> "a" @@ 2 :> "a" @@ 3 :> "b"
MCTypeOfInc == 1 :> "tcp" @@ 2 :> "udp" @@ 3 :> "tcp"
MCPeerOf == "t1" :> "p" @@ "t2" :> "p" @@ "u1" :> "p" @@ "t3" :> "q"

(* A NAT as the two addresses it shows to two servers (an IP and a port):  *)
(* an easy one, a client without NAT, one that counts its ports up (also   *)
(* at the last port), one that does not, and one that changes its IP.      *)
MCEasy == <<<<1, 100>>, <<1, 100>>>>
MCPublic == <<<<9, 100>>, <<9, 100>>>>
MCRegular == <<<<1, 100>>, <<1, 103>>>>
MCAtLastPort == <<<<2, 65534>>, <<2, 65535>>>>
MCIrregular == <<<<1, 3>>, <<1, 190>>>>
MCIPChanges == <<<<1, 100>>, <<2, 101>>>>
MCOneAddress == <<<<1, 100>>>>
MCNatAddrs == {<<MCEasy, MCEasy>>, <<MCPublic, MCEasy>>, <<MCEasy, MCPublic>>, <<MCRegular, MCEasy>>,
               <<MCEasy, MCIrregular>>, <<MCRegular, MCAtLastPort>>, <<MCIrregular, MCAtLastPort>>,
               <<MCIrregular, MCIPChanges>>, <<MCOneAddress, MCEasy>>}

(* The configuration file: one entry, two with a start list and one of     *)
(* them disabled, and one that does not parse.                             *)
MCEntry == {<<"proxy", "a">>, <<"visitor", "b">>}
MCSet(v, on) == [v |-> v, on |-> on, done |-> FALSE]
MCFile(a, b, start, ok) ==
    [entries |-> [n \in MCEntry |-> IF n[2] = "a" THEN a ELSE b], start |-> start, valid |-> ok]
MCConfFiles == {MCFile(MCSet(1, TRUE), NoEntry, {}, TRUE),
                MCFile(MCSet(2, TRUE), MCSet(1, FALSE), {"a"}, TRUE),
                MCFile(NoEntry, NoEntry, {}, FALSE)}

MCAuthCases == AuthCase

allVars == <<area, metricVars, dateVars, peerVars, p2pVars, backoffVars, natVars, stunVars,
             storeVars, configVars, vnetVars, authVars>>

Fixed(a, state, states) == area # a => state = CHOOSE s \in states : TRUE

SumInit ==
    /\ area \in Areas
    /\ MetricInit
    /\ DateInit
    /\ PeerInit
    /\ P2PInit
    /\ BackoffInit
    /\ NatInit /\ Fixed("nat", addrs, NatAddrs)
    /\ StunInit /\ Fixed("stun", dups, BOOLEAN)
    /\ StoreInit /\ Fixed("store", confFile, {c \in ConfFiles : c.valid})
    /\ ConfigInit /\ Fixed("config", pconf, {[type |-> t, on |-> {}] : t \in ProxyTypes})
    /\ VnetInit
    /\ AuthInit /\ Fixed("auth", aconf, AuthCases)

SumNext ==
    \/ /\ area = "metrics" /\ MetricNext
       /\ UNCHANGED <<area, dateVars, peerVars, p2pVars, backoffVars, natVars, stunVars, storeVars,
                      configVars, vnetVars, authVars>>
    \/ /\ area = "days" /\ DateNext
       /\ UNCHANGED <<area, metricVars, peerVars, p2pVars, backoffVars, natVars, stunVars,
                      storeVars, configVars, vnetVars, authVars>>
    \/ /\ area = "peers" /\ PeerNext
       /\ UNCHANGED <<area, metricVars, dateVars, p2pVars, backoffVars, natVars, stunVars,
                      storeVars, configVars, vnetVars, authVars>>
    \/ /\ area = "p2p" /\ P2PNext
       /\ UNCHANGED <<area, metricVars, dateVars, peerVars, backoffVars, natVars, stunVars,
                      storeVars, configVars, vnetVars, authVars>>
    \/ /\ area = "backoff" /\ BackoffNext
       /\ UNCHANGED <<area, metricVars, dateVars, peerVars, p2pVars, natVars, stunVars, storeVars,
                      configVars, vnetVars, authVars>>
    \/ /\ area = "nat" /\ NatNext
       /\ UNCHANGED <<area, metricVars, dateVars, peerVars, p2pVars, backoffVars, stunVars,
                      storeVars, configVars, vnetVars, authVars>>
    \/ /\ area = "stun" /\ StunNext
       /\ UNCHANGED <<area, metricVars, dateVars, peerVars, p2pVars, backoffVars, natVars,
                      storeVars, configVars, vnetVars, authVars>>
    \/ /\ area = "store" /\ StoreNext
       /\ UNCHANGED <<area, metricVars, dateVars, peerVars, p2pVars, backoffVars, natVars,
                      stunVars, configVars, vnetVars, authVars>>
    \/ /\ area = "config" /\ ConfigNext
       /\ UNCHANGED <<area, metricVars, dateVars, peerVars, p2pVars, backoffVars, natVars,
                      stunVars, storeVars, vnetVars, authVars>>
    \/ /\ area = "vnet" /\ VnetNext
       /\ UNCHANGED <<area, metricVars, dateVars, peerVars, p2pVars, backoffVars, natVars,
                      stunVars, storeVars, configVars, authVars>>
    \/ /\ area = "auth" /\ AuthNext
       /\ UNCHANGED <<area, metricVars, dateVars, peerVars, p2pVars, backoffVars, natVars,
                      stunVars, storeVars, configVars, vnetVars>>

SumSpec == SumInit /\ [][SumNext]_allVars

(* Every variable of the chosen component keeps to its type: the states of *)
(* the code's goroutines, tables and channels are the ones modelled.       *)
TypeOK ==
    /\ area \in Areas
    /\ area = "metrics" => MetricTypeOK
    /\ area = "days" => DateTypeOK
    /\ area = "peers" => PeerTypeOK
    /\ area = "p2p" => P2PTypeOK
    /\ area = "backoff" => BackoffTypeOK
    /\ area = "nat" => NatTypeOK
    /\ area = "stun" => StunTypeOK
    /\ area = "store" => StoreTypeOK
    /\ area = "config" => ConfigTypeOK
    /\ area = "vnet" => VnetTypeOK
    /\ area = "auth" => AuthTypeOK

(* What runs is what was configured: the client runs what its sources ask  *)
(* for, the server gets every field of it, clones do not change their      *)
(* original, and what the client accepts is refused only for a feature the *)
(* server lacks (aggregator, MarshalToMsg, UnmarshalFromMsg, Clone,        *)
(* validation).                                                            *)
ConfigRuns ==
    []RunsWhatIsAsked /\ []ServerRunsConfigured /\ []RefusedOnlyForFeatures /\ ClonesApart
===============================================================================

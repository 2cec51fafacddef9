--------------------------- MODULE MCRoutingSafety ----------------------------
(***************************************************************************)
(* What must never be wrong where frps decides who is let in and where a   *)
(* request goes: the routes of the host router and of the http groups,     *)
(* admission and plugins. They share no state, so one of them is chosen at *)
(* the start (area) and the others stay as they are.                       *)
(***************************************************************************)
EXTENDS HTTPVhost, Admission, ServerPlugins, TLC

CONSTANTS pa, pb, pc, ga, gb   \* three http proxies, two groups

VARIABLE area

Areas == {"routes", "http", "admission", "plugins"}

(* Domains with their labels, an exact one and three wildcards; locations  *)
(* and request paths as sequences of segments.                             *)
MCExact == <<"a", "b", "c">>
MCWild == <<"*", "b", "c">>
MCDomain == {MCExact, MCWild, <<"*", "c">>, <<"*">>}
MCLocation == {<<>>, <<1>>, <<1, 2>>, <<2>>}
MCHost == {MCExact, <<"x", "a", "b", "c">>, <<"b", "c">>}
MCRequest == {[host |-> h, path |-> <<1, 2, 1>>, user |-> "u"] : h \in MCHost}
             \cup {[host |-> h, path |-> <<2>>, user |-> ""] : h \in MCHost}

(* Three http proxies: two of a group on one route, or of two groups that  *)
(* want one route; and a third that wants it too, or has the wrong key.    *)
MCAt(d, l) == [domain |-> d, location |-> l, user |-> ""]
MCHTTP(g, k, rs) == [group |-> g, key |-> k, routes |-> rs]
MCHTTPConfs ==
    {pa :> MCHTTP(ga, 1, <<MCAt(MCExact, <<>>)>>)
       @@ pb :> MCHTTP(ga, 1, <<MCAt(MCExact, <<>>)>>)
       @@ pc :> MCHTTP(NoRoute, 1, <<MCAt(MCWild, <<1>>), MCAt(MCExact, <<>>)>>),
     pa :> MCHTTP(ga, 1, <<MCAt(MCExact, <<1>>)>>)
       @@ pb :> MCHTTP(gb, 1, <<MCAt(MCExact, <<1>>), MCAt(MCWild, <<>>)>>)
       @@ pc :> MCHTTP(ga, 2, <<MCAt(MCExact, <<>>)>>)}
MCHTTPAsk == "get" :> [host |-> MCExact, path |-> <<1, 1>>, user |-> "u", connect |-> FALSE]
             @@ "connect" :> [host |-> MCExact, path |-> <<2>>, user |-> "", connect |-> TRUE]

(* The firewall off, and on with both defaults and both ways to fail: a    *)
(* rule that expires, a permanent one, and one whose ports do not parse.   *)
MCRule(a, any, cidr, ports, left) ==
    [action |-> a, any |-> any, cidr |-> cidr, port |-> ports, left |-> left]
MCFirewall(on, def, rules, mode, open) ==
    [on |-> on, def |-> def, rules |-> rules, mode |-> mode, failOpen |-> open,
     controlPort |-> TRUE, webPort |-> TRUE]
MCFWFirst == {MCFirewall(TRUE, "allow", <<MCRule("deny", FALSE, {"a"}, {<<1, 1>>}, 1),
                                          MCRule("allow", TRUE, {}, {<<3, 2>>}, -1)>>, "custom", FALSE)}
MCFWConfigs == MCFWFirst \cup
    {MCFirewall(TRUE, "deny", <<MCRule("allow", FALSE, {"a"}, {}, 1)>>, "custom", TRUE),
     MCFirewall(FALSE, "deny", <<>>, "off", FALSE)}
MCUserAddr == [u \in AdmUser |-> IF u = "u1" THEN {"a"} ELSE {"a", "?"}]
MCDoors == [u \in AdmUser |-> IF u = "u1" THEN {"udp", "web"} ELSE {"control"}]
MCHomeCases == {{}, {"provider"}, {"plugin"}}

MCPluginOrder == <<"p1", "p2", "p3">>
MCAllOps == MutableOps \cup {"CloseProxy"}
MCSupportCases == {[p \in Plugins |-> MCAllOps],
                   [p \in Plugins |-> IF p = "p2" THEN {"NewProxy", "Ping"} ELSE MCAllOps]}

allVars == <<area, routeTable, httpVars, admVars, pluginVars>>

Fixed(a, state, states) == area # a => state = CHOOSE s \in states : TRUE

SumInit ==
    /\ area \in Areas
    /\ RoutesInit
    /\ HTTPInit /\ Fixed("http", httpConf, HTTPConfs)
    /\ AdmInit /\ Fixed("admission", home, HomeCases)
    /\ PluginInit /\ Fixed("plugins", supports, SupportCases)

SumNext ==
    \/ /\ area = "routes" /\ RoutesNext
       /\ UNCHANGED <<area, httpVars, admVars, pluginVars>>
    \/ /\ area = "http" /\ HTTPNext
       /\ UNCHANGED <<area, routeTable, admVars, pluginVars>>
    \/ /\ area = "admission" /\ AdmNext
       /\ UNCHANGED <<area, routeTable, httpVars, pluginVars>>
    \/ /\ area = "plugins" /\ PluginNext
       /\ UNCHANGED <<area, routeTable, httpVars, admVars>>

SumSpec == SumInit /\ [][SumNext]_allVars

(* Every variable of the chosen component keeps to its type: the states of *)
(* the code's goroutines, tables and channels are the ones modelled.       *)
TypeOK ==
    /\ area \in Areas
    /\ area = "http" => HTTPTypeOK
    /\ area = "admission" => AdmTypeOK
    /\ area = "plugins" => PluginTypeOK

(* The checks at the entry are made once and kept: one query for an        *)
(* address, no verdict older than its time, no call that judges itself,    *)
(* rules that survive a restart of frps, every change a plugin makes, and  *)
(* a note to all plugins of each close.                                    *)
EntryChecked ==
    /\ []OneQueryPerAddress /\ []VerdictsYoung /\ []NoCallInItself /\ RestartKeepsRules
    /\ []AllChangesKept /\ []EveryCloseTold
===============================================================================

----------------------------- MODULE HTTPVhost -----------------------------
(***************************************************************************)
(* HTTP proxies (server/proxy/http.go), their load balancing groups        *)
(* (server/group/http.go) and the reverse proxy that serves requests       *)
(* through the route table (pkg/util/vhost/http.go).                       *)
(*                                                                         *)
(* A route leads to a proxy or to a group object; a group chooses one of   *)
(* its proxies for each request.  A request looks its route up when it     *)
(* arrives and again when it needs a connection, so the routes and the     *)
(* members may change in between.  Every request dials: the idle           *)
(* connections that net/http keeps are left out.                           *)
(*                                                                         *)
(* The route table alone, with its order, is the last part.                *)
(***************************************************************************)
EXTENDS VhostRouter, FiniteSets

CONSTANTS HTTPProxy,   \* proxies
          HTTPGroup,   \* group names
          HTTPObject,  \* group objects
          HTTPConfs,   \* configurations: group (or NoRoute), key, routes
          HTTPRequest, \* requests
          HTTPAsk      \* what a request asks for: host, path, user, connect

VARIABLES
  httpConf,    \* the configuration of each proxy
  vhostTable,  \* the route table
  httpGroups,  \* groupRegistry.groups
  pxyNames,    \* HTTPGroup.pxyNames, the keys of createFuncs too
  params,      \* the group's domain, location, user and key
  counter,     \* HTTPGroup.index
  pxy,         \* the progress of a proxy's Run and Close
  rq,          \* the progress of a request
  base, picks  \* history: the counter at the last change of the members,
               \* and the choices made from later counts

proxyVars == <<vhostTable, httpGroups, pxyNames, params, pxy>>
httpVars == <<httpConf, vhostTable, httpGroups, pxyNames, params, counter, pxy, rq, base, picks>>

ToProxy(p) == [proxy |-> p, obj |-> NoRoute]
ToGroup(o) == [proxy |-> NoRoute, obj |-> o]
IsGroup(route) == route \in {ToGroup(o) : o \in HTTPObject}
Payload == {ToProxy(p) : p \in HTTPProxy} \cup {ToGroup(o) : o \in HTTPObject} \cup {NoRoute}

HTTPTypeOK ==
  /\ httpConf \in HTTPConfs
  /\ \A k \in Domain \X HTTPUser : \A i \in DOMAIN vhostTable[k] :
       vhostTable[k][i].payload \in Payload
  /\ httpGroups \in [HTTPGroup -> HTTPObject \cup {NoRoute}]
  /\ \A o \in HTTPObject : Range(pxyNames[o]) \subseteq HTTPProxy
  /\ counter \in [HTTPObject -> Nat]
  /\ pxy \in [HTTPProxy -> [phase : {"running", "found", "open", "closing", "closed"},
                            done : Nat, undone : Nat, obj : HTTPObject \cup {NoRoute}]]
  /\ rq \in [HTTPRequest -> [phase : {"new", "routed", "counted", "ready", "dialing", "picked",
                                      "served", "failed"},
                             route : Payload, index : Nat, by : HTTPProxy \cup {NoRoute}]]

HTTPInit ==
  /\ httpConf \in HTTPConfs
  /\ vhostTable = EmptyTable
  /\ httpGroups = [g \in HTTPGroup |-> NoRoute]
  /\ pxyNames = [o \in HTTPObject |-> <<>>] /\ params = [o \in HTTPObject |-> NoRoute]
  /\ counter = [o \in HTTPObject |-> 0]
  /\ pxy = [p \in HTTPProxy |-> [phase |-> "running", done |-> 0, undone |-> 0, obj |-> NoRoute]]
  /\ rq = [r \in HTTPRequest |-> [phase |-> "new", route |-> NoRoute, index |-> 0, by |-> NoRoute]]
  /\ base = [o \in HTTPObject |-> 0]
  /\ picks = [o \in HTTPObject |-> [p \in HTTPProxy |-> 0]]

Grouped(p) == httpConf[p].group # NoRoute
HTTPRoutes(p) == httpConf[p].routes
NextRoute(p) == HTTPRoutes(p)[pxy[p].done + 1]
KeyOf(p, r) == [domain |-> r.domain, location |-> r.location, user |-> r.user,
                key |-> httpConf[p].key]
-----------------------------------------------------------------------------
(* HTTPProxy.Run registers each domain and location in turn.               *)
Registering(p, phase) == pxy[p].phase = phase /\ pxy[p].done < Len(HTTPRoutes(p))
OneMore(p) ==
  [pxy EXCEPT ![p] = [phase |-> IF @.done + 1 = Len(HTTPRoutes(p)) THEN "open" ELSE "running",
                      done |-> @.done + 1, undone |-> 0, obj |-> NoRoute]]

(* A registration that fails makes Run close the proxy.                    *)
RunFails(p) ==
  /\ pxy' = [pxy EXCEPT ![p].phase = IF pxy[p].done = 0 THEN "closed" ELSE "closing",
                        ![p].obj = NoRoute]
  /\ UNCHANGED <<vhostTable, httpGroups, pxyNames, params, base, picks>>

(* HTTPReverseProxy.Register.                                              *)
RegisterRoute(p) ==
  LET r == NextRoute(p)
  IN  /\ Registering(p, "running") /\ ~Grouped(p)
      /\ \/ RouteExist(vhostTable, r.domain, r.location, r.user) /\ RunFails(p)
         \/ /\ ~RouteExist(vhostTable, r.domain, r.location, r.user)
            /\ vhostTable' = RouteAdd(vhostTable, r.domain, r.location, r.user, ToProxy(p))
            /\ pxy' = OneMore(p)
            /\ UNCHANGED <<httpGroups, pxyNames, params, base, picks>>
      /\ UNCHANGED <<counter, rq>>

(* HTTPGroupController.Register: find the object, then register on it.     *)
FreshObject == CHOOSE o \in HTTPObject : /\ params[o] = NoRoute /\ \A g \in HTTPGroup : httpGroups[g] # o
                                         /\ \A p \in HTTPProxy : pxy[p].obj # o
FindGroup(p) ==
  LET g == httpConf[p].group
      o == IF httpGroups[g] # NoRoute THEN httpGroups[g] ELSE FreshObject
  IN  /\ Registering(p, "running") /\ Grouped(p)
      /\ httpGroups' = [httpGroups EXCEPT ![g] = o]
      /\ pxy' = [pxy EXCEPT ![p].phase = "found", ![p].obj = o]
      /\ UNCHANGED <<vhostTable, pxyNames, params, counter, rq, base, picks>>

NeverStale(p) == TRUE
Current(p) == httpGroups[httpConf[p].group] = pxy[p].obj

(* errGroupStale: the loop of Register starts over.                        *)
GroupStale(p) ==
  /\ Registering(p, "found") /\ ~Current(p)
  /\ pxy' = [pxy EXCEPT ![p].phase = "running", ![p].obj = NoRoute]
  /\ UNCHANGED <<vhostTable, httpGroups, pxyNames, params, counter, rq, base, picks>>

NewMembers(o, names) ==
  /\ pxyNames' = [pxyNames EXCEPT ![o] = names]
  /\ base' = [base EXCEPT ![o] = counter[o]]
  /\ picks' = [picks EXCEPT ![o] = [p \in HTTPProxy |-> 0]]

(* HTTPGroup.Register, under the group's mutex: the first proxy adds the   *)
(* route, a further one must have the same parameters and key, and no      *)
(* proxy is registered twice.                                              *)
SameParams(o, p, r) == params[o] = KeyOf(p, r)
RegisterFirst(p) ==
  LET o == pxy[p].obj
      r == NextRoute(p)
  IN  /\ Registering(p, "found") /\ Current(p) /\ pxyNames[o] = <<>>
      /\ \/ RouteExist(vhostTable, r.domain, r.location, r.user) /\ RunFails(p)
         \/ /\ ~RouteExist(vhostTable, r.domain, r.location, r.user)
            /\ vhostTable' = RouteAdd(vhostTable, r.domain, r.location, r.user, ToGroup(o))
            /\ params' = [params EXCEPT ![o] = KeyOf(p, r)]
            /\ NewMembers(o, <<p>>) /\ pxy' = OneMore(p)
            /\ UNCHANGED httpGroups
      /\ UNCHANGED <<counter, rq>>

RegisterMore(p) ==
  LET o == pxy[p].obj
      ok == SameParams(o, p, NextRoute(p)) /\ p \notin Range(pxyNames[o])
  IN  /\ Registering(p, "found") /\ Current(p) /\ pxyNames[o] # <<>>
      /\ \/ ~ok /\ RunFails(p)
         \/ /\ ok /\ NewMembers(o, Append(pxyNames[o], p)) /\ pxy' = OneMore(p)
            /\ UNCHANGED <<vhostTable, httpGroups, params>>
      /\ UNCHANGED <<counter, rq>>

CloseHTTP(p) ==
  /\ pxy[p].phase = "open"
  /\ pxy' = [pxy EXCEPT ![p].phase = "closing"]
  /\ UNCHANGED <<vhostTable, httpGroups, pxyNames, params, counter, rq, base, picks>>

(* One of the closeFuncs.  HTTPGroupController.UnRegister finds the object *)
(* by name; it cannot be replaced while the proxy is in it.                *)
KeepRoute(o) == vhostTable
DropRoute(o) == RouteDel(vhostTable, params[o].domain, params[o].location, params[o].user)
UnRegister(p) ==
  LET r == HTTPRoutes(p)[pxy[p].undone + 1]
      o == httpGroups[httpConf[p].group]
      rest == SelectSeq(pxyNames[o], LAMBDA q : q # p)
  IN  /\ pxy[p].phase = "closing" /\ pxy[p].undone < pxy[p].done
      /\ pxy' = [pxy EXCEPT ![p].undone = @ + 1,
                            ![p].phase = IF pxy[p].undone + 1 = pxy[p].done THEN "closed" ELSE @]
      /\ \/ /\ ~Grouped(p)
            /\ vhostTable' = RouteDel(vhostTable, r.domain, r.location, r.user)
            /\ UNCHANGED <<httpGroups, pxyNames, params, base, picks>>
         \/ /\ Grouped(p) /\ NewMembers(o, rest)
            /\ vhostTable' = IF rest = <<>> THEN DropRoute(o) ELSE vhostTable
            /\ httpGroups' = IF rest = <<>> THEN [httpGroups EXCEPT ![httpConf[p].group] = NoRoute]
                                            ELSE httpGroups
            /\ UNCHANGED params
      /\ UNCHANGED <<counter, rq>>
-----------------------------------------------------------------------------
Lookup(r) == LET q == HTTPAsk[r] IN GetByRoute(vhostTable, q.host, q.path, q.user)
Goes(r, phase) == rq' = [rq EXCEPT ![r].phase = phase]
Fails(r) == rq' = [rq EXCEPT ![r] = [phase |-> "failed", route |-> NoRoute, index |-> 0,
                                     by |-> NoRoute]]

(* ServeHTTP: find the route (injectRequestInfoToCtx); its filter or its   *)
(* credentials may refuse the request.                                     *)
ServeHTTP(r) ==
  /\ rq[r].phase = "new"
  /\ \/ rq' = [rq EXCEPT ![r].phase = "routed", ![r].route = Lookup(r)]
     \/ Lookup(r) # NoRoute /\ Fails(r)
  /\ UNCHANGED <<proxyVars, counter, base, picks>>

(* Rewrite: a group counts and chooses the endpoint.  A CONNECT request    *)
(* goes straight to CreateConnection.                                      *)
CountedTwice(o) == [counter EXCEPT ![o] = @ + 2]
Counted(o) == [counter EXCEPT ![o] = @ + 1]
Count(r, o) ==
  /\ counter' = Counted(o)
  /\ rq' = [rq EXCEPT ![r].phase = "counted", ![r].index = counter'[o], ![r].route = ToGroup(o)]
Rewrite(r) ==
  /\ rq[r].phase = "routed"
  /\ \/ /\ HTTPAsk[r].connect \/ ~IsGroup(rq[r].route)
        /\ Goes(r, "ready") /\ UNCHANGED counter
     \/ ~HTTPAsk[r].connect /\ IsGroup(rq[r].route) /\ Count(r, rq[r].route.obj)
  /\ UNCHANGED <<proxyVars, base, picks>>

(* chooseEndpoint, and createConn of a CONNECT request, read the members.  *)
Choose(r) ==
  LET o == rq[r].route.obj
      n == Len(pxyNames[o])
      p == pxyNames[o][(rq[r].index % n) + 1]
  IN  /\ rq[r].phase = "counted"
      /\ \/ n = 0 /\ UNCHANGED picks
            /\ IF HTTPAsk[r].connect THEN Fails(r) ELSE Goes(r, "ready")
         \/ /\ n > 0
            /\ rq' = [rq EXCEPT ![r].phase = IF HTTPAsk[r].connect THEN "picked" ELSE "ready",
                                ![r].by = p]
            /\ picks' = IF rq[r].index > base[o] THEN [picks EXCEPT ![o][p] = @ + 1] ELSE picks
      /\ UNCHANGED <<proxyVars, counter, base>>

(* CreateConnection: look the route up again.                              *)
CreateConnection(r) ==
  LET route == Lookup(r)
  IN  /\ rq[r].phase = "ready"
      /\ \/ route = NoRoute /\ Fails(r) /\ UNCHANGED counter
         \/ /\ route # NoRoute /\ ~IsGroup(route) /\ UNCHANGED counter
            /\ rq' = [rq EXCEPT ![r].phase = "picked", ![r].by = route.proxy]
         \/ /\ IsGroup(route) /\ ~HTTPAsk[r].connect /\ UNCHANGED counter
            /\ rq' = [rq EXCEPT ![r].phase = "dialing", ![r].route = route]
         \/ IsGroup(route) /\ HTTPAsk[r].connect /\ Count(r, route.obj)
      /\ UNCHANGED <<proxyVars, base, picks>>

(* createConnByEndpoint: the endpoint chosen before must be a member of    *)
(* the group found now.                                                    *)
AnyEndpoint(r) == rq[r].by # NoRoute
KnownEndpoint(r) == rq[r].by \in Range(pxyNames[rq[r].route.obj])
CreateConnByEndpoint(r) ==
  /\ rq[r].phase = "dialing"
  /\ IF KnownEndpoint(r) THEN Goes(r, "picked") ELSE Fails(r)
  /\ UNCHANGED <<proxyVars, counter, base, picks>>

(* GetRealConn: a work connection of the proxy, or an error.               *)
GetRealConn(r) ==
  /\ rq[r].phase = "picked"
  /\ Goes(r, "served") \/ Fails(r)
  /\ UNCHANGED <<proxyVars, counter, base, picks>>

RunSteps(p) == \/ RegisterRoute(p) \/ FindGroup(p) \/ GroupStale(p) \/ RegisterFirst(p)
               \/ RegisterMore(p) \/ UnRegister(p)
RequestSteps(r) == \/ Rewrite(r) \/ Choose(r) \/ CreateConnection(r)
                   \/ CreateConnByEndpoint(r) \/ GetRealConn(r)
HTTPNext ==
  /\ \/ \E p \in HTTPProxy : RunSteps(p) \/ CloseHTTP(p)
     \/ \E r \in HTTPRequest : ServeHTTP(r) \/ RequestSteps(r)
  /\ UNCHANGED httpConf
-----------------------------------------------------------------------------
Held(p) == {HTTPRoutes(p)[i] : i \in (pxy[p].undone + 1)..pxy[p].done}
Holds(t, r, payload) ==
  \E i \in DOMAIN t[r.domain, r.user] :
    t[r.domain, r.user][i] = [location |-> r.location, payload |-> payload]

(* The table holds exactly the routes of the proxies that are registered   *)
(* and of the groups that have members, and each leads where it should:    *)
(* whatever Run had registered before it failed is undone, a group that    *)
(* lost its last proxy leaves no route behind, and a proxy never joins an  *)
(* object that has been given up.                                          *)
RoutesExact ==
  /\ \A p \in HTTPProxy : \A r \in Held(p) :
       IF Grouped(p)
       THEN LET o == httpGroups[httpConf[p].group]
            IN  o # NoRoute /\ p \in Range(pxyNames[o]) /\ params[o] = KeyOf(p, r)
                /\ Holds(vhostTable, r, ToGroup(o))
       ELSE Holds(vhostTable, r, ToProxy(p))
  /\ \A k \in Domain \X HTTPUser : \A i \in DOMAIN vhostTable[k] :
       \E p \in HTTPProxy : \E r \in Held(p) :
         k = <<r.domain, r.user>> /\ vhostTable[k][i].location = r.location

Suits(r, q) == /\ r.domain \in Range(HostsTried(q.host)) /\ r.user \in {q.user, AllUsers}
               /\ IsPrefix(r.location, q.path)

(* A request is handed to a proxy that is registered at that moment for a  *)
(* route that matches it, even if the routes or the members have changed   *)
(* since its endpoint was chosen: the endpoint is looked up again in the   *)
(* group found last (createConnByEndpoint).                                *)
HandedToRegistered ==
  [][\A r \in HTTPRequest :
       rq[r].phase # "picked" /\ rq'[r].phase = "picked"
       => \E route \in Held(rq'[r].by) : Suits(route, HTTPAsk[r])]_httpVars

(* The choices are balanced: while the members stay the same, no proxy has *)
(* been chosen twice more than another once all counts are used up.        *)
Balanced ==
  \A o \in HTTPObject :
    (\A r \in HTTPRequest : rq[r].phase = "counted" => rq[r].route # ToGroup(o))
    => \A p, q \in Range(pxyNames[o]) : picks[o][p] <= picks[o][q] + 1
-----------------------------------------------------------------------------
(***************************************************************************)
(* A route table under additions and removals, compared with what a        *)
(* reader of the documentation expects of a lookup: the route that matches *)
(* the request and is the most specific.                                   *)
(***************************************************************************)

CONSTANTS Location,   \* locations of routes
          Request,    \* requests: host, path and user
          MaxRoutes   \* bound on the routes of the table

VARIABLE routeTable

Route == [domain : Domain, location : Location, user : HTTPUser]

Has(r) == RouteExist(routeTable, r.domain, r.location, r.user)
Present == {r \in Route : Has(r)}

RoutesInit == routeTable = EmptyTable

AddRoute(r) ==
  /\ ~Has(r) /\ Cardinality(Present) < MaxRoutes
  /\ routeTable' = RouteAdd(routeTable, r.domain, r.location, r.user, r)

DelRoute(r) ==
  /\ Has(r)
  /\ routeTable' = RouteDel(routeTable, r.domain, r.location, r.user)

RoutesNext == \E r \in Route : AddRoute(r) \/ DelRoute(r)
-----------------------------------------------------------------------------
(* What it means for a route to match a request, and to match it better.   *)
ProperTails(host) == {SubSeq(host, i, Len(host)) : i \in 2..(Len(host) - 1)}
Covers(domain, host) == \/ domain = host \/ domain = Catchall
                        \/ \E s \in ProperTails(host) : domain = Catchall \o s
Matches(r, q) == /\ Covers(r.domain, q.host) /\ r.user \in {q.user, AllUsers}
                 /\ IsPrefix(r.location, q.path)

Specificity(domain, host) == IF domain = host THEN Len(host) + 1 ELSE Len(domain)
Better(r, s, q) ==
  LET dr == Specificity(r.domain, q.host)
      ds == Specificity(s.domain, q.host)
  IN  \/ dr > ds
      \/ dr = ds /\ r.user = q.user /\ s.user # q.user
      \/ dr = ds /\ r.user = s.user /\ Len(r.location) > Len(s.location)

(* A request is routed to the most specific of the routes that match it:   *)
(* the host before its wildcards, longer wildcards first, "*" last, the    *)
(* user's routes before the routes for all users, the longest location     *)
(* first; in whatever order the routes were added and removed (getByRoute, *)
(* which relies on Add's sort).                                            *)
MostSpecificRoute ==
  \A q \in Request :
    LET found == GetByRoute(routeTable, q.host, q.path, q.user)
        match == {r \in Present : Matches(r, q)}
    IN  IF match = {} THEN found = NoRoute
        ELSE found \in match /\ \A s \in match \ {found} : Better(found, s, q)

(* The routes, the groups and the proxies agree while proxies come and go  *)
(* (RegisterRoute, Register and UnRegister), a request is handed to a      *)
(* proxy that is registered for it, a group shares its requests out        *)
(* evenly, and a lookup finds the most specific route there is             *)
(* (getByRoute).                                                           *)
HTTPRouted ==
  []RoutesExact /\ []Balanced /\ HandedToRegistered /\ []MostSpecificRoute
=============================================================================

--------------------------- MODULE ListenerGroup ---------------------------
(***************************************************************************)
(* Load balancing groups that share a listener (server/group: base.go,     *)
(* listener.go, registry.go, tcp.go, https.go, tcpmux.go).  The proxies of *)
(* a group listen on one endpoint, a TCP port of the port manager or a     *)
(* route of a muxer; a worker accepts the connections and any member may   *)
(* receive one.                                                            *)
(*                                                                         *)
(* A group object lives from the first Listen to the close of its last     *)
(* listener; another object may then take the name.  Listen and            *)
(* closeListener hold the object's mutex, so each is one step; finding the *)
(* object and listening on it are two.                                     *)
(***************************************************************************)
EXTENDS PortManager

CONSTANTS GroupName,  \* group names
          KindOf,     \* "tcp", "https" or "tcpmux"
          GroupConfs, \* configurations of the owners, the proxies: group,
                      \* remote port or, for a muxer, domain, and group key
          Object,     \* group objects
          User        \* user connections

ASSUME GroupAssumption ==
  /\ \A c \in GroupConfs, p \in Owner :
       c[p].group \in GroupName /\ (KindOf[c[p].group] # "tcp" => c[p].want \in Port)
  /\ None \notin Object /\ {None, "gone"} \cap User = {} /\ None # "gone"
  /\ IsFiniteSet(Owner) /\ IsFiniteSet(Object) /\ Cardinality(Owner) <= Cardinality(Object)

VARIABLES
  groupConf,  \* the configuration of each proxy
  groups,     \* groupRegistry.groups
  lns,        \* baseGroup.lns, as a set
  opener,     \* the proxy whose parameters the object has
  realPort,   \* TCPGroup.realPort
  listener,   \* the position of a proxy: looking, listening, ...
  found,      \* the object Listen has looked up
  accepting,  \* the proxies whose accept loop runs
  worker,     \* the connection a worker hands over; None: it accepts
  backlog,    \* connections waiting at the real listener of an object
  user,       \* the fate of a user connection
  pm,         \* the TCP port manager
  routes      \* the object behind each route of the muxer

endpointVars == <<pm, routes>>
connVars == <<worker, backlog, user>>
groupVars == <<groupConf, groups, lns, opener, realPort, listener, found, accepting,
               worker, backlog, user, pm, routes>>

Gone == "gone"  \* a worker that has returned

GroupTypeOK ==
  /\ groupConf \in GroupConfs
  /\ groups \in [GroupName -> Object \cup {None}]
  /\ lns \in [Object -> SUBSET Owner]
  /\ opener \in [Object -> Owner \cup {None}]
  /\ realPort \in [Object -> Port \cup {None}]
  /\ listener \in [Owner -> {"idle", "looking", "failed", "open", "closing", "closed"}]
  /\ found \in [Owner -> Object \cup {None}]
  /\ accepting \in SUBSET Owner
  /\ worker \in [Object -> User \cup {None, Gone}]
  /\ backlog \in [Object -> SUBSET User]
  /\ user \in [User -> {"none", "waiting", "held", "served", "closed"}]
  /\ pm \in Managers
  /\ routes \in [Port -> Object \cup {None}]

GroupInit ==
  /\ groupConf \in GroupConfs
  /\ groups = [g \in GroupName |-> None]
  /\ lns = [o \in Object |-> {}]
  /\ opener = [o \in Object |-> None] /\ realPort = [o \in Object |-> None]
  /\ listener = [p \in Owner |-> "idle"] /\ found = [p \in Owner |-> None]
  /\ accepting = {}
  /\ worker = [o \in Object |-> Gone] /\ backlog = [o \in Object |-> {}]
  /\ user = [u \in User |-> "none"]
  /\ pm = NewManager /\ routes = [q \in Port |-> None]

Unused == {o \in Object : opener[o] = None /\ \A g \in GroupName : groups[g] # o
                          /\ \A p \in Owner : found[p] # o}
-----------------------------------------------------------------------------
(* getOrCreate: the first half of Listen.                                  *)
GetOrCreate(p) ==
  /\ listener[p] = "idle"
  /\ LET o == IF groups[groupConf[p].group] # None THEN groups[groupConf[p].group]
              ELSE CHOOSE r \in Object : r \in Unused
     IN  /\ groups' = [groups EXCEPT ![groupConf[p].group] = o]
         /\ found' = [found EXCEPT ![p] = o]
  /\ listener' = [listener EXCEPT ![p] = "looking"]
  /\ UNCHANGED <<lns, opener, realPort, accepting, connVars, endpointVars>>

(* isCurrent: the object has not been removed since.                       *)
AnyObject(p) == TRUE
IsCurrent(p) == groups[groupConf[p].group] = found[p]

(* errGroupStale: Listen starts over.                                      *)
SameObject(p) == found
Forgotten(p) == [found EXCEPT ![p] = None]
Stale(p) ==
  /\ listener[p] = "looking" /\ ~IsCurrent(p)
  /\ found' = Forgotten(p)
  /\ listener' = [listener EXCEPT ![p] = IF found'[p] = None THEN "idle" ELSE @]
  /\ UNCHANGED <<groups, lns, opener, realPort, accepting, connVars, endpointVars>>

(* initBase, newListener and the new worker.                               *)
Opened(p) ==
  LET o == found[p]
  IN  /\ opener' = [opener EXCEPT ![o] = p]
      /\ lns' = [lns EXCEPT ![o] = {p}]
      /\ worker' = [worker EXCEPT ![o] = None]
      /\ listener' = [listener EXCEPT ![p] = "open"]
      /\ accepting' = accepting \cup {p}
      /\ UNCHANGED <<groups, found, backlog, user>>

Refused(p) ==
  /\ listener' = [listener EXCEPT ![p] = "failed"]
  /\ UNCHANGED <<groups, lns, opener, found, realPort, accepting, connVars, routes>>

Kind(p) == KindOf[groupConf[p].group]
First(p) == listener[p] = "looking" /\ IsCurrent(p) /\ lns[found[p]] = {}

(* TCPGroup.Listen of the first proxy: acquire a port and listen on it; a  *)
(* failed listen releases the port.                                        *)
ListenFirstTCP(p) ==
  /\ First(p)
  /\ \E avail \in SUBSET {q \in Port : \A o \in Object : lns[o] = {} \/ realPort[o] # q} :
     \E q \in Acquirable(pm, p, groupConf[p].want, avail) :
       \/ q = None /\ pm' = pm /\ Refused(p)
       \/ q # None /\ pm' = Released(Marked(pm, p, q), q) /\ Refused(p)
       \/ /\ q # None /\ pm' = Marked(pm, p, q)
          /\ realPort' = [realPort EXCEPT ![found[p]] = q]
          /\ UNCHANGED routes /\ Opened(p)

(* Listen of the first proxy on a muxer, which refuses a route it has.     *)
ListenFirstMux(p) ==
  /\ First(p)
  /\ \/ routes[groupConf[p].want] # None /\ UNCHANGED pm /\ Refused(p)
     \/ /\ routes[groupConf[p].want] = None
        /\ routes' = [routes EXCEPT ![groupConf[p].want] = found[p]]
        /\ UNCHANGED <<realPort, pm>> /\ Opened(p)

(* Listen of a further proxy: the parameters and the key must be equal.    *)
Alike(p, q) == /\ groupConf[p].want = groupConf[q].want
               /\ groupConf[p].key = groupConf[q].key
ListenMore(p) ==
  LET o == found[p]
  IN  /\ listener[p] = "looking" /\ IsCurrent(p) /\ lns[o] # {}
      /\ \/ ~Alike(p, opener[o]) /\ UNCHANGED pm /\ Refused(p)
         \/ /\ Alike(p, opener[o])
            /\ lns' = [lns EXCEPT ![o] = @ \cup {p}]
            /\ listener' = [listener EXCEPT ![p] = "open"]
            /\ accepting' = accepting \cup {p}
            /\ UNCHANGED <<groups, opener, found, realPort, connVars, endpointVars>>

(* The three kinds of Listen, each a loop over getOrCreate and the group's *)
(* own Listen.                                                             *)
ListenTCP(p) == Kind(p) = "tcp" /\ (Stale(p) \/ ListenFirstTCP(p) \/ ListenMore(p))
ListenHTTPS(p) == Kind(p) = "https" /\ (Stale(p) \/ ListenFirstMux(p) \/ ListenMore(p))
ListenTCPMux(p) == Kind(p) = "tcpmux" /\ (Stale(p) \/ ListenFirstMux(p) \/ ListenMore(p))

(* Listener.Close closes closeCh ...                                       *)
CloseListener(p) ==
  /\ listener[p] = "open"
  /\ listener' = [listener EXCEPT ![p] = "closing"]
  /\ UNCHANGED <<groups, lns, opener, realPort, found, accepting, connVars, endpointVars>>

(* ... and calls closeListener: the last one closes acceptCh and the real  *)
(* listener, which resets the connections not yet accepted, gives the      *)
(* endpoint back and removes the object.                                   *)
RemoveIf(o) == [g \in GroupName |-> IF groups[g] = o THEN None ELSE groups[g]]
OnClose(p) ==
  LET o == found[p]
      rest == lns[o] \ {p}
  IN  /\ listener[p] = "closing"
      /\ listener' = [listener EXCEPT ![p] = "closed"]
      /\ lns' = [lns EXCEPT ![o] = rest]
      /\ \/ rest # {} /\ UNCHANGED <<groups, backlog, user, endpointVars>>
         \/ /\ rest = {}
            /\ backlog' = [backlog EXCEPT ![o] = {}]
            /\ user' = [u \in User |-> IF u \in backlog[o] THEN "closed" ELSE user[u]]
            /\ pm' = Released(pm, realPort[o])
            /\ routes' = [q \in Port |-> IF routes[q] = o THEN None ELSE routes[q]]
            /\ groups' = RemoveIf(o)
      /\ UNCHANGED <<opener, realPort, found, accepting, worker>>
-----------------------------------------------------------------------------
(* The operating system, or the muxer, queues a user's connection at an    *)
(* open endpoint.                                                          *)
Connect(u, o) ==
  /\ user[u] = "none" /\ lns[o] # {}
  /\ user' = [user EXCEPT ![u] = "waiting"]
  /\ backlog' = [backlog EXCEPT ![o] = @ \cup {u}]
  /\ UNCHANGED <<groups, lns, opener, realPort, listener, found, accepting, worker, endpointVars>>

(* baseGroup.worker: accept a connection, then send it on acceptCh, which  *)
(* is closed once the object has no listener.                              *)
WorkerAccepts(o, u) ==
  /\ worker[o] = None /\ u \in backlog[o]
  /\ worker' = [worker EXCEPT ![o] = u]
  /\ backlog' = [backlog EXCEPT ![o] = @ \ {u}]
  /\ user' = [user EXCEPT ![u] = "held"]
  /\ UNCHANGED <<groups, lns, opener, realPort, listener, found, accepting, endpointVars>>

(* The receiving end: Listener.Accept of any proxy of the object, even one *)
(* that is closing, for its select may choose either channel.              *)
Accept(o, p) ==
  /\ worker[o] \in User /\ lns[o] # {}
  /\ p \in accepting /\ found[p] = o
  /\ worker' = [worker EXCEPT ![o] = None]
  /\ user' = [user EXCEPT ![worker[o]] = "served"]
  /\ UNCHANGED <<groups, lns, opener, realPort, listener, found, accepting, backlog, endpointVars>>

(* The send on the closed channel panics: the worker closes the connection *)
(* and returns; without a connection, Accept of the real listener fails.   *)
Dropped(u) == "held"
Closed(u) == "closed"
WorkerEnds(o) ==
  /\ opener[o] # None /\ lns[o] = {} /\ worker[o] # Gone
  /\ worker' = [worker EXCEPT ![o] = Gone]
  /\ user' = [u \in User |-> IF worker[o] = u THEN Closed(u) ELSE user[u]]
  /\ UNCHANGED <<groups, lns, opener, realPort, listener, found, accepting, backlog, endpointVars>>

(* Accept returns ErrListenerClosed, for closeCh or acceptCh.              *)
AcceptEnds(p) ==
  /\ p \in accepting
  /\ listener[p] \in {"closing", "closed"} \/ lns[found[p]] = {}
  /\ accepting' = accepting \ {p}
  /\ UNCHANGED <<groups, lns, opener, realPort, listener, found, connVars, endpointVars>>

ListenSteps(p) == GetOrCreate(p) \/ ListenTCP(p) \/ ListenHTTPS(p) \/ ListenTCPMux(p)
                  \/ OnClose(p) \/ AcceptEnds(p)
WorkerSteps(o) == \/ \E u \in User : WorkerAccepts(o, u)
                  \/ \E p \in Owner : Accept(o, p)
                  \/ WorkerEnds(o)

GroupNext ==
  /\ \/ \E p \in Owner : ListenSteps(p) \/ CloseListener(p)
     \/ \E o \in Object : WorkerSteps(o) \/ \E u \in User : Connect(u, o)
  /\ UNCHANGED groupConf

GroupSpec == GroupInit /\ [][GroupNext]_groupVars
-----------------------------------------------------------------------------
(* The proxies whose Listen succeeded hold the endpoint they were promised *)
(* and can be found: their object is the one of the registry, the port     *)
(* manager or the muxer has its endpoint, its worker runs; and no endpoint *)
(* is held by an object without proxies.                                   *)
MembersHoldEndpoint ==
  /\ \A o \in Object : lns[o] # {} =>
       LET g == groupConf[opener[o]].group
       IN  /\ groups[g] = o /\ worker[o] # Gone
           /\ \A p \in lns[o] : Alike(p, opener[o]) /\ groupConf[p].group = g
           /\ IF KindOf[g] = "tcp" THEN pm.used[realPort[o]] # None
                                   ELSE routes[groupConf[opener[o]].want] = o
  /\ \A q \in Port :
       /\ pm.used[q] # None => \E o \in Object : lns[o] # {} /\ realPort[o] = q
       /\ routes[q] # None => lns[routes[q]] # {}

(* A connection the worker has accepted is handed to a proxy or closed: it *)
(* is never left open with nobody to read it, even if the last proxy       *)
(* leaves while the worker is sending it.                                  *)
AcceptedSettles ==
  \A u \in User : []<>(user[u] \notin {"waiting", "held"})

(* Listen ends: a proxy does not chase stale objects for ever.             *)
ListenSettles ==
  \A p \in Owner : []<>(listener[p] # "looking")

GroupFairness ==
  /\ \A p \in Owner : WF_groupVars(ListenSteps(p) /\ UNCHANGED groupConf)
  /\ \A o \in Object : WF_groupVars(WorkerSteps(o) /\ UNCHANGED groupConf)
GroupFairSpec == GroupSpec /\ GroupFairness
=============================================================================

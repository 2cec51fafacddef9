---------------------------- MODULE GroupProofs -----------------------------
(***************************************************************************)
(* For any proxies, groups, objects, ports and user connections: whoever   *)
(* is a member of a group (server/group) has the port or the route of the  *)
(* group, and no endpoint is kept by a group without members.              *)
(***************************************************************************)
EXTENDS ListenerGroup, TLAPS

-----------------------------------------------------------------------------
GroupOf(p) == groupConf[p].group
WantOf(p) == groupConf[p].want
Member == {"open", "closing"}

(* A proxy knows an object from its lookup on, and the object knows its    *)
(* members and who opened it.                                              *)
FoundOK ==
  \A p \in Owner :
    /\ listener[p] = "idle" <=> found[p] = None
    /\ listener[p] \in Member => p \in lns[found[p]]
    /\ \A o \in Object : p \in lns[o] => found[p] = o /\ listener[p] \in Member

OpenerOK ==
  \A o \in Object :
    /\ opener[o] # None => found[opener[o]] = o /\ listener[opener[o]] \in {"open", "closing", "closed"}
    /\ opener[o] = None => lns[o] = {} /\ realPort[o] = None

(* An object stands in the registry under one name, that of the proxies    *)
(* that found it; once opened it is there as long as it has members.       *)
RegistryOK ==
  \A g \in GroupName : groups[g] # None =>
    /\ \E p \in Owner : found[p] = groups[g]
    /\ \A p \in Owner : found[p] = groups[g] => GroupOf(p) = g
    /\ opener[groups[g]] # None => lns[groups[g]] # {}

(* The members of an object are alike, and it has its endpoint.            *)
HoldsEndpoint(o) ==
  /\ groups[GroupOf(opener[o])] = o /\ worker[o] # Gone
  /\ \A p \in lns[o] : /\ WantOf(p) = WantOf(opener[o]) /\ groupConf[p].key = groupConf[opener[o]].key
                       /\ GroupOf(p) = GroupOf(opener[o])
  /\ KindOf[GroupOf(opener[o])] = "tcp" => realPort[o] \in Port /\ pm.used[realPort[o]] # None
  /\ KindOf[GroupOf(opener[o])] # "tcp" => realPort[o] = None /\ routes[WantOf(opener[o])] = o

MembersOK == \A o \in Object : lns[o] # {} => HoldsEndpoint(o)

(* An endpoint belongs to one object that has members.                     *)
EndpointsOK ==
  /\ \A q \in Port : /\ pm.used[q] # None => \E o \in Object : lns[o] # {} /\ realPort[o] = q
                     /\ routes[q] # None => lns[routes[q]] # {}
  /\ \A o, r \in Object : lns[o] # {} /\ lns[r] # {} /\ realPort[o] = realPort[r] /\ realPort[o] # None => o = r

GroupIInv == GroupTypeOK /\ FoundOK /\ OpenerOK /\ RegistryOK /\ MembersOK /\ EndpointsOK

GroupTypes ==
  /\ groupConf \in GroupConfs
  /\ groups \in [GroupName -> Object \cup {None}]
  /\ lns \in [Object -> SUBSET Owner]
  /\ opener \in [Object -> Owner \cup {None}]
  /\ realPort \in [Object -> Port \cup {None}]
  /\ listener \in [Owner -> {"idle", "looking", "failed", "open", "closing", "closed"}]
  /\ found \in [Owner -> Object \cup {None}]
  /\ pm \in Managers
  /\ routes \in [Port -> Object \cup {None}]

ConnTypes ==
  /\ accepting \in SUBSET Owner
  /\ worker \in [Object -> User \cup {None, Gone}]
  /\ backlog \in [Object -> SUBSET User]
  /\ user \in [User -> {"none", "waiting", "held", "served", "closed"}]

(* The types are those of the groups and those of their connections.       *)
LEMMA GroupTypesBoth == GroupTypeOK <=> GroupTypes /\ ConnTypes
BY Zenon DEF GroupTypeOK, GroupTypes, ConnTypes

(* The port manager, as far as a group needs it.                           *)
LEMMA GroupAcquires ==
  ASSUME NEW m \in Managers, NEW p \in Owner, NEW want, NEW avail \in SUBSET Port,
         NEW q \in Acquirable(m, p, want, avail), q # None
  PROVE  q \in avail
BY Zenon DEF Acquirable

(* A port that is marked used leaves a port manager, and only it has a new *)
(* user.                                                                   *)
LEMMA GroupMarks ==
  ASSUME NEW m \in Managers, NEW p \in Owner, NEW q \in Port
  PROVE  /\ Marked(m, p, q) \in Managers
         /\ Marked(m, p, q).used = [m.used EXCEPT ![q] = p]
<1>1. Marked(m, p, q) \in Managers BY ZenonT(30), PortAssumption DEF Marked, Managers
<1>2. Marked(m, p, q).used = [m.used EXCEPT ![q] = p] BY Zenon DEF Marked, Managers
<1> QED BY Zenon, <1>1, <1>2

(* So does a port that is released; releasing none changes nothing.        *)
LEMMA GroupReleases ==
  ASSUME NEW m \in Managers, NEW q \in Port \cup {None}
  PROVE  /\ Released(m, q) \in Managers
         /\ q \in Port => Released(m, q).used = [m.used EXCEPT ![q] = None]
         /\ q = None => Released(m, q) = m
<1>1. CASE q = None \/ m.used[q] = None
  <2>1. Released(m, q) = m BY Zenon, <1>1 DEF Released
  <2>2. q \in Port => m.used = [m.used EXCEPT ![q] = None]
    BY Zenon, <1>1, PortAssumption DEF Managers
  <2> QED BY Zenon, <2>1, <2>2
<1>2. CASE q \in Port /\ m.used[q] # None
  <2> DEFINE n == NameOf[m.used[q]]
             r == [m EXCEPT !.free = @ \cup {q}, !.used[q] = None,
                            !.closed[n] = @ \/ m.reserved[n] = q]
  <2>1. Released(m, q) = r BY Zenon, <1>2, PortAssumption DEF Released
  <2>2. m.used \in [Port -> Owner \cup {None}] /\ n \in PortName
    BY Zenon, <1>2, PortAssumption DEF Managers
  <2>3. r \in Managers BY ZenonT(30), <1>2, <2>2, PortAssumption DEF Managers
  <2>4. r.used = [m.used EXCEPT ![q] = None] BY Zenon DEF Managers
  <2> QED BY Zenon, <1>2, <2>1, <2>3, <2>4, PortAssumption
<1> QED BY Zenon, <1>1, <1>2

(* The inductive invariant holds when no proxy has asked for its group.    *)
LEMMA GroupInitial == GroupInit => GroupIInv
<1> SUFFICES ASSUME GroupInit PROVE GroupIInv BY Zenon
<1>1. pm \in Managers /\ \A q \in Port : pm.used[q] = None BY Zenon DEF GroupInit, NewManager, Managers
<1>2. groups \in [GroupName -> Object \cup {None}] /\ \A g \in GroupName : groups[g] = None BY Zenon DEF GroupInit
<1>3. lns \in [Object -> SUBSET Owner] /\ \A o \in Object : lns[o] = {} BY Zenon DEF GroupInit
<1>4. /\ opener \in [Object -> Owner \cup {None}] /\ realPort \in [Object -> Port \cup {None}]
      /\ \A o \in Object : opener[o] = None /\ realPort[o] = None
  BY Zenon DEF GroupInit
<1>5. /\ listener \in [Owner -> {"idle", "looking", "failed", "open", "closing", "closed"}]
      /\ found \in [Owner -> Object \cup {None}] /\ \A p \in Owner : listener[p] = "idle" /\ found[p] = None
  BY Zenon DEF GroupInit
<1>6. routes \in [Port -> Object \cup {None}] /\ \A q \in Port : routes[q] = None BY Zenon DEF GroupInit
<1>7. GroupTypes BY Zenon, <1>1, <1>2, <1>3, <1>4, <1>5, <1>6 DEF GroupTypes, GroupInit
<1>8. ConnTypes BY Zenon DEF GroupInit, ConnTypes
<1>9. FoundOK BY Zenon, <1>3, <1>5 DEF FoundOK, Member
<1>10. OpenerOK BY Zenon, <1>3, <1>4 DEF OpenerOK
<1>11. RegistryOK BY Zenon, <1>2 DEF RegistryOK
<1>12. MembersOK BY Zenon, <1>3 DEF MembersOK
<1>13. EndpointsOK BY Zenon, <1>1, <1>3, <1>6 DEF EndpointsOK
<1> QED BY Zenon, <1>7, <1>8, <1>9, <1>10, <1>11, <1>12, <1>13, GroupTypesBoth DEF GroupIInv


(* The parts of the invariant that a step keeps, put together.             *)
LEMMA ConnOnly ==
  ASSUME GroupIInv, UNCHANGED <<groupConf, groups, lns, opener, realPort, listener, found, pm, routes>>,
         ConnTypes', \A o \in Object : lns[o] # {} => worker'[o] # Gone
  PROVE  GroupIInv'
<1>1. GroupTypes' BY Zenon DEF GroupIInv, GroupTypeOK, GroupTypes
<1>2. GroupTypeOK' BY Zenon, <1>1 DEF GroupTypeOK, GroupTypes, ConnTypes
<1>3. FoundOK' BY Zenon DEF GroupIInv, FoundOK
<1>4. OpenerOK' BY Zenon DEF GroupIInv, OpenerOK
<1>5. RegistryOK' BY Zenon DEF GroupIInv, RegistryOK, GroupOf
<1>6. MembersOK' BY DEF GroupIInv, MembersOK, HoldsEndpoint, GroupOf, WantOf
<1>7. EndpointsOK' BY Zenon DEF GroupIInv, EndpointsOK
<1> QED BY Zenon, <1>2, <1>3, <1>4, <1>5, <1>6, <1>7 DEF GroupIInv

(* What the invariant says, clause by clause.                              *)
LEMMA GroupFacts ==
  ASSUME GroupIInv
  PROVE  /\ GroupTypes /\ ConnTypes
         /\ \A p \in Owner : GroupOf(p) \in GroupName /\ (KindOf[GroupOf(p)] # "tcp" => WantOf(p) \in Port)
         /\ \A p \in Owner : listener[p] = "idle" <=> found[p] = None
         /\ \A p \in Owner : listener[p] \in Member => p \in lns[found[p]]
         /\ \A p \in Owner, o \in Object : p \in lns[o] => found[p] = o /\ listener[p] \in Member
         /\ \A o \in Object : opener[o] # None =>
               found[opener[o]] = o /\ listener[opener[o]] \in {"open", "closing", "closed"}
         /\ \A o \in Object : opener[o] = None => lns[o] = {} /\ realPort[o] = None
BY Zenon, GroupAssumption, GroupTypesBoth DEF GroupIInv, FoundOK, OpenerOK, GroupTypes, GroupOf, WantOf


(* An object with members was opened by a proxy and has its endpoint.      *)
LEMMA LiveFacts ==
  ASSUME GroupIInv, NEW r \in Object, lns[r] # {}
  PROVE  /\ opener[r] \in Owner /\ GroupOf(opener[r]) \in GroupName
         /\ HoldsEndpoint(r) /\ groups[GroupOf(opener[r])] = r
<1>1. opener[r] # None BY Zenon DEF GroupIInv, OpenerOK
<1>2. opener \in [Object -> Owner \cup {None}] BY Zenon DEF GroupIInv, GroupTypeOK
<1>3. opener[r] \in Owner BY Zenon, <1>1, <1>2
<1>4. HoldsEndpoint(r) BY Zenon DEF GroupIInv, MembersOK
<1>5. GroupOf(opener[r]) \in GroupName BY Zenon, <1>3, GroupFacts
<1> QED BY Zenon, <1>3, <1>4, <1>5 DEF HoldsEndpoint

(* A proxy looks up its group, or makes a new object for it.               *)
LEMMA GetStep ==
  ASSUME GroupIInv, NEW p \in Owner, GetOrCreate(p), groupConf' = groupConf,
         \E r \in Object : r \in Unused
  PROVE  GroupIInv'
<1>t. GroupTypes /\ ConnTypes BY Zenon, GroupFacts
<1>f. /\ \A v \in Owner : GroupOf(v) \in GroupName
      /\ \A v \in Owner : listener[v] = "idle" <=> found[v] = None
      /\ \A v \in Owner : listener[v] \in Member => v \in lns[found[v]]
      /\ \A v \in Owner, r \in Object : v \in lns[r] => found[v] = r /\ listener[v] \in Member
      /\ \A r \in Object : opener[r] # None =>
               found[opener[r]] = r /\ listener[opener[r]] \in {"open", "closing", "closed"}
      /\ \A r \in Object : opener[r] = None => lns[r] = {} /\ realPort[r] = None
  BY Zenon, GroupFacts
<1>n. None \notin Object BY Zenon, GroupAssumption
<1> DEFINE g == GroupOf(p)
<1>1. PICK o \in Object : /\ groups' = [groups EXCEPT ![g] = o] /\ found' = [found EXCEPT ![p] = o]
                          /\ groups[g] = o \/ (groups[g] = None /\ o \in Unused)
  <2> DEFINE o == IF groups[groupConf[p].group] # None THEN groups[groupConf[p].group]
                  ELSE CHOOSE r \in Object : r \in Unused
  <2>1. groups' = [groups EXCEPT ![groupConf[p].group] = o] /\ found' = [found EXCEPT ![p] = o] /\ listener[p] = "idle"
    BY Zenon DEF GetOrCreate
  <2>2. \E r \in Object : r \in Unused BY Zenon
  <2>3. o \in Object /\ (groups[groupConf[p].group] = o \/ (groups[groupConf[p].group] = None /\ o \in Unused))
    <3>1. CASE groups[groupConf[p].group] # None BY <1>f, <1>t, <3>1 DEF GroupTypes, GroupOf
    <3>2. CASE groups[groupConf[p].group] = None
      <4>1. o = CHOOSE r \in Object : r \in Unused BY Zenon, <3>2
      <4> QED BY Zenon, <2>2, <4>1
    <3> QED BY Zenon, <3>1, <3>2
  <2> HIDE DEF o
  <2> QED BY Zenon, <2>1, <2>3 DEF GroupOf
<1>2. /\ listener[p] = "idle" /\ listener' = [listener EXCEPT ![p] = "looking"]
      /\ UNCHANGED <<lns, opener, realPort, accepting, worker, backlog, user, pm, routes>>
  BY Zenon DEF GetOrCreate, connVars, endpointVars
<1>3. g \in GroupName BY Zenon, <1>f
<1> HIDE DEF g
<1>4. /\ groups' \in [GroupName -> Object \cup {None}] /\ groups'[g] = o
      /\ \A h \in GroupName : h # g => groups'[h] = groups[h]
  BY Zenon, <1>1, <1>3, <1>t DEF GroupTypes
<1>5. /\ found' \in [Owner -> Object \cup {None}] /\ found'[p] = o /\ \A v \in Owner : v # p => found'[v] = found[v]
      /\ listener' \in [Owner -> {"idle", "looking", "failed", "open", "closing", "closed"}]
      /\ listener'[p] = "looking" /\ \A v \in Owner : v # p => listener'[v] = listener[v]
  BY Zenon, <1>1, <1>2, <1>t DEF GroupTypes
<1>6. found[p] = None /\ \A r \in Object : p \notin lns[r] /\ opener[r] # p BY <1>2, <1>f, <1>n, PortAssumption
<1>7. GroupTypeOK' BY Zenon, <1>2, <1>4, <1>5, <1>f, <1>t, GroupTypesBoth DEF GroupTypes, ConnTypes, GroupTypeOK
<1>8. FoundOK'
  <2>1. /\ \A v \in Owner : listener'[v] = "idle" <=> found'[v] = None
        /\ \A v \in Owner : listener'[v] \in Member => v # p /\ listener[v] \in Member
    BY <1>5, <1>6, <1>f, <1>n DEF Member
  <2>2. \A v \in Owner : listener'[v] \in Member => v \in lns'[found'[v]] BY Zenon, <1>2, <1>5, <1>f, <2>1
  <2>3. \A v \in Owner, r \in Object : v \in lns'[r] => v # p /\ v \in lns[r] BY Zenon, <1>2, <1>6
  <2>4. ASSUME NEW v \in Owner, NEW r \in Object, v \in lns'[r]
        PROVE  found'[v] = r /\ listener'[v] \in Member
    <3>1. v # p /\ v \in lns[r] BY Zenon, <2>3, <2>4
    <3>2. found[v] = r /\ listener[v] \in Member BY Zenon, <1>f, <3>1
    <3>3. found'[v] = found[v] /\ listener'[v] = listener[v] BY Zenon, <1>5, <3>1
    <3> QED BY Zenon, <3>2, <3>3
  <2> QED BY Zenon, <2>1, <2>2, <2>4 DEF FoundOK, Member
<1>9. OpenerOK'
  <2>1. \A r \in Object : opener[r] # None => opener[r] \in Owner /\ opener[r] # p BY <1>6, <1>f, <1>t DEF GroupTypes
  <2> QED BY <1>2, <1>5, <1>f, <2>1 DEF OpenerOK
<1>10. RegistryOK'
  <2> SUFFICES ASSUME NEW h \in GroupName, groups'[h] # None
               PROVE  /\ \E v \in Owner : found'[v] = groups'[h]
                      /\ \A v \in Owner : found'[v] = groups'[h] => groupConf[v].group = h
                      /\ opener[groups'[h]] # None => lns[groups'[h]] # {}
    BY Zenon, <1>2 DEF RegistryOK, GroupOf
  <2>r. \A k \in GroupName : groups[k] # None =>
          /\ \E v \in Owner : found[v] = groups[k]
          /\ \A v \in Owner : found[v] = groups[k] => groupConf[v].group = k
          /\ opener[groups[k]] # None => lns[groups[k]] # {}
    BY Zenon DEF GroupIInv, RegistryOK, GroupOf
  <2>u. o \in Unused => /\ opener[o] = None /\ \A k \in GroupName : groups[k] # o
                        /\ \A v \in Owner : found[v] # o
    BY Zenon DEF Unused
  <2>g. groupConf[p].group = g BY Zenon DEF g, GroupOf
  <2>1. CASE h = g
    <3>1. \A v \in Owner : found[v] = o => groupConf[v].group = g
      BY <1>1, <1>3, <1>n, <2>r, <2>u
    <3>2. opener[o] # None => lns[o] # {} BY <1>1, <1>3, <1>n, <2>r, <2>u
    <3> QED BY Zenon, <1>4, <1>5, <2>1, <2>g, <3>1, <3>2
  <2>2. CASE h # g
    <3>1. groups'[h] = groups[h] BY Zenon, <1>4, <2>2
    <3>2. PICK v \in Owner : found[v] = groups[h] /\ groupConf[v].group = h BY Zenon, <2>r, <3>1
    <3>3. v # p BY Zenon, <1>6, <3>1, <3>2
    <3>4. groups[h] # o
      <4>1. CASE o \in Unused BY Zenon, <2>u, <4>1
      <4>2. CASE groups[g] = o BY <1>3, <1>n, <2>2, <2>r, <3>2, <4>2
      <4> QED BY Zenon, <1>1, <4>1, <4>2
    <3> QED BY <1>5, <2>r, <3>1, <3>2, <3>3, <3>4
  <2> QED BY Zenon, <2>1, <2>2
<1>11. MembersOK'
  <2>1. \A r \in Object : lns[r] # {} => groups[GroupOf(opener[r])] = r /\ opener[r] \in Owner
    BY Zenon, LiveFacts
  <2>2. \A r \in Object : lns[r] # {} => groups'[GroupOf(opener[r])] = r
    <3> SUFFICES ASSUME NEW r \in Object, lns[r] # {} PROVE groups'[GroupOf(opener[r])] = r BY Zenon
    <3>1. GroupOf(opener[r]) \in GroupName /\ groups[GroupOf(opener[r])] = r BY Zenon, <1>f, <2>1
    <3>2. CASE GroupOf(opener[r]) = g
      <4>1. groups[g] = o BY Zenon, <1>1, <1>n, <3>1, <3>2
      <4> QED BY Zenon, <1>4, <3>1, <3>2, <4>1
    <3>3. CASE GroupOf(opener[r]) # g BY Zenon, <1>4, <3>1, <3>3
    <3> QED BY Zenon, <3>2, <3>3
  <2> QED BY <1>2, <2>2 DEF GroupIInv, MembersOK, HoldsEndpoint, GroupOf, WantOf
<1>12. EndpointsOK' BY Zenon, <1>2 DEF GroupIInv, EndpointsOK
<1> QED BY Zenon, <1>7, <1>8, <1>9, <1>10, <1>11, <1>12 DEF GroupIInv

(* A proxy that finds its object out of the registry looks for it again.   *)
LEMMA StaleStep ==
  ASSUME GroupIInv, NEW p \in Owner, Stale(p), groupConf' = groupConf
  PROVE  GroupIInv'
<1>t. GroupTypes /\ ConnTypes BY Zenon, GroupFacts
<1>f. /\ \A v \in Owner : GroupOf(v) \in GroupName
      /\ \A v \in Owner : listener[v] = "idle" <=> found[v] = None
      /\ \A v \in Owner : listener[v] \in Member => v \in lns[found[v]]
      /\ \A v \in Owner, r \in Object : v \in lns[r] => found[v] = r /\ listener[v] \in Member
      /\ \A r \in Object : opener[r] # None =>
               found[opener[r]] = r /\ listener[opener[r]] \in {"open", "closing", "closed"}
      /\ \A r \in Object : opener[r] = None => lns[r] = {} /\ realPort[r] = None
  BY Zenon, GroupFacts
<1>1. /\ listener[p] = "looking" /\ groups[GroupOf(p)] # found[p]
      /\ found' = [found EXCEPT ![p] = None]
      /\ listener' = [listener EXCEPT ![p] = IF found'[p] = None THEN "idle" ELSE listener[p]]
      /\ UNCHANGED <<groups, lns, opener, realPort, accepting, worker, backlog, user, pm, routes>>
  BY Zenon DEF Stale, IsCurrent, Forgotten, connVars, endpointVars, GroupOf
<1>2. /\ found' \in [Owner -> Object \cup {None}] /\ found'[p] = None /\ \A v \in Owner : v # p => found'[v] = found[v]
  BY Zenon, <1>1, <1>t DEF GroupTypes
<1>3. /\ listener' \in [Owner -> {"idle", "looking", "failed", "open", "closing", "closed"}]
      /\ listener'[p] = "idle" /\ \A v \in Owner : v # p => listener'[v] = listener[v]
  BY Zenon, <1>1, <1>2, <1>t DEF GroupTypes
<1>4. \A r \in Object : p \notin lns[r] /\ opener[r] # p BY <1>1, <1>f, PortAssumption DEF Member
<1>5. GroupTypeOK' BY Zenon, <1>1, <1>2, <1>3, <1>f, <1>t DEF GroupTypes, ConnTypes, GroupTypeOK
<1>6. FoundOK' BY <1>1, <1>2, <1>3, <1>4, <1>f DEF FoundOK, Member
<1>7. OpenerOK'
  <2>1. \A r \in Object : opener[r] # None => opener[r] \in Owner /\ opener[r] # p BY <1>4, <1>f, <1>t DEF GroupTypes
  <2> QED BY <1>1, <1>2, <1>3, <1>f, <2>1 DEF OpenerOK
<1>8. RegistryOK'
  <2> SUFFICES ASSUME NEW h \in GroupName, groups[h] # None
               PROVE  /\ \E v \in Owner : found'[v] = groups[h]
                      /\ \A v \in Owner : found'[v] = groups[h] => groupConf[v].group = h
                      /\ opener[groups[h]] # None => lns[groups[h]] # {}
    BY <1>1 DEF RegistryOK, GroupOf
  <2>1. /\ \E v \in Owner : found[v] = groups[h]
        /\ \A v \in Owner : found[v] = groups[h] => groupConf[v].group = h
        /\ opener[groups[h]] # None => lns[groups[h]] # {}
    BY Zenon DEF GroupIInv, RegistryOK, GroupOf
  <2>2. found[p] # groups[h] BY Zenon, <1>1, <2>1 DEF GroupOf
  <2> QED BY Zenon, <1>2, <2>1, <2>2
<1>9. MembersOK' BY <1>1 DEF GroupIInv, MembersOK, HoldsEndpoint, GroupOf, WantOf
<1>10. EndpointsOK' BY Zenon, <1>1 DEF GroupIInv, EndpointsOK
<1> QED BY Zenon, <1>5, <1>6, <1>7, <1>8, <1>9, <1>10 DEF GroupIInv

(* A proxy whose listener changes and is no member before or after.        *)
LEMMA RefusedStep ==
  ASSUME GroupIInv, NEW p \in Owner, listener[p] = "looking", Refused(p), groupConf' = groupConf,
         pm' \in Managers, pm'.used = pm.used
  PROVE  GroupIInv'
<1>t. GroupTypes /\ ConnTypes BY Zenon, GroupFacts
<1>f. /\ \A v \in Owner : listener[v] = "idle" <=> found[v] = None
      /\ \A v \in Owner : listener[v] \in Member => v \in lns[found[v]]
      /\ \A v \in Owner, r \in Object : v \in lns[r] => found[v] = r /\ listener[v] \in Member
      /\ \A r \in Object : opener[r] # None =>
               found[opener[r]] = r /\ listener[opener[r]] \in {"open", "closing", "closed"}
      /\ \A r \in Object : opener[r] = None => lns[r] = {} /\ realPort[r] = None
  BY Zenon, GroupFacts
<1>1. /\ listener' = [listener EXCEPT ![p] = "failed"]
      /\ UNCHANGED <<groups, lns, opener, found, realPort, accepting, worker, backlog, user, routes>>
  BY Zenon DEF Refused, connVars
<1>2. /\ listener' \in [Owner -> {"idle", "looking", "failed", "open", "closing", "closed"}]
      /\ listener'[p] = "failed" /\ \A v \in Owner : v # p => listener'[v] = listener[v]
  BY Zenon, <1>1, <1>t DEF GroupTypes
<1>3. GroupTypeOK' BY Zenon, <1>1, <1>2, <1>f, <1>t DEF GroupTypes, ConnTypes, GroupTypeOK
<1>4. FoundOK' BY <1>1, <1>2, <1>f DEF FoundOK, Member
<1>5. OpenerOK'
  <2>1. \A r \in Object : opener[r] # None => opener[r] \in Owner /\ opener[r] # p BY <1>f, <1>t DEF GroupTypes
  <2> QED BY <1>1, <1>2, <1>f, <2>1 DEF OpenerOK
<1>6. RegistryOK' BY Zenon, <1>1 DEF GroupIInv, RegistryOK, GroupOf
<1>7. MembersOK'
  <2>1. \A r : HoldsEndpoint(r)' <=> HoldsEndpoint(r) BY <1>1 DEF HoldsEndpoint, GroupOf, WantOf
  <2> QED BY Zenon, <1>1, <2>1 DEF GroupIInv, MembersOK
<1>8. EndpointsOK' BY Zenon, <1>1 DEF GroupIInv, EndpointsOK
<1> QED BY Zenon, <1>3, <1>4, <1>5, <1>6, <1>7, <1>8 DEF GroupIInv

(* The first proxy of an object that Listen leaves in the registry.        *)
LEMMA FirstFacts ==
  ASSUME GroupIInv, NEW p \in Owner, First(p)
  PROVE  /\ found[p] \in Object /\ opener[found[p]] = None /\ lns[found[p]] = {}
         /\ realPort[found[p]] = None /\ groups[GroupOf(p)] = found[p] /\ listener[p] = "looking"
         /\ \A r \in Object : p \notin lns[r] /\ opener[r] # p
         /\ \A v \in Owner : listener[v] \in Member => found[v] # found[p]
<1>t. GroupTypes /\ ConnTypes BY Zenon, GroupFacts
<1>f. /\ \A v \in Owner : GroupOf(v) \in GroupName /\ (KindOf[GroupOf(v)] # "tcp" => WantOf(v) \in Port)
      /\ \A v \in Owner : listener[v] = "idle" <=> found[v] = None
      /\ \A v \in Owner : listener[v] \in Member => v \in lns[found[v]]
      /\ \A v \in Owner, r \in Object : v \in lns[r] => found[v] = r /\ listener[v] \in Member
      /\ \A r \in Object : opener[r] # None =>
               found[opener[r]] = r /\ listener[opener[r]] \in {"open", "closing", "closed"}
      /\ \A r \in Object : opener[r] = None => lns[r] = {} /\ realPort[r] = None
  BY Zenon, GroupFacts
<1>n. None \notin Object BY Zenon, GroupAssumption
<1>1. listener[p] = "looking" /\ groups[GroupOf(p)] = found[p] /\ lns[found[p]] = {}
  BY Zenon DEF First, IsCurrent, GroupOf
<1>2. found[p] \in Object BY <1>1, <1>f, <1>t DEF GroupTypes
<1>3. opener[found[p]] = None
  <2>1. GroupOf(p) \in GroupName /\ groups[GroupOf(p)] # None BY <1>1, <1>2, <1>f, <1>n
  <2>2. opener[groups[GroupOf(p)]] # None => lns[groups[GroupOf(p)]] # {} BY Zenon, <2>1 DEF GroupIInv, RegistryOK
  <2> QED BY Zenon, <1>1, <2>2
<1>4. \A r \in Object : p \notin lns[r] /\ opener[r] # p BY <1>1, <1>f, PortAssumption DEF Member
<1>5. \A v \in Owner : listener[v] \in Member => found[v] # found[p] BY Zenon, <1>1, <1>f
<1> QED BY Zenon, <1>1, <1>2, <1>3, <1>4, <1>5, <1>f

(* What opening an object changes whatever its endpoint.                   *)
LEMMA OpenedStep ==
  ASSUME GroupIInv, NEW p \in Owner, First(p), Opened(p), groupConf' = groupConf,
         realPort' \in [Object -> Port \cup {None}], pm' \in Managers, routes' \in [Port -> Object \cup {None}],
         \A r \in Object : r # found[p] => realPort'[r] = realPort[r]
  PROVE  /\ GroupTypeOK' /\ FoundOK' /\ OpenerOK' /\ RegistryOK'
         /\ opener'[found[p]] = p /\ lns'[found[p]] = {p} /\ worker'[found[p]] = None
         /\ \A r \in Object : r # found[p] =>
               opener'[r] = opener[r] /\ lns'[r] = lns[r] /\ worker'[r] = worker[r]
         /\ groups' = groups
<1>t. GroupTypes /\ ConnTypes BY Zenon, GroupFacts
<1>f. /\ \A v \in Owner : GroupOf(v) \in GroupName /\ (KindOf[GroupOf(v)] # "tcp" => WantOf(v) \in Port)
      /\ \A v \in Owner : listener[v] = "idle" <=> found[v] = None
      /\ \A v \in Owner : listener[v] \in Member => v \in lns[found[v]]
      /\ \A v \in Owner, r \in Object : v \in lns[r] => found[v] = r /\ listener[v] \in Member
      /\ \A r \in Object : opener[r] # None =>
               found[opener[r]] = r /\ listener[opener[r]] \in {"open", "closing", "closed"}
      /\ \A r \in Object : opener[r] = None => lns[r] = {} /\ realPort[r] = None
  BY Zenon, GroupFacts
<1>n. None \notin Object BY Zenon, GroupAssumption
<1> DEFINE o == found[p]
<1>1. /\ o \in Object /\ opener[o] = None /\ lns[o] = {} /\ groups[GroupOf(p)] = o /\ listener[p] = "looking"
      /\ \A r \in Object : p \notin lns[r] /\ opener[r] # p
      /\ \A v \in Owner : listener[v] \in Member => found[v] # o
  BY Zenon, FirstFacts
<1>2. /\ opener' = [opener EXCEPT ![o] = p] /\ lns' = [lns EXCEPT ![o] = {p}]
      /\ worker' = [worker EXCEPT ![o] = None] /\ listener' = [listener EXCEPT ![p] = "open"]
      /\ accepting' = accepting \cup {p} /\ UNCHANGED <<groups, found, backlog, user>>
  BY Zenon DEF Opened
<1>d. found[p] = o BY Zenon
<1> HIDE DEF o
<1>3. /\ opener' \in [Object -> Owner \cup {None}] /\ opener'[o] = p
      /\ \A r \in Object : r # o => opener'[r] = opener[r]
  BY Zenon, <1>1, <1>2, <1>t DEF GroupTypes
<1>4. /\ lns' \in [Object -> SUBSET Owner] /\ lns'[o] = {p} /\ \A r \in Object : r # o => lns'[r] = lns[r]
  <2>1. {p} \in SUBSET Owner BY Zenon
  <2> QED BY <1>1, <1>2, <1>f, <1>t, <2>1 DEF GroupTypes
<1>5. /\ worker' \in [Object -> User \cup {None, Gone}] /\ worker'[o] = None
      /\ \A r \in Object : r # o => worker'[r] = worker[r]
  BY Zenon, <1>1, <1>2, <1>t DEF ConnTypes
<1>6. /\ listener' \in [Owner -> {"idle", "looking", "failed", "open", "closing", "closed"}]
      /\ listener'[p] = "open" /\ \A v \in Owner : v # p => listener'[v] = listener[v]
  BY Zenon, <1>2, <1>t DEF GroupTypes
<1>7. GroupTypeOK'
  <2>1. GroupTypes' BY Zenon, <1>2, <1>3, <1>4, <1>6, <1>t DEF GroupTypes
  <2>2. ConnTypes' BY Zenon, <1>2, <1>5, <1>t DEF ConnTypes
  <2> QED BY Zenon, <2>1, <2>2 DEF GroupTypeOK, GroupTypes, ConnTypes
<1>8. FoundOK'
  <2> SUFFICES ASSUME NEW v \in Owner
               PROVE  /\ listener'[v] = "idle" <=> found[v] = None
                      /\ listener'[v] \in Member => v \in lns'[found[v]]
                      /\ \A r \in Object : v \in lns'[r] => found[v] = r /\ listener'[v] \in Member
    BY Zenon, <1>2 DEF FoundOK, Member
  <2>1. CASE v = p BY <1>1, <1>4, <1>6, <1>d, <1>f, <1>n, <2>1 DEF Member
  <2>2. CASE v # p
    <3>1. listener'[v] = listener[v] BY Zenon, <1>6, <2>2
    <3>2. listener[v] \in Member => v \in lns'[found[v]]
      <4>1. listener[v] \in Member => found[v] \in Object BY <1>f, <1>t DEF GroupTypes, Member
      <4> QED BY <1>1, <1>4, <1>f, <4>1
    <3> QED BY <1>4, <1>f, <2>2, <3>1, <3>2
  <2> QED BY Zenon, <2>1, <2>2
<1>9. OpenerOK'
  <2> SUFFICES ASSUME NEW r \in Object
               PROVE  /\ opener'[r] # None => /\ found[opener'[r]] = r
                                              /\ listener'[opener'[r]] \in {"open", "closing", "closed"}
                      /\ opener'[r] = None => lns'[r] = {} /\ realPort'[r] = None
    BY Zenon, <1>2 DEF OpenerOK
  <2>1. CASE r = o BY Zenon, <1>3, <1>6, <1>d, <2>1, PortAssumption
  <2>2. CASE r # o
    <3>1. opener[r] # None => opener[r] \in Owner /\ opener[r] # p BY <1>1, <1>f, <1>t DEF GroupTypes
    <3> QED BY <1>3, <1>4, <1>6, <1>d, <1>f, <2>2, <3>1
  <2> QED BY Zenon, <2>1, <2>2
<1>10. RegistryOK'
  <2>1. \A g \in GroupName : groups[g] # None /\ opener'[groups[g]] # None => lns'[groups[g]] # {}
    <3> SUFFICES ASSUME NEW g \in GroupName, groups[g] # None, opener'[groups[g]] # None
                 PROVE  lns'[groups[g]] # {}
      BY Zenon
    <3>1. CASE groups[g] = o BY Zenon, <1>4, <3>1
    <3>2. CASE groups[g] # o
      <4>1. groups[g] \in Object BY <1>t DEF GroupTypes
      <4> QED BY <1>3, <1>4, <3>2, <4>1 DEF GroupIInv, RegistryOK
    <3> QED BY Zenon, <3>1, <3>2
  <2> QED BY <1>2, <2>1 DEF GroupIInv, RegistryOK, GroupOf
<1> QED BY Zenon, <1>2, <1>3, <1>4, <1>5, <1>7, <1>8, <1>9, <1>10, <1>d

(* The first proxy of a TCP group opens the object with a port.            *)
LEMMA OpensPort ==
  ASSUME GroupIInv, NEW p \in Owner, KindOf[GroupOf(p)] = "tcp", First(p), Opened(p),
         groupConf' = groupConf, routes' = routes, NEW q \in Port,
         pm' \in Managers, pm'.used[q] # None, \A x \in Port : x # q => pm'.used[x] = pm.used[x],
         realPort' \in [Object -> Port \cup {None}], realPort'[found[p]] = q,
         \A r \in Object : r # found[p] => realPort'[r] = realPort[r],
         \A r \in Object : lns[r] # {} => realPort[r] # q
  PROVE  GroupIInv'
<1>t. GroupTypes /\ ConnTypes BY Zenon, GroupFacts
<1>f. /\ \A v \in Owner : GroupOf(v) \in GroupName /\ (KindOf[GroupOf(v)] # "tcp" => WantOf(v) \in Port)
      /\ \A v \in Owner : listener[v] = "idle" <=> found[v] = None
      /\ \A v \in Owner : listener[v] \in Member => v \in lns[found[v]]
      /\ \A v \in Owner, r \in Object : v \in lns[r] => found[v] = r /\ listener[v] \in Member
      /\ \A r \in Object : opener[r] # None =>
               found[opener[r]] = r /\ listener[opener[r]] \in {"open", "closing", "closed"}
      /\ \A r \in Object : opener[r] = None => lns[r] = {} /\ realPort[r] = None
  BY Zenon, GroupFacts
<1>n. None \notin Object BY Zenon, GroupAssumption
<1> DEFINE o == found[p]
<1>4. o \in Object /\ lns[o] = {} /\ groups[GroupOf(p)] = o BY Zenon, FirstFacts
<1>5. realPort'[o] = q /\ \A r \in Object : r # o => realPort'[r] = realPort[r] BY Zenon
<1>6. routes' \in [Port -> Object \cup {None}] BY Zenon, <1>t DEF GroupTypes
<1>7. /\ GroupTypeOK' /\ FoundOK' /\ OpenerOK' /\ RegistryOK'
      /\ opener'[o] = p /\ lns'[o] = {p} /\ worker'[o] = None
      /\ \A r \in Object : r # o => opener'[r] = opener[r] /\ lns'[r] = lns[r] /\ worker'[r] = worker[r]
      /\ groups' = groups
  BY Zenon, <1>5, <1>6, OpenedStep
<1> HIDE DEF o
<1>8. MembersOK'
  <2> SUFFICES ASSUME NEW r \in Object, lns'[r] # {} PROVE HoldsEndpoint(r)' BY Zenon DEF MembersOK
  <2>0. /\ groups' = groups /\ routes' = routes /\ \A v : GroupOf(v)' = GroupOf(v) /\ WantOf(v)' = WantOf(v)
    BY Zenon, <1>7 DEF GroupOf, WantOf
  <2>1. CASE r = o
    <3>1. opener'[r] = p /\ lns'[r] = {p} /\ worker'[r] # Gone /\ realPort'[r] = q
      BY Zenon, <1>5, <1>7, <2>1, GroupAssumption DEF Gone
    <3>2. KindOf[groupConf[p].group] = "tcp" /\ groups[groupConf[p].group] = r BY Zenon, <1>4, <2>1 DEF GroupOf
    <3> QED BY Zenon, <2>0, <3>1, <3>2 DEF HoldsEndpoint, GroupOf, WantOf
  <2>2. CASE r # o
    <3>1. opener'[r] = opener[r] /\ lns'[r] = lns[r] /\ worker'[r] = worker[r] /\ realPort'[r] = realPort[r]
      BY Zenon, <1>5, <1>7, <2>2
    <3>2. HoldsEndpoint(r) BY Zenon, <3>1 DEF GroupIInv, MembersOK
    <3>3. realPort[r] \in Port /\ pm.used[realPort[r]] # None => pm'.used[realPort[r]] # None BY Zenon
    <3> QED BY Zenon, <2>0, <3>1, <3>2, <3>3 DEF HoldsEndpoint, GroupOf, WantOf
  <2> QED BY Zenon, <2>1, <2>2
<1>9. EndpointsOK'
  <2>1. \A x \in Port : pm'.used[x] # None => \E r \in Object : lns'[r] # {} /\ realPort'[r] = x
    <3> SUFFICES ASSUME NEW x \in Port, pm'.used[x] # None PROVE \E r \in Object : lns'[r] # {} /\ realPort'[r] = x
      BY Zenon
    <3>1. CASE x = q BY Zenon, <1>4, <1>5, <1>7, <3>1
    <3>2. CASE x # q
      <4>1. PICK r \in Object : lns[r] # {} /\ realPort[r] = x BY Zenon, <3>2 DEF GroupIInv, EndpointsOK
      <4>2. r # o BY Zenon, <1>4, <4>1
      <4> QED BY Zenon, <1>5, <1>7, <4>1, <4>2
    <3> QED BY Zenon, <3>1, <3>2
  <2>2. \A x \in Port : routes[x] # None => lns'[routes[x]] # {}
    <3>1. \A x \in Port : routes[x] # None => routes[x] \in Object /\ lns[routes[x]] # {}
      BY <1>f, <1>t DEF GroupTypes, GroupIInv, EndpointsOK
    <3> QED BY Zenon, <1>4, <1>7, <3>1
  <2>3. \A s, r \in Object : lns'[s] # {} /\ lns'[r] # {} /\ realPort'[s] = realPort'[r] /\ realPort'[s] # None => s = r
    <3>1. \A s, r \in Object : lns[s] # {} /\ lns[r] # {} /\ realPort[s] = realPort[r] /\ realPort[s] # None => s = r
      BY Zenon DEF GroupIInv, EndpointsOK
    <3> SUFFICES ASSUME NEW s \in Object, NEW r \in Object, lns'[s] # {}, lns'[r] # {},
                        realPort'[s] = realPort'[r], realPort'[s] # None, s # r
                 PROVE  FALSE
      BY Zenon
    <3>2. CASE s = o
      <4>1. lns[r] # {} /\ realPort[r] = q BY Zenon, <1>5, <1>7, <3>2
      <4> QED BY Zenon, <4>1
    <3>3. CASE r = o
      <4>1. lns[s] # {} /\ realPort[s] = q BY Zenon, <1>5, <1>7, <3>3
      <4> QED BY Zenon, <4>1
    <3>4. CASE s # o /\ r # o
      <4>1. lns[s] # {} /\ lns[r] # {} /\ realPort'[s] = realPort[s] /\ realPort'[r] = realPort[r] BY Zenon, <1>5, <1>7, <3>4
      <4> QED BY Zenon, <3>1, <4>1
    <3> QED BY Zenon, <3>2, <3>3, <3>4
  <2> QED BY Zenon, <2>1, <2>2, <2>3 DEF EndpointsOK
<1> QED BY Zenon, <1>7, <1>8, <1>9 DEF GroupIInv

(* The first member of a tcp group opens its port.                         *)
LEMMA FirstTCPStep ==
  ASSUME GroupIInv, NEW p \in Owner, KindOf[GroupOf(p)] = "tcp", ListenFirstTCP(p), groupConf' = groupConf
  PROVE  GroupIInv'
<1>t. GroupTypes /\ ConnTypes BY Zenon, GroupFacts
<1>f. /\ \A v \in Owner : GroupOf(v) \in GroupName /\ (KindOf[GroupOf(v)] # "tcp" => WantOf(v) \in Port)
      /\ \A v \in Owner : listener[v] = "idle" <=> found[v] = None
      /\ \A v \in Owner : listener[v] \in Member => v \in lns[found[v]]
      /\ \A v \in Owner, r \in Object : v \in lns[r] => found[v] = r /\ listener[v] \in Member
      /\ \A r \in Object : opener[r] # None =>
               found[opener[r]] = r /\ listener[opener[r]] \in {"open", "closing", "closed"}
      /\ \A r \in Object : opener[r] = None => lns[r] = {} /\ realPort[r] = None
  BY Zenon, GroupFacts
<1>n. None \notin Object BY Zenon, GroupAssumption
<1>1. First(p) BY Zenon DEF ListenFirstTCP
<1> DEFINE Avail == {q \in Port : \A r \in Object : lns[r] = {} \/ realPort[r] # q}
<1>2. PICK avail \in SUBSET Avail :
        \E q \in Acquirable(pm, p, groupConf[p].want, avail) :
          \/ q = None /\ pm' = pm /\ Refused(p)
          \/ q # None /\ pm' = Released(Marked(pm, p, q), q) /\ Refused(p)
          \/ /\ q # None /\ pm' = Marked(pm, p, q)
             /\ realPort' = [realPort EXCEPT ![found[p]] = q]
             /\ UNCHANGED routes /\ Opened(p)
  BY Zenon DEF ListenFirstTCP
<1>3. PICK q \in Acquirable(pm, p, groupConf[p].want, avail) :
          \/ q = None /\ pm' = pm /\ Refused(p)
          \/ q # None /\ pm' = Released(Marked(pm, p, q), q) /\ Refused(p)
          \/ /\ q # None /\ pm' = Marked(pm, p, q)
             /\ realPort' = [realPort EXCEPT ![found[p]] = q]
             /\ UNCHANGED routes /\ Opened(p)
  BY Zenon, <1>2
<1>4. listener[p] = "looking" BY Zenon, <1>1 DEF First
<1>5. pm \in Managers /\ pm.used \in [Port -> Owner \cup {None}] BY Zenon, <1>t DEF GroupTypes, Managers
<1>6. q # None => /\ q \in Port /\ pm.used[q] = None /\ \A r \in Object : lns[r] # {} => realPort[r] # q
  <2> SUFFICES ASSUME q # None
               PROVE  q \in Port /\ pm.used[q] = None /\ \A r \in Object : lns[r] # {} => realPort[r] # q
    BY Zenon
  <2>1. avail \in SUBSET Port BY Zenon
  <2>2. q \in avail BY Zenon, <1>3, <1>5, <2>1, GroupAcquires
  <2>3. q \in Port /\ \A r \in Object : lns[r] # {} => realPort[r] # q BY Zenon, <2>2
  <2> QED BY Zenon, <2>3 DEF GroupIInv, EndpointsOK
<1> HIDE DEF Avail
<1>7. CASE q = None /\ pm' = pm /\ Refused(p) BY Zenon, <1>4, <1>5, <1>7, RefusedStep
<1>8. CASE q # None /\ pm' = Released(Marked(pm, p, q), q) /\ Refused(p)
  <2>1. q \in Port /\ pm.used[q] = None BY Zenon, <1>6, <1>8
  <2> DEFINE m == Marked(pm, p, q)
  <2>2. m \in Managers /\ m.used = [pm.used EXCEPT ![q] = p] BY Zenon, <1>5, <2>1, GroupMarks
  <2> HIDE DEF m
  <2>3. Released(m, q) \in Managers /\ Released(m, q).used = [m.used EXCEPT ![q] = None] BY Zenon, <2>1, <2>2, GroupReleases
  <2>4. [m.used EXCEPT ![q] = None] = pm.used
    <3> DEFINE u == pm.used
               w == [u EXCEPT ![q] = p]
    <3>1. u \in [Port -> Owner \cup {None}] /\ u[q] = None BY Zenon, <1>5, <2>1
    <3> HIDE DEF u
    <3>2. [w EXCEPT ![q] = None] = u BY Zenon, <2>1, <3>1
    <3> QED BY Zenon, <2>2, <3>2 DEF u
  <2>5. pm' = Released(m, q) BY Zenon, <1>8 DEF m
  <2> QED BY <1>4, <1>8, <2>3, <2>4, <2>5, RefusedStep
<1>9. CASE /\ q # None /\ pm' = Marked(pm, p, q)
           /\ realPort' = [realPort EXCEPT ![found[p]] = q]
           /\ UNCHANGED routes /\ Opened(p)
  <2>1. q \in Port /\ pm.used[q] = None /\ \A r \in Object : lns[r] # {} => realPort[r] # q BY Zenon, <1>6, <1>9
  <2>2. pm' \in Managers /\ pm'.used = [pm.used EXCEPT ![q] = p] BY Zenon, <1>5, <1>9, <2>1, GroupMarks
  <2>3. pm'.used[q] # None /\ \A x \in Port : x # q => pm'.used[x] = pm.used[x]
    BY <1>5, <2>1, <2>2, PortAssumption
  <2>4. /\ realPort' \in [Object -> Port \cup {None}] /\ realPort'[found[p]] = q
        /\ \A r \in Object : r # found[p] => realPort'[r] = realPort[r]
    <3>1. found[p] \in Object BY Zenon, <1>1, FirstFacts
    <3> QED BY <1>9, <1>t, <2>1, <3>1 DEF GroupTypes
  <2> QED BY <1>1, <1>9, <2>1, <2>2, <2>3, <2>4, OpensPort
<1> QED BY Zenon, <1>3, <1>7, <1>8, <1>9
(* The first proxy of a group on a muxer opens the object with a route.    *)
LEMMA OpensRoute ==
  ASSUME GroupIInv, NEW p \in Owner, KindOf[GroupOf(p)] # "tcp", First(p), Opened(p),
         groupConf' = groupConf, realPort' = realPort, pm' = pm, routes[WantOf(p)] = None,
         routes' \in [Port -> Object \cup {None}], routes'[WantOf(p)] = found[p],
         \A q \in Port : q # WantOf(p) => routes'[q] = routes[q]
  PROVE  GroupIInv'
<1>t. GroupTypes /\ ConnTypes BY Zenon, GroupFacts
<1>f. /\ \A v \in Owner : GroupOf(v) \in GroupName /\ (KindOf[GroupOf(v)] # "tcp" => WantOf(v) \in Port)
      /\ \A v \in Owner : listener[v] = "idle" <=> found[v] = None
      /\ \A v \in Owner : listener[v] \in Member => v \in lns[found[v]]
      /\ \A v \in Owner, r \in Object : v \in lns[r] => found[v] = r /\ listener[v] \in Member
      /\ \A r \in Object : opener[r] # None =>
               found[opener[r]] = r /\ listener[opener[r]] \in {"open", "closing", "closed"}
      /\ \A r \in Object : opener[r] = None => lns[r] = {} /\ realPort[r] = None
  BY Zenon, GroupFacts
<1>n. None \notin Object BY Zenon, GroupAssumption
<1> DEFINE o == found[p]
<1>4. o \in Object /\ lns[o] = {} /\ groups[GroupOf(p)] = o /\ realPort[o] = None /\ WantOf(p) \in Port
  BY Zenon, <1>f, FirstFacts
<1>6. realPort' \in [Object -> Port \cup {None}] /\ pm' \in Managers BY Zenon, <1>t DEF GroupTypes
<1>7. /\ GroupTypeOK' /\ FoundOK' /\ OpenerOK' /\ RegistryOK'
      /\ opener'[o] = p /\ lns'[o] = {p} /\ worker'[o] = None
      /\ \A r \in Object : r # o => opener'[r] = opener[r] /\ lns'[r] = lns[r] /\ worker'[r] = worker[r]
      /\ groups' = groups
  BY Zenon, <1>6, OpenedStep
<1>r. routes'[WantOf(p)] = o BY Zenon
<1> HIDE DEF o
<1>8. MembersOK'
  <2> SUFFICES ASSUME NEW r \in Object, lns'[r] # {} PROVE HoldsEndpoint(r)' BY Zenon DEF MembersOK
  <2>0. groups' = groups /\ \A v : GroupOf(v)' = GroupOf(v) /\ WantOf(v)' = WantOf(v)
    BY Zenon, <1>7 DEF GroupOf, WantOf
  <2>1. CASE r = o
    <3>1. opener'[r] = p /\ lns'[r] = {p} /\ worker'[r] # Gone /\ realPort'[r] = None
      BY Zenon, <1>4, <1>7, <2>1, GroupAssumption DEF Gone
    <3>2. KindOf[groupConf[p].group] # "tcp" /\ groups[groupConf[p].group] = r /\ routes'[groupConf[p].want] = r
      BY Zenon, <1>4, <1>r, <2>1 DEF GroupOf, WantOf
    <3> QED BY Zenon, <2>0, <3>1, <3>2 DEF HoldsEndpoint, GroupOf, WantOf
  <2>2. CASE r # o
    <3>1. opener'[r] = opener[r] /\ lns'[r] = lns[r] /\ worker'[r] = worker[r] BY Zenon, <1>7, <2>2
    <3>2. HoldsEndpoint(r) /\ opener[r] \in Owner BY Zenon, <3>1, LiveFacts
    <3>3. KindOf[GroupOf(opener[r])] # "tcp" /\ routes[WantOf(opener[r])] = r => routes'[WantOf(opener[r])] = r
      <4>1. r # None BY Zenon, <1>n
      <4>2. KindOf[GroupOf(opener[r])] # "tcp" => WantOf(opener[r]) \in Port BY Zenon, <1>f, <3>2
      <4> QED BY Zenon, <4>1, <4>2
    <3> QED BY Zenon, <2>0, <3>1, <3>2, <3>3 DEF HoldsEndpoint, GroupOf, WantOf
  <2> QED BY Zenon, <2>1, <2>2
<1>9. EndpointsOK'
  <2>e. /\ \A q \in Port : /\ pm.used[q] # None => \E r \in Object : lns[r] # {} /\ realPort[r] = q
                           /\ routes[q] # None => lns[routes[q]] # {}
        /\ \A s, r \in Object :
             lns[s] # {} /\ lns[r] # {} /\ realPort[s] = realPort[r] /\ realPort[s] # None => s = r
    BY Zenon DEF GroupIInv, EndpointsOK
  <2>1. \A x \in Port : pm.used[x] # None => \E r \in Object : lns'[r] # {} /\ realPort[r] = x
    BY Zenon, <1>4, <1>7, <2>e
  <2>2. \A x \in Port : routes'[x] # None => lns'[routes'[x]] # {}
    <3> SUFFICES ASSUME NEW x \in Port, routes'[x] # None PROVE lns'[routes'[x]] # {} BY Zenon
    <3>1. CASE x = WantOf(p) BY Zenon, <1>7, <1>r, <3>1
    <3>2. CASE x # WantOf(p)
      <4>1. routes'[x] = routes[x] /\ routes[x] \in Object /\ lns[routes[x]] # {} BY <1>f, <1>t, <2>e, <3>2 DEF GroupTypes
      <4> QED BY <1>4, <1>7, <4>1
    <3> QED BY Zenon, <3>1, <3>2
  <2>3. \A s, r \in Object : lns'[s] # {} /\ lns'[r] # {} /\ realPort[s] = realPort[r] /\ realPort[s] # None => s = r
    <3>1. \A s \in Object : lns'[s] # {} /\ realPort[s] # None => lns[s] # {} BY Zenon, <1>4, <1>7
    <3> QED BY Zenon, <2>e, <3>1
  <2> QED BY Zenon, <2>1, <2>2, <2>3 DEF EndpointsOK
<1> QED BY Zenon, <1>7, <1>8, <1>9 DEF GroupIInv

(* The first member of an https or tcpmux group takes its route.           *)
LEMMA FirstMuxStep ==
  ASSUME GroupIInv, NEW p \in Owner, KindOf[GroupOf(p)] # "tcp", ListenFirstMux(p), groupConf' = groupConf
  PROVE  GroupIInv'
<1>1. First(p) /\ listener[p] = "looking" BY Zenon DEF ListenFirstMux, First
<1>2. pm \in Managers /\ routes \in [Port -> Object \cup {None}] /\ WantOf(p) \in Port /\ found[p] \in Object
  BY Zenon, <1>1, GroupFacts, FirstFacts DEF GroupTypes
<1>3. CASE routes[WantOf(p)] # None /\ UNCHANGED pm /\ Refused(p)
  BY Zenon, <1>1, <1>2, <1>3, RefusedStep
<1>4. CASE /\ routes[WantOf(p)] = None /\ routes' = [routes EXCEPT ![WantOf(p)] = found[p]]
           /\ UNCHANGED <<realPort, pm>> /\ Opened(p)
  <2>1. /\ routes' \in [Port -> Object \cup {None}] /\ routes'[WantOf(p)] = found[p]
        /\ \A q \in Port : q # WantOf(p) => routes'[q] = routes[q]
    BY Zenon, <1>2, <1>4
  <2>2. routes[WantOf(p)] = None /\ realPort' = realPort /\ pm' = pm /\ Opened(p) BY Zenon, <1>4
  <2> QED BY Zenon, <1>1, <2>1, <2>2, OpensRoute
<1> QED BY Zenon, <1>3, <1>4 DEF ListenFirstMux, WantOf

(* A further proxy joins the object it found current.                      *)
LEMMA MoreStep ==
  ASSUME GroupIInv, NEW p \in Owner, ListenMore(p), groupConf' = groupConf
  PROVE  GroupIInv'
<1>t. GroupTypes /\ ConnTypes BY Zenon, GroupFacts
<1>f. /\ \A v \in Owner : GroupOf(v) \in GroupName /\ (KindOf[GroupOf(v)] # "tcp" => WantOf(v) \in Port)
      /\ \A v \in Owner : listener[v] = "idle" <=> found[v] = None
      /\ \A v \in Owner : listener[v] \in Member => v \in lns[found[v]]
      /\ \A v \in Owner, r \in Object : v \in lns[r] => found[v] = r /\ listener[v] \in Member
      /\ \A r \in Object : opener[r] # None =>
               found[opener[r]] = r /\ listener[opener[r]] \in {"open", "closing", "closed"}
      /\ \A r \in Object : opener[r] = None => lns[r] = {} /\ realPort[r] = None
  BY Zenon, GroupFacts
<1>n. None \notin Object BY Zenon, GroupAssumption
<1> DEFINE o == found[p]
<1>1. listener[p] = "looking" /\ groups[GroupOf(p)] = o /\ lns[o] # {} BY Zenon DEF ListenMore, IsCurrent, GroupOf
<1>2. o \in Object BY <1>1, <1>f, <1>t DEF GroupTypes
<1>3. CASE UNCHANGED pm /\ Refused(p)
  <2>1. pm' \in Managers /\ pm'.used = pm.used BY Zenon, <1>3, <1>f, <1>t DEF GroupTypes
  <2> QED BY Zenon, <1>1, <1>3, <2>1, RefusedStep
<1>4. CASE /\ Alike(p, opener[o]) /\ lns' = [lns EXCEPT ![o] = lns[o] \cup {p}]
           /\ listener' = [listener EXCEPT ![p] = "open"] /\ accepting' = accepting \cup {p}
           /\ UNCHANGED <<groups, opener, found, realPort, connVars, endpointVars>>
  <2>d. found[p] = o BY Zenon
  <2> HIDE DEF o
  <2>1. UNCHANGED <<groups, opener, found, realPort, worker, backlog, user, pm, routes>>
    BY Zenon, <1>4 DEF connVars, endpointVars
  <2>2. /\ lns' \in [Object -> SUBSET Owner] /\ lns'[o] = lns[o] \cup {p}
        /\ \A r \in Object : r # o => lns'[r] = lns[r]
    <3> DEFINE s == lns[o] \cup {p}
    <3>1. s \in SUBSET Owner BY Zenon, <1>2, <1>t DEF GroupTypes
    <3>2. lns' = [lns EXCEPT ![o] = s] BY Zenon, <1>4
    <3> HIDE DEF s
    <3>3. lns' \in [Object -> SUBSET Owner] /\ lns'[o] = s /\ \A r \in Object : r # o => lns'[r] = lns[r]
      BY Zenon, <1>2, <1>t, <3>1, <3>2 DEF GroupTypes
    <3> QED BY Zenon, <3>3 DEF s
  <2>3. /\ listener' \in [Owner -> {"idle", "looking", "failed", "open", "closing", "closed"}]
        /\ listener'[p] = "open" /\ \A v \in Owner : v # p => listener'[v] = listener[v]
    BY Zenon, <1>4, <1>t DEF GroupTypes
  <2>4. GroupTypeOK'
    <3>1. GroupTypes' BY Zenon, <1>t, <2>1, <2>2, <2>3 DEF GroupTypes
    <3>2. ConnTypes' BY Zenon, <1>4, <1>t, <2>1 DEF ConnTypes
    <3> QED BY Zenon, <3>1, <3>2 DEF GroupTypeOK, GroupTypes, ConnTypes
  <2>5. FoundOK'
    <3> SUFFICES ASSUME NEW v \in Owner
                 PROVE  /\ listener'[v] = "idle" <=> found[v] = None
                        /\ listener'[v] \in Member => v \in lns'[found[v]]
                        /\ \A r \in Object : v \in lns'[r] => found[v] = r /\ listener'[v] \in Member
      BY Zenon, <2>1 DEF FoundOK, Member
    <3>1. CASE v = p
      <4>1. \A r \in Object : p \notin lns[r] BY Zenon, <1>1, <1>f DEF Member
      <4> QED BY <1>1, <1>2, <1>n, <2>2, <2>3, <2>d, <3>1, <4>1 DEF Member
    <3>2. CASE v # p
      <4>1. listener'[v] = listener[v] BY Zenon, <2>3, <3>2
      <4>2. \A r \in Object : v \in lns'[r] <=> v \in lns[r] BY Zenon, <1>2, <2>2, <3>2
      <4>3. listener[v] \in Member => found[v] \in Object BY <1>f, <1>t DEF GroupTypes, Member
      <4> QED BY Zenon, <1>f, <4>1, <4>2, <4>3
    <3> QED BY Zenon, <3>1, <3>2
  <2>6. OpenerOK'
    <3>1. \A r \in Object : opener[r] # None => opener[r] \in Owner /\ opener[r] # p BY <1>1, <1>f, <1>t DEF GroupTypes
    <3>2. \A r \in Object : opener[r] = None => lns'[r] = {} BY Zenon, <1>1, <1>f, <2>2
    <3> QED BY Zenon, <1>f, <2>1, <2>3, <3>1, <3>2 DEF OpenerOK
  <2>7. RegistryOK'
    <3>1. \A r \in Object : lns[r] # {} => lns'[r] # {} BY Zenon, <1>1, <2>2
    <3>2. \A g \in GroupName : groups[g] # None => groups[g] \in Object BY Zenon, <1>t DEF GroupTypes
    <3>3. \A g \in GroupName : groups[g] # None =>
            /\ \E v \in Owner : found[v] = groups[g]
            /\ \A v \in Owner : found[v] = groups[g] => GroupOf(v) = g
            /\ opener[groups[g]] # None => lns'[groups[g]] # {}
      BY Zenon, <3>1, <3>2 DEF GroupIInv, RegistryOK
    <3> QED BY Zenon, <2>1, <3>3 DEF RegistryOK, GroupOf
  <2>8. MembersOK'
    <3> SUFFICES ASSUME NEW r \in Object, lns'[r] # {} PROVE HoldsEndpoint(r)' BY Zenon DEF MembersOK
    <3>0. \A v : GroupOf(v)' = GroupOf(v) /\ WantOf(v)' = WantOf(v) BY Zenon DEF GroupOf, WantOf
    <3>1. lns[r] # {} BY Zenon, <1>1, <2>2
    <3>2. HoldsEndpoint(r) BY Zenon, <3>1 DEF GroupIInv, MembersOK
    <3>3. CASE r = o
      <4>1. opener[o] \in Owner /\ groups[GroupOf(opener[o])] = o /\ GroupOf(opener[o]) \in GroupName
        BY <1>1, <1>2, <1>f, <1>t, <3>2, <3>3 DEF HoldsEndpoint, GroupTypes
      <4>2. GroupOf(p) = GroupOf(opener[o]) BY Zenon, <1>2, <1>n, <2>d, <4>1 DEF GroupIInv, RegistryOK
      <4>3. WantOf(p) = WantOf(opener[o]) /\ groupConf[p].key = groupConf[opener[o]].key
        BY Zenon, <1>4 DEF Alike, WantOf
      <4>4. \A v \in lns'[o] : v = p \/ v \in lns[o] BY Zenon, <2>2
      <4> QED BY <2>1, <3>0, <3>2, <3>3, <4>2, <4>3, <4>4 DEF HoldsEndpoint
    <3>4. CASE r # o
      <4>1. lns'[r] = lns[r] BY Zenon, <2>2, <3>4
      <4> QED BY Zenon, <2>1, <3>0, <3>2, <4>1 DEF HoldsEndpoint
    <3> QED BY Zenon, <3>3, <3>4
  <2>9. EndpointsOK'
    <3>1. \A r \in Object : lns'[r] # {} <=> lns[r] # {} BY Zenon, <1>1, <2>2
    <3>2. \A q \in Port : routes[q] # None => routes[q] \in Object BY <1>t DEF GroupTypes
    <3> QED BY Zenon, <2>1, <3>1, <3>2 DEF GroupIInv, EndpointsOK
  <2> QED BY <2>4, <2>5, <2>6, <2>7, <2>8, <2>9 DEF GroupIInv
<1> QED BY Zenon, <1>3, <1>4 DEF ListenMore

(* A member starts to leave.                                               *)
LEMMA CloseListenerStep ==
  ASSUME GroupIInv, NEW p \in Owner, CloseListener(p), groupConf' = groupConf
  PROVE  GroupIInv'
<1>t. GroupTypes /\ ConnTypes BY Zenon, GroupFacts
<1>f. /\ \A v \in Owner : GroupOf(v) \in GroupName /\ (KindOf[GroupOf(v)] # "tcp" => WantOf(v) \in Port)
      /\ \A v \in Owner : listener[v] = "idle" <=> found[v] = None
      /\ \A v \in Owner : listener[v] \in Member => v \in lns[found[v]]
      /\ \A v \in Owner, r \in Object : v \in lns[r] => found[v] = r /\ listener[v] \in Member
      /\ \A r \in Object : opener[r] # None =>
               found[opener[r]] = r /\ listener[opener[r]] \in {"open", "closing", "closed"}
      /\ \A r \in Object : opener[r] = None => lns[r] = {} /\ realPort[r] = None
  BY Zenon, GroupFacts
<1>n. None \notin Object BY GroupAssumption
<1>1. /\ listener[p] = "open" /\ listener' = [listener EXCEPT ![p] = "closing"]
      /\ UNCHANGED <<groups, lns, opener, realPort, found, accepting, worker, backlog, user, pm, routes>>
  BY Zenon DEF CloseListener, connVars, endpointVars
<1>2. /\ listener' \in [Owner -> {"idle", "looking", "failed", "open", "closing", "closed"}]
      /\ listener'[p] = "closing" /\ \A v \in Owner : v # p => listener'[v] = listener[v]
  BY Zenon, <1>1, <1>t DEF GroupTypes
<1>3. GroupTypeOK'
  <2>1. GroupTypes' BY Zenon, <1>1, <1>2, <1>t DEF GroupTypes
  <2>2. ConnTypes' BY Zenon, <1>1, <1>t DEF ConnTypes
  <2> QED BY <2>1, <2>2 DEF GroupTypeOK, GroupTypes, ConnTypes
<1>4. FoundOK' BY <1>1, <1>2, <1>f DEF FoundOK, Member
<1>5. OpenerOK'
  <2>1. \A r \in Object : opener[r] # None =>
          opener[r] \in Owner /\ listener'[opener[r]] \in {"open", "closing", "closed"}
    BY <1>2, <1>f, <1>t DEF GroupTypes
  <2> QED BY Zenon, <1>1, <1>f, <2>1 DEF OpenerOK
<1>6. RegistryOK' BY Zenon, <1>1 DEF GroupIInv, RegistryOK, GroupOf
<1>7. MembersOK'
  <2>1. \A r : HoldsEndpoint(r)' <=> HoldsEndpoint(r) BY <1>1 DEF HoldsEndpoint, GroupOf, WantOf
  <2> QED BY Zenon, <1>1, <2>1 DEF GroupIInv, MembersOK
<1>8. EndpointsOK' BY Zenon, <1>1 DEF GroupIInv, EndpointsOK
<1> QED BY <1>3, <1>4, <1>5, <1>6, <1>7, <1>8 DEF GroupIInv

(* What closeListener changes whether or not the proxy is the last one.    *)
LEMMA LeaveFacts ==
  ASSUME GroupIInv, NEW p \in Owner, OnClose(p), groupConf' = groupConf
  PROVE  /\ found[p] \in Object /\ p \in lns[found[p]] /\ opener[found[p]] # None
         /\ lns' \in [Object -> SUBSET Owner] /\ lns'[found[p]] = lns[found[p]] \ {p}
         /\ \A r \in Object : r # found[p] => lns'[r] = lns[r]
         /\ listener' \in [Owner -> {"idle", "looking", "failed", "open", "closing", "closed"}]
         /\ FoundOK' /\ OpenerOK'
         /\ UNCHANGED <<opener, realPort, found, accepting, worker>>
<1>t. GroupTypes /\ ConnTypes BY Zenon, GroupFacts
<1>f. /\ \A v \in Owner : GroupOf(v) \in GroupName /\ (KindOf[GroupOf(v)] # "tcp" => WantOf(v) \in Port)
      /\ \A v \in Owner : listener[v] = "idle" <=> found[v] = None
      /\ \A v \in Owner : listener[v] \in Member => v \in lns[found[v]]
      /\ \A v \in Owner, r \in Object : v \in lns[r] => found[v] = r /\ listener[v] \in Member
      /\ \A r \in Object : opener[r] # None =>
               found[opener[r]] = r /\ listener[opener[r]] \in {"open", "closing", "closed"}
      /\ \A r \in Object : opener[r] = None => lns[r] = {} /\ realPort[r] = None
  BY Zenon, GroupFacts
<1>n. None \notin Object BY GroupAssumption
<1> DEFINE o == found[p]
           rest == lns[o] \ {p}
<1>1. /\ listener[p] = "closing" /\ listener' = [listener EXCEPT ![p] = "closed"]
      /\ lns' = [lns EXCEPT ![o] = rest]
      /\ UNCHANGED <<opener, realPort, found, accepting, worker>>
  BY Zenon DEF OnClose
<1>2. o \in Object /\ p \in lns[o] BY <1>1, <1>f, <1>t DEF GroupTypes, Member
<1>3. opener[o] # None BY Zenon, <1>2, <1>f
<1>4. rest \in SUBSET Owner BY Zenon, <1>2, <1>t DEF GroupTypes
<1>5. \A v : v \in rest <=> v \in lns[o] /\ v # p BY Zenon
<1>d. found[p] = o /\ rest = lns[o] \ {p} BY Zenon
<1> HIDE DEF o, rest
<1>6. lns' \in [Object -> SUBSET Owner] /\ lns'[o] = rest /\ \A r \in Object : r # o => lns'[r] = lns[r]
  BY Zenon, <1>1, <1>2, <1>4, <1>t DEF GroupTypes
<1>7. /\ listener' \in [Owner -> {"idle", "looking", "failed", "open", "closing", "closed"}]
      /\ listener'[p] = "closed" /\ \A v \in Owner : v # p => listener'[v] = listener[v]
  BY <1>1, <1>t DEF GroupTypes
<1>8. FoundOK'
  <2> SUFFICES ASSUME NEW v \in Owner
               PROVE  /\ listener'[v] = "idle" <=> found[v] = None
                      /\ listener'[v] \in Member => v \in lns'[found[v]]
                      /\ \A r \in Object : v \in lns'[r] => found[v] = r /\ listener'[v] \in Member
    BY Zenon, <1>1 DEF FoundOK, Member
  <2>1. CASE v = p
    <3>1. \A r \in Object : p \notin lns'[r] BY <1>5, <1>6, <1>d, <1>f
    <3> QED BY <1>2, <1>7, <1>d, <1>n, <2>1, <3>1 DEF Member
  <2>2. CASE v # p
    <3>1. listener'[v] = listener[v] BY Zenon, <1>7, <2>2
    <3>2. \A r \in Object : v \in lns'[r] <=> v \in lns[r] BY <1>2, <1>5, <1>6, <2>2
    <3>3. listener[v] \in Member => found[v] \in Object BY <1>f, <1>t DEF GroupTypes, Member
    <3> QED BY Zenon, <1>f, <3>1, <3>2, <3>3
  <2> QED BY <2>1, <2>2
<1>9. OpenerOK'
  <2>1. \A r \in Object : opener[r] # None =>
          opener[r] \in Owner /\ listener'[opener[r]] \in {"open", "closing", "closed"}
    BY <1>7, <1>f, <1>t DEF GroupTypes
  <2>2. \A r \in Object : opener[r] = None => lns'[r] = {} BY Zenon, <1>3, <1>6, <1>f
  <2> QED BY Zenon, <1>1, <1>f, <2>1, <2>2 DEF OpenerOK
<1> QED BY Zenon, <1>1, <1>2, <1>3, <1>6, <1>7, <1>8, <1>9, <1>d

(* A member leaves and others stay: the endpoint does too.                 *)
LEMMA LeaveStep ==
  ASSUME GroupIInv, NEW p \in Owner, OnClose(p), groupConf' = groupConf, lns[found[p]] \ {p} # {}
  PROVE  GroupIInv'
<1>t. GroupTypes /\ ConnTypes BY Zenon, GroupFacts
<1>f. /\ \A v \in Owner : GroupOf(v) \in GroupName /\ (KindOf[GroupOf(v)] # "tcp" => WantOf(v) \in Port)
      /\ \A v \in Owner : listener[v] = "idle" <=> found[v] = None
      /\ \A v \in Owner : listener[v] \in Member => v \in lns[found[v]]
      /\ \A v \in Owner, r \in Object : v \in lns[r] => found[v] = r /\ listener[v] \in Member
      /\ \A r \in Object : opener[r] # None =>
               found[opener[r]] = r /\ listener[opener[r]] \in {"open", "closing", "closed"}
      /\ \A r \in Object : opener[r] = None => lns[r] = {} /\ realPort[r] = None
  BY Zenon, GroupFacts
<1>n. None \notin Object BY Zenon, GroupAssumption
<1> DEFINE o == found[p]
<1>1. /\ o \in Object /\ p \in lns[o] /\ opener[o] # None
      /\ lns' \in [Object -> SUBSET Owner] /\ lns'[o] = lns[o] \ {p}
      /\ \A r \in Object : r # o => lns'[r] = lns[r]
      /\ listener' \in [Owner -> {"idle", "looking", "failed", "open", "closing", "closed"}]
      /\ FoundOK' /\ OpenerOK'
      /\ UNCHANGED <<opener, realPort, found, accepting, worker>>
  BY Zenon, LeaveFacts
<1>2. UNCHANGED <<groups, backlog, user, pm, routes>> BY Zenon DEF OnClose, endpointVars
<1>3. \A r \in Object : lns'[r] # {} <=> lns[r] # {} BY Zenon, <1>1
<1>4. \A r \in Object : \A v \in lns'[r] : v \in lns[r] BY Zenon, <1>1
<1> HIDE DEF o
<1>5. GroupTypeOK'
  <2>1. GroupTypes' BY Zenon, <1>1, <1>2, <1>t DEF GroupTypes
  <2>2. ConnTypes' BY Zenon, <1>1, <1>2, <1>t DEF ConnTypes
  <2> QED BY Zenon, <2>1, <2>2 DEF GroupTypeOK, GroupTypes, ConnTypes
<1>6. RegistryOK'
  <2>1. \A g \in GroupName : groups[g] # None => groups[g] \in Object BY Zenon, <1>t DEF GroupTypes
  <2>2. \A g \in GroupName : groups[g] # None =>
          /\ \E v \in Owner : found[v] = groups[g]
          /\ \A v \in Owner : found[v] = groups[g] => GroupOf(v) = g
          /\ opener[groups[g]] # None => lns'[groups[g]] # {}
    BY Zenon, <1>3, <2>1 DEF GroupIInv, RegistryOK
  <2> QED BY Zenon, <1>1, <1>2, <2>2 DEF RegistryOK, GroupOf
<1>7. MembersOK'
  <2> SUFFICES ASSUME NEW r \in Object, lns'[r] # {} PROVE HoldsEndpoint(r)' BY DEF MembersOK
  <2>0. \A v : GroupOf(v)' = GroupOf(v) /\ WantOf(v)' = WantOf(v) BY Zenon DEF GroupOf, WantOf
  <2>1. HoldsEndpoint(r) BY Zenon, <1>3 DEF GroupIInv, MembersOK
  <2> QED BY Zenon, <1>1, <1>2, <1>4, <2>0, <2>1 DEF HoldsEndpoint
<1>8. EndpointsOK'
  <2>1. \A q \in Port : routes[q] # None => routes[q] \in Object BY Zenon, <1>t DEF GroupTypes
  <2> QED BY Zenon, <1>1, <1>2, <1>3, <2>1 DEF GroupIInv, EndpointsOK
<1> QED BY Zenon, <1>1, <1>5, <1>6, <1>7, <1>8 DEF GroupIInv

(* The last member leaves, and the endpoint is given back.                 *)
LEMMA LastLeavesStep ==
  ASSUME GroupIInv, NEW p \in Owner, OnClose(p), groupConf' = groupConf, lns[found[p]] \ {p} = {}
  PROVE  GroupIInv'
<1>t. GroupTypes /\ ConnTypes BY Zenon, GroupFacts
<1>f. /\ \A v \in Owner : GroupOf(v) \in GroupName /\ (KindOf[GroupOf(v)] # "tcp" => WantOf(v) \in Port)
      /\ \A v \in Owner : listener[v] = "idle" <=> found[v] = None
      /\ \A v \in Owner : listener[v] \in Member => v \in lns[found[v]]
      /\ \A v \in Owner, r \in Object : v \in lns[r] => found[v] = r /\ listener[v] \in Member
      /\ \A r \in Object : opener[r] # None =>
               found[opener[r]] = r /\ listener[opener[r]] \in {"open", "closing", "closed"}
      /\ \A r \in Object : opener[r] = None => lns[r] = {} /\ realPort[r] = None
  BY Zenon, GroupFacts
<1>n. None \notin Object BY Zenon, GroupAssumption
<1> DEFINE o == found[p]
<1>1. /\ o \in Object /\ p \in lns[o] /\ opener[o] # None
      /\ lns' \in [Object -> SUBSET Owner] /\ lns'[o] = lns[o] \ {p}
      /\ \A r \in Object : r # o => lns'[r] = lns[r]
      /\ listener' \in [Owner -> {"idle", "looking", "failed", "open", "closing", "closed"}]
      /\ FoundOK' /\ OpenerOK'
      /\ UNCHANGED <<opener, realPort, found, accepting, worker>>
  BY Zenon, LeaveFacts
<1>2. /\ backlog' = [backlog EXCEPT ![o] = {}]
      /\ user' = [u \in User |-> IF u \in backlog[o] THEN "closed" ELSE user[u]]
      /\ pm' = Released(pm, realPort[o])
      /\ routes' = [q \in Port |-> IF routes[q] = o THEN None ELSE routes[q]]
      /\ groups' = [g \in GroupName |-> IF groups[g] = o THEN None ELSE groups[g]]
  BY Zenon DEF OnClose, RemoveIf
<1>3. lns[o] # {} /\ lns'[o] = {} BY Zenon, <1>1
<1> HIDE DEF o
<1>4. realPort[o] \in Port \cup {None} /\ pm \in Managers /\ pm.used \in [Port -> Owner \cup {None}]
  BY Zenon, <1>1, <1>t DEF GroupTypes, Managers
<1>5. /\ pm' \in Managers
      /\ \A q \in Port : pm'.used[q] = IF q = realPort[o] THEN None ELSE pm.used[q]
  <2> DEFINE x == realPort[o]
  <2>1. /\ pm' \in Managers
        /\ x \in Port => pm'.used = [pm.used EXCEPT ![x] = None]
        /\ x = None => pm' = pm
    BY Zenon, <1>2, <1>4, GroupReleases
  <2>2. None \notin Port BY Zenon, PortAssumption
  <2> HIDE DEF x
  <2>3. x \in Port \cup {None} BY Zenon, <1>4 DEF x
  <2>4. \A q \in Port : pm'.used[q] = IF q = x THEN None ELSE pm.used[q]
    <3>1. CASE x \in Port BY Zenon, <1>4, <2>1, <3>1
    <3>2. CASE x = None BY Zenon, <2>1, <2>2, <3>2
    <3> QED BY Zenon, <2>3, <3>1, <3>2
  <2> QED BY Zenon, <2>1, <2>4 DEF x
<1>6. /\ routes' \in [Port -> Object \cup {None}]
      /\ \A q \in Port : routes'[q] = IF routes[q] = o THEN None ELSE routes[q]
  BY Zenon, <1>2, <1>t DEF GroupTypes
<1>7. /\ groups' \in [GroupName -> Object \cup {None}]
      /\ \A g \in GroupName : groups'[g] = IF groups[g] = o THEN None ELSE groups[g]
  BY Zenon, <1>2, <1>t DEF GroupTypes
<1>8. GroupTypeOK'
  <2>1. GroupTypes' BY Zenon, <1>1, <1>5, <1>6, <1>7, <1>t DEF GroupTypes
  <2>2. user' \in [User -> {"none", "waiting", "held", "served", "closed"}] BY Zenon, <1>2, <1>t DEF ConnTypes
  <2>3. backlog' \in [Object -> SUBSET User] BY Zenon, <1>1, <1>2, <1>t DEF ConnTypes
  <2>4. ConnTypes' BY Zenon, <1>1, <1>t, <2>2, <2>3 DEF ConnTypes
  <2> QED BY Zenon, <2>1, <2>4 DEF GroupTypeOK, GroupTypes, ConnTypes
<1>9. RegistryOK'
  <2>1. \A g \in GroupName : groups'[g] # None =>
          groups'[g] = groups[g] /\ groups[g] # None /\ groups[g] # o /\ groups[g] \in Object
    BY Zenon, <1>7, <1>t DEF GroupTypes
  <2>2. \A g \in GroupName : groups[g] # None =>
          /\ \E v \in Owner : found[v] = groups[g]
          /\ \A v \in Owner : found[v] = groups[g] => GroupOf(v) = g
          /\ opener[groups[g]] # None => lns[groups[g]] # {}
    BY Zenon DEF GroupIInv, RegistryOK
  <2>3. ASSUME NEW g \in GroupName, groups'[g] # None
        PROVE  /\ \E v \in Owner : found[v] = groups'[g]
               /\ \A v \in Owner : found[v] = groups'[g] => GroupOf(v) = g
               /\ opener[groups'[g]] # None => lns'[groups'[g]] # {}
    <3>1. groups'[g] = groups[g] /\ groups[g] # None /\ groups[g] # o /\ groups[g] \in Object
      BY Zenon, <2>1, <2>3
    <3>2. lns'[groups[g]] = lns[groups[g]] BY <1>1, <1>3, <3>1
    <3>3. /\ \E v \in Owner : found[v] = groups[g]
          /\ \A v \in Owner : found[v] = groups[g] => GroupOf(v) = g
          /\ opener[groups[g]] # None => lns[groups[g]] # {}
      BY Zenon, <2>2, <3>1
    <3> QED BY Zenon, <3>1, <3>2, <3>3
  <2> QED BY Zenon, <1>1, <2>3 DEF RegistryOK, GroupOf
<1>10. MembersOK'
  <2> SUFFICES ASSUME NEW r \in Object, lns'[r] # {} PROVE HoldsEndpoint(r)' BY Zenon DEF MembersOK
  <2>0. \A v : GroupOf(v)' = GroupOf(v) /\ WantOf(v)' = WantOf(v) BY Zenon DEF GroupOf, WantOf
  <2>1. r # o /\ lns'[r] = lns[r] /\ lns[r] # {} BY Zenon, <1>1, <1>3
  <2>2. HoldsEndpoint(r) BY Zenon, <2>1, LiveFacts
  <2>3. opener[r] \in Owner /\ groups[GroupOf(opener[r])] = r BY Zenon, <2>1, LiveFacts
  <2>4. groups'[GroupOf(opener[r])] = r BY Zenon, <1>7, <1>f, <2>1, <2>3
  <2>5. realPort[r] \in Port /\ pm.used[realPort[r]] # None => pm'.used[realPort[r]] # None
    <3>1. realPort[r] \in Port => realPort[r] # realPort[o]
      <4>1. realPort[r] \in Port => realPort[r] # None BY Zenon, PortAssumption
      <4> QED BY <1>1, <1>3, <2>1, <4>1 DEF GroupIInv, EndpointsOK
    <3> QED BY Zenon, <1>5, <3>1
  <2>6. KindOf[GroupOf(opener[r])] # "tcp" /\ routes[WantOf(opener[r])] = r => routes'[WantOf(opener[r])] = r
    BY Zenon, <1>6, <1>f, <2>1, <2>3
  <2> QED BY Zenon, <1>1, <2>0, <2>1, <2>2, <2>4, <2>5, <2>6 DEF HoldsEndpoint
<1>11. EndpointsOK'
  <2>e. /\ \A q \in Port : /\ pm.used[q] # None => \E r \in Object : lns[r] # {} /\ realPort[r] = q
                           /\ routes[q] # None => lns[routes[q]] # {}
        /\ \A s, r \in Object :
             lns[s] # {} /\ lns[r] # {} /\ realPort[s] = realPort[r] /\ realPort[s] # None => s = r
    BY Zenon DEF GroupIInv, EndpointsOK
  <2>1. \A q \in Port : pm'.used[q] # None => \E r \in Object : lns'[r] # {} /\ realPort[r] = q
    <3> SUFFICES ASSUME NEW q \in Port, pm'.used[q] # None PROVE \E r \in Object : lns'[r] # {} /\ realPort[r] = q
      BY Zenon
    <3>1. q # realPort[o] /\ pm.used[q] # None BY Zenon, <1>5
    <3>2. PICK r \in Object : lns[r] # {} /\ realPort[r] = q BY Zenon, <2>e, <3>1
    <3> QED BY Zenon, <1>1, <3>1, <3>2
  <2>2. \A q \in Port : routes'[q] # None => lns'[routes'[q]] # {}
    <3>1. \A q \in Port : routes'[q] # None =>
            routes'[q] = routes[q] /\ routes[q] # o /\ routes[q] \in Object /\ lns[routes[q]] # {}
      <4>1. routes \in [Port -> Object \cup {None}] BY Zenon, <1>f, <1>t DEF GroupTypes
      <4>2. \A q \in Port : routes[q] # None => routes[q] \in Object BY Zenon, <4>1
      <4> QED BY Zenon, <1>6, <2>e, <4>2
    <3> QED BY <1>1, <3>1
  <2>3. \A r \in Object : lns'[r] # {} => lns[r] # {} BY Zenon, <1>1, <1>3
  <2>4. \A s, r \in Object : lns'[s] # {} /\ lns'[r] # {} /\ realPort[s] = realPort[r] /\ realPort[s] # None => s = r
    BY Zenon, <2>3, <2>e
  <2> QED BY Zenon, <1>1, <2>1, <2>2, <2>4 DEF EndpointsOK
<1> QED BY Zenon, <1>1, <1>8, <1>9, <1>10, <1>11 DEF GroupIInv

(* Users connecting and the workers passing them on.                       *)
LEMMA WorkerStep ==
  ASSUME GroupIInv, groupConf' = groupConf, NEW o \in Object,
         WorkerSteps(o) \/ \E u \in User : Connect(u, o)
  PROVE  GroupIInv'
<1>f. /\ worker \in [Object -> User \cup {None, Gone}] /\ backlog \in [Object -> SUBSET User]
      /\ user \in [User -> {"none", "waiting", "held", "served", "closed"}] /\ accepting \in SUBSET Owner
  BY Zenon, GroupFacts DEF ConnTypes
<1>m. \A r \in Object : lns[r] # {} => worker[r] # Gone BY Zenon DEF GroupIInv, MembersOK, HoldsEndpoint
<1>g. Gone \notin User /\ Gone # None BY Zenon, GroupAssumption DEF Gone
<1>1. ASSUME NEW u \in User, Connect(u, o) PROVE GroupIInv'
  <2>1. /\ user' = [user EXCEPT ![u] = "waiting"] /\ backlog' = [backlog EXCEPT ![o] = backlog[o] \cup {u}]
        /\ UNCHANGED <<groups, lns, opener, realPort, listener, found, accepting, worker, pm, routes>>
    BY Zenon, <1>1 DEF Connect, endpointVars
  <2>2. backlog[o] \cup {u} \in SUBSET User BY Zenon, <1>f
  <2>3. backlog' \in [Object -> SUBSET User] BY Zenon, <1>f, <2>1, <2>2
  <2>4. user' \in [User -> {"none", "waiting", "held", "served", "closed"}] BY Zenon, <1>f, <2>1
  <2>5. ConnTypes' BY Zenon, <1>f, <2>1, <2>3, <2>4 DEF ConnTypes
  <2> QED BY Zenon, <1>m, <2>1, <2>5, ConnOnly
<1>2. ASSUME NEW u \in User, WorkerAccepts(o, u) PROVE GroupIInv'
  <2>1. /\ worker' = [worker EXCEPT ![o] = u] /\ user' = [user EXCEPT ![u] = "held"]
        /\ backlog' = [backlog EXCEPT ![o] = backlog[o] \ {u}]
        /\ UNCHANGED <<groups, lns, opener, realPort, listener, found, accepting, pm, routes>>
    BY Zenon, <1>2 DEF WorkerAccepts, endpointVars
  <2>2. backlog[o] \ {u} \in SUBSET User BY Zenon, <1>f
  <2>3. backlog' \in [Object -> SUBSET User] BY Zenon, <1>f, <2>1, <2>2
  <2>4. user' \in [User -> {"none", "waiting", "held", "served", "closed"}] BY Zenon, <1>f, <2>1
  <2>5. /\ worker' \in [Object -> User \cup {None, Gone}]
        /\ \A r \in Object : lns[r] # {} => worker'[r] # Gone
    BY Zenon, <1>f, <1>g, <1>m, <2>1
  <2>6. ConnTypes' BY Zenon, <1>f, <2>1, <2>3, <2>4, <2>5 DEF ConnTypes
  <2> QED BY Zenon, <2>1, <2>5, <2>6, ConnOnly
<1>3. ASSUME NEW p \in Owner, Accept(o, p) PROVE GroupIInv'
  <2>1. /\ worker[o] \in User /\ worker' = [worker EXCEPT ![o] = None]
        /\ user' = [user EXCEPT ![worker[o]] = "served"]
        /\ UNCHANGED <<groups, lns, opener, realPort, listener, found, accepting, backlog, pm, routes>>
    BY Zenon, <1>3 DEF Accept, endpointVars
  <2>2. user' \in [User -> {"none", "waiting", "held", "served", "closed"}] BY Zenon, <1>f, <2>1
  <2>3. /\ worker' \in [Object -> User \cup {None, Gone}]
        /\ \A r \in Object : lns[r] # {} => worker'[r] # Gone
    BY Zenon, <1>f, <1>g, <1>m, <2>1
  <2>4. ConnTypes' BY Zenon, <1>f, <2>1, <2>2, <2>3 DEF ConnTypes
  <2> QED BY Zenon, <2>1, <2>3, <2>4, ConnOnly
<1>4. ASSUME WorkerEnds(o) PROVE GroupIInv'
  <2>1. /\ lns[o] = {} /\ worker' = [worker EXCEPT ![o] = Gone]
        /\ user' = [u \in User |-> IF worker[o] = u THEN "closed" ELSE user[u]]
        /\ UNCHANGED <<groups, lns, opener, realPort, listener, found, accepting, backlog, pm, routes>>
    BY Zenon, <1>4 DEF WorkerEnds, Closed, endpointVars
  <2>2. user' \in [User -> {"none", "waiting", "held", "served", "closed"}] BY Zenon, <1>f, <2>1
  <2>3. /\ worker' \in [Object -> User \cup {None, Gone}]
        /\ \A r \in Object : lns[r] # {} => worker'[r] # Gone
    BY Zenon, <1>f, <1>m, <2>1
  <2>4. ConnTypes' BY Zenon, <1>f, <2>1, <2>2, <2>3 DEF ConnTypes
  <2> QED BY Zenon, <2>1, <2>3, <2>4, ConnOnly
<1> QED BY Zenon, <1>1, <1>2, <1>3, <1>4 DEF WorkerSteps

(* A proxy's Accept returns an error.                                      *)
LEMMA AcceptEndsStep ==
  ASSUME GroupIInv, NEW p \in Owner, AcceptEnds(p), groupConf' = groupConf
  PROVE  GroupIInv'
<1>1. /\ accepting' = accepting \ {p}
      /\ UNCHANGED <<groups, lns, opener, realPort, listener, found, worker, backlog, user, pm, routes>>
  BY Zenon DEF AcceptEnds, connVars, endpointVars
<1>2. ConnTypes BY Zenon, GroupFacts
<1>3. ConnTypes' BY Zenon, <1>1, <1>2 DEF ConnTypes
<1>4. \A r \in Object : lns[r] # {} => worker'[r] # Gone BY Zenon, <1>1 DEF GroupIInv, MembersOK, HoldsEndpoint
<1> QED BY Zenon, <1>1, <1>3, <1>4, ConnOnly

INSTANCE FiniteSetTheorems

(* An idle proxy finds an object nobody uses: the others use one each.     *)
LEMMA UnusedThere ==
  ASSUME GroupIInv, NEW p \in Owner, listener[p] = "idle"
  PROVE  \E r \in Object : r \in Unused
<1>1. found \in [Owner -> Object \cup {None}] /\ opener \in [Object -> Owner \cup {None}]
  BY DEF GroupIInv, GroupTypeOK
<1>2. found[p] = None BY DEF GroupIInv, FoundOK
<1> DEFINE Others == Owner \ {p}
           Img == {found[v] : v \in Others}
<1>3. /\ IsFiniteSet(Owner) /\ IsFiniteSet(Object) /\ Cardinality(Owner) <= Cardinality(Object)
      /\ None \notin Object
  BY GroupAssumption
<1>4. IsFiniteSet(Others) /\ Cardinality(Others) = Cardinality(Owner) - 1 BY <1>3, FS_RemoveElement
<1>5. IsFiniteSet(Img) /\ Cardinality(Img) <= Cardinality(Others)
  <2>1. [v \in Others |-> found[v]] \in Surjection(Others, Img) BY Zenon DEF Surjection
  <2> HIDE DEF Others, Img
  <2> QED BY <1>4, <2>1, FS_Surjection
<1>6. Cardinality(Owner) \in Nat /\ Cardinality(Object) \in Nat BY <1>3, FS_CardinalityType
<1>7. ~(Object \subseteq Img)
  <2> HIDE DEF Others, Img
  <2>1. SUFFICES ASSUME Object \subseteq Img PROVE FALSE BY Zenon
  <2>2. Cardinality(Object) <= Cardinality(Img) BY <1>5, <2>1, FS_Subset
  <2>3. Cardinality(Img) \in Nat BY <1>5, FS_CardinalityType
  <2> QED BY <1>3, <1>4, <1>5, <1>6, <2>2, <2>3
<1>8. PICK r \in Object : r \notin Img BY <1>7
<1>9. \A v \in Owner : found[v] # r BY <1>2, <1>3, <1>8
<1>10. opener[r] = None BY <1>1, <1>9 DEF GroupIInv, OpenerOK
<1>11. \A g \in GroupName : groups[g] # r
  BY <1>3, <1>8, <1>9 DEF GroupIInv, RegistryOK
<1> QED BY <1>8, <1>9, <1>10, <1>11 DEF Unused

(* Every reachable state of the groups satisfies the inductive invariant.  *)
LEMMA GroupInvariance == GroupSpec => []GroupIInv
<1>1. GroupIInv /\ [GroupNext]_groupVars => GroupIInv'
  <2> SUFFICES ASSUME GroupIInv, [GroupNext]_groupVars PROVE GroupIInv' BY Zenon
  <2>1. CASE UNCHANGED groupVars
    <3>1. UNCHANGED <<groupConf, groups, lns, opener, realPort, listener, found, accepting, worker,
                      backlog, user, pm, routes>>
      BY <2>1 DEF groupVars, connVars, endpointVars
    <3>2. ConnTypes BY Zenon, GroupFacts
    <3>3. ConnTypes' BY <3>1, <3>2 DEF ConnTypes
    <3>4. \A r \in Object : lns[r] # {} => worker'[r] # Gone BY <3>1 DEF GroupIInv, MembersOK, HoldsEndpoint
    <3> QED BY Zenon, <3>1, <3>3, <3>4, ConnOnly
  <2>2. CASE GroupNext
    <3>1. groupConf' = groupConf BY <2>2 DEF GroupNext
    <3>2. ASSUME NEW p \in Owner, ListenSteps(p) \/ CloseListener(p) PROVE GroupIInv'
      <4>1. KindOf[GroupOf(p)] = Kind(p) BY Zenon DEF Kind, GroupOf
      <4>2. CASE GetOrCreate(p)
        <5>1. listener[p] = "idle" BY <4>2 DEF GetOrCreate
        <5>2. \E r \in Object : r \in Unused BY <3>1, <5>1, UnusedThere
        <5> QED BY <3>1, <4>2, <5>2, GetStep
      <4>3. CASE Stale(p) BY <3>1, <4>3, StaleStep
      <4>4. CASE Kind(p) = "tcp" /\ ListenFirstTCP(p) BY <3>1, <4>1, <4>4, FirstTCPStep
      <4>5. CASE Kind(p) # "tcp" /\ ListenFirstMux(p) BY <3>1, <4>1, <4>5, FirstMuxStep
      <4>6. CASE ListenMore(p) BY <3>1, <4>6, MoreStep
      <4>7. CASE OnClose(p) BY <3>1, <4>7, LeaveStep, LastLeavesStep
      <4>8. CASE AcceptEnds(p) BY <3>1, <4>8, AcceptEndsStep
      <4>9. CASE CloseListener(p) BY <3>1, <4>9, CloseListenerStep
      <4>10. Kind(p) = "https" \/ Kind(p) = "tcpmux" => Kind(p) # "tcp" BY Zenon
      <4> QED BY Zenon, <3>2, <4>2, <4>3, <4>4, <4>5, <4>6, <4>7, <4>8, <4>9, <4>10
              DEF ListenSteps, ListenTCP, ListenHTTPS, ListenTCPMux
    <3>3. ASSUME NEW o \in Object, WorkerSteps(o) \/ \E u \in User : Connect(u, o) PROVE GroupIInv'
      BY <3>1, <3>3, WorkerStep
    <3> QED BY <2>2, <3>2, <3>3 DEF GroupNext
  <2> QED BY <2>1, <2>2
<1> QED BY <1>1, GroupInitial, PTL DEF GroupSpec

(* The proxies of a group whose Listen succeeded hold the endpoint they    *)
(* were promised and are found in the registry, and no endpoint is held by *)
(* an object without proxies, for any number of proxies, names and ports.  *)
THEOREM GroupSafe == GroupSpec => [](GroupTypeOK /\ MembersHoldEndpoint)
<1>1. GroupIInv => GroupTypeOK /\ MembersHoldEndpoint
  <2> SUFFICES ASSUME GroupIInv PROVE MembersHoldEndpoint BY Zenon DEF GroupIInv
  <2>1. ASSUME NEW o \in Object, lns[o] # {}
        PROVE  /\ groups[groupConf[opener[o]].group] = o /\ worker[o] # Gone
               /\ \A p \in lns[o] : Alike(p, opener[o]) /\ groupConf[p].group = groupConf[opener[o]].group
               /\ IF KindOf[groupConf[opener[o]].group] = "tcp" THEN pm.used[realPort[o]] # None
                  ELSE routes[groupConf[opener[o]].want] = o
    <3>1. HoldsEndpoint(o) BY Zenon, <2>1 DEF GroupIInv, MembersOK
    <3> QED BY Zenon, <3>1 DEF HoldsEndpoint, GroupOf, WantOf, Alike
  <2>2. \A q \in Port : /\ pm.used[q] # None => \E o \in Object : lns[o] # {} /\ realPort[o] = q
                        /\ routes[q] # None => lns[routes[q]] # {}
    BY Zenon DEF GroupIInv, EndpointsOK
  <2> QED BY Zenon, <2>1, <2>2 DEF MembersHoldEndpoint
<1> QED BY <1>1, GroupInvariance, PTL
====

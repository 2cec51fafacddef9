---------------------------- MODULE VhostRouter ----------------------------
(***************************************************************************)
(* The route table of the virtual hosts (pkg/util/vhost/router.go): the    *)
(* routes of a domain and an HTTP user, in descending order of their       *)
(* locations.  Every method holds the table's mutex, so a method is an     *)
(* operator on the table.                                                  *)
(*                                                                         *)
(* A domain is its sequence of labels in lower case, a location or a path  *)
(* a sequence of numbers that stand for its characters.                    *)
(***************************************************************************)
EXTENDS Integers, Sequences, SequencesExt

CONSTANTS Domain,    \* the domains of routes; Catchall is the domain "*"
          HTTPUser,  \* the HTTP users of routes
          AllUsers,  \* the user "" of a route for all users
          NoRoute

Star == "*"
Catchall == <<Star>>

EmptyTable == [k \in Domain \X HTTPUser |-> <<>>]

(* cmp.Compare of two locations.                                           *)
Before(a, b) ==
  \E i \in 1..Len(b) : /\ \A j \in 1..(i - 1) : j \in DOMAIN a /\ a[j] = b[j]
                       /\ i > Len(a) \/ a[i] < b[i]

RouteExist(t, domain, location, user) ==
  \E i \in DOMAIN t[domain, user] : t[domain, user][i].location = location

(* Add, which the callers only reach for a route that does not exist.      *)
Unsorted(vrs, vr) == Append(vrs, vr)
Sorted(vrs, vr) == SortSeq(Append(vrs, vr), LAMBDA a, b : Before(b.location, a.location))
RouteAdd(t, domain, location, user, payload) ==
  [t EXCEPT ![domain, user] = Sorted(@, [location |-> location, payload |-> payload])]

RouteDel(t, domain, location, user) ==
  [t EXCEPT ![domain, user] = SelectSeq(@, LAMBDA vr : vr.location # location)]

(* getLocked: the first route whose location is a prefix of the path.      *)
GetLocked(t, host, path, user) ==
  LET vrs == IF <<host, user>> \in DOMAIN t
             THEN SelectSeq(t[host, user], LAMBDA vr : IsPrefix(vr.location, path))
             ELSE <<>>
  IN  IF vrs = <<>> THEN NoRoute ELSE vrs[1].payload

GetExactOrAllUsers(t, host, path, user) ==
  LET vr == GetLocked(t, host, path, user)
  IN  IF vr # NoRoute THEN vr ELSE GetLocked(t, host, path, AllUsers)

(* The hosts getByRoute tries: the host itself, the wildcard domains that  *)
(* keep at least two labels of it, and "*".                                *)
Wildcards(host) == [i \in 1..(Len(host) - 2) |-> Catchall \o SubSeq(host, i + 1, Len(host))]
HostsTried(host) == <<host>> \o Wildcards(host) \o <<Catchall>>

GetByRoute(t, host, path, user) ==
  LET hits == SelectSeq(HostsTried(host),
                        LAMBDA h : GetExactOrAllUsers(t, h, path, user) # NoRoute)
  IN  IF hits = <<>> THEN NoRoute ELSE GetExactOrAllUsers(t, hits[1], path, user)
=============================================================================

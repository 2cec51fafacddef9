---------------------------- MODULE PortManager ----------------------------
(***************************************************************************)
(* The port manager of frps (server/ports/ports.go).  frps has one for TCP *)
(* and one for UDP.  Every method holds the manager's mutex, so a method   *)
(* is an operator on the manager's state.                                  *)
(*                                                                         *)
(* "used" gives the owner of a port: a proxy, or the shared listener of a  *)
(* port.  "reserved" and "closed" are the port and the Closed flag of the  *)
(* last PortCtx acquired under a name; it is the PortCtx in "used" if the  *)
(* ports agree, since an Acquire replaces both.                            *)
(***************************************************************************)
EXTENDS FiniteSets, Integers

CONSTANTS Port,       \* the allowed ports
          AnyPort,    \* remote port 0: let the manager choose
          Owner,      \* whoever acquires ports
          PortName,   \* the names ports are reserved under
          NameOf,     \* the name an owner acquires under
          MaxTry,     \* maxTryTimes of the random choice
          None

ASSUME PortAssumption ==
  /\ None \notin Owner \cup Port /\ AnyPort \notin Port \cup {None}
  /\ NameOf \in [Owner -> PortName]
  /\ MaxTry \in Nat \ {0}

Managers == [used     : [Port -> Owner \cup {None}],
             free     : SUBSET Port,
             reserved : [PortName -> Port \cup {None}],
             closed   : [PortName -> BOOLEAN]]

NewManager == [used     |-> [q \in Port |-> None],
               free     |-> Port,
               reserved |-> [n \in PortName |-> None],
               closed   |-> [n \in PortName |-> FALSE]]

(* What Acquire may return, None for an error: the reserved port if the    *)
(* port is free to bind, or one of MaxTry free ports tried at random, or   *)
(* the port asked for.  "avail" is what isPortAvailable finds bindable.    *)
AnyBindable(pm, o, want, avail) ==
  IF want = AnyPort THEN avail ELSE IF want \in avail THEN {want} ELSE {None}
Unresolved(pm, o, want, avail) == {want}
Acquirable(pm, o, want, avail) ==
  CASE want # AnyPort -> IF want \in pm.free \cap avail THEN {want} ELSE {None}
    [] want = AnyPort /\ pm.reserved[NameOf[o]] \in avail -> {pm.reserved[NameOf[o]]}
    [] OTHER -> (pm.free \cap avail)
                \cup (IF pm.free \cap avail = {} \/ Cardinality(pm.free \ avail) >= MaxTry
                      THEN {None} ELSE {})

(* markPortAcquiredLocked.                                                 *)
StillFree(pm, o, q) == [pm EXCEPT !.used[q] = o, !.reserved[NameOf[o]] = q,
                                  !.closed[NameOf[o]] = FALSE]
Marked(pm, o, q) == [pm EXCEPT !.used[q] = o, !.free = @ \ {q},
                               !.reserved[NameOf[o]] = q, !.closed[NameOf[o]] = FALSE]

(* Release: of whatever holds the port, whoever calls.                     *)
Released(pm, q) ==
  IF q = None \/ pm.used[q] = None THEN pm
  ELSE LET n == NameOf[pm.used[q]]
       IN  [pm EXCEPT !.free = @ \cup {q}, !.used[q] = None,
                      !.closed[n] = @ \/ pm.reserved[n] = q]

(* cleanReservedPortsOnce drops a closed reservation that has expired.     *)
Cleanable(pm, n) == pm.reserved[n] # None /\ pm.closed[n]
Cleaned(pm, n) == [pm EXCEPT !.reserved[n] = None, !.closed[n] = FALSE]

(* A port is free or used, never both and never lost.                      *)
Partitioned(pm) == pm.free = {q \in Port : pm.used[q] = None}
=============================================================================

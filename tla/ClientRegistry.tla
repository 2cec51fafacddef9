--------------------------- MODULE ClientRegistry ---------------------------
(***************************************************************************)
(* The client registry of frps (server/registry/registry.go): which client *)
(* is online and under which run id.  Every method of ClientRegistry holds *)
(* its mutex from beginning to end, so an operation is an operator on the  *)
(* registry's state, and the actions that call it are those of the modules *)
(* that use the registry.                                                  *)
(*                                                                         *)
(* The state is a record: "clients" maps a key to what is known of the     *)
(* client, None when there is no entry; "runIndex" maps a run id to the    *)
(* key registered under it.  The user name, the same prefix on every key   *)
(* of one user, and the descriptive fields of ClientInfo (addresses,       *)
(* versions, times) are left out: no operation branches on them.           *)
(***************************************************************************)
CONSTANTS RunID,     \* run ids, the ones RandID generates included
          ClientID,  \* client ids that clients may configure
          None       \* the empty string and the nil pointer

ASSUME RegistryAssumption ==
  /\ RunID \cap ClientID = {}
  /\ None \notin RunID \cup ClientID

Key == RunID \cup ClientID

ClientInfo == [run : RunID \cup {None}, online : BOOLEAN]

Registries == [clients  : [Key -> ClientInfo \cup {None}],
               runIndex : [RunID -> Key \cup {None}]]

EmptyRegistry == [clients  |-> [k \in Key |-> None],
                  runIndex |-> [r \in RunID |-> None]]

(* The key of a client: its client id, or its run id when it configures    *)
(* none.  An entry has an empty RawClientID exactly when its key is a run  *)
(* id.                                                                     *)
ClientKey(id, r) == IF id = None THEN r ELSE id

(* Register refuses a configured client id that is online under another    *)
(* run id.                                                                 *)
Conflicts(reg, id, r) ==
  /\ id # None
  /\ reg.clients[id] # None
  /\ reg.clients[id].online
  /\ reg.clients[id].run \notin {None, r}

(* Register of a client that does not conflict.                            *)
Registered(reg, id, r) ==
  LET k   == ClientKey(id, r)
      old == IF reg.clients[k] = None THEN None ELSE reg.clients[k].run
  IN  [clients  |-> [reg.clients EXCEPT ![k] = [run |-> r, online |-> TRUE]],
       runIndex |-> [x \in RunID |-> IF x = r THEN k
                                     ELSE IF x = old THEN None
                                     ELSE reg.runIndex[x]]]

(* MarkOfflineByRunID: an entry that still carries the run id goes away,   *)
(* or stays as an offline record when the client configured an id.         *)
MarkedOffline(reg, r) ==
  IF r = None \/ (r \in RunID /\ reg.runIndex[r] = None)
  THEN reg
  ELSE LET k == reg.runIndex[r]
           current == reg.clients[k] # None /\ reg.clients[k].run = r
       IN [clients  |-> IF ~current THEN reg.clients
                        ELSE [reg.clients EXCEPT ![k] =
                                IF k \in RunID THEN None
                                ELSE [run |-> None, online |-> FALSE]],
           runIndex |-> [reg.runIndex EXCEPT ![r] = None]]

(* The registry shows a client online under run id r.                      *)
OnlineUnder(reg, r) ==
  \E k \in Key : /\ reg.clients[k] # None
                 /\ reg.clients[k].online
                 /\ reg.clients[k].run = r
=============================================================================

----------------------------- MODULE ConfigStore -----------------------------
(***************************************************************************)
(* Where the proxies and visitors of a client come from.  The file the     *)
(* client was started with fills the ConfigSource (pkg/config/load.go);    *)
(* the store (pkg/config/source/store.go) holds what the HTTP API adds,    *)
(* changes and removes, and writes it to a file of its own; the aggregator *)
(* merges the two.  client/config_manager.go and client/service.go hold    *)
(* reloadMu over a change and the reload after it.  The process may crash  *)
(* at any step and start again.                                            *)
(*                                                                         *)
(* An entry is [v, on, done]: a value (0 where there is no entry), Enabled,*)
(* and whether Complete has filled in its defaults.                        *)
(***************************************************************************)
EXTENDS Integers

CONSTANTS
  Entry,      \* the keys of the entries: <<"proxy" or "visitor", name>>
  ConfFiles   \* what an operator may write into the client's file: [entries, start, valid]

VARIABLES
  confFile,   \* the client's file
  confSrc,    \* ConfigSource, and the start list of the common configuration
  storeFile,  \* the file of the store: [kind, entries], kind none, part or whole
  tmpFile,    \* the temporary file next to it
  storeMem,   \* StoreSource
  running,    \* what UpdateAllConfigurer was last given
  op,         \* the holder of reloadMu: what it does, and how far it is
  acked,      \* the store as the answers of the API describe it
  reads,      \* what calls of ReloadFromFile have read and not yet applied
  pending,    \* the store as a change under way would make it, if there is one
  up          \* the client runs

storeVars == <<confFile, confSrc, storeFile, tmpFile, storeMem, running, op, acked, reads, pending, up>>

NoEntry == [v |-> 0, on |-> FALSE, done |-> FALSE]
Item == {NoEntry} \cup [v : 1..2, on : BOOLEAN, done : BOOLEAN]
Entries == [Entry -> Item]
NoEntries == [n \in Entry |-> NoEntry]
NoFile == [kind |-> "none", entries |-> NoEntries]
NoOp == [at |-> "none", name |-> CHOOSE n \in Entry : TRUE, old |-> NoEntry]

StoreTypeOK ==
  /\ confFile \in ConfFiles /\ reads \subseteq ConfFiles /\ confSrc \in [entries : Entries, start : SUBSET {n[2] : n \in Entry}]
  /\ storeFile \in [kind : {"none", "part", "whole"}, entries : Entries]
  /\ tmpFile \in [kind : {"none", "part", "whole"}, entries : Entries]
  /\ storeMem \in Entries /\ running \in Entries /\ acked \in Entries /\ pending \in SUBSET Entries
  /\ op \in [at : {"none", "open", "sync", "rename", "reload"}, name : Entry, old : Item]
  /\ up \in BOOLEAN
-----------------------------------------------------------------------------
(* Load of a source: the enabled entries, cloned.  "same" is the entry of  *)
(* the source itself.                                                      *)
Shared(e) == [e |-> e, same |-> TRUE]
Cloned(e) == [e |-> e, same |-> FALSE]
AnyEntry(e) == e.v # 0
LoadsEntry(e) == e.v # 0 /\ e.on
LoadSource(src) == [n \in {m \in Entry : LoadsEntry(src[m])} |-> Cloned(src[n])]

(* Load of the aggregator: the store's entries replace those of the file.  *)
AggregatorLoad(conf, store) ==
  LET c == LoadSource(conf)
      s == LoadSource(store)
  IN  [n \in DOMAIN c \cup DOMAIN s |-> IF n \in DOMAIN s THEN s[n] ELSE c[n]]

FilterClientConfigurers(start, loaded) ==
  [n \in {m \in DOMAIN loaded : (start = {} \/ m[2] \in start) /\ loaded[m].e.on} |-> loaded[n]]

Complete(e) == [e EXCEPT !.done = TRUE]
CompleteProxyConfigurers(loaded) ==
  [n \in Entry |-> IF n \in DOMAIN loaded THEN Complete(loaded[n].e) ELSE NoEntry]

(* Complete writes through the pointer it is given: what it leaves of the  *)
(* entries of the store.                                                   *)
AfterComplete(src, loaded) ==
  [n \in Entry |-> IF LoadsEntry(src[n]) /\ n \in DOMAIN loaded /\ loaded[n].same THEN Complete(src[n]) ELSE src[n]]

ReloadConfigFromSources(src, store) ==
  LET loaded == FilterClientConfigurers(src.start, AggregatorLoad(src.entries, store))
  IN  /\ running' = CompleteProxyConfigurers(loaded)
      /\ storeMem' = AfterComplete(store, loaded)
-----------------------------------------------------------------------------
(* newClient of the command: the file must be valid, and the store's       *)
(* readable or absent.                                                     *)
StoredFile == tmpFile
LoadFromFile == storeFile
StoreInit ==
  /\ confFile \in {c \in ConfFiles : c.valid}
  /\ confSrc = [entries |-> confFile.entries, start |-> confFile.start]
  /\ storeFile = NoFile /\ tmpFile = NoFile /\ op = NoOp /\ acked = NoEntries /\ reads = {} /\ pending = {} /\ up = TRUE
  /\ storeMem = NoEntries
  /\ running = CompleteProxyConfigurers(FilterClientConfigurers(confFile.start, AggregatorLoad(confFile.entries, NoEntries)))
StartClient ==
  /\ ~up /\ confFile.valid /\ LoadFromFile.kind # "part" /\ up' = TRUE
  /\ confSrc' = [entries |-> confFile.entries, start |-> confFile.start]
  /\ ReloadConfigFromSources(confSrc', LoadFromFile.entries)
  /\ acked' = LoadFromFile.entries /\ pending' = {}
  /\ UNCHANGED <<confFile, storeFile, tmpFile, op, reads>>
CrashClient ==
  /\ up /\ up' = FALSE /\ op' = NoOp /\ storeMem' = NoEntries /\ running' = NoEntries /\ reads' = {}
  /\ UNCHANGED <<confFile, confSrc, storeFile, tmpFile, acked, pending>>
-----------------------------------------------------------------------------
(* A change of the store: in memory first, then saveToFileUnlocked, which  *)
(* writes, syncs and renames; an error of any of them is rolled back.      *)
Mutate(n, e) ==
  /\ up /\ op.at = "none" /\ storeMem' = [storeMem EXCEPT ![n] = e]
  /\ op' = [at |-> "open", name |-> n, old |-> storeMem[n]] /\ pending' = {[acked EXCEPT ![n] = e]}
  /\ UNCHANGED <<confFile, confSrc, storeFile, tmpFile, running, acked, reads, up>>
ValidItem == [v : 1..2, on : BOOLEAN, done : {FALSE}]
AddStoreEntry(n) == storeMem[n].v = 0 /\ \E e \in ValidItem : Mutate(n, e)
UpdateStoreEntry(n) == storeMem[n].v # 0 /\ \E e \in ValidItem : Mutate(n, e)
RemoveStoreEntry(n) == storeMem[n].v # 0 /\ Mutate(n, NoEntry)
CreateStoreProxy(n) == n[1] = "proxy" /\ AddStoreEntry(n)
UpdateStoreProxy(n) == n[1] = "proxy" /\ UpdateStoreEntry(n)
DeleteStoreProxy(n) == n[1] = "proxy" /\ RemoveStoreEntry(n)
CreateStoreVisitor(n) == n[1] = "visitor" /\ AddStoreEntry(n)
UpdateStoreVisitor(n) == n[1] = "visitor" /\ UpdateStoreEntry(n)
DeleteStoreVisitor(n) == n[1] = "visitor" /\ RemoveStoreEntry(n)

InPlace == /\ storeFile' = [kind |-> "part", entries |-> storeMem]
           /\ UNCHANGED tmpFile
ToTemp == /\ tmpFile' = [kind |-> "part", entries |-> storeMem]
          /\ UNCHANGED storeFile
OpenTemp ==
  /\ op.at = "open" /\ ToTemp /\ op' = [op EXCEPT !.at = "sync"]
  /\ UNCHANGED <<confFile, confSrc, storeMem, running, acked, reads, pending, up>>
SyncTemp ==
  /\ op.at = "sync" /\ tmpFile' = [kind |-> "whole", entries |-> storeMem] /\ op' = [op EXCEPT !.at = "rename"]
  /\ UNCHANGED <<confFile, confSrc, storeFile, storeMem, running, acked, reads, pending, up>>
RenameTemp ==
  /\ op.at = "rename" /\ storeFile' = tmpFile /\ tmpFile' = NoFile /\ op' = [op EXCEPT !.at = "reload"]
  /\ UNCHANGED <<confFile, confSrc, storeMem, running, acked, reads, pending, up>>
NoRollback == storeMem
Rollback == [storeMem EXCEPT ![op.name] = op.old]
PersistFails ==
  /\ op.at \in {"open", "sync", "rename"} /\ storeMem' = Rollback
  /\ tmpFile' = (IF op.at = "open" THEN tmpFile ELSE NoFile) /\ op' = NoOp /\ pending' = {}
  /\ UNCHANGED <<confFile, confSrc, storeFile, running, acked, reads, up>>
ReloadAfterStore ==
  /\ op.at = "reload" /\ ReloadConfigFromSources(confSrc, storeMem)
  /\ acked' = (CHOOSE p \in pending : TRUE) /\ pending' = {} /\ op' = NoOp
  /\ UNCHANGED <<confFile, confSrc, storeFile, tmpFile, reads, up>>
-----------------------------------------------------------------------------
(* The client's file is written by the operator.  ReloadFromFile reads it, *)
(* gives up if it is not valid, and only then takes the lock.              *)
WriteConfigFile ==
  /\ confFile' \in ConfFiles
  /\ UNCHANGED <<confSrc, storeFile, tmpFile, storeMem, running, op, acked, reads, pending, up>>
ReloadFromFile ==
  /\ up /\ confFile.valid /\ reads' = reads \cup {confFile}
  /\ UNCHANGED <<confFile, confSrc, storeFile, tmpFile, storeMem, running, op, acked, pending, up>>
UpdateConfigSource ==
  /\ up /\ op.at = "none"
  /\ \E c \in reads :
       /\ reads' = reads \ {c} /\ confSrc' = [entries |-> c.entries, start |-> c.start]
       /\ ReloadConfigFromSources(confSrc', storeMem)
  /\ UNCHANGED <<confFile, storeFile, tmpFile, op, acked, pending, up>>

StoreNext ==
  \/ StartClient \/ CrashClient \/ OpenTemp \/ SyncTemp \/ RenameTemp \/ PersistFails \/ ReloadAfterStore
  \/ WriteConfigFile \/ ReloadFromFile \/ UpdateConfigSource
  \/ \E n \in Entry : CreateStoreProxy(n) \/ UpdateStoreProxy(n) \/ DeleteStoreProxy(n)
                    \/ CreateStoreVisitor(n) \/ UpdateStoreVisitor(n) \/ DeleteStoreVisitor(n)
StoreSpec == StoreInit /\ [][StoreNext]_storeVars
-----------------------------------------------------------------------------
(* Between two calls of the API the store is what its answers said: a      *)
(* change that could not be saved has left nothing behind, and what        *)
(* Complete fills in for the running proxies has not reached it.           *)
StoreAsAcked == (up /\ op.at = "none") => storeMem = acked

(* A crash loses no change that was answered, and a change cut off by it   *)
(* is there as a whole or not at all.                                      *)
Survives == [][(~up /\ up') => storeMem' \in {acked} \cup pending]_storeVars

(* The file of the store can be read again, whenever the crash comes.      *)
Readable == storeFile.kind # "part"

(* What runs is what the two sources ask for: an enabled entry of the      *)
(* store, or else an enabled one of the file, if start allows it.          *)
RunsWhatIsAsked ==
  (up /\ op.at = "none") =>
    \A n \in Entry :
      LET asked == IF storeMem[n].on THEN storeMem[n] ELSE confSrc.entries[n]
          wanted == asked.on /\ (confSrc.start = {} \/ n[2] \in confSrc.start)
      IN  running[n].v = (IF wanted THEN asked.v ELSE 0)

(* The store keeps what it has answered for and nothing else: in memory    *)
(* between two calls, and in a file that a start can read after a crash at *)
(* any step of saveToFileUnlocked.                                         *)
StoreDurable ==
  []StoreAsAcked /\ []Readable /\ Survives
=============================================================================

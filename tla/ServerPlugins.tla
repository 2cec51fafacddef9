---------------------------- MODULE ServerPlugins ----------------------------
(***************************************************************************)
(* The server's plugins: pkg/plugin/server/manager.go and http.go, called  *)
(* by the handlers of server/control.go and server/service.go.  The        *)
(* content of a request is the sequence of the plugins that changed it.    *)
(* Requests of one client are handled one after another; the notes that a  *)
(* proxy was closed go out from goroutines of their own.                   *)
(***************************************************************************)
EXTENDS Integers, Sequences, FiniteSets

CONSTANTS
  PluginOrder,    \* the plugins, in the order they are registered
  SupportCases,   \* what each supports: a set of functions from plugins to sets of operations
  Note,           \* goroutines that can report a close at the same time
  MaxCloses       \* closes of the proxy

VARIABLES
  supports,   \* IsSupport
  chain,      \* the request being handled: [op, next, content, touched, out]
  closed,     \* how often the proxy was closed
  proxyUp,    \* the proxy is registered
  notes,      \* [Note -> which plugin of the close list is told next, 0 when idle]
  heard       \* how often each plugin was told

pluginVars == <<supports, chain, closed, proxyUp, notes, heard>>

Plugins == {PluginOrder[i] : i \in 1..Len(PluginOrder)}
MutableOps == {"Login", "NewProxy", "Ping", "NewWorkConn", "NewUserConn"}
Register(op) == SelectSeq(PluginOrder, LAMBDA p : op \in supports[p])
NoRequest == [op |-> "none", next |-> 0, content |-> <<>>, touched |-> {}, out |-> "idle"]

PluginInit ==
  /\ supports \in SupportCases /\ chain = NoRequest /\ closed = 0 /\ proxyUp = FALSE
  /\ notes = [n \in Note |-> 0] /\ heard = [p \in Plugins |-> 0]

(* A request comes; the proxy is only made once.                           *)
Starts(op) ==
  /\ chain.out # "running" /\ (op = "NewProxy" => ~proxyUp)
  /\ chain' = [NoRequest EXCEPT !.op = op, !.next = 1, !.out = "running"]
  /\ UNCHANGED <<supports, closed, proxyUp, notes, heard>>

(* handleMutableContent: one plugin answers - leaves the content, changes  *)
(* it, rejects, or fails.                                                  *)
OnlyLast(content, p) == <<p>>
Changes(content, p) == Append(content, p)
HandleNext(answer) ==
  LET list == Register(chain.op)
  IN  /\ chain.out = "running" /\ chain.next <= Len(list)
      /\ chain' =
           CASE answer = "leaves" -> [chain EXCEPT !.next = @ + 1]
             [] answer = "changes" ->
                  [chain EXCEPT !.next = @ + 1, !.content = Changes(@, list[chain.next]),
                                !.touched = @ \cup {list[chain.next]}]
             [] answer = "rejects" -> [chain EXCEPT !.out = "rejected"]
             [] answer = "fails" -> [chain EXCEPT !.out = "failed"]
      /\ UNCHANGED <<supports, closed, proxyUp, notes, heard>>

(* The plugins let it pass, and the handler goes on: RegisterProxy may     *)
(* still refuse the proxy.                                                 *)
Passes ==
  /\ chain.out = "running" /\ chain.next > Len(Register(chain.op))
  /\ chain' = [chain EXCEPT !.out = "passed"]
  /\ proxyUp' \in (IF chain.op = "NewProxy" THEN {TRUE, FALSE} ELSE {proxyUp})
  /\ UNCHANGED <<supports, closed, notes, heard>>
-----------------------------------------------------------------------------
(* Control.closeProxy: the proxy goes, and a goroutine starts to tell.     *)
CloseTheProxy(n) ==
  /\ chain.out # "running" /\ proxyUp /\ notes[n] = 0 /\ closed < MaxCloses
  /\ proxyUp' = FALSE /\ closed' = closed + 1 /\ notes' = [notes EXCEPT ![n] = 1]
  /\ UNCHANGED <<supports, chain, heard>>

(* Manager.CloseProxy: every plugin is told, whatever the others answer.   *)
StopAtError(i, n, ok) == IF ok THEN i + 1 ELSE n + 1
RetriesOnError(i, n, ok) == IF ok THEN i + 1 ELSE i
TellsNext(i, n, ok) == i + 1
TellClosed(n, ok) ==
  LET list == Register("CloseProxy")
  IN  /\ notes[n] \in 1..Len(list)
      /\ heard' = [heard EXCEPT ![list[notes[n]]] = @ + 1]
      /\ notes' = [notes EXCEPT ![n] = TellsNext(@, Len(list), ok)]
      /\ UNCHANGED <<supports, chain, closed, proxyUp>>
AllTold(n) ==
  /\ notes[n] > Len(Register("CloseProxy")) /\ notes' = [notes EXCEPT ![n] = 0]
  /\ UNCHANGED <<supports, chain, closed, proxyUp, heard>>

PluginNext ==
  \/ \E op \in MutableOps : Starts(op)
  \/ \E a \in {"leaves", "changes", "rejects", "fails"} : HandleNext(a)
  \/ Passes
  \/ \E n \in Note : CloseTheProxy(n) \/ AllTold(n) \/ \E ok \in BOOLEAN : TellClosed(n, ok)
PluginSpec == PluginInit /\ [][PluginNext]_pluginVars
-----------------------------------------------------------------------------
PluginTypeOK ==
  /\ supports \in [Plugins -> SUBSET (MutableOps \cup {"CloseProxy"})] /\ proxyUp \in BOOLEAN
  /\ chain.op \in MutableOps \cup {"none"} /\ chain.touched \subseteq Plugins
  /\ chain.out \in {"idle", "running", "passed", "rejected", "failed"}
  /\ closed \in 0..MaxCloses /\ heard \in [Plugins -> 0..MaxCloses]
  /\ notes \in [Note -> 0..(Len(PluginOrder) + 1)]

(* What the handler works with carries the changes of every plugin that    *)
(* made some, in the order of their registration.                          *)
AllChangesKept ==
  chain.out = "passed" => chain.content = SelectSeq(PluginOrder, LAMBDA p : p \in chain.touched)

(* Once the goroutines are done, every plugin that wants to know was told  *)
(* of every close exactly once, also when another plugin failed.           *)
EveryCloseTold ==
  (\A n \in Note : notes[n] = 0) => \A p \in Plugins : heard[p] = (IF "CloseProxy" \in supports[p] THEN closed ELSE 0)
=============================================================================

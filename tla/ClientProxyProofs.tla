------------------------- MODULE ClientProxyProofs --------------------------
(***************************************************************************)
(* For any names, wrappers, plugins and visitors: safety of the proxies of a*)
(* client and of the routes of its virtual network.                        *)
(***************************************************************************)
EXTENDS ClientProxy, VirtualNet, SequenceTheorems, FiniteSetTheorems, TLAPS

-----------------------------------------------------------------------------
(***************************************************************************)
(* The routes of the virtual network (pkg/vnet).                           *)
(***************************************************************************)
(* A signal is left in a pipe only while the plugin waits on that pipe,    *)
(* and an error only while it may count one more.                          *)
SigHeeded ==
    \A i \in PipeID : pipe[i].sig # "none" =>
        Heeded(i) /\ (pipe[i].sig = "err" => plug[i[1]].errors < MaxErrors)

(* The route is the new pipe's from its registration on.                   *)
RouteHeld ==
    \A g \in Plug :
        /\ plug[g].at \in {"routed", "wait"} /\ plug[g].shut = "no"
        /\ pipe[PipeOf(g)].ctrl /\ pipe[PipeOf(g)].far
        => broute = PipeOf(g)

VnetIInv == VnetTypeOK /\ SigHeeded /\ RouteHeld /\ SourcesLive

(* The inductive invariant holds before anything is plugged in.            *)
LEMMA VnetInitial == VnetInit => VnetIInv
<1> SUFFICES ASSUME VnetInit PROVE VnetIInv BY Zenon
<1>1. plug \in [Plug -> VisitorPlugin] /\ \A g \in Plug : plug[g].at = "top"
  BY VnetAssumption DEF VnetInit, VisitorPlugin
<1>2. pipe \in [PipeID -> Pipes] /\ \A i \in PipeID : pipe[i].sig = "none" BY Zenon DEF VnetInit, Pipes, NoPipeYet
<1>3. broute \in ClientRouter BY Zenon DEF VnetInit, ClientRouter
<1>4. srcIPConns \in ServerRouter /\ \A i \in VnetIP : srcIPConns[i] = NoVnetConn BY Zenon DEF VnetInit, ServerRouter
<1>5. nconn \in [VnetConn -> WorkConns] BY Zenon, VnetAssumption DEF VnetInit, WorkConns
<1>6. nplugin \in ProxyPlugin BY Zenon DEF VnetInit, ProxyPlugin
<1>7. tun \in [at : {"read", "write", "ended"}, target : Targets]
  <2>1. [kind |-> "none"] \in Targets BY Zenon DEF Targets
  <2> QED BY Zenon, <2>1 DEF VnetInit
<1>8. SigHeeded BY Zenon, <1>2 DEF SigHeeded
<1>9. RouteHeld BY Zenon, <1>1 DEF RouteHeld
<1>10. SourcesLive BY Zenon, <1>4 DEF SourcesLive
<1> QED BY Zenon, <1>1, <1>2, <1>3, <1>4, <1>5, <1>6, <1>7, <1>8, <1>9, <1>10 DEF VnetIInv, VnetTypeOK

(* A delay fits in its range, overflow or not.                             *)
LEMMA DelayRange == ASSUME NEW n \in Nat \ {0} PROVE ReconnectDelay(n) \in -1 .. 300
<1>1. Doubled(0) = 60 /\ Doubled(1) = 120 /\ Doubled(2) = 240
  <2>1. 2^0 = 1 /\ 2^1 = 2 /\ 2^2 = 4 OBVIOUS
  <2> QED BY <2>1 DEF Doubled
<1>2. \A k : Overflowed(k) \in {-1, 0, 300} BY SMT DEF Overflowed
<1>3. CASE n \in {1, 2, 3} BY <1>1, <1>3 DEF ReconnectDelay
<1>4. CASE n > 3 BY <1>2, <1>4 DEF ReconnectDelay
<1> QED BY <1>3, <1>4

(* The pipes of a plugin are pipes, and there is one plugin.               *)
LEMMA PipeFacts ==
    ASSUME VnetTypeOK
    PROVE  /\ \A g \in Plug : PipeOf(g) \in PipeID /\ <<g, 1 - plug[g].slot>> \in PipeID
           /\ \A i \in PipeID : i[1] \in Plug /\ i # NoPipe
           /\ \A g, h \in Plug : g = h
BY VnetAssumption DEF VnetTypeOK, VisitorPlugin, PipeOf, PipeID, NoPipe

(* Collecting the pipes both ends have left forgets those and no others.   *)
LEMMA CollectedFacts ==
    ASSUME NEW ps \in [PipeID -> Pipes]
    PROVE  /\ Collected(ps) \in [PipeID -> Pipes]
           /\ \A i \in PipeID : Collected(ps)[i] \in {ps[i], NoPipeYet}
BY Zenon DEF Collected, Pipes, NoPipeYet

(* cleanupControllerConn closes the end the plugin holds and nothing else. *)
LEMMA CloseHeldFacts ==
    ASSUME VnetTypeOK, NEW g \in Plug
    PROVE  /\ CleanupControllerConn(g) \in [PipeID -> Pipes]
           /\ \A i \in PipeID : CleanupControllerConn(g)[i] \in {pipe[i], [pipe[i] EXCEPT !.ctrl = FALSE]}
<1>1. pipe \in [PipeID -> Pipes] /\ plug[g].held \in PipeID \cup {NoPipe}
  BY Zenon DEF VnetTypeOK, VisitorPlugin
<1>2. \A i \in PipeID : [pipe[i] EXCEPT !.ctrl = FALSE] \in Pipes BY Zenon, <1>1 DEF Pipes
<1> QED BY Zenon, <1>1, <1>2 DEF CleanupControllerConn, CloseHeld

(* Closing the far end of a pipe opens nothing and signals that pipe only, *)
(* when somebody heeds it.                                                 *)
LEMMA CloseFarFacts ==
    ASSUME VnetTypeOK, NEW i \in PipeID, NEW sig \in {"ok", "err"}
    PROVE  /\ CloseFar(i, sig) \in [PipeID -> Pipes]
           /\ \A j \in PipeID : /\ CloseFar(i, sig)[j].ctrl => pipe[j].ctrl
                                /\ CloseFar(i, sig)[j].far => pipe[j].far
                                /\ CloseFar(i, sig)[j].sig # "none" =>
                                      IF j = i THEN Heeded(i) /\ CloseFar(i, sig)[j].sig = sig
                                      ELSE CloseFar(i, sig)[j].sig = pipe[j].sig
<1> DEFINE ps == [pipe EXCEPT ![i].far = FALSE, ![i].handler = "none", ![i].sig = IF Heeded(i) THEN sig ELSE "none"]
<1>1. pipe \in [PipeID -> Pipes] BY Zenon DEF VnetTypeOK
<1>2. [pipe[i] EXCEPT !.far = FALSE, !.handler = "none", !.sig = IF Heeded(i) THEN sig ELSE "none"] \in Pipes
  BY Zenon, <1>1 DEF Pipes
<1>3. ps = [pipe EXCEPT ![i] = [pipe[i] EXCEPT !.far = FALSE, !.handler = "none", !.sig = IF Heeded(i) THEN sig ELSE "none"]]
  BY Zenon, <1>1
<1> HIDE DEF ps
<1>4. ps \in [PipeID -> Pipes] /\ \A j \in PipeID : ps[j] = IF j = i THEN [pipe[i] EXCEPT !.far = FALSE, !.handler = "none", !.sig = IF Heeded(i) THEN sig ELSE "none"] ELSE pipe[j]
  BY Zenon, <1>1, <1>2, <1>3
<1>5. CloseFar(i, sig) = Collected(ps) BY Zenon DEF CloseFar, ps
<1>6. /\ CloseFar(i, sig) \in [PipeID -> Pipes]
      /\ \A j \in PipeID : CloseFar(i, sig)[j] \in {ps[j], NoPipeYet}
  BY Zenon, <1>4, <1>5, CollectedFacts
<1>7. /\ ps[i].ctrl = pipe[i].ctrl /\ ps[i].far = FALSE
      /\ ps[i].sig = IF Heeded(i) THEN sig ELSE "none"
  <2>1. pipe[i] \in Pipes BY Zenon, <1>1
  <2> QED BY Zenon, <1>4, <2>1 DEF Pipes
<1>8. \A j \in PipeID : j # i => ps[j] = pipe[j] BY Zenon, <1>4
<1>9. ~NoPipeYet.ctrl /\ ~NoPipeYet.far /\ NoPipeYet.sig = "none" BY Zenon DEF NoPipeYet
<1> QED
  <2>1. \A j \in PipeID : /\ CloseFar(i, sig)[j].ctrl => pipe[j].ctrl
                          /\ CloseFar(i, sig)[j].far => pipe[j].far
                          /\ CloseFar(i, sig)[j].sig # "none" =>
                                IF j = i THEN Heeded(i) /\ CloseFar(i, sig)[j].sig = sig
                                ELSE CloseFar(i, sig)[j].sig = pipe[j].sig
    BY Zenon, <1>6, <1>7, <1>8, <1>9
  <2> QED BY Zenon, <1>6, <2>1

(* A plugin that is about to wait is a plugin.                             *)
LEMMA DelayType ==
    ASSUME NEW p \in VisitorPlugin, NEW e \in 0 .. MaxErrors, NEW d \in -1 .. 300
    PROVE  [p EXCEPT !.at = "delay", !.held = NoPipe, !.errors = e, !.delay = d] \in VisitorPlugin
<1> DEFINE E == 0 .. MaxErrors  D == -1 .. 300  H == PipeID \cup {NoPipe}
<1>1. VisitorPlugin = [at : {"top", "pipe", "routed", "wait", "delay", "ended"},
                       shut : {"no", "cancelled", "unrouted", "closed"}, held : H, slot : {0, 1},
                       errors : E, delay : D]
  BY Zenon DEF VisitorPlugin
<1>2. e \in E /\ d \in D /\ NoPipe \in H BY Zenon
<1> HIDE DEF E, D, H
<1> QED BY Zenon, <1>1, <1>2

(* Every step keeps to the types.                                          *)
LEMMA VnetTypeStep == ASSUME VnetTypeOK, SigHeeded, VnetNext PROVE VnetTypeOK'
<1>t. /\ plug \in [Plug -> VisitorPlugin] /\ pipe \in [PipeID -> Pipes] /\ broute \in ClientRouter
      /\ srcIPConns \in ServerRouter /\ nconn \in [VnetConn -> WorkConns] /\ nplugin \in ProxyPlugin
      /\ tun \in [at : {"read", "write", "ended"}, target : Targets]
  BY Zenon DEF VnetTypeOK
<1>q. ASSUME plug' \in [Plug -> VisitorPlugin], pipe' \in [PipeID -> Pipes], broute' \in ClientRouter,
             srcIPConns' \in ServerRouter, nconn' \in [VnetConn -> WorkConns], nplugin' \in ProxyPlugin,
             tun' \in [at : {"read", "write", "ended"}, target : Targets]
      PROVE  VnetTypeOK'
  BY Zenon, <1>q DEF VnetTypeOK
<1>1. ASSUME NEW g \in Plug, RunStops(g) PROVE VnetTypeOK'
  <2>a. plug[g] \in VisitorPlugin BY Zenon, <1>t
  <2>0. [plug[g] EXCEPT !.at = "ended", !.held = NoPipe] \in VisitorPlugin BY Zenon, <2>a DEF VisitorPlugin
  <2>1. plug' \in [Plug -> VisitorPlugin] BY Zenon, <1>t, <1>1, <2>0 DEF RunStops
  <2> QED BY Zenon, <1>q, <1>t, <1>1, <2>1, CloseHeldFacts DEF RunStops
<1>2. ASSUME NEW g \in Plug, NewPipe(g) PROVE VnetTypeOK'
  <2>1. plug' \in [Plug -> VisitorPlugin] BY <1>t, <1>2 DEF NewPipe, VisitorPlugin
  <2>2. [NoPipeYet EXCEPT !.ctrl = TRUE, !.far = TRUE] \in Pipes BY Zenon DEF NoPipeYet, Pipes
  <2>3. pipe' \in [PipeID -> Pipes] BY Zenon, <1>t, <1>2, <2>2 DEF NewPipe
  <2> QED BY Zenon, <1>q, <1>t, <1>2, <2>1, <2>3 DEF NewPipe
<1>3. ASSUME NEW g \in Plug, RegisterClientRoute(g) PROVE VnetTypeOK'
  <2>1. PipeOf(g) \in PipeID BY Zenon, PipeFacts
  <2>2. plug' \in [Plug -> VisitorPlugin] BY <1>t, <1>3, <2>1 DEF RegisterClientRoute, VisitorPlugin
  <2>3. [pipe[PipeOf(g)] EXCEPT !.loop = "reading"] \in Pipes BY <1>t, <2>1 DEF Pipes
  <2>4. pipe' \in [PipeID -> Pipes] BY Zenon, <1>t, <1>3, <2>1, <2>3 DEF RegisterClientRoute
  <2>5. broute' \in ClientRouter BY Zenon, <1>t, <1>3, <2>1 DEF RegisterClientRoute, ClientRouter
  <2> QED BY Zenon, <1>q, <1>t, <1>3, <2>2, <2>4, <2>5 DEF RegisterClientRoute
<1>4. ASSUME NEW g \in Plug, SendConnToVisitor(g) PROVE VnetTypeOK'
  <2>1. plug' \in [Plug -> VisitorPlugin] BY <1>t, <1>4 DEF SendConnToVisitor, VisitorPlugin
  <2>2. [pipe[PipeOf(g)] EXCEPT !.handler = IF plug[g].shut = "no" THEN "dialing" ELSE "none"] \in Pipes
    <3>1. pipe[PipeOf(g)] \in Pipes BY Zenon, <1>t, PipeFacts
    <3> QED BY Zenon, <3>1 DEF Pipes
  <2>3. pipe' \in [PipeID -> Pipes] BY Zenon, <1>t, <1>4, <2>2 DEF SendConnToVisitor
  <2> QED BY Zenon, <1>q, <1>t, <1>4, <2>1, <2>3 DEF SendConnToVisitor
<1>5. ASSUME NEW g \in Plug, WaitForClose(g) PROVE VnetTypeOK'
  <2>1. PipeOf(g) \in PipeID BY Zenon, PipeFacts
  <2>2. pipe[PipeOf(g)].sig = "err" => plug[g].errors < MaxErrors
    BY Zenon, <1>5, <2>1 DEF SigHeeded, PipeOf
  <2>3. plug[g] \in VisitorPlugin BY <1>t
  <2>4. pipe[PipeOf(g)].sig = "err" => ReconnectDelay(plug[g].errors + 1) \in -1 .. 300
    <3> DEFINE n == plug[g].errors + 1
    <3>1. n \in Nat \ {0} BY <2>3, VnetAssumption DEF VisitorPlugin
    <3> HIDE DEF n
    <3>2. ReconnectDelay(n) \in -1 .. 300 BY Zenon, <3>1, DelayRange
    <3> QED BY Zenon, <3>2 DEF n
  <2>5. AfterSignal(g) \in VisitorPlugin
    <3>1. CASE pipe[PipeOf(g)].sig = "err"
      <4>1. plug[g].errors + 1 \in 0 .. MaxErrors BY <2>2, <2>3, <3>1, VnetAssumption DEF VisitorPlugin
      <4>2. AfterSignal(g) = [plug[g] EXCEPT !.at = "delay", !.held = NoPipe, !.errors = plug[g].errors + 1,
                                             !.delay = ReconnectDelay(plug[g].errors + 1)]
        BY Zenon, <3>1 DEF AfterSignal
      <4> DEFINE e == plug[g].errors + 1  d == ReconnectDelay(e)
      <4>3. e \in 0 .. MaxErrors /\ d \in -1 .. 300 BY Zenon, <2>4, <3>1, <4>1
      <4> HIDE DEF e, d
      <4>4. [plug[g] EXCEPT !.at = "delay", !.held = NoPipe, !.errors = e, !.delay = d] \in VisitorPlugin
        BY Zenon, <2>3, <4>3, DelayType
      <4> QED BY Zenon, <4>2, <4>4 DEF e, d
    <3>2. CASE pipe[PipeOf(g)].sig # "err"
      <4>1. AfterSignal(g) = [plug[g] EXCEPT !.at = "delay", !.held = NoPipe, !.errors = 0, !.delay = 10]
        BY Zenon, <3>2 DEF AfterSignal
      <4>2. 0 \in 0 .. MaxErrors BY VnetAssumption
      <4>3. 10 \in -1 .. 300 OBVIOUS
      <4>4. \A d \in -1 .. 300 :
              [plug[g] EXCEPT !.at = "delay", !.held = NoPipe, !.errors = 0, !.delay = d] \in VisitorPlugin
        BY Zenon, <2>3, <4>2, DelayType
      <4> QED BY Zenon, <4>1, <4>3, <4>4
    <3> QED BY Zenon, <3>1, <3>2
  <2>6. [plug[g] EXCEPT !.at = "ended", !.held = NoPipe] \in VisitorPlugin
    BY Zenon, <2>3 DEF VisitorPlugin
  <2>7. plug' \in [Plug -> VisitorPlugin] BY Zenon, <1>t, <1>5, <2>5, <2>6 DEF WaitForClose
  <2> DEFINE c == CleanupControllerConn(g)
  <2>8. c \in [PipeID -> Pipes] BY Zenon, CloseHeldFacts
  <2> HIDE DEF c
  <2>9. [c[PipeOf(g)] EXCEPT !.sig = "none"] \in Pipes BY Zenon, <2>1, <2>8 DEF Pipes
  <2>10. [c EXCEPT ![PipeOf(g)].sig = "none"] \in [PipeID -> Pipes] BY Zenon, <2>1, <2>8, <2>9
  <2>11. pipe' \in [PipeID -> Pipes] BY Zenon, <1>5, <2>10, CollectedFacts DEF WaitForClose, c
  <2> QED BY Zenon, <1>q, <1>t, <1>5, <2>7, <2>11 DEF WaitForClose
<1>6. ASSUME NEW g \in Plug, WaitReconnect(g) PROVE VnetTypeOK'
  <2>1. plug' \in [Plug -> VisitorPlugin] BY <1>t, <1>6 DEF WaitReconnect, VisitorPlugin
  <2> QED BY Zenon, <1>q, <1>t, <1>6, <2>1 DEF WaitReconnect
<1>7. ASSUME NEW g \in Plug, VnetPluginClose(g) PROVE VnetTypeOK'
  <2>1. plug' \in [Plug -> VisitorPlugin] BY <1>t, <1>7 DEF VnetPluginClose, VisitorPlugin
  <2> QED BY Zenon, <1>q, <1>t, <1>7, <2>1 DEF VnetPluginClose
<1>8. ASSUME NEW g \in Plug, CloseStep(g) PROVE VnetTypeOK'
  <2>1. plug' \in [Plug -> VisitorPlugin]
    BY <1>t, <1>8 DEF CloseStep, UnregisterClientRoute, FinishClose, VisitorPlugin
  <2>2. pipe' \in [PipeID -> Pipes]
    BY <1>t, <1>8, CloseHeldFacts DEF CloseStep, UnregisterClientRoute, FinishClose
  <2>3. broute' \in ClientRouter
    BY Zenon, <1>t, <1>8 DEF CloseStep, UnregisterClientRoute, FinishClose, ClientRouter
  <2> QED BY Zenon, <1>q, <1>t, <1>8, <2>1, <2>2, <2>3 DEF CloseStep
<1>9. ASSUME NEW i \in PipeID, HandlerStep(i) PROVE VnetTypeOK'
  <2>1. [pipe[i] EXCEPT !.handler = "joined"] \in Pipes BY <1>t DEF Pipes
  <2>2. pipe' \in [PipeID -> Pipes]
    BY Zenon, <1>t, <1>9, <2>1, CloseFarFacts DEF HandlerStep, CloseWithError
  <2> QED BY Zenon, <1>q, <1>t, <1>9, <2>2 DEF HandlerStep
<1>10. ASSUME NEW i \in PipeID, RemoteEnds(i) PROVE VnetTypeOK'
  <2>1. pipe' \in [PipeID -> Pipes] BY Zenon, <1>10, CloseFarFacts DEF RemoteEnds
  <2> QED BY Zenon, <1>q, <1>t, <1>10, <2>1 DEF RemoteEnds
<1>11. ASSUME NEW i \in PipeID, ReadLoopClient(i) PROVE VnetTypeOK'
  <2>1. [pipe[i] EXCEPT !.loop = "done", !.ctrl = FALSE] \in Pipes BY Zenon, <1>t DEF Pipes
  <2>2. [pipe EXCEPT ![i].loop = "done", ![i].ctrl = FALSE] \in [PipeID -> Pipes] BY Zenon, <1>t, <2>1
  <2>3. pipe' \in [PipeID -> Pipes] BY Zenon, <1>11, <2>2, CollectedFacts DEF ReadLoopClient
  <2>4. broute' \in ClientRouter
    BY Zenon, <1>t, <1>11 DEF ReadLoopClient, RouteAfter, RemoveConnRoute, ClientRouter
  <2> QED BY Zenon, <1>q, <1>t, <1>11, <2>3, <2>4 DEF ReadLoopClient
<1>12. ASSUME NEW c \in VnetConn, \/ HandleVnetConn(c) \/ PeerCloses(c) \/ RegisterSrcIP(c)
                                  \/ ReadLoopServer(c) \/ RemoveConn(c)
                                  \/ \E src \in VnetIP : VnetReadPacket(c, src)
       PROVE  VnetTypeOK'
  <2>1. nconn' \in [VnetConn -> WorkConns]
    <3>1. nconn[c] \in WorkConns /\ RouteIP \in VnetIP BY Zenon, <1>t, VnetAssumption
    <3>2. \A a \in {"read", "cleaned", "done"} : [nconn[c] EXCEPT !.at = a] \in WorkConns
      BY Zenon, <3>1 DEF WorkConns
    <3>3. [nconn[c] EXCEPT !.open = FALSE] \in WorkConns BY Zenon, <3>1 DEF WorkConns
    <3>4. \A src \in VnetIP : /\ [nconn[c] EXCEPT !.at = "register", !.src = src] \in WorkConns
                             /\ [nconn[c] EXCEPT !.at = "read", !.src = src] \in WorkConns
      BY Zenon, <3>1 DEF WorkConns
    <3>5. \E r \in WorkConns : nconn' = [nconn EXCEPT ![c] = r]
      BY Zenon, <1>t, <1>12, <3>1, <3>2, <3>3, <3>4 DEF HandleVnetConn, PeerCloses, RegisterSrcIP, ReadLoopServer,
         RemoveConn, VnetReadPacket
    <3> QED BY Zenon, <1>t, <3>5
  <2>2. nplugin' \in ProxyPlugin
    BY <1>t, <1>12 DEF HandleVnetConn, PeerCloses, RegisterSrcIP, ReadLoopServer, RemoveConn,
       VnetReadPacket, ProxyPlugin
  <2>3. nconn[c].src \in VnetIP BY Zenon, <1>t DEF WorkConns
  <2>4. srcIPConns' \in ServerRouter
    BY Zenon, <1>t, <1>12, <2>3 DEF HandleVnetConn, PeerCloses, RegisterSrcIP, ReadLoopServer, RemoveConn,
       VnetReadPacket, CleanupConnIPs, WithoutConn, ServerRouter
  <2>5. UNCHANGED <<plug, pipe, broute, tun>>
    BY Zenon, <1>12 DEF HandleVnetConn, PeerCloses, RegisterSrcIP, ReadLoopServer, RemoveConn, VnetReadPacket
  <2> QED BY Zenon, <1>q, <1>t, <2>1, <2>2, <2>4, <2>5
<1>13. ASSUME ClosePlugin PROVE VnetTypeOK'
  <2>1. nconn' \in [VnetConn -> WorkConns] BY <1>t, <1>13 DEF ClosePlugin, WorkConns, ProxyPlugin
  <2>2. nplugin' \in ProxyPlugin BY Zenon, <1>13 DEF ClosePlugin, ProxyPlugin
  <2> QED BY Zenon, <1>q, <1>t, <1>13, <2>1, <2>2 DEF ClosePlugin
<1>14. ASSUME NEW dst \in VnetIP, HandlePacket(dst) PROVE VnetTypeOK'
  <2>1. TargetOf(dst) \in Targets
    BY Zenon, <1>t DEF TargetOf, Targets, ClientRouter, ServerRouter
  <2> QED BY Zenon, <1>q, <1>t, <1>14, <2>1 DEF HandlePacket
<1>15. ASSUME WriteMessage \/ StopTun PROVE VnetTypeOK'
  <2>1. [kind |-> "none"] \in Targets BY Zenon DEF Targets
  <2> QED BY <1>q, <1>t, <1>15, <2>1 DEF WriteMessage, StopTun
<1> QED BY Zenon, <1>1, <1>2, <1>3, <1>4, <1>5, <1>6, <1>7, <1>8, <1>9, <1>10, <1>11, <1>12, <1>13, <1>14, <1>15
        DEF VnetNext, RunLoop

(* Every step leaves a signal only where it is waited for.                 *)
LEMMA VnetSigStep == ASSUME VnetTypeOK, SigHeeded, VnetNext PROVE SigHeeded'
<1>t. plug \in [Plug -> VisitorPlugin] /\ pipe \in [PipeID -> Pipes] BY Zenon DEF VnetTypeOK
<1>p. /\ \A g \in Plug : PipeOf(g) \in PipeID /\ <<g, 1 - plug[g].slot>> \in PipeID
      /\ \A i \in PipeID : i[1] \in Plug
      /\ \A g, h \in Plug : g = h
  BY Zenon, PipeFacts
<1>s. \A i \in PipeID : pipe[i].sig # "none" =>
          /\ plug[i[1]].at = "wait" /\ PipeOf(i[1]) = i
          /\ pipe[i].sig = "err" => plug[i[1]].errors < MaxErrors
  BY Zenon DEF SigHeeded, Heeded
<1>c. \A g \in Plug, i \in PipeID : CleanupControllerConn(g)[i].sig = pipe[i].sig
  <2> SUFFICES ASSUME NEW g \in Plug, NEW i \in PipeID PROVE CleanupControllerConn(g)[i].sig = pipe[i].sig
    BY Zenon
  <2>1. pipe[i] \in Pipes BY Zenon, <1>t
  <2>2. [pipe[i] EXCEPT !.ctrl = FALSE].sig = pipe[i].sig BY Zenon, <2>1 DEF Pipes
  <2> QED BY Zenon, <2>2, CloseHeldFacts
(* No signal where the plugin is not, and at the same place what was.      *)
<1>q. ASSUME \A i \in PipeID : \/ pipe'[i].sig = "none"
                               \/ /\ pipe'[i].sig = pipe[i].sig
                                  /\ plug'[i[1]].at = plug[i[1]].at
                                  /\ plug'[i[1]].slot = plug[i[1]].slot
                                  /\ plug'[i[1]].errors = plug[i[1]].errors
      PROVE  SigHeeded'
  BY Zenon, <1>q, <1>s DEF SigHeeded, Heeded, PipeOf
<1>w. ASSUME NEW g \in Plug, plug[g].at # "wait", \A i \in PipeID : pipe'[i].sig \in {"none", pipe[i].sig}
      PROVE  SigHeeded'
  BY Zenon, <1>q, <1>w, <1>s, <1>p
<1>1. ASSUME NEW g \in Plug, RunStops(g) PROVE SigHeeded'
  BY Zenon, <1>1, <1>w, <1>c DEF RunStops
<1>2. ASSUME NEW g \in Plug, NewPipe(g) PROVE SigHeeded'
  <2>1. \A i \in PipeID : pipe'[i].sig \in {"none", pipe[i].sig}
    BY Zenon, <1>2, <1>t, <1>p DEF NewPipe, NoPipeYet
  <2> QED BY Zenon, <1>2, <1>w, <2>1 DEF NewPipe
<1>3. ASSUME NEW g \in Plug, RegisterClientRoute(g) PROVE SigHeeded'
  <2>1. \A i \in PipeID : pipe[i] \in Pipes BY Zenon, <1>t
  <2>2. \A i \in PipeID : pipe'[i].sig = pipe[i].sig
    BY <1>3, <1>t, <1>p, <2>1 DEF RegisterClientRoute, Pipes
  <2> QED BY Zenon, <1>3, <1>w, <2>2 DEF RegisterClientRoute
<1>4. ASSUME NEW g \in Plug, SendConnToVisitor(g) PROVE SigHeeded'
  <2>1. \A i \in PipeID : pipe[i] \in Pipes BY <1>t
  <2>2. \A i \in PipeID : pipe'[i].sig = pipe[i].sig
    BY Zenon, <1>4, <1>t, <1>p, <2>1 DEF SendConnToVisitor, Pipes
  <2> QED BY Zenon, <1>4, <1>w, <2>2 DEF SendConnToVisitor
<1>5. ASSUME NEW g \in Plug, WaitForClose(g) PROVE SigHeeded'
  <2> DEFINE c == CleanupControllerConn(g)  d == [c EXCEPT ![PipeOf(g)].sig = "none"]
  <2>1. c \in [PipeID -> Pipes] BY CloseHeldFacts
  <2>2. \A i \in PipeID : c[i].sig = pipe[i].sig /\ c[i] \in Pipes BY Zenon, <1>c, <2>1
  <2> HIDE DEF c
  <2>3. [c[PipeOf(g)] EXCEPT !.sig = "none"] \in Pipes /\ [c[PipeOf(g)] EXCEPT !.sig = "none"].sig = "none"
    BY Zenon, <1>p, <2>2 DEF Pipes
  <2>4. d \in [PipeID -> Pipes] /\ \A i \in PipeID : d[i].sig = IF i = PipeOf(g) THEN "none" ELSE pipe[i].sig
    BY Zenon, <1>p, <2>1, <2>2, <2>3
  <2>5. pipe' = Collected(d) BY Zenon, <1>5 DEF WaitForClose, c
  <2> HIDE DEF d
  <2>6. \A i \in PipeID : pipe[i].sig # "none" => i = PipeOf(g) BY Zenon, <1>s, <1>p
  <2>7. \A i \in PipeID : pipe'[i] \in {d[i], NoPipeYet} BY Zenon, <2>4, <2>5, CollectedFacts
  <2>8. \A i \in PipeID : pipe'[i].sig = "none" BY <2>4, <2>6, <2>7 DEF NoPipeYet
  <2> QED BY Zenon, <1>q, <2>8
<1>6. ASSUME NEW g \in Plug, WaitReconnect(g) PROVE SigHeeded'
  BY Zenon, <1>6, <1>w DEF WaitReconnect
<1>7. ASSUME NEW g \in Plug, VnetPluginClose(g) \/ CloseStep(g) PROVE SigHeeded'
  <2>1. \A h \in Plug : plug[h] \in VisitorPlugin BY Zenon, <1>t
  <2>2. \A i \in PipeID : pipe'[i].sig = pipe[i].sig
    BY Zenon, <1>7, <1>c DEF VnetPluginClose, CloseStep, UnregisterClientRoute, FinishClose
  <2>3. \A h \in Plug : /\ plug'[h].at = plug[h].at /\ plug'[h].slot = plug[h].slot
                        /\ plug'[h].errors = plug[h].errors
    BY <1>7, <1>t, <2>1 DEF VnetPluginClose, CloseStep, UnregisterClientRoute, FinishClose, VisitorPlugin
  <2> QED BY Zenon, <1>q, <1>p, <2>2, <2>3
<1>8. ASSUME NEW i \in PipeID, NEW sig \in {"ok", "err"}, pipe' = CloseFar(i, sig), plug' = plug,
             sig = "err" => plug[i[1]].errors < MaxErrors
      PROVE  SigHeeded'
  <2>2. \A j \in PipeID : pipe'[j].sig # "none" =>
            IF j = i THEN Heeded(i) /\ pipe'[j].sig = sig ELSE pipe'[j].sig = pipe[j].sig
    BY <1>8, CloseFarFacts
  <2> QED BY Zenon, <1>8, <1>s, <2>2 DEF SigHeeded, Heeded, PipeOf
<1>9. ASSUME NEW i \in PipeID, HandlerStep(i) PROVE SigHeeded'
  <2>1. CASE pipe' = [pipe EXCEPT ![i].handler = "joined"]
    <3>1. \A j \in PipeID : pipe[j] \in Pipes BY Zenon, <1>t
    <3>2. \A j \in PipeID : pipe'[j].sig = pipe[j].sig BY Zenon, <1>t, <2>1, <3>1 DEF Pipes
    <3> QED BY Zenon, <1>9, <1>q, <3>2 DEF HandlerStep
  <2> QED BY Zenon, <1>8, <1>9, <2>1 DEF HandlerStep, CloseWithError
<1>10. ASSUME NEW i \in PipeID, RemoteEnds(i) PROVE SigHeeded'
  BY Zenon, <1>8, <1>10 DEF RemoteEnds
<1>11. ASSUME NEW i \in PipeID, ReadLoopClient(i) PROVE SigHeeded'
  <2> DEFINE d == [pipe EXCEPT ![i].loop = "done", ![i].ctrl = FALSE]
  <2>1. pipe[i] \in Pipes BY Zenon, <1>t
  <2>2. /\ [pipe[i] EXCEPT !.loop = "done", !.ctrl = FALSE] \in Pipes
        /\ [pipe[i] EXCEPT !.loop = "done", !.ctrl = FALSE].sig = pipe[i].sig
    BY Zenon, <2>1 DEF Pipes
  <2>3. d \in [PipeID -> Pipes] /\ \A j \in PipeID : d[j].sig = pipe[j].sig BY Zenon, <1>t, <2>2
  <2> HIDE DEF d
  <2>4. pipe' = Collected(d) BY Zenon, <1>11 DEF ReadLoopClient, d
  <2>5. \A j \in PipeID : pipe'[j].sig \in {"none", pipe[j].sig}
    BY <2>3, <2>4, CollectedFacts DEF NoPipeYet
  <2> QED BY Zenon, <1>q, <1>11, <2>5 DEF ReadLoopClient
<1>12. ASSUME UNCHANGED <<plug, pipe>> PROVE SigHeeded'
  BY Zenon, <1>q, <1>12
<1> QED BY Zenon, <1>1, <1>2, <1>3, <1>4, <1>5, <1>6, <1>7, <1>9, <1>10, <1>11, <1>12
        DEF VnetNext, RunLoop, HandleVnetConn, PeerCloses, RegisterSrcIP, ReadLoopServer, RemoveConn,
            VnetReadPacket, ClosePlugin, HandlePacket, WriteMessage, StopTun

(* Every step keeps the route of the pipe the plugin waits on.             *)
LEMMA VnetRouteStep == ASSUME VnetTypeOK, RouteHeld, VnetNext PROVE RouteHeld'
<1>t. plug \in [Plug -> VisitorPlugin] /\ pipe \in [PipeID -> Pipes] BY DEF VnetTypeOK
<1>p. /\ \A g \in Plug : PipeOf(g) \in PipeID /\ <<g, 1 - plug[g].slot>> \in PipeID
      /\ \A i \in PipeID : i[1] \in Plug
      /\ \A g, h \in Plug : g = h
  BY PipeFacts
<1>v. \A h \in Plug : plug[h] \in VisitorPlugin BY Zenon, <1>t
<1>u. \A i \in PipeID : pipe[i] \in Pipes BY Zenon, <1>t
<1>r. \A g \in Plug :
          /\ plug[g].at \in {"routed", "wait"} /\ plug[g].shut = "no"
          /\ pipe[PipeOf(g)].ctrl /\ pipe[PipeOf(g)].far
          => broute = PipeOf(g)
  BY Zenon DEF RouteHeld
<1>a. ASSUME NEW g \in Plug, plug'[g].at \notin {"routed", "wait"} \/ plug'[g].shut # "no"
      PROVE  RouteHeld'
  BY Zenon, <1>a, <1>p DEF RouteHeld
(* The pipe opens nowhere and the route stays.                             *)
<1>q. ASSUME \A g \in Plug : /\ plug'[g].slot = plug[g].slot
                             /\ plug'[g].at \in {"routed", "wait"} => plug[g].at \in {"routed", "wait"}
                             /\ plug'[g].shut = "no" => plug[g].shut = "no",
             broute' = broute,
             \A i \in PipeID : /\ pipe'[i].ctrl => pipe[i].ctrl
                               /\ pipe'[i].far => pipe[i].far
      PROVE  RouteHeld'
  BY Zenon, <1>q, <1>p, <1>r DEF RouteHeld, PipeOf
<1>1. ASSUME NEW g \in Plug, RunStops(g) PROVE RouteHeld'
  <2>1. plug'[g].at = "ended" BY <1>1, <1>t, <1>v DEF RunStops, VisitorPlugin
  <2> QED BY Zenon, <1>a, <2>1
<1>2. ASSUME NEW g \in Plug, NewPipe(g) PROVE RouteHeld'
  <2>1. plug'[g].at = "pipe" BY <1>2, <1>t, <1>v DEF NewPipe, VisitorPlugin
  <2> QED BY Zenon, <1>a, <2>1
<1>3. ASSUME NEW g \in Plug, RegisterClientRoute(g) PROVE RouteHeld'
  <2>1. CASE plug[g].held # PipeOf(g)
    <3>1. plug'[g].at = "pipe" BY <1>3, <2>1, <1>t, <1>v DEF RegisterClientRoute, VisitorPlugin
    <3> QED BY <1>a, <3>1
  <2>2. CASE plug[g].held = PipeOf(g)
    <3>1. broute' = PipeOf(g) BY Zenon, <1>3, <2>2 DEF RegisterClientRoute
    <3>2. plug'[g].slot = plug[g].slot BY <1>3, <2>2, <1>t, <1>v DEF RegisterClientRoute, VisitorPlugin
    <3> QED BY Zenon, <3>1, <3>2, <1>p DEF RouteHeld, PipeOf
  <2> QED BY Zenon, <2>1, <2>2
<1>4. ASSUME NEW g \in Plug, SendConnToVisitor(g) PROVE RouteHeld'
  <2>1. /\ plug[g].at = "routed" /\ plug'[g].slot = plug[g].slot /\ plug'[g].shut = plug[g].shut
    BY <1>4, <1>t, <1>v DEF SendConnToVisitor, VisitorPlugin
  <2>2. \A i \in PipeID : pipe'[i].ctrl = pipe[i].ctrl /\ pipe'[i].far = pipe[i].far
    BY <1>4, <1>t, <1>u, <1>p DEF SendConnToVisitor, Pipes
  <2> QED BY Zenon, <1>4, <1>q, <1>p, <2>1, <2>2 DEF SendConnToVisitor
<1>5. ASSUME NEW g \in Plug, WaitForClose(g) PROVE RouteHeld'
  <2>0. plug[g] \in VisitorPlugin BY Zenon, <1>v
  <2>2. AfterSignal(g).at = "delay" BY Zenon, <2>0, Zenon DEF AfterSignal, VisitorPlugin
  <2>3. [plug[g] EXCEPT !.at = "ended", !.held = NoPipe].at = "ended" BY Zenon, <2>0 DEF VisitorPlugin
  <2>4. plug'[g] \in {AfterSignal(g), [plug[g] EXCEPT !.at = "ended", !.held = NoPipe]}
    BY Zenon, <1>5, <1>t DEF WaitForClose
  <2>1. plug'[g].at \in {"ended", "delay"} BY Zenon, <2>2, <2>3, <2>4
  <2> QED BY Zenon, <1>a, <2>1
<1>6. ASSUME NEW g \in Plug, WaitReconnect(g) PROVE RouteHeld'
  <2>1. plug'[g].at \in {"top", "ended"} BY <1>6, <1>t, <1>v DEF WaitReconnect, VisitorPlugin
  <2> QED BY Zenon, <1>a, <2>1
<1>7. ASSUME NEW g \in Plug, VnetPluginClose(g) \/ CloseStep(g) PROVE RouteHeld'
  <2>1. plug'[g].shut \in {"cancelled", "unrouted", "closed"}
    BY <1>7, <1>t, <1>v DEF VnetPluginClose, CloseStep, UnregisterClientRoute, FinishClose, VisitorPlugin
  <2> QED BY Zenon, <1>a, <2>1
<1>8. ASSUME NEW i \in PipeID, NEW sig \in {"ok", "err"}, pipe' = CloseFar(i, sig), plug' = plug, broute' = broute
      PROVE  RouteHeld'
  <2>1. \A j \in PipeID : /\ pipe'[j].ctrl => pipe[j].ctrl
                          /\ pipe'[j].far => pipe[j].far
    BY Zenon, <1>8, CloseFarFacts
  <2> QED BY Zenon, <1>q, <1>8, <2>1
<1>9. ASSUME NEW i \in PipeID, HandlerStep(i) PROVE RouteHeld'
  <2>1. CASE pipe' = [pipe EXCEPT ![i].handler = "joined"]
    <3>1. \A j \in PipeID : pipe'[j].ctrl = pipe[j].ctrl /\ pipe'[j].far = pipe[j].far
      BY Zenon, <1>t, <2>1, <1>u DEF Pipes
    <3> QED BY Zenon, <1>9, <1>q, <3>1 DEF HandlerStep
  <2> QED BY Zenon, <1>8, <1>9, <2>1 DEF HandlerStep, CloseWithError
<1>10. ASSUME NEW i \in PipeID, RemoteEnds(i) PROVE RouteHeld'
  BY Zenon, <1>8, <1>10 DEF RemoteEnds
<1>11. ASSUME NEW i \in PipeID, ReadLoopClient(i) PROVE RouteHeld'
  <2> DEFINE d == [pipe EXCEPT ![i].loop = "done", ![i].ctrl = FALSE]
  <2>1. /\ [pipe[i] EXCEPT !.loop = "done", !.ctrl = FALSE] \in Pipes
        /\ [pipe[i] EXCEPT !.loop = "done", !.ctrl = FALSE].ctrl = FALSE
        /\ [pipe[i] EXCEPT !.loop = "done", !.ctrl = FALSE].far = pipe[i].far
    BY Zenon, <1>u DEF Pipes
  <2>2. d \in [PipeID -> Pipes] /\ \A j \in PipeID : d[j].ctrl = (IF j = i THEN FALSE ELSE pipe[j].ctrl) /\ d[j].far = pipe[j].far
    BY Zenon, <1>t, <2>1
  <2> HIDE DEF d
  <2>3. pipe' = Collected(d) BY <1>11 DEF ReadLoopClient, d
  <2>4. \A j \in PipeID : pipe'[j] \in {d[j], NoPipeYet} BY Zenon, <2>2, <2>3, CollectedFacts
  <2>n. ~NoPipeYet.ctrl /\ ~NoPipeYet.far BY Zenon DEF NoPipeYet
  <2>5. \A j \in PipeID : /\ pipe'[j].ctrl => pipe[j].ctrl /\ j # i
                          /\ pipe'[j].far => pipe[j].far
    BY Zenon, <2>2, <2>4, <2>n
  <2>6. plug' = plug /\ (broute # i => broute' = broute)
    BY Zenon, <1>11 DEF ReadLoopClient, RouteAfter, RemoveConnRoute
  <2> QED BY Zenon, <1>p, <1>r, <2>5, <2>6 DEF RouteHeld, PipeOf
<1>12. ASSUME UNCHANGED <<plug, pipe, broute>> PROVE RouteHeld'
  BY Zenon, <1>q, <1>12
<1> QED BY Zenon, <1>1, <1>2, <1>3, <1>4, <1>5, <1>6, <1>7, <1>9, <1>10, <1>11, <1>12
        DEF VnetNext, RunLoop, HandleVnetConn, PeerCloses, RegisterSrcIP, ReadLoopServer, RemoveConn,
            VnetReadPacket, ClosePlugin, HandlePacket, WriteMessage, StopTun

(* Every step leaves the addresses to connections that are read.           *)
LEMMA VnetSourceStep == ASSUME VnetTypeOK, SourcesLive, VnetNext PROVE SourcesLive'
<1>t. srcIPConns \in [VnetIP -> VnetConn \cup {NoVnetConn}] /\ nconn \in [VnetConn -> WorkConns]
  BY Zenon DEF VnetTypeOK, ServerRouter
<1>u. \A c \in VnetConn : nconn[c] \in WorkConns BY Zenon, <1>t
<1>1. ASSUME NEW c \in VnetConn, RegisterSrcIP(c) PROVE SourcesLive'
  BY <1>1, <1>t, <1>u DEF RegisterSrcIP, SourcesLive, WorkConns
<1>2. ASSUME NEW c \in VnetConn, ReadLoopServer(c) PROVE SourcesLive'
  BY Zenon, <1>2, <1>t, <1>u DEF ReadLoopServer, SourcesLive, CleanupConnIPs, WithoutConn, WorkConns
<1>3. ASSUME NEW c \in VnetConn, \/ HandleVnetConn(c) \/ PeerCloses(c) \/ RemoveConn(c)
                                 \/ \E src \in VnetIP : VnetReadPacket(c, src)
      PROVE  SourcesLive'
  <2>1. srcIPConns' = srcIPConns
    BY Zenon, <1>3 DEF HandleVnetConn, PeerCloses, RemoveConn, VnetReadPacket
  <2>2. \A d \in VnetConn : nconn[d].at \in {"read", "register"} => nconn'[d].at \in {"read", "register"}
    BY <1>3, <1>t, <1>u DEF HandleVnetConn, PeerCloses, RemoveConn, VnetReadPacket, WorkConns
  <2> QED BY Zenon, <1>t, <2>1, <2>2 DEF SourcesLive
<1>4. ASSUME ClosePlugin PROVE SourcesLive'
  <2>1. \A d \in VnetConn : nconn'[d].at = nconn[d].at BY Zenon, <1>4, <1>u DEF ClosePlugin, WorkConns
  <2> QED BY Zenon, <1>4, <1>t, <2>1 DEF SourcesLive, ClosePlugin
<1>5. ASSUME UNCHANGED <<srcIPConns, nconn>> PROVE SourcesLive'
  BY Zenon, <1>5 DEF SourcesLive
<1> QED BY Zenon, <1>1, <1>2, <1>3, <1>4, <1>5
        DEF VnetNext, RunLoop, RunStops, NewPipe, RegisterClientRoute, SendConnToVisitor, WaitForClose,
            WaitReconnect, VnetPluginClose, CloseStep, HandlerStep, RemoteEnds, ReadLoopClient,
            HandlePacket, WriteMessage, StopTun

(* Every reachable state of the virtual network satisfies the inductive    *)
(* invariant.                                                              *)
LEMMA VnetInvariance == VnetSpec => []VnetIInv
<1>1. VnetIInv /\ [VnetNext]_vnetVars => VnetIInv'
  <2> SUFFICES ASSUME VnetIInv, [VnetNext]_vnetVars PROVE VnetIInv' BY Zenon
  <2>1. CASE VnetNext
    BY Zenon, <2>1, VnetTypeStep, VnetSigStep, VnetRouteStep, VnetSourceStep DEF VnetIInv
  <2>2. CASE UNCHANGED vnetVars
    BY Zenon, <2>2 DEF VnetIInv, vnetVars, VnetTypeOK, SigHeeded, Heeded, PipeOf, RouteHeld, SourcesLive
  <2> QED BY Zenon, <2>1, <2>2
<1> QED BY VnetInitial, <1>1, PTL DEF VnetSpec

(* A visitor's route stays while its pipe lives, and a source address      *)
(* leads to a connection that is still read.                               *)
THEOREM VnetSafe == VnetSpec => [](VnetTypeOK /\ VnetRoutesLive)
<1>1. VnetIInv => VnetTypeOK /\ VnetRoutesLive
  BY Zenon DEF VnetIInv, VnetRoutesLive, RouteKept, RouteHeld
<1> QED BY VnetInvariance, <1>1, PTL

-----------------------------------------------------------------------------
(***************************************************************************)
(* The proxies (client/proxy).                                             *)
(***************************************************************************)
USE DEF Phases, Handling

(* A listed wrapper is listed under its own name.                          *)
OwnName == \A n \in Name : proxies[n] # None => NameOf[proxies[n]] = n

(* Once the session is lost nothing is queued or registered.               *)
Severed ==
  session = "lost" => \A n \in Name : toServer[n] = <<>> /\ n \notin registered

IInv == TypeOK /\ OwnName /\ ListedIsLive /\ Severed /\ UnclaimedIsWithdrawn

(* Init is well typed and no name is claimed or registered.                *)
LEMMA InitIInv == Init => IInv
<1> SUFFICES ASSUME Init PROVE IInv
  OBVIOUS
<1> USE ClientProxyAssumption DEF Init
<1>1. TypeOK
  BY DEF TypeOK
<1>2. OwnName /\ ListedIsLive /\ Severed
  BY Zenon DEF OwnName, ListedIsLive, Live, Severed
<1>3. UnclaimedIsWithdrawn
  BY DEF UnclaimedIsWithdrawn, Withdrawn
<1> QED
  BY Zenon, <1>1, <1>2, <1>3 DEF IInv

(* Stopping wrappers queues well-formed messages.                          *)
LEMMA WithdrawType ==
  ASSUME TypeOK, NEW W, Withdraw(W)
  PROVE  toServer' \in [Name -> Seq({"NewProxy", "CloseProxy"})]
<1> DEFINE q(n) == IF session = "up" /\ \E w \in W : NameOf[w] = n
                   THEN Append(toServer[n], "CloseProxy") ELSE toServer[n]
<1>1. \A n \in Name : q(n) \in Seq({"NewProxy", "CloseProxy"})
  <2> TAKE n \in Name
  <2>1. toServer[n] \in Seq({"NewProxy", "CloseProxy"})
    BY Zenon DEF TypeOK
  <2>2. Append(toServer[n], "CloseProxy") \in Seq({"NewProxy", "CloseProxy"})
    BY <2>1
  <2> QED
    BY Zenon, <2>1, <2>2
<1>2. toServer' = [n \in Name |-> q(n)]
  BY Zenon DEF Withdraw
<1> HIDE DEF q
<1> QED
  BY Zenon, <1>1, <1>2

(* Every action keeps the types: first the queues, then the rest.          *)
QueueType ==
  /\ toServer \in [Name -> Seq({"NewProxy", "CloseProxy"})]
  /\ toClient \in [Name -> Seq({"ok", "error"})]

(* Sending a message leaves the queues to the server queues.               *)
LEMMA SendType ==
  ASSUME TypeOK, NEW n \in Name, NEW m \in {"NewProxy", "CloseProxy"}, Send(n, m)
  PROVE  toServer' \in [Name -> Seq({"NewProxy", "CloseProxy"})]
<1>1. toServer[n] \in Seq({"NewProxy", "CloseProxy"})
  BY Zenon DEF TypeOK
<1>2. Append(toServer[n], m) \in Seq({"NewProxy", "CloseProxy"})
  BY <1>1
<1> QED
  BY Zenon, <1>2 DEF TypeOK, Send

(* Every step leaves the queues to the server queues.                      *)
LEMMA QueueStep == ASSUME TypeOK, [Next]_vars PROVE QueueType'
<1> USE ClientProxyAssumption DEF QueueType
<1>1. ASSUME NEW conf \in [Name -> Wrapper \cup {None}], UpdateAll(conf)
      PROVE  QueueType'
  BY Zenon, <1>1, WithdrawType DEF UpdateAll, TypeOK
<1>2. CASE Close
  BY Zenon, <1>2, WithdrawType DEF Close, TypeOK
<1>3. CASE SetRunningStatus
  <2>1. handling \in Handling
    BY Zenon, <1>3 DEF SetRunningStatus, TypeOK
  <2>2. NameOf[handling.wrapper] \in Name
    BY Zenon, <2>1
  <2> QED
    BY Zenon, <1>3, <2>2, SendType DEF SetRunningStatus, TypeOK
<1>4. CASE LoseSession
  BY <1>4 DEF LoseSession
<1>5. ASSUME NEW n \in Name, StartProxy(n) PROVE QueueType'
  <2>0. toClient[n] \in Seq({"ok", "error"}) /\ toClient[n] # <<>>
    BY Zenon, <1>5 DEF TypeOK, StartProxy
  <2>1. Tail(toClient[n]) \in Seq({"ok", "error"})
    BY Zenon, <2>0, HeadTailProperties
  <2> QED
    BY Zenon, <1>5, <2>1 DEF TypeOK, StartProxy
<1>6. ASSUME NEW n \in Name, HandleNewProxy(n) PROVE QueueType'
  <2>0. /\ toServer[n] \in Seq({"NewProxy", "CloseProxy"}) /\ toServer[n] # <<>>
        /\ toClient[n] \in Seq({"ok", "error"})
    BY Zenon, <1>6 DEF TypeOK, HandleNewProxy
  <2>1. Tail(toServer[n]) \in Seq({"NewProxy", "CloseProxy"})
    BY Zenon, <2>0, HeadTailProperties
  <2>2. /\ Append(toClient[n], "ok") \in Seq({"ok", "error"})
        /\ Append(toClient[n], "error") \in Seq({"ok", "error"})
    BY Zenon, <2>0, AppendProperties
  <2>3. toServer' \in [Name -> Seq({"NewProxy", "CloseProxy"})]
    BY Zenon, <1>6, <2>1 DEF TypeOK, HandleNewProxy
  <2>4. toClient' \in [Name -> Seq({"ok", "error"})]
    <3>1. \/ toClient' = [toClient EXCEPT ![n] = Append(toClient[n], "ok")]
          \/ toClient' = [toClient EXCEPT ![n] = Append(toClient[n], "error")]
      BY Zenon, <1>6 DEF HandleNewProxy
    <3> QED
      BY Zenon, <3>1, <2>2 DEF TypeOK
  <2> QED
    BY Zenon, <2>3, <2>4 DEF TypeOK
<1>7. ASSUME NEW n \in Name, HandleCloseProxy(n) PROVE QueueType'
  <2>0. toServer[n] \in Seq({"NewProxy", "CloseProxy"}) /\ toServer[n] # <<>>
    BY Zenon, <1>7 DEF TypeOK, HandleCloseProxy
  <2>1. Tail(toServer[n]) \in Seq({"NewProxy", "CloseProxy"})
    BY Zenon, <2>0, HeadTailProperties
  <2> QED
    BY Zenon, <1>7, <2>1 DEF TypeOK, HandleCloseProxy
<1>8. ASSUME NEW w \in Wrapper, CheckHealthy(w) \/ CheckUnhealthy(w)
      PROVE  QueueType'
  <2>1. NameOf[w] \in Name
    BY Zenon
  <2> QED
    BY Zenon, <1>8, <2>1, SendType DEF TypeOK, CheckHealthy, CheckUnhealthy
<1>9. ASSUME NEW w \in Wrapper,
             ExitWorker(w) \/ CheckSucceeds(w) \/ CheckFails(w) \/ CallBack(w)
      PROVE  QueueType'
  BY Zenon, <1>9 DEF TypeOK, ExitWorker, CheckSucceeds, CheckFails, CallBack, Probe
<1>10. CASE UNCHANGED vars
  BY Zenon, <1>10 DEF TypeOK, vars
<1> HIDE DEF QueueType
<1> QED
  BY Zenon, <1>1, <1>2, <1>3, <1>4, <1>5, <1>6, <1>7, <1>8, <1>9, <1>10 DEF Next

RestType ==
  /\ session \in {"up", "lost"}
  /\ proxies \in [Name -> Wrapper \cup {None}]
  /\ phase \in [Wrapper -> Phases]
  /\ worker \in SUBSET Wrapper
  /\ health \in [Wrapper -> {0, 1}]
  /\ statusOK \in SUBSET Monitored
  /\ failed \in [Wrapper -> 0..MaxFailed] /\ streak \in [Wrapper -> 0..MaxFailed]
  /\ callback \in SUBSET Monitored
  /\ handling \in Handling \cup {None}
  /\ registered \in SUBSET Name

(* The types are those of the queues and those of the rest.                *)
LEMMA TypeParts == TypeOK <=> RestType /\ QueueType
BY Zenon DEF TypeOK, RestType, QueueType

(* The count of failed checks stays within its bound.                      *)
LEMMA SaturatedType ==
  /\ 0 \in 0..MaxFailed
  /\ \A k \in 0..MaxFailed : Saturated(k) \in 0..MaxFailed
<1>1. MaxFailed \in Nat
  BY Zenon, ClientProxyAssumption
<1> QED
  BY <1>1 DEF Saturated

(* Every step keeps the types of the rest.                                 *)
LEMMA RestStep == ASSUME TypeOK, [Next]_vars PROVE RestType'
<1> USE ClientProxyAssumption, TypeParts DEF RestType
<1>1. ASSUME NEW conf \in [Name -> Wrapper \cup {None}], UpdateAll(conf)
      PROVE  RestType'
  <2>1. phase' \in [Wrapper -> Phases]
    BY Zenon, <1>1 DEF UpdateAll, Stopped
  <2> QED
    BY Zenon, <1>1, <2>1 DEF UpdateAll, monitorVars
<1>2. CASE Close
  <2>1. phase' \in [Wrapper -> Phases]
    BY Zenon, <1>2 DEF Close, Stopped
  <2> QED
    BY Zenon, <1>2, <2>1 DEF Close, monitorVars
<1>3. CASE SetRunningStatus
  <2>1. handling \in Handling
    BY Zenon, <1>3 DEF SetRunningStatus
  <2> QED
    BY Zenon, <1>3, <2>1 DEF SetRunningStatus, monitorVars
<1>4. CASE LoseSession
  BY Zenon, <1>4 DEF LoseSession, monitorVars
<1>5. ASSUME NEW n \in Name, StartProxy(n) PROVE RestType'
  <2>0. toClient[n] \in Seq({"ok", "error"}) /\ toClient[n] # <<>>
    BY Zenon, <1>5 DEF QueueType, StartProxy
  <2>1. Head(toClient[n]) \in {"ok", "error"}
    BY Zenon, <2>0, HeadTailProperties
  <2> QED
    BY Zenon, <1>5, <2>1 DEF StartProxy, monitorVars
<1>6. ASSUME NEW n \in Name, HandleNewProxy(n) PROVE RestType'
  BY Zenon, <1>6 DEF HandleNewProxy, monitorVars
<1>7. ASSUME NEW n \in Name, HandleCloseProxy(n) PROVE RestType'
  BY Zenon, <1>7 DEF HandleCloseProxy, monitorVars
<1>8. ASSUME NEW w \in Wrapper, CheckHealthy(w) PROVE RestType'
  BY Zenon, <1>8 DEF CheckHealthy, monitorVars
<1>9. ASSUME NEW w \in Wrapper, CheckUnhealthy(w) PROVE RestType'
  BY Zenon, <1>9 DEF CheckUnhealthy, monitorVars
<1>10. ASSUME NEW w \in Wrapper, ExitWorker(w) PROVE RestType'
  BY Zenon, <1>10 DEF ExitWorker, monitorVars
<1>11. ASSUME NEW w \in Wrapper, CheckSucceeds(w) PROVE RestType'
  <2>1. statusOK' \in SUBSET Monitored /\ callback' \in SUBSET Monitored
    BY Zenon, <1>11, Zenon DEF CheckSucceeds, Probe, WithMonitor
  <2>2. streak' \in [Wrapper -> 0..MaxFailed]
    <3>1. 0 \in 0..MaxFailed
      BY Zenon, SaturatedType
    <3>2. streak' = [streak EXCEPT ![w] = 0]
      BY Zenon, <1>11 DEF CheckSucceeds
    <3> QED
      BY Zenon, <3>1, <3>2
  <2> QED
    BY Zenon, <1>11, <2>1, <2>2 DEF CheckSucceeds, Probe
<1>12. ASSUME NEW w \in Wrapper, CheckFails(w) PROVE RestType'
  <2>1. statusOK' \in SUBSET Monitored
    BY Zenon, <1>12, Zenon DEF CheckFails
  <2>2. callback' \in SUBSET Monitored
    BY Zenon, <1>12, Zenon DEF CheckFails, Probe, WithMonitor
  <2>3. /\ streak' = [streak EXCEPT ![w] = Saturated(streak[w])]
        /\ failed' = [failed EXCEPT ![w] = Saturated(failed[w])]
    BY Zenon, <1>12 DEF CheckFails
  <2>4. \A k \in 0..MaxFailed : Saturated(k) \in 0..MaxFailed
    BY Zenon, SaturatedType
  <2>5. failed' \in [Wrapper -> 0..MaxFailed] /\ streak' \in [Wrapper -> 0..MaxFailed]
    BY Zenon, <2>3, <2>4
  <2> QED
    BY Zenon, <1>12, <2>1, <2>2, <2>5 DEF CheckFails, Probe
<1>13. ASSUME NEW w \in Wrapper, CallBack(w) PROVE RestType'
  BY Zenon, <1>13 DEF CallBack
<1>14. CASE UNCHANGED vars
  BY Zenon, <1>14 DEF vars, monitorVars
<1> HIDE DEF RestType
<1> QED
  BY Zenon, <1>1, <1>2, <1>3, <1>4, <1>5, <1>6, <1>7, <1>8, <1>9, <1>10, <1>11,
     <1>12, <1>13, <1>14 DEF Next

(* Every step keeps the types.                                             *)
LEMMA TypeStep == ASSUME TypeOK, [Next]_vars PROVE TypeOK'
BY Zenon, QueueStep, RestStep DEF TypeOK, RestType, QueueType

(* The manager and the phases agree: only UpdateAll and Close start and    *)
(* stop a wrapper, and the other actions move a live one to a live phase.  *)
Agree == OwnName /\ ListedIsLive

(* Every step keeps the phases of a proxy and what the manager knows of it *)
(* in agreement.                                                           *)
LEMMA AgreeStep == ASSUME TypeOK, Agree, [Next]_vars PROVE Agree'
<1> USE ClientProxyAssumption DEF TypeOK, Agree, OwnName, ListedIsLive, Live
<1>1. ASSUME NEW conf \in [Name -> Wrapper \cup {None}], UpdateAll(conf)
      PROVE  Agree'
  BY Zenon, <1>1 DEF UpdateAll, Stopped
<1>2. CASE Close
  BY Zenon, <1>2 DEF Close, Stopped
<1>3. CASE SetRunningStatus
  <2>1. handling.wrapper \in Wrapper
    BY Zenon, <1>3 DEF SetRunningStatus
  <2> QED
    <3>1. CASE UNCHANGED phase
      BY Zenon, <1>3, <3>1 DEF SetRunningStatus
    <3>2. CASE /\ phase[handling.wrapper] = "wait start"
               /\ \E p \in {"running", "start error"} :
                    phase' = [phase EXCEPT ![handling.wrapper] = p]
      <4>1. \A v \in Wrapper : phase'[v] # phase[v] =>
              /\ phase[v] = "wait start"
              /\ phase'[v] \in {"running", "start error"}
        <5>1. PICK w \in Wrapper : w = handling.wrapper
          BY Zenon, <2>1
        <5>2. PICK p \in {"running", "start error"} : phase' = [phase EXCEPT ![w] = p]
          BY Zenon, <3>2, <5>1
        <5>3. \A v \in Wrapper : v # w => phase'[v] = phase[v]
          BY Zenon, <5>2
        <5>4. phase'[w] = p
          BY Zenon, <5>2
        <5>5. phase[w] = "wait start"
          BY Zenon, <5>1, <3>2
        <5> QED
          BY Zenon, <5>3, <5>4, <5>5
      <4>2. Live' = Live
        BY Zenon, <4>1
      <4>3. UNCHANGED proxies
        BY Zenon, <1>3 DEF SetRunningStatus
      <4> QED
        BY Zenon, <4>2, <4>3
    <3> QED
      BY Zenon, <1>3, <3>1, <3>2 DEF SetRunningStatus, Awaited
<1>4. CASE LoseSession
  BY Zenon, <1>4 DEF LoseSession
<1>5. ASSUME NEW n \in Name, StartProxy(n) \/ HandleNewProxy(n) \/ HandleCloseProxy(n)
      PROVE  Agree'
  BY Zenon, <1>5 DEF StartProxy, HandleNewProxy, HandleCloseProxy
<1>6. ASSUME NEW w \in Wrapper, CheckHealthy(w) PROVE Agree'
  BY Zenon, <1>6 DEF CheckHealthy
<1>7. ASSUME NEW w \in Wrapper, CheckUnhealthy(w) PROVE Agree'
  BY Zenon, <1>7 DEF CheckUnhealthy, Withdrawable
<1>8. ASSUME NEW w \in Wrapper,
             ExitWorker(w) \/ CheckSucceeds(w) \/ CheckFails(w) \/ CallBack(w)
      PROVE  Agree'
  BY Zenon, <1>8 DEF ExitWorker, CheckSucceeds, CheckFails, CallBack, Probe
<1>9. CASE UNCHANGED vars
  BY Zenon, <1>9 DEF vars
<1> HIDE DEF Agree
<1> QED
  BY Zenon, <1>1, <1>2, <1>3, <1>4, <1>5, <1>6, <1>7, <1>8, <1>9 DEF Next
-----------------------------------------------------------------------------
(* How the queue of a name keeps it withdrawn.                             *)

(* A step that leaves the queue of a name alone and registers nothing      *)
(* leaves a withdrawn name withdrawn.                                      *)
LEMMA WithdrawnSame ==
  ASSUME NEW n, Withdrawn(n), toServer'[n] = toServer[n],
         n \notin registered => n \notin registered'
  PROVE  Withdrawn(n)'
BY Zenon DEF Withdrawn

(* A CloseProxy that is sent withdraws the name.                           *)
LEMMA WithdrawnByClose ==
  ASSUME TypeOK, NEW n \in Name,
         toServer'[n] = Append(toServer[n], "CloseProxy")
  PROVE  Withdrawn(n)'
<1> DEFINE q == toServer[n]
           k == Len(q) + 1
<1>0. q \in Seq({"NewProxy", "CloseProxy"})
  BY Zenon DEF TypeOK
<1>1. q \in Seq({"NewProxy", "CloseProxy"}) /\ k \in Nat /\ k # 0
  BY <1>0
<1>2. Len(toServer'[n]) = k /\ toServer'[n][k] = "CloseProxy"
  BY <1>1
<1> HIDE DEF k
<1> QED
  BY <1>1, <1>2 DEF Withdrawn

(* A withdrawn name stays so when the server reads a message of its queue. *)
LEMMA WithdrawnByRead ==
  ASSUME TypeOK, NEW n \in Name, Withdrawn(n), Serve(n)
  PROVE  Withdrawn(n)'
<1> DEFINE q == toServer[n]
<1>1. /\ q \in Seq({"NewProxy", "CloseProxy"}) /\ q # <<>>
      /\ toServer'[n] = Tail(q)
  BY Zenon DEF TypeOK, Serve, HandleNewProxy, HandleCloseProxy
<1>2. /\ Len(q) \in Nat \ {0} /\ Len(Tail(q)) = Len(q) - 1
      /\ \A j \in 1..Len(q) - 1 : Tail(q)[j] = q[j + 1]
  BY <1>1
<1>3. PICK i \in 0..Len(q) :
        /\ IF i = 0 THEN n \notin registered ELSE q[i] = "CloseProxy"
        /\ \A j \in i + 1..Len(q) : q[j] # "NewProxy"
  BY Zenon DEF Withdrawn
<1>4. CASE i \in {0, 1}
  <2>1. \A j \in 2..Len(q) : q[j] # "NewProxy"
    BY <1>3, <1>4, <1>2
  <2>2. i = 0 => q[1] # "NewProxy"
    BY <1>3, <1>4, <1>2
  <2>3. Head(q) = q[1]
    BY <1>1
  <2>4. HandleCloseProxy(n)
    BY Zenon, <1>3, <1>4, <2>2, <2>3 DEF Serve, HandleNewProxy
  <2>5. n \notin registered'
    BY Zenon, <2>4 DEF HandleCloseProxy
  <2>6. \A j \in 1..Len(Tail(q)) : Tail(q)[j] # "NewProxy"
    BY <1>2, <2>1
  <2> QED
    <3>1. 0 \in 0..Len(toServer'[n])
      BY <1>1, <1>2
    <3>2. \A j \in 0 + 1..Len(toServer'[n]) : toServer'[n][j] # "NewProxy"
      BY <1>1, <2>6
    <3> QED
      BY Zenon, <3>1, <3>2, <2>5 DEF Withdrawn
<1>5. CASE i \notin {0, 1}
  <2>1. /\ i - 1 \in 0..Len(Tail(q)) /\ i - 1 # 0
        /\ Tail(q)[i - 1] = "CloseProxy"
    BY <1>2, <1>3, <1>5
  <2>2. \A j \in (i - 1) + 1..Len(Tail(q)) : Tail(q)[j] # "NewProxy"
    BY <1>2, <1>3, <1>5
  <2> QED
    BY Zenon, <1>1, <2>1, <2>2 DEF Withdrawn
<1> QED
  BY Zenon, <1>4, <1>5

(* A lost session withdraws every name.                                    *)
LEMMA WithdrawnLost ==
  ASSUME LoseSession, NEW n \in Name PROVE Withdrawn(n)'
BY DEF LoseSession, Withdrawn

(* A lost session stays severed.                                           *)
LEMMA SeveredStep == ASSUME TypeOK, Severed, [Next]_vars PROVE Severed'
<1> USE DEF Severed
<1>1. ASSUME NEW conf \in [Name -> Wrapper \cup {None}], UpdateAll(conf)
      PROVE  Severed'
  BY Zenon, <1>1 DEF UpdateAll, Withdraw
<1>2. CASE Close
  BY Zenon, <1>2 DEF Close, Withdraw
<1>3. CASE SetRunningStatus
  BY Zenon, <1>3 DEF SetRunningStatus, Send
<1>4. CASE LoseSession
  BY Zenon, <1>4 DEF LoseSession
<1>5. ASSUME NEW n \in Name, StartProxy(n) \/ HandleNewProxy(n) \/ HandleCloseProxy(n)
      PROVE  Severed'
  BY Zenon, <1>5 DEF StartProxy, HandleNewProxy, HandleCloseProxy
<1>6. ASSUME NEW w \in Wrapper, CheckHealthy(w) \/ CheckUnhealthy(w)
      PROVE  Severed'
  BY Zenon, <1>6 DEF CheckHealthy, CheckUnhealthy, Send
<1>7. ASSUME NEW w \in Wrapper,
             ExitWorker(w) \/ CheckSucceeds(w) \/ CheckFails(w) \/ CallBack(w)
      PROVE  Severed'
  BY Zenon, <1>7 DEF ExitWorker, CheckSucceeds, CheckFails, CallBack, Probe
<1>8. CASE UNCHANGED vars
  BY Zenon, <1>8 DEF vars
<1> HIDE DEF Severed
<1> QED
  BY Zenon, <1>1, <1>2, <1>3, <1>4, <1>5, <1>6, <1>7, <1>8 DEF Next

(* While the session is lost every name is withdrawn.                      *)
LEMMA SeveredWithdrawn ==
  ASSUME Severed, session = "lost", NEW n \in Name PROVE Withdrawn(n)
<1>1. toServer[n] = <<>> /\ n \notin registered
  BY Zenon DEF Severed
<1>2. Len(toServer[n]) = 0
  BY <1>1
<1> QED
  BY <1>1, <1>2 DEF Withdrawn

(* Stopping a wrapper of a name withdraws it; a name none of whose         *)
(* wrappers stops keeps its queue.                                         *)
LEMMA WithdrawnByStop ==
  ASSUME TypeOK, Severed, NEW n \in Name, NEW W,
         Withdraw(W), UNCHANGED registered,
         (\E w \in W : NameOf[w] = n) \/ Withdrawn(n)
  PROVE  Withdrawn(n)'
<1>1. CASE session = "up" /\ \E w \in W : NameOf[w] = n
  <2>1. toServer'[n] = Append(toServer[n], "CloseProxy")
    BY Zenon, <1>1 DEF Withdraw
  <2> QED
    BY Zenon, <2>1, WithdrawnByClose
<1>2. CASE ~(session = "up" /\ \E w \in W : NameOf[w] = n)
  <2>1. toServer'[n] = toServer[n]
    BY Zenon, <1>2 DEF Withdraw
  <2>2. Withdrawn(n)
    BY Zenon, <1>2, SeveredWithdrawn DEF TypeOK
  <2> QED
    BY Zenon, <2>1, <2>2, WithdrawnSame
<1> QED
  BY Zenon, <1>1, <1>2

(* A CloseProxy sent for a name withdraws it.                              *)
LEMMA WithdrawnBySend ==
  ASSUME TypeOK, Severed, NEW n \in Name, NEW m \in Name,
         Send(m, "CloseProxy"), UNCHANGED registered, n = m \/ Withdrawn(n)
  PROVE  Withdrawn(n)'
<1>1. CASE session = "up" /\ n = m
  <2>1. toServer'[n] = Append(toServer[n], "CloseProxy")
    BY Zenon, <1>1 DEF Send, TypeOK
  <2> QED
    BY Zenon, <2>1, WithdrawnByClose
<1>2. CASE ~(session = "up" /\ n = m)
  <2>1. toServer'[n] = toServer[n]
    BY Zenon, <1>2 DEF Send, TypeOK
  <2>2. Withdrawn(n)
    BY Zenon, <1>2, SeveredWithdrawn DEF TypeOK
  <2> QED
    BY Zenon, <2>1, <2>2, WithdrawnSame
<1> QED
  BY Zenon, <1>1, <1>2

(* Nothing but CheckHealthy lets a name stop being withdrawn, and it       *)
(* claims the name.                                                        *)
LEMMA UnclaimedStep ==
  ASSUME IInv, [Next]_vars PROVE UnclaimedIsWithdrawn'
<1> SUFFICES ASSUME NEW n \in Name, Unclaimed(n)' PROVE Withdrawn(n)'
  BY Zenon DEF UnclaimedIsWithdrawn
<1> USE ClientProxyAssumption
<1>0. /\ TypeOK /\ OwnName /\ ListedIsLive /\ Severed
      /\ Unclaimed(n) => Withdrawn(n)
  BY Zenon DEF IInv, UnclaimedIsWithdrawn
<1>1. ASSUME NEW conf \in [Name -> Wrapper \cup {None}], UpdateAll(conf)
      PROVE  Withdrawn(n)'
  <2> DEFINE old == {w \in Wrapper : proxies[NameOf[w]] = w /\ conf[NameOf[w]] # w}
  <2>1. Withdraw(old) /\ UNCHANGED registered
    BY Zenon, <1>1 DEF UpdateAll
  <2>2. (\E w \in old : NameOf[w] = n) \/ Unclaimed(n)
    <3>1. CASE proxies[n] = None
      BY Zenon, <3>1 DEF Unclaimed
    <3>2. CASE proxies[n] # None /\ conf[n] # proxies[n]
      BY Zenon, <1>0, <3>2 DEF OwnName, TypeOK
    <3>3. CASE proxies[n] # None /\ conf[n] = proxies[n]
      <4>1. phase'[proxies[n]] = phase[proxies[n]] /\ proxies'[n] = proxies[n]
        BY Zenon, <1>0, <1>1, <3>3 DEF UpdateAll, Stopped, OwnName, TypeOK
      <4> QED
        BY Zenon, <4>1 DEF Unclaimed
    <3> QED
      BY Zenon, <3>1, <3>2, <3>3
  <2> HIDE DEF old
  <2> QED
    BY Zenon, <1>0, <2>1, <2>2, WithdrawnByStop
<1>2. CASE Close
  <2> DEFINE old == {w \in Wrapper : proxies[NameOf[w]] = w}
  <2>1. Withdraw(old) /\ UNCHANGED registered
    BY Zenon, <1>2 DEF Close
  <2>2. (\E w \in old : NameOf[w] = n) \/ Unclaimed(n)
    BY Zenon, <1>0 DEF OwnName, TypeOK, Unclaimed
  <2> HIDE DEF old
  <2> QED
    BY Zenon, <1>0, <2>1, <2>2, WithdrawnByStop
<1>3. CASE SetRunningStatus
  <2>1. PICK w \in Wrapper : w = handling.wrapper
    BY Zenon, <1>0, <1>3 DEF SetRunningStatus, TypeOK
  <2>2. Unclaimed(n)
    <3>1. UNCHANGED proxies
      BY Zenon, <1>3 DEF SetRunningStatus
    <3>2. UNCHANGED phase \/ phase' = [phase EXCEPT ![w] = "running"]
            \/ phase' = [phase EXCEPT ![w] = "start error"]
      BY Zenon, <1>3, <2>1 DEF SetRunningStatus
    <3> QED
      BY Zenon, <1>0, <3>1, <3>2 DEF Unclaimed, TypeOK
  <2>3. /\ UNCHANGED registered
        /\ UNCHANGED toServer \/ Send(NameOf[w], "CloseProxy")
    BY Zenon, <1>3, <2>1 DEF SetRunningStatus
  <2>4. NameOf[w] \in Name
    BY Zenon
  <2> QED
    BY Zenon, <1>0, <2>2, <2>3, <2>4, WithdrawnBySend, WithdrawnSame
<1>4. CASE LoseSession
  BY Zenon, <1>4, WithdrawnLost
<1>5. ASSUME NEW m \in Name, Serve(m) PROVE Withdrawn(n)'
  <2>1. Unclaimed(n)
    BY Zenon, <1>5 DEF Unclaimed, Serve, HandleNewProxy, HandleCloseProxy
  <2>2. CASE n = m
    BY Zenon, <1>0, <1>5, <2>1, <2>2, WithdrawnByRead
  <2>3. CASE n # m
    <3>1. toServer'[n] = toServer[n] /\ (n \notin registered => n \notin registered')
      BY Zenon, <1>0, <1>5, <2>3 DEF Serve, HandleNewProxy, HandleCloseProxy, TypeOK
    <3> QED
      BY Zenon, <1>0, <2>1, <3>1, WithdrawnSame
  <2> QED
    BY Zenon, <2>2, <2>3
<1>6. ASSUME NEW w \in Wrapper, CheckHealthy(w) PROVE Withdrawn(n)'
  <2>1. proxies[NameOf[w]] = w
    BY Zenon, <1>0, <1>6 DEF CheckHealthy, ListedIsLive, Live
  <2>2. phase'[w] = "wait start" /\ UNCHANGED <<proxies, registered>>
    BY Zenon, <1>0, <1>6 DEF CheckHealthy, TypeOK
  <2>3. n # NameOf[w]
    BY Zenon, <2>1, <2>2 DEF Unclaimed
  <2>4. toServer'[n] = toServer[n]
    BY Zenon, <1>0, <1>6, <2>3 DEF CheckHealthy, Send, TypeOK
  <2>5. Unclaimed(n)
    BY Zenon, <1>0, <1>6, <2>2 DEF Unclaimed, CheckHealthy, TypeOK
  <2> QED
    BY Zenon, <1>0, <2>2, <2>4, <2>5, WithdrawnSame
<1>7. ASSUME NEW w \in Wrapper, CheckUnhealthy(w) PROVE Withdrawn(n)'
  <2>1. /\ Send(NameOf[w], "CloseProxy") /\ UNCHANGED <<proxies, registered>>
        /\ NameOf[w] \in Name /\ phase' = [phase EXCEPT ![w] = "check failed"]
    BY Zenon, <1>7 DEF CheckUnhealthy
  <2>2. n = NameOf[w] \/ Unclaimed(n)
    BY Zenon, <1>0, <2>1 DEF OwnName, Unclaimed, TypeOK
  <2> QED
    BY Zenon, <1>0, <2>1, <2>2, WithdrawnBySend
<1>8. CASE \/ UNCHANGED vars
           \/ \E m \in Name : StartProxy(m)
           \/ \E w \in Wrapper : ExitWorker(w) \/ CheckSucceeds(w)
                                    \/ CheckFails(w) \/ CallBack(w)
  <2>1. UNCHANGED <<proxies, phase, toServer, registered>>
    BY Zenon, <1>8 DEF vars, StartProxy, ExitWorker, CheckSucceeds, CheckFails, CallBack, Probe
  <2>2. Unclaimed(n)
    BY Zenon, <2>1 DEF Unclaimed
  <2> QED
    BY Zenon, <1>0, <2>1, <2>2, WithdrawnSame
<1> QED
  BY Zenon, <1>1, <1>2, <1>3, <1>4, <1>5, <1>6, <1>7, <1>8 DEF Next, Serve
-----------------------------------------------------------------------------
(* The inductive invariant holds in every reachable state.                 *)
THEOREM Invariance == Spec => []IInv
<1>1. IInv /\ [Next]_vars => IInv'
  BY Zenon, TypeStep, AgreeStep, SeveredStep, UnclaimedStep DEF IInv, Agree
<1> QED
  BY InitIInv, <1>1, PTL DEF Spec

(* Types: phases, messages and monitors stay in their ranges.              *)
THEOREM TypeCorrect == Spec => []TypeOK
BY Invariance, PTL DEF IInv

(* The manager lists exactly the wrappers that run, for any number of      *)
(* reloads, closes and late responses: no wrapper is stopped twice or      *)
(* left running unlisted.                                                  *)
THEOREM ListedSafe == Spec => []ListedIsLive
BY Invariance, PTL DEF IInv

(* A name no wrapper claims is withdrawn at the server by what is queued.  *)
THEOREM WithdrawnSafe == Spec => []UnclaimedIsWithdrawn
BY Invariance, PTL DEF IInv
=============================================================================

--------------------------- MODULE VisitorManager ---------------------------
(***************************************************************************)
(* The visitors of a client: client/visitor/visitor_manager.go, and the    *)
(* sockets the Run methods of client/visitor/*.go bind for them.  The      *)
(* manager gets its configurations from UpdateAll; a goroutine started     *)
(* with the first of them tries again, every checkInterval, to start what  *)
(* does not run.  Other programs take and free the same ports.             *)
(***************************************************************************)
EXTENDS Integers, Sequences, FiniteSets, SequencesExt

CONSTANTS
  VisitorName,     \* names of visitors
  VisitorConfigs   \* the lists of [name, kind, port] that UpdateAll may be given

VARIABLES
  vlast,      \* the list UpdateAll was last given
  vcfgs,      \* cfgs: the configurations, by name
  vrun,       \* visitors: what each running visitor was started with
  vmClosed,    \* the names whose visitor Close has closed, and left in the map
  leaks,      \* sockets bound by a Run that failed after that
  foreign,    \* sockets of other programs
  vtodo,      \* what the holder of the lock has yet to start
  vkeeper,    \* keepVisitorsRunning: none, idle, due (it has taken a tick), over
  vstopped    \* stopCh is closed

visitorVars == <<vlast, vcfgs, vrun, vmClosed, leaks, foreign, vtodo, vkeeper, vstopped>>

VNone == [name |-> "none", kind |-> "none", port |-> 0]
VCfg == UNION {ToSet(cs) : cs \in VisitorConfigs}
Sock == {"tcp", "udp"} \X {c.port : c \in VCfg}

VisitorTypeOK ==
  /\ vlast \in VisitorConfigs /\ vcfgs \in [VisitorName -> VCfg \cup {VNone}] /\ vrun \in [VisitorName -> VCfg \cup {VNone}]
  /\ vmClosed \subseteq VisitorName /\ leaks \subseteq Sock /\ foreign \subseteq Sock
  /\ vtodo \in UNION {[1..k -> VCfg] : k \in 0..Cardinality(VisitorName)} /\ vkeeper \in {"none", "idle", "due", "over"} /\ vstopped \in BOOLEAN

VisitorInit ==
  /\ vlast = << >> /\ vcfgs = [n \in VisitorName |-> VNone] /\ vrun = [n \in VisitorName |-> VNone]
  /\ vmClosed = {} /\ leaks = {} /\ foreign = {} /\ vtodo = << >> /\ vkeeper = "none" /\ vstopped = FALSE
-----------------------------------------------------------------------------
(* The sockets a Run binds, in order; none where the port is not positive. *)
TCPOnly(c) == IF c.port > 0 THEN << <<"tcp", c.port>> >> ELSE << >>
STCPRun(c) == TCPOnly(c)
XTCPRun(c) == TCPOnly(c)
SUDPRun(c) == << <<"udp", c.port>> >>
XUDPRun(c) == << <<"udp", c.port>> >>
Both(c) == IF c.port > 0 THEN << <<"tcp", c.port>>, <<"udp", c.port>> >> ELSE << >>
STCPSUDPRun(c) == Both(c)
XTCPXUDPRun(c) == Both(c)

NewVisitor(c) ==
  CASE c.kind = "stcp" -> STCPRun(c)
    [] c.kind = "xtcp" -> XTCPRun(c)
    [] c.kind = "sudp" -> SUDPRun(c)
    [] c.kind = "stcp+sudp" -> STCPSUDPRun(c)
    [] c.kind = "xudp" -> XUDPRun(c)
    [] c.kind = "xtcp+xudp" -> XTCPXUDPRun(c)
    [] c.kind = "none" -> << >>

Binds(c) == ToSet(NewVisitor(c))
HeldBy(run, closed) == UNION {Binds(run[n]) : n \in VisitorName \ closed}

(* One call of startVisitor.  A Run that cannot bind a socket returns an   *)
(* error, and keeps the ones it bound before.                              *)
StartVisitor(c) ==
  LET socks == NewVisitor(c)
      busy == HeldBy(vrun, vmClosed) \cup leaks \cup foreign
      taken == {i \in 1..Len(socks) : socks[i] \in busy}
  IN  IF taken = {}
      THEN vrun' = [vrun EXCEPT ![c.name] = c] /\ vmClosed' = vmClosed \ {c.name} /\ UNCHANGED leaks
      ELSE /\ leaks' = leaks \cup {socks[i] : i \in {j \in 1..Len(socks) : \A k \in taken : j < k}}
           /\ UNCHANGED <<vrun, vmClosed>>

(* UpdateAll takes the lock; what is gone or has changed is closed and     *)
(* removed, what is new is recorded and started, in the order of the list. *)
OnlyGone(n, cs) == vcfgs[n] # VNone /\ \A i \in 1..Len(cs) : cs[i].name # n
Deleted(n, cs) == vcfgs[n] # VNone /\ vcfgs[n] \notin ToSet(cs)
UpdateVisitors(cs) ==
  LET gone == {n \in VisitorName : Deleted(n, cs)}
      Left(f) == [n \in VisitorName |-> IF n \in gone THEN VNone ELSE f[n]]
  IN  /\ vtodo = << >>
      /\ vcfgs' = Left(vcfgs) /\ vrun' = Left(vrun) /\ vmClosed' = vmClosed \ gone
      /\ vtodo' = SelectSeq(cs, LAMBDA c : vcfgs'[c.name] = VNone)
      /\ vkeeper' = (IF vkeeper = "none" /\ cs # << >> THEN "idle" ELSE vkeeper)
      /\ vlast' = cs /\ UNCHANGED <<leaks, foreign, vstopped>>

(* keepVisitorsRunning: a tick, then the lock and the walk over the map.   *)
KeeperTick ==
  /\ vkeeper = "idle" /\ vkeeper' = "due"
  /\ UNCHANGED <<vlast, vcfgs, vrun, vmClosed, leaks, foreign, vtodo, vstopped>>
NoNames == {}
NotRunning == {n \in VisitorName : vcfgs[n] # VNone /\ vrun[n] = VNone}
KeeperStarts ==
  /\ vkeeper = "due" /\ vtodo = << >> /\ vkeeper' = "idle"
  /\ vtodo' \in {[i \in 1..Cardinality(NotRunning) |-> vcfgs[o[i]]] : o \in SetToSeqs(NotRunning)}
  /\ UNCHANGED <<vlast, vcfgs, vrun, vmClosed, leaks, foreign, vstopped>>
KeeperEnds ==
  /\ vkeeper = "idle" /\ vtodo = << >> /\ vstopped /\ vkeeper' = "over"
  /\ UNCHANGED <<vlast, vcfgs, vrun, vmClosed, leaks, foreign, vtodo, vstopped>>

(* The next visitor of the walk, the lock still held.                      *)
StartNext ==
  /\ vtodo # << >> /\ vtodo' = Tail(vtodo) /\ vcfgs' = [vcfgs EXCEPT ![Head(vtodo).name] = Head(vtodo)]
  /\ StartVisitor(Head(vtodo)) /\ UNCHANGED <<vlast, foreign, vkeeper, vstopped>>

(* Close of the manager: the visitors are closed, and stay in the map.     *)
CloseManager ==
  /\ ~vstopped /\ vtodo = << >> /\ vstopped' = TRUE /\ vmClosed' = {n \in VisitorName : vrun[n] # VNone}
  /\ UNCHANGED <<vlast, vcfgs, vrun, leaks, foreign, vtodo, vkeeper>>

OtherBinds(s) ==
  /\ s \notin foreign \cup leaks \cup HeldBy(vrun, vmClosed) /\ foreign' = foreign \cup {s}
  /\ UNCHANGED <<vlast, vcfgs, vrun, vmClosed, leaks, vtodo, vkeeper, vstopped>>
OtherFrees(s) ==
  /\ s \in foreign /\ foreign' = foreign \ {s}
  /\ UNCHANGED <<vlast, vcfgs, vrun, vmClosed, leaks, vtodo, vkeeper, vstopped>>
-----------------------------------------------------------------------------
VisitorNext ==
  \/ \E cs \in VisitorConfigs : UpdateVisitors(cs)
  \/ KeeperTick \/ KeeperStarts \/ StartNext \/ KeeperEnds \/ CloseManager
  \/ \E s \in Sock : OtherBinds(s) \/ OtherFrees(s)

(* The ticker ticks, and the mutex lets a goroutine that waits have it:    *)
(* reloads that never end do not keep it away.                             *)
VisitorFairness ==
  /\ WF_visitorVars(KeeperTick) /\ SF_visitorVars(KeeperStarts) /\ WF_visitorVars(KeeperEnds)
  /\ WF_visitorVars(StartNext)
VisitorSpec == VisitorInit /\ [][VisitorNext]_visitorVars /\ VisitorFairness
-----------------------------------------------------------------------------
(* A visitor that runs was started with the configuration its name has in  *)
(* the last list, also when a reload came while it could not bind its      *)
(* port or while keepVisitorsRunning was about to start it.                *)
RunsConfigured == \A n \in VisitorName : vrun[n] # VNone => vrun[n] \in ToSet(vlast)

Waits(n) == vcfgs[n] # VNone /\ vrun[n] = VNone /\ ~vstopped
FreeFor(n) == Binds(vcfgs[n]) \cap (HeldBy(vrun, vmClosed) \cup foreign) = {}

(* "if some visitor is not running, start it": a visitor does not wait for *)
(* ever for ports that no other program and no running visitor holds.      *)
WaitingStarts == \A n \in VisitorName : []<>~(Waits(n) /\ FreeFor(n))

(* A visitor that could not start does not wait for ever once its ports    *)
(* are free of other programs and of running visitors: startVisitor is     *)
(* tried again, unless an earlier failed attempt itself kept a port.       *)
StartsUnlessLeaked ==
  \A n \in VisitorName :
    []<>~(Waits(n) /\ FreeFor(n) /\ Binds(vcfgs[n]) \cap leaks = {})

(* The visitors that run are the ones configured last, and one that could  *)
(* not start is started once its ports are free (UpdateAll,                *)
(* keepVisitorsRunning and startVisitor).                                  *)
VisitorsRun ==
  []RunsConfigured /\ StartsUnlessLeaked
=============================================================================

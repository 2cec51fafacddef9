--------------------------- MODULE ServerMetrics ---------------------------
(***************************************************************************)
(* The connection and proxy counters of frps (pkg/metrics/mem/server.go)   *)
(* as the controls and the proxies call them: handleNewProxy and           *)
(* closeProxy in server/control.go, the user connections in                *)
(* server/proxy/proxy.go.                                                  *)
(*                                                                         *)
(* An incarnation is one registration of a proxy name.  The name is free   *)
(* for the next incarnation before the counters hear of the close, and     *)
(* connections outlive their proxy.                                        *)
(*                                                                         *)
(* Three parts with variables of their own follow: the daily counters, the *)
(* tracker of Bedrock peers, and the reports of connections that do not    *)
(* pass the server.                                                        *)
(***************************************************************************)
EXTENDS Integers, FiniteSets, Sequences

CONSTANTS MetricName, MetricType,
          Incarnation,  \* registrations of proxies
          NameOfInc, TypeOfInc,
          MetricConn,   \* user connections
          NoStats

Stats == [type : MetricType, cur : Int, start : Nat, close : Nat]

ASSUME MetricAssumption ==
  /\ IsFiniteSet(Incarnation) /\ IsFiniteSet(MetricConn)
  /\ NameOfInc \in [Incarnation -> MetricName] /\ TypeOfInc \in [Incarnation -> MetricType]
  /\ NoStats \notin Stats

VARIABLES
  inc,          \* the progress of an incarnation
  mconn,        \* the progress of a connection, and its incarnation
  curConns,     \* info.CurConns
  typeCounts,   \* info.ProxyTypeCounts
  proxyStats,   \* info.ProxyStatistics
  clock         \* one tick for every time that is recorded

metricVars == <<inc, mconn, curConns, typeCounts, proxyStats, clock>>

MetricTypeOK ==
  /\ inc \in [Incarnation -> {"idle", "running", "counted", "deleted", "closed"}]
  /\ mconn \in [MetricConn -> [phase : {"none", "opening", "open", "closed"},
                               of : Incarnation \cup {NoStats}]]
  /\ curConns \in Int /\ clock \in Nat
  /\ typeCounts \in [MetricType -> Int]
  /\ proxyStats \in [MetricName -> {NoStats} \cup Stats]

MetricInit ==
  /\ inc = [i \in Incarnation |-> "idle"]
  /\ mconn = [c \in MetricConn |-> [phase |-> "none", of |-> NoStats]]
  /\ curConns = 0 /\ clock = 1
  /\ typeCounts = [t \in MetricType |-> 0]
  /\ proxyStats = [n \in MetricName |-> NoStats]

NewStats(t) == [type |-> t, cur |-> 0, start |-> 0, close |-> 0]
Tick == clock' = clock + 1
-----------------------------------------------------------------------------
(* RegisterProxy: the proxy accepts connections from here on.              *)
RegisterProxy(i) ==
  /\ inc[i] = "idle"
  /\ \A j \in Incarnation : NameOfInc[j] = NameOfInc[i] => inc[j] \notin {"running", "counted"}
  /\ inc' = [inc EXCEPT ![i] = "running"]
  /\ UNCHANGED <<mconn, curConns, typeCounts, proxyStats, clock>>

(* NewProxy, once the registration has succeeded.                          *)
NewProxy(i) ==
  LET n == NameOfInc[i]
      t == TypeOfInc[i]
      s == IF proxyStats[n] = NoStats THEN NewStats(t)
           ELSE IF proxyStats[n].type # t THEN NewStats(t) ELSE proxyStats[n]
  IN  /\ inc[i] = "running"
      /\ inc' = [inc EXCEPT ![i] = "counted"]
      /\ typeCounts' = [typeCounts EXCEPT ![t] = @ + 1]
      /\ proxyStats' = [proxyStats EXCEPT ![n] = [s EXCEPT !.start = clock]]
      /\ Tick /\ UNCHANGED <<mconn, curConns>>

(* closeProxy removes the name, then calls CloseProxy.                     *)
DelName(i) ==
  /\ inc[i] = "counted"
  /\ inc' = [inc EXCEPT ![i] = "deleted"]
  /\ UNCHANGED <<mconn, curConns, typeCounts, proxyStats, clock>>

NotDecremented(t) == typeCounts
Decremented(t) == [typeCounts EXCEPT ![t] = @ - 1]
CloseProxy(i) ==
  LET n == NameOfInc[i]
      s == proxyStats[n]
  IN  /\ inc[i] = "deleted"
      /\ inc' = [inc EXCEPT ![i] = "closed"]
      /\ typeCounts' = Decremented(TypeOfInc[i])
      /\ \/ s = NoStats /\ UNCHANGED <<proxyStats, curConns>>
         \/ /\ s # NoStats
            /\ proxyStats' = [proxyStats EXCEPT ![n].close = clock, ![n].cur = IF @ > 0 THEN 0 ELSE @]
            /\ curConns' = IF s.cur > 0 THEN curConns - s.cur ELSE curConns
      /\ Tick /\ UNCHANGED mconn

(* OpenConnection: the total outside the mutex, the proxy's count under    *)
(* it.  A user connection may get here after its proxy was closed.         *)
OpenTotal(c, i) ==
  /\ mconn[c].phase = "none" /\ inc[i] # "idle"
  /\ mconn' = [mconn EXCEPT ![c] = [phase |-> "opening", of |-> i]]
  /\ curConns' = curConns + 1
  /\ UNCHANGED <<inc, typeCounts, proxyStats, clock>>

OpenProxy(c) ==
  LET n == NameOfInc[mconn[c].of]
  IN  /\ mconn[c].phase = "opening"
      /\ mconn' = [mconn EXCEPT ![c].phase = "open"]
      /\ proxyStats' = IF proxyStats[n] = NoStats THEN proxyStats
                       ELSE [proxyStats EXCEPT ![n].cur = @ + 1]
      /\ UNCHANGED <<inc, curConns, typeCounts, clock>>

KeepCount(k) == k
DecToZero(k) == IF k > 0 THEN k - 1 ELSE k
CloseConnection(c) ==
  LET n == NameOfInc[mconn[c].of]
  IN  /\ mconn[c].phase = "open"
      /\ mconn' = [mconn EXCEPT ![c].phase = "closed"]
      /\ curConns' = DecToZero(curConns)
      /\ proxyStats' = IF proxyStats[n] = NoStats THEN proxyStats
                       ELSE [proxyStats EXCEPT ![n].cur = DecToZero(@)]
      /\ UNCHANGED <<inc, typeCounts, clock>>

(* clearUselessInfo, from the ticker or the dashboard.                     *)
Offline(s) == s # NoStats => s.close # 0 /\ s.start < s.close
ClearUselessInfo ==
  /\ \E n \in MetricName : proxyStats[n] # NoStats /\ Offline(proxyStats[n])
  /\ proxyStats' = [n \in MetricName |-> IF Offline(proxyStats[n]) THEN NoStats ELSE proxyStats[n]]
  /\ UNCHANGED <<inc, mconn, curConns, typeCounts, clock>>

MetricNext ==
  \/ \E i \in Incarnation : RegisterProxy(i) \/ NewProxy(i) \/ DelName(i) \/ CloseProxy(i)
  \/ \E c \in MetricConn : OpenProxy(c) \/ CloseConnection(c)
  \/ \E c \in MetricConn, i \in Incarnation : OpenTotal(c, i)
  \/ ClearUselessInfo

MetricSpec == MetricInit /\ [][MetricNext]_metricVars
-----------------------------------------------------------------------------
(* The count of a type is the number of its proxies that are registered,   *)
(* whatever order the closes and the next registrations of a name take.    *)
TypeCountExact ==
  \A t \in MetricType :
    typeCounts[t] = Cardinality({i \in Incarnation : TypeOfInc[i] = t
                                                     /\ inc[i] \in {"counted", "deleted"}})

OpenOf(n) == {c \in MetricConn : mconn[c].phase = "open" /\ NameOfInc[mconn[c].of] = n}

(* No counter reports more connections than are open: resets and late      *)
(* closes only ever take off.                                              *)
NeverOvercounted ==
  /\ curConns <= Cardinality({c \in MetricConn : mconn[c].phase \in {"opening", "open"}})
  /\ \A n \in MetricName : proxyStats[n] # NoStats => proxyStats[n].cur <= Cardinality(OpenOf(n))

(* CloseConnection says of its clamp: "the counters must never go          *)
(* negative".                                                              *)
NeverNegative == curConns >= 0
-----------------------------------------------------------------------------
(***************************************************************************)
(* pkg/util/metric/date_counter.go: counts of the last days, rotated when  *)
(* they are next touched.  Dates are hours since some midnight: the number *)
(* of days passed is computed from the hours between two midnights.        *)
(***************************************************************************)

CONSTANTS ReserveDays,
          DayHours,   \* the lengths days have in the server's time zone
          MaxDays,    \* bound: days of a behaviour
          MaxCount    \* bound: increments of a day

ASSUME DateAssumption == ReserveDays \in Nat \ {0} /\ DayHours \subseteq Nat \ {0}

VARIABLES
  counts,           \* counts, today's first
  lastUpdateDate,   \* lastUpdateDate, a midnight
  midnights,        \* the midnights so far, today's last
  history           \* what was counted on each day so far

dateVars == <<counts, lastUpdateDate, midnights, history>>

DateTypeOK ==
  /\ counts \in [1 .. ReserveDays -> Int] /\ lastUpdateDate \in Nat
  /\ midnights \in Seq(Nat) /\ history \in Seq(Int) /\ Len(history) = Len(midnights)

Zeros == [i \in 1 .. ReserveDays |-> 0]
DateInit == counts = Zeros /\ lastUpdateDate = 0 /\ midnights = <<0>> /\ history = <<0>>

ShiftedByOne(c, days) == [i \in 1 .. ReserveDays |-> IF i <= 1 THEN 0 ELSE c[i - 1]]
Shifted(c, days) == [i \in 1 .. ReserveDays |-> IF i <= days THEN 0 ELSE c[i - days]]

(* rotate: the counts and the date once the counter has been touched now.  *)
Today == midnights[Len(midnights)]
DaysPassed == (Today - lastUpdateDate) \div 24
Rotated ==
  IF DaysPassed <= 0 THEN counts
  ELSE IF DaysPassed >= ReserveDays THEN Zeros ELSE Shifted(counts, DaysPassed)
Rotate == lastUpdateDate' = IF DaysPassed <= 0 THEN lastUpdateDate ELSE Today

Inc == /\ history[Len(history)] < MaxCount
       /\ counts' = [Rotated EXCEPT ![1] = @ + 1]
       /\ history' = [history EXCEPT ![Len(history)] = @ + 1]
       /\ Rotate /\ UNCHANGED midnights

Dec == /\ history[Len(history)] > -1
       /\ counts' = [Rotated EXCEPT ![1] = @ - 1]
       /\ history' = [history EXCEPT ![Len(history)] = @ - 1]
       /\ Rotate /\ UNCHANGED midnights

GetLastDaysCount == counts' = Rotated /\ Rotate /\ UNCHANGED <<midnights, history>>

NewDay(h) ==
  /\ Len(midnights) < MaxDays
  /\ midnights' = Append(midnights, Today + h)
  /\ history' = Append(history, 0)
  /\ UNCHANGED <<counts, lastUpdateDate>>

DateNext == Inc \/ Dec \/ GetLastDaysCount \/ \E h \in DayHours : NewDay(h)
DateSpec == DateInit /\ [][DateNext]_dateVars
-----------------------------------------------------------------------------
(* What GetLastDaysCount would return is what was counted on each of the   *)
(* last days, however long the counter was left untouched.                 *)
DaysExact ==
  \A i \in 1 .. ReserveDays :
    Rotated[i] = IF i > Len(history) THEN 0 ELSE history[Len(history) + 1 - i]
-----------------------------------------------------------------------------
(***************************************************************************)
(* server/proxy/peer.go: the uses of a tcp+udp proxy, counted by peer IP.  *)
(* The edges are found under the mutex and reported after it is released,  *)
(* so two reports may overtake one another.                                *)
(***************************************************************************)

CONSTANTS PeerUse,   \* TCP connections and UDP sessions
          PeerOf     \* the peer IP of a use

ASSUME PeerAssumption == IsFiniteSet(PeerUse)

VARIABLES
  refs,       \* refs: an absent IP has 0 uses
  use,        \* where a use is: before, in or after acquire and release
  reported    \* onOpen calls less onClose calls

peerVars == <<refs, use, reported>>
Peers == {PeerOf[u] : u \in PeerUse}

PeerTypeOK ==
  /\ refs \in [Peers -> Nat] /\ reported \in Int
  /\ use \in [PeerUse -> {"none", "first", "held", "last", "over"}]

PeerInit ==
  /\ refs = [p \in Peers |-> 0]
  /\ use = [u \in PeerUse |-> "none"]
  /\ reported = 0

AnyUse(n) == n >= 1
IsFirst(n) == n = 1
Acquire(u) ==
  LET p == PeerOf[u]
  IN  /\ use[u] = "none"
      /\ refs' = [refs EXCEPT ![p] = @ + 1]
      /\ use' = [use EXCEPT ![u] = IF IsFirst(refs'[p]) THEN "first" ELSE "held"]
      /\ UNCHANGED reported

OnOpen(u) ==
  /\ use[u] = "first"
  /\ use' = [use EXCEPT ![u] = "held"]
  /\ reported' = reported + 1
  /\ UNCHANGED refs

Release(u) ==
  LET p == PeerOf[u]
  IN  /\ use[u] = "held"
      /\ IF refs[p] = 0 THEN refs' = refs ELSE refs' = [refs EXCEPT ![p] = @ - 1]
      /\ use' = [use EXCEPT ![u] = IF refs[p] = 1 THEN "last" ELSE "over"]
      /\ UNCHANGED reported

OnClose(u) ==
  /\ use[u] = "last"
  /\ use' = [use EXCEPT ![u] = "over"]
  /\ reported' = reported - 1
  /\ UNCHANGED refs

PeerNext == \E u \in PeerUse : Acquire(u) \/ OnOpen(u) \/ Release(u) \/ OnClose(u)
PeerSpec == PeerInit /\ [][PeerNext]_peerVars
-----------------------------------------------------------------------------
(* Once no report is under way, a peer counts once, over however many      *)
(* connections and sessions; and the count is never negative in between.   *)
PeersCountedOnce ==
  /\ reported >= 0
  /\ (\A u \in PeerUse : use[u] \notin {"first", "last"})
       => reported = Cardinality({PeerOf[u] : u \in {v \in PeerUse : use[v] = "held"}})
-----------------------------------------------------------------------------
(***************************************************************************)
(* What the server knows of the connections of a NAT hole, which it does   *)
(* not carry: p2pMetrics of client/proxy/metrics.go reports changes, and   *)
(* handleProxyMetrics of server/control.go applies them.  TCP streams are  *)
(* counted while open, the UDP stream while packets flow; the bytes are    *)
(* counted in one direction.                                               *)
(***************************************************************************)

CONSTANTS MaxStreams,  \* bound: TCP streams open at once
          MaxBytes,    \* bound: bytes counted
          MaxReports2  \* bound: reports on their way; one report is lost

ASSUME ReportAssumption == MaxStreams \in Nat /\ MaxBytes \in Nat

VARIABLES
  p2p,       \* tcpConns, whether UDP is active, in; and what was last reported
  reporter,  \* running, or over after the final flush
  metricsQ,  \* ProxyMetrics messages on their way
  frps,      \* the server: the proxy is registered, its CurConns and traffic
  dropped    \* a report was lost, or the server's count was cleared

p2pVars == <<p2p, reporter, metricsQ, frps, dropped>>
Report == [conns : -MaxStreams - 1..MaxStreams + 1, bytes : 0..MaxBytes]

P2PTypeOK ==
  /\ p2p \in [tcpConns : Int, udp : BOOLEAN, in : 0..MaxBytes,
              lastConns : 0..MaxStreams + 1, lastIn : 0..MaxBytes]
  /\ reporter \in {"running", "over"}
  /\ \A i \in 1..Len(metricsQ) : metricsQ[i] \in Report
  /\ frps \in [registered : BOOLEAN, conns : 0..2 * MaxStreams + 2, traffic : 0..MaxBytes]
  /\ dropped \in BOOLEAN

P2PInit ==
  /\ p2p = [tcpConns |-> 0, udp |-> FALSE, in |-> 0, lastConns |-> 0, lastIn |-> 0]
  /\ reporter = "running" /\ metricsQ = <<>> /\ dropped = FALSE
  /\ frps = [registered |-> TRUE, conns |-> 0, traffic |-> 0]
-----------------------------------------------------------------------------
TCPOpen ==
  /\ p2p.tcpConns < MaxStreams /\ p2p' = [p2p EXCEPT !.tcpConns = @ + 1]
  /\ reporter = "running" /\ UNCHANGED <<reporter, metricsQ, frps, dropped>>
TCPClose ==
  /\ p2p.tcpConns > 0 /\ p2p' = [p2p EXCEPT !.tcpConns = @ - 1]
  /\ UNCHANGED <<reporter, metricsQ, frps, dropped>>
UDPActivity ==
  /\ p2p' = [p2p EXCEPT !.udp = TRUE] /\ UNCHANGED <<reporter, metricsQ, frps, dropped>>
UDPIdle ==
  /\ p2p' = [p2p EXCEPT !.udp = FALSE] /\ UNCHANGED <<reporter, metricsQ, frps, dropped>>
ReadBytes ==
  /\ p2p.in < MaxBytes /\ p2p' = [p2p EXCEPT !.in = @ + 1]
  /\ UNCHANGED <<reporter, metricsQ, frps, dropped>>

CurrentConns(m) == m.tcpConns + (IF m.udp THEN 1 ELSE 0)

(* flush: nothing if nothing moved; an error of Send is not looked at.     *)
ForgetBytes(m) == [m EXCEPT !.lastConns = CurrentConns(m)]
Remember(m) == [m EXCEPT !.lastConns = CurrentConns(m), !.lastIn = m.in]
Flush(m, sent) ==
  LET d == [conns |-> CurrentConns(m) - m.lastConns, bytes |-> m.in - m.lastIn]
  IN IF d.conns = 0 /\ d.bytes = 0 THEN p2p' = m /\ UNCHANGED <<metricsQ, dropped>>
     ELSE /\ p2p' = Remember(m)
          /\ metricsQ' = IF sent THEN Append(metricsQ, d) ELSE metricsQ
          /\ dropped' = (dropped \/ ~sent)

FlushTick(sent) ==
  /\ (sent \/ ~dropped) /\ reporter = "running" /\ Len(metricsQ) < MaxReports2
  /\ Flush(p2p, sent) /\ UNCHANGED <<reporter, frps>>

(* The last flush of the reporter reports that all connections are gone.   *)
FinalFlush(sent) ==
  /\ (sent \/ ~dropped) /\ reporter = "running" /\ Len(metricsQ) < MaxReports2 /\ reporter' = "over"
  /\ Flush([p2p EXCEPT !.tcpConns = 0, !.udp = FALSE], sent) /\ UNCHANGED frps
-----------------------------------------------------------------------------
(* The server applies a report as that many connections opened or closed,  *)
(* if the proxy is there; a count of zero is not lowered.                  *)
BelowZero(n) == n
Lowered2(n) == IF n > 0 THEN n ELSE 0
HandleProxyMetrics ==
  /\ metricsQ # <<>> /\ metricsQ' = Tail(metricsQ)
  /\ frps' = IF ~frps.registered THEN frps
             ELSE [frps EXCEPT !.conns = Lowered2(@ + metricsQ[1].conns),
                               !.traffic = @ + metricsQ[1].bytes]
  /\ dropped' = (dropped \/ ~frps.registered)
  /\ UNCHANGED <<p2p, reporter>>

(* The proxy is closed and registered again: its count starts at zero, and *)
(* the client's last report does not.                                      *)
CloseOnServer ==
  /\ frps.registered /\ frps' = [frps EXCEPT !.registered = FALSE, !.conns = 0]
  /\ dropped' = TRUE /\ UNCHANGED <<p2p, reporter, metricsQ>>
RegisterAgain ==
  /\ ~frps.registered /\ frps' = [frps EXCEPT !.registered = TRUE]
  /\ UNCHANGED <<p2p, reporter, metricsQ, dropped>>

P2PNext ==
  \/ TCPOpen \/ TCPClose \/ UDPActivity \/ UDPIdle \/ ReadBytes
  \/ \E sent \in BOOLEAN : FlushTick(sent) \/ FinalFlush(sent)
  \/ HandleProxyMetrics \/ CloseOnServer \/ RegisterAgain
P2PSpec == P2PInit /\ [][P2PNext]_p2pVars
-----------------------------------------------------------------------------
(* As long as no report is lost and the proxy stays registered, the server *)
(* is exactly as far behind the client as the reports on their way: taken  *)
(* in their order they lead from its counts to the client's, never below   *)
(* zero, and none is counted twice, however flushes and changes interleave.*)
ReportsAddUp ==
  ~dropped =>
    /\ \E at \in [1 .. Len(metricsQ) + 1 -> 0 .. MaxStreams + 1] :
         /\ at[1] = frps.conns /\ at[Len(metricsQ) + 1] = p2p.lastConns
         /\ \A i \in 1 .. Len(metricsQ) : at[i + 1] = at[i] + metricsQ[i].conns
    /\ \E at \in [1 .. Len(metricsQ) + 1 -> 0 .. MaxBytes] :
         /\ at[1] = frps.traffic /\ at[Len(metricsQ) + 1] = p2p.lastIn
         /\ \A i \in 1 .. Len(metricsQ) : at[i + 1] = at[i] + metricsQ[i].bytes

(* The statistics are right whatever order the events come in: the proxies *)
(* of a type, the open connections (never too many), the days, the peers   *)
(* of a tcp+udp proxy and the connections clients report.                  *)
CountsRight ==
  TypeCountExact /\ NeverOvercounted /\ DaysExact /\ PeersCountedOnce /\ ReportsAddUp
=============================================================================

--------------------------- MODULE MetricsProofs ---------------------------
(***************************************************************************)
(* For any proxies, connections, peers, reports and days: what the server  *)
(* counts is right.                                                        *)
(***************************************************************************)
EXTENDS ServerMetrics, FiniteSetTheorems, TLAPS

-----------------------------------------------------------------------------
(***************************************************************************)
(* The statistics (pkg/metrics/mem/server.go): proxies and connections.    *)
(***************************************************************************)
(* The proxies of a type that are counted, and the connections that are.   *)
CountedOf(t) == {i \in Incarnation : TypeOfInc[i] = t /\ inc[i] \in {"counted", "deleted"}}
OpenConns == {c \in MetricConn : mconn[c].phase \in {"opening", "open"}}

MetricIInv ==
  /\ MetricTypeOK /\ TypeCountExact /\ NeverOvercounted
  /\ \A c \in MetricConn : mconn[c].phase # "none" => mconn[c].of \in Incarnation

(* The proxies and the connections that are counted are finite sets.       *)
LEMMA MetricFinite ==
  /\ \A S \in SUBSET Incarnation : IsFiniteSet(S) /\ Cardinality(S) \in Nat
  /\ \A S \in SUBSET MetricConn : IsFiniteSet(S) /\ Cardinality(S) \in Nat
BY Zenon, MetricAssumption, FS_Subset, FS_CardinalityType

(* Nothing is counted at first.                                            *)
LEMMA MetricInitial == MetricInit => MetricIInv
<1> SUFFICES ASSUME MetricInit PROVE MetricIInv BY Zenon
<1>0. Cardinality({}) = 0 BY Zenon, FS_EmptySet
<1>1. MetricTypeOK BY DEF MetricInit, MetricTypeOK
<1>2. TypeCountExact
  <2>1. \A t \in MetricType : CountedOf(t) = {} BY Zenon DEF MetricInit, CountedOf
  <2> QED BY Zenon, <1>0, <2>1 DEF MetricInit, TypeCountExact, CountedOf
<1>3. NeverOvercounted
  <2>1. OpenConns = {} BY Zenon DEF MetricInit, OpenConns
  <2> QED BY <1>0, <2>1 DEF MetricInit, NeverOvercounted, OpenConns
<1> QED BY Zenon, <1>1, <1>2, <1>3 DEF MetricIInv, MetricInit

(* A step that moves one incarnation.                                      *)
LEMMA CountedStep ==
  ASSUME MetricTypeOK, TypeCountExact, NEW i \in Incarnation,
         NEW was, NEW is, inc[i] = was, inc' = [inc EXCEPT ![i] = is],
         \/ was \in {"counted", "deleted"} /\ is \in {"counted", "deleted"} /\ typeCounts' = typeCounts
         \/ was \notin {"counted", "deleted"} /\ is \notin {"counted", "deleted"} /\ typeCounts' = typeCounts
         \/ /\ was \notin {"counted", "deleted"} /\ is \in {"counted", "deleted"}
            /\ typeCounts' = [typeCounts EXCEPT ![TypeOfInc[i]] = @ + 1]
         \/ /\ was \in {"counted", "deleted"} /\ is \notin {"counted", "deleted"}
            /\ typeCounts' = [typeCounts EXCEPT ![TypeOfInc[i]] = @ - 1]
  PROVE  TypeCountExact'
<1> DEFINE t0 == TypeOfInc[i]
<1>1. t0 \in MetricType BY Zenon, MetricAssumption
<1>2. inc \in [Incarnation -> {"idle", "running", "counted", "deleted", "closed"}] /\ typeCounts \in [MetricType -> Int]
  BY Zenon DEF MetricTypeOK
<1>3. \A j \in Incarnation : inc'[j] = IF j = i THEN is ELSE inc[j] BY Zenon, <1>2
<1>4. \A t \in MetricType : t # t0 => CountedOf(t)' = CountedOf(t) BY Zenon, <1>3 DEF CountedOf
<1>5. \A t \in MetricType : typeCounts[t] = Cardinality(CountedOf(t)) BY Zenon DEF TypeCountExact, CountedOf
<1>6. \A t \in MetricType : t # t0 => typeCounts'[t] = typeCounts[t] BY Zenon, <1>2
<1>7. IsFiniteSet(CountedOf(t0)) /\ Cardinality(CountedOf(t0)) \in Nat
  <2>1. CountedOf(t0) \in SUBSET Incarnation BY Zenon DEF CountedOf
  <2> QED BY Zenon, <2>1, MetricFinite
<1>8. typeCounts'[t0] = Cardinality(CountedOf(t0)')
  <2>1. CASE (was \in {"counted", "deleted"}) <=> (is \in {"counted", "deleted"})
    <3>1. CountedOf(t0)' = CountedOf(t0) BY Zenon, <1>3, <2>1 DEF CountedOf
    <3> QED BY Zenon, <1>1, <1>5, <2>1, <3>1
  <2>2. CASE was \notin {"counted", "deleted"} /\ is \in {"counted", "deleted"}
    <3>1. CountedOf(t0)' = CountedOf(t0) \cup {i} /\ i \notin CountedOf(t0) BY <1>3, <2>2 DEF CountedOf
    <3>2. Cardinality(CountedOf(t0)') = Cardinality(CountedOf(t0)) + 1 BY Zenon, <1>7, <3>1, FS_AddElement
    <3>3. typeCounts'[t0] = typeCounts[t0] + 1 BY Zenon, <1>1, <1>2, <2>2
    <3> QED BY Zenon, <1>1, <1>5, <3>2, <3>3
  <2>3. CASE was \in {"counted", "deleted"} /\ is \notin {"counted", "deleted"}
    <3>1. CountedOf(t0)' = CountedOf(t0) \ {i} /\ i \in CountedOf(t0) BY <1>3, <2>3 DEF CountedOf
    <3>2. Cardinality(CountedOf(t0)') = Cardinality(CountedOf(t0)) - 1 BY Zenon, <1>7, <3>1, FS_RemoveElement
    <3>3. typeCounts'[t0] = typeCounts[t0] - 1 BY Zenon, <1>1, <1>2, <2>3
    <3> QED BY Zenon, <1>1, <1>5, <3>2, <3>3
  <2> QED BY Zenon, <2>1, <2>2, <2>3
<1> HIDE DEF t0
<1> QED BY <1>4, <1>5, <1>6, <1>8 DEF TypeCountExact, CountedOf

(* Every step of the statistics keeps the inductive invariant.             *)
LEMMA MetricStep == ASSUME MetricIInv, MetricNext PROVE MetricIInv'
<1>t. /\ inc \in [Incarnation -> {"idle", "running", "counted", "deleted", "closed"}]
      /\ mconn \in [MetricConn -> [phase : {"none", "opening", "open", "closed"}, of : Incarnation \cup {NoStats}]]
      /\ curConns \in Int /\ clock \in Nat /\ typeCounts \in [MetricType -> Int]
      /\ proxyStats \in [MetricName -> {NoStats} \cup Stats]
  BY Zenon DEF MetricIInv, MetricTypeOK
<1>i. MetricTypeOK /\ TypeCountExact /\ NeverOvercounted /\ \A c \in MetricConn : mconn[c].phase # "none" => mconn[c].of \in Incarnation
  BY Zenon DEF MetricIInv
<1>n. \A i \in Incarnation : NameOfInc[i] \in MetricName /\ TypeOfInc[i] \in MetricType BY Zenon, MetricAssumption
<1>s. \A n \in MetricName : proxyStats[n] # NoStats => proxyStats[n] \in Stats BY Zenon, <1>t
<1>c. /\ curConns <= Cardinality(OpenConns)
      /\ \A n \in MetricName : proxyStats[n] # NoStats => proxyStats[n].cur <= Cardinality(OpenOf(n))
  BY Zenon, <1>i DEF NeverOvercounted, OpenConns
<1>o. OpenConns \in SUBSET MetricConn /\ \A n \in MetricName : OpenOf(n) \in SUBSET MetricConn
  BY Zenon DEF OpenConns, OpenOf
<1>f. /\ IsFiniteSet(OpenConns) /\ Cardinality(OpenConns) \in Nat
      /\ \A n \in MetricName : IsFiniteSet(OpenOf(n)) /\ Cardinality(OpenOf(n)) \in Nat
  BY Zenon, <1>o, MetricFinite
(* Connections that stay, with counts that are no greater.                 *)
<1>k. ASSUME mconn' = mconn, curConns' \in Int, curConns' <= curConns,
             proxyStats' \in [MetricName -> {NoStats} \cup Stats],
             \A n \in MetricName : proxyStats'[n] # NoStats =>
                \/ proxyStats'[n].cur = 0
                \/ proxyStats[n] # NoStats /\ proxyStats'[n].cur <= proxyStats[n].cur
      PROVE  NeverOvercounted'
  <2>1. OpenConns' = OpenConns /\ \A n \in MetricName : OpenOf(n)' = OpenOf(n) BY Zenon, <1>k DEF OpenConns, OpenOf
  <2>2. curConns' <= Cardinality(OpenConns) BY <1>c, <1>f, <1>k, <1>t
  <2>3. ASSUME NEW n \in MetricName, proxyStats'[n] # NoStats PROVE proxyStats'[n].cur <= Cardinality(OpenOf(n))
    <3>1. proxyStats'[n] \in Stats BY Zenon, <1>k, <2>3
    <3>2. proxyStats'[n].cur \in Int BY Zenon, <3>1 DEF Stats
    <3>3. CASE proxyStats'[n].cur = 0 BY <1>f, <3>3
    <3>4. CASE proxyStats[n] # NoStats /\ proxyStats'[n].cur <= proxyStats[n].cur
      <4>1. proxyStats[n].cur \in Int BY Zenon, <1>s, <3>4 DEF Stats
      <4> QED BY <1>c, <1>f, <3>2, <3>4, <4>1
    <3> QED BY Zenon, <1>k, <2>3, <3>3, <3>4
  <2> QED BY Zenon, <2>1, <2>2, <2>3 DEF NeverOvercounted, OpenConns
<1>1. ASSUME NEW i \in Incarnation, RegisterProxy(i) \/ DelName(i) PROVE MetricIInv'
  <2>1. UNCHANGED <<mconn, curConns, typeCounts, proxyStats, clock>> BY Zenon, <1>1 DEF RegisterProxy, DelName
  <2>2. inc' \in [Incarnation -> {"idle", "running", "counted", "deleted", "closed"}]
    BY Zenon, <1>1, <1>t DEF RegisterProxy, DelName
  <2>3. TypeCountExact'
    <3>1. CASE RegisterProxy(i)
      <4>1. inc[i] = "idle" /\ inc' = [inc EXCEPT ![i] = "running"] BY Zenon, <3>1 DEF RegisterProxy
      <4> QED BY Zenon, <1>i, <2>1, <4>1, CountedStep
    <3>2. CASE DelName(i)
      <4>1. inc[i] = "counted" /\ inc' = [inc EXCEPT ![i] = "deleted"] BY Zenon, <3>2 DEF DelName
      <4> QED BY Zenon, <1>i, <2>1, <4>1, CountedStep
    <3> QED BY Zenon, <1>1, <3>1, <3>2
  <2>4. NeverOvercounted' BY <1>k, <1>t, <1>s, <2>1 DEF Stats
  <2> QED BY <1>i, <1>t, <2>1, <2>2, <2>3, <2>4 DEF MetricIInv, MetricTypeOK
<1>2. ASSUME NEW i \in Incarnation, NewProxy(i) PROVE MetricIInv'
  <2> DEFINE n == NameOfInc[i]
             s == IF proxyStats[n] = NoStats THEN NewStats(TypeOfInc[i])
                  ELSE IF proxyStats[n].type # TypeOfInc[i] THEN NewStats(TypeOfInc[i]) ELSE proxyStats[n]
             z == [s EXCEPT !.start = clock]
  <2>1. /\ inc[i] = "running" /\ inc' = [inc EXCEPT ![i] = "counted"]
        /\ typeCounts' = [typeCounts EXCEPT ![TypeOfInc[i]] = @ + 1]
        /\ proxyStats' = [proxyStats EXCEPT ![n] = z]
        /\ clock' = clock + 1 /\ mconn' = mconn /\ curConns' = curConns
    BY Zenon, <1>2 DEF NewProxy, Tick
  <2>2. NewStats(TypeOfInc[i]) \in Stats /\ NewStats(TypeOfInc[i]).cur = 0 BY <1>n DEF NewStats, Stats
  <2>3. s \in Stats /\ (s.cur = 0 \/ (proxyStats[n] # NoStats /\ s = proxyStats[n]))
    <3>1. CASE proxyStats[n] = NoStats \/ proxyStats[n].type # TypeOfInc[i]
      <4>1. s = NewStats(TypeOfInc[i]) BY Zenon, <3>1
      <4> HIDE DEF s
      <4> QED BY Zenon, <2>2, <4>1
    <3>2. CASE proxyStats[n] # NoStats /\ proxyStats[n].type = TypeOfInc[i]
      <4>1. s = proxyStats[n] BY Zenon, <3>2
      <4> QED BY <1>n, <1>s, <3>2, <4>1
    <3> QED BY Zenon, <3>1, <3>2
  <2> HIDE DEF s
  <2>4. z \in Stats /\ z.cur = s.cur BY Zenon, <1>t, <2>3 DEF Stats
  <2> HIDE DEF z
  <2>5. inc' \in [Incarnation -> {"idle", "running", "counted", "deleted", "closed"}] BY Zenon, <1>t, <2>1
  <2>6. typeCounts' \in [MetricType -> Int] BY <1>t, <1>n, <2>1
  <2>7. proxyStats' \in [MetricName -> {NoStats} \cup Stats] BY Zenon, <1>t, <1>n, <2>1, <2>4
  <2>8. TypeCountExact' BY Zenon, <1>i, <2>1, CountedStep
  <2>9. \A m \in MetricName : proxyStats'[m] = IF m = n THEN z ELSE proxyStats[m] BY Zenon, <1>t, <1>n, <2>1
  <2> HIDE DEF n
  <2>10. \A m \in MetricName : proxyStats'[m] # NoStats =>
                \/ proxyStats'[m].cur = 0
                \/ proxyStats[m] # NoStats /\ proxyStats'[m].cur <= proxyStats[m].cur
    BY <1>s, <2>3, <2>4, <2>9 DEF Stats
  <2>11. NeverOvercounted' BY <1>k, <1>t, <2>1, <2>7, <2>10
  <2> QED BY <1>i, <1>t, <2>1, <2>5, <2>6, <2>7, <2>8, <2>11 DEF MetricIInv, MetricTypeOK
<1>3. ASSUME NEW i \in Incarnation, CloseProxy(i) PROVE MetricIInv'
  <2> DEFINE n == NameOfInc[i]
             z == [proxyStats[n] EXCEPT !.close = clock, !.cur = IF @ > 0 THEN 0 ELSE @]
  <2>1. /\ inc[i] = "deleted" /\ inc' = [inc EXCEPT ![i] = "closed"]
        /\ typeCounts' = [typeCounts EXCEPT ![TypeOfInc[i]] = @ - 1]
        /\ clock' = clock + 1 /\ mconn' = mconn
    BY Zenon, <1>3 DEF CloseProxy, Decremented, Tick
  <2>2. \/ proxyStats' = proxyStats /\ curConns' = curConns
        \/ /\ proxyStats[n] # NoStats /\ proxyStats' = [proxyStats EXCEPT ![n] = z]
           /\ curConns' = IF proxyStats[n].cur > 0 THEN curConns - proxyStats[n].cur ELSE curConns
    BY Zenon, <1>3 DEF CloseProxy
  <2>3. proxyStats[n] # NoStats => /\ proxyStats[n].cur \in Int /\ z \in Stats
                                   /\ z.cur = IF proxyStats[n].cur > 0 THEN 0 ELSE proxyStats[n].cur
    <3> SUFFICES ASSUME proxyStats[n] # NoStats
                 PROVE  /\ proxyStats[n].cur \in Int /\ z \in Stats
                        /\ z.cur = IF proxyStats[n].cur > 0 THEN 0 ELSE proxyStats[n].cur
      BY Zenon
    <3>1. proxyStats[n] \in Stats BY Zenon, <1>n, <1>s
    <3>2. proxyStats[n].cur \in Int BY Zenon, <3>1 DEF Stats
    <3> DEFINE k == IF proxyStats[n].cur > 0 THEN 0 ELSE proxyStats[n].cur
    <3>3. k \in Int BY <3>2
    <3>4. z = [proxyStats[n] EXCEPT !.close = clock, !.cur = k] BY Zenon, <3>1 DEF Stats
    <3> HIDE DEF k
    <3>5. [proxyStats[n] EXCEPT !.close = clock, !.cur = k] \in Stats
          /\ [proxyStats[n] EXCEPT !.close = clock, !.cur = k].cur = k
      BY Zenon, <1>t, <3>1, <3>3 DEF Stats
    <3> QED BY <3>2, <3>4, <3>5 DEF k
  <2> HIDE DEF z
  <2>5. inc' \in [Incarnation -> {"idle", "running", "counted", "deleted", "closed"}] BY Zenon, <1>t, <2>1
  <2>6. typeCounts' \in [MetricType -> Int] BY <1>t, <1>n, <2>1
  <2>7. proxyStats' \in [MetricName -> {NoStats} \cup Stats] BY Zenon, <1>t, <1>n, <2>2, <2>3
  <2>8. TypeCountExact' BY Zenon, <1>i, <2>1, CountedStep
  <2>9. curConns' \in Int /\ curConns' <= curConns BY <1>t, <2>2, <2>3
  <2>10. \A m \in MetricName : \/ proxyStats'[m] = proxyStats[m]
                               \/ m = n /\ proxyStats[n] # NoStats /\ proxyStats'[m] = z
    BY Zenon, <1>t, <1>n, <2>2
  <2> HIDE DEF n
  <2>11. \A m \in MetricName : proxyStats'[m] # NoStats =>
                \/ proxyStats'[m].cur = 0
                \/ proxyStats[m] # NoStats /\ proxyStats'[m].cur <= proxyStats[m].cur
    BY <1>s, <2>3, <2>10 DEF Stats
  <2>12. NeverOvercounted' BY Zenon, <1>k, <2>1, <2>7, <2>9, <2>11
  <2> QED BY <1>i, <1>t, <2>1, <2>5, <2>6, <2>7, <2>8, <2>9, <2>12 DEF MetricIInv, MetricTypeOK
<1>e. ASSUME inc' = inc, typeCounts' = typeCounts PROVE TypeCountExact'
  BY Zenon, <1>e, <1>i DEF TypeCountExact
<1>4. ASSUME NEW c \in MetricConn, NEW i \in Incarnation, OpenTotal(c, i) PROVE MetricIInv'
  <2>1. /\ mconn[c].phase = "none" /\ mconn' = [mconn EXCEPT ![c] = [phase |-> "opening", of |-> i]]
        /\ curConns' = curConns + 1 /\ UNCHANGED <<inc, typeCounts, proxyStats, clock>>
    BY Zenon, <1>4 DEF OpenTotal
  <2>2. mconn' \in [MetricConn -> [phase : {"none", "opening", "open", "closed"}, of : Incarnation \cup {NoStats}]]
    BY Zenon, <1>t, <2>1
  <2>3. \A d \in MetricConn : mconn'[d] = IF d = c THEN [phase |-> "opening", of |-> i] ELSE mconn[d]
    BY Zenon, <1>t, <2>1
  <2>4. OpenConns' = OpenConns \cup {c} /\ c \notin OpenConns BY <2>1, <2>3 DEF OpenConns
  <2>5. \A n \in MetricName : OpenOf(n)' = OpenOf(n) BY <2>1, <2>3 DEF OpenOf
  <2>6. Cardinality(OpenConns') = Cardinality(OpenConns) + 1 BY Zenon, <1>f, <2>4, FS_AddElement
  <2>7. NeverOvercounted' BY <1>c, <1>f, <1>t, <2>1, <2>5, <2>6 DEF NeverOvercounted, OpenConns
  <2>8. \A d \in MetricConn : mconn'[d].phase # "none" => mconn'[d].of \in Incarnation BY <1>i, <2>3
  <2>9. TypeCountExact' BY Zenon, <1>e, <2>1
  <2> QED BY <1>t, <2>1, <2>2, <2>7, <2>8, <2>9 DEF MetricIInv, MetricTypeOK
<1>5. ASSUME NEW c \in MetricConn, OpenProxy(c) PROVE MetricIInv'
  <2> DEFINE n == NameOfInc[mconn[c].of]  z == [proxyStats[n] EXCEPT !.cur = @ + 1]
  <2>0. mconn[c].phase = "opening" /\ mconn[c].of \in Incarnation BY <1>5, <1>i DEF OpenProxy
  <2>1. /\ mconn' = [mconn EXCEPT ![c].phase = "open"] /\ UNCHANGED <<inc, curConns, typeCounts, clock>>
        /\ proxyStats' = IF proxyStats[n] = NoStats THEN proxyStats ELSE [proxyStats EXCEPT ![n] = z]
    BY Zenon, <1>5 DEF OpenProxy
  <2>2. n \in MetricName BY <1>n, <2>0
  <2>m. mconn[c] \in [phase : {"none", "opening", "open", "closed"}, of : Incarnation \cup {NoStats}] BY Zenon, <1>t
  <2>3. /\ mconn' \in [MetricConn -> [phase : {"none", "opening", "open", "closed"}, of : Incarnation \cup {NoStats}]]
        /\ \A d \in MetricConn : d # c => mconn'[d] = mconn[d]
        /\ mconn'[c].phase = "open" /\ mconn'[c].of = mconn[c].of
    BY <1>t, <2>1, <2>m
  <2>4. proxyStats[n] # NoStats => proxyStats[n].cur \in Int /\ z \in Stats /\ z.cur = proxyStats[n].cur + 1
    <3> SUFFICES ASSUME proxyStats[n] # NoStats PROVE proxyStats[n].cur \in Int /\ z \in Stats /\ z.cur = proxyStats[n].cur + 1
      BY Zenon
    <3>1. proxyStats[n] \in Stats BY Zenon, <2>2, <1>s
    <3> QED BY <3>1 DEF Stats
  <2> HIDE DEF z
  <2>5. proxyStats' \in [MetricName -> {NoStats} \cup Stats] BY Zenon, <1>t, <2>1, <2>2, <2>4
  <2>6. OpenConns' = OpenConns BY <2>0, <2>3 DEF OpenConns
  <2> DEFINE P(m) == {d \in MetricConn : mconn'[d].phase = "open" /\ NameOfInc[mconn'[d].of] = m}
  <2>7. P(n) = OpenOf(n) \cup {c} /\ c \notin OpenOf(n) /\ \A m \in MetricName : m # n => P(m) = OpenOf(m)
    BY <2>0, <2>3 DEF OpenOf
  <2> HIDE DEF P
  <2>8. \A m \in MetricName : m # n => proxyStats'[m] = proxyStats[m] BY Zenon, <1>t, <2>1
  <2>9. proxyStats'[n] # NoStats => proxyStats[n] # NoStats /\ proxyStats'[n] = z BY Zenon, <1>t, <2>1, <2>2
  <2> HIDE DEF n
  <2>10. Cardinality(P(n)) = Cardinality(OpenOf(n)) + 1 BY Zenon, <1>f, <2>2, <2>7, FS_AddElement
  <2>11. proxyStats'[n] # NoStats => proxyStats'[n].cur <= Cardinality(P(n))
    BY <1>c, <1>f, <2>2, <2>4, <2>9, <2>10
  <2>12. \A m \in MetricName : proxyStats'[m] # NoStats => proxyStats'[m].cur <= Cardinality(P(m))
    BY Zenon, <1>c, <2>7, <2>8, <2>11
  <2>13. NeverOvercounted' BY Zenon, <1>c, <2>1, <2>6, <2>12 DEF NeverOvercounted, OpenConns, OpenOf, P
  <2>14. \A d \in MetricConn : mconn'[d].phase # "none" => mconn'[d].of \in Incarnation BY Zenon, <1>i, <2>0, <2>3
  <2>15. TypeCountExact' BY Zenon, <1>e, <2>1
  <2> QED BY <1>t, <2>1, <2>3, <2>5, <2>13, <2>14, <2>15 DEF MetricIInv, MetricTypeOK
<1>6. ASSUME NEW c \in MetricConn, CloseConnection(c) PROVE MetricIInv'
  <2> DEFINE n == NameOfInc[mconn[c].of]  z == [proxyStats[n] EXCEPT !.cur = DecToZero(@)]
  <2>0. mconn[c].phase = "open" /\ mconn[c].of \in Incarnation BY Zenon, <1>6, <1>i DEF CloseConnection
  <2>1. /\ mconn' = [mconn EXCEPT ![c].phase = "closed"] /\ UNCHANGED <<inc, typeCounts, clock>>
        /\ curConns' = DecToZero(curConns)
        /\ proxyStats' = IF proxyStats[n] = NoStats THEN proxyStats ELSE [proxyStats EXCEPT ![n] = z]
    BY Zenon, <1>6 DEF CloseConnection
  <2>2. n \in MetricName BY Zenon, <1>n, <2>0
  <2>m. mconn[c] \in [phase : {"none", "opening", "open", "closed"}, of : Incarnation \cup {NoStats}] BY <1>t
  <2>3. /\ mconn' \in [MetricConn -> [phase : {"none", "opening", "open", "closed"}, of : Incarnation \cup {NoStats}]]
        /\ \A d \in MetricConn : d # c => mconn'[d] = mconn[d]
        /\ mconn'[c].phase = "closed" /\ mconn'[c].of = mconn[c].of
    BY Zenon, <1>t, <2>1, <2>m
  <2>d. \A k \in Int : DecToZero(k) \in Int /\ \A m \in Nat : k <= m /\ m > 0 => DecToZero(k) <= m - 1
    BY DEF DecToZero
  <2>4. proxyStats[n] # NoStats => proxyStats[n].cur \in Int /\ z \in Stats /\ z.cur = DecToZero(proxyStats[n].cur)
    <3> SUFFICES ASSUME proxyStats[n] # NoStats PROVE proxyStats[n].cur \in Int /\ z \in Stats /\ z.cur = DecToZero(proxyStats[n].cur)
      BY Zenon
    <3>1. proxyStats[n] \in Stats BY <2>2, <1>s
    <3> QED BY Zenon, <3>1, <2>d DEF Stats
  <2> HIDE DEF z
  <2>5. proxyStats' \in [MetricName -> {NoStats} \cup Stats] BY Zenon, <1>t, <2>1, <2>2, <2>4
  <2>6. OpenConns' = OpenConns \ {c} /\ c \in OpenConns BY Zenon, <2>0, <2>3 DEF OpenConns
  <2> DEFINE P(m) == {d \in MetricConn : mconn'[d].phase = "open" /\ NameOfInc[mconn'[d].of] = m}
  <2>7. P(n) = OpenOf(n) \ {c} /\ c \in OpenOf(n) /\ \A m \in MetricName : m # n => P(m) = OpenOf(m)
    BY <2>0, <2>3 DEF OpenOf
  <2> HIDE DEF P
  <2>8. \A m \in MetricName : m # n => proxyStats'[m] = proxyStats[m] BY Zenon, <1>t, <2>1
  <2>9. proxyStats'[n] # NoStats => proxyStats[n] # NoStats /\ proxyStats'[n] = z BY Zenon, <1>t, <2>1, <2>2
  <2> HIDE DEF n
  <2>10. Cardinality(P(n)) = Cardinality(OpenOf(n)) - 1 /\ Cardinality(OpenOf(n)) > 0
    <3>1. Cardinality(P(n)) = Cardinality(OpenOf(n)) - 1 BY Zenon, <1>f, <2>2, <2>7, FS_RemoveElement
    <3>2. P(n) \in SUBSET MetricConn BY Zenon DEF P
    <3>3. Cardinality(P(n)) \in Nat BY Zenon, <3>2, MetricFinite
    <3> QED BY <1>f, <2>2, <3>1, <3>3
  <2>11. Cardinality(OpenConns') = Cardinality(OpenConns) - 1 /\ Cardinality(OpenConns) > 0
    <3>1. Cardinality(OpenConns') = Cardinality(OpenConns) - 1 BY Zenon, <1>f, <2>6, FS_RemoveElement
    <3>2. OpenConns' \in SUBSET MetricConn BY Zenon DEF OpenConns
    <3>3. Cardinality(OpenConns') \in Nat BY Zenon, <3>2, MetricFinite
    <3> QED BY <1>f, <3>1, <3>3
  <2>12. proxyStats'[n] # NoStats => proxyStats'[n].cur <= Cardinality(P(n))
    BY <1>c, <1>f, <2>2, <2>4, <2>9, <2>10, <2>d
  <2>13. \A m \in MetricName : proxyStats'[m] # NoStats => proxyStats'[m].cur <= Cardinality(P(m))
    BY Zenon, <1>c, <2>7, <2>8, <2>12
  <2>14. curConns' \in Int /\ curConns' <= Cardinality(OpenConns') BY <1>c, <1>f, <1>t, <2>1, <2>11, <2>d
  <2>15. NeverOvercounted' BY Zenon, <2>13, <2>14 DEF NeverOvercounted, OpenConns, OpenOf, P
  <2>16. \A d \in MetricConn : mconn'[d].phase # "none" => mconn'[d].of \in Incarnation BY <1>i, <2>0, <2>3
  <2>17. TypeCountExact' BY Zenon, <1>e, <2>1
  <2> QED BY <1>t, <2>1, <2>3, <2>5, <2>14, <2>15, <2>16, <2>17 DEF MetricIInv, MetricTypeOK
<1>7. CASE ClearUselessInfo
  <2>1. /\ UNCHANGED <<inc, mconn, curConns, typeCounts, clock>>
        /\ proxyStats' = [n \in MetricName |-> IF Offline(proxyStats[n]) THEN NoStats ELSE proxyStats[n]]
    BY Zenon, <1>7 DEF ClearUselessInfo
  <2>2. proxyStats' \in [MetricName -> {NoStats} \cup Stats] BY Zenon, <1>t, <2>1
  <2>3. \A n \in MetricName : proxyStats'[n] # NoStats => proxyStats'[n] = proxyStats[n] BY Zenon, <2>1
  <2>4. NeverOvercounted' BY <1>k, <1>t, <1>s, <2>1, <2>2, <2>3 DEF Stats
  <2>5. TypeCountExact' BY Zenon, <1>e, <2>1
  <2> QED BY Zenon, <1>i, <1>t, <2>1, <2>2, <2>4, <2>5 DEF MetricIInv, MetricTypeOK
<1> QED BY <1>1, <1>2, <1>3, <1>4, <1>5, <1>6, <1>7 DEF MetricNext

(* The counters of proxies and connections are right for any number of     *)
(* incarnations, names, types and connections.                             *)
LEMMA MetricInvariance == MetricSpec => []MetricIInv
<1>1. MetricIInv /\ [MetricNext]_metricVars => MetricIInv'
  <2> SUFFICES ASSUME MetricIInv, [MetricNext]_metricVars PROVE MetricIInv' BY Zenon
  <2>1. CASE UNCHANGED metricVars
    BY Zenon, <2>1 DEF MetricIInv, metricVars, MetricTypeOK, TypeCountExact, NeverOvercounted, OpenOf
  <2> QED BY Zenon, <2>1, MetricStep
<1> QED BY MetricInitial, <1>1, PTL DEF MetricSpec

-----------------------------------------------------------------------------
(***************************************************************************)
(* The counters by day (pkg/util/metric/date_counter.go).                  *)
(***************************************************************************)
(* Days are of 24 or 25 hours and fewer are kept than make a day of the    *)
(* hours over: the quotient of the hours is the number of the days.        *)
LongDays == DayHours \subseteq 24 .. 25 /\ ReserveDays <= 24

(* The counter as it was on day u, the last it was touched on.             *)
TouchedOn(u) ==
  /\ lastUpdateDate = midnights[u]
  /\ \A j \in 1 .. Len(history) : j > u => history[j] = 0
  /\ \A i \in 1 .. ReserveDays : counts[i] = IF i > u THEN 0 ELSE history[u + 1 - i]

DateIInv ==
  /\ DateTypeOK /\ Len(midnights) >= 1
  /\ \A a, b \in 1 .. Len(midnights) :
       a <= b => 24 * (b - a) <= midnights[b] - midnights[a] /\ midnights[b] - midnights[a] <= 25 * (b - a)
  /\ \E u \in 1 .. Len(midnights) : TouchedOn(u)

(* The types of a date counter, as its steps need them.                    *)
LEMMA DateFacts ==
  ASSUME DateIInv
  PROVE  /\ counts \in [1 .. ReserveDays -> Int] /\ lastUpdateDate \in Nat
         /\ midnights \in Seq(Nat) /\ history \in Seq(Int) /\ Len(history) = Len(midnights)
         /\ Len(midnights) \in Nat \ {0} /\ Today \in Nat
         /\ \A j \in 1 .. Len(midnights) : midnights[j] \in Nat /\ history[j] \in Int
<1>1. /\ counts \in [1 .. ReserveDays -> Int] /\ lastUpdateDate \in Nat
      /\ midnights \in Seq(Nat) /\ history \in Seq(Int) /\ Len(history) = Len(midnights)
      /\ Len(midnights) >= 1
  BY Zenon DEF DateIInv, DateTypeOK
<1>2. Len(midnights) \in Nat \ {0} BY <1>1
<1>3. \A j \in 1 .. Len(midnights) : midnights[j] \in Nat /\ history[j] \in Int BY <1>1
<1>4. Today \in Nat BY <1>2, <1>3 DEF Today
<1> QED BY Zenon, <1>1, <1>2, <1>3, <1>4

(* The days passed, as far as they matter.                                 *)
LEMMA DaysPassedFacts ==
  ASSUME LongDays, DateIInv, NEW u \in 1 .. Len(midnights), lastUpdateDate = midnights[u]
  PROVE  LET k == Len(midnights) - u IN
         DaysPassed \in Int /\ (k < ReserveDays => DaysPassed = k) /\ (k >= ReserveDays => DaysPassed >= ReserveDays)
<1> DEFINE k == Len(midnights) - u  x == Today - lastUpdateDate
<1>1. k \in Nat /\ x \in Int BY DateFacts
<1>2. 24 * k <= x /\ x <= 25 * k
  <2>1. Len(midnights) \in 1 .. Len(midnights) /\ u <= Len(midnights) BY DateFacts
  <2> QED BY Zenon, <2>1 DEF DateIInv, Today
<1>3. ReserveDays \in Nat /\ ReserveDays <= 24 BY Zenon, DateAssumption DEF LongDays
<1> HIDE DEF k, x
<1>4. k < ReserveDays => x \div 24 = k BY <1>1, <1>2, <1>3
<1>5. k >= ReserveDays => x \div 24 >= ReserveDays BY <1>1, <1>2, <1>3
<1>6. DaysPassed = x \div 24 /\ x \div 24 \in Int BY <1>1 DEF DaysPassed, x
<1> QED BY Zenon, <1>4, <1>5, <1>6 DEF k

(* What the counter would return is what was counted.                      *)
LEMMA RotatedExact ==
  ASSUME LongDays, DateIInv
  PROVE  /\ Rotated \in [1 .. ReserveDays -> Int]
         /\ \A i \in 1 .. ReserveDays : Rotated[i] = IF i > Len(history) THEN 0 ELSE history[Len(history) + 1 - i]
         /\ (IF DaysPassed <= 0 THEN lastUpdateDate ELSE Today) = Today
<1>1. PICK u \in 1 .. Len(midnights) : TouchedOn(u) BY Zenon DEF DateIInv
<1> DEFINE L == Len(midnights)  k == L - u
<1>2. /\ lastUpdateDate = midnights[u]
      /\ \A j \in 1 .. L : j > u => history[j] = 0
      /\ \A i \in 1 .. ReserveDays : counts[i] = IF i > u THEN 0 ELSE history[u + 1 - i]
  BY Zenon, <1>1, DateFacts DEF TouchedOn
<1>3. /\ L \in Nat \ {0} /\ u \in Nat \ {0} /\ u <= L /\ k \in Nat /\ Len(history) = L
      /\ counts \in [1 .. ReserveDays -> Int] /\ \A j \in 1 .. L : history[j] \in Int
  BY DateFacts
<1>4. DaysPassed \in Int /\ (k < ReserveDays => DaysPassed = k) /\ (k >= ReserveDays => DaysPassed >= ReserveDays)
  BY Zenon, <1>2, DaysPassedFacts
<1>5. ReserveDays \in Nat \ {0} BY Zenon, DateAssumption
<1>6. Today = midnights[L] BY Zenon DEF Today
<1> HIDE DEF L
<1>7. CASE k = 0
  <2>1. Rotated = counts /\ u = L /\ DaysPassed = 0 BY <1>3, <1>4, <1>5, <1>7 DEF Rotated
  <2> QED BY Zenon, <1>2, <1>3, <1>6, <2>1
<1>8. CASE k > 0 /\ k < ReserveDays
  <2>1. DaysPassed = k BY Zenon, <1>4, <1>8
  <2>2. Rotated = Shifted(counts, k) BY <1>3, <1>5, <1>8, <2>1 DEF Rotated
  <2> HIDE DEF k
  <2>3. \A i \in 1 .. ReserveDays : i > k => i - k \in 1 .. ReserveDays BY <1>3, <1>5, <1>8
  <2>4. Rotated \in [1 .. ReserveDays -> Int] BY <1>3, <2>2, <2>3 DEF Shifted
  <2>5. ASSUME NEW i \in 1 .. ReserveDays
        PROVE  Rotated[i] = IF i > L THEN 0 ELSE history[L + 1 - i]
    <3>1. CASE i <= k
      <4>1. Rotated[i] = 0 BY Zenon, <2>2, <3>1 DEF Shifted
      <4>2. i <= L /\ L + 1 - i \in 1 .. L /\ L + 1 - i > u BY <1>3, <3>1 DEF k
      <4>3. history[L + 1 - i] = 0 BY Zenon, <1>2, <4>2
      <4> QED BY <4>1, <4>2, <4>3, <1>3
    <3>2. CASE ~(i <= k)
      <4>1. Rotated[i] = counts[i - k] BY Zenon, <2>2, <3>2 DEF Shifted
      <4>2. counts[i - k] = IF i - k > u THEN 0 ELSE history[u + 1 - (i - k)] BY <1>2, <1>3, <2>3, <3>2
      <4>3. (i - k > u <=> i > L) /\ u + 1 - (i - k) = L + 1 - i BY <1>3 DEF k
      <4> QED BY Zenon, <4>1, <4>2, <4>3
    <3> QED BY Zenon, <3>1, <3>2
  <2>6. ~(DaysPassed <= 0) BY <1>3, <1>8, <2>1
  <2> QED BY Zenon, <1>3, <2>4, <2>5, <2>6
<1>9. CASE k >= ReserveDays
  <2>1. Rotated = Zeros /\ ~(DaysPassed <= 0) BY <1>4, <1>5, <1>9 DEF Rotated
  <2>2. ASSUME NEW i \in 1 .. ReserveDays PROVE i <= L /\ history[L + 1 - i] = 0
    <3>1. i <= L /\ L + 1 - i \in 1 .. L /\ L + 1 - i > u BY <1>3, <1>5, <1>9
    <3> QED BY Zenon, <1>2, <3>1
  <2> QED BY <1>3, <1>5, <2>1, <2>2 DEF Zeros
<1> QED BY <1>3, <1>5, <1>7, <1>8, <1>9

(* With days of 24 to 25 hours, every step of a date counter keeps the     *)
(* inductive invariant.                                                    *)
LEMMA DateStep == ASSUME LongDays, DateIInv, DateNext PROVE DateIInv'
<1>l. PICK L \in Nat \ {0} : L = Len(midnights) BY Zenon, DateFacts
<1>1. /\ counts \in [1 .. ReserveDays -> Int] /\ lastUpdateDate \in Nat
      /\ midnights \in Seq(Nat) /\ history \in Seq(Int) /\ Len(history) = L
      /\ L \in Nat \ {0} /\ Today \in Nat
      /\ \A j \in 1 .. L : midnights[j] \in Nat /\ history[j] \in Int
  BY Zenon, <1>l, DateFacts
<1>2. /\ Rotated \in [1 .. ReserveDays -> Int]
      /\ \A i \in 1 .. ReserveDays : Rotated[i] = IF i > L THEN 0 ELSE history[L + 1 - i]
      /\ (IF DaysPassed <= 0 THEN lastUpdateDate ELSE Today) = Today
  BY Zenon, <1>1, RotatedExact
<1>3. \A a, b \in 1 .. L :
        a <= b => 24 * (b - a) <= midnights[b] - midnights[a] /\ midnights[b] - midnights[a] <= 25 * (b - a)
  BY Zenon, <1>l DEF DateIInv
<1>4. ReserveDays \in Nat \ {0} BY Zenon, DateAssumption
(* A touch: the last day is today's.                                       *)
<1>5. ASSUME NEW d \in Int, counts' = [Rotated EXCEPT ![1] = @ + d],
             history' = [history EXCEPT ![L] = @ + d],
             lastUpdateDate' = Today, midnights' = midnights
      PROVE  DateIInv'
  <2>1. history' \in Seq(Int) /\ Len(history') = L BY <1>1, <1>5
  <2>2. \A j \in 1 .. L : history'[j] = IF j = L THEN history[L] + d ELSE history[j] BY <1>1, <1>5
  <2>3. /\ counts' \in [1 .. ReserveDays -> Int]
        /\ \A i \in 1 .. ReserveDays : counts'[i] = IF i = 1 THEN Rotated[1] + d ELSE Rotated[i]
    BY <1>2, <1>4, <1>5
  <2>4. \A i \in 1 .. ReserveDays : counts'[i] = IF i > L THEN 0 ELSE history'[L + 1 - i]
    <3> SUFFICES ASSUME NEW i \in 1 .. ReserveDays PROVE counts'[i] = IF i > L THEN 0 ELSE history'[L + 1 - i]
      BY Zenon
    <3>1. CASE i = 1
      <4>0. 1 \in 1 .. ReserveDays /\ ~(1 > L) /\ L + 1 - 1 = L /\ L \in 1 .. L BY <1>1, <1>4
      <4>1. Rotated[1] = history[L] BY Zenon, <1>2, <4>0
      <4>2. counts'[1] = history[L] + d /\ history'[L] = history[L] + d BY <2>2, <2>3, <4>0, <4>1
      <4> QED BY Zenon, <3>1, <4>0, <4>2
    <3>2. CASE i # 1
      <4>1. counts'[i] = IF i > L THEN 0 ELSE history[L + 1 - i] BY Zenon, <1>2, <2>3, <3>2
      <4>2. ~(i > L) => L + 1 - i \in 1 .. L /\ L + 1 - i # L BY <1>1, <3>2
      <4> QED BY <2>2, <4>1, <4>2
    <3> QED BY Zenon, <3>1, <3>2
  <2>5. Today = midnights[L] /\ L \in 1 .. L BY <1>1, <1>l DEF Today
  <2>6. TouchedOn(L)' BY <1>1, <1>5, <2>1, <2>4, <2>5 DEF TouchedOn
  <2>7. \E u \in 1 .. L : TouchedOn(u)' BY Zenon, <2>5, <2>6
  <2>8. DateTypeOK' BY Zenon, <1>1, <1>l, <1>5, <2>1, <2>3 DEF DateTypeOK
  <2> QED BY <1>1, <1>l, <1>3, <1>5, <2>7, <2>8 DEF DateIInv
<1>6. CASE Inc
  <2>1. counts' = [Rotated EXCEPT ![1] = @ + 1] /\ history' = [history EXCEPT ![L] = @ + 1]
        /\ lastUpdateDate' = Today /\ midnights' = midnights
    BY <1>1, <1>2, <1>6 DEF Inc, Rotate
  <2>2. 1 \in Int OBVIOUS
  <2> QED BY <1>5, <2>1, <2>2, Zenon
<1>7. CASE Dec
  <2>1. counts' = [Rotated EXCEPT ![1] = @ + (-1)] /\ history' = [history EXCEPT ![L] = @ + (-1)]
    <3>1. counts' = [Rotated EXCEPT ![1] = @ - 1] /\ history' = [history EXCEPT ![L] = @ - 1]
      BY Zenon, <1>1, <1>7 DEF Dec
    <3>2. 1 \in 1 .. ReserveDays /\ L \in 1 .. L BY <1>1, <1>4
    <3>3. Rotated[1] \in Int /\ history[L] \in Int BY Zenon, <1>1, <1>2, <3>2
    <3>4. Rotated[1] - 1 = Rotated[1] + (-1) /\ history[L] - 1 = history[L] + (-1) BY Zenon, <3>3
    <3> QED BY Zenon, <3>1, <3>4
  <2>2. lastUpdateDate' = Today /\ midnights' = midnights
    BY Zenon, <1>2, <1>7 DEF Dec, Rotate
  <2>3. -1 \in Int OBVIOUS
  <2> QED BY Zenon, <1>5, <2>1, <2>2, <2>3, Zenon
<1>8. CASE GetLastDaysCount
  <2>1. /\ counts' = Rotated /\ history' = history /\ lastUpdateDate' = Today /\ midnights' = midnights
    BY Zenon, <1>2, <1>8 DEF GetLastDaysCount, Rotate
  <2>2. Today = midnights[L] /\ L \in 1 .. L BY <1>1, <1>l DEF Today
  <2>3. TouchedOn(L)' BY <1>1, <1>2, <2>1, <2>2 DEF TouchedOn
  <2>4. \E u \in 1 .. L : TouchedOn(u)' BY Zenon, <2>2, <2>3
  <2>5. DateTypeOK' BY Zenon, <1>1, <1>l, <1>2, <2>1 DEF DateTypeOK
  <2> QED BY <1>1, <1>l, <1>3, <2>1, <2>4, <2>5 DEF DateIInv
<1>9. ASSUME NEW h \in DayHours, NewDay(h) PROVE DateIInv'
  <2>1. h \in Nat /\ 24 <= h /\ h <= 25 BY DEF LongDays
  <2>2. /\ midnights' = Append(midnights, Today + h) /\ history' = Append(history, 0)
        /\ UNCHANGED <<counts, lastUpdateDate>>
    BY Zenon, <1>9 DEF NewDay
  <2>3. /\ midnights' \in Seq(Nat) /\ history' \in Seq(Int)
        /\ Len(midnights') = L + 1 /\ Len(history') = L + 1
    BY <1>1, <1>l, <2>1, <2>2
  <2>4. /\ \A j \in 1 .. L : midnights'[j] = midnights[j] /\ history'[j] = history[j]
        /\ midnights'[L + 1] = Today + h /\ history'[L + 1] = 0
    BY <1>1, <1>l, <2>1, <2>2
  <2>5. Today = midnights[L] BY Zenon, <1>l DEF Today
  <2>6. PICK u \in 1 .. L : TouchedOn(u) BY Zenon, <1>l DEF DateIInv
  <2>7. /\ lastUpdateDate = midnights[u]
        /\ \A j \in 1 .. L : j > u => history[j] = 0
        /\ \A i \in 1 .. ReserveDays : counts[i] = IF i > u THEN 0 ELSE history[u + 1 - i]
    BY Zenon, <1>1, <2>6 DEF TouchedOn
  <2>8. \A j \in 1 .. L + 1 : j = L + 1 \/ j \in 1 .. L BY <1>1
  <2>9. \A i \in 1 .. ReserveDays : i > u \/ u + 1 - i \in 1 .. L BY <1>1, <1>4
  <2>10. TouchedOn(u)' BY Zenon, <2>2, <2>3, <2>4, <2>7, <2>8, <2>9 DEF TouchedOn
  <2>11. \E v \in 1 .. L + 1 : TouchedOn(v)'
    <3>1. u \in 1 .. L + 1 BY <1>1
    <3> QED BY Zenon, <3>1, <2>10
  <2>12. \A a, b \in 1 .. L + 1 : a <= b =>
            24 * (b - a) <= midnights'[b] - midnights'[a] /\ midnights'[b] - midnights'[a] <= 25 * (b - a)
    <3> SUFFICES ASSUME NEW a \in 1 .. L + 1, NEW b \in 1 .. L + 1, a <= b
                 PROVE  24 * (b - a) <= midnights'[b] - midnights'[a] /\ midnights'[b] - midnights'[a] <= 25 * (b - a)
      BY Zenon
    <3>1. CASE b \in 1 .. L
      <4>1. a \in 1 .. L BY <1>1, <3>1
      <4> QED BY Zenon, <1>3, <2>4, <3>1, <4>1
    <3>2. CASE b = L + 1 /\ a \in 1 .. L
      <4>1. L \in 1 .. L /\ a <= L BY <1>1, <3>2
      <4>2. 24 * (L - a) <= midnights[L] - midnights[a] /\ midnights[L] - midnights[a] <= 25 * (L - a)
        BY Zenon, <1>3, <3>2, <4>1
      <4>3. midnights'[b] = midnights[L] + h /\ midnights'[a] = midnights[a] BY Zenon, <2>4, <2>5, <3>2
      <4>4. midnights[L] \in Nat /\ midnights[a] \in Nat BY Zenon, <1>1, <3>2, <4>1
      <4>5. a \in Int /\ L \in Int BY <1>1, <3>2
      <4> DEFINE x == midnights[L]  y == midnights[a]
      <4>6. x \in Int /\ y \in Int /\ 24 * (L - a) <= x - y /\ x - y <= 25 * (L - a) BY <4>2, <4>4
      <4> HIDE DEF x, y
      <4>7. 24 * (L + 1 - a) <= (x + h) - y /\ (x + h) - y <= 25 * (L + 1 - a) BY <2>1, <4>5, <4>6
      <4> QED BY <3>2, <4>3, <4>7 DEF x, y
    <3>3. CASE b = L + 1 /\ a = L + 1
      <4>1. midnights'[b] \in Nat BY <1>1, <2>1, <2>4, <3>3
      <4> QED BY <1>1, <3>3, <4>1
    <3> QED BY Zenon, <2>8, <3>1, <3>2, <3>3
  <2>13. DateTypeOK' BY Zenon, <1>1, <2>2, <2>3 DEF DateTypeOK
  <2> QED BY <1>1, <2>3, <2>11, <2>12, <2>13 DEF DateIInv
<1> QED BY <1>6, <1>7, <1>8, <1>9 DEF DateNext

(* With such days every reachable state of a date counter satisfies it.    *)
LEMMA DateInvariance == LongDays => (DateSpec => []DateIInv)
<1> SUFFICES ASSUME LongDays PROVE DateSpec => []DateIInv BY Zenon
<1>1. DateInit => DateIInv
  <2> SUFFICES ASSUME DateInit PROVE DateIInv BY Zenon
  <2>1. /\ counts \in [1 .. ReserveDays -> Int] /\ midnights \in Seq(Nat) /\ history \in Seq(Int)
        /\ Len(midnights) = 1 /\ Len(history) = 1 /\ midnights[1] = 0 /\ history[1] = 0 /\ lastUpdateDate = 0
    BY DEF DateInit, Zeros
  <2>2. TouchedOn(1) BY <2>1, DateAssumption DEF DateInit, Zeros, TouchedOn
  <2>3. \E u \in 1 .. Len(midnights) : TouchedOn(u) BY <2>1, <2>2
  <2> QED BY <2>1, <2>3 DEF DateIInv, DateTypeOK
<1>2. DateIInv /\ [DateNext]_dateVars => DateIInv'
  <2> SUFFICES ASSUME DateIInv, [DateNext]_dateVars PROVE DateIInv' BY Zenon
  <2>1. CASE UNCHANGED dateVars BY Zenon, <2>1 DEF DateIInv, dateVars, DateTypeOK, TouchedOn
  <2> QED BY Zenon, <2>1, DateStep
<1> QED BY <1>1, <1>2, PTL DEF DateSpec

-----------------------------------------------------------------------------
(***************************************************************************)
(* The peers of a tcp+udp proxy (server/proxy/peer.go).                    *)
(***************************************************************************)
UsesOf(p) == {u \in PeerUse : PeerOf[u] = p /\ use[u] \in {"first", "held"}}
Live == {p \in Peers : refs[p] > 0}
Firsts == {u \in PeerUse : use[u] = "first"}
Lasts == {u \in PeerUse : use[u] = "last"}

(* refs counts the uses, one of them at most is the first to be reported,  *)
(* and the reports are behind the live peers by the edges under way.       *)
PeerIInv ==
  /\ PeerTypeOK
  /\ \A p \in Peers : refs[p] = Cardinality(UsesOf(p))
  /\ \A u, v \in PeerUse : use[u] = "first" /\ use[v] = "first" /\ PeerOf[u] = PeerOf[v] => u = v
  /\ reported = Cardinality(Live) - Cardinality(Firsts) + Cardinality(Lasts)

(* The peers and what uses them are finite sets.                           *)
LEMMA PeerFinite ==
  /\ IsFiniteSet(Peers)
  /\ \A S \in SUBSET Peers : IsFiniteSet(S) /\ Cardinality(S) \in Nat
  /\ \A S \in SUBSET PeerUse : IsFiniteSet(S) /\ Cardinality(S) \in Nat
<1>1. IsFiniteSet(Peers)
  <2> DEFINE f == [u \in PeerUse |-> PeerOf[u]]
  <2>1. f \in Surjection(PeerUse, Peers)
    <3>1. f \in [PeerUse -> Peers] BY Zenon DEF Peers
    <3>2. \A p \in Peers : \E u \in PeerUse : f[u] = p BY Zenon DEF Peers
    <3> QED BY Zenon, <3>1, <3>2 DEF Surjection
  <2> QED BY Zenon, <2>1, PeerAssumption, FS_Surjection
<1> QED BY Zenon, <1>1, PeerAssumption, FS_Subset, FS_CardinalityType

(* The inductive invariant of the peer tracker holds at first.             *)
LEMMA PeerInitial == PeerInit => PeerIInv
<1> SUFFICES ASSUME PeerInit PROVE PeerIInv OBVIOUS
<1>0. Cardinality({}) = 0 BY FS_EmptySet
<1>1. Live = {} /\ Firsts = {} /\ Lasts = {} /\ \A p \in Peers : UsesOf(p) = {}
  BY DEF PeerInit, Live, Firsts, Lasts, UsesOf
<1>2. PeerTypeOK BY DEF PeerInit, PeerTypeOK
<1> QED BY <1>0, <1>1, <1>2 DEF PeerInit, PeerIInv

(* Every step of the peer tracker keeps it.                                *)
LEMMA PeerStep == ASSUME PeerIInv, PeerNext PROVE PeerIInv'
<1>t. /\ refs \in [Peers -> Nat] /\ reported \in Int
      /\ use \in [PeerUse -> {"none", "first", "held", "last", "over"}]
  BY Zenon DEF PeerIInv, PeerTypeOK
<1>i. /\ \A p \in Peers : refs[p] = Cardinality(UsesOf(p))
      /\ \A u, v \in PeerUse : use[u] = "first" /\ use[v] = "first" /\ PeerOf[u] = PeerOf[v] => u = v
      /\ reported = Cardinality(Live) - Cardinality(Firsts) + Cardinality(Lasts)
  BY Zenon DEF PeerIInv
<1>f. /\ IsFiniteSet(Live) /\ Cardinality(Live) \in Nat /\ IsFiniteSet(Firsts) /\ Cardinality(Firsts) \in Nat
      /\ IsFiniteSet(Lasts) /\ Cardinality(Lasts) \in Nat
      /\ \A p \in Peers : IsFiniteSet(UsesOf(p)) /\ Cardinality(UsesOf(p)) \in Nat
  <2>1. Live \in SUBSET Peers /\ Firsts \in SUBSET PeerUse /\ Lasts \in SUBSET PeerUse
        /\ \A p \in Peers : UsesOf(p) \in SUBSET PeerUse
    BY Zenon DEF Live, Firsts, Lasts, UsesOf
  <2> QED BY Zenon, <2>1, PeerFinite
<1>p. \A u \in PeerUse : PeerOf[u] \in Peers BY Zenon DEF Peers
(* Who holds a use is counted.                                             *)
<1>h. \A u \in PeerUse : use[u] \in {"first", "held"} => refs[PeerOf[u]] > 0
  <2> SUFFICES ASSUME NEW u \in PeerUse, use[u] \in {"first", "held"} PROVE refs[PeerOf[u]] > 0 BY Zenon
  <2>1. u \in UsesOf(PeerOf[u]) BY Zenon DEF UsesOf
  <2>2. Cardinality(UsesOf(PeerOf[u]) \ {u}) = Cardinality(UsesOf(PeerOf[u])) - 1 /\ IsFiniteSet(UsesOf(PeerOf[u]) \ {u})
    BY Zenon, <1>f, <1>p, <2>1, FS_RemoveElement
  <2>3. Cardinality(UsesOf(PeerOf[u]) \ {u}) \in Nat BY Zenon, <2>2, FS_CardinalityType
  <2> QED BY <1>f, <1>i, <1>p, <2>2, <2>3
<1>1. SUFFICES ASSUME NEW u \in PeerUse, Acquire(u) \/ OnOpen(u) \/ Release(u) \/ OnClose(u) PROVE PeerIInv'
  BY Zenon DEF PeerNext
<1> DEFINE q == PeerOf[u]
           Uses2(p) == {v \in PeerUse : PeerOf[v] = p /\ use'[v] \in {"first", "held"}}
           Live2 == {p \in Peers : refs'[p] > 0}
           Firsts2 == {v \in PeerUse : use'[v] = "first"}
           Lasts2 == {v \in PeerUse : use'[v] = "last"}
<1>q. q \in Peers BY Zenon, <1>p
<1>g. ASSUME refs' \in [Peers -> Nat], reported' \in Int,
             use' \in [PeerUse -> {"none", "first", "held", "last", "over"}],
             \A p \in Peers : refs'[p] = Cardinality(Uses2(p)),
             \A v, w \in PeerUse : use'[v] = "first" /\ use'[w] = "first" /\ PeerOf[v] = PeerOf[w] => v = w,
             reported' = Cardinality(Live2) - Cardinality(Firsts2) + Cardinality(Lasts2)
      PROVE  PeerIInv'
  BY Zenon, <1>g DEF PeerIInv, PeerTypeOK, UsesOf, Live, Firsts, Lasts
<1>2. CASE Acquire(u)
  <2>0. use[u] = "none" /\ reported' = reported BY Zenon, <1>2 DEF Acquire
  <2>1. refs' = [refs EXCEPT ![q] = @ + 1] BY Zenon, <1>2 DEF Acquire
  <2>2. refs' \in [Peers -> Nat] /\ refs'[q] = refs[q] + 1 /\ \A p \in Peers : p # q => refs'[p] = refs[p]
    BY <1>t, <1>q, <2>1
  <2>3. /\ use' \in [PeerUse -> {"none", "first", "held", "last", "over"}]
        /\ use'[u] = IF refs[q] = 0 THEN "first" ELSE "held"
        /\ \A v \in PeerUse : v # u => use'[v] = use[v]
    <3>1. use' = [use EXCEPT ![u] = IF IsFirst(refs'[q]) THEN "first" ELSE "held"] BY Zenon, <1>2 DEF Acquire
    <3>2. IsFirst(refs'[q]) <=> refs[q] = 0 BY <1>t, <1>q, <2>2 DEF IsFirst
    <3> QED BY Zenon, <1>t, <3>1, <3>2
  <2>4. Uses2(q) = UsesOf(q) \cup {u} /\ u \notin UsesOf(q) /\ \A p \in Peers : p # q => Uses2(p) = UsesOf(p)
    BY Zenon, <2>0, <2>3 DEF UsesOf
  <2> HIDE DEF Uses2
  <2>5. Cardinality(Uses2(q)) = Cardinality(UsesOf(q)) + 1 BY Zenon, <1>f, <1>q, <2>4, FS_AddElement
  <2>6. \A p \in Peers : refs'[p] = Cardinality(Uses2(p)) BY Zenon, <1>i, <1>q, <2>2, <2>4, <2>5
  <2>7. Lasts2 = Lasts BY Zenon, <2>0, <2>3 DEF Lasts
  <2>8. CASE refs[q] = 0
    <3>1. Live2 = Live \cup {q} /\ q \notin Live BY <1>t, <1>q, <2>2, <2>8 DEF Live
    <3>2. Firsts2 = Firsts \cup {u} /\ u \notin Firsts BY Zenon, <2>0, <2>3, <2>8 DEF Firsts
    <3> HIDE DEF Live2, Firsts2, Lasts2
    <3>3. Cardinality(Live2) = Cardinality(Live) + 1 /\ Cardinality(Firsts2) = Cardinality(Firsts) + 1
      BY Zenon, <1>f, <3>1, <3>2, FS_AddElement
    <3>4. reported' = Cardinality(Live2) - Cardinality(Firsts2) + Cardinality(Lasts2)
      BY <1>f, <1>i, <2>0, <2>7, <3>3
    <3>5. \A v \in PeerUse : use[v] = "first" => PeerOf[v] # q BY <1>h, <2>8
    <3>6. \A v, w \in PeerUse : use'[v] = "first" /\ use'[w] = "first" /\ PeerOf[v] = PeerOf[w] => v = w
      BY Zenon, <1>i, <2>3, <3>5
    <3> QED BY Zenon, <1>g, <1>t, <2>0, <2>2, <2>3, <2>6, <3>4, <3>6
  <2>9. CASE refs[q] # 0
    <3>1. Live2 = Live BY <1>t, <1>q, <2>2, <2>9 DEF Live
    <3>2. Firsts2 = Firsts BY Zenon, <2>0, <2>3, <2>9 DEF Firsts
    <3> HIDE DEF Live2, Firsts2
    <3>3. reported' = Cardinality(Live2) - Cardinality(Firsts2) + Cardinality(Lasts2)
      BY Zenon, <1>i, <2>0, <2>7, <3>1, <3>2
    <3>4. \A v, w \in PeerUse : use'[v] = "first" /\ use'[w] = "first" /\ PeerOf[v] = PeerOf[w] => v = w
      BY Zenon, <1>i, <2>3, <2>9
    <3> QED BY Zenon, <1>g, <1>t, <2>0, <2>2, <2>3, <2>6, <3>3, <3>4
  <2> QED BY Zenon, <2>8, <2>9
<1>3. CASE OnOpen(u)
  <2>1. use[u] = "first" /\ use' = [use EXCEPT ![u] = "held"] /\ reported' = reported + 1 /\ refs' = refs
    BY Zenon, <1>3 DEF OnOpen
  <2>2. /\ use' \in [PeerUse -> {"none", "first", "held", "last", "over"}]
        /\ use'[u] = "held" /\ \A v \in PeerUse : v # u => use'[v] = use[v]
    BY Zenon, <1>t, <2>1
  <2>3. \A p \in Peers : Uses2(p) = UsesOf(p) BY Zenon, <2>1, <2>2 DEF UsesOf
  <2>4. Live2 = Live /\ Lasts2 = Lasts BY Zenon, <2>1, <2>2 DEF Live, Lasts
  <2>5. Firsts2 = Firsts \ {u} /\ u \in Firsts BY Zenon, <2>1, <2>2 DEF Firsts
  <2>6. Cardinality(Firsts2) = Cardinality(Firsts) - 1 BY Zenon, <1>f, <2>5, FS_RemoveElement
  <2> HIDE DEF Uses2, Live2, Firsts2, Lasts2
  <2>7. reported' = Cardinality(Live2) - Cardinality(Firsts2) + Cardinality(Lasts2) BY <1>f, <1>i, <1>t, <2>1, <2>4, <2>6
  <2>8. \A v, w \in PeerUse : use'[v] = "first" /\ use'[w] = "first" /\ PeerOf[v] = PeerOf[w] => v = w
    BY Zenon, <1>i, <2>2
  <2>9. \A p \in Peers : refs'[p] = Cardinality(Uses2(p)) BY Zenon, <1>i, <2>1, <2>3
  <2> QED BY <1>g, <1>t, <2>1, <2>2, <2>7, <2>8, <2>9
<1>4. CASE Release(u)
  <2>0. use[u] = "held" /\ reported' = reported /\ refs[q] > 0 BY Zenon, <1>4, <1>h DEF Release
  <2>1. refs' = [refs EXCEPT ![q] = @ - 1] BY <1>4, <1>q, <1>t, <2>0 DEF Release
  <2>2. refs' \in [Peers -> Nat] /\ refs'[q] = refs[q] - 1 /\ \A p \in Peers : p # q => refs'[p] = refs[p]
    BY <1>t, <1>q, <2>0, <2>1
  <2>3. /\ use' \in [PeerUse -> {"none", "first", "held", "last", "over"}]
        /\ use'[u] = IF refs[q] = 1 THEN "last" ELSE "over"
        /\ \A v \in PeerUse : v # u => use'[v] = use[v]
    BY Zenon, <1>4, <1>t DEF Release
  <2>4. Uses2(q) = UsesOf(q) \ {u} /\ u \in UsesOf(q) /\ \A p \in Peers : p # q => Uses2(p) = UsesOf(p)
    BY Zenon, <2>0, <2>3 DEF UsesOf
  <2> HIDE DEF Uses2
  <2>5. Cardinality(Uses2(q)) = Cardinality(UsesOf(q)) - 1
    <3> DEFINE S == UsesOf(q)
    <3>1. IsFiniteSet(S) /\ u \in S /\ Uses2(q) = S \ {u} BY Zenon, <1>f, <1>q, <2>4
    <3> HIDE DEF S
    <3>2. Cardinality(S \ {u}) = Cardinality(S) - 1 BY Zenon, <3>1, FS_RemoveElement
    <3> QED BY Zenon, <3>1, <3>2 DEF S
  <2>6. \A p \in Peers : refs'[p] = Cardinality(Uses2(p)) BY Zenon, <1>i, <1>q, <2>2, <2>4, <2>5
  <2>7. Firsts2 = Firsts BY Zenon, <2>0, <2>3 DEF Firsts
  <2>8. \A v, w \in PeerUse : use'[v] = "first" /\ use'[w] = "first" /\ PeerOf[v] = PeerOf[w] => v = w
    BY Zenon, <1>i, <2>3
  <2>9. CASE refs[q] = 1
    <3>1. Live2 = Live \ {q} /\ q \in Live BY <1>t, <1>q, <2>2, <2>9 DEF Live
    <3>2. Lasts2 = Lasts \cup {u} /\ u \notin Lasts BY Zenon, <2>0, <2>3, <2>9 DEF Lasts
    <3> HIDE DEF Live2, Lasts2, Firsts2
    <3>3. Cardinality(Live2) = Cardinality(Live) - 1 /\ Cardinality(Lasts2) = Cardinality(Lasts) + 1
      BY Zenon, <1>f, <3>1, <3>2, FS_AddElement, FS_RemoveElement
    <3>4. reported' = Cardinality(Live2) - Cardinality(Firsts2) + Cardinality(Lasts2)
      BY <1>f, <1>i, <2>0, <2>7, <3>3
    <3> QED BY Zenon, <1>g, <1>t, <2>0, <2>2, <2>3, <2>6, <2>8, <3>4
  <2>10. CASE refs[q] # 1
    <3>1. Live2 = Live BY <1>t, <1>q, <2>0, <2>2, <2>10 DEF Live
    <3>2. Lasts2 = Lasts BY Zenon, <2>0, <2>3, <2>10 DEF Lasts
    <3> HIDE DEF Live2, Lasts2, Firsts2
    <3>3. reported' = Cardinality(Live2) - Cardinality(Firsts2) + Cardinality(Lasts2)
      BY Zenon, <1>i, <2>0, <2>7, <3>1, <3>2
    <3> QED BY <1>g, <1>t, <2>0, <2>2, <2>3, <2>6, <2>8, <3>3
  <2> QED BY Zenon, <2>9, <2>10
<1>5. CASE OnClose(u)
  <2>1. use[u] = "last" /\ use' = [use EXCEPT ![u] = "over"] /\ reported' = reported - 1 /\ refs' = refs
    BY Zenon, <1>5 DEF OnClose
  <2>2. /\ use' \in [PeerUse -> {"none", "first", "held", "last", "over"}]
        /\ use'[u] = "over" /\ \A v \in PeerUse : v # u => use'[v] = use[v]
    BY Zenon, <1>t, <2>1
  <2>3. \A p \in Peers : Uses2(p) = UsesOf(p) BY Zenon, <2>1, <2>2 DEF UsesOf
  <2>4. Live2 = Live /\ Firsts2 = Firsts BY Zenon, <2>1, <2>2 DEF Live, Firsts
  <2>5. Lasts2 = Lasts \ {u} /\ u \in Lasts BY Zenon, <2>1, <2>2 DEF Lasts
  <2>6. Cardinality(Lasts2) = Cardinality(Lasts) - 1 BY Zenon, <1>f, <2>5, FS_RemoveElement
  <2> HIDE DEF Uses2, Live2, Firsts2, Lasts2
  <2>7. reported' = Cardinality(Live2) - Cardinality(Firsts2) + Cardinality(Lasts2) BY <1>f, <1>i, <1>t, <2>1, <2>4, <2>6
  <2>8. \A v, w \in PeerUse : use'[v] = "first" /\ use'[w] = "first" /\ PeerOf[v] = PeerOf[w] => v = w
    BY Zenon, <1>i, <2>2
  <2>9. \A p \in Peers : refs'[p] = Cardinality(Uses2(p)) BY Zenon, <1>i, <2>1, <2>3
  <2> QED BY <1>g, <1>t, <2>1, <2>2, <2>7, <2>8, <2>9
<1> QED BY Zenon, <1>1, <1>2, <1>3, <1>4, <1>5

(* Every reachable state of the peer tracker satisfies it.                 *)
LEMMA PeerInvariance == PeerSpec => []PeerIInv
<1>1. PeerIInv /\ [PeerNext]_peerVars => PeerIInv'
  <2> SUFFICES ASSUME PeerIInv, [PeerNext]_peerVars PROVE PeerIInv' OBVIOUS
  <2>1. CASE UNCHANGED peerVars
    BY Zenon, <2>1 DEF PeerIInv, peerVars, PeerTypeOK, UsesOf, Live, Firsts, Lasts
  <2> QED BY <2>1, PeerStep
<1> QED BY PeerInitial, <1>1, PTL DEF PeerSpec

(* It implies that a peer is counted once.                                 *)
LEMMA PeersOnce == ASSUME PeerIInv PROVE PeersCountedOnce
<1>t. refs \in [Peers -> Nat] /\ reported \in Int BY Zenon DEF PeerIInv, PeerTypeOK
<1>s. Live \in SUBSET Peers /\ Firsts \in SUBSET PeerUse /\ Lasts \in SUBSET PeerUse
      /\ \A p \in Peers : UsesOf(p) \in SUBSET PeerUse
  BY Zenon DEF Live, Firsts, Lasts, UsesOf
<1>f. /\ IsFiniteSet(Live) /\ Cardinality(Live) \in Nat /\ Cardinality(Firsts) \in Nat /\ Cardinality(Lasts) \in Nat
      /\ \A p \in Peers : IsFiniteSet(UsesOf(p)) /\ Cardinality(UsesOf(p)) \in Nat
  BY Zenon, <1>s, PeerFinite
<1>e. \A p \in Peers : refs[p] > 0 <=> UsesOf(p) # {}
  <2> SUFFICES ASSUME NEW p \in Peers PROVE refs[p] > 0 <=> UsesOf(p) # {} BY Zenon
  <2>1. refs[p] = Cardinality(UsesOf(p)) BY Zenon DEF PeerIInv
  <2>2. Cardinality(UsesOf(p)) = 0 <=> UsesOf(p) = {} BY Zenon, <1>f, FS_EmptySet
  <2> QED BY <1>f, <2>1, <2>2
<1>1. reported >= 0
  <2> DEFINE f == [u \in Firsts |-> PeerOf[u]]
  <2>1. \A u \in Firsts : PeerOf[u] \in Live
    <3> SUFFICES ASSUME NEW u \in Firsts PROVE PeerOf[u] \in Live BY Zenon
    <3>1. u \in PeerUse /\ PeerOf[u] \in Peers BY Zenon DEF Firsts, Peers
    <3>2. u \in UsesOf(PeerOf[u]) BY Zenon DEF Firsts, UsesOf
    <3> QED BY Zenon, <1>e, <3>1, <3>2 DEF Live
  <2>2. f \in [Firsts -> Live] BY Zenon, <2>1
  <2>3. \A u, v \in Firsts : f[u] = f[v] => u = v BY Zenon DEF Firsts, PeerIInv
  <2>4. f \in Injection(Firsts, Live) BY Zenon, <2>2, <2>3 DEF Injection, IsInjective
  <2>5. Cardinality(Firsts) <= Cardinality(Live) BY Zenon, <1>f, <2>4, FS_Injection
  <2> QED BY <1>f, <2>5 DEF PeerIInv
<1>2. ASSUME \A u \in PeerUse : use[u] \notin {"first", "last"}
      PROVE  reported = Cardinality({PeerOf[u] : u \in {v \in PeerUse : use[v] = "held"}})
  <2>1. Firsts = {} /\ Lasts = {} BY Zenon, <1>2 DEF Firsts, Lasts
  <2>2. Cardinality(Firsts) = 0 /\ Cardinality(Lasts) = 0 BY Zenon, <2>1, FS_EmptySet
  <2>3. Live = {PeerOf[u] : u \in {v \in PeerUse : use[v] = "held"}}
    <3>1. \A p \in Peers : UsesOf(p) # {} <=> \E u \in PeerUse : PeerOf[u] = p /\ use[u] = "held"
      BY Zenon, <1>2 DEF UsesOf
    <3>2. \A p \in Peers : p \in Live <=> \E u \in PeerUse : PeerOf[u] = p /\ use[u] = "held"
      BY Zenon, <1>e, <3>1 DEF Live
    <3>3. \A u \in PeerUse : PeerOf[u] \in Peers BY Zenon DEF Peers
    <3> QED BY Zenon, <1>s, <3>2, <3>3
  <2>4. reported = Cardinality(Live) BY <1>f, <2>2 DEF PeerIInv
  <2> QED BY Zenon, <2>3, <2>4
<1> QED BY Zenon, <1>1, <1>2 DEF PeersCountedOnce

-----------------------------------------------------------------------------
(***************************************************************************)
(* The reports of a NAT hole (client/proxy/metrics.go).                    *)
(***************************************************************************)
(* What the client counts stays in its bounds, and a report is the         *)
(* difference of two counts.                                               *)
Counters == [tcpConns : 0 .. MaxStreams, udp : BOOLEAN, in : 0 .. MaxBytes,
             lastConns : 0 .. MaxStreams + 1, lastIn : 0 .. MaxBytes]
Difference == [conns : Int, bytes : Int]
ServerCount == [registered : BOOLEAN, conns : Int, traffic : Int]
P2PIInv ==
  /\ p2p \in Counters
  /\ metricsQ \in Seq(Difference)
  /\ frps \in ServerCount
  /\ dropped \in BOOLEAN
  /\ ReportsAddUp

(* The inductive invariant of the reports holds at first.                  *)
LEMMA P2PInitial == P2PInit => P2PIInv
<1> SUFFICES ASSUME P2PInit PROVE P2PIInv OBVIOUS
<1>0. MaxStreams \in Nat /\ MaxBytes \in Nat BY Zenon, ReportAssumption
<1>1. p2p \in Counters BY <1>0 DEF P2PInit, Counters
<1>2. /\ metricsQ \in Seq(Difference) /\ Len(metricsQ) = 0
      /\ frps \in ServerCount /\ dropped \in BOOLEAN
  <2>1. metricsQ = <<>> /\ dropped = FALSE BY Zenon DEF P2PInit
  <2>2. frps \in ServerCount BY DEF P2PInit, ServerCount
  <2>3. metricsQ \in Seq(Difference) /\ Len(metricsQ) = 0
    <3>1. <<>> \in Seq(Difference) /\ Len(<<>>) = 0 OBVIOUS
    <3> QED BY Zenon, <2>1, <3>1
  <2>4. dropped \in BOOLEAN BY Zenon, <2>1
  <2> QED BY Zenon, <2>2, <2>3, <2>4
<1>3. ReportsAddUp
  <2>1. [i \in 1 .. 1 |-> 0] \in [1 .. Len(metricsQ) + 1 -> 0 .. MaxStreams + 1] BY <1>0, <1>2
  <2>2. [i \in 1 .. 1 |-> 0] \in [1 .. Len(metricsQ) + 1 -> 0 .. MaxBytes] BY <1>0, <1>2
  <2>3. frps.conns = 0 /\ frps.traffic = 0 /\ p2p.lastConns = 0 /\ p2p.lastIn = 0 BY Zenon DEF P2PInit
  <2> DEFINE z == [i \in 1 .. 1 |-> 0]
  <2>4. z[1] = 0 /\ Len(metricsQ) + 1 = 1 /\ \A i \in 1 .. Len(metricsQ) : FALSE BY <1>2
  <2> HIDE DEF z
  <2>5. z \in [1 .. Len(metricsQ) + 1 -> 0 .. MaxStreams + 1] /\ z \in [1 .. Len(metricsQ) + 1 -> 0 .. MaxBytes]
    BY Zenon, <2>1, <2>2 DEF z
  <2>6. z[1] = 0 /\ z[Len(metricsQ) + 1] = 0 BY Zenon, <2>4
  <2> QED BY Zenon, <2>3, <2>4, <2>5, <2>6, Zenon DEF ReportsAddUp
<1> QED BY Zenon, <1>1, <1>2, <1>3 DEF P2PIInv

(* A walk of counts that a queue of differences describes.                 *)
Walk(d, from, to, top) ==
  \E at \in [1 .. Len(d) + 1 -> 0 .. top] :
     /\ at[1] = from /\ at[Len(d) + 1] = to
     /\ \A i \in 1 .. Len(d) : at[i + 1] = at[i] + d[i]

(* A difference added at the end of the queue moves the end of the walk by *)
(* that difference.                                                        *)
LEMMA WalkAppends ==
  ASSUME NEW d \in Seq(Int), NEW e \in Seq(Int), NEW x \in Int, NEW top \in Nat, NEW from, NEW to \in 0 .. top,
         Walk(d, from, to, top), to + x \in 0 .. top,
         Len(e) = Len(d) + 1, \A i \in 1 .. Len(d) : e[i] = d[i], e[Len(d) + 1] = x
  PROVE  Walk(e, from, to + x, top)
<1> DEFINE L == Len(d)
<1>0. L \in Nat OBVIOUS
<1>1. PICK at \in [1 .. L + 1 -> 0 .. top] :
        at[1] = from /\ at[L + 1] = to /\ \A i \in 1 .. L : at[i + 1] = at[i] + d[i]
  BY Zenon DEF Walk
<1> HIDE DEF L
<1> DEFINE bt == [i \in 1 .. L + 2 |-> IF i = L + 2 THEN to + x ELSE at[i]]
<1>2. \A i \in 1 .. L + 2 : i # L + 2 => i \in 1 .. L + 1 BY <1>0
<1>3. bt \in [1 .. L + 2 -> 0 .. top] BY Zenon, <1>1, <1>2
<1>4. bt[1] = from /\ bt[L + 2] = to + x BY <1>0, <1>1
<1>5. \A i \in 1 .. L + 1 : bt[i + 1] = bt[i] + e[i]
  <2> SUFFICES ASSUME NEW i \in 1 .. L + 1 PROVE bt[i + 1] = bt[i] + e[i] BY Zenon
  <2>1. CASE i = L + 1
    <3>1. bt[L + 2] = to + x /\ bt[L + 1] = to /\ e[L + 1] = x BY <1>0, <1>1 DEF L
    <3>2. i + 1 = L + 2 BY <1>0, <2>1
    <3> QED BY Zenon, <2>1, <3>1, <3>2
  <2>2. CASE i \in 1 .. L
    <3>1. bt[i + 1] = at[i + 1] /\ bt[i] = at[i] BY <1>0, <2>2
    <3>2. e[i] = d[i] BY Zenon, <2>2 DEF L
    <3> QED BY Zenon, <1>1, <2>2, <3>1, <3>2
  <2> QED BY <1>0, <2>1, <2>2
<1>6. Len(e) = L + 1 /\ L + 1 + 1 = L + 2 BY <1>0 DEF L
<1> HIDE DEF bt
<1>7. /\ bt \in [1 .. Len(e) + 1 -> 0 .. top] /\ bt[1] = from /\ bt[Len(e) + 1] = to + x
      /\ \A i \in 1 .. Len(e) : bt[i + 1] = bt[i] + e[i]
  BY Zenon, <1>3, <1>4, <1>5, <1>6
<1> QED BY Zenon, <1>7, Zenon DEF Walk

(* A difference taken from the front of the queue moves its start.         *)
LEMMA WalkTakes ==
  ASSUME NEW d \in Seq(Int), NEW e \in Seq(Int), NEW top \in Nat, NEW from \in Int, NEW to,
         Len(d) # 0, Walk(d, from, to, top),
         Len(e) = Len(d) - 1, \A i \in 1 .. Len(e) : e[i] = d[i + 1]
  PROVE  from + d[1] \in 0 .. top /\ Walk(e, from + d[1], to, top)
<1> DEFINE L == Len(d)
<1>0. L \in Nat \ {0} OBVIOUS
<1>1. PICK at \in [1 .. L + 1 -> 0 .. top] :
        at[1] = from /\ at[L + 1] = to /\ \A i \in 1 .. L : at[i + 1] = at[i] + d[i]
  BY Zenon DEF Walk
<1>l. Len(e) = L - 1 /\ \A i \in 1 .. L - 1 : e[i] = d[i + 1] BY Zenon
<1> HIDE DEF L
<1>2. at[2] = from + d[1] /\ at[2] \in 0 .. top
  <2>1. 1 \in 1 .. L /\ 2 \in 1 .. L + 1 /\ 1 + 1 = 2 BY <1>0
  <2> QED BY Zenon, <1>1, <2>1
<1> DEFINE bt == [i \in 1 .. L |-> at[i + 1]]
<1>3. \A i \in 1 .. L : i + 1 \in 1 .. L + 1 BY <1>0
<1>4. bt \in [1 .. L -> 0 .. top] BY Zenon, <1>1, <1>3
<1>5. bt[1] = at[2] /\ bt[L] = to BY <1>0, <1>1
<1>6. \A i \in 1 .. L - 1 : bt[i + 1] = bt[i] + e[i]
  <2> SUFFICES ASSUME NEW i \in 1 .. L - 1 PROVE bt[i + 1] = bt[i] + e[i] BY Zenon
  <2>1. i \in 1 .. L /\ i + 1 \in 1 .. L BY <1>0
  <2>2. bt[i + 1] = at[i + 1 + 1] /\ bt[i] = at[i + 1] BY Zenon, <2>1
  <2>3. at[i + 1 + 1] = at[i + 1] + d[i + 1] BY Zenon, <1>1, <2>1
  <2> QED BY Zenon, <1>l, <2>2, <2>3
<1>7. Len(e) + 1 = L BY <1>0, <1>l
<1> HIDE DEF bt
<1>8. Walk(e, at[2], to, top) BY Zenon, <1>4, <1>5, <1>6, <1>7, <1>l DEF Walk
<1> QED BY Zenon, <1>2, <1>8

(* The two columns of the queue.                                           *)
ConnsOf(q) == [i \in 1 .. Len(q) |-> q[i].conns]
BytesOf(q) == [i \in 1 .. Len(q) |-> q[i].bytes]

(* The columns of a queue of reports, element by element.                  *)
LEMMA ColumnFacts ==
  ASSUME NEW q \in Seq(Difference)
  PROVE  /\ ConnsOf(q) \in Seq(Int) /\ Len(ConnsOf(q)) = Len(q) /\ \A i \in 1 .. Len(q) : ConnsOf(q)[i] = q[i].conns
         /\ BytesOf(q) \in Seq(Int) /\ Len(BytesOf(q)) = Len(q) /\ \A i \in 1 .. Len(q) : BytesOf(q)[i] = q[i].bytes
<1>1. \A i \in 1 .. Len(q) : q[i] \in Difference OBVIOUS
<1>2. \A i \in 1 .. Len(q) : q[i].conns \in Int /\ q[i].bytes \in Int BY Zenon, <1>1 DEF Difference
<1>3. Len(q) \in Nat OBVIOUS
<1> QED BY <1>2, <1>3 DEF ConnsOf, BytesOf

(* In a state of the invariant where no report was dropped, the reports    *)
(* under way lead from what frps has to what frpc has counted.             *)
LEMMA WalksAddUp ==
  ASSUME P2PIInv, ~dropped
  PROVE  /\ Walk(ConnsOf(metricsQ), frps.conns, p2p.lastConns, MaxStreams + 1)
         /\ Walk(BytesOf(metricsQ), frps.traffic, p2p.lastIn, MaxBytes)
<1>1. metricsQ \in Seq(Difference) BY Zenon DEF P2PIInv
<1> DEFINE C == ConnsOf(metricsQ)  B == BytesOf(metricsQ)
<1>2. /\ Len(C) = Len(metricsQ) /\ \A i \in 1 .. Len(metricsQ) : C[i] = metricsQ[i].conns
      /\ Len(B) = Len(metricsQ) /\ \A i \in 1 .. Len(metricsQ) : B[i] = metricsQ[i].bytes
  BY Zenon, <1>1, ColumnFacts
<1> HIDE DEF C, B
<1>3. PICK at \in [1 .. Len(metricsQ) + 1 -> 0 .. MaxStreams + 1] :
         /\ at[1] = frps.conns /\ at[Len(metricsQ) + 1] = p2p.lastConns
         /\ \A i \in 1 .. Len(metricsQ) : at[i + 1] = at[i] + metricsQ[i].conns
  BY Zenon DEF P2PIInv, ReportsAddUp
<1>4. \A i \in 1 .. Len(C) : at[i + 1] = at[i] + C[i] BY Zenon, <1>2, <1>3, Zenon
<1>5. Walk(C, frps.conns, p2p.lastConns, MaxStreams + 1) BY Zenon, <1>2, <1>3, <1>4, Zenon DEF Walk
<1>6. PICK bt \in [1 .. Len(metricsQ) + 1 -> 0 .. MaxBytes] :
         /\ bt[1] = frps.traffic /\ bt[Len(metricsQ) + 1] = p2p.lastIn
         /\ \A i \in 1 .. Len(metricsQ) : bt[i + 1] = bt[i] + metricsQ[i].bytes
  BY Zenon DEF P2PIInv, ReportsAddUp
<1>7. \A i \in 1 .. Len(B) : bt[i + 1] = bt[i] + B[i] BY Zenon, <1>2, <1>6, Zenon
<1>8. Walk(B, frps.traffic, p2p.lastIn, MaxBytes) BY Zenon, <1>2, <1>6, <1>7, Zenon DEF Walk
<1> QED BY Zenon, <1>5, <1>8 DEF C, B

(* Such walks are what the invariant asks of the next state.               *)
LEMMA AddUpWalks ==
  ASSUME metricsQ' \in Seq(Difference),
         ~dropped' => /\ Walk(ConnsOf(metricsQ'), frps'.conns, p2p'.lastConns, MaxStreams + 1)
                      /\ Walk(BytesOf(metricsQ'), frps'.traffic, p2p'.lastIn, MaxBytes)
  PROVE  ReportsAddUp'
<1> DEFINE C == ConnsOf(metricsQ')  B == BytesOf(metricsQ')
<1>2. /\ Len(C) = Len(metricsQ') /\ \A i \in 1 .. Len(metricsQ') : C[i] = metricsQ'[i].conns
      /\ Len(B) = Len(metricsQ') /\ \A i \in 1 .. Len(metricsQ') : B[i] = metricsQ'[i].bytes
  BY Zenon, ColumnFacts
<1>3. ~dropped' => Walk(C, frps'.conns, p2p'.lastConns, MaxStreams + 1) /\ Walk(B, frps'.traffic, p2p'.lastIn, MaxBytes)
  BY Zenon
<1> HIDE DEF C, B
<1>4. ASSUME ~dropped'
      PROVE  \E at \in [1 .. Len(metricsQ') + 1 -> 0 .. MaxStreams + 1] :
               /\ at[1] = frps'.conns /\ at[Len(metricsQ') + 1] = p2p'.lastConns
               /\ \A i \in 1 .. Len(metricsQ') : at[i + 1] = at[i] + metricsQ'[i].conns
  <2>1. PICK at \in [1 .. Len(C) + 1 -> 0 .. MaxStreams + 1] :
          /\ at[1] = frps'.conns /\ at[Len(C) + 1] = p2p'.lastConns
          /\ \A i \in 1 .. Len(C) : at[i + 1] = at[i] + C[i]
    BY Zenon, <1>3, <1>4, Zenon DEF Walk
  <2>2. \A i \in 1 .. Len(metricsQ') : at[i + 1] = at[i] + metricsQ'[i].conns BY Zenon, <1>2, <2>1, Zenon
  <2> QED BY Zenon, <1>2, <2>1, <2>2, Zenon
<1>5. ASSUME ~dropped'
      PROVE  \E at \in [1 .. Len(metricsQ') + 1 -> 0 .. MaxBytes] :
               /\ at[1] = frps'.traffic /\ at[Len(metricsQ') + 1] = p2p'.lastIn
               /\ \A i \in 1 .. Len(metricsQ') : at[i + 1] = at[i] + metricsQ'[i].bytes
  <2>1. PICK at \in [1 .. Len(B) + 1 -> 0 .. MaxBytes] :
          /\ at[1] = frps'.traffic /\ at[Len(B) + 1] = p2p'.lastIn
          /\ \A i \in 1 .. Len(B) : at[i + 1] = at[i] + B[i]
    BY Zenon, <1>3, <1>5, Zenon DEF Walk
  <2>2. \A i \in 1 .. Len(metricsQ') : at[i + 1] = at[i] + metricsQ'[i].bytes BY Zenon, <1>2, <2>1, Zenon
  <2> QED BY Zenon, <1>2, <2>1, <2>2, Zenon
<1> QED BY Zenon, <1>4, <1>5, Zenon DEF ReportsAddUp

(* A flush that only counts and sends keeps the inductive invariant,       *)
(* whether or not the queue takes the report.                              *)
LEMMA FlushStep ==
  ASSUME P2PIInv, NEW m \in Counters, m.lastConns = p2p.lastConns, m.lastIn = p2p.lastIn,
         NEW sent \in BOOLEAN, Flush(m, sent), frps' = frps
  PROVE  P2PIInv'
<1>0. MaxStreams \in Nat /\ MaxBytes \in Nat BY Zenon, ReportAssumption
<1>1. /\ metricsQ \in Seq(Difference) /\ dropped \in BOOLEAN
      /\ frps \in ServerCount
  BY Zenon DEF P2PIInv
<1>2. /\ m.tcpConns \in 0 .. MaxStreams /\ m.udp \in BOOLEAN /\ m.in \in 0 .. MaxBytes
      /\ m.lastConns \in 0 .. MaxStreams + 1 /\ m.lastIn \in 0 .. MaxBytes
  BY Zenon DEF Counters
<1>3. CurrentConns(m) \in 0 .. MaxStreams + 1 BY <1>0, <1>2 DEF CurrentConns
<1> DEFINE x == CurrentConns(m) - m.lastConns  y == m.in - m.lastIn  d == [conns |-> x, bytes |-> y]
<1>4. x \in Int /\ y \in Int /\ m.lastConns + x = CurrentConns(m) /\ m.lastIn + y = m.in BY <1>0, <1>2, <1>3
<1>5. \/ p2p' = m /\ metricsQ' = metricsQ /\ dropped' = dropped
      \/ /\ p2p' = Remember(m) /\ dropped' = (dropped \/ ~sent)
         /\ metricsQ' = IF sent THEN Append(metricsQ, d) ELSE metricsQ
  BY Zenon DEF Flush
<1>6. Remember(m) \in Counters /\ Remember(m).lastConns = CurrentConns(m) /\ Remember(m).lastIn = m.in
  BY Zenon, <1>2, <1>3 DEF Remember, Counters
<1> HIDE DEF x, y
<1>7. d \in Difference /\ d.conns = x /\ d.bytes = y BY Zenon, <1>4 DEF Difference
<1> HIDE DEF d
<1>8. p2p' \in Counters /\ metricsQ' \in Seq(Difference) /\ dropped' \in BOOLEAN
  <2>1. Append(metricsQ, d) \in Seq(Difference) BY <1>1, <1>7
  <2>2. metricsQ' = metricsQ \/ metricsQ' = Append(metricsQ, d) BY Zenon, <1>5
  <2>3. p2p' \in Counters BY Zenon, <1>5, <1>6
  <2>4. dropped' \in BOOLEAN BY Zenon, <1>1, <1>5
  <2> QED BY Zenon, <1>1, <2>1, <2>2, <2>3, <2>4
<1>9. ReportsAddUp'
  <2>1. CASE dropped'
    BY Zenon, <1>8, <2>1, AddUpWalks
  <2>2. CASE ~dropped' /\ p2p' = m /\ metricsQ' = metricsQ /\ dropped' = dropped
    <3>1. /\ Walk(ConnsOf(metricsQ), frps.conns, p2p.lastConns, MaxStreams + 1)
          /\ Walk(BytesOf(metricsQ), frps.traffic, p2p.lastIn, MaxBytes)
      BY Zenon, <2>2, WalksAddUp
    <3>2. p2p'.lastConns = p2p.lastConns /\ p2p'.lastIn = p2p.lastIn BY Zenon, <2>2
    <3>3. /\ Walk(ConnsOf(metricsQ'), frps'.conns, p2p'.lastConns, MaxStreams + 1)
          /\ Walk(BytesOf(metricsQ'), frps'.traffic, p2p'.lastIn, MaxBytes)
      BY Zenon, <2>2, <3>1, <3>2
    <3> QED BY Zenon, <1>8, <3>3, AddUpWalks
  <2>3. CASE ~dropped' /\ p2p' = Remember(m) /\ dropped' = (dropped \/ ~sent)
             /\ metricsQ' = IF sent THEN Append(metricsQ, d) ELSE metricsQ
    <3>1. ~dropped /\ sent /\ metricsQ' = Append(metricsQ, d) BY Zenon, <2>3
    <3>2. /\ Walk(ConnsOf(metricsQ), frps.conns, p2p.lastConns, MaxStreams + 1)
          /\ Walk(BytesOf(metricsQ), frps.traffic, p2p.lastIn, MaxBytes)
      BY Zenon, <3>1, WalksAddUp
    <3>3. /\ Len(metricsQ') = Len(metricsQ) + 1 /\ metricsQ'[Len(metricsQ) + 1] = d
          /\ \A i \in 1 .. Len(metricsQ) : metricsQ'[i] = metricsQ[i]
      BY <1>1, <1>7, <3>1
    <3> DEFINE C == ConnsOf(metricsQ)  B == BytesOf(metricsQ)  C2 == ConnsOf(metricsQ')  B2 == BytesOf(metricsQ')
    <3>4. /\ C \in Seq(Int) /\ Len(C) = Len(metricsQ) /\ \A i \in 1 .. Len(metricsQ) : C[i] = metricsQ[i].conns
          /\ B \in Seq(Int) /\ Len(B) = Len(metricsQ) /\ \A i \in 1 .. Len(metricsQ) : B[i] = metricsQ[i].bytes
      BY Zenon, <1>1, ColumnFacts
    <3>5. /\ C2 \in Seq(Int) /\ Len(C2) = Len(metricsQ') /\ \A i \in 1 .. Len(metricsQ') : C2[i] = metricsQ'[i].conns
          /\ B2 \in Seq(Int) /\ Len(B2) = Len(metricsQ') /\ \A i \in 1 .. Len(metricsQ') : B2[i] = metricsQ'[i].bytes
      BY Zenon, <1>8, ColumnFacts
    <3>6. Walk(C, frps.conns, m.lastConns, MaxStreams + 1) /\ Walk(B, frps.traffic, m.lastIn, MaxBytes) BY Zenon, <3>2
    <3> HIDE DEF C, B, C2, B2
    <3>7. \A i \in 1 .. Len(metricsQ) : i \in 1 .. Len(metricsQ') BY <1>1, <3>3
    <3>8. Len(metricsQ) + 1 \in 1 .. Len(metricsQ') BY <1>1, <3>3
    <3>9. /\ Len(C2) = Len(C) + 1 /\ (\A i \in 1 .. Len(C) : C2[i] = C[i]) /\ C2[Len(C) + 1] = x
          /\ Len(B2) = Len(B) + 1 /\ (\A i \in 1 .. Len(B) : B2[i] = B[i]) /\ B2[Len(B) + 1] = y
      <4>1. Len(C2) = Len(C) + 1 /\ Len(B2) = Len(B) + 1 BY Zenon, <3>3, <3>4, <3>5
      <4>2. ASSUME NEW i \in 1 .. Len(C) PROVE C2[i] = C[i]
        <5>1. i \in 1 .. Len(metricsQ) /\ i \in 1 .. Len(metricsQ') BY Zenon, <3>4, <3>7
        <5>2. C2[i] = metricsQ'[i].conns /\ metricsQ'[i] = metricsQ[i] /\ C[i] = metricsQ[i].conns
          BY Zenon, <3>3, <3>4, <3>5, <5>1, Zenon
        <5> QED BY Zenon, <5>2, Zenon
      <4>3. ASSUME NEW i \in 1 .. Len(B) PROVE B2[i] = B[i]
        <5>1. i \in 1 .. Len(metricsQ) /\ i \in 1 .. Len(metricsQ') BY Zenon, <3>4, <3>7
        <5>2. B2[i] = metricsQ'[i].bytes /\ metricsQ'[i] = metricsQ[i] /\ B[i] = metricsQ[i].bytes
          BY Zenon, <3>3, <3>4, <3>5, <5>1, Zenon
        <5> QED BY Zenon, <5>2, Zenon
      <4>4. C2[Len(C) + 1] = x /\ B2[Len(B) + 1] = y BY Zenon, <1>7, <3>3, <3>4, <3>5, <3>8, Zenon
      <4> QED BY Zenon, <4>1, <4>2, <4>3, <4>4
    <3>10. MaxStreams + 1 \in Nat BY <1>0
    <3>11. Walk(C2, frps.conns, m.lastConns + x, MaxStreams + 1)
      BY Zenon, <1>2, <1>3, <1>4, <3>4, <3>5, <3>6, <3>9, <3>10, WalkAppends
    <3>12. Walk(B2, frps.traffic, m.lastIn + y, MaxBytes)
      BY Zenon, <1>0, <1>2, <1>4, <3>4, <3>5, <3>6, <3>9, WalkAppends
    <3>13. p2p'.lastConns = m.lastConns + x /\ p2p'.lastIn = m.lastIn + y BY Zenon, <1>4, <1>6, <2>3
    <3>14. /\ Walk(ConnsOf(metricsQ'), frps'.conns, p2p'.lastConns, MaxStreams + 1)
           /\ Walk(BytesOf(metricsQ'), frps'.traffic, p2p'.lastIn, MaxBytes)
      BY Zenon, <3>11, <3>12, <3>13 DEF C2, B2
    <3> QED BY <1>8, <3>14, AddUpWalks
  <2> QED BY Zenon, <1>5, <2>1, <2>2, <2>3
<1> QED BY Zenon, <1>1, <1>8, <1>9 DEF P2PIInv

(* Every step of the reports keeps the inductive invariant.                *)
LEMMA P2PStep == ASSUME P2PIInv, P2PNext PROVE P2PIInv'
<1>0. MaxStreams \in Nat /\ MaxBytes \in Nat BY Zenon, ReportAssumption
<1>1. /\ p2p \in Counters /\ metricsQ \in Seq(Difference) /\ dropped \in BOOLEAN
      /\ frps \in ServerCount /\ ReportsAddUp
  BY Zenon DEF P2PIInv
<1>2. /\ p2p.tcpConns \in 0 .. MaxStreams /\ p2p.udp \in BOOLEAN /\ p2p.in \in 0 .. MaxBytes
      /\ p2p.lastConns \in 0 .. MaxStreams + 1 /\ p2p.lastIn \in 0 .. MaxBytes
  BY Zenon, <1>1 DEF Counters
(* A change of the client's that is not yet reported.                      *)
<1>3. ASSUME p2p' \in Counters, p2p'.lastConns = p2p.lastConns, p2p'.lastIn = p2p.lastIn,
             UNCHANGED <<metricsQ, frps, dropped>>
      PROVE  P2PIInv'
  BY Zenon, <1>1, <1>3 DEF P2PIInv, ReportsAddUp
<1>4. CASE TCPOpen
  <2>1. p2p.tcpConns + 1 \in 0 .. MaxStreams BY <1>0, <1>2, <1>4 DEF TCPOpen
  <2>2. p2p' = [p2p EXCEPT !.tcpConns = p2p.tcpConns + 1] /\ UNCHANGED <<metricsQ, frps, dropped>>
    BY Zenon, <1>4 DEF TCPOpen
  <2>3. p2p' \in Counters /\ p2p'.lastConns = p2p.lastConns /\ p2p'.lastIn = p2p.lastIn
    BY Zenon, <1>1, <2>1, <2>2 DEF Counters
  <2> QED BY Zenon, <1>3, <2>2, <2>3
<1>5. CASE TCPClose
  <2>1. p2p.tcpConns - 1 \in 0 .. MaxStreams BY <1>0, <1>2, <1>5 DEF TCPClose
  <2>2. p2p' = [p2p EXCEPT !.tcpConns = p2p.tcpConns - 1] /\ UNCHANGED <<metricsQ, frps, dropped>>
    BY Zenon, <1>5 DEF TCPClose
  <2>3. p2p' \in Counters /\ p2p'.lastConns = p2p.lastConns /\ p2p'.lastIn = p2p.lastIn
    BY Zenon, <1>1, <2>1, <2>2 DEF Counters
  <2> QED BY Zenon, <1>3, <2>2, <2>3
<1>6. CASE UDPActivity \/ UDPIdle
  <2>1. \E b \in BOOLEAN : p2p' = [p2p EXCEPT !.udp = b] BY Zenon, <1>6 DEF UDPActivity, UDPIdle
  <2>2. UNCHANGED <<metricsQ, frps, dropped>> BY Zenon, <1>6 DEF UDPActivity, UDPIdle
  <2>3. p2p' \in Counters /\ p2p'.lastConns = p2p.lastConns /\ p2p'.lastIn = p2p.lastIn
    BY Zenon, <1>1, <2>1 DEF Counters
  <2> QED BY Zenon, <1>3, <2>2, <2>3
<1>7. CASE ReadBytes
  <2>1. p2p.in + 1 \in 0 .. MaxBytes BY <1>0, <1>2, <1>7 DEF ReadBytes
  <2>2. p2p' = [p2p EXCEPT !.in = p2p.in + 1] /\ UNCHANGED <<metricsQ, frps, dropped>>
    BY Zenon, <1>7 DEF ReadBytes
  <2>3. p2p' \in Counters /\ p2p'.lastConns = p2p.lastConns /\ p2p'.lastIn = p2p.lastIn
    BY Zenon, <1>1, <2>1, <2>2 DEF Counters
  <2> QED BY Zenon, <1>3, <2>2, <2>3
<1>8. ASSUME NEW sent \in BOOLEAN, FlushTick(sent) PROVE P2PIInv'
  <2>1. Flush(p2p, sent) /\ frps' = frps BY Zenon, <1>8 DEF FlushTick
  <2> QED BY Zenon, <1>1, <2>1, FlushStep
<1>9. ASSUME NEW sent \in BOOLEAN, FinalFlush(sent) PROVE P2PIInv'
  <2> DEFINE m == [p2p EXCEPT !.tcpConns = 0, !.udp = FALSE]
  <2>1. Flush(m, sent) /\ frps' = frps BY Zenon, <1>9 DEF FinalFlush
  <2>2. 0 \in 0 .. MaxStreams BY <1>0
  <2>3. m \in Counters /\ m.lastConns = p2p.lastConns /\ m.lastIn = p2p.lastIn BY Zenon, <1>1, <2>2 DEF Counters
  <2> HIDE DEF m
  <2> QED BY Zenon, <1>1, <2>1, <2>3, FlushStep
<1>10. CASE HandleProxyMetrics
  <2>1. /\ metricsQ # <<>> /\ metricsQ' = Tail(metricsQ) /\ p2p' = p2p
        /\ frps' = IF ~frps.registered THEN frps
                   ELSE [frps EXCEPT !.conns = Lowered2(frps.conns + metricsQ[1].conns),
                                     !.traffic = frps.traffic + metricsQ[1].bytes]
        /\ dropped' = (dropped \/ ~frps.registered)
    BY Zenon, <1>10 DEF HandleProxyMetrics
  <2>2. /\ metricsQ' \in Seq(Difference) /\ Len(metricsQ) \in Nat \ {0} /\ Len(metricsQ') = Len(metricsQ) - 1
        /\ \A i \in 1 .. Len(metricsQ') : metricsQ'[i] = metricsQ[i + 1]
    BY <1>1, <2>1
  <2>3. metricsQ[1] \in Difference BY <1>1, <2>2
  <2>4. metricsQ[1].conns \in Int /\ metricsQ[1].bytes \in Int BY Zenon, <2>3 DEF Difference
  <2>5. frps.conns \in Int /\ frps.traffic \in Int /\ frps.registered \in BOOLEAN BY Zenon, <1>1 DEF ServerCount
  <2> DEFINE fc == frps.conns + metricsQ[1].conns  ft == frps.traffic + metricsQ[1].bytes
  <2>6. fc \in Int /\ ft \in Int /\ Lowered2(fc) \in Int BY <2>4, <2>5 DEF Lowered2
  <2>g. frps' = IF ~frps.registered THEN frps ELSE [frps EXCEPT !.conns = Lowered2(fc), !.traffic = ft] BY Zenon, <2>1
  <2> HIDE DEF fc, ft
  <2>7. /\ frps' \in ServerCount
        /\ frps.registered => frps'.conns = Lowered2(fc) /\ frps'.traffic = ft
    BY Zenon, <1>1, <2>6, <2>g DEF ServerCount
  <2>8. dropped' \in BOOLEAN BY Zenon, <1>1, <2>1, <2>5
  <2>9. ReportsAddUp'
    <3>1. CASE dropped' BY Zenon, <2>2, <3>1, AddUpWalks
    <3>2. CASE ~dropped'
      <4>1. ~dropped /\ frps.registered BY Zenon, <2>1, <3>2
      <4> DEFINE C == ConnsOf(metricsQ)  B == BytesOf(metricsQ)  C2 == ConnsOf(metricsQ')  B2 == BytesOf(metricsQ')
      <4>2. Walk(C, frps.conns, p2p.lastConns, MaxStreams + 1) /\ Walk(B, frps.traffic, p2p.lastIn, MaxBytes)
        BY Zenon, <4>1, WalksAddUp
      <4>4. /\ C \in Seq(Int) /\ Len(C) = Len(metricsQ) /\ \A i \in 1 .. Len(metricsQ) : C[i] = metricsQ[i].conns
            /\ B \in Seq(Int) /\ Len(B) = Len(metricsQ) /\ \A i \in 1 .. Len(metricsQ) : B[i] = metricsQ[i].bytes
        BY Zenon, <1>1, ColumnFacts
      <4>5. /\ C2 \in Seq(Int) /\ Len(C2) = Len(metricsQ') /\ \A i \in 1 .. Len(metricsQ') : C2[i] = metricsQ'[i].conns
            /\ B2 \in Seq(Int) /\ Len(B2) = Len(metricsQ') /\ \A i \in 1 .. Len(metricsQ') : B2[i] = metricsQ'[i].bytes
        BY Zenon, <2>2, ColumnFacts
      <4> HIDE DEF C, B, C2, B2
      <4>6. \A i \in 1 .. Len(metricsQ') : i + 1 \in 1 .. Len(metricsQ) BY <2>2
      <4>7. /\ Len(C) # 0 /\ Len(C2) = Len(C) - 1 /\ (\A i \in 1 .. Len(C2) : C2[i] = C[i + 1]) /\ C[1] = metricsQ[1].conns
            /\ Len(B) # 0 /\ Len(B2) = Len(B) - 1 /\ (\A i \in 1 .. Len(B2) : B2[i] = B[i + 1]) /\ B[1] = metricsQ[1].bytes
        <5>1. Len(C) # 0 /\ Len(C2) = Len(C) - 1 /\ Len(B) # 0 /\ Len(B2) = Len(B) - 1 BY Zenon, <2>2, <4>4, <4>5
        <5>2. \A i \in 1 .. Len(C2) : C2[i] = C[i + 1] BY Zenon, <2>2, <4>4, <4>5, <4>6, Zenon
        <5>3. \A i \in 1 .. Len(B2) : B2[i] = B[i + 1] BY Zenon, <2>2, <4>4, <4>5, <4>6, Zenon
        <5>4. 1 \in 1 .. Len(metricsQ) BY <2>2
        <5>5. C[1] = metricsQ[1].conns /\ B[1] = metricsQ[1].bytes BY Zenon, <4>4, <5>4, Zenon
        <5> QED BY Zenon, <5>1, <5>2, <5>3, <5>5
      <4>8. MaxStreams + 1 \in Nat BY <1>0
      <4>9. frps.conns + C[1] \in 0 .. MaxStreams + 1 /\ Walk(C2, frps.conns + C[1], p2p.lastConns, MaxStreams + 1)
        BY Zenon, <2>5, <4>2, <4>4, <4>5, <4>7, <4>8, WalkTakes
      <4>10. Walk(B2, frps.traffic + B[1], p2p.lastIn, MaxBytes)
        BY Zenon, <1>0, <2>5, <4>2, <4>4, <4>5, <4>7, WalkTakes
      <4>11. fc = frps.conns + C[1] /\ ft = frps.traffic + B[1] BY Zenon, <4>7 DEF fc, ft
      <4>12. Lowered2(fc) = fc BY <1>0, <4>9, <4>11 DEF Lowered2
      <4>13. /\ Walk(ConnsOf(metricsQ'), frps'.conns, p2p'.lastConns, MaxStreams + 1)
             /\ Walk(BytesOf(metricsQ'), frps'.traffic, p2p'.lastIn, MaxBytes)
        BY Zenon, <2>1, <2>7, <4>1, <4>9, <4>10, <4>11, <4>12 DEF C2, B2
      <4> QED BY Zenon, <2>2, <4>13, AddUpWalks
    <3> QED BY Zenon, <3>1, <3>2
  <2> QED BY Zenon, <1>1, <2>1, <2>2, <2>7, <2>8, <2>9 DEF P2PIInv
<1>11. CASE CloseOnServer
  <2>1. frps' \in ServerCount
    <3>1. frps' = [frps EXCEPT !.registered = FALSE, !.conns = 0] BY Zenon, <1>11 DEF CloseOnServer
    <3>2. FALSE \in BOOLEAN /\ 0 \in Int OBVIOUS
    <3> QED BY Zenon, <1>1, <3>1, <3>2 DEF ServerCount
  <2>2. dropped' = TRUE /\ UNCHANGED <<p2p, metricsQ>> BY Zenon, <1>11 DEF CloseOnServer
  <2>3. ReportsAddUp' BY Zenon, <2>2 DEF ReportsAddUp
  <2> QED BY Zenon, <1>1, <2>1, <2>2, <2>3 DEF P2PIInv
<1>12. CASE RegisterAgain
  <2>1. /\ frps' \in ServerCount
        /\ frps'.conns = frps.conns /\ frps'.traffic = frps.traffic
    BY Zenon, <1>1, <1>12 DEF RegisterAgain, ServerCount
  <2>2. UNCHANGED <<p2p, metricsQ, dropped>> BY Zenon, <1>12 DEF RegisterAgain
  <2>3. ReportsAddUp' BY Zenon, <1>1, <2>1, <2>2 DEF ReportsAddUp
  <2> QED BY Zenon, <1>1, <2>1, <2>2, <2>3 DEF P2PIInv
<1> QED BY Zenon, <1>4, <1>5, <1>6, <1>7, <1>8, <1>9, <1>10, <1>11, <1>12 DEF P2PNext

(* Every reachable state of the reports satisfies it.                      *)
LEMMA P2PInvariance == P2PSpec => []P2PIInv
<1>1. P2PIInv /\ [P2PNext]_p2pVars => P2PIInv'
  <2> SUFFICES ASSUME P2PIInv, [P2PNext]_p2pVars PROVE P2PIInv' OBVIOUS
  <2>1. CASE UNCHANGED p2pVars
    BY Zenon, <2>1 DEF P2PIInv, p2pVars, ReportsAddUp
  <2> QED BY <2>1, P2PStep
<1> QED BY P2PInitial, <1>1, PTL DEF P2PSpec

(* The statistics are right whatever order the events come in, for any     *)
(* proxies, connections, peers and reports and for days of 24 or 25 hours: *)
(* a type counts its proxies, a connection is never counted twice, a day   *)
(* is never another's, a peer is counted once over its two protocols, and  *)
(* the reports add up (pkg/metrics/mem, server/proxy, client/proxy).       *)
THEOREM MetricsSafe ==
  LongDays => (MetricSpec /\ DateSpec /\ PeerSpec /\ P2PSpec => []CountsRight)
<1> SUFFICES ASSUME LongDays PROVE MetricSpec /\ DateSpec /\ PeerSpec /\ P2PSpec => []CountsRight
  BY Zenon
<1>1. DateSpec => []DateIInv BY Zenon, DateInvariance
<1>2. DateIInv => DaysExact BY Zenon, RotatedExact DEF DaysExact
<1>3. MetricIInv /\ DateIInv /\ PeerIInv /\ P2PIInv => CountsRight
  BY Zenon, <1>2, PeersOnce DEF MetricIInv, P2PIInv, CountsRight
<1> QED BY <1>1, <1>3, MetricInvariance, PeerInvariance, P2PInvariance, PTL
=============================================================================

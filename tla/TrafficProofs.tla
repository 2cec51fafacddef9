--------------------------- MODULE TrafficProofs ----------------------------
(***************************************************************************)
(* For any work connections, user connections, sessions and addresses: a   *)
(* work connection has one holder and is asked for again when it is taken, *)
(* and the sessions of a UDP proxy end with it.                            *)
(***************************************************************************)
EXTENDS WorkConnPool, UDPClientRelay, FiniteSetTheorems, TLAPS

-----------------------------------------------------------------------------
(***************************************************************************)
(* The work connections of a control (server/control.go, server/proxy).    *)
(***************************************************************************)
(* A user connection holds a work connection exactly between taking it and *)
(* letting it go, and has a try left while it looks for one.               *)
Holding ==
  /\ \A u \in User : has[u] # None <=> user[u] \in {"replacing", "starting", "joined"}
  /\ \A u \in User : user[u] \in {"idle", "getting", "waiting", "replacing", "starting"} =>
       tries[u] <= PoolCount

IInv == TypeOK /\ Holding /\ OneHolder /\ GoneIsEmpty /\ Replenished

(* Every step keeps the types.                                             *)
LEMMA TypeStep ==
  ASSUME TypeOK, Holding, Next
  PROVE  TypeOK'
<1> USE PoolAssumption DEF TypeOK, Holding, Phases, Places, UserPC, userVars, Move, Go, Sent
<1>1. ASSUME AskInitial PROVE TypeOK'
  BY <1>1 DEF AskInitial
<1>2. ASSUME DispatcherDone PROVE TypeOK'
  BY Zenon, <1>2 DEF DispatcherDone
<1>3. ASSUME CloseChan PROVE TypeOK'
  BY Zenon, <1>3 DEF CloseChan
<1>4. ASSUME LeaveManager PROVE TypeOK'
  BY Zenon, <1>4 DEF LeaveManager
<1>5. ASSUME NEW k \in Conn, ClientDials(k) PROVE TypeOK'
  BY <1>5 DEF ClientDials, Asked
<1>6. ASSUME NEW k \in Conn, ClientEndVanishes(k) PROVE TypeOK'
  BY Zenon, <1>6 DEF ClientEndVanishes
<1>7. ASSUME NEW k \in Conn, FindControl(k) PROVE TypeOK'
  BY <1>7 DEF FindControl
<1>8. ASSUME NEW k \in Conn, PoolConn(k) PROVE TypeOK'
  BY <1>8 DEF PoolConn, SendPanics, Room
<1>9. ASSUME NEW k \in Conn, DrainConn(k) PROVE TypeOK'
  BY Zenon, <1>9 DEF DrainConn
<1>10. ASSUME NEW u \in User, Arrive(u) PROVE TypeOK'
  BY Zenon, <1>10 DEF Arrive
<1>11. ASSUME NEW u \in User, AskAndWait(u) PROVE TypeOK'
  BY <1>11 DEF AskAndWait
<1>12. ASSUME NEW u \in User, SeeClosed(u) PROVE TypeOK'
  BY Zenon, <1>12 DEF SeeClosed
<1>13. ASSUME NEW u \in User, Timeout(u) PROVE TypeOK'
  BY Zenon, <1>13 DEF Timeout
<1>14. ASSUME NEW u \in User, Replace(u) PROVE TypeOK'
  BY <1>14 DEF Replace, Replacement
<1>15. ASSUME NEW u \in User, StartConn(u) PROVE TypeOK'
  BY <1>15 DEF StartConn, ClosedConn, LastTry
<1>16. ASSUME NEW u \in User, Part(u) PROVE TypeOK'
  BY Zenon, <1>16 DEF Part, ClosedConn
<1>17. ASSUME NEW u \in User, NEW k \in Conn, Take(u, k) PROVE TypeOK'
  BY Zenon, <1>17 DEF Take
<1> HIDE DEF TypeOK
<1> QED BY Zenon, <1>1, <1>2, <1>3, <1>4, <1>5, <1>6, <1>7, <1>8, <1>9, <1>10, <1>11, <1>12, <1>13, <1>14, <1>15, <1>16, <1>17 DEF Next, UserStep, WorkerStep

(* Every step keeps the holders of the work connections.                   *)
LEMMA HolderStep ==
  ASSUME TypeOK, Holding, OneHolder, GoneIsEmpty, Next
  PROVE  Holding' /\ OneHolder' /\ GoneIsEmpty'
<1> DEFINE Goal == Holding' /\ OneHolder' /\ GoneIsEmpty'
<1> USE PoolAssumption DEF TypeOK, Phases, UserPC, Holding, OneHolder, GoneIsEmpty, At, userVars, Move, Go
<1>1. ASSUME AskInitial PROVE Goal
  BY <1>1 DEF AskInitial
<1>2. ASSUME DispatcherDone PROVE Goal
  BY Zenon, <1>2 DEF DispatcherDone
<1>3. ASSUME CloseChan PROVE Goal
  BY Zenon, <1>3 DEF CloseChan
<1>4. ASSUME LeaveManager PROVE Goal
  BY Zenon, <1>4 DEF LeaveManager
<1>5. ASSUME NEW k \in Conn, ClientDials(k) PROVE Goal
  BY <1>5 DEF ClientDials, Asked
<1>6. ASSUME NEW k \in Conn, ClientEndVanishes(k) PROVE Goal
  BY Zenon, <1>6 DEF ClientEndVanishes
<1>7. ASSUME NEW k \in Conn, FindControl(k) PROVE Goal
  BY <1>7 DEF FindControl
<1>8. ASSUME NEW k \in Conn, PoolConn(k) PROVE Goal
  BY <1>8 DEF PoolConn, ChanClosed, SendPanics, Room
<1>9. ASSUME NEW k \in Conn, DrainConn(k) PROVE Goal
  BY <1>9 DEF DrainConn
<1>10. ASSUME NEW u \in User, Arrive(u) PROVE Goal
  BY <1>10 DEF Arrive
<1>11. ASSUME NEW u \in User, AskAndWait(u) PROVE Goal
  BY <1>11 DEF AskAndWait
<1>12. ASSUME NEW u \in User, SeeClosed(u) PROVE Goal
  BY <1>12 DEF SeeClosed
<1>13. ASSUME NEW u \in User, Timeout(u) PROVE Goal
  BY <1>13 DEF Timeout
<1>14. ASSUME NEW u \in User, Replace(u) PROVE Goal
  BY <1>14 DEF Replace, Replacement
<1>15. ASSUME NEW u \in User, StartConn(u) PROVE Goal
  BY <1>15 DEF StartConn, ClosedConn, LastTry
<1>16. ASSUME NEW u \in User, Part(u) PROVE Goal
  BY <1>16 DEF Part, ClosedConn
<1>17. ASSUME NEW u \in User, NEW k \in Conn, Take(u, k) PROVE Goal
  BY <1>17 DEF Take
<1> HIDE DEF Goal
<1>18. Goal BY Zenon, <1>1, <1>2, <1>3, <1>4, <1>5, <1>6, <1>7, <1>8, <1>9, <1>10, <1>11, <1>12, <1>13, <1>14, <1>15, <1>16, <1>17 DEF Next, UserStep, WorkerStep
<1> QED BY Zenon, <1>18 DEF Goal

(* The two sets that Supply counts are finite.                             *)
LEMMA CountsFinite ==
  /\ IsFiniteSet(UnderWay) /\ Cardinality(UnderWay) \in Nat
  /\ IsFiniteSet(Replacing) /\ Cardinality(Replacing) \in Nat
<1>1. UnderWay \in SUBSET Conn /\ Replacing \in SUBSET User
  BY Zenon DEF UnderWay, At, Replacing
<1>2. IsFiniteSet(UnderWay) /\ IsFiniteSet(Replacing)
  BY Zenon, <1>1, FS_Subset, PoolAssumption
<1> QED BY Zenon, <1>2, FS_CardinalityType

(* No step lowers the supply of a control that stays up.                   *)
LEMMA SupplyStep ==
  ASSUME TypeOK, Holding, OneHolder, Replenished, Next
  PROVE  Replenished'
<1> DEFINE U == Cardinality(UnderWay) R == Cardinality(Replacing)
           Same == UnderWay' = UnderWay /\ Replacing' = Replacing
           On == phase = "up" /\ phase' = "up"
<1>0. /\ conn \in [Conn -> Places] /\ user \in [User -> UserPC]
      /\ toAsk \in Nat /\ reqs \in Nat /\ lost \in Nat /\ PoolCount \in Nat
      /\ U \in Nat /\ R \in Nat
  BY CountsFinite, PoolAssumption DEF TypeOK
<1>1. phase' = "up" => On
  BY Zenon DEF Next, UserStep, WorkerStep, AskInitial, DispatcherDone, CloseChan, DrainConn,
     LeaveManager, ClientDials, Asked, ClientEndVanishes, FindControl, PoolConn, Arrive, Take,
     AskAndWait, SeeClosed, Timeout, Replace, StartConn, Part
<1>2. On => U + R + toAsk + reqs + lost >= PoolCount
  BY Zenon DEF Replenished, Supply
<1>3. /\ \A k \in Conn : k \in UnderWay => Cardinality(UnderWay \ {k}) = U - 1
      /\ \A u \in User : u \in Replacing => Cardinality(Replacing \ {u}) = R - 1
  BY Zenon, CountsFinite, FS_RemoveElement
<1> DEFINE Kept == On => Cardinality(UnderWay)' + Cardinality(Replacing)' + toAsk' + reqs' + lost'
                         >= PoolCount
<1> USE DEF UnderWay, At, Replacing, Places, UserPC, userVars, Move, Go, Sent
<1>5. ASSUME AskInitial PROVE Kept
  <2>1. Same BY Zenon, <1>5 DEF AskInitial
  <2> HIDE DEF UnderWay, Replacing
  <2> QED BY <1>0, <1>2, <1>5, <2>1 DEF AskInitial
<1>6. ASSUME DispatcherDone PROVE Kept BY Zenon, <1>6 DEF DispatcherDone
<1>7. ASSUME WorkerStep PROVE Kept BY Zenon, <1>7 DEF WorkerStep, CloseChan, DrainConn, LeaveManager
<1>8. ASSUME NEW k \in Conn, ClientDials(k) PROVE Kept
  <2>1. k \notin UnderWay /\ Replacing' = Replacing BY Zenon, <1>8 DEF ClientDials, Asked
  <2>2. \/ UnderWay' = UnderWay \cup {k} /\ lost' = lost
        \/ UnderWay' = UnderWay /\ lost' = lost + 1
    BY Zenon, <1>0, <1>8 DEF ClientDials, Asked
  <2>3. toAsk' = toAsk /\ reqs' = reqs - 1 BY Zenon, <1>8 DEF ClientDials, Asked
  <2> HIDE DEF UnderWay, Replacing
  <2>4. Cardinality(UnderWay \cup {k}) = U + 1 BY Zenon, CountsFinite, FS_AddElement, <2>1
  <2>5. UnderWay' = UnderWay \cup {k} => Cardinality(UnderWay)' = Cardinality(UnderWay \cup {k})
    BY Zenon
  <2>6. (UnderWay' = UnderWay => Cardinality(UnderWay)' = U) /\ Cardinality(Replacing)' = R
    BY Zenon, <2>1, Zenon
  <2>7. \/ Cardinality(UnderWay)' = U + 1 /\ lost' = lost
        \/ Cardinality(UnderWay)' = U /\ lost' = lost + 1
    BY Zenon, <2>2, <2>4, <2>5, <2>6
  <2> QED BY <1>0, <1>2, <2>3, <2>6, <2>7
<1>9. ASSUME NEW k \in Conn, FindControl(k) \/ PoolConn(k) PROVE Kept
  <2>1. k \in UnderWay /\ Replacing' = Replacing BY Zenon, <1>9 DEF FindControl, PoolConn
  <2>2. On => \/ UnderWay' = UnderWay /\ lost' = lost
              \/ UnderWay' = UnderWay \ {k} /\ lost' = lost + 1
    BY Zenon, <1>0, <1>9 DEF FindControl, PoolConn, SendPanics, ChanClosed
  <2>3. toAsk' = toAsk /\ reqs' = reqs BY Zenon, <1>9 DEF FindControl, PoolConn
  <2> HIDE DEF UnderWay, Replacing
  <2> QED BY <1>0, <1>2, <1>3, <2>1, <2>2, <2>3
<1>10. ASSUME NEW k \in Conn, NEW u \in User, Take(u, k) PROVE Kept
  <2>1. /\ k \in UnderWay /\ UnderWay' = UnderWay \ {k}
        /\ u \notin Replacing /\ Replacing' = Replacing \cup {u}
    BY Zenon, <1>0, <1>10 DEF Take
  <2>2. toAsk' = toAsk /\ reqs' = reqs /\ lost' = lost BY Zenon, <1>10 DEF Take
  <2> HIDE DEF UnderWay, Replacing
  <2>3. Cardinality(UnderWay)' = U - 1
    BY Zenon, <1>3, <2>1
  <2>4. Cardinality(Replacing)' = Cardinality(Replacing \cup {u})
    BY Zenon, <2>1, Zenon
  <2>5. Cardinality(Replacing)' = R + 1
    BY Zenon, CountsFinite, FS_AddElement, <2>1, <2>4
  <2> QED BY <1>0, <1>2, <2>2, <2>3, <2>5
<1>11. ASSUME NEW u \in User, Replace(u) PROVE Kept
  <2>1. u \in Replacing /\ Replacing' = Replacing \ {u} /\ UnderWay' = UnderWay
    BY Zenon, <1>0, <1>11 DEF Replace
  <2>2. toAsk' = toAsk /\ (On => reqs' = reqs + 1) /\ lost' = lost
    BY Zenon, <1>11 DEF Replace, Replacement
  <2> HIDE DEF UnderWay, Replacing
  <2> QED BY <1>0, <1>2, <1>3, <2>1, <2>2
<1>12. ASSUME NEW u \in User,
              Arrive(u) \/ AskAndWait(u) \/ SeeClosed(u) \/ Timeout(u)
       PROVE  Kept
  <2>1. Same BY Zenon, <1>0, <1>12 DEF Arrive, AskAndWait, SeeClosed, Timeout
  <2>2. toAsk' = toAsk /\ reqs' \in {reqs, reqs + 1} /\ lost' = lost
    BY Zenon, <1>12 DEF Arrive, AskAndWait, SeeClosed, Timeout
  <2> HIDE DEF UnderWay, Replacing
  <2> QED BY <1>0, <1>2, <2>1, <2>2
<1>13. ASSUME NEW k \in Conn, ClientEndVanishes(k) PROVE Kept
  <2>1. Same /\ toAsk' = toAsk /\ reqs' = reqs /\ lost' = lost
    BY Zenon, <1>13 DEF ClientEndVanishes
  <2> HIDE DEF UnderWay, Replacing
  <2> QED BY Zenon, <1>0, <1>2, <2>1
<1>14. ASSUME NEW u \in User, StartConn(u) \/ Part(u) PROVE Kept
  <2>1. has[u] # None => has[u] \in Conn /\ conn[has[u]] = "taken"
    BY Zenon, <1>14 DEF OneHolder, TypeOK
  <2>2. Same
    BY <1>0, <1>14, <2>1 DEF StartConn, Part, ClosedConn, Holding
  <2>3. toAsk' = toAsk /\ reqs' = reqs /\ lost' = lost BY Zenon, <1>14 DEF StartConn, Part
  <2> HIDE DEF UnderWay, Replacing
  <2> QED BY Zenon, <1>0, <1>2, <2>2, <2>3
<1> HIDE DEF UnderWay, Replacing, Kept
<1>15. Kept
  BY Zenon, <1>5, <1>6, <1>7, <1>8, <1>9, <1>10, <1>11, <1>12, <1>13, <1>14 DEF Next, UserStep
<1> QED BY Zenon, <1>1, <1>15 DEF Kept, Replenished, Supply
-----------------------------------------------------------------------------
(* The invariant holds in every reachable state.                           *)
THEOREM Invariance == Spec => []IInv
<1>1. Init => IInv
  <2> SUFFICES ASSUME Init PROVE IInv BY Zenon
  <2>1. TypeOK /\ Holding /\ OneHolder /\ GoneIsEmpty
    BY PoolAssumption DEF Init, TypeOK, Holding, OneHolder, GoneIsEmpty, At, Phases, Places, UserPC
  <2>2. Replenished
    BY CountsFinite, PoolAssumption DEF Init, Replenished, Supply
  <2> QED BY Zenon, <2>1, <2>2 DEF IInv
<1>2. IInv /\ [Next]_vars => IInv'
  <2> SUFFICES ASSUME IInv, [Next]_vars PROVE IInv' BY Zenon
  <2>1. CASE Next
    BY Zenon, <2>1, TypeStep, HolderStep, SupplyStep DEF IInv
  <2>2. CASE UNCHANGED vars
    BY <2>2 DEF vars, IInv, TypeOK, Holding, OneHolder, GoneIsEmpty, Replenished, Supply,
       UnderWay, Replacing, At
  <2> QED BY Zenon, <2>1, <2>2
<1> QED BY <1>1, <1>2, PTL DEF Spec

(* The state of the pool keeps its types; in particular a user connection  *)
(* tries at most poolCount + 1 work connections.                           *)
THEOREM TypeCorrect == Spec => []TypeOK
BY Invariance, PTL DEF IInv

(* No work connection is ever held by two user connections, and nothing is *)
(* pooled once the worker has drained the channel.                         *)
THEOREM HeldSafe == Spec => []WorkConnsHeld
<1>1. IInv => WorkConnsHeld
  BY Zenon DEF IInv, WorkConnsHeld
<1> QED
  BY <1>1, Invariance, PTL

(* The supply of work connections never falls below poolCount.             *)
THEOREM SupplySafe == Spec => []Replenished
BY Invariance, PTL DEF IInv

-----------------------------------------------------------------------------
(***************************************************************************)
(* The datagrams of a UDP proxy, on both sides (server/proxy/udp.go,       *)
(* client/proxy/udp.go, pkg/proto/udp).                                    *)
(***************************************************************************)
(* What the keeper has is nothing while it asks, and the proxy's work      *)
(* connection while it waits.                                              *)
KeeperHolds ==
  /\ keeper.at = "get" => keeper.got = NoWork
  /\ keeper.at = "wait" => keeper.got = workConn
  /\ keeper.at \in {"swap", "wait"} => keeper.got \in SWork
RelayIInv == RelayTypeOK /\ SessionsCounted /\ OneWorkConn /\ KeeperHolds

(* Run has just started the goroutines.                                    *)
LEMMA RelayInitial == RelayInit => RelayIInv
<1> SUFFICES ASSUME RelayInit PROVE RelayIInv OBVIOUS
<1>0. SendCap \in Nat \ {0} BY Zenon, RelayAssumption
<1>1. RelayTypeOK
  <2>1. keeper \in [at : {"get", "swap", "wait", "over"}, got : SWork \cup {NoWork}] BY Zenon DEF RelayInit
  <2>2. wlink \in [SWork -> {"unused", "live", "dead"}] BY Zenon DEF RelayInit
  <2>3. rdr \in [SWork -> {"none", "reading", "notify", "over"}] BY Zenon DEF RelayInit
  <2>4. snd \in [SWork -> {"none", "sending", "over"}] BY Zenon DEF RelayInit
  <2>5. sessions \subseteq SAddr /\ opened \in [SAddr -> Int] /\ ctxDone \subseteq SWork BY DEF RelayInit
  <2>6. sendQ \in 0 .. SendCap BY <1>0 DEF RelayInit
  <2>7. /\ rkind \in RelayKind /\ isClosed \in BOOLEAN /\ workConn \in SWork \cup {NoWork}
        /\ fwd \in {"reading", "sending", "over", "closed", "panic"}
    BY Zenon DEF RelayInit
  <2> QED BY Zenon, <2>1, <2>2, <2>3, <2>4, <2>5, <2>6, <2>7 DEF RelayTypeOK
<1>2. SessionsCounted BY Zenon DEF RelayInit, SessionsCounted
<1>3. OneWorkConn BY Zenon DEF RelayInit, OneWorkConn
<1>4. KeeperHolds BY Zenon DEF RelayInit, KeeperHolds
<1> QED BY Zenon, <1>1, <1>2, <1>3, <1>4 DEF RelayIInv

(* Each session is counted once, whatever ends it.                         *)
LEMMA SessionStep ==
  ASSUME RelayIInv, ForwardUserConn
  PROVE  /\ sessions' \subseteq SAddr /\ opened' \in [SAddr -> Int] /\ SessionsCounted'
         /\ fwd' \in {"reading", "sending", "over", "closed", "panic"} /\ sendQ' \in 0 .. SendCap
         /\ UNCHANGED <<rkind, isClosed, keeper, workConn, wlink, rdr, snd, ctxDone>>
<1>0. SendCap \in Nat \ {0} BY Zenon, RelayAssumption
<1>1. /\ sessions \subseteq SAddr /\ opened \in [SAddr -> Int] /\ sendQ \in 0 .. SendCap /\ isClosed \in BOOLEAN
      /\ fwd \in {"reading", "sending", "over", "closed", "panic"}
      /\ \A a \in SAddr : opened[a] = IF a \in sessions THEN 1 ELSE 0
      /\ fwd \in {"over", "closed"} => sessions = {}
  BY Zenon DEF RelayIInv, RelayTypeOK, SessionsCounted
<1>2. CASE OfferPacket
  <2>1. Queued(sendQ) \in 0 .. SendCap BY <1>0, <1>1 DEF Queued
  <2>2. sendQ' \in 0 .. SendCap BY Zenon, <1>1, <1>2, <2>1 DEF OfferPacket
  <2>3. fwd' \in {"panic", "reading"} /\ sessions' = sessions /\ opened' = opened BY Zenon, <1>2 DEF OfferPacket
  <2>4. SessionsCounted' BY Zenon, <1>1, <2>3 DEF SessionsCounted
  <2> QED BY Zenon, <1>1, <1>2, <2>2, <2>3, <2>4 DEF OfferPacket
<1>3. CASE ForwardEnds
  <2>1. opened' = [a \in SAddr |-> IF a \in sessions THEN opened[a] - 1 ELSE opened[a]] /\ sessions' = {}
    BY Zenon, <1>3 DEF ForwardEnds
  <2>2. \A a \in SAddr : opened'[a] = 0 BY <1>1, <2>1
  <2>3. opened' \in [SAddr -> Int] BY <1>1, <2>1
  <2>4. SessionsCounted' BY Zenon, <2>1, <2>2 DEF SessionsCounted
  <2> QED BY Zenon, <1>1, <1>3, <2>1, <2>3, <2>4 DEF ForwardEnds
<1>4. ASSUME NEW a \in SAddr, ReadFromUDP(a) PROVE
         /\ sessions' \subseteq SAddr /\ opened' \in [SAddr -> Int] /\ SessionsCounted'
         /\ fwd' = "sending" /\ sendQ' = sendQ
         /\ UNCHANGED <<rkind, isClosed, keeper, workConn, wlink, rdr, snd, ctxDone>>
  <2>1. /\ opened' = IF a \in sessions THEN opened ELSE [opened EXCEPT ![a] = opened[a] + 1]
        /\ sessions' = sessions \cup {a} /\ fwd' = "sending"
    BY Zenon, <1>4 DEF ReadFromUDP
  <2>2. opened' \in [SAddr -> Int] BY <1>1, <2>1
  <2>3. \A b \in SAddr : opened'[b] = IF b \in sessions' THEN 1 ELSE 0 BY <1>1, <2>1
  <2>4. SessionsCounted' BY Zenon, <2>1, <2>3 DEF SessionsCounted
  <2> QED BY Zenon, <1>1, <1>4, <2>1, <2>2, <2>4 DEF ReadFromUDP
<1>5. ASSUME NEW a \in SAddr, Janitor(a) PROVE
         /\ sessions' \subseteq SAddr /\ opened' \in [SAddr -> Int] /\ SessionsCounted'
         /\ fwd' = fwd /\ sendQ' = sendQ
         /\ UNCHANGED <<rkind, isClosed, keeper, workConn, wlink, rdr, snd, ctxDone>>
  <2>1. /\ opened' = [opened EXCEPT ![a] = opened[a] - 1] /\ sessions' = sessions \ {a} /\ a \in sessions
        /\ fwd' = fwd
    BY Zenon, <1>5 DEF Janitor, ExpireSession
  <2>2. opened' \in [SAddr -> Int] BY <1>1, <2>1
  <2>3. \A b \in SAddr : opened'[b] = IF b \in sessions' THEN 1 ELSE 0 BY <1>1, <2>1
  <2>4. SessionsCounted' BY Zenon, <1>1, <2>1, <2>3 DEF SessionsCounted
  <2> QED BY Zenon, <1>1, <1>5, <2>1, <2>2, <2>4 DEF Janitor
<1> QED BY Zenon, <1>1, <1>2, <1>3, <1>4, <1>5 DEF ForwardUserConn

(* The keeper never leaves a second work connection open.                  *)
LEMMA KeeperStep ==
  ASSUME RelayIInv, Keep
  PROVE  RelayIInv'
<1>1. /\ keeper \in [at : {"get", "swap", "wait", "over"}, got : SWork \cup {NoWork}]
      /\ workConn \in SWork \cup {NoWork} /\ wlink \in [SWork -> {"unused", "live", "dead"}]
      /\ rdr \in [SWork -> {"none", "reading", "notify", "over"}]
      /\ snd \in [SWork -> {"none", "sending", "over"}] /\ ctxDone \subseteq SWork
      /\ rkind \in RelayKind /\ isClosed \in BOOLEAN
      /\ sendQ \in 0 .. SendCap /\ fwd \in {"reading", "sending", "over", "closed", "panic"}
      /\ sessions \subseteq SAddr /\ opened \in [SAddr -> Int]
  BY Zenon DEF RelayIInv, RelayTypeOK
<1>2. keeper.at \in {"get", "swap", "wait", "over"} /\ keeper.got \in SWork \cup {NoWork} BY Zenon, <1>1
<1>3. /\ keeper.at = "get" => keeper.got = NoWork
      /\ keeper.at = "wait" => keeper.got = workConn
      /\ keeper.at \in {"swap", "wait"} => keeper.got \in SWork
      /\ SessionsCounted
  BY Zenon DEF RelayIInv, KeeperHolds
<1>4. ~isClosed => \A w \in SWork : wlink[w] = "live" => w = workConn \/ w = keeper.got
  BY Zenon DEF RelayIInv, OneWorkConn
<1>n. NoWork \notin SWork BY Zenon, RelayAssumption
(* What the steps have to show.                                            *)
<1>5. ASSUME /\ keeper' \in [at : {"get", "swap", "wait", "over"}, got : SWork \cup {NoWork}]
             /\ workConn' \in SWork \cup {NoWork} /\ wlink' \in [SWork -> {"unused", "live", "dead"}]
             /\ rdr' \in [SWork -> {"none", "reading", "notify", "over"}]
             /\ snd' \in [SWork -> {"none", "sending", "over"}] /\ ctxDone' \subseteq SWork,
             UNCHANGED <<rkind, isClosed, sendQ, fwd, sessions, opened>>,
             keeper'.at = "get" => keeper'.got = NoWork,
             keeper'.at = "wait" => keeper'.got = workConn',
             keeper'.at \in {"swap", "wait"} => keeper'.got \in SWork,
             ~isClosed => \A w \in SWork : wlink'[w] = "live" => w = workConn' \/ w = keeper'.got
      PROVE  RelayIInv'
  <2>1. RelayTypeOK' BY Zenon, <1>1, <1>5 DEF RelayTypeOK
  <2>2. SessionsCounted' BY Zenon, <1>3, <1>5 DEF SessionsCounted
  <2>3. OneWorkConn' BY Zenon, <1>5 DEF OneWorkConn
  <2>4. KeeperHolds' BY Zenon, <1>5 DEF KeeperHolds
  <2> QED BY Zenon, <2>1, <2>2, <2>3, <2>4 DEF RelayIInv
<1>6. ASSUME NEW w \in SWork, GetWorkConn(w) PROVE RelayIInv'
  <2>1. /\ keeper.at = "get" /\ keeper' = [at |-> "swap", got |-> w]
        /\ wlink' = [wlink EXCEPT ![w] = "live"]
        /\ UNCHANGED <<rkind, isClosed, workConn, rdr, snd, ctxDone, sendQ, fwd, sessions, opened>>
    BY Zenon, <1>6 DEF GetWorkConn
  <2>2. keeper'.at = "swap" /\ keeper'.got = w
        /\ keeper' \in [at : {"get", "swap", "wait", "over"}, got : SWork \cup {NoWork}]
    BY Zenon, <2>1
  <2>3. wlink' \in [SWork -> {"unused", "live", "dead"}] BY Zenon, <1>1, <2>1
  <2>4. ~isClosed => \A v \in SWork : wlink'[v] = "live" => v = workConn' \/ v = keeper'.got
    BY Zenon, <1>1, <1>3, <1>4, <1>n, <2>1, <2>2
  <2> QED BY Zenon, <1>1, <1>5, <2>1, <2>2, <2>3, <2>4
<1>7. CASE GetFails
  <2>1. /\ isClosed /\ keeper' = [keeper EXCEPT !.at = "over"]
        /\ UNCHANGED <<rkind, isClosed, workConn, wlink, rdr, snd, ctxDone, sendQ, fwd, sessions, opened>>
    BY Zenon, <1>7 DEF GetFails, SeesClose
  <2>2. keeper'.at = "over" /\ keeper' \in [at : {"get", "swap", "wait", "over"}, got : SWork \cup {NoWork}]
    BY Zenon, <1>1, <2>1
  <2> QED BY Zenon, <1>1, <1>5, <2>1, <2>2
<1>8. CASE UseWorkConn
  <2>1. /\ wlink' = Cut(wlink, workConn) /\ workConn' = keeper.got /\ keeper.at = "swap"
        /\ rdr' = [rdr EXCEPT ![keeper.got] = "reading"] /\ snd' = [snd EXCEPT ![keeper.got] = "sending"]
        /\ keeper' = [keeper EXCEPT !.at = "wait"]
        /\ UNCHANGED <<rkind, isClosed, ctxDone, sendQ, fwd, sessions, opened>>
    BY Zenon, <1>8 DEF UseWorkConn
  <2>2. /\ keeper'.at = "wait" /\ keeper'.got = keeper.got
        /\ keeper' \in [at : {"get", "swap", "wait", "over"}, got : SWork \cup {NoWork}]
    BY Zenon, <1>1, <2>1
  <2>3. /\ wlink' \in [SWork -> {"unused", "live", "dead"}] /\ rdr' \in [SWork -> {"none", "reading", "notify", "over"}]
        /\ snd' \in [SWork -> {"none", "sending", "over"}]
    BY Zenon, <1>1, <2>1 DEF Cut
  <2>4. \A v \in SWork : wlink'[v] = "live" => wlink[v] = "live" /\ v # workConn
    BY Zenon, <1>1, <1>n, <2>1 DEF Cut
  <2>5. ~isClosed => \A v \in SWork : wlink'[v] = "live" => v = workConn' \/ v = keeper'.got
    BY Zenon, <1>4, <2>2, <2>4
  <2>6. keeper.got \in SWork BY Zenon, <1>3, <2>1
  <2> QED BY Zenon, <1>1, <1>2, <1>5, <2>1, <2>2, <2>3, <2>5, <2>6
<1>9. CASE WrapFails
  <2>1. /\ wlink' = Cut(Cut(wlink, workConn), keeper.got)
        /\ keeper' = [at |-> "get", got |-> NoWork]
        /\ UNCHANGED <<rkind, isClosed, workConn, rdr, snd, ctxDone, sendQ, fwd, sessions, opened>>
    BY Zenon, <1>9 DEF WrapFails, GiveUp
  <2>2. /\ keeper'.at = "get" /\ keeper'.got = NoWork
        /\ keeper' \in [at : {"get", "swap", "wait", "over"}, got : SWork \cup {NoWork}]
    BY Zenon, <2>1
  <2>3. /\ wlink' \in [SWork -> {"unused", "live", "dead"}]
        /\ \A v \in SWork : wlink'[v] = "live" => wlink[v] = "live" /\ v # workConn /\ v # keeper.got
    <3>1. /\ Cut(wlink, workConn) \in [SWork -> {"unused", "live", "dead"}]
          /\ \A v \in SWork : Cut(wlink, workConn)[v] = "live" => wlink[v] = "live" /\ v # workConn
      BY <1>1, <1>n DEF Cut
    <3> DEFINE l == Cut(wlink, workConn)
    <3> HIDE DEF l
    <3>2. /\ l \in [SWork -> {"unused", "live", "dead"}] /\ wlink' = Cut(l, keeper.got)
          /\ \A v \in SWork : l[v] = "live" => wlink[v] = "live" /\ v # workConn
      BY Zenon, <2>1, <3>1 DEF l
    <3> QED BY Zenon, <1>n, <3>2 DEF Cut
  <2>4. ~isClosed => \A v \in SWork : wlink'[v] = "live" => v = workConn' \/ v = keeper'.got
    BY Zenon, <1>4, <2>3
  <2> QED BY Zenon, <1>1, <1>5, <2>1, <2>2, <2>3, <2>4
<1>10. CASE WakeByClose
  <2>1. /\ isClosed /\ keeper' = [at |-> "over", got |-> NoWork] /\ ctxDone' = ctxDone \cup {keeper.got}
        /\ keeper.at = "wait" /\ UNCHANGED <<rkind, isClosed, workConn, wlink, rdr, snd, sendQ, fwd, sessions, opened>>
    BY Zenon, <1>10 DEF WakeByClose
  <2>2. keeper'.at = "over" /\ keeper' \in [at : {"get", "swap", "wait", "over"}, got : SWork \cup {NoWork}]
    BY Zenon, <2>1
  <2>3. ctxDone' \subseteq SWork BY Zenon, <1>1, <1>3, <2>1
  <2> QED BY Zenon, <1>1, <1>5, <2>1, <2>2, <2>3
<1>11. ASSUME NEW w \in SWork, WakeByReader(w) PROVE RelayIInv'
  <2>1. /\ keeper' = [at |-> "get", got |-> NoWork] /\ ctxDone' = ctxDone \cup {keeper.got}
        /\ rdr' = [rdr EXCEPT ![w] = "over"] /\ keeper.at = "wait"
        /\ UNCHANGED <<rkind, isClosed, workConn, wlink, snd, sendQ, fwd, sessions, opened>>
    BY Zenon, <1>11 DEF WakeByReader
  <2>2. keeper'.at = "get" /\ keeper'.got = NoWork
        /\ keeper' \in [at : {"get", "swap", "wait", "over"}, got : SWork \cup {NoWork}]
    BY Zenon, <2>1
  <2>3. ctxDone' \subseteq SWork /\ rdr' \in [SWork -> {"none", "reading", "notify", "over"}] BY Zenon, <1>1, <1>3, <2>1
  <2>4. ~isClosed => \A v \in SWork : wlink'[v] = "live" => v = workConn' \/ v = keeper'.got
    BY Zenon, <1>3, <1>4, <2>1
  <2> QED BY Zenon, <1>1, <1>5, <2>1, <2>2, <2>3, <2>4
<1> QED BY Zenon, <1>6, <1>7, <1>8, <1>9, <1>10, <1>11 DEF Keep, KeepOn

(* Readers, senders, clients and Close only cut connections.               *)
LEMMA RelayStep == ASSUME RelayIInv, RelayNext PROVE RelayIInv'
<1>1. /\ keeper \in [at : {"get", "swap", "wait", "over"}, got : SWork \cup {NoWork}]
      /\ workConn \in SWork \cup {NoWork} /\ wlink \in [SWork -> {"unused", "live", "dead"}]
      /\ rdr \in [SWork -> {"none", "reading", "notify", "over"}]
      /\ snd \in [SWork -> {"none", "sending", "over"}] /\ ctxDone \subseteq SWork
      /\ rkind \in RelayKind /\ isClosed \in BOOLEAN
      /\ sendQ \in 0 .. SendCap /\ fwd \in {"reading", "sending", "over", "closed", "panic"}
      /\ sessions \subseteq SAddr /\ opened \in [SAddr -> Int]
  BY DEF RelayIInv, RelayTypeOK
<1>2. KeeperHolds /\ SessionsCounted BY Zenon DEF RelayIInv
<1>3. ~isClosed => \A w \in SWork : wlink[w] = "live" => w \in {workConn, keeper.got}
  BY Zenon DEF RelayIInv, OneWorkConn
<1>4. ASSUME /\ wlink' \in [SWork -> {"unused", "live", "dead"}]
             /\ rdr' \in [SWork -> {"none", "reading", "notify", "over"}]
             /\ snd' \in [SWork -> {"none", "sending", "over"}]
             /\ isClosed' \in BOOLEAN /\ sendQ' \in 0 .. SendCap
             /\ fwd' \in {"reading", "sending", "over", "closed", "panic"},
             UNCHANGED <<rkind, keeper, workConn, ctxDone, sessions, opened>>,
             isClosed => isClosed',
             fwd' = fwd \/ fwd = "over",
             \A w \in SWork : wlink'[w] = "live" => wlink[w] = "live"
      PROVE  RelayIInv'
  <2>1. RelayTypeOK' BY Zenon, <1>1, <1>4 DEF RelayTypeOK
  <2>2. SessionsCounted' BY Zenon, <1>1, <1>2, <1>4 DEF SessionsCounted
  <2>3. OneWorkConn' BY Zenon, <1>1, <1>3, <1>4 DEF OneWorkConn
  <2>4. KeeperHolds' BY Zenon, <1>2, <1>4 DEF KeeperHolds
  <2> QED BY <2>1, <2>2, <2>3, <2>4 DEF RelayIInv
<1>5. CASE UDPKeeper \/ TCPUDPKeeper
  BY Zenon, <1>5, KeeperStep DEF UDPKeeper, TCPUDPKeeper
<1>6. CASE UDPForward \/ TCPUDPForward
  <2>1. ForwardUserConn BY Zenon, <1>6 DEF UDPForward, TCPUDPForward
  <2>2. /\ sessions' \subseteq SAddr /\ opened' \in [SAddr -> Int] /\ SessionsCounted'
        /\ fwd' \in {"reading", "sending", "over", "closed", "panic"} /\ sendQ' \in 0 .. SendCap
        /\ UNCHANGED <<rkind, isClosed, keeper, workConn, wlink, rdr, snd, ctxDone>>
    BY Zenon, <2>1, SessionStep
  <2>3. RelayTypeOK' BY Zenon, <1>1, <2>2 DEF RelayTypeOK
  <2>4. OneWorkConn' BY Zenon, <1>3, <2>2 DEF OneWorkConn
  <2>5. KeeperHolds' BY Zenon, <1>2, <2>2 DEF KeeperHolds
  <2> QED BY Zenon, <2>2, <2>3, <2>4, <2>5 DEF RelayIInv
<1>7. CASE UDPClose \/ TCPUDPClose
  <2>1. CloseRelay BY Zenon, <1>7 DEF UDPClose, TCPUDPClose
  <2>2. /\ isClosed' = TRUE /\ UNCHANGED <<rkind, keeper, workConn, rdr, snd, ctxDone, sendQ, sessions, opened>>
        /\ fwd' = fwd \/ (fwd = "over" /\ fwd' = "closed")
        /\ wlink' = wlink \/ wlink' = Cut(wlink, workConn)
    BY Zenon, <2>1 DEF CloseRelay
  <2>3. /\ Cut(wlink, workConn) \in [SWork -> {"unused", "live", "dead"}]
        /\ \A w \in SWork : Cut(wlink, workConn)[w] = "live" => wlink[w] = "live"
    BY Zenon, <1>1 DEF Cut
  <2>4. /\ wlink' \in [SWork -> {"unused", "live", "dead"}]
        /\ \A w \in SWork : wlink'[w] = "live" => wlink[w] = "live"
    BY Zenon, <1>1, <2>2, <2>3
  <2> QED BY Zenon, <1>1, <1>4, <2>2, <2>4
<1>8. ASSUME NEW w \in SWork, UDPReader(w) \/ TCPUDPReader(w) PROVE RelayIInv'
  <2>1. /\ wlink' = wlink \/ wlink' = [wlink EXCEPT ![w] = "dead"]
        /\ \E r \in {"over", "notify"} : rdr' = [rdr EXCEPT ![w] = r]
        /\ UNCHANGED <<rkind, isClosed, keeper, workConn, snd, ctxDone, sendQ, fwd, sessions, opened>>
    BY Zenon, <1>8 DEF UDPReader, TCPUDPReader, ReadFails, ReadPacket, NotifyPanics, AfterReadError
  <2>2. /\ wlink' \in [SWork -> {"unused", "live", "dead"}]
        /\ \A v \in SWork : wlink'[v] = "live" => wlink[v] = "live"
    BY Zenon, <1>1, <2>1
  <2>3. rdr' \in [SWork -> {"none", "reading", "notify", "over"}] BY Zenon, <1>1, <2>1
  <2> QED BY Zenon, <1>1, <1>4, <2>1, <2>2, <2>3
<1>9. ASSUME NEW w \in SWork, UDPSender(w) \/ TCPUDPSender(w) PROVE RelayIInv'
  <2>1. /\ snd' = snd \/ snd' = [snd EXCEPT ![w] = "over"]
        /\ sendQ' = sendQ \/ (sendQ > 0 /\ sendQ' = sendQ - 1)
        /\ UNCHANGED <<rkind, isClosed, keeper, workConn, wlink, rdr, ctxDone, fwd, sessions, opened>>
    BY Zenon, <1>9 DEF UDPSender, TCPUDPSender, SendPacket, SendEnds
  <2>2. snd' \in [SWork -> {"none", "sending", "over"}] BY Zenon, <1>1, <2>1
  <2>3. SendCap \in Nat BY Zenon, RelayAssumption
  <2>4. sendQ' \in 0 .. SendCap BY <1>1, <2>1, <2>3
  <2> QED BY Zenon, <1>1, <1>4, <2>1, <2>2, <2>4
<1>10. ASSUME NEW w \in SWork, PeerEnds(w) PROVE RelayIInv'
  <2>1. /\ wlink' = [wlink EXCEPT ![w] = "dead"]
        /\ UNCHANGED <<rkind, isClosed, keeper, workConn, rdr, snd, ctxDone, sendQ, fwd, sessions, opened>>
    BY Zenon, <1>10 DEF PeerEnds
  <2>2. /\ wlink' \in [SWork -> {"unused", "live", "dead"}]
        /\ \A v \in SWork : wlink'[v] = "live" => wlink[v] = "live"
    BY Zenon, <1>1, <2>1
  <2> QED BY Zenon, <1>1, <1>4, <2>1, <2>2
<1> QED BY Zenon, <1>5, <1>6, <1>7, <1>8, <1>9, <1>10 DEF RelayNext

(* The udp proxy of frps, for any work connections and users.              *)
LEMMA RelayInvariance == RelaySpec => []RelayIInv
<1>1. RelayIInv /\ [RelayNext]_relayVars => RelayIInv'
  <2> SUFFICES ASSUME RelayIInv, [RelayNext]_relayVars PROVE RelayIInv' OBVIOUS
  <2>1. CASE UNCHANGED relayVars
    BY Zenon, <2>1 DEF RelayIInv, relayVars, RelayTypeOK, SessionsCounted, OneWorkConn, KeeperHolds
  <2> QED BY Zenon, <2>1, RelayStep
<1> QED BY RelayInitial, <1>1, PTL DEF RelaySpec
-----------------------------------------------------------------------------
(* The channels of the current work connection are open until a close is   *)
(* noted.                                                                  *)
CliIInv ==
  /\ CliTypeOK /\ ClosedOnce
  /\ ~cclosed /\ cworkConn # NoCWork => chans[cworkConn] = "open"

(* Close, of whichever caller, closes open channels only.                  *)
LEMMA CloseOnceStep ==
  ASSUME CliIInv, CloseWorkConn
  PROVE  /\ cclosed' = TRUE /\ clink' \in [CWork -> {"live", "dead"}]
         /\ chans' \in [CWork -> {"none", "open", "closed", "closed twice"}]
         /\ \A w \in CWork : chans'[w] # "closed twice"
<1>1. /\ cworkConn \in CWork \cup {NoCWork} /\ clink \in [CWork -> {"live", "dead"}]
      /\ chans \in [CWork -> {"none", "open", "closed", "closed twice"}]
      /\ \A w \in CWork : chans[w] # "closed twice"
      /\ ~cclosed /\ cworkConn # NoCWork => chans[cworkConn] = "open"
  BY Zenon DEF CliIInv, CliTypeOK, ClosedOnce
<1>2. CASE UNCHANGED <<clink, chans>> /\ cclosed' = TRUE BY Zenon, <1>1, <1>2
<1>3. CASE /\ ~cclosed /\ cworkConn # NoCWork /\ cclosed' = TRUE
           /\ clink' = [clink EXCEPT ![cworkConn] = "dead"]
           /\ chans' = [chans EXCEPT ![cworkConn] = IF chans[cworkConn] = "open" THEN "closed" ELSE "closed twice"]
  <2>1. chans[cworkConn] = "open" /\ cworkConn \in CWork BY Zenon, <1>1, <1>3
  <2>2. chans' = [chans EXCEPT ![cworkConn] = "closed"] BY Zenon, <1>3, <2>1
  <2> QED BY Zenon, <1>1, <1>3, <2>1, <2>2
<1> QED BY Zenon, <1>2, <1>3 DEF CloseWorkConn, MayClose

(* The work connections of frpc, for any number of them.                   *)
LEMMA CliInvariance == CliSpec => []CliIInv
<1>1. CliInit => CliIInv
  <2> SUFFICES ASSUME CliInit PROVE CliIInv OBVIOUS
  <2>1. handler \in [CWork -> {"none", "wrap", "start", "over"}] BY Zenon DEF CliInit
  <2>2. chans \in [CWork -> {"none", "open", "closed", "closed twice"}] /\ ClosedOnce BY Zenon DEF CliInit, ClosedOnce
  <2>3. clink \in [CWork -> {"live", "dead"}] BY Zenon DEF CliInit
  <2>4. tasks \in [CWork -> SUBSET Task] /\ uses \in [CWork -> CWork \cup {NoCWork}] BY Zenon DEF CliInit
  <2>5. /\ ckind \in CKind /\ cworkConn = NoCWork /\ cclosed \in BOOLEAN /\ router \in {"none", "open", "closed"}
    BY Zenon DEF CliInit, PERun
  <2> QED BY Zenon, <2>1, <2>2, <2>3, <2>4, <2>5 DEF CliIInv, CliTypeOK
<1>2. CliIInv /\ [CliNext]_cliVars => CliIInv'
  <2> SUFFICES ASSUME CliIInv, [CliNext]_cliVars PROVE CliIInv' OBVIOUS
  <2>1. /\ ckind \in CKind /\ cworkConn \in CWork \cup {NoCWork} /\ cclosed \in BOOLEAN
        /\ handler \in [CWork -> {"none", "wrap", "start", "over"}]
        /\ chans \in [CWork -> {"none", "open", "closed", "closed twice"}]
        /\ clink \in [CWork -> {"live", "dead"}]
        /\ tasks \in [CWork -> SUBSET Task] /\ uses \in [CWork -> CWork \cup {NoCWork}]
        /\ router \in {"none", "open", "closed"}
    BY Zenon DEF CliIInv, CliTypeOK
  <2>2. /\ \A w \in CWork : chans[w] # "closed twice"
        /\ ~cclosed /\ cworkConn # NoCWork => chans[cworkConn] = "open"
    BY Zenon DEF CliIInv, ClosedOnce
  <2>3. ASSUME NEW w \in CWork, InWorkConnArrives(w) PROVE CliIInv'
    <3>1. CloseWorkConn /\ handler' = [handler EXCEPT ![w] = "wrap"] /\ UNCHANGED <<ckind, cworkConn, tasks, uses, router>>
      BY Zenon, <2>3 DEF InWorkConnArrives, UDPInWorkConn, TCPUDPInWorkConn, PEInWorkConn
    <3>2. handler' \in [CWork -> {"none", "wrap", "start", "over"}] BY Zenon, <2>1, <3>1
    <3>3. /\ cclosed' = TRUE /\ clink' \in [CWork -> {"live", "dead"}]
          /\ chans' \in [CWork -> {"none", "open", "closed", "closed twice"}]
          /\ \A v \in CWork : chans'[v] # "closed twice"
      BY Zenon, <3>1, CloseOnceStep
    <3> QED BY Zenon, <2>1, <3>1, <3>2, <3>3 DEF CliIInv, CliTypeOK, ClosedOnce
  <2>4. ASSUME NEW w \in CWork, WrapWorkConnFails(w) \/ StartTasks(w) PROVE CliIInv'
    <3>1. /\ handler' = [handler EXCEPT ![w] = "over"] /\ UNCHANGED <<ckind, cworkConn, cclosed, chans, clink, router>>
          /\ tasks' = tasks \/ tasks' = [tasks EXCEPT ![w] = Task]
          /\ uses' = uses \/ uses' = [uses EXCEPT ![w] = cworkConn]
      BY Zenon, <2>4 DEF WrapWorkConnFails, StartTasks
    <3>2. handler' \in [CWork -> {"none", "wrap", "start", "over"}] BY Zenon, <2>1, <3>1
    <3>3. tasks' \in [CWork -> SUBSET Task]
      <4>1. Task \in SUBSET Task BY Zenon
      <4> QED BY Zenon, <2>1, <3>1, <4>1
    <3>4. uses' \in [CWork -> CWork \cup {NoCWork}] BY Zenon, <2>1, <3>1
    <3> QED BY Zenon, <2>1, <2>2, <3>1, <3>2, <3>3, <3>4 DEF CliIInv, CliTypeOK, ClosedOnce
  <2>5. ASSUME NEW w \in CWork, Install(w) PROVE CliIInv'
    <3>1. /\ handler' = [handler EXCEPT ![w] = "start"] /\ cworkConn' = w /\ cclosed' = FALSE
          /\ chans' = [chans EXCEPT ![w] = "open"] /\ UNCHANGED <<ckind, clink, tasks, uses, router>>
      BY Zenon, <2>5 DEF Install
    <3>2. handler' \in [CWork -> {"none", "wrap", "start", "over"}] BY Zenon, <2>1, <3>1
    <3>3. /\ chans' \in [CWork -> {"none", "open", "closed", "closed twice"}] /\ chans'[w] = "open"
          /\ \A v \in CWork : chans'[v] # "closed twice"
      BY Zenon, <2>1, <2>2, <3>1
    <3> QED BY Zenon, <2>1, <3>1, <3>2, <3>3 DEF CliIInv, CliTypeOK, ClosedOnce
  <2>6. ASSUME NEW w \in CWork, PeerCuts(w) \/ \E t \in Task : TaskEnds(w, t) PROVE CliIInv'
    <3>1. /\ UNCHANGED <<ckind, cworkConn, cclosed, handler, chans, uses, router>>
          /\ clink' = clink \/ clink' = [clink EXCEPT ![w] = "dead"]
          /\ tasks' = tasks \/ \E t \in Task : tasks' = [tasks EXCEPT ![w] = tasks[w] \ {t}]
      BY Zenon, <2>6 DEF PeerCuts, TaskEnds
    <3>2. clink' \in [CWork -> {"live", "dead"}] BY Zenon, <2>1, <3>1
    <3>3. tasks' \in [CWork -> SUBSET Task]
      <4>1. \A t \in Task : tasks[w] \ {t} \in SUBSET Task BY Zenon, <2>1
      <4>2. CASE tasks' = tasks BY Zenon, <2>1, <4>2
      <4>3. ASSUME NEW t \in Task, tasks' = [tasks EXCEPT ![w] = tasks[w] \ {t}]
            PROVE  tasks' \in [CWork -> SUBSET Task]
        <5> DEFINE r == tasks[w] \ {t}
        <5>1. r \in SUBSET Task /\ tasks' = [tasks EXCEPT ![w] = r] BY Zenon, <4>1, <4>3
        <5> HIDE DEF r
        <5> QED BY Zenon, <2>1, <5>1
      <4> QED BY Zenon, <3>1, <4>2, <4>3
    <3> QED BY Zenon, <2>1, <2>2, <3>1, <3>2, <3>3 DEF CliIInv, CliTypeOK, ClosedOnce
  <2>7. CASE CloseProxyRelay
    <3>1. CloseWorkConn /\ router' \in {router, "closed"} /\ UNCHANGED <<ckind, cworkConn, handler, tasks, uses>>
      BY Zenon, <2>7 DEF CloseProxyRelay, UDPProxyClose, TCPUDPProxyClose, PEProxyClose
    <3>2. /\ cclosed' = TRUE /\ clink' \in [CWork -> {"live", "dead"}]
          /\ chans' \in [CWork -> {"none", "open", "closed", "closed twice"}]
          /\ \A v \in CWork : chans'[v] # "closed twice"
      BY Zenon, <3>1, CloseOnceStep
    <3> QED BY Zenon, <2>1, <3>1, <3>2 DEF CliIInv, CliTypeOK, ClosedOnce
  <2>8. CASE UNCHANGED cliVars BY Zenon, <2>1, <2>2, <2>8 DEF CliIInv, cliVars, CliTypeOK, ClosedOnce
  <2> QED BY Zenon, <2>3, <2>4, <2>5, <2>6, <2>7, <2>8 DEF CliNext
<1> QED BY <1>1, <1>2, PTL DEF CliSpec
-----------------------------------------------------------------------------
(* A socket that is new has no writer, and the one just dialled gets its   *)
(* first.                                                                  *)
FwdIInv ==
  /\ FwdTypeOK /\ EntryHasWriter
  /\ \A s \in FSock : sock[s] = "new" => writer[s].at = "none"
  /\ loop.fresh => /\ loop.at = "write" /\ loop.sock \in FSock /\ loop.addr \in FAddr
                   /\ writer[loop.sock].at = "none" /\ sock[loop.sock] # "new"

(* The Forwarder of frpc, for any users and sockets.                       *)
LEMMA FwdInvariance == FwdSpec => []FwdIInv
<1> DEFINE Writers == [at : {"none", "reading", "expired", "deleted", "over"}, addr : FAddr \cup {NoSock}]
           Loops == [at : {"recv", "write", "over"}, addr : FAddr \cup {NoSock},
                     sock : FSock \cup {NoSock}, fresh : BOOLEAN]
<1>1. FwdInit => FwdIInv
  <2> SUFFICES ASSUME FwdInit PROVE FwdIInv OBVIOUS
  <2>1. loop \in Loops /\ ~loop.fresh BY Zenon DEF FwdInit, Idle
  <2>2. writer \in [FSock -> Writers] /\ \A s \in FSock : writer[s].at = "none" BY Zenon DEF FwdInit
  <2>3. udpConnMap \in [FAddr -> FSock \cup {NoSock}] /\ \A a \in FAddr : udpConnMap[a] = NoSock BY Zenon DEF FwdInit
  <2>4. sock \in [FSock -> {"new", "open", "closed"}] /\ fopen \in BOOLEAN BY Zenon DEF FwdInit
  <2> QED BY Zenon, <2>1, <2>2, <2>3, <2>4 DEF FwdIInv, FwdTypeOK, EntryHasWriter
<1>2. FwdIInv /\ [FwdNext]_fwdVars => FwdIInv'
  <2> SUFFICES ASSUME FwdIInv, [FwdNext]_fwdVars PROVE FwdIInv' OBVIOUS
  <2>1. /\ fopen \in BOOLEAN /\ udpConnMap \in [FAddr -> FSock \cup {NoSock}]
        /\ sock \in [FSock -> {"new", "open", "closed"}] /\ writer \in [FSock -> Writers] /\ loop \in Loops
    BY Zenon DEF FwdIInv, FwdTypeOK
  <2>2. \A a \in FAddr : udpConnMap[a] # NoSock =>
          \/ writer[udpConnMap[a]].at \in {"reading", "expired"} /\ writer[udpConnMap[a]].addr = a
          \/ loop.fresh /\ loop.sock = udpConnMap[a] /\ loop.addr = a
    BY Zenon DEF FwdIInv, EntryHasWriter
  <2>3. /\ \A s \in FSock : sock[s] = "new" => writer[s].at = "none"
        /\ loop.fresh => /\ loop.at = "write" /\ loop.sock \in FSock /\ loop.addr \in FAddr
                         /\ writer[loop.sock].at = "none" /\ sock[loop.sock] # "new"
    BY Zenon DEF FwdIInv
  <2>4. /\ loop.at \in {"recv", "write", "over"} /\ loop.addr \in FAddr \cup {NoSock}
        /\ loop.sock \in FSock \cup {NoSock} /\ loop.fresh \in BOOLEAN
    BY Zenon, <2>1
  <2>5. \A s \in FSock : /\ writer[s] \in Writers /\ writer[s].addr \in FAddr \cup {NoSock}
                         /\ writer[s].at \in {"none", "reading", "expired", "deleted", "over"}
    BY Zenon, <2>1
  (* What the steps have to show.                                          *)
  <2>6. ASSUME fopen' \in BOOLEAN, udpConnMap' \in [FAddr -> FSock \cup {NoSock}],
               sock' \in [FSock -> {"new", "open", "closed"}], writer' \in [FSock -> Writers], loop' \in Loops,
               \A a \in FAddr : udpConnMap'[a] # NoSock =>
                  \/ writer'[udpConnMap'[a]].at \in {"reading", "expired"} /\ writer'[udpConnMap'[a]].addr = a
                  \/ loop'.fresh /\ loop'.sock = udpConnMap'[a] /\ loop'.addr = a,
               \A s \in FSock : sock'[s] = "new" => writer'[s].at = "none",
               loop'.fresh => /\ loop'.at = "write" /\ loop'.sock \in FSock /\ loop'.addr \in FAddr
                              /\ writer'[loop'.sock].at = "none" /\ sock'[loop'.sock] # "new"
        PROVE  FwdIInv'
    <3>1. FwdTypeOK' BY Zenon, <2>6 DEF FwdTypeOK
    <3>2. EntryHasWriter'
      <4> SUFFICES ASSUME NEW a \in FAddr, udpConnMap'[a] # NoSock
                   PROVE  \/ writer'[udpConnMap'[a]] \in [at : {"reading", "expired"}, addr : {a}]
                          \/ loop'.fresh /\ loop'.sock = udpConnMap'[a] /\ loop'.addr = a
        BY Zenon DEF EntryHasWriter
      <4>1. udpConnMap'[a] \in FSock BY Zenon, <2>6
      <4>2. writer'[udpConnMap'[a]] \in Writers BY Zenon, <2>6, <4>1
      <4> QED BY Zenon, <2>6, <4>2
    <3> QED BY Zenon, <2>6, <3>1, <3>2 DEF FwdIInv
  <2>7. ASSUME NEW a \in FAddr, FindSocket(a) PROVE FwdIInv'
    <3>1. /\ loop.at = "recv" /\ udpConnMap[a] # NoSock
          /\ loop' = [at |-> "write", addr |-> a, sock |-> udpConnMap[a], fresh |-> FALSE]
          /\ UNCHANGED <<fopen, udpConnMap, sock, writer>>
      BY Zenon, <2>7 DEF FindSocket
    <3>2. loop' \in Loops /\ ~loop'.fresh BY Zenon, <2>1, <3>1
    <3>3. ~loop.fresh BY Zenon, <2>3, <3>1
    <3> HIDE DEF Loops, Writers
    <3> QED BY Zenon, <2>1, <2>2, <2>3, <2>6, <3>1, <3>2, <3>3
  <2>8. ASSUME NEW a \in FAddr, NEW s \in FSock, DialSocket(a, s) PROVE FwdIInv'
    <3>1. /\ loop.at = "recv" /\ sock[s] = "new"
          /\ sock' = [sock EXCEPT ![s] = "open"] /\ udpConnMap' = [udpConnMap EXCEPT ![a] = s]
          /\ loop' = [at |-> "write", addr |-> a, sock |-> s, fresh |-> TRUE]
          /\ UNCHANGED <<fopen, writer>>
      BY Zenon, <2>8 DEF DialSocket
    <3>2. loop' \in Loops /\ loop'.fresh /\ loop'.sock = s /\ loop'.addr = a /\ loop'.at = "write" BY Zenon, <3>1
    <3>3. ~loop.fresh BY Zenon, <2>3, <3>1
    <3>4. writer[s].at = "none" BY Zenon, <2>3, <3>1
    <3> HIDE DEF Loops, Writers
    <3>5. sock' \in [FSock -> {"new", "open", "closed"}] /\ udpConnMap' \in [FAddr -> FSock \cup {NoSock}]
      BY Zenon, <2>1, <3>1
    <3>6. \A b \in FAddr : udpConnMap'[b] # NoSock =>
                  \/ writer'[udpConnMap'[b]].at \in {"reading", "expired"} /\ writer'[udpConnMap'[b]].addr = b
                  \/ loop'.fresh /\ loop'.sock = udpConnMap'[b] /\ loop'.addr = b
      BY Zenon, <2>1, <2>2, <3>1, <3>2, <3>3
    <3>7. \A t \in FSock : sock'[t] = "new" => writer'[t].at = "none" BY Zenon, <2>1, <2>3, <3>1
    <3>8. sock'[s] = "open" BY Zenon, <2>1, <3>1
    <3> QED BY Zenon, <2>1, <2>6, <3>1, <3>2, <3>4, <3>5, <3>6, <3>7, <3>8
  <2>9. ASSUME NEW ok \in BOOLEAN, WriteLocal(ok) PROVE FwdIInv'
    <3>1. /\ loop.at = "write" /\ (sock' = sock \/ sock' = [sock EXCEPT ![loop.sock] = "closed"])
          /\ writer' = IF loop.fresh THEN [writer EXCEPT ![loop.sock] = [at |-> "reading", addr |-> loop.addr]]
                       ELSE writer
          /\ loop' = Idle /\ UNCHANGED <<fopen, udpConnMap>>
      BY Zenon, <2>9 DEF WriteLocal, NeedsWriter
    <3>2. loop' \in Loops /\ ~loop'.fresh BY Zenon, <3>1 DEF Idle
    <3>3. sock' \in [FSock -> {"new", "open", "closed"}] /\ \A t \in FSock : sock'[t] = "new" => sock[t] = "new"
      BY Zenon, <2>1, <3>1
    <3>4. CASE loop.fresh
      <4> DEFINE r == [at |-> "reading", addr |-> loop.addr]
      <4>1. r \in Writers /\ r.at = "reading" /\ r.addr = loop.addr BY Zenon, <2>4
      <4>2. writer' = [writer EXCEPT ![loop.sock] = r] BY Zenon, <3>1, <3>4
      <4> HIDE DEF Loops, Writers, r
      <4>3. loop.sock \in FSock /\ writer[loop.sock].at = "none" /\ sock[loop.sock] # "new" BY Zenon, <2>3, <3>4
      <4>4. writer' \in [FSock -> Writers] BY Zenon, <2>1, <4>1, <4>2
      <4>5. writer'[loop.sock] = r /\ \A t \in FSock : t # loop.sock => writer'[t] = writer[t] BY Zenon, <2>1, <4>2, <4>3
      <4>6. ASSUME NEW b \in FAddr, udpConnMap'[b] # NoSock
            PROVE  writer'[udpConnMap'[b]].at \in {"reading", "expired"} /\ writer'[udpConnMap'[b]].addr = b
        <5>1. udpConnMap'[b] = udpConnMap[b] /\ udpConnMap[b] \in FSock BY Zenon, <2>1, <3>1, <4>6
        <5>2. CASE udpConnMap[b] = loop.sock
          <6>1. loop.addr = b BY Zenon, <2>2, <4>3, <4>6, <5>1, <5>2
          <6> QED BY Zenon, <4>1, <4>5, <5>1, <5>2, <6>1
        <5>3. CASE udpConnMap[b] # loop.sock BY <2>2, <4>5, <4>6, <5>1, <5>3
        <5> QED BY Zenon, <5>2, <5>3
      <4>7. \A t \in FSock : sock'[t] = "new" => writer'[t].at = "none" BY Zenon, <2>3, <3>3, <4>3, <4>5
      <4> QED BY Zenon, <2>1, <2>6, <3>1, <3>2, <3>3, <4>4, <4>6, <4>7
    <3>5. CASE ~loop.fresh
      <4>1. writer' = writer /\ udpConnMap' = udpConnMap BY Zenon, <3>1, <3>5
      <4> HIDE DEF Loops, Writers
      <4> QED BY Zenon, <2>1, <2>2, <2>3, <2>6, <3>1, <3>2, <3>3, <3>5, <4>1
    <3> QED BY Zenon, <3>4, <3>5
  <2>10. CASE FwdLoopEnds \/ CloseChannels
    <3>1. /\ UNCHANGED <<udpConnMap, sock, writer>> /\ fopen' \in BOOLEAN
          /\ loop' = loop \/ (loop.at = "recv" /\ loop' = [loop EXCEPT !.at = "over"])
      BY Zenon, <2>1, <2>10 DEF FwdLoopEnds, CloseChannels
    <3>2. /\ loop' \in Loops /\ loop'.fresh = loop.fresh /\ loop'.sock = loop.sock /\ loop'.addr = loop.addr
          /\ loop.fresh => loop'.at = loop.at
      BY Zenon, <2>1, <2>3, <3>1
    <3> HIDE DEF Loops, Writers
    <3> QED BY Zenon, <2>1, <2>2, <2>3, <2>6, <3>1, <3>2
  <2>11. ASSUME NEW s \in FSock, Writer(s) PROVE FwdIInv'
    <3>1. \E at \in {"expired", "deleted", "over"} : writer' = [writer EXCEPT ![s].at = at]
      BY Zenon, <2>11 DEF Writer, WriterStops, DeleteEntry, CloseSocket
    <3>2. /\ writer' \in [FSock -> Writers] /\ writer'[s].addr = writer[s].addr
          /\ writer'[s].at \in {"expired", "deleted", "over"}
          /\ \A t \in FSock : t # s => writer'[t] = writer[t]
      BY <2>1, <2>5, <3>1
    <3>3. writer[s].at \in {"reading", "expired", "deleted"} /\ UNCHANGED <<fopen, loop>>
      BY Zenon, <2>11 DEF Writer, WriterStops, DeleteEntry, CloseSocket
    <3>4. loop.fresh => loop.sock # s BY Zenon, <2>3, <3>3
    <3>5. sock' \in [FSock -> {"new", "open", "closed"}] /\ \A t \in FSock : sock'[t] = "new" => sock[t] = "new"
      BY Zenon, <2>1, <2>11 DEF Writer, WriterStops, DeleteEntry, CloseSocket
    <3>6. udpConnMap' \in [FAddr -> FSock \cup {NoSock}]
      BY Zenon, <2>1, <2>11 DEF Writer, WriterStops, DeleteEntry, CloseSocket
    <3> HIDE DEF Loops, Writers
    <3>7. \A t \in FSock : sock'[t] = "new" => writer'[t].at = "none" BY Zenon, <2>3, <3>2, <3>3, <3>5
    <3>8. /\ \A b \in FAddr : udpConnMap'[b] # NoSock => udpConnMap'[b] = udpConnMap[b]
          /\ (\A b \in FAddr : udpConnMap'[b] # NoSock => udpConnMap'[b] # s) \/ writer'[s].at = "expired"
      <4>1. CASE WriterStops(s)
        BY Zenon, <2>1, <4>1 DEF WriterStops, Writers
      <4>2. CASE DeleteEntry(s)
        <5>1. udpConnMap' = [udpConnMap EXCEPT ![writer[s].addr] = NoSock] /\ writer[s].at = "expired"
          BY Zenon, <4>2 DEF DeleteEntry
        <5>2. \A b \in FAddr : udpConnMap'[b] # NoSock => udpConnMap'[b] = udpConnMap[b] /\ b # writer[s].addr
          BY Zenon, <2>1, <5>1
        <5>3. \A b \in FAddr : udpConnMap'[b] # NoSock => udpConnMap'[b] # s BY <2>2, <3>4, <5>2
        <5> QED BY Zenon, <5>2, <5>3
      <4>3. CASE CloseSocket(s)
        <5>1. writer[s].at = "deleted" /\ udpConnMap' = udpConnMap BY Zenon, <4>3 DEF CloseSocket
        <5>2. \A b \in FAddr : udpConnMap[b] # NoSock => udpConnMap[b] # s BY Zenon, <2>2, <3>4, <5>1
        <5> QED BY Zenon, <5>1, <5>2
      <4> QED BY Zenon, <2>11, <4>1, <4>2, <4>3 DEF Writer
    <3>9. ASSUME NEW b \in FAddr, udpConnMap'[b] # NoSock
          PROVE  \/ writer'[udpConnMap'[b]].at \in {"reading", "expired"} /\ writer'[udpConnMap'[b]].addr = b
                 \/ loop'.fresh /\ loop'.sock = udpConnMap'[b] /\ loop'.addr = b
      <4>1. udpConnMap'[b] = udpConnMap[b] /\ udpConnMap[b] \in FSock BY Zenon, <2>1, <3>8, <3>9
      <4>2. CASE udpConnMap[b] = s BY Zenon, <2>2, <3>2, <3>4, <3>8, <3>9, <4>1, <4>2
      <4>3. CASE udpConnMap[b] # s BY <2>2, <3>2, <3>3, <3>9, <4>1, <4>3
      <4> QED BY Zenon, <4>2, <4>3
    <3>10. loop'.fresh => /\ loop'.at = "write" /\ loop'.sock \in FSock /\ loop'.addr \in FAddr
                          /\ writer'[loop'.sock].at = "none" /\ sock'[loop'.sock] # "new"
      BY Zenon, <2>3, <3>2, <3>3, <3>4, <3>5
    <3> QED BY Zenon, <2>1, <2>6, <3>2, <3>3, <3>5, <3>6, <3>7, <3>9, <3>10
  <2>12. CASE UNCHANGED fwdVars
    BY Zenon, <2>12 DEF FwdIInv, fwdVars, FwdTypeOK, EntryHasWriter
  <2> QED BY Zenon, <2>7, <2>8, <2>9, <2>10, <2>11, <2>12 DEF FwdNext, LoopStep
<1> QED BY <1>1, <1>2, PTL DEF FwdSpec

(* On the way of a datagram, for any work connections, users, sockets and  *)
(* capacity: sessions are counted once, one work connection is live, an    *)
(* entry of udpConnMap has a writer, and no channel is closed twice        *)
(* (server/proxy/udp.go, client/proxy/udp.go, pkg/proto/udp/udp.go).       *)
THEOREM DatagramSafe ==
  RelaySpec /\ CliSpec /\ FwdSpec => []DatagramsSafe
<1>1. RelayIInv /\ CliIInv /\ FwdIInv => DatagramsSafe
  BY Zenon DEF RelayIInv, CliIInv, FwdIInv, DatagramsSafe
<1> QED BY <1>1, RelayInvariance, CliInvariance, FwdInvariance, PTL
=============================================================================

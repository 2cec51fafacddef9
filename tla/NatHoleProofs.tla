--------------------------- MODULE NatHoleProofs ---------------------------
(***************************************************************************)
(* NAT traversal (pkg/nathole), for any STUN servers, addresses, rounds    *)
(* and sockets: the addresses found are answers to the requests they are   *)
(* taken for, the advice suits the NATs, both sides are there before a     *)
(* hole is made, nobody keeps a socket, and the two sides of a hole agree. *)
(***************************************************************************)
EXTENDS NatHoleAnalysis, NatHoleExchange, MakeHole, WellFoundedInduction, FiniteSetTheorems, TLAPS

-----------------------------------------------------------------------------
(***************************************************************************)
(* Numbers, features and the ranges of ports.                              *)
(***************************************************************************)

(* A set of numbers that is not empty has a least one.                     *)
LEMMA LeastNatural ==
  ASSUME NEW T \in SUBSET Nat, T # {}
  PROVE  \E n \in T : \A m \in T : n <= m
<1> DEFINE R == {ss \in Nat \X Nat : ss[1] < ss[2]}
<1>1. IsWellFoundedOn(R, Nat) BY Zenon, NatLessThanWellFounded DEF OpToRel
<1>2. \A m, n \in Nat : <<m, n>> \in R <=> m < n BY Zenon
<1> HIDE DEF R
<1>3. PICK n \in T : \A m \in T : <<m, n>> \notin R BY Zenon, <1>1, WFMin
<1>4. n \in Nat /\ \A m \in T : m \in Nat /\ ~(m < n) BY Zenon, <1>2, <1>3
<1> QED BY <1>4

(* Min and Max are what they say when there is a least or greatest number. *)
LEMMA MinIs ==
  ASSUME NEW S, NEW x \in S, \A y \in S : x <= y
  PROVE  Min(S) \in S /\ \A y \in S : Min(S) <= y
BY Zenon DEF Min

(* The same of the greatest.                                               *)
LEMMA MaxIs ==
  ASSUME NEW S, NEW x \in S, \A y \in S : x >= y
  PROVE  Max(S) \in S /\ \A y \in S : Max(S) >= y
BY Zenon DEF Max

(* Of three numbers, both exist.                                           *)
LEMMA OfThree ==
  ASSUME NEW a \in Int, NEW b \in Int, NEW c \in Int
  PROVE  /\ Max({a, b, c}) \in {a, b, c} /\ Max({a, b, c}) >= a /\ Max({a, b, c}) >= b /\ Max({a, b, c}) >= c
         /\ Min({a, b, c}) \in {a, b, c} /\ Min({a, b, c}) <= a /\ Min({a, b, c}) <= b /\ Min({a, b, c}) <= c
<1> DEFINE S == {a, b, c}
<1>1. \E x \in S : \A y \in S : x >= y OBVIOUS
<1>2. \E x \in S : \A y \in S : x <= y OBVIOUS
<1>3. Max(S) \in S /\ \A y \in S : Max(S) >= y BY Zenon, <1>1, MaxIs
<1>4. Min(S) \in S /\ \A y \in S : Min(S) <= y BY Zenon, <1>2, MinIs
<1> QED BY Zenon, <1>3, <1>4

(* The ports begin at 1.                                                   *)
LEMMA LastPortFact == LastPort \in Nat \ {0}
BY SMT DEF LastPort

(* So do they for the ports of a list of addresses that is not empty.      *)
LEMMA PortsSpan ==
  ASSUME NEW list \in AddrLists, Len(list) > 1
  PROVE  Max(Ports(list)) - Min(Ports(list)) \in Nat
<1> DEFINE S == Ports(list)
<1> USE LastPortFact
<1>1. S \subseteq 1 .. LastPort /\ list[1][2] \in S BY DEF AddrLists, Ports
<1>2. \E x \in S : \A y \in S : x <= y BY <1>1, LeastNatural
<1>3. \E x \in S : \A y \in S : x >= y
  <2> DEFINE T == {LastPort - y : y \in S}
  <2>1. T \in SUBSET Nat /\ T # {} BY <1>1
  <2>2. PICK t \in T : \A u \in T : t <= u BY Zenon, <2>1, LeastNatural
  <2>3. PICK x \in S : t = LastPort - x BY Zenon, <2>2
  <2>4. \A y \in S : LastPort - y \in T BY Zenon
  <2>5. \A y \in S : t <= LastPort - y BY Zenon, <2>2, <2>4
  <2>6. \A y \in S : x >= y BY <1>1, <2>3, <2>5
  <2> QED BY Zenon, <2>6
<1> HIDE DEF S
<1>4. Min(S) \in S /\ \A y \in S : Min(S) <= y BY Zenon, <1>2, MinIs
<1>5. Max(S) \in S /\ \A y \in S : Max(S) >= y BY Zenon, <1>3, MaxIs
<1>6. Max(S) \in Int /\ Min(S) \in Int
  <2>1. S \subseteq Int BY <1>1
  <2> QED BY Zenon, <1>4, <1>5, <2>1
<1>7. Max(S) >= Min(S) BY Zenon, <1>4, <1>5
<1> QED BY <1>6, <1>7 DEF S

(* What ClassifyNATFeature says of a list of addresses.                    *)
LEMMA FeatureFacts ==
  ASSUME NEW list \in AddrLists
  PROVE  /\ ClassifyNATFeature(list).type \in {"none", "easy", "hard"}
         /\ ClassifyNATFeature(list).difference \in Nat
         /\ ClassifyNATFeature(list).regular \in BOOLEAN /\ ClassifyNATFeature(list).public \in BOOLEAN
<1>1. CASE Len(list) <= 1 BY Zenon, <1>1 DEF ClassifyNATFeature
<1>2. CASE ~(Len(list) <= 1)
  <2>1. Len(list) \in Nat BY DEF AddrLists
  <2>2. Max(Ports(list)) - Min(Ports(list)) \in Nat BY <1>2, <2>1, PortsSpan
  <2> DEFINE d == Max(Ports(list)) - Min(Ports(list))
  <2>3. d \in Nat BY Zenon, <2>2
  <2>4. ClassifyNATFeature(list) =
          LET ip == Cardinality(IPs(list)) > 1
              port == Cardinality(Ports(list)) > 1
          IN  [type |-> IF ip \/ port THEN "hard" ELSE "easy", difference |-> IF port /\ ~ip THEN d ELSE 0,
               regular |-> port /\ ~ip /\ Regular(list), public |-> IPs(list) \cap LocalIP # {}]
    BY Zenon, <1>2 DEF ClassifyNATFeature
  <2> HIDE DEF d
  <2> QED BY <2>3, <2>4 DEF Regular
<1> QED BY Zenon, <1>1, <1>2

(* The ports to guess around the last one of a list hold it.               *)
LEMMA RangeHolds ==
  ASSUME NEW list \in AddrLists, NEW d \in Nat, NEW n \in Nat
  PROVE  HoldsLast(GetRangePorts(list, d, n), list)
<1>1. CASE n <= 0 \/ list = <<>> BY Zenon, <1>1 DEF HoldsLast, GetRangePorts
<1>2. CASE ~(n <= 0 \/ list = <<>>)
  <2> DEFINE p == list[Len(list)][2]
             lo == Max({p - d - 5, p - n, 1})
             hi == Min({p + d + 5, p + n, LastPort})
  <2> USE LastPortFact
  <2>1. p \in 1 .. LastPort BY <1>2 DEF AddrLists
  <2>2. GetRangePorts(list, d, n) = <<lo, hi>> BY Zenon, <1>2 DEF GetRangePorts, Around
  <2> HIDE DEF p
  <2>3. lo \in {p - d - 5, p - n, 1} /\ lo >= 1 BY <2>1, OfThree
  <2>4. hi \in {p + d + 5, p + n, LastPort} /\ hi <= LastPort
    <3>1. p + d + 5 \in Int /\ p + n \in Int /\ LastPort \in Int BY <2>1
    <3>2. hi \in {p + d + 5, p + n, LastPort} BY Zenon, <3>1, OfThree
    <3>3. hi <= LastPort BY Zenon, <3>1, OfThree
    <3> QED BY Zenon, <3>2, <3>3
  <2> HIDE DEF lo, hi
  <2>5. 1 <= lo /\ hi <= LastPort /\ p \in lo .. hi BY <1>2, <2>1, <2>3, <2>4
  <2> QED BY <2>2, <2>5 DEF HoldsLast, p
<1> QED BY Zenon, <1>1, <1>2

(***************************************************************************)
(* Discover: replies and requests.                                         *)
(***************************************************************************)
(* Without repeated replies, nothing is under way when a request is sent,  *)
(* and at most its own reply while it is waited for.                       *)
NothingUnderWay == replies = {} /\ readLoop.at # "holds" /\ messageChan.q = <<>>
OneUnderWay ==
  \/ replies \subseteq {<<request, 1>>} /\ readLoop.at # "holds" /\ messageChan.q = <<>>
  \/ replies = {} /\ readLoop.at = "holds" /\ readLoop.reply = request /\ messageChan.q = <<>>
  \/ replies = {} /\ readLoop.at # "holds" /\ messageChan.q = <<request>>
StunIInv ==
  /\ dups \in BOOLEAN /\ request \in Nat /\ replies \in SUBSET (Nat \X {1, 2})
  /\ messageChan \in [open : BOOLEAN, q : Seq(Nat)]
  /\ readLoop \in [at : {"idle", "holds", "over", "panics", "stuck"}, reply : Nat]
  /\ addresses \in Seq([asked : Nat, got : Nat])
  /\ ~dups /\ discover = "send" => NothingUnderWay
  /\ ~dups /\ discover = "wait" => OneUnderWay
  /\ RepliesMatch

(* Every step of Discover and of its read loop keeps this.                 *)
LEMMA StunStep == ASSUME StunIInv, StunNext PROVE StunIInv'
<1> USE DEF StunIInv, NothingUnderWay, OneUnderWay, RepliesMatch
<1>1. CASE DoSTUNRequest
  <2>1. ~dups => replies' = {<<request', 1>>} BY <1>1 DEF DoSTUNRequest
  <2> QED BY <1>1, <2>1 DEF DoSTUNRequest
<1>2. CASE TakeReply
  <2> DEFINE a == [asked |-> request, got |-> Head(messageChan.q)]
  <2>1. /\ discover = "wait" /\ messageChan.q \in Seq(Nat) /\ messageChan.q # <<>>
        /\ discover' # "wait" /\ dups' = dups /\ request' = request /\ replies' = replies /\ readLoop' = readLoop
        /\ messageChan'.q = Tail(messageChan.q)
    BY Zenon, <1>2 DEF TakeReply
  <2>2. ~dups => messageChan.q = <<request>> /\ replies = {} /\ readLoop.at # "holds" BY Zenon, <2>1
  <2>3. Head(messageChan.q) \in Nat /\ Tail(messageChan.q) \in Seq(Nat) BY <2>1
  <2>4. messageChan' \in [open : BOOLEAN, q : Seq(Nat)] BY Zenon, <1>2, <2>3 DEF TakeReply
  <2>5. a \in [asked : Nat, got : Nat] BY Zenon, <2>3
  <2>6. addresses' = Append(addresses, a) BY Zenon, <1>2 DEF TakeReply
  <2>7. ~dups => a.asked = a.got
    <3>1. ~dups => Head(messageChan.q) = request BY <2>2
    <3> QED BY Zenon, <3>1
  <2> HIDE DEF a
  <2>8. addresses' \in Seq([asked : Nat, got : Nat]) BY <2>5, <2>6
  <2>9. RepliesMatch' BY <2>1, <2>5, <2>6, <2>7
  <2>10. ~dups => messageChan'.q = <<>>
    <3>1. Tail(<<request>>) = <<>> OBVIOUS
    <3> QED BY Zenon, <2>1, <2>2, <3>1
  <2> QED BY Zenon, <2>1, <2>2, <2>4, <2>8, <2>9, <2>10
<1>3. CASE NoOtherAddr BY <1>3 DEF NoOtherAddr
<1>4. CASE ResponseTimeout BY Zenon, <1>4 DEF ResponseTimeout, GivesUp
<1>5. CASE CloseChan BY Zenon, <1>5 DEF CloseChan
<1>6. CASE CloseSocket BY Zenon, <1>6 DEF CloseSocket
<1>7. CASE ReadFromUDP BY <1>7 DEF ReadFromUDP
<1>8. CASE PassOn
  <2>1. /\ UNCHANGED <<dups, request, discover, replies, addresses>> /\ readLoop.at = "holds" /\ readLoop.reply \in Nat
        /\ readLoop' \in [at : {"idle", "panics", "stuck"}, reply : {0}]
        /\ messageChan' = messageChan \/ messageChan' = [messageChan EXCEPT !.q = Append(@, readLoop.reply)]
    BY <1>8 DEF PassOn, Reading
  <2>2. /\ messageChan' \in [open : BOOLEAN, q : Seq(Nat)]
        /\ messageChan'.q = messageChan.q \/ messageChan'.q = Append(messageChan.q, readLoop.reply)
    <3>1. messageChan.q \in Seq(Nat) BY Zenon
    <3>2. Append(messageChan.q, readLoop.reply) \in Seq(Nat) BY <2>1, <3>1
    <3> QED BY Zenon, <2>1, <3>2
  <2>3. readLoop' \in [at : {"idle", "holds", "over", "panics", "stuck"}, reply : Nat] /\ readLoop'.at # "holds" BY <2>1
  <2>4. ~dups /\ discover = "wait" => messageChan'.q = <<>> \/ messageChan'.q = <<request>> BY <2>1, <2>2
  <2> QED BY Zenon, <2>1, <2>2, <2>3, <2>4
<1> QED BY Zenon, <1>1, <1>2, <1>3, <1>4, <1>5, <1>6, <1>7, <1>8 DEF StunNext

(* Every reachable state of Discover satisfies it.                         *)
LEMMA StunInvariance == StunSpec => []StunIInv
<1>1. StunInit => StunIInv
  BY DEF StunInit, Reading, StunIInv, NothingUnderWay, OneUnderWay, RepliesMatch
<1>2. StunIInv /\ [StunNext]_stunVars => StunIInv'
  <2>1. ASSUME StunIInv, UNCHANGED stunVars PROVE StunIInv'
    BY Zenon, <2>1 DEF stunVars, StunIInv, NothingUnderWay, OneUnderWay, RepliesMatch
  <2> QED BY Zenon, <2>1, StunStep
<1> QED BY <1>1, <1>2, PTL DEF StunSpec

(***************************************************************************)
(* The behaviours a recommendation is taken from.                          *)
(***************************************************************************)
Behaviors == [role : {"sender", "receiver"}, ttl : Nat, delay : Nat, range : Nat, random : Nat, listen : Nat]
FirstSends == {p \in Behaviors \X Behaviors : p[1].role = "sender" /\ p[2].role = "receiver"}
FirstReceives == {p \in Behaviors \X Behaviors : p[1].role = "receiver" /\ p[2].role = "sender"}

(* A sender and a receiver are a pair, either way round.                   *)
LEMMA PairFacts ==
  /\ \A d, k, r, ttl, g, l \in Nat : <<Sender(d, k, r), Receiver(ttl, g, l)>> \in FirstSends
  /\ \A p \in FirstSends : Swap(p) \in FirstReceives
  /\ \A p \in FirstReceives : Swap(p) \in FirstSends
BY Zenon DEF Sender, Receiver, Behaviors, FirstSends, FirstReceives, Swap

(* The elements of tuples of six and of ten.                               *)
LEMMA SixOf ==
  ASSUME NEW S, NEW a \in S, NEW b \in S, NEW c \in S, NEW d \in S, NEW e \in S, NEW f \in S
  PROVE  DOMAIN <<a, b, c, d, e, f>> = 1 .. 6 /\ \A i \in 1 .. 6 : <<a, b, c, d, e, f>>[i] \in S
BY SMT

(* The same of ten.                                                        *)
LEMMA TenOf ==
  ASSUME NEW S, NEW a \in S, NEW b \in S, NEW c \in S, NEW d \in S, NEW e \in S, NEW f \in S,
         NEW g \in S, NEW h \in S, NEW k \in S, NEW l \in S
  PROVE  /\ DOMAIN <<a, b, c, d, e, f, g, h, k, l>> = 1 .. 10
         /\ \A i \in 1 .. 10 : <<a, b, c, d, e, f, g, h, k, l>>[i] \in S
BY SMT

(* In every mode one side sends and the other receives, and in the modes   *)
(* made for one kind of NAT the side listed first sends.                   *)
LEMMA TableFacts ==
  /\ DOMAIN Mode0 = 1 .. 10 /\ DOMAIN Mode1 = 1 .. 6 /\ DOMAIN Mode2 = 1 .. 3 /\ DOMAIN Mode3 = 1 .. 6 /\ DOMAIN Mode4 = 1 .. 3
  /\ \A i \in 1 .. 10 : Mode0[i] \in FirstSends \cup FirstReceives
  /\ \A i \in 1 .. 6 : Mode1[i] \in FirstSends /\ Mode3[i] \in FirstSends \cup FirstReceives
  /\ \A i \in 1 .. 3 : Mode2[i] \in FirstSends /\ Mode4[i] \in FirstSends
<1> DEFINE P(d, k, r, ttl, g, l) == <<Sender(d, k, r), Receiver(ttl, g, l)>>
<1>1. \A d, k, r, ttl, g, l \in Nat : P(d, k, r, ttl, g, l) \in FirstSends /\ Swap(P(d, k, r, ttl, g, l)) \in FirstReceives
  BY Zenon, PairFacts
<1>2. /\ Mode0 = <<P(0, 0, 0, 7, 0, 0), Swap(P(0, 0, 0, 7, 0, 0)), P(0, 0, 0, 4, 0, 0), Swap(P(0, 0, 0, 4, 0, 0)),
                   P(0, 0, 0, 0, 0, 0), Swap(P(0, 0, 0, 0, 0, 0)), P(5000, 0, 0, 0, 0, 0), P(10000, 0, 0, 0, 0, 0),
                   Swap(P(5000, 0, 0, 0, 0, 0)), Swap(P(10000, 0, 0, 0, 0, 0))>>
      /\ Mode1 = <<P(0, 0, 0, 7, 10, 0), P(2000, 0, 0, 7, 10, 0), P(0, 0, 0, 4, 10, 0), P(2000, 0, 0, 4, 10, 0),
                   P(0, 0, 0, 0, 10, 0), P(2000, 0, 0, 0, 10, 0)>>
      /\ Mode3 = <<P(0, 0, 10, 7, 10, 0), P(0, 0, 10, 4, 10, 0), P(0, 0, 10, 0, 10, 0),
                   Swap(P(0, 0, 10, 7, 10, 0)), Swap(P(0, 0, 10, 4, 10, 0)), Swap(P(0, 0, 10, 0, 10, 0))>>
  BY SMT DEF Mode0, Mode1, Mode3
<1>3. \A i \in 1 .. 3 : \E ttl \in Nat : Mode2[i] = P(3000, 1000, 0, ttl, 0, 256) /\ Mode4[i] = P(3000, 1000, 0, ttl, 2, 256)
  <2>1. \A i \in 1 .. 3 : <<7, 4, 0>>[i] \in Nat OBVIOUS
  <2> QED BY SMT, <2>1 DEF Mode2, Mode4
<1> DEFINE Either == FirstSends \cup FirstReceives
<1>4. DOMAIN Mode2 = 1 .. 3 /\ DOMAIN Mode4 = 1 .. 3 BY SMT DEF Mode2, Mode4
<1>5. /\ DOMAIN Mode0 = 1 .. 10 /\ \A i \in 1 .. 10 : Mode0[i] \in Either
  <2>1. /\ \A ttl \in {0, 4, 7} : P(0, 0, 0, ttl, 0, 0) \in Either /\ Swap(P(0, 0, 0, ttl, 0, 0)) \in Either
        /\ \A d \in {5000, 10000} : P(d, 0, 0, 0, 0, 0) \in Either /\ Swap(P(d, 0, 0, 0, 0, 0)) \in Either
    <3> HIDE DEF P
    <3> QED BY SMT, <1>1
  <2> HIDE DEF P, Either
  <2> QED BY SMT, <1>2, <2>1, TenOf
<1>6. /\ DOMAIN Mode1 = 1 .. 6 /\ \A i \in 1 .. 6 : Mode1[i] \in FirstSends
  <2>1. \A ttl \in {0, 4, 7}, d \in {0, 2000} : P(d, 0, 0, ttl, 10, 0) \in FirstSends
    <3> HIDE DEF P
    <3> QED BY SMT, <1>1
  <2> HIDE DEF P
  <2> QED BY SMT, <1>2, <2>1, SixOf
<1>7. /\ DOMAIN Mode3 = 1 .. 6 /\ \A i \in 1 .. 6 : Mode3[i] \in Either
  <2>1. \A ttl \in {0, 4, 7} : P(0, 0, 10, ttl, 10, 0) \in Either /\ Swap(P(0, 0, 10, ttl, 10, 0)) \in Either
    <3> HIDE DEF P
    <3> QED BY SMT, <1>1
  <2> HIDE DEF P, Either
  <2> QED BY SMT, <1>2, <2>1, SixOf
<1>8. ASSUME NEW i \in 1 .. 3 PROVE Mode2[i] \in FirstSends /\ Mode4[i] \in FirstSends
  <2>1. PICK ttl \in Nat : Mode2[i] = P(3000, 1000, 0, ttl, 0, 256) /\ Mode4[i] = P(3000, 1000, 0, ttl, 2, 256) BY <1>3
  <2> HIDE DEF P
  <2> QED BY SMT, <1>1, <2>1
<1> HIDE DEF P
<1> QED BY Zenon, <1>4, <1>5, <1>6, <1>7, <1>8

(* The tables by mode.                                                     *)
LEMMA ModeFacts ==
  ASSUME NEW m \in 0 .. 4
  PROVE  /\ \E n \in {3, 6, 10} : DOMAIN GetBehaviorByMode(m) = 1 .. n
         /\ \A i \in DOMAIN GetBehaviorByMode(m) : GetBehaviorByMode(m)[i] \in FirstSends \cup FirstReceives
         /\ m \in {1, 2, 4} => \A i \in DOMAIN GetBehaviorByMode(m) : GetBehaviorByMode(m)[i] \in FirstSends
<1>1. /\ GetBehaviorByMode(0) = Mode0 /\ GetBehaviorByMode(1) = Mode1 /\ GetBehaviorByMode(2) = Mode2
      /\ GetBehaviorByMode(3) = Mode3 /\ GetBehaviorByMode(4) = Mode4
  BY SMT DEF GetBehaviorByMode
<1>2. CASE m = 0 BY SMT, <1>1, <1>2, TableFacts
<1>3. CASE m = 1 BY SMT, <1>1, <1>3, TableFacts
<1>4. CASE m = 2 BY SMT, <1>1, <1>4, TableFacts
<1>5. CASE m = 3 BY SMT, <1>1, <1>5, TableFacts
<1>6. CASE m = 4 BY SMT, <1>1, <1>6, TableFacts
<1> QED BY <1>2, <1>3, <1>4, <1>5, <1>6

-----------------------------------------------------------------------------
(***************************************************************************)
(* The scores and the advice.                                              *)
(***************************************************************************)
SomeHard == Client.type = "hard" \/ Visitor.type = "hard"
SomeRegular == Client.regular \/ Visitor.regular

(* The entries that a record of these two NATs may have.                   *)
Suited(m) == (m \in {1, 2} => SomeHard) /\ (m = 4 => SomeRegular)
Entries(V) == {x \in [mode : 0 .. 4, index : 1 .. 10, score : V] :
                 x.index \in DOMAIN GetBehaviorByMode(x.mode) /\ Suited(x.mode)}
AtMostTen == {n \in Int : n <= 10}

NatIInv ==
  /\ addrs \in NatAddrs /\ reports \in Nat
  /\ scores \in Seq(Entries(AtMostTen))
  /\ AllTriedInTurn /\ RolesSuitNATs /\ GuessesHoldPort

(* A column of numbers has a highest one.                                  *)
LEMMA Highest ==
  ASSUME NEW n \in Nat \ {0}, NEW f \in [1 .. n -> Int]
  PROVE  \E i \in 1 .. n : \A j \in 1 .. n : f[j] <= f[i]
<1> DEFINE Top(k) == \E i \in 1 .. k : \A j \in 1 .. k : f[j] <= f[i]
           T == {k \in 1 .. n : ~Top(k)}
<1>1. Top(1)
  <2>1. f[1] \in Int OBVIOUS
  <2> QED BY <2>1
<1>2. ASSUME NEW k \in 1 .. n, k + 1 \in 1 .. n, Top(k) PROVE Top(k + 1)
  <2>1. PICK i \in 1 .. k : \A j \in 1 .. k : f[j] <= f[i] BY Zenon, <1>2
  <2>2. f[i] \in Int /\ f[k + 1] \in Int /\ \A j \in 1 .. k : f[j] \in Int BY <1>2
  <2>3. \A j \in 1 .. k + 1 : j = k + 1 \/ j \in 1 .. k OBVIOUS
  <2>4. CASE f[k + 1] <= f[i]
    <3>1. i \in 1 .. k + 1 /\ \A j \in 1 .. k + 1 : f[j] <= f[i] BY <2>1, <2>3, <2>4
    <3> QED BY Zenon, <3>1
  <2>5. CASE ~(f[k + 1] <= f[i])
    <3>1. k + 1 \in 1 .. k + 1 /\ \A j \in 1 .. k + 1 : f[j] <= f[k + 1] BY <2>1, <2>2, <2>3, <2>5
    <3> QED BY Zenon, <3>1
  <2> QED BY Zenon, <2>4, <2>5
<1> HIDE DEF Top
<1>3. T = {}
  <2> SUFFICES ASSUME T # {} PROVE FALSE BY Zenon
  <2>1. T \in SUBSET Nat OBVIOUS
  <2>2. PICK k \in T : \A l \in T : k <= l BY Zenon, <2>1, LeastNatural
  <2>3. k \in 1 .. n /\ k # 1 /\ ~Top(k) BY Zenon, <1>1, <2>2
  <2>4. k - 1 \in 1 .. n /\ (k - 1) + 1 = k BY <2>3
  <2>5. k - 1 \notin T BY <2>2, <2>3
  <2> QED BY Zenon, <1>2, <2>3, <2>4, <2>5
<1>4. Top(n) BY <1>3
<1> QED BY Zenon, <1>4 DEF Top

(* Best finds the first of the highest scores.                             *)
LEMMA BestFacts ==
  ASSUME NEW V \in SUBSET Int, NEW s \in Seq(Entries(V)), s # <<>>
  PROVE  Best(s) \in DOMAIN s /\ \A j \in DOMAIN s : s[j].score <= s[Best(s)].score
<1> DEFINE f == [j \in 1 .. Len(s) |-> s[j].score]
           M == {i \in DOMAIN s : \A j \in DOMAIN s : s[j].score <= s[i].score}
<1>1. Len(s) \in Nat \ {0} /\ DOMAIN s = 1 .. Len(s) OBVIOUS
<1>2. \A j \in 1 .. Len(s) : s[j].score \in Int
  <2>1. \A j \in 1 .. Len(s) : s[j] \in Entries(V) OBVIOUS
  <2> QED BY Zenon, <2>1 DEF Entries
<1>3. f \in [1 .. Len(s) -> Int] /\ \A j \in 1 .. Len(s) : f[j] = s[j].score BY Zenon, <1>2
<1> HIDE DEF f
<1>4. PICK i \in 1 .. Len(s) : \A j \in 1 .. Len(s) : f[j] <= f[i] BY Zenon, <1>1, <1>3, Highest
<1>5. i \in M BY <1>1, <1>3, <1>4
<1>6. M \in SUBSET Nat BY <1>1
<1> HIDE DEF M
<1>7. \E x \in M : \A y \in M : x <= y BY Zenon, <1>5, <1>6, LeastNatural
<1>8. Min(M) \in M BY Zenon, <1>7, MinIs
<1>9. Best(s) = Min(M) BY Zenon DEF Best, M
<1> QED BY Zenon, <1>8, <1>9 DEF M

(* The scores of a mode that suits the NATs.                               *)
LEMMA ScoresFacts ==
  ASSUME NEW m \in 0 .. 4, Suited(m), NEW V, NEW a \in V, NEW b \in V
  PROVE  /\ GetBehaviorScoresByMode2(m, a, b) \in Seq(Entries(V)) /\ GetBehaviorScoresByMode2(m, a, b) # <<>>
         /\ GetBehaviorScoresByMode(m, a) \in Seq(Entries(V)) /\ GetBehaviorScoresByMode(m, a) # <<>>
<1>1. PICK n \in {3, 6, 10} : DOMAIN GetBehaviorByMode(m) = 1 .. n BY Zenon, ModeFacts
<1>2. ASSUME NEW c \in V, NEW d \in V
      PROVE  GetBehaviorScoresByMode2(m, c, d) \in Seq(Entries(V)) /\ GetBehaviorScoresByMode2(m, c, d) # <<>>
  <2> DEFINE e(i) == [mode |-> m, index |-> i, score |-> IF GetBehaviorByMode(m)[i][1].role = "sender" THEN c ELSE d]
  <2>1. ASSUME NEW i \in 1 .. n PROVE e(i) \in Entries(V)
    <3>1. e(i) \in [mode : 0 .. 4, index : 1 .. 10, score : V] BY SMT
    <3>2. e(i).mode = m /\ e(i).index = i BY Zenon
    <3> HIDE DEF e
    <3> QED BY Zenon, <1>1, <3>1, <3>2 DEF Entries
  <2>2. GetBehaviorScoresByMode2(m, c, d) = [i \in 1 .. n |-> e(i)] BY Zenon, <1>1 DEF GetBehaviorScoresByMode2
  <2> HIDE DEF e
  <2>3. [i \in 1 .. n |-> e(i)] \in [1 .. n -> Entries(V)] BY Zenon, <2>1
  <2>4. n \in Nat /\ 1 \in 1 .. n OBVIOUS
  <2>5. [i \in 1 .. n |-> e(i)] \in Seq(Entries(V)) BY <2>3, <2>4
  <2>6. DOMAIN [i \in 1 .. n |-> e(i)] = 1 .. n BY Zenon
  <2> QED BY <2>2, <2>4, <2>5, <2>6
<1> QED BY Zenon, <1>2 DEF GetBehaviorScoresByMode

(* newMakeHoleRecords has entries, and only of modes that suit the NATs.   *)
LEMMA RecordsFacts ==
  ASSUME addrs \in NatAddrs
  PROVE  /\ NewMakeHoleRecords(Client, Visitor) \in Seq(Entries({0, 1}))
         /\ NewMakeHoleRecords(Client, Visitor) # <<>>
<1> DEFINE hard == {f \in {"c", "v"} : (IF f = "c" THEN Client ELSE Visitor).type = "hard"}
           regular == {f \in hard : (IF f = "c" THEN Client ELSE Visitor).regular}
           h == Cardinality(hard)
           r == Cardinality(regular)
           S == Seq(Entries({0, 1}))
           zero(m) == GetBehaviorScoresByMode(m, 0)
           one(m) == GetBehaviorScoresByMode(m, 1)
           mode0 == IF Client.public THEN GetBehaviorScoresByMode2(0, 0, 1)
                    ELSE IF Visitor.public THEN GetBehaviorScoresByMode2(0, 1, 0)
                    ELSE GetBehaviorScoresByMode(0, 0)
<1>1. h # 0 => SomeHard
  <2>1. ~SomeHard => hard = {} BY Zenon DEF SomeHard
  <2> QED BY Zenon, <2>1, FS_EmptySet
<1>2. r # 0 => SomeRegular
  <2>1. ~SomeRegular => regular = {} BY Zenon DEF SomeRegular
  <2> QED BY Zenon, <2>1, FS_EmptySet
<1>3. mode0 \in S /\ mode0 # <<>>
  <2>1. Suited(0) /\ 0 \in 0 .. 4 /\ 0 \in {0, 1} /\ 1 \in {0, 1} BY DEF Suited
  <2>2. GetBehaviorScoresByMode2(0, 0, 1) \in S /\ GetBehaviorScoresByMode2(0, 0, 1) # <<>> BY Zenon, <2>1, ScoresFacts
  <2>3. GetBehaviorScoresByMode2(0, 1, 0) \in S /\ GetBehaviorScoresByMode2(0, 1, 0) # <<>> BY Zenon, <2>1, ScoresFacts
  <2>4. GetBehaviorScoresByMode(0, 0) \in S /\ GetBehaviorScoresByMode(0, 0) # <<>> BY Zenon, <2>1, ScoresFacts
  <2> HIDE DEF S
  <2> QED BY Zenon, <2>2, <2>3, <2>4
<1>4. \A m \in 0 .. 4 : Suited(m) => zero(m) \in S /\ zero(m) # <<>> /\ one(m) \in S /\ one(m) # <<>> BY Zenon, ScoresFacts
<1>5. /\ Suited(0) /\ Suited(3) /\ (SomeHard => Suited(1) /\ Suited(2)) /\ (SomeRegular => Suited(4)) BY DEF Suited
<1>6. NewMakeHoleRecords(Client, Visitor) =
        CASE h = 0 -> mode0
          [] <<h, r>> = <<1, 1>> -> zero(1) \o zero(2) \o mode0
          [] <<h, r>> = <<1, 0>> -> zero(2) \o zero(1) \o mode0
          [] <<h, r>> = <<2, 2>> -> zero(3) \o zero(4)
          [] <<h, r>> = <<2, 1>> -> zero(4)
          [] OTHER -> one(0) \o one(1) \o one(3)
  BY Zenon DEF NewMakeHoleRecords
<1> HIDE DEF hard, regular, h, r, zero, one, mode0
<1>7. \A x, y \in S : x # <<>> => x \o y \in S /\ x \o y # <<>> OBVIOUS
<1> HIDE DEF S
<1>8. ASSUME h # 0
      PROVE    /\ zero(1) \o zero(2) \o mode0 \in S /\ zero(1) \o zero(2) \o mode0 # <<>>
               /\ zero(2) \o zero(1) \o mode0 \in S /\ zero(2) \o zero(1) \o mode0 # <<>>
               /\ one(0) \o one(1) \o one(3) \in S /\ one(0) \o one(1) \o one(3) # <<>>
  <2>1. /\ zero(1) \in S /\ zero(1) # <<>> /\ zero(2) \in S /\ zero(2) # <<>>
        /\ one(0) \in S /\ one(0) # <<>> /\ one(1) \in S /\ one(3) \in S
    BY <1>1, <1>4, <1>5, <1>8
  <2>2. /\ zero(1) \o zero(2) \in S /\ zero(1) \o zero(2) # <<>>
        /\ zero(2) \o zero(1) \in S /\ zero(2) \o zero(1) # <<>>
        /\ one(0) \o one(1) \in S /\ one(0) \o one(1) # <<>>
    BY Zenon, <1>7, <2>1
  <2> QED BY Zenon, <1>3, <1>7, <2>1, <2>2
<1>9. r # 0 => /\ zero(3) \o zero(4) \in S /\ zero(3) \o zero(4) # <<>> /\ zero(4) \in S /\ zero(4) # <<>>
  BY <1>2, <1>4, <1>5, <1>7
<1> DEFINE N == NewMakeHoleRecords(Client, Visitor)
<1>10. \/ N = mode0
       \/ h # 0 /\ N \in {zero(1) \o zero(2) \o mode0, zero(2) \o zero(1) \o mode0, one(0) \o one(1) \o one(3)}
       \/ r # 0 /\ N \in {zero(3) \o zero(4), zero(4)}
  BY <1>6
<1> HIDE DEF N
<1>11. N \in S /\ N # <<>> BY Zenon, <1>3, <1>8, <1>9, <1>10
<1> QED BY Zenon, <1>11 DEF N, S

(* The sides are told the parts that suit their NATs.                      *)
LEMMA SidesFacts ==
  ASSUME addrs \in NatAddrs, Client.type # "none", Visitor.type # "none",
         NEW m \in 0 .. 4, Suited(m), NEW i \in DOMAIN GetBehaviorByMode(m)
  PROVE  LET p == Sides(m, Client, GetBehaviorByMode(m)[i])
             sends == IF p[1].role = "sender" THEN Client ELSE Visitor
             gets == IF p[1].role = "sender" THEN Visitor ELSE Client
         IN  /\ p \in FirstSends \cup FirstReceives
             /\ m = 1 => sends.type = "hard"
             /\ m = 2 => gets.type = "hard"
             /\ m = 4 => sends.regular
<1> DEFINE q == GetBehaviorByMode(m)[i]
           p == Sides(m, Client, q)
           turned == (m = 1 /\ Client.type = "easy") \/ (m = 2 /\ Client.type = "hard") \/ (m = 4 /\ ~Client.regular)
<1>1. addrs[1] \in AddrLists /\ addrs[2] \in AddrLists BY Zenon, NatAssumption
<1>2. /\ Client.type \in {"easy", "hard"} /\ Visitor.type \in {"easy", "hard"}
      /\ Client.regular \in BOOLEAN /\ Visitor.regular \in BOOLEAN
  BY Zenon, <1>1, FeatureFacts DEF Client, Visitor
<1>3. q \in FirstSends \cup FirstReceives /\ (m \in {1, 2, 4} => q \in FirstSends) BY Zenon, ModeFacts
<1>4. p = IF turned THEN Swap(q) ELSE q BY Zenon DEF Sides
<1> HIDE DEF p, q
<1>5. p \in FirstSends \cup FirstReceives BY Zenon, <1>3, <1>4, PairFacts
<1>6. ASSUME m \in {1, 2, 4} PROVE p[1].role = (IF turned THEN "receiver" ELSE "sender")
  <2> HIDE DEF turned
  <2>1. q \in FirstSends /\ Swap(q) \in FirstReceives BY Zenon, <1>3, <1>6, PairFacts
  <2> QED BY Zenon, <1>4, <2>1 DEF FirstSends, FirstReceives
<1>7. /\ m = 1 => (IF p[1].role = "sender" THEN Client ELSE Visitor).type = "hard"
      /\ m = 2 => (IF p[1].role = "sender" THEN Visitor ELSE Client).type = "hard"
      /\ m = 4 => (IF p[1].role = "sender" THEN Client ELSE Visitor).regular
  <2>1. ASSUME m = 1 PROVE (IF p[1].role = "sender" THEN Client ELSE Visitor).type = "hard"
    BY <1>2, <1>6, <2>1 DEF Suited, SomeHard
  <2>2. ASSUME m = 2 PROVE (IF p[1].role = "sender" THEN Visitor ELSE Client).type = "hard"
    BY <1>2, <1>6, <2>2 DEF Suited, SomeHard
  <2>3. ASSUME m = 4 PROVE (IF p[1].role = "sender" THEN Client ELSE Visitor).regular
    BY <1>2, <1>6, <2>3 DEF Suited, SomeRegular
  <2> QED BY Zenon, <2>1, <2>2, <2>3
<1> QED BY Zenon, <1>5, <1>7 DEF p, q

(* A recommendation keeps the inductive invariant.                         *)
LEMMA RecommendStep == ASSUME NatIInv, GetRecommandBehaviors PROVE NatIInv'
<1>1. PICK s \in {IF scores = <<>> THEN NewMakeHoleRecords(Client, Visitor) ELSE scores} :
        LET i == Best(s)
            p == Sides(s[i].mode, Client, GetBehaviorByMode(s[i].mode)[s[i].index])
        IN  /\ scores' = Lowered(s, i)
            /\ advice' = [mode |-> s[i].mode, index |-> s[i].index, c |-> p[1], v |-> p[2]]
  BY Zenon DEF GetRecommandBehaviors
<1>2. addrs' = addrs /\ reports' = reports /\ Client.type # "none" /\ Visitor.type # "none"
  BY Zenon DEF GetRecommandBehaviors
<1>3. Client' = Client /\ Visitor' = Visitor BY Zenon, <1>2 DEF Client, Visitor
<1>4. Entries(AtMostTen)' = Entries(AtMostTen) BY Zenon, <1>3 DEF Entries, Suited, SomeHard, SomeRegular, AtMostTen
<1>5. /\ s \in Seq(Entries(AtMostTen)) /\ s # <<>>
      /\ reports = 0 => \A j, k \in DOMAIN s : s[j].score - s[k].score \in -1 .. 1
  <2>1. CASE scores # <<>> BY Zenon, <1>1, <2>1 DEF NatIInv, AllTriedInTurn
  <2>2. CASE scores = <<>>
    <3>1. s \in Seq(Entries({0, 1})) /\ s # <<>> BY Zenon, <1>1, <2>2, RecordsFacts DEF NatIInv
    <3>2. Entries({0, 1}) \subseteq Entries(AtMostTen) BY DEF Entries, AtMostTen
    <3>3. \A j \in DOMAIN s : s[j] \in Entries({0, 1}) BY <3>1
    <3>4. \A j \in DOMAIN s : s[j].score \in {0, 1} BY Zenon, <3>3 DEF Entries
    <3>5. s \in Seq(Entries(AtMostTen)) BY <3>1, <3>2
    <3> QED BY <3>1, <3>4, <3>5
  <2> QED BY Zenon, <2>1, <2>2
<1> DEFINE i == Best(s)
           m == s[i].mode
           p == Sides(m, Client, GetBehaviorByMode(m)[s[i].index])
<1>6. i \in DOMAIN s /\ \A j \in DOMAIN s : s[j].score <= s[i].score
  <2>1. AtMostTen \in SUBSET Int BY Zenon DEF AtMostTen
  <2> QED BY Zenon, <1>5, <2>1, BestFacts
<1>7. scores' = Lowered(s, i) /\ advice' = [mode |-> m, index |-> s[i].index, c |-> p[1], v |-> p[2]] BY Zenon, <1>1
<1> HIDE DEF i
<1>8. \A j \in DOMAIN s : s[j] \in Entries(AtMostTen) BY <1>5
<1>9. m \in 0 .. 4 /\ s[i].index \in DOMAIN GetBehaviorByMode(m) /\ Suited(m) /\ s[i].index \in 1 .. 10
  BY Zenon, <1>6, <1>8 DEF Entries
<1>10. scores' \in Seq(Entries(AtMostTen)) /\ DOMAIN scores' = DOMAIN s
       /\ \A j \in DOMAIN s : scores'[j].score = IF j = i THEN s[j].score - 1 ELSE s[j].score
  <2> DEFINE e == [s[i] EXCEPT !.score = @ - 1]
  <2>1. s[i] \in Entries(AtMostTen) BY Zenon, <1>6, <1>8
  <2>2. e \in Entries(AtMostTen) /\ e.score = s[i].score - 1 BY <2>1 DEF Entries, AtMostTen
  <2>3. scores' = [s EXCEPT ![i] = e] BY Zenon, <1>7 DEF Lowered
  <2> HIDE DEF e
  <2> QED BY <1>5, <1>6, <2>2, <2>3
<1>11. AllTriedInTurn'
  <2>1. \A j \in DOMAIN s : s[j].score \in Int BY Zenon, <1>8 DEF Entries, AtMostTen
  <2>2. ASSUME reports = 0, NEW j \in DOMAIN s, NEW k \in DOMAIN s
        PROVE  scores'[j].score - scores'[k].score \in -1 .. 1
    <3>1. s[j].score \in Int /\ s[k].score \in Int /\ s[j].score - s[k].score \in -1 .. 1
      BY Zenon, <1>5, <2>1, <2>2
    <3>2. s[j].score <= s[i].score /\ s[k].score <= s[i].score BY Zenon, <1>6
    <3>3. /\ scores'[j].score = IF j = i THEN s[j].score - 1 ELSE s[j].score
          /\ scores'[k].score = IF k = i THEN s[k].score - 1 ELSE s[k].score
      BY Zenon, <1>10
    <3> QED BY <3>1, <3>2, <3>3
  <2> QED BY Zenon, <1>2, <1>10, <2>2 DEF AllTriedInTurn
<1>12. /\ p \in FirstSends \cup FirstReceives
       /\ m = 1 => (IF p[1].role = "sender" THEN Client ELSE Visitor).type = "hard"
       /\ m = 2 => (IF p[1].role = "sender" THEN Visitor ELSE Client).type = "hard"
       /\ m = 4 => (IF p[1].role = "sender" THEN Client ELSE Visitor).regular
  BY Zenon, <1>2, <1>9, SidesFacts DEF NatIInv
<1> HIDE DEF p, m
<1>13. advice'.mode = m /\ advice'.c = p[1] /\ advice'.v = p[2] BY Zenon, <1>7
<1>14. /\ {p[1].role, p[2].role} = {"sender", "receiver"} /\ p[1].range \in Nat /\ p[2].range \in Nat
  BY Zenon, <1>12 DEF FirstSends, FirstReceives, Behaviors
<1>15. RolesSuitNATs' BY Zenon, <1>3, <1>12, <1>13, <1>14 DEF RolesSuitNATs
<1>16. GuessesHoldPort'
  <2>1. addrs[1] \in AddrLists /\ addrs[2] \in AddrLists BY Zenon, NatAssumption DEF NatIInv
  <2>2. Client.difference \in Nat /\ Visitor.difference \in Nat BY Zenon, <2>1, FeatureFacts DEF Client, Visitor
  <2>3. /\ HoldsLast(GetRangePorts(addrs[2], Visitor.difference, p[1].range), addrs[2])
        /\ HoldsLast(GetRangePorts(addrs[1], Client.difference, p[2].range), addrs[1])
    BY Zenon, <1>14, <2>1, <2>2, RangeHolds
  <2> QED BY Zenon, <1>2, <1>3, <1>13, <2>3 DEF GuessesHoldPort
<1> QED BY Zenon, <1>2, <1>4, <1>10, <1>11, <1>15, <1>16 DEF NatIInv

(* A reported success keeps it: a score rises to ten at most.              *)
LEMMA ReportStep ==
  ASSUME NatIInv, NEW mode, NEW index, ReportSuccess(mode, index) PROVE NatIInv'
<1>1. /\ addrs' = addrs /\ advice' = advice /\ reports' = reports + 1
      /\ scores' = [i \in DOMAIN scores |->
                      IF scores[i].mode = mode /\ scores[i].index = index
                      THEN [scores[i] EXCEPT !.score = Raised(@)] ELSE scores[i]]
  BY Zenon DEF ReportSuccess
<1>2. Client' = Client /\ Visitor' = Visitor BY Zenon, <1>1 DEF Client, Visitor
<1>3. Entries(AtMostTen)' = Entries(AtMostTen) BY Zenon, <1>2 DEF Entries, Suited, SomeHard, SomeRegular, AtMostTen
<1>4. \A n \in AtMostTen : Raised(n) \in AtMostTen
  <2> SUFFICES ASSUME NEW n \in Int PROVE Raised(n) \in Int /\ Raised(n) <= 10 BY Zenon DEF AtMostTen
  <2> DEFINE S == {n + 2, 10}
  <2>1. \E x \in S : \A y \in S : x <= y OBVIOUS
  <2>2. Min(S) \in S /\ \A y \in S : Min(S) <= y BY Zenon, <2>1, MinIs
  <2> QED BY <2>2 DEF Raised
<1>5. \A x \in Entries(AtMostTen) : [x EXCEPT !.score = Raised(@)] \in Entries(AtMostTen)
  <2> SUFFICES ASSUME NEW x \in Entries(AtMostTen) PROVE [x EXCEPT !.score = Raised(@)] \in Entries(AtMostTen)
    BY Zenon
  <2>1. Raised(x.score) \in AtMostTen BY Zenon, <1>4 DEF Entries
  <2> QED BY Zenon, <2>1 DEF Entries
<1>6. scores' \in Seq(Entries(AtMostTen))
  <2>1. \A i \in DOMAIN scores : scores[i] \in Entries(AtMostTen) BY DEF NatIInv
  <2>2. \A i \in DOMAIN scores : scores'[i] \in Entries(AtMostTen) BY Zenon, <1>1, <1>5, <2>1
  <2>3. Len(scores) \in Nat /\ DOMAIN scores = 1 .. Len(scores) BY DEF NatIInv
  <2>4. scores' \in [1 .. Len(scores) -> Entries(AtMostTen)] BY Zenon, <1>1, <2>2, <2>3
  <2> QED BY <2>3, <2>4
<1>7. AllTriedInTurn' BY <1>1 DEF NatIInv, AllTriedInTurn
<1>8. RolesSuitNATs' /\ GuessesHoldPort'
  BY Zenon, <1>1, <1>2 DEF NatIInv, RolesSuitNATs, GuessesHoldPort, Advised
<1> QED BY <1>1, <1>3, <1>6, <1>7, <1>8 DEF NatIInv

(* Every reachable state of the analysis satisfies it.                     *)
LEMMA NatInvariance == NatSpec => []NatIInv
<1>1. NatInit => NatIInv
  <2> SUFFICES ASSUME NatInit PROVE NatIInv BY Zenon
  <2>1. advice.index = 0 /\ scores = <<>> /\ reports = 0 /\ addrs \in NatAddrs BY Zenon DEF NatInit, NoAdvice
  <2> QED BY <2>1 DEF NatIInv, AllTriedInTurn, RolesSuitNATs, GuessesHoldPort, Advised
<1>2. NatIInv /\ [NatNext]_natVars => NatIInv'
  <2>1. ASSUME NatIInv, addrs' = addrs, advice' = advice, reports' = reports, scores' \in {scores, <<>>}
        PROVE  NatIInv'
    <3>1. Client' = Client /\ Visitor' = Visitor BY Zenon, <2>1 DEF Client, Visitor
    <3>2. Entries(AtMostTen)' = Entries(AtMostTen) BY Zenon, <3>1 DEF Entries, Suited, SomeHard, SomeRegular, AtMostTen
    <3>3. RolesSuitNATs' /\ GuessesHoldPort'
      BY Zenon, <2>1, <3>1 DEF NatIInv, RolesSuitNATs, GuessesHoldPort, Advised
    <3>4. scores' \in Seq(Entries(AtMostTen)) /\ AllTriedInTurn'
      <4>1. CASE scores' = scores BY Zenon, <2>1, <4>1 DEF NatIInv, AllTriedInTurn
      <4>2. CASE scores' = <<>> BY <4>2 DEF AllTriedInTurn
      <4> QED BY Zenon, <2>1, <4>1, <4>2
    <3> QED BY Zenon, <2>1, <3>2, <3>3, <3>4 DEF NatIInv
  <2>2. ASSUME NatIInv, CleanRecord PROVE NatIInv' BY Zenon, <2>1, <2>2 DEF CleanRecord
  <2>3. ASSUME NatIInv, UNCHANGED natVars PROVE NatIInv' BY Zenon, <2>1, <2>3 DEF natVars
  <2> QED BY Zenon, <2>2, <2>3, RecommendStep, ReportStep DEF NatNext
<1> QED BY <1>1, <1>2, PTL DEF NatSpec

(* The advice of frps rests on the right answers and suits the two NATs,   *)
(* whatever lists of addresses the two sides report and however often a    *)
(* recommendation, a success and a cleaning of the records follow each     *)
(* other: analysis.go, classify.go and getRangePorts, and Discover.        *)
THEOREM NatHoleSafe == StunSpec /\ NatSpec => []NatHoleAdvised
<1>1. StunIInv => RepliesMatch BY Zenon DEF StunIInv
<1>2. NatIInv => RolesSuitNATs /\ GuessesHoldPort /\ AllTriedInTurn /\ ScoresAtMostTen
  <2> SUFFICES ASSUME NatIInv PROVE ScoresAtMostTen BY Zenon DEF NatIInv
  <2>1. \A i \in DOMAIN scores : scores[i] \in Entries(AtMostTen) BY DEF NatIInv
  <2> QED BY Zenon, <2>1 DEF ScoresAtMostTen, Entries, AtMostTen
<1>3. StunIInv /\ NatIInv => NatHoleAdvised BY Zenon, <1>1, <1>2 DEF NatHoleAdvised
<1> QED BY <1>3, StunInvariance, NatInvariance, PTL

-----------------------------------------------------------------------------
(***************************************************************************)
(* The exchange.  A round is begun once: its message, its handler, the sid *)
(* and its provider follow each other, so that a provider that begins has  *)
(* no socket yet.                                                          *)
(***************************************************************************)
RoundInv(r) ==
  /\ visitor[r].at \in {"idle", "prepare"} =>
       ~visitor[r].sock /\ <<r, "visitor">> \notin sent /\ handler[r].at = "none"
  /\ <<r, "visitor">> \in sent => handler[r].at = "none"
  /\ handler[r].at \in {"none", "offer"} =>
       provider[r].at = "none" /\ \A i \in Incarnation : sidLoop[i] # r
  /\ \A i \in Incarnation : sidLoop[i] = r =>
       provider[r].at = "none" /\ \A j \in Incarnation : sidLoop[j] = r => j = i
  /\ provider[r].at \in {"none", "prepare"} => ~provider[r].sock

ExchangeIInv ==
  /\ ExchangeTypeOK /\ notifyCh \subseteq clientMsg
  /\ HoleHasBothSides /\ NoSocketLeft /\ \A r \in Round : RoundInv(r)

(* The steps of the proxy on the server keep it.                           *)
LEMMA ProxyStep ==
  ASSUME ExchangeIInv, NEW i \in Incarnation,
         ListenClient(i) \/ CloseClient(i) \/ \E ok \in BOOLEAN : SidLoop(i, ok)
  PROVE  ExchangeIInv'
<1> USE ExchangeAssumption DEF ExchangeIInv, ExchangeTypeOK, HoleHasBothSides, NoSocketLeft, RoundInv
<1>1. CASE ListenClient(i) BY <1>1 DEF ListenClient
<1>2. CASE CloseClient(i) BY <1>2 DEF CloseClient
<1>3. ASSUME NEW ok \in BOOLEAN, SidLoop(i, ok) PROVE ExchangeIInv' BY <1>3 DEF SidLoop
<1> QED BY Zenon, <1>1, <1>2, <1>3

(* ClosesSocket and a change of place, field by field.                     *)
LEMMA SideFacts ==
  ASSUME NEW A, NEW x \in [at : A, sock : BOOLEAN]
  PROVE  /\ \A a : [x EXCEPT !.at = a] = [at |-> a, sock |-> x.sock]
         /\ ClosesSocket(x) = [at |-> "over", sock |-> FALSE]
<1>1. \A a : [x EXCEPT !.at = a] = [at |-> a, sock |-> x.sock] OBVIOUS
<1> DEFINE y == [x EXCEPT !.at = "over"]
<1>2. ClosesSocket(x) = [y EXCEPT !.sock = FALSE] BY Zenon DEF ClosesSocket
<1>3. y = [at |-> "over", sock |-> x.sock] BY Zenon, <1>1
<1>4. y \in [at : {"over"}, sock : BOOLEAN] BY Zenon, <1>3
<1> HIDE DEF y
<1>5. \A b : [y EXCEPT !.sock = b] = [at |-> y.at, sock |-> b] BY <1>4
<1>6. y.at = "over" BY Zenon, <1>4
<1> QED BY Zenon, <1>1, <1>2, <1>5, <1>6

(* A visitor may go on from any place but back to its beginning, makes a   *)
(* hole when the client's addresses are there, and gives up without a      *)
(* socket.                                                                 *)
VisitorAt == {"idle", "prepare", "exchange", "hole", "over", "session"}
MayVisit(r, at, sock) ==
  /\ at \in {"idle", "prepare"} => visitor[r].at \in {"idle", "prepare"} /\ ~sock
  /\ at \in {"hole", "session"} => r \in clientMsg
  /\ at = "over" => ~sock

(* Such a step of a visitor keeps the invariant.                           *)
LEMMA VisitorMoves ==
  ASSUME ExchangeIInv, NEW r \in Round, NEW at \in VisitorAt, NEW sock \in BOOLEAN, MayVisit(r, at, sock),
         visitor' = [visitor EXCEPT ![r] = [at |-> at, sock |-> sock]],
         sent' = sent \/ (at = "exchange" /\ visitor[r].at = "prepare" /\ sent' = sent \cup {<<r, "visitor">>}),
         UNCHANGED serverVars, provider' = provider
  PROVE  ExchangeIInv'
<1> USE DEF ExchangeIInv, ExchangeTypeOK, serverVars
<1>1. visitor' \in [Round -> [at : VisitorAt, sock : BOOLEAN]] BY Zenon DEF VisitorAt
<1>2. \A q \in Round : visitor'[q].at = (IF q = r THEN at ELSE visitor[q].at)
                        /\ visitor'[q].sock = (IF q = r THEN sock ELSE visitor[q].sock) BY Zenon
<1>3. HoleHasBothSides' /\ NoSocketLeft' BY Zenon, <1>2 DEF HoleHasBothSides, NoSocketLeft, MayVisit
<1>4. ASSUME NEW q \in Round PROVE RoundInv(q)'
  <2>1. RoundInv(q) BY Zenon
  <2> QED BY <1>2, <2>1 DEF RoundInv, MayVisit
<1> QED BY <1>1, <1>3, <1>4 DEF VisitorAt

(* The steps of a visitor keep it.                                         *)
LEMMA VisitorKeeps == ASSUME ExchangeIInv, NEW r \in Round, MakeNatHole(r) PROVE ExchangeIInv'
<1> DEFINE v == visitor[r]
<1>1. v \in [at : VisitorAt, sock : BOOLEAN] BY Zenon DEF ExchangeIInv, ExchangeTypeOK, VisitorAt
<1>2. \A a : [v EXCEPT !.at = a] = [at |-> a, sock |-> v.sock] BY <1>1
<1>3. ClosesSocket(v) = [at |-> "over", sock |-> FALSE] BY Zenon, <1>1, SideFacts
<1>4. /\ v.at \in {"idle", "prepare"} => ~v.sock
      /\ v.at = "hole" => r \in clientMsg
  BY Zenon DEF ExchangeIInv, RoundInv, HoleHasBothSides
<1>5. ASSUME PreCheck(r) PROVE ExchangeIInv'
  <2>1. PICK a \in {"prepare", "over"} : visitor' = [visitor EXCEPT ![r] = [v EXCEPT !.at = a]]
    BY Zenon, <1>5 DEF PreCheck
  <2>2. visitor' = [visitor EXCEPT ![r] = [at |-> a, sock |-> v.sock]] BY Zenon, <1>2, <2>1
  <2>3. MayVisit(r, a, v.sock) BY Zenon, <1>4, <1>5 DEF MayVisit, PreCheck
  <2> QED BY Zenon, <1>1, <1>5, <2>2, <2>3, VisitorMoves DEF PreCheck, VisitorAt
<1>6. ASSUME ExchangeFails(r) PROVE ExchangeIInv'
  <2>1. visitor' = [visitor EXCEPT ![r] = [at |-> "over", sock |-> FALSE]] BY Zenon, <1>3, <1>6 DEF ExchangeFails
  <2>2. MayVisit(r, "over", FALSE) BY Zenon DEF MayVisit
  <2> QED BY Zenon, <1>6, <2>1, <2>2, VisitorMoves DEF ExchangeFails, VisitorAt
<1>7. ASSUME NEW ok \in BOOLEAN, Prepare(r, ok) PROVE ExchangeIInv'
  <2>1. CASE ok
    <3>1. visitor' = [visitor EXCEPT ![r] = [at |-> "exchange", sock |-> TRUE]] BY Zenon, <1>7, <2>1 DEF Prepare
    <3>2. MayVisit(r, "exchange", TRUE) BY Zenon DEF MayVisit
    <3> QED BY Zenon, <1>7, <2>1, <3>1, <3>2, VisitorMoves DEF Prepare, VisitorAt
  <2>2. CASE ~ok
    <3>1. visitor' = [visitor EXCEPT ![r] = [at |-> "over", sock |-> v.sock]] BY Zenon, <1>2, <1>7, <2>2 DEF Prepare
    <3>2. MayVisit(r, "over", v.sock) BY Zenon, <1>4, <1>7 DEF MayVisit, Prepare
    <3> QED BY Zenon, <1>1, <1>7, <2>2, <3>1, <3>2, VisitorMoves DEF Prepare, VisitorAt
  <2> QED BY Zenon, <2>1, <2>2
<1>8. ASSUME NEW ok \in BOOLEAN, VisitorHole(r, ok) PROVE ExchangeIInv'
  <2>1. CASE ok
    <3>1. visitor' = [visitor EXCEPT ![r] = [at |-> "session", sock |-> v.sock]]
      BY Zenon, <1>2, <1>8, <2>1 DEF VisitorHole
    <3>2. MayVisit(r, "session", v.sock) BY Zenon, <1>4, <1>8 DEF MayVisit, VisitorHole
    <3> QED BY Zenon, <1>1, <1>8, <3>1, <3>2, VisitorMoves DEF VisitorHole, VisitorAt
  <2>2. CASE ~ok
    <3>1. visitor' = [visitor EXCEPT ![r] = [at |-> "over", sock |-> FALSE]] BY Zenon, <1>3, <1>8, <2>2 DEF VisitorHole
    <3>2. MayVisit(r, "over", FALSE) BY Zenon DEF MayVisit
    <3> QED BY Zenon, <1>8, <3>1, <3>2, VisitorMoves DEF VisitorHole, VisitorAt
  <2> QED BY <2>1, <2>2
<1> QED BY Zenon, <1>5, <1>6, <1>7, <1>8 DEF MakeNatHole

(* A provider that has begun does not begin again, and gives up without a  *)
(* socket.                                                                 *)
ProviderAt == {"none", "prepare", "exchange", "hole", "serve", "over"}

(* Such a step of a provider keeps the invariant.                          *)
LEMMA ProviderMoves ==
  ASSUME ExchangeIInv, NEW r \in Round, NEW at \in ProviderAt \ {"none", "prepare"}, NEW sock \in BOOLEAN,
         at = "over" => ~sock, provider[r].at # "none",
         provider' = [provider EXCEPT ![r] = [at |-> at, sock |-> sock]],
         sent' \in {sent, sent \cup {<<r, "client">>}}, UNCHANGED serverVars, visitor' = visitor
  PROVE  ExchangeIInv'
<1> USE DEF ExchangeIInv, ExchangeTypeOK, serverVars
<1>1. provider' \in [Round -> [at : ProviderAt, sock : BOOLEAN]] BY Zenon DEF ProviderAt
<1>2. \A q \in Round : provider'[q].at = (IF q = r THEN at ELSE provider[q].at)
                        /\ provider'[q].sock = (IF q = r THEN sock ELSE provider[q].sock) BY Zenon
<1>3. HoleHasBothSides' /\ NoSocketLeft' BY Zenon, <1>2 DEF HoleHasBothSides, NoSocketLeft
<1>4. ASSUME NEW q \in Round PROVE RoundInv(q)'
  <2>1. RoundInv(q) BY Zenon
  <2>2. <<q, "visitor">> \in sent' <=> <<q, "visitor">> \in sent BY Zenon
  <2> QED BY <1>2, <2>1, <2>2 DEF RoundInv
<1> QED BY <1>1, <1>3, <1>4 DEF ProviderAt

(* The steps of a provider keep it.                                        *)
LEMMA ProviderKeeps == ASSUME ExchangeIInv, NEW r \in Round, InWorkConn(r) PROVE ExchangeIInv'
<1> DEFINE v == provider[r]
<1>1. v \in [at : ProviderAt, sock : BOOLEAN] BY Zenon DEF ExchangeIInv, ExchangeTypeOK, ProviderAt
<1>2. \A a : [v EXCEPT !.at = a] = [at |-> a, sock |-> v.sock] BY <1>1
<1>3. ClosesSocket(v) = [at |-> "over", sock |-> FALSE] BY Zenon, <1>1, SideFacts
<1>4. v.at = "prepare" => ~v.sock BY Zenon DEF ExchangeIInv, RoundInv
<1>5. ASSUME NEW ok \in BOOLEAN, ProviderPrepare(r, ok) PROVE ExchangeIInv'
  <2>1. CASE ok
    <3>1. provider' = [provider EXCEPT ![r] = [at |-> "exchange", sock |-> TRUE]] BY Zenon, <1>5, <2>1 DEF ProviderPrepare
    <3>2. /\ provider[r].at # "none" /\ sent' \in {sent, sent \cup {<<r, "client">>}}
          /\ UNCHANGED serverVars /\ visitor' = visitor
      BY Zenon, <1>5, <2>1 DEF ProviderPrepare
    <3>3. "exchange" \in ProviderAt \ {"none", "prepare"} BY Zenon DEF ProviderAt
    <3> QED BY Zenon, <3>1, <3>2, <3>3, ProviderMoves
  <2>2. CASE ~ok
    <3>1. provider' = [provider EXCEPT ![r] = [at |-> "over", sock |-> v.sock]]
      BY Zenon, <1>2, <1>5, <2>2 DEF ProviderPrepare
    <3>2. ~v.sock BY Zenon, <1>4, <1>5 DEF ProviderPrepare
    <3> QED BY Zenon, <1>1, <1>5, <2>2, <3>1, <3>2, ProviderMoves DEF ProviderPrepare, ProviderAt
  <2> QED BY <2>1, <2>2
<1>6. ASSUME provider' = [provider EXCEPT ![r] = ClosesSocket(v)], v.at # "none",
             UNCHANGED <<serverVars, visitor, sent>>
      PROVE  ExchangeIInv'
  <2>1. provider' = [provider EXCEPT ![r] = [at |-> "over", sock |-> FALSE]] BY Zenon, <1>3, <1>6
  <2> QED BY Zenon, <1>6, <2>1, ProviderMoves DEF ProviderAt
<1>7. ASSUME NEW ok \in BOOLEAN, ProviderHole(r, ok) PROVE ExchangeIInv'
  <2>1. CASE ok
    <3>1. provider' = [provider EXCEPT ![r] = [at |-> "serve", sock |-> v.sock]]
      BY Zenon, <1>2, <1>7, <2>1 DEF ProviderHole
    <3>2. /\ provider[r].at # "none" /\ sent' = sent /\ UNCHANGED serverVars /\ visitor' = visitor
      BY Zenon, <1>7 DEF ProviderHole
    <3>3. "serve" \in ProviderAt \ {"none", "prepare"} BY Zenon DEF ProviderAt
    <3>4. v.sock \in BOOLEAN BY Zenon, <1>1
    <3> QED BY Zenon, <3>1, <3>2, <3>3, <3>4, ProviderMoves
  <2>2. CASE ~ok BY Zenon, <1>6, <1>7, <2>2 DEF ProviderHole
  <2> QED BY <2>1, <2>2
<1>8. ASSUME ProviderExchangeFails(r) \/ ServeEnds(r) PROVE ExchangeIInv'
  BY Zenon, <1>6, <1>8 DEF ProviderExchangeFails, ServeEnds
<1> QED BY Zenon, <1>5, <1>7, <1>8 DEF InWorkConn, ListenByKCP, ListenByQUIC

(* The steps of the controller keep it.                                    *)
LEMMA ControllerKeeps ==
  ASSUME ExchangeIInv, NEW r \in Round, ControllerStep(r) \/ HandleVisitor(r) \/ HandleClient(r)
  PROVE  ExchangeIInv'
<1> USE ExchangeAssumption DEF ExchangeIInv, ExchangeTypeOK, HoleHasBothSides, NoSocketLeft, RoundInv
<1>1. CASE OfferSid(r)
  <2>1. /\ handler[r].at = "offer" /\ sidLoop[handler[r].pxy] = "idle"
        /\ sidLoop' = [sidLoop EXCEPT ![handler[r].pxy] = r]
        /\ UNCHANGED <<clientCfgs, visitor, sessions, provider, sent, clientMsg, notifyCh>>
    BY Zenon, <1>1 DEF OfferSid
  <2>2. handler' = [handler EXCEPT ![r].at = "wait"] BY Zenon, <1>1 DEF OfferSid
  <2>3. handler' \in [Round -> [at : {"none", "offer", "wait", "answer", "linger", "over"},
                                pxy : Incarnation \cup {NoProxy}]]
        /\ \A q \in Round : handler'[q].at = IF q = r THEN "wait" ELSE handler[q].at
    BY <2>2
  <2>4. sidLoop' \in [Incarnation -> {"none", "idle", "closed"} \cup Round]
        /\ \A i \in Incarnation : sidLoop'[i] = IF i = handler[r].pxy THEN r ELSE sidLoop[i]
    BY Zenon, <2>1
  <2>5. HoleHasBothSides' /\ NoSocketLeft' BY Zenon, <2>1, <2>3
  <2>6. ASSUME NEW q \in Round PROVE RoundInv(q)'
    <3>1. RoundInv(q) /\ RoundInv(r) BY Zenon
    <3> QED BY <2>1, <2>3, <2>4, <3>1
  <2> QED BY Zenon, <2>1, <2>3, <2>4, <2>5, <2>6
<1>2. CASE WaitNotified(r) BY <1>2 DEF WaitNotified
<1>3. CASE WaitTimeout(r) BY <1>3 DEF WaitTimeout, TimesOut, Forget
<1>4. CASE Linger(r) BY <1>4 DEF Linger, Forget
<1>5. ASSUME NEW ok \in BOOLEAN, Answer(r, ok) PROVE ExchangeIInv'
  <2> DEFINE Ends(f, g) ==
                      \/ g = f
                      \/ f[r].at = "exchange" /\ g = [f EXCEPT ![r] = [at |-> "hole", sock |-> f[r].sock]]
                      \/ f[r].at = "exchange" /\ g = [f EXCEPT ![r] = [at |-> "over", sock |-> FALSE]]
  <2>1. /\ visitor[r] \in [at : VisitorAt, sock : BOOLEAN] /\ provider[r] \in [at : ProviderAt, sock : BOOLEAN]
    BY Zenon DEF VisitorAt, ProviderAt
  <2>2. Ends(visitor, visitor')
    <3>1. visitor' = IF visitor[r].at # "exchange" THEN visitor
                     ELSE [visitor EXCEPT ![r] = IF ok THEN [visitor[r] EXCEPT !.at = "hole"] ELSE ClosesSocket(visitor[r])]
      BY Zenon, <1>5 DEF Answer
    <3> QED BY Zenon, <2>1, <3>1, SideFacts
  <2>3. Ends(provider, provider')
    <3>1. provider' = IF provider[r].at # "exchange" THEN provider
                      ELSE [provider EXCEPT ![r] = IF ok THEN [provider[r] EXCEPT !.at = "hole"] ELSE ClosesSocket(provider[r])]
      BY Zenon, <1>5 DEF Answer
    <3> QED BY Zenon, <2>1, <3>1, SideFacts
  <2>4. /\ handler[r].at = "answer" /\ handler' = [handler EXCEPT ![r].at = "linger"]
        /\ UNCHANGED <<clientCfgs, sidLoop, sessions, sent, clientMsg, notifyCh>>
    BY Zenon, <1>5 DEF Answer
  <2>5. handler' \in [Round -> [at : {"none", "offer", "wait", "answer", "linger", "over"},
                                pxy : Incarnation \cup {NoProxy}]]
        /\ \A q \in Round : handler'[q].at = IF q = r THEN "linger" ELSE handler[q].at
    BY <2>4
  <2>6. /\ visitor' \in [Round -> [at : VisitorAt, sock : BOOLEAN]]
        /\ \A q \in Round : \/ visitor'[q] = visitor[q]
                             \/ /\ q = r /\ visitor[q].at = "exchange"
                                /\ visitor'[q].at \in {"hole", "over"} /\ (visitor'[q].at = "over" => ~visitor'[q].sock)
    <3>1. CASE visitor' = visitor BY Zenon, <3>1 DEF VisitorAt
    <3>2. ASSUME visitor[r].at = "exchange", NEW a \in {"hole", "over"}, NEW c \in BOOLEAN, a = "over" => ~c,
                 visitor' = [visitor EXCEPT ![r] = [at |-> a, sock |-> c]]
          PROVE  /\ visitor' \in [Round -> [at : VisitorAt, sock : BOOLEAN]]
                 /\ \A q \in Round : \/ visitor'[q] = visitor[q]
                                      \/ /\ q = r /\ visitor[q].at = "exchange"
                                         /\ visitor'[q].at \in {"hole", "over"} /\ (visitor'[q].at = "over" => ~visitor'[q].sock)
      BY Zenon, <3>2 DEF VisitorAt
    <3>3. visitor[r].sock \in BOOLEAN BY Zenon, <2>1
    <3> QED BY Zenon, <2>2, <3>1, <3>2, <3>3
  <2>7. /\ provider' \in [Round -> [at : ProviderAt, sock : BOOLEAN]]
        /\ \A q \in Round : \/ provider'[q] = provider[q]
                             \/ /\ q = r /\ provider[q].at = "exchange"
                                /\ provider'[q].at \in {"hole", "over"} /\ (provider'[q].at = "over" => ~provider'[q].sock)
    <3>1. CASE provider' = provider BY Zenon, <3>1 DEF ProviderAt
    <3>2. ASSUME provider[r].at = "exchange", NEW a \in {"hole", "over"}, NEW c \in BOOLEAN, a = "over" => ~c,
                 provider' = [provider EXCEPT ![r] = [at |-> a, sock |-> c]]
          PROVE  /\ provider' \in [Round -> [at : ProviderAt, sock : BOOLEAN]]
                 /\ \A q \in Round : \/ provider'[q] = provider[q]
                                      \/ /\ q = r /\ provider[q].at = "exchange"
                                         /\ provider'[q].at \in {"hole", "over"} /\ (provider'[q].at = "over" => ~provider'[q].sock)
      BY <3>2 DEF ProviderAt
    <3>3. provider[r].sock \in BOOLEAN BY Zenon, <2>1
    <3> QED BY Zenon, <2>3, <3>1, <3>2, <3>3
  <2>8. HoleHasBothSides' /\ NoSocketLeft' BY <2>4, <2>5, <2>6, <2>7
  <2>9. ASSUME NEW q \in Round PROVE RoundInv(q)'
    <3>1. RoundInv(q) BY Zenon
    <3> QED BY <2>4, <2>5, <2>6, <2>7, <3>1
  <2> QED BY Zenon, <2>4, <2>5, <2>6, <2>7, <2>8, <2>9 DEF VisitorAt, ProviderAt
<1>6. CASE HandleVisitor(r)
  <2>1. PICK h \in [at : {"offer", "over"}, pxy : Incarnation \cup {NoProxy}] : handler' = [handler EXCEPT ![r] = h]
    BY <1>6 DEF HandleVisitor
  <2>2. handler' \in [Round -> [at : {"none", "offer", "wait", "answer", "linger", "over"},
                                pxy : Incarnation \cup {NoProxy}]]
        /\ \A q \in Round : handler'[q].at = IF q = r THEN h.at ELSE handler[q].at
    BY <2>1
  <2>3. /\ <<r, "visitor">> \in sent /\ sent' = sent \ {<<r, "visitor">>} /\ sessions' \subseteq Round
        /\ UNCHANGED <<clientCfgs, sidLoop, visitor, provider, clientMsg, notifyCh>>
    BY <1>6 DEF HandleVisitor
  <2>4. HoleHasBothSides' /\ NoSocketLeft' BY Zenon, <2>2, <2>3
  <2>5. ASSUME NEW q \in Round PROVE RoundInv(q)'
    <3>1. RoundInv(q) /\ RoundInv(r) BY Zenon
    <3>2. <<q, "visitor">> \in sent' <=> q # r /\ <<q, "visitor">> \in sent BY Zenon, <2>3
    <3> QED BY <2>2, <2>3, <3>1, <3>2
  <2> QED BY Zenon, <2>2, <2>3, <2>4, <2>5
<1>7. CASE HandleClient(r) BY <1>7 DEF HandleClient
<1> QED BY Zenon, <1>1, <1>2, <1>3, <1>4, <1>5, <1>6, <1>7 DEF ControllerStep

(* Every reachable state of the exchange satisfies it.                     *)
LEMMA ExchangeInvariance == ExchangeSpec => []ExchangeIInv
<1>1. ExchangeInit => ExchangeIInv
  BY ExchangeAssumption DEF ExchangeInit, ExchangeIInv, ExchangeTypeOK, HoleHasBothSides, NoSocketLeft, RoundInv
<1>2. ExchangeIInv /\ [ExchangeNext]_exchangeVars => ExchangeIInv'
  <2>1. ASSUME ExchangeIInv, UNCHANGED exchangeVars PROVE ExchangeIInv'
    BY <2>1 DEF exchangeVars, ExchangeIInv, ExchangeTypeOK, HoleHasBothSides, NoSocketLeft, RoundInv
  <2> QED BY Zenon, <2>1, ProxyStep, VisitorKeeps, ProviderKeeps, ControllerKeeps
       DEF ExchangeNext, SidLoopStep, XTCPSidLoop, XUDPSidLoop, XTCPXUDPSidLoop,
           VisitorStep, XTCPMakeNatHole, XUDPMakeNatHole, XTCPXUDPMakeNatHole,
           ProviderStep, XTCPInWorkConn, XUDPInWorkConn, XTCPXUDPInWorkConn
<1> QED BY <1>1, <1>2, PTL DEF ExchangeSpec

(* Nobody is told to make a hole on one side's addresses alone, and a side *)
(* that gives up keeps no socket, however many rounds and proxies follow   *)
(* each other: HandleVisitor, HandleClient, makeNatHole and InWorkConn.    *)
THEOREM ExchangeSafe == ExchangeSpec => []HoleHasBothSides /\ []NoSocketLeft
<1>1. ExchangeIInv => HoleHasBothSides /\ NoSocketLeft BY Zenon DEF ExchangeIInv
<1> QED BY <1>1, ExchangeInvariance, PTL

-----------------------------------------------------------------------------
(***************************************************************************)
(* The hole.  With one socket the receiver is at its select while the      *)
(* waiter waits, and has returned the socket when it answers.              *)
(***************************************************************************)
HoleIInv ==
  /\ HoleTypeOK /\ HoleAgreed
  /\ \A s \in HoleSocket : s \notin listenConns => waiters[s] \notin {"wait", "answered"}
  /\ Cardinality(listenConns) = 1 =>
       \A s \in HoleSocket :
         /\ <<"answer", s>> \in punches => receiver = s
         /\ waiters[s] = "wait" => receiver = "select"
         /\ waiters[s] # "answered"

(* The steps of the receiver and of its waiters keep it.                   *)
LEMMA ReceiverKeeps ==
  ASSUME HoleIInv, ReceiverStep \/ \E s \in HoleSocket : WaiterStep(s) PROVE HoleIInv'
<1> USE HoleAssumption DEF HoleIInv, HoleTypeOK, HoleAgreed
<1>1. CASE ReceiverSends BY <1>1 DEF ReceiverSends, SendSidMessages
<1>2. CASE ReachSelect BY Zenon, <1>2 DEF ReachSelect
<1>3. CASE SelectTimesOut BY <1>3 DEF SelectTimesOut
<1>4. ASSUME NEW s \in HoleSocket, WaiterReads(s) PROVE HoleIInv'
  <2>1. Cardinality(listenConns) = 1 => \A t \in HoleSocket : t # s => waiters[t] # "wait"
    <3> SUFFICES ASSUME Cardinality(listenConns) = 1 PROVE \A t \in HoleSocket : t # s => waiters[t] # "wait"
      BY Zenon
    <3>1. IsFiniteSet(listenConns) BY Zenon, FS_Subset
    <3>2. PICK x : listenConns = {x} BY Zenon, <3>1, FS_Singleton
    <3> QED BY Zenon, <1>4, <3>2 DEF WaiterReads
  <2>2. /\ waiters[s] = "wait" /\ s \in openConns
        /\ punches' = (punches \ {<<"toReceiver", s>>}) \cup {<<"answer", s>>}
        /\ UNCHANGED <<listenConns, openConns, sender>>
    BY Zenon, <1>4 DEF WaiterReads
  <2>3. CASE Cardinality(listenConns) = 1
    <3>1. waiters' = [waiters EXCEPT ![s] = "over"] /\ receiver' = s BY Zenon, <1>4, <2>3 DEF WaiterReads
    <3>2. HoleTypeOK' BY <2>2, <3>1
    <3>3. sender \notin HoleSocket /\ \A q \in HoleSocket : <<"answer", q>> \notin punches BY Zenon, <2>2, <2>3
    <3>4. \A q \in HoleSocket : <<"answer", q>> \in punches' => receiver' = q BY Zenon, <2>2, <3>1, <3>3
    <3> QED BY <2>1, <2>2, <2>3, <3>1, <3>2, <3>3, <3>4
  <2>4. CASE Cardinality(listenConns) # 1
    <3>1. waiters' = [waiters EXCEPT ![s] = "answered"] /\ receiver' = receiver BY Zenon, <1>4, <2>4 DEF WaiterReads
    <3>2. HoleTypeOK' BY <2>2, <3>1
    <3> QED BY Zenon, <2>2, <2>4, <3>1, <3>2
  <2> QED BY Zenon, <2>3, <2>4
<1>5. ASSUME NEW s \in HoleSocket, WaiterTimesOut(s) PROVE HoleIInv'
  <2>1. Cardinality(listenConns) = 1 => \A t \in HoleSocket : t # s => waiters[t] # "wait"
    <3> SUFFICES ASSUME Cardinality(listenConns) = 1 PROVE \A t \in HoleSocket : t # s => waiters[t] # "wait"
      OBVIOUS
    <3>1. IsFiniteSet(listenConns) BY FS_Subset
    <3>2. PICK x : listenConns = {x} BY Zenon, <3>1, FS_Singleton
    <3> QED BY Zenon, <1>5, <3>2 DEF WaiterTimesOut
  <2> QED BY Zenon, <1>5, <2>1 DEF WaiterTimesOut
<1>6. ASSUME NEW s \in HoleSocket, WaiterOffers(s) PROVE HoleIInv' BY Zenon, <1>6 DEF WaiterOffers, CloseConn
<1> QED BY Zenon, <1>1, <1>2, <1>3, <1>4, <1>5, <1>6 DEF ReceiverStep, WaiterStep

(* The steps of the sender and of the network keep it.                     *)
LEMMA SenderKeeps ==
  ASSUME HoleIInv,
         \/ SenderSends \/ SenderTimesOut
         \/ \E s \in HoleSocket : SenderReads(s) \/ SendSidMessageToRandomPorts(s)
         \/ \E m \in punches : Lost(m)
  PROVE  HoleIInv'
<1> USE HoleAssumption DEF HoleIInv, HoleTypeOK, HoleAgreed
<1>1. CASE SenderSends BY <1>1 DEF SenderSends, SendSidMessages
<1>2. CASE SenderTimesOut BY Zenon, <1>2 DEF SenderTimesOut
<1>3. ASSUME NEW s \in HoleSocket, SenderReads(s) PROVE HoleIInv' BY Zenon, <1>3 DEF SenderReads, Accepted
<1>4. ASSUME NEW s \in HoleSocket, SendSidMessageToRandomPorts(s) PROVE HoleIInv'
  BY <1>4 DEF SendSidMessageToRandomPorts
<1>5. ASSUME NEW m \in punches, Lost(m) PROVE HoleIInv' BY Zenon, <1>5 DEF Lost
<1> QED BY Zenon, <1>1, <1>2, <1>3, <1>4, <1>5

(* When the receiver listens on one socket the two sides of MakeHole agree *)
(* on the hole, whatever is lost, late or blocked on the way.              *)
THEOREM HoleSafe == HoleSpec => []HoleTypeOK /\ []HoleAgreed
<1>1. HoleInit => HoleIInv BY Zenon, HoleAssumption DEF HoleInit, HoleIInv, HoleTypeOK, HoleAgreed
<1>2. HoleIInv /\ [HoleNext]_holeVars => HoleIInv'
  <2>1. ASSUME HoleIInv, UNCHANGED holeVars PROVE HoleIInv' BY Zenon, <2>1 DEF holeVars, HoleIInv, HoleTypeOK, HoleAgreed
  <2> QED BY Zenon, <2>1, ReceiverKeeps, SenderKeeps DEF HoleNext
<1>3. HoleIInv => HoleTypeOK /\ HoleAgreed BY Zenon DEF HoleIInv
<1> QED BY <1>1, <1>2, <1>3, PTL DEF HoleSpec
=============================================================================

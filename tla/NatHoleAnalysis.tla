-------------------------- MODULE NatHoleAnalysis --------------------------
(***************************************************************************)
(* How frps decides who sends and who receives when two clients make a NAT *)
(* hole: pkg/nathole/classify.go, pkg/nathole/analysis.go and the port     *)
(* ranges of pkg/nathole/controller.go.                                    *)
(*                                                                         *)
(* One client and one visitor, so one record of scores.  A recommendation  *)
(* takes the behaviour with the highest score and lowers it; a reported    *)
(* success raises it.  Reports may be late: the record may have been       *)
(* cleaned and made again since.                                           *)
(***************************************************************************)
EXTENDS StunDiscovery, FiniteSetsExt

CONSTANTS NatAddrs,     \* pairs of <<ip, port>> sequences, of client and visitor
          LocalIP,      \* the local addresses of a public network
          MaxRounds,    \* bound: recommendations
          MaxReports    \* bound: reported successes

(* The addresses come from a STUN server: an IP, here a number, and a port *)
(* each.                                                                   *)
LastPort == 65535
AddrLists == Seq(Nat \X (1 .. LastPort))
ASSUME NatAssumption == NatAddrs \subseteq AddrLists \X AddrLists

VARIABLES addrs,        \* the mapped addresses the two sides discovered
          scores,       \* Analyzer.records[key].scores; <<>> when there is none
          advice,       \* the last recommendation: mode, index, the two behaviours
          given,        \* the modes and indexes recommended, which may succeed
          rounds, reports

natVars == <<addrs, scores, advice, given, rounds, reports>>
-----------------------------------------------------------------------------
(* ClassifyNATFeature; an error is the feature "none".                     *)
IPs(as) == {as[i][1] : i \in DOMAIN as}
Ports(as) == {as[i][2] : i \in DOMAIN as}
Regular(as) == Max(Ports(as)) - Min(Ports(as)) \in 1 .. 5
ClassifyNATFeature(as) ==
  IF Len(as) <= 1 THEN [type |-> "none", difference |-> 0, regular |-> FALSE, public |-> FALSE]
  ELSE LET ip == Cardinality(IPs(as)) > 1
           port == Cardinality(Ports(as)) > 1
       IN  [type |-> IF ip \/ port THEN "hard" ELSE "easy",
            difference |-> IF port /\ ~ip THEN Max(Ports(as)) - Min(Ports(as)) ELSE 0,
            regular |-> port /\ ~ip /\ Regular(as),
            public |-> IPs(as) \cap LocalIP # {}]

(* The tables of behaviours, client first: role, and what else it does.    *)
Sender(delay, random, range) ==
  [role |-> "sender", ttl |-> 0, delay |-> delay, range |-> range, random |-> random, listen |-> 0]
Receiver(ttl, range, listen) ==
  [role |-> "receiver", ttl |-> ttl, delay |-> 0, range |-> range, random |-> 0, listen |-> listen]
Swap(p) == <<p[2], p[1]>>

Mode0 ==
  LET by(ttl) == <<Sender(0, 0, 0), Receiver(ttl, 0, 0)>>
      late(d) == <<Sender(d, 0, 0), Receiver(0, 0, 0)>>
  IN  <<by(7), Swap(by(7)), by(4), Swap(by(4)), by(0), Swap(by(0)),
        late(5000), late(10000), Swap(late(5000)), Swap(late(10000))>>
Mode1 ==
  LET by(d, ttl) == <<Sender(d, 0, 0), Receiver(ttl, 10, 0)>>
  IN  <<by(0, 7), by(2000, 7), by(0, 4), by(2000, 4), by(0, 0), by(2000, 0)>>
Mode2 == [i \in 1 .. 3 |-> <<Sender(3000, 1000, 0), Receiver(<<7, 4, 0>>[i], 0, 256)>>]
Mode3 ==
  LET by(ttl) == <<Sender(0, 0, 10), Receiver(ttl, 10, 0)>>
  IN  <<by(7), by(4), by(0), Swap(by(7)), Swap(by(4)), Swap(by(0))>>
Mode4 == [i \in 1 .. 3 |-> <<Sender(3000, 1000, 0), Receiver(<<7, 4, 0>>[i], 2, 256)>>]

GetBehaviorByMode(mode) == <<Mode0, Mode1, Mode2, Mode3, Mode4>>[mode + 1]

GetBehaviorScoresByMode2(mode, sender, receiver) ==
  [i \in DOMAIN GetBehaviorByMode(mode) |->
     [mode |-> mode, index |-> i,
      score |-> IF GetBehaviorByMode(mode)[i][1].role = "sender" THEN sender ELSE receiver]]
GetBehaviorScoresByMode(mode, score) == GetBehaviorScoresByMode2(mode, score, score)

(* newMakeHoleRecords: the modes that suit the two features.               *)
NewMakeHoleRecords(c, v) ==
  LET hard == {f \in {"c", "v"} : (IF f = "c" THEN c ELSE v).type = "hard"}
      regular == {f \in hard : (IF f = "c" THEN c ELSE v).regular}
      mode0 == IF c.public THEN GetBehaviorScoresByMode2(0, 0, 1)
               ELSE IF v.public THEN GetBehaviorScoresByMode2(0, 1, 0)
               ELSE GetBehaviorScoresByMode(0, 0)
      counts == <<Cardinality(hard), Cardinality(regular)>>
      zero(mode) == GetBehaviorScoresByMode(mode, 0)
  IN  CASE counts[1] = 0 -> mode0
        [] counts = <<1, 1>> -> zero(1) \o zero(2) \o mode0
        [] counts = <<1, 0>> -> zero(2) \o zero(1) \o mode0
        [] counts = <<2, 2>> -> zero(3) \o zero(4)
        [] counts = <<2, 1>> -> zero(4)
        [] OTHER -> GetBehaviorScoresByMode(0, 1) \o GetBehaviorScoresByMode(1, 1)
                      \o GetBehaviorScoresByMode(3, 1)

(* recommand: slices.MaxFunc returns the first of the highest scores.      *)
FirstOfAll(s) == 1
Best(s) == Min({i \in DOMAIN s : \A j \in DOMAIN s : s[j].score <= s[i].score})
Lowered(s, i) == [s EXCEPT ![i].score = @ - 1]

(* The sides are swapped by what they are, not by who they are.            *)
AsListed(mode, c, p) == p
Sides(mode, c, p) ==
  IF \/ mode = 1 /\ c.type = "easy"
     \/ mode = 2 /\ c.type = "hard"
     \/ mode = 4 /\ ~c.regular
  THEN Swap(p) ELSE p

(* getRangePorts: the ports to guess around the last address.              *)
NoLimits(port, difference, number) == <<port - difference - 5, port + difference + 5>>
Around(port, difference, number) ==
  <<Max({port - difference - 5, port - number, 1}), Min({port + difference + 5, port + number, LastPort})>>
GetRangePorts(as, difference, number) ==
  IF number <= 0 \/ as = <<>> THEN <<>>
  ELSE Around(as[Len(as)][2], difference, number)
-----------------------------------------------------------------------------
Client == ClassifyNATFeature(addrs[1])
Visitor == ClassifyNATFeature(addrs[2])
NoAdvice == [mode |-> 0, index |-> 0, c |-> "none", v |-> "none"]
Advised == advice.index # 0

NatInit ==
  /\ addrs \in NatAddrs
  /\ scores = <<>> /\ advice = NoAdvice /\ given = {} /\ rounds = 0 /\ reports = 0

(* analysis: an address list that cannot be classified has no record.      *)
GetRecommandBehaviors ==
  /\ rounds < MaxRounds
  /\ Client.type # "none" /\ Visitor.type # "none"
  /\ \E s \in {IF scores = <<>> THEN NewMakeHoleRecords(Client, Visitor) ELSE scores} :
       LET i == Best(s)
           p == Sides(s[i].mode, Client, GetBehaviorByMode(s[i].mode)[s[i].index])
       IN  /\ scores' = Lowered(s, i)
           /\ advice' = [mode |-> s[i].mode, index |-> s[i].index, c |-> p[1], v |-> p[2]]
           /\ given' = given \cup {<<s[i].mode, s[i].index>>}
  /\ rounds' = rounds + 1
  /\ UNCHANGED <<addrs, reports>>

Unlimited(n) == n + 2
Raised(n) == Min({n + 2, 10})
ReportSuccess(mode, index) ==
  /\ reports < MaxReports /\ <<mode, index>> \in given
  /\ scores' = [i \in DOMAIN scores |->
                  IF scores[i].mode = mode /\ scores[i].index = index
                  THEN [scores[i] EXCEPT !.score = Raised(@)] ELSE scores[i]]
  /\ reports' = reports + 1
  /\ UNCHANGED <<addrs, advice, given, rounds>>

(* Clean, of CleanWorker: the record was not used for a while.             *)
CleanRecord ==
  /\ scores # <<>> /\ scores' = <<>>
  /\ UNCHANGED <<addrs, advice, given, rounds, reports>>

NatNext ==
  \/ GetRecommandBehaviors \/ CleanRecord
  \/ \E g \in given : ReportSuccess(g[1], g[2])
NatSpec == NatInit /\ [][NatNext]_natVars
-----------------------------------------------------------------------------
NatTypeOK ==
  /\ addrs \in NatAddrs /\ rounds \in 0 .. MaxRounds /\ reports \in 0 .. MaxReports
  /\ \A i \in DOMAIN scores : scores[i].mode \in 0 .. 4 /\ scores[i].score \in Int

(* One side sends and the other receives; in mode 1 the side with the hard *)
(* NAT sends, in mode 2 it receives, and in mode 4 the side whose ports    *)
(* change regularly sends, whichever of the two it is.                     *)
RolesSuitNATs ==
  Advised =>
    LET sends == IF advice.c.role = "sender" THEN Client ELSE Visitor
        gets == IF advice.c.role = "sender" THEN Visitor ELSE Client
    IN  /\ {advice.c.role, advice.v.role} = {"sender", "receiver"}
        /\ advice.mode = 1 => sends.type = "hard"
        /\ advice.mode = 2 => gets.type = "hard"
        /\ advice.mode = 4 => sends.regular

HoldsLast(g, as) == g = <<>> \/ (1 <= g[1] /\ g[2] <= LastPort /\ as[Len(as)][2] \in g[1] .. g[2])

(* The ports a side is told to guess are ports there are, and hold the     *)
(* last one the other side was seen to use.                                *)
GuessesHoldPort ==
  Advised =>
    /\ HoldsLast(GetRangePorts(addrs[2], Visitor.difference, advice.c.range), addrs[2])
    /\ HoldsLast(GetRangePorts(addrs[1], Client.difference, advice.v.range), addrs[1])

(* While nothing is reported every behaviour is tried before one is tried  *)
(* again: a hole that some behaviour can make is not missed for ever.      *)
AllTriedInTurn ==
  reports = 0 => \A i, j \in DOMAIN scores : scores[i].score - scores[j].score \in -1 .. 1

(* A behaviour that always works is not remembered for ever: its score is  *)
(* never above 10, so as many failures as that bring the others back.      *)
ScoresAtMostTen == \A i \in DOMAIN scores : scores[i].score <= 10

(* The comment on behaviorScore.Score: "between -10 and 10".               *)
ScoresInRange == \A i \in DOMAIN scores : scores[i].score \in -10 .. 10

(* The comment on mode 0: "PublicNetwork is always receiver".              *)
PublicReceives ==
  Advised /\ advice.mode = 0 =>
    /\ Client.public => advice.c.role = "receiver"
    /\ Visitor.public /\ ~Client.public => advice.v.role = "receiver"

(* The advice for two clients rests on the right answers and suits their   *)
(* NATs: STUN replies belong to their requests, the roles and the ports to *)
(* guess fit what was seen, and all behaviours have their turn with scores *)
(* in bounds.                                                              *)
NatHoleAdvised ==
  /\ RepliesMatch /\ RolesSuitNATs /\ GuessesHoldPort
  /\ AllTriedInTurn /\ ScoresAtMostTen
=============================================================================

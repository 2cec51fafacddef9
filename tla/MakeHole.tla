------------------------------ MODULE MakeHole ------------------------------
(***************************************************************************)
(* MakeHole of pkg/nathole/nathole.go, run by both sides at once: a sender *)
(* with one socket, and a receiver that in modes 2 and 4 listens on many   *)
(* (ListenRandomPorts).  A message may be lost, delayed or blocked by a    *)
(* NAT; a request is one with Response false.  A waiter is a               *)
(* waitDetectMessage on one socket.                                        *)
(***************************************************************************)
EXTENDS Naturals, FiniteSets

CONSTANTS HoleSocket,   \* the sockets the receiver may listen on
          NoHole        \* MakeHole returned an error

ASSUME HoleAssumption ==
  IsFiniteSet(HoleSocket) /\ HoleSocket \cap {NoHole, "send", "start", "select", "wait"} = {}

VARIABLES
  listenConns,  \* the receiver's sockets
  openConns,    \* those not closed
  punches,      \* requests and responses on their way
  waiters,      \* the receiver's waiters
  receiver,     \* its MakeHole: sending, at the select, or what it returned
  sender        \* the sender's MakeHole: waiting, or the socket it talks to

holeVars == <<listenConns, openConns, punches, waiters, receiver, sender>>

HoleTypeOK ==
  /\ listenConns \subseteq HoleSocket /\ openConns \subseteq listenConns
  /\ punches \subseteq {"toReceiver", "toSender", "answer"} \X HoleSocket
  /\ waiters \in [HoleSocket -> {"none", "wait", "answered", "over"}]
  /\ receiver \in {"send", "start", "select", NoHole} \cup HoleSocket
  /\ sender \in {"send", "wait", NoHole} \cup HoleSocket

HoleInit ==
  /\ listenConns \in SUBSET HoleSocket \ {{}} /\ openConns = listenConns
  /\ punches = {} /\ waiters = [s \in HoleSocket |-> "none"]
  /\ receiver = "send" /\ sender = "send"
-----------------------------------------------------------------------------
(* Sending the requests: to the addresses, to the ports in range, and to   *)
(* random ports.  Which of them arrive is up to the NATs.                  *)
SendSidMessages(who, next, reached) ==
  /\ who = "send" /\ punches' = punches \cup reached
  /\ next
SenderSends ==
  /\ \E ss \in SUBSET listenConns :
       SendSidMessages(sender, sender' = "wait", {<<"toReceiver", s>> : s \in ss})
  /\ UNCHANGED <<listenConns, openConns, waiters, receiver>>
ReceiverSends ==
  /\ \E ss \in SUBSET listenConns :
       SendSidMessages(receiver, receiver' = IF Cardinality(listenConns) = 1 THEN "select" ELSE "start",
                       {<<"toSender", s>> : s \in ss})
  /\ waiters' = [s \in HoleSocket |-> IF s \in listenConns THEN "wait" ELSE "none"]
  /\ UNCHANGED <<listenConns, openConns, sender>>

(* The sender goes on sending to random ports while it waits.              *)
SendSidMessageToRandomPorts(s) ==
  /\ sender = "wait" /\ s \in listenConns
  /\ punches' = punches \cup {<<"toReceiver", s>>}
  /\ UNCHANGED <<listenConns, openConns, waiters, receiver, sender>>

(* With several sockets the waiters run before MakeHole is at its select.  *)
ReachSelect ==
  /\ receiver = "start" /\ receiver' = "select"
  /\ UNCHANGED <<listenConns, openConns, punches, waiters, sender>>
-----------------------------------------------------------------------------
(* waitDetectMessage takes a response, and a receiver also a request,      *)
(* which it answers.                                                       *)
AcceptsAny(role, m) == m \in {"toReceiver", "answer", "toSender"}
Accepted(role, m) == m = "answer" \/ (role = "receiver" /\ m = "toReceiver")

WaiterReads(s) ==
  /\ waiters[s] = "wait" /\ s \in openConns
  /\ <<"toReceiver", s>> \in punches /\ Accepted("receiver", "toReceiver")
  /\ punches' = (punches \ {<<"toReceiver", s>>}) \cup {<<"answer", s>>}
  /\ IF Cardinality(listenConns) = 1
     THEN waiters' = [waiters EXCEPT ![s] = "over"] /\ receiver' = s
     ELSE waiters' = [waiters EXCEPT ![s] = "answered"] /\ UNCHANGED receiver
  /\ UNCHANGED <<listenConns, openConns, sender>>

WaiterTimesOut(s) ==
  /\ waiters[s] = "wait" /\ waiters' = [waiters EXCEPT ![s] = "over"]
  /\ openConns' = openConns \ {s}
  /\ receiver' = IF Cardinality(listenConns) = 1 THEN NoHole ELSE receiver
  /\ UNCHANGED <<listenConns, punches, sender>>

(* The waiter hands its socket to a MakeHole at the select, or closes it.  *)
LeaveConn(s) == openConns
CloseConn(s) == openConns \ {s}
WaiterOffers(s) ==
  /\ waiters[s] = "answered" /\ waiters' = [waiters EXCEPT ![s] = "over"]
  /\ IF receiver = "select" THEN receiver' = s /\ UNCHANGED openConns
     ELSE openConns' = CloseConn(s) /\ UNCHANGED receiver
  /\ UNCHANGED <<listenConns, punches, sender>>

(* The select times out, or the visitor is closed; the waiters go on.      *)
SelectTimesOut ==
  /\ receiver = "select" /\ Cardinality(listenConns) > 1 /\ receiver' = NoHole
  /\ UNCHANGED <<listenConns, openConns, punches, waiters, sender>>

SenderReads(s) ==
  /\ sender = "wait"
  /\ \E m \in {"toSender", "answer"} :
       /\ <<m, s>> \in punches /\ punches' = punches \ {<<m, s>>}
       /\ sender' = IF Accepted("sender", m) THEN s ELSE sender
  /\ UNCHANGED <<listenConns, openConns, waiters, receiver>>

SenderTimesOut ==
  /\ sender = "wait" /\ sender' = NoHole
  /\ UNCHANGED <<listenConns, openConns, punches, waiters, receiver>>

Lost(m) ==
  /\ m \in punches /\ punches' = punches \ {m}
  /\ UNCHANGED <<listenConns, openConns, waiters, receiver, sender>>
-----------------------------------------------------------------------------
ReceiverStep ==
  \/ ReceiverSends \/ ReachSelect \/ SelectTimesOut
WaiterStep(s) == WaiterReads(s) \/ WaiterTimesOut(s) \/ WaiterOffers(s)
HoleNext ==
  \/ ReceiverStep \/ SenderSends \/ SenderTimesOut
  \/ \E s \in HoleSocket : WaiterStep(s) \/ SenderReads(s) \/ SendSidMessageToRandomPorts(s)
  \/ \E m \in punches : Lost(m)

(* Reads have deadlines and the select a timeout.                          *)
HoleFairness ==
  /\ WF_holeVars(ReceiverStep) /\ WF_holeVars(SenderSends) /\ WF_holeVars(SenderTimesOut)
  /\ \A s \in HoleSocket : WF_holeVars(WaiterStep(s))
HoleSpec == HoleInit /\ [][HoleNext]_holeVars /\ HoleFairness
-----------------------------------------------------------------------------
(* When the receiver listens on one socket the two sides agree: a sender   *)
(* that has made the hole talks to a receiver that has made it too.        *)
HoleAgreed ==
  Cardinality(listenConns) = 1 /\ sender \in HoleSocket => receiver = sender

(* Of the many sockets of a receiver only the one it returns stays open,   *)
(* whichever waiters answered, lost the race for the select or timed out.  *)
OtherSocketsClosed ==
  []<>(Cardinality(listenConns) > 1 => \A s \in openConns : receiver = s)
=============================================================================

----------------------------- MODULE MessageBus -----------------------------
(***************************************************************************)
(* The control connection between client and server: the Dispatcher of     *)
(* pkg/msg/handler.go on both ends, the lanes of pkg/transport/message.go  *)
(* on the client, and which handlers run inside the read loop.  The server *)
(* answers NewProxy and Ping from its read loop ("ask" and "answer"), and  *)
(* NAT hole requests and requests for work connections from goroutines.    *)
(* The client's read loop only takes locks; where senders hold the lock it *)
(* needs while they send (holdsLock), it may wait for one of them.         *)
(***************************************************************************)
EXTENDS Integers, Sequences

CONSTANTS Lane,     \* transactions of the client
          BusCap,  \* capacity of a sendCh
          WireCap   \* what the network holds in one direction

ASSUME BusAssumption == BusCap \in Nat \ {0} /\ WireCap \in Nat \ {0}

VARIABLES
  holdsLock,  \* whether the client's sender holds its lock while it sends
  sendCh,     \* the sendCh of each side
  wire2,      \* what each side has written and the other not read
  reader,     \* readLoop: reading, a reply it must send, waiting for a lock, or over
  sendLoop,   \* sendLoop: running or over
  doneCh,     \* closed
  pusher,     \* a goroutine of the client that sends, and whether Send has it
  lane,       \* Do: idle, waiting, the response is there, over
  pending,    \* lanes a goroutine of the server will answer
  cutOff      \* the connection is broken

busVars == <<holdsLock, sendCh, wire2, reader, sendLoop, doneCh, pusher, lane, pending, cutOff>>
BusSide == {"client", "server"}
Other(s) == IF s = "client" THEN "server" ELSE "client"
BusMsg == {"ask", "answer", "close", "work"} \cup Lane

BusTypeOK ==
  /\ holdsLock \in BOOLEAN /\ cutOff \in BOOLEAN
  /\ \A s \in BusSide : /\ Len(sendCh[s]) <= BusCap /\ Len(wire2[s]) <= WireCap
                        /\ \A i \in 1..Len(sendCh[s]) : sendCh[s][i] \in BusMsg
                        /\ \A i \in 1..Len(wire2[s]) : wire2[s][i] \in BusMsg
  /\ reader \in [BusSide -> {"read", "reply", "mutex", "over"}]
  /\ sendLoop \in [BusSide -> {"run", "over"}] /\ doneCh \in [BusSide -> BOOLEAN]
  /\ pusher \in {"idle", "ask", "close"}
  /\ lane \in [Lane -> {"idle", "send", "wait", "here", "over"}] /\ pending \subseteq Lane

BusInit ==
  /\ holdsLock \in BOOLEAN /\ cutOff = FALSE
  /\ sendCh = [s \in BusSide |-> <<>>] /\ wire2 = [s \in BusSide |-> <<>>]
  /\ reader = [s \in BusSide |-> "read"] /\ sendLoop = [s \in BusSide |-> "run"]
  /\ doneCh = [s \in BusSide |-> FALSE]
  /\ pusher = "idle" /\ lane = [l \in Lane |-> "idle"] /\ pending = {}
-----------------------------------------------------------------------------
(* Send: into the channel if there is room, or io.EOF once doneCh is       *)
(* closed; when both can go on, either, and the message may be lost.       *)
AlwaysRoom(s) == TRUE
Room(s) == Len(sendCh[s]) < BusCap
DeafSend(s, m) == Room(s) /\ sendCh' = [sendCh EXCEPT ![s] = Append(@, m)]
Send(s, m) ==
  \/ DeafSend(s, m)
  \/ doneCh[s] /\ UNCHANGED sendCh

OutlivesConn(s) == FALSE
SeesDone(s) == doneCh[s]
SendLoop(s) ==
  /\ sendLoop[s] = "run"
  /\ \/ /\ sendCh[s] # <<>> /\ (cutOff \/ Len(wire2[s]) < WireCap)
        /\ sendCh' = [sendCh EXCEPT ![s] = Tail(@)]
        /\ wire2' = IF cutOff THEN wire2 ELSE [wire2 EXCEPT ![s] = Append(@, Head(sendCh[s]))]
        /\ UNCHANGED sendLoop
     \/ /\ SeesDone(s) /\ sendLoop' = [sendLoop EXCEPT ![s] = "over"] /\ UNCHANGED <<sendCh, wire2>>
  /\ UNCHANGED <<holdsLock, reader, doneCh, pusher, lane, pending, cutOff>>

(* What the read loop does after a message, per the registered handlers.   *)
AnswersInline(s, m) == IF m \in {"ask", "work"} THEN "reply" ELSE "read"
HandlerOf(s, m) ==
  CASE s = "server" /\ m = "ask" -> "reply"
    [] s = "client" /\ m = "answer" /\ holdsLock /\ pusher # "idle" -> "mutex"
    [] OTHER -> "read"

(* A response goes to the channel of its lane, which has room for one, if  *)
(* the lane still waits.                                                   *)
DispatchWithType(l) == lane' = [lane EXCEPT ![l] = IF @ = "wait" THEN "here" ELSE @]

ReadLoop(s) ==
  LET in == wire2[Other(s)]
  IN /\ reader[s] = "read"
     /\ \/ /\ cutOff /\ reader' = [reader EXCEPT ![s] = "over"]
           /\ doneCh' = [doneCh EXCEPT ![s] = TRUE] /\ UNCHANGED <<wire2, lane, pending>>
        \/ /\ ~cutOff /\ in # <<>>
           /\ wire2' = [wire2 EXCEPT ![Other(s)] = Tail(@)]
           /\ reader' = [reader EXCEPT ![s] = HandlerOf(s, Head(in))]
           /\ pending' = IF s = "server" /\ Head(in) \in Lane THEN pending \cup {Head(in)} ELSE pending
           /\ IF s = "client" /\ Head(in) \in Lane THEN DispatchWithType(Head(in)) ELSE UNCHANGED lane
           /\ UNCHANGED doneCh
     /\ UNCHANGED <<holdsLock, sendCh, sendLoop, pusher, cutOff>>

ReaderReplies(s) ==
  /\ reader[s] = "reply" /\ Send(s, "answer") /\ reader' = [reader EXCEPT ![s] = "read"]
  /\ UNCHANGED <<holdsLock, wire2, sendLoop, doneCh, pusher, lane, pending, cutOff>>
ReaderUnlocked ==
  /\ reader["client"] = "mutex" /\ pusher = "idle" /\ reader' = [reader EXCEPT !["client"] = "read"]
  /\ UNCHANGED <<holdsLock, sendCh, wire2, sendLoop, doneCh, pusher, lane, pending, cutOff>>
-----------------------------------------------------------------------------
(* Goroutines that send: a checkWorker or UpdateAll of the client, the     *)
(* requests for work connections and the NAT hole answers of the server.   *)
PusherBegins(m) ==
  /\ pusher = "idle" /\ ~doneCh["client"] /\ pusher' = m
  /\ UNCHANGED <<holdsLock, sendCh, wire2, reader, sendLoop, doneCh, lane, pending, cutOff>>
PusherSent ==
  /\ pusher # "idle" /\ Send("client", pusher) /\ pusher' = "idle"
  /\ UNCHANGED <<holdsLock, wire2, reader, sendLoop, doneCh, lane, pending, cutOff>>
ReqWorkConn ==
  /\ ~doneCh["server"] /\ DeafSend("server", "work")
  /\ UNCHANGED <<holdsLock, wire2, reader, sendLoop, doneCh, pusher, lane, pending, cutOff>>
AnswerLane(l) ==
  /\ l \in pending /\ Send("server", l) /\ pending' = pending \ {l}
  /\ UNCHANGED <<holdsLock, wire2, reader, sendLoop, doneCh, pusher, lane, cutOff>>

(* Do: register, send, wait for the response or for the context.           *)
DoBegins(l) ==
  /\ lane[l] = "idle" /\ lane' = [lane EXCEPT ![l] = "send"]
  /\ UNCHANGED <<holdsLock, sendCh, wire2, reader, sendLoop, doneCh, pusher, pending, cutOff>>
DoSends(l) ==
  /\ lane[l] = "send" /\ Send("client", l) /\ lane' = [lane EXCEPT ![l] = "wait"]
  /\ UNCHANGED <<holdsLock, wire2, reader, sendLoop, doneCh, pusher, pending, cutOff>>
DoReturns(l) ==
  /\ lane[l] \in {"wait", "here"} /\ lane' = [lane EXCEPT ![l] = "over"]
  /\ UNCHANGED <<holdsLock, sendCh, wire2, reader, sendLoop, doneCh, pusher, pending, cutOff>>

BreakBus ==
  /\ ~cutOff /\ cutOff' = TRUE /\ wire2' = [s \in BusSide |-> <<>>]
  /\ UNCHANGED <<holdsLock, sendCh, reader, sendLoop, doneCh, pusher, lane, pending>>

ReaderStep(s) == ReadLoop(s) \/ ReaderReplies(s) \/ (s = "client" /\ ReaderUnlocked)
BusNext ==
  \/ \E s \in BusSide : SendLoop(s) \/ ReaderStep(s)
  \/ \E m \in {"ask", "close"} : PusherBegins(m)
  \/ PusherSent \/ ReqWorkConn \/ BreakBus
  \/ \E l \in Lane : AnswerLane(l) \/ DoBegins(l) \/ DoSends(l) \/ DoReturns(l)

(* The loops run, and a Send that can return does, also against others.    *)
BusFairness ==
  /\ \A s \in BusSide : WF_busVars(SendLoop(s)) /\ SF_busVars(ReaderStep(s))
  /\ SF_busVars(PusherSent)
  /\ \A l \in Lane : SF_busVars(AnswerLane(l)) /\ SF_busVars(DoSends(l)) /\ WF_busVars(DoReturns(l))
BusSpec == BusInit /\ [][BusNext]_busVars /\ BusFairness
-----------------------------------------------------------------------------
(* Full queues on both sides do not wait for each other: a Send of the     *)
(* client returns, and the server's read loop gets its answer away, as the *)
(* client's read loop never waits for a send.  That takes a client whose   *)
(* senders do not hold the lock its read loop needs.                       *)
SendReturns ==
  /\ []<>(holdsLock \/ pusher = "idle")
  /\ []<>(holdsLock \/ reader["server"] # "reply")

(* Do always returns: with the response, or because the context or the     *)
(* connection is over, however late the response is.                       *)
DoEnds == \A l \in Lane : []<>(holdsLock \/ lane[l] \in {"idle", "over"})

(* A broken connection leaves no goroutine of a dispatcher behind, not     *)
(* even where senders hold locks.                                          *)
LoopsEnd ==
  []<>(cutOff => \A s \in BusSide : reader[s] = "over" /\ sendLoop[s] = "over")

(* Neither end of a control connection waits for the other for good: Send  *)
(* returns, Do gets its answer or times out, and the loops end with the    *)
(* connection, though handlers send from the read loop on bounded queues.  *)
BusNeverStuck ==
  SendReturns /\ DoEnds /\ LoopsEnd
=============================================================================

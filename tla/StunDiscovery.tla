--------------------------- MODULE StunDiscovery ---------------------------
(***************************************************************************)
(* Discover of pkg/nathole/discovery.go, from Prepare: one socket asks a   *)
(* STUN server for its external address, and again at the other address    *)
(* that the server names.  A read loop passes replies on by a channel; the *)
(* replies may be late, and, where dups holds, come twice.                 *)
(***************************************************************************)
EXTENDS Integers, Sequences

CONSTANTS StunServers  \* how many STUN servers are configured

VARIABLES
  dups,         \* whether the network repeats a reply
  request,      \* the number of the request that was sent last
  discover,     \* Discover: about to send, waiting, closing, returned, failed
  replies,      \* replies on their way, each the number of its request
  messageChan,  \* the replies read, and whether the channel is closed
  readLoop,     \* idle, over, or about to send the reply it holds
  addresses     \* the addresses found: the request waited for, and that of the reply

stunVars == <<dups, request, discover, replies, messageChan, readLoop, addresses>>

StunTypeOK ==
  /\ dups \in BOOLEAN /\ request \in 0..2 * StunServers
  /\ discover \in {"send", "wait", "close", "closing", "returned", "failed"}
  /\ replies \subseteq (1..2 * StunServers) \X {1, 2}
  /\ messageChan.open \in BOOLEAN /\ messageChan.q \in Seq(1..2 * StunServers)
  /\ readLoop \in [at : {"idle", "holds", "over", "panics", "stuck"}, reply : 0..2 * StunServers]
  /\ addresses \in Seq([asked : 1..2 * StunServers, got : 1..2 * StunServers])

Reading == [at |-> "idle", reply |-> 0]
StunInit ==
  /\ dups \in BOOLEAN /\ request = 0 /\ discover = "send" /\ replies = {}
  /\ messageChan = [open |-> TRUE, q |-> <<>>] /\ readLoop = Reading /\ addresses = <<>>
-----------------------------------------------------------------------------
(* doSTUNRequest sends, then waits for whatever message comes next.        *)
DoSTUNRequest ==
  /\ discover = "send" /\ request < 2 * StunServers
  /\ request' = request + 1 /\ discover' = "wait"
  /\ replies' = replies \cup ({request + 1} \X (IF dups THEN {1, 2} ELSE {1}))
  /\ UNCHANGED <<dups, messageChan, readLoop, addresses>>

TakeReply ==
  /\ discover = "wait" /\ messageChan.q # <<>>
  /\ addresses' = Append(addresses, [asked |-> request, got |-> Head(messageChan.q)])
  /\ messageChan' = [messageChan EXCEPT !.q = Tail(@)]
  /\ discover' = IF request = 2 * StunServers THEN "close" ELSE "send"
  /\ UNCHANGED <<dups, request, replies, readLoop>>

(* The server has no other address: the next one is asked.                 *)
NoOtherAddr ==
  /\ discover = "send" /\ request % 2 = 1 /\ request' = request + 1
  /\ discover' = IF request' = 2 * StunServers THEN "close" ELSE "send"
  /\ UNCHANGED <<dups, replies, messageChan, readLoop, addresses>>

(* A timeout, an error or a reply without an address ends Discover.        *)
AskNext == IF request = 2 * StunServers THEN "close" ELSE "send"
GivesUp == "failed"
ResponseTimeout ==
  /\ discover = "wait" /\ discover' = GivesUp
  /\ UNCHANGED <<dups, request, replies, messageChan, readLoop, addresses>>

(* The deferred Close: the channel, then the socket.                       *)
CloseChan ==
  /\ discover \in {"close", "failed"} /\ messageChan.open
  /\ messageChan' = [messageChan EXCEPT !.open = FALSE]
  /\ discover' = IF discover = "close" THEN "closing" ELSE discover
  /\ UNCHANGED <<dups, request, replies, readLoop, addresses>>
CloseSocket ==
  /\ ~messageChan.open /\ discover \in {"closing", "failed"}
  /\ discover' = IF discover = "closing" THEN "returned" ELSE discover
  /\ replies' = {} /\ readLoop' = IF readLoop.at = "idle" THEN [readLoop EXCEPT !.at = "over"] ELSE readLoop
  /\ UNCHANGED <<dups, request, messageChan, addresses>>

ReadFromUDP ==
  /\ readLoop.at = "idle"
  /\ \E r \in replies : readLoop' = [at |-> "holds", reply |-> r[1]] /\ replies' = replies \ {r}
  /\ UNCHANGED <<dups, request, discover, messageChan, addresses>>

(* A channel closed while the loop has a reply: the send panics, or, when  *)
(* it finds the field set to nil, waits for ever.                          *)
PassOn ==
  /\ readLoop.at = "holds"
  /\ IF messageChan.open
     THEN messageChan' = [messageChan EXCEPT !.q = Append(@, readLoop.reply)] /\ readLoop' = Reading
     ELSE readLoop' \in [at : {"panics", "stuck"}, reply : {0}] /\ UNCHANGED messageChan
  /\ UNCHANGED <<dups, request, discover, replies, addresses>>

StunNext ==
  \/ DoSTUNRequest \/ TakeReply \/ NoOtherAddr \/ ResponseTimeout
  \/ CloseChan \/ CloseSocket \/ ReadFromUDP \/ PassOn
StunSpec == StunInit /\ [][StunNext]_stunVars
-----------------------------------------------------------------------------
(* Without repeated replies each address is the reply to the request it    *)
(* was waited for: a reply that is late never passes for that to the next  *)
(* request, though nobody compares transaction IDs.                        *)
RepliesMatch == ~dups => \A i \in 1..Len(addresses) : addresses[i].asked = addresses[i].got
=============================================================================

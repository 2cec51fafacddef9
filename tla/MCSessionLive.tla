---------------------------- MODULE MCSessionLive -----------------------------
(***************************************************************************)
(* What must end or come back around a session: the client's login, reload *)
(* and reconnection, the messages of a session in both directions, and the *)
(* exchange of addresses of two clients that want a direct tunnel. They    *)
(* share no state, so one of them is chosen at the start (area) and the    *)
(* others stay as they are; the fairness is each component's own.          *)
(***************************************************************************)
EXTENDS ClientService, NatHoleExchange, MessageBus

CONSTANTS r1, r2   \* the rounds of the exchange

VARIABLE area

Areas == {"service", "exchange", "bus"}

allVars == <<area, svcVars, exchangeVars, busVars>>

Fixed(a, state, states) == area # a => state = CHOOSE s \in states : TRUE

SumInit ==
    /\ area \in Areas
    /\ SvcInit /\ Fixed("service", server, {"fresh", "any"})
    /\ ExchangeInit
    /\ BusInit /\ Fixed("bus", holdsLock, BOOLEAN)

SumNext ==
    \/ /\ area = "service" /\ SvcNext
       /\ UNCHANGED <<area, exchangeVars, busVars>>
    \/ /\ area = "exchange" /\ ExchangeNext
       /\ UNCHANGED <<area, svcVars, busVars>>
    \/ /\ area = "bus" /\ BusNext
       /\ UNCHANGED <<area, svcVars, exchangeVars>>

In(a) == area = a

(* The strongly fair steps, those of different components in one: only one *)
(* of the disjuncts belongs to the chosen area.                            *)
StrongStep1 ==
    \/ In("service")  /\ (\E s \in Session : OpenConnector(s)) /\ UNCHANGED <<exchangeVars, busVars>>
    \/ In("exchange") /\ OfferSid(r1)        /\ UNCHANGED <<svcVars, busVars>>
    \/ In("bus")      /\ ReaderStep("client") /\ UNCHANGED <<svcVars, exchangeVars>>

StrongStep2 ==
    \/ In("service")  /\ ConnectServer       /\ UNCHANGED <<exchangeVars, busVars>>
    \/ In("exchange") /\ OfferSid(r2)        /\ UNCHANGED <<svcVars, busVars>>
    \/ In("bus")      /\ ReaderStep("server") /\ UNCHANGED <<svcVars, exchangeVars>>

StrongStep3 ==
    \/ In("service")  /\ ExchangeLogin       /\ UNCHANGED <<exchangeVars, busVars>>
    \/ In("bus")      /\ PusherSent          /\ UNCHANGED <<svcVars, exchangeVars>>

SumFairness ==
    /\ SF_allVars(StrongStep1 /\ UNCHANGED area) /\ SF_allVars(StrongStep2 /\ UNCHANGED area)
    /\ SF_allVars(StrongStep3 /\ UNCHANGED area)
    /\ WF_svcVars(In("service") /\ ReadConfig) /\ WF_svcVars(In("service") /\ ControlRun)
    /\ WF_svcVars(In("service") /\ Publish) /\ WF_svcVars(In("service") /\ KeepControllerWorking)
    /\ WF_svcVars(In("service") /\ LoginOver)
    /\ WF_svcVars(In("service") /\ LoginFails(FALSE) /\ login.at # "open")
    /\ WF_svcVars(In("service") /\ StopService) /\ WF_svcVars(In("service") /\ CopyControl)
    /\ WF_svcVars(In("service") /\ ApplyConfig)
    /\ \A s \in Session : WF_svcVars(In("service") /\ Worker(s)) /\ WF_svcVars(In("service") /\ HeartbeatTimeout(s))
    /\ \A i \in Incarnation : WF_exchangeVars(In("exchange") /\ (\E ok \in BOOLEAN : SidLoopStep(i, ok)))
    /\ \A r \in Round :
         /\ WF_exchangeVars(In("exchange") /\ ControllerStep(r)) /\ WF_exchangeVars(In("exchange") /\ HandleClient(r))
         /\ WF_exchangeVars(In("exchange") /\ visitor[r].at # "idle" /\ VisitorStep(r))
         /\ WF_exchangeVars(In("exchange") /\ provider[r].at # "serve" /\ ProviderStep(r))
    /\ \A s \in BusSide : WF_busVars(In("bus") /\ SendLoop(s))
    /\ \A l \in Lane : /\ SF_busVars(In("bus") /\ AnswerLane(l)) /\ SF_busVars(In("bus") /\ DoSends(l))
                       /\ WF_busVars(In("bus") /\ DoReturns(l))

SumSpec == SumInit /\ [][SumNext]_allVars /\ SumFairness

(* Every variable of the chosen component keeps to its type: the states of *)
(* the code's goroutines, tables and channels are the ones modelled.       *)
TypeOK ==
    /\ area \in Areas
    /\ area = "service" => SvcTypeOK
    /\ area = "exchange" => ExchangeTypeOK
    /\ area = "bus" => BusTypeOK

(* A client keeps a session that works: it logs in again after a loss, and *)
(* on the control connection neither end waits for the other for good      *)
(* (keepControllerWorking, Dispatcher.Send and its loops, Do).             *)
SessionKept ==
    Reconnects /\ BusNeverStuck
===============================================================================

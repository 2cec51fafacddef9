---------------------- MODULE ProxyRegistrationProofs ----------------------
(***************************************************************************)
(* Proofs about ProxyRegistration, for any number of controls, proxies,    *)
(* names and ports: the names, the tables of ports, what is left of a      *)
(* session, the count behind maxPortsPerClient, and who holds the ports.   *)
(***************************************************************************)
EXTENDS ProxyRegistration, TLAPS

(* What Acquire returns: a port or an error, and the port asked for if one *)
(* was.                                                                    *)
LEMMA AcquirableType ==
  ASSUME NEW pm \in Managers, NEW o \in Owner, NEW want, NEW avail \in SUBSET Port,
         NEW q \in Acquirable(pm, o, want, avail)
  PROVE  /\ q \in Port \cup {None}
         /\ want # AnyPort => q \in {want, None}
BY Zenon, PortAssumption DEF Acquirable, Managers

(* Acquiring a port keeps the manager well formed and partitioned, and     *)
(* changes the owner of that port only.                                    *)
LEMMA MarkedFacts ==
  ASSUME NEW pm \in Managers, NEW o \in Owner, NEW q \in Port
  PROVE  /\ Marked(pm, o, q) \in Managers
         /\ Marked(pm, o, q).used = [pm.used EXCEPT ![q] = o]
         /\ Partitioned(pm) => Partitioned(Marked(pm, o, q))
<1> DEFINE m == Marked(pm, o, q)
<1>1. m \in Managers
  BY ZenonT(30), PortAssumption DEF Marked, Managers
<1>2. m.used = [pm.used EXCEPT ![q] = o] /\ m.free = pm.free \ {q}
  BY Zenon DEF Marked, Managers
<1>3. ASSUME Partitioned(pm) PROVE Partitioned(m)
  <2>1. pm.used \in [Port -> Owner \cup {None}] BY Zenon DEF Managers
  <2> QED BY <1>2, <1>3, <2>1, PortAssumption DEF Partitioned
<1> QED BY Zenon, <1>1, <1>2, <1>3

(* So does releasing a port, whoever owns it.                              *)
LEMMA ReleasedFacts ==
  ASSUME NEW pm \in Managers, NEW q \in Port \cup {None}
  PROVE  /\ Released(pm, q) \in Managers
         /\ q \in Port => Released(pm, q).used = [pm.used EXCEPT ![q] = None]
         /\ q = None => Released(pm, q) = pm
         /\ Partitioned(pm) => Partitioned(Released(pm, q))
<1>1. CASE q = None \/ pm.used[q] = None
  <2>1. Released(pm, q) = pm BY Zenon, <1>1 DEF Released
  <2>2. q \in Port => pm.used = [pm.used EXCEPT ![q] = None]
    BY Zenon, <1>1, PortAssumption DEF Managers
  <2> QED BY Zenon, <2>1, <2>2
<1>2. CASE q \in Port /\ pm.used[q] # None
  <2> DEFINE n == NameOf[pm.used[q]]
             r == [pm EXCEPT !.free = @ \cup {q}, !.used[q] = None,
                             !.closed[n] = @ \/ pm.reserved[n] = q]
  <2>1. Released(pm, q) = r BY Zenon, <1>2, PortAssumption DEF Released
  <2>2. pm.used \in [Port -> Owner \cup {None}] /\ n \in PortName
    BY Zenon, <1>2, PortAssumption DEF Managers
  <2>3. r \in Managers BY ZenonT(30), <1>2, <2>2, PortAssumption DEF Managers
  <2>4. r.used = [pm.used EXCEPT ![q] = None] /\ r.free = pm.free \cup {q}
    BY Zenon DEF Managers
  <2>5. Partitioned(pm) => Partitioned(r)
    BY Zenon, <1>2, <2>2, <2>4 DEF Partitioned
  <2> QED BY Zenon, <1>2, <2>1, <2>3, <2>4, <2>5, PortAssumption
<1> QED BY Zenon, <1>1, <1>2

(* And the cleaner.                                                        *)
LEMMA CleanedFacts ==
  ASSUME NEW pm \in Managers, NEW n \in PortName
  PROVE  /\ Cleaned(pm, n) \in Managers
         /\ Cleaned(pm, n).used = pm.used /\ Cleaned(pm, n).free = pm.free
BY Zenon DEF Cleaned, Managers
-----------------------------------------------------------------------------
(* A control's goroutine works on one proxy at a time, and on none once    *)
(* the control is gone.                                                    *)
Settled == {"none", "open", "closed"}

OneAtATime ==
  /\ \A p \in Pxy : pc[p] \notin Settled => busy[CtlOf[p]] = p
  /\ \A c \in Ctl : up[c] = "gone" =>
        busy[c] = None /\ \A p \in Pxy : CtlOf[p] = c => pc[p] # "open"

(* A proxy that a manager records as the user of a port has that port as   *)
(* its realBindPort and is at a point where it will still release it.      *)
HoldsTCP == {"acquiringUDP", "listening", "listeningUDP", "failing", "failingTCP",
             "adding", "aborting", "abortingPorts", "open", "closing", "closingPorts"}
HoldsUDP == {"listening", "listeningUDP", "failing", "adding", "aborting",
             "abortingPorts", "open", "closing", "closingPorts"}

UsersKnown ==
  /\ \A p \in Pxy : pc[p] = "acquiringUDP" => Kind[p] \in {"udp", "tcpudp"}
  /\ \A p \in Pxy, q \in Port :
       /\ tcp.used[q] = p => real[p] = q /\ pc[p] \in HoldsTCP /\ Kind[p] \in {"tcp", "tcpudp"}
       /\ udp.used[q] = p => real[p] = q /\ pc[p] \in HoldsUDP /\ Kind[p] \in {"udp", "tcpudp"}

IInv == TypeOK /\ NameOwned /\ PortsPartitioned /\ OneAtATime /\ UsersKnown

(* The names of the proxies are among the names of the owners.             *)
LEMMA NameFacts ==
  ASSUME NEW p \in Pxy
  PROVE  /\ p \in Owner /\ NameOf[p] \in ProxyName /\ NameOf[p] \in PortName
         /\ CtlOf[p] \in Ctl /\ p # None
         /\ Kind[p] = "mc" => Want[p] \in Port /\ Mux[Want[p]] \in Owner \ Pxy
BY Zenon, PortAssumption, ProxyAssumption DEF ProxyName

(* The empty manager is well formed and partitioned.                       *)
LEMMA NewManagerFacts ==
  NewManager \in Managers /\ Partitioned(NewManager)
BY Zenon DEF NewManager, Managers, Partitioned

(* The initial states satisfy the invariant.                               *)
LEMMA InitIInv == Init => IInv
<1> SUFFICES ASSUME Init PROVE IInv BY Zenon
<1>1. TypeOK
  BY NewManagerFacts, PortAssumption, ProxyAssumption DEF Init, TypeOK, PC
<1>2. NameOwned
  BY SMTT(30), NameFacts DEF Init, NameOwned, Registered
<1>3. PortsPartitioned
  BY Zenon, NewManagerFacts DEF Init, PortsPartitioned
<1>4. OneAtATime
  BY Zenon DEF Init, OneAtATime, Settled
<1>5. UsersKnown
  <2>1. tcp.used = [q \in Port |-> None] /\ udp.used = [q \in Port |-> None]
    BY Zenon DEF Init, NewManager
  <2> QED BY SMTT(30), <2>1, NameFacts DEF UsersKnown, Init
<1> QED BY Zenon, <1>1, <1>2, <1>3, <1>4, <1>5 DEF IInv

(* A step moves the managers only by acquiring, releasing and cleaning.    *)
Moves(pm, next) ==
  \/ next = pm
  \/ \E o \in Owner, q \in Port : next = Marked(pm, o, q) \/ next = Released(Marked(pm, o, q), q)
  \/ \E q \in Port \cup {None} : next = Released(pm, q)
  \/ \E n \in PortName : next = Cleaned(pm, n)

(* A move of a port manager leaves a port manager whose free and used      *)
(* ports are still a partition.                                            *)
LEMMA MovesKeep ==
  ASSUME NEW pm \in Managers, NEW next, Moves(pm, next)
  PROVE  next \in Managers /\ (Partitioned(pm) => Partitioned(next))
<1>1. CASE next = pm BY Zenon, <1>1
<1>2. ASSUME NEW o \in Owner, NEW q \in Port,
             next = Marked(pm, o, q) \/ next = Released(Marked(pm, o, q), q)
      PROVE  next \in Managers /\ (Partitioned(pm) => Partitioned(next))
  <2>1. /\ Marked(pm, o, q) \in Managers
        /\ Partitioned(pm) => Partitioned(Marked(pm, o, q))
    BY Zenon, MarkedFacts
  <2>2. /\ Released(Marked(pm, o, q), q) \in Managers
        /\ Partitioned(Marked(pm, o, q)) => Partitioned(Released(Marked(pm, o, q), q))
    BY Zenon, <2>1, ReleasedFacts
  <2> QED BY Zenon, <1>2, <2>1, <2>2
<1>3. ASSUME NEW q \in Port \cup {None}, next = Released(pm, q)
      PROVE  next \in Managers /\ (Partitioned(pm) => Partitioned(next))
  BY Zenon, <1>3, ReleasedFacts
<1>4. ASSUME NEW n \in PortName, next = Cleaned(pm, n)
      PROVE  next \in Managers /\ (Partitioned(pm) => Partitioned(next))
  BY Zenon, <1>4, CleanedFacts DEF Partitioned
<1> QED BY Zenon, <1>1, <1>2, <1>3, <1>4 DEF Moves

(* Every step of the registration moves the two port managers so, or       *)
(* leaves them alone.                                                      *)
LEMMA NextMoves ==
  ASSUME TypeOK, Next
  PROVE  Moves(tcp, tcp') /\ Moves(udp, udp')
<1> USE DEF portVars, muxVars, ctlVars
<1>1. ASSUME NEW p \in Pxy,
             \/ RejectProxy(p) \/ CountPorts(p) \/ CheckExist(p) \/ ListenTCP(p)
             \/ ListenUDP(p) \/ Undo(p) \/ AddProxy(p) \/ CloseProxy(p) \/ Drain(p)
             \/ CloseListeners(p) \/ DelProxy(p) \/ ForwarderReturns(p)
      PROVE  tcp' = tcp /\ udp' = udp
  BY Zenon, <1>1 DEF RejectProxy, CountPorts, CheckExist, ListenTCP, ListenUDP, Undo, AddProxy,
     CloseProxy, Drain, CloseListeners, DelProxy, ForwarderReturns
<1>2. ASSUME NEW p \in Pxy, AcquireTCP(p) \/ AcquireUDP(p)
      PROVE  Moves(tcp, tcp') /\ Moves(udp, udp')
  <2>1. tcp \in Managers /\ udp \in Managers BY Zenon DEF TypeOK
  <2>2. ASSUME NEW avail \in SUBSET Bindable(tcpSock),
               NEW q \in Acquirable(tcp, p, Want[p], avail), q # None
        PROVE  q \in Port
    BY Zenon, <2>1, <2>2, AcquirableType, NameFacts DEF Bindable
  <2>3. ASSUME NEW avail \in SUBSET Bindable(udpSock), NEW want,
               NEW q \in Acquirable(udp, p, want, avail), q # None
        PROVE  q \in Port
    BY Zenon, <2>1, <2>3, AcquirableType, NameFacts DEF Bindable
  <2> QED BY Zenon, <1>2, <2>2, <2>3, NameFacts DEF AcquireTCP, AcquireUDP, Moves
<1>3. ASSUME NEW p \in Pxy, ListenMC(p)
      PROVE  Moves(tcp, tcp') /\ Moves(udp, udp')
  BY Zenon, <1>3, NameFacts DEF ListenMC, Moves
<1>4. ASSUME NEW p \in Pxy, FailUDP(p) \/ FailTCP(p) \/ ReleasePorts(p) \/ ForwarderCloses(p)
      PROVE  Moves(tcp, tcp') /\ Moves(udp, udp')
  <2>1. real[p] \in Port \cup {None} BY Zenon DEF TypeOK
  <2>2. Kind[p] = "mc" => Want[p] \in Port BY Zenon, NameFacts
  <2> QED BY Zenon, <1>4, <2>1, <2>2 DEF FailUDP, FailTCP, ReleasePorts, ForwarderCloses, GiveBack, Moves
<1>5. ASSUME NEW c \in Ctl, Disconnect(c) \/ Finish(c)
      PROVE  tcp' = tcp /\ udp' = udp
  BY Zenon, <1>5 DEF Disconnect, Finish
<1>6. ASSUME NEW n \in PortName, CleanReserved(n)
      PROVE  Moves(tcp, tcp') /\ Moves(udp, udp')
  BY Zenon, <1>6 DEF CleanReserved, Moves
<1> QED BY Zenon, <1>1, <1>2, <1>3, <1>4, <1>5, <1>6 DEF Next, Running, Moves

(* portsUsedNum stays an integer.                                          *)
LEMMA CountType ==
  ASSUME TypeOK, NEW p \in Pxy, Count(CtlOf[p], Uses(p)) \/ Uncount(CtlOf[p], Uses(p))
  PROVE  usedNum' \in [Ctl -> Int]
<1>1. Uses(p) \in Int /\ -Uses(p) \in Int /\ CtlOf[p] \in Ctl BY NameFacts DEF Uses
<1>2. usedNum \in [Ctl -> Int] BY Zenon DEF TypeOK
<1> QED BY <1>1, <1>2, ProxyAssumption DEF Count, Uncount

(* Every step keeps the types.                                             *)
LEMMA TypeStep ==
  ASSUME TypeOK, Next
  PROVE  TypeOK'
<1> USE DEF portVars, muxVars, ctlVars, Step
<1>0. tcp' \in Managers /\ udp' \in Managers
  BY Zenon, NextMoves, MovesKeep DEF TypeOK
<1>1. ASSUME NEW p \in Pxy, RejectProxy(p) PROVE TypeOK'
  BY Zenon, <1>0, <1>1 DEF TypeOK, PC, RejectProxy
<1>2. ASSUME NEW p \in Pxy, CountPorts(p) PROVE TypeOK'
  BY Zenon, <1>0, <1>2, CountType DEF TypeOK, PC, CountPorts
<1>3. ASSUME NEW p \in Pxy, CheckExist(p) PROVE TypeOK'
  BY Zenon, <1>0, <1>3 DEF TypeOK, PC, CheckExist
<1>4. ASSUME NEW p \in Pxy, ListenTCP(p) PROVE TypeOK'
  BY <1>0, <1>4, NameFacts DEF TypeOK, PC, ListenTCP
<1>5. ASSUME NEW p \in Pxy, ListenUDP(p) PROVE TypeOK'
  <2>1. udpSock' \in [Port -> Owner \cup {None}]
    <3>1. udpSock' = udpSock \/ udpSock' = [udpSock EXCEPT ![real[p]] = p]
      BY Zenon, <1>5 DEF ListenUDP
    <3>2. udpSock \in [Port -> Owner \cup {None}] /\ p \in Owner BY Zenon, NameFacts DEF TypeOK
    <3> QED BY Zenon, <3>1, <3>2
  <2>2. pc' \in [Pxy -> PC]
    BY <1>5 DEF TypeOK, PC, ListenUDP
  <2>3. fwd' \in [Pxy -> {"off", "reading", "closing", "done"}]
    BY Zenon, <1>5 DEF TypeOK, ListenUDP
  <2> QED BY Zenon, <1>0, <1>5, <2>1, <2>2, <2>3 DEF TypeOK, ListenUDP
<1>6. ASSUME NEW p \in Pxy, ListenMC(p) PROVE TypeOK'
  BY <1>0, <1>6, NameFacts DEF TypeOK, PC, ListenMC
<1>7. ASSUME NEW p \in Pxy, FailUDP(p) PROVE TypeOK'
  BY Zenon, <1>0, <1>7 DEF TypeOK, PC, FailUDP
<1>8. ASSUME NEW p \in Pxy, FailTCP(p) PROVE TypeOK'
  BY Zenon, <1>0, <1>8 DEF TypeOK, PC, FailTCP
<1>9. ASSUME NEW p \in Pxy, Undo(p) PROVE TypeOK'
  BY Zenon, <1>0, <1>9, CountType DEF TypeOK, PC, Undo
<1>10. ASSUME NEW p \in Pxy, AddProxy(p) PROVE TypeOK'
  BY SMTT(30), <1>0, <1>10, NameFacts DEF TypeOK, PC, AddProxy
<1>11. ASSUME NEW p \in Pxy, CloseProxy(p) PROVE TypeOK'
  BY Zenon, <1>0, <1>11, CountType DEF TypeOK, PC, CloseProxy
<1>12. ASSUME NEW p \in Pxy, Drain(p) PROVE TypeOK'
  BY Zenon, <1>0, <1>12 DEF TypeOK, PC, Drain
<1>13. ASSUME NEW p \in Pxy, CloseListeners(p) PROVE TypeOK'
  BY Zenon, <1>0, <1>13, NameFacts DEF TypeOK, PC, CloseListeners, Unbound
<1>14. ASSUME NEW p \in Pxy, ReleasePorts(p) PROVE TypeOK'
  BY SMTT(30), <1>0, <1>14, NameFacts DEF TypeOK, PC, ReleasePorts, Unbound
<1>15. ASSUME NEW p \in Pxy, DelProxy(p) PROVE TypeOK'
  BY Zenon, <1>0, <1>15 DEF TypeOK, PC, DelProxy
<1>16. ASSUME NEW p \in Pxy, ForwarderReturns(p) PROVE TypeOK'
  BY Zenon, <1>0, <1>16 DEF TypeOK, PC, ForwarderReturns
<1>17. ASSUME NEW p \in Pxy, ForwarderCloses(p) PROVE TypeOK'
  BY Zenon, <1>0, <1>17 DEF TypeOK, PC, ForwarderCloses
<1>18. ASSUME NEW p \in Pxy, AcquireTCP(p) \/ AcquireUDP(p) PROVE TypeOK'
  <2>1. tcp \in Managers /\ udp \in Managers BY DEF TypeOK
  <2>2. ASSUME NEW avail \in SUBSET Port, NEW want,
               NEW q \in Acquirable(tcp, p, want, avail) \cup Acquirable(udp, p, want, avail)
        PROVE  q \in Port \cup {None}
    BY Zenon, <2>1, AcquirableType, NameFacts
  <2>3. real' \in [Pxy -> Port \cup {None}]
    BY <1>18, <2>2 DEF TypeOK, AcquireTCP, AcquireUDP, Bindable
  <2>4. pc' \in [Pxy -> PC]
    BY <1>18 DEF TypeOK, PC, AcquireTCP, AcquireUDP
  <2> QED BY Zenon, <1>0, <1>18, <2>3, <2>4 DEF TypeOK, AcquireTCP, AcquireUDP
<1>19. ASSUME NEW c \in Ctl, Disconnect(c) PROVE TypeOK'
  BY Zenon, <1>0, <1>19 DEF TypeOK, Disconnect
<1>20. ASSUME NEW c \in Ctl, Finish(c) PROVE TypeOK'
  BY Zenon, <1>0, <1>20 DEF TypeOK, Finish
<1>21. ASSUME NEW n \in PortName, CleanReserved(n) PROVE TypeOK'
  BY Zenon, <1>0, <1>21 DEF TypeOK, CleanReserved
<1> HIDE DEF TypeOK
<1> QED
  BY Zenon, <1>1, <1>2, <1>3, <1>4, <1>5, <1>6, <1>7, <1>8, <1>9, <1>10, <1>11, <1>12,
     <1>13, <1>14, <1>15, <1>16, <1>17, <1>18, <1>19, <1>20, <1>21
     DEF Next, Running

(* Every step keeps the owners of the names and the discipline of the      *)
(* goroutines.                                                             *)
LEMMA NameStep ==
  ASSUME TypeOK, NameOwned, OneAtATime, Next
  PROVE  NameOwned' /\ OneAtATime'
<1> DEFINE Goal == NameOwned' /\ OneAtATime'
<1> USE DEF ctlVars, Step, Idle
<1>0. /\ pc \in [Pxy -> PC] /\ busy \in [Ctl -> Pxy \cup {None}]
      /\ up \in [Ctl -> {"up", "draining", "gone"}] /\ pxys \in [ProxyName -> Pxy \cup {None}]
      /\ \A p \in Pxy : NameOf[p] \in ProxyName /\ CtlOf[p] \in Ctl /\ p # None
  BY Zenon, NameFacts DEF TypeOK
<1>1. ASSUME NEW p \in Pxy, RejectProxy(p) PROVE Goal
  BY <1>0, <1>1 DEF NameOwned, Registered, OneAtATime, Settled, RejectProxy
<1>2. ASSUME NEW p \in Pxy, CountPorts(p) PROVE Goal
  BY <1>0, <1>2 DEF NameOwned, Registered, OneAtATime, Settled, CountPorts
<1>3. ASSUME NEW p \in Pxy, CheckExist(p) PROVE Goal
  BY <1>0, <1>3 DEF NameOwned, Registered, OneAtATime, Settled, CheckExist
<1>4. ASSUME NEW p \in Pxy, AcquireTCP(p) PROVE Goal
  BY <1>0, <1>4 DEF NameOwned, Registered, OneAtATime, Settled, AcquireTCP
<1>5. ASSUME NEW p \in Pxy, AcquireUDP(p) PROVE Goal
  BY <1>0, <1>5 DEF NameOwned, Registered, OneAtATime, Settled, AcquireUDP
<1>6. ASSUME NEW p \in Pxy, ListenTCP(p) PROVE Goal
  BY <1>0, <1>6 DEF NameOwned, Registered, OneAtATime, Settled, ListenTCP
<1>7. ASSUME NEW p \in Pxy, ListenUDP(p) PROVE Goal
  BY <1>0, <1>7 DEF NameOwned, Registered, OneAtATime, Settled, ListenUDP
<1>8. ASSUME NEW p \in Pxy, ListenMC(p) PROVE Goal
  BY <1>0, <1>8 DEF NameOwned, Registered, OneAtATime, Settled, ListenMC
<1>9. ASSUME NEW p \in Pxy, FailUDP(p) PROVE Goal
  BY <1>0, <1>9 DEF NameOwned, Registered, OneAtATime, Settled, FailUDP
<1>10. ASSUME NEW p \in Pxy, FailTCP(p) PROVE Goal
  BY <1>0, <1>10 DEF NameOwned, Registered, OneAtATime, Settled, FailTCP
<1>11. ASSUME NEW p \in Pxy, Undo(p) PROVE Goal
  BY <1>0, <1>11 DEF NameOwned, Registered, OneAtATime, Settled, Undo
<1>12. ASSUME NEW p \in Pxy, AddProxy(p) PROVE Goal
  BY <1>0, <1>12 DEF NameOwned, Registered, OneAtATime, Settled, AddProxy, Addable
<1>13. ASSUME NEW p \in Pxy, CloseProxy(p) PROVE Goal
  BY <1>0, <1>13 DEF NameOwned, Registered, OneAtATime, Settled, CloseProxy
<1>14. ASSUME NEW p \in Pxy, Drain(p) PROVE Goal
  BY <1>0, <1>14 DEF NameOwned, Registered, OneAtATime, Settled, Drain
<1>15. ASSUME NEW p \in Pxy, CloseListeners(p) PROVE Goal
  BY <1>0, <1>15 DEF NameOwned, Registered, OneAtATime, Settled, CloseListeners
<1>16. ASSUME NEW p \in Pxy, ReleasePorts(p) PROVE Goal
  BY <1>0, <1>16 DEF NameOwned, Registered, OneAtATime, Settled, ReleasePorts
<1>17. ASSUME NEW p \in Pxy, DelProxy(p) PROVE Goal
  BY <1>0, <1>17 DEF NameOwned, Registered, OneAtATime, Settled, DelProxy
<1>18. ASSUME NEW p \in Pxy, ForwarderReturns(p) PROVE Goal
  BY SMTT(60), <1>0, <1>18 DEF NameOwned, Registered, OneAtATime, Settled, ForwarderReturns
<1>19. ASSUME NEW p \in Pxy, ForwarderCloses(p) PROVE Goal
  BY <1>0, <1>19 DEF NameOwned, Registered, OneAtATime, Settled, ForwarderCloses
<1>20. ASSUME NEW c \in Ctl, Disconnect(c) PROVE Goal
  BY <1>0, <1>20 DEF NameOwned, Registered, OneAtATime, Settled, Disconnect
<1>21. ASSUME NEW c \in Ctl, Finish(c) PROVE Goal
  BY <1>0, <1>21 DEF NameOwned, Registered, OneAtATime, Settled, Finish
<1>22. ASSUME NEW n \in PortName, CleanReserved(n) PROVE Goal
  BY <1>0, <1>22 DEF NameOwned, Registered, OneAtATime, Settled, CleanReserved
<1> HIDE DEF Goal
<1>23. Goal
  BY Zenon, <1>1, <1>2, <1>3, <1>4, <1>5, <1>6, <1>7, <1>8, <1>9, <1>10, <1>11, <1>12,
     <1>13, <1>14, <1>15, <1>16, <1>17, <1>18, <1>19, <1>20, <1>21, <1>22
     DEF Next, Running
<1> QED BY Zenon, <1>23 DEF Goal

(* A step that moves one proxy, acquires nothing and lets go of no port    *)
(* without releasing it keeps the users of the ports known.                *)
LEMMA UsersFrame ==
  ASSUME TypeOK, UsersKnown, NEW p \in Pxy, NEW to,
         pc' = [pc EXCEPT ![p] = to], real' = real,
         \A r \in Pxy, q \in Port : tcp'.used[q] = r => tcp.used[q] = r,
         \A r \in Pxy, q \in Port : udp'.used[q] = r => udp.used[q] = r,
         pc[p] \in HoldsTCP => to \in HoldsTCP \/ \A q \in Port : tcp'.used[q] # p,
         pc[p] \in HoldsUDP => to \in HoldsUDP \/ \A q \in Port : udp'.used[q] # p,
         to = "acquiringUDP" => Kind[p] \in {"udp", "tcpudp"}
  PROVE  UsersKnown'
<1>1. pc \in [Pxy -> PC] BY Zenon DEF TypeOK
<1>2. ASSUME NEW r \in Pxy PROVE pc'[r] = IF r = p THEN to ELSE pc[r] BY Zenon, <1>1
<1>3. ASSUME NEW r \in Pxy, pc'[r] = "acquiringUDP" PROVE Kind[r] \in {"udp", "tcpudp"}
  BY <1>2, <1>3 DEF UsersKnown
<1>4. ASSUME NEW r \in Pxy, NEW q \in Port, tcp'.used[q] = r
      PROVE  real[r] = q /\ pc'[r] \in HoldsTCP /\ Kind[r] \in {"tcp", "tcpudp"}
  BY <1>2, <1>4 DEF UsersKnown
<1>5. ASSUME NEW r \in Pxy, NEW q \in Port, udp'.used[q] = r
      PROVE  real[r] = q /\ pc'[r] \in HoldsUDP /\ Kind[r] \in {"udp", "tcpudp"}
  BY <1>2, <1>5 DEF UsersKnown
<1> QED BY Zenon, <1>3, <1>4, <1>5 DEF UsersKnown

(* Every step keeps the users of the ports known.                          *)
LEMMA UsersStep ==
  ASSUME TypeOK, UsersKnown, Next
  PROVE  UsersKnown'
<1> USE DEF portVars, muxVars, Step
<1>0. /\ pc \in [Pxy -> PC] /\ real \in [Pxy -> Port \cup {None}]
      /\ tcp \in Managers /\ udp \in Managers
      /\ tcp.used \in [Port -> Owner \cup {None}] /\ udp.used \in [Port -> Owner \cup {None}]
      /\ \A p \in Pxy : p \in Owner /\ p # None /\ Kind[p] \in Kinds
      /\ AnyPort \notin Port \cup {None} /\ None \notin Port
  BY Zenon, NameFacts, PortAssumption, ProxyAssumption DEF TypeOK, Managers
<1>1. ASSUME NEW p \in Pxy, RejectProxy(p) PROVE UsersKnown'
  BY Zenon, <1>0, <1>1, UsersFrame DEF HoldsTCP, HoldsUDP, Kinds, RejectProxy
<1>2. ASSUME NEW p \in Pxy, CountPorts(p) PROVE UsersKnown'
  BY Zenon, <1>0, <1>2, UsersFrame DEF HoldsTCP, HoldsUDP, Kinds, CountPorts
<1>3. ASSUME NEW p \in Pxy, CheckExist(p) PROVE UsersKnown'
  BY Zenon, <1>0, <1>3, UsersFrame DEF HoldsTCP, HoldsUDP, Kinds, CheckExist
<1>4. ASSUME NEW p \in Pxy, ListenTCP(p) PROVE UsersKnown'
  <2>1. Kind[p] = "tcp" => \A q \in Port : udp.used[q] # p BY Zenon DEF UsersKnown
  <2>2. /\ pc[p] = "listening" /\ real' = real /\ tcp' = tcp /\ udp' = udp
        /\ \/ \E to \in {"adding", "listeningUDP", "failing"} : pc' = [pc EXCEPT ![p] = to]
           \/ Kind[p] = "tcp" /\ pc' = [pc EXCEPT ![p] = "failingTCP"]
    BY Zenon, <1>4 DEF ListenTCP
  <2> QED BY Zenon, <2>1, <2>2, UsersFrame DEF HoldsTCP, HoldsUDP
<1>5. ASSUME NEW p \in Pxy, ListenUDP(p) PROVE UsersKnown'
  BY Zenon, <1>0, <1>5, UsersFrame DEF HoldsTCP, HoldsUDP, Kinds, ListenUDP
<1>6. ASSUME NEW p \in Pxy, Undo(p) PROVE UsersKnown'
  BY Zenon, <1>0, <1>6, UsersFrame DEF HoldsTCP, HoldsUDP, Kinds, Undo
<1>7. ASSUME NEW p \in Pxy, AddProxy(p) PROVE UsersKnown'
  BY Zenon, <1>0, <1>7, UsersFrame DEF HoldsTCP, HoldsUDP, Kinds, AddProxy
<1>8. ASSUME NEW p \in Pxy, CloseProxy(p) PROVE UsersKnown'
  BY Zenon, <1>0, <1>8, UsersFrame DEF HoldsTCP, HoldsUDP, Kinds, CloseProxy
<1>9. ASSUME NEW p \in Pxy, Drain(p) PROVE UsersKnown'
  BY Zenon, <1>0, <1>9, UsersFrame DEF HoldsTCP, HoldsUDP, Kinds, Drain
<1>10. ASSUME NEW p \in Pxy, CloseListeners(p) PROVE UsersKnown'
  BY Zenon, <1>0, <1>10, UsersFrame DEF HoldsTCP, HoldsUDP, Kinds, CloseListeners
<1>11. ASSUME NEW p \in Pxy, DelProxy(p) PROVE UsersKnown'
  BY Zenon, <1>0, <1>11, UsersFrame DEF HoldsTCP, HoldsUDP, Kinds, DelProxy
<1>12. ASSUME NEW p \in Pxy, ForwarderReturns(p) PROVE UsersKnown'
  BY Zenon, <1>12 DEF UsersKnown, ForwarderReturns
<1>13. ASSUME NEW p \in Pxy, AcquireTCP(p) PROVE UsersKnown'
  <2>1. CASE tcp' = tcp /\ real' = real /\ pc' = [pc EXCEPT ![p] = "undoing"]
    BY <1>0, <1>13, <2>1 DEF UsersKnown, HoldsTCP, HoldsUDP, AcquireTCP
  <2>2. ASSUME NEW q \in Port, tcp' = Marked(tcp, p, q), real' = [real EXCEPT ![p] = q]
        PROVE  UsersKnown'
    <3>1. tcp'.used = [tcp.used EXCEPT ![q] = p] BY Zenon, <1>0, <2>2, MarkedFacts
    <3> QED BY <1>0, <1>13, <2>2, <3>1 DEF UsersKnown, HoldsTCP, HoldsUDP, AcquireTCP
  <2>3. ASSUME NEW avail \in SUBSET Bindable(tcpSock),
               NEW q \in Acquirable(tcp, p, Want[p], avail), q # None
        PROVE  q \in Port
    BY Zenon, <1>0, <2>3, AcquirableType DEF Bindable
  <2> QED BY Zenon, <1>13, <2>1, <2>2, <2>3 DEF AcquireTCP
<1>14. ASSUME NEW p \in Pxy, AcquireUDP(p) PROVE UsersKnown'
  <2> DEFINE want == IF Kind[p] = "udp" THEN Want[p] ELSE real[p]
  <2>1. pc[p] = "acquiringUDP" /\ tcp' = tcp BY Zenon, <1>14 DEF AcquireUDP
  <2>0. PICK avail \in SUBSET Bindable(udpSock) : \E q \in Acquirable(udp, p, want, avail) :
          \/ /\ q = None /\ udp' = udp /\ real' = real
             /\ pc' = [pc EXCEPT ![p] = IF Kind[p] = "udp" THEN "undoing" ELSE "failingTCP"]
          \/ /\ q # None /\ udp' = Marked(udp, p, q) /\ real' = [real EXCEPT ![p] = q]
             /\ pc' = [pc EXCEPT ![p] = IF Kind[p] = "udp" THEN "listeningUDP" ELSE "listening"]
    BY Zenon, <1>14 DEF AcquireUDP
  <2>2. PICK q \in Acquirable(udp, p, want, avail) :
          \/ /\ q = None /\ udp' = udp /\ real' = real
             /\ pc' = [pc EXCEPT ![p] = IF Kind[p] = "udp" THEN "undoing" ELSE "failingTCP"]
          \/ /\ q # None /\ udp' = Marked(udp, p, q) /\ real' = [real EXCEPT ![p] = q]
             /\ pc' = [pc EXCEPT ![p] = IF Kind[p] = "udp" THEN "listeningUDP" ELSE "listening"]
    BY Zenon, <2>0
  <2>3. CASE q = None
    BY <1>0, <2>1, <2>2, <2>3 DEF UsersKnown, HoldsTCP, HoldsUDP
  <2>4. CASE q # None
    <3>1. q \in Port \cup {None} /\ (want # AnyPort => q \in {want, None})
      BY Zenon, <1>0, AcquirableType DEF Bindable
    <3>2. q \in Port /\ (Kind[p] # "udp" => q = real[p])
      BY Zenon, <1>0, <2>4, <3>1
    <3>3. udp'.used = [udp.used EXCEPT ![q] = p] BY <1>0, <2>2, <2>4, <3>2, MarkedFacts
    <3>4. \A r \in Pxy, x \in Port : udp'.used[x] = r => (x = q /\ r = p) \/ udp.used[x] = r
      BY Zenon, <1>0, <3>2, <3>3
    <3>5. Kind[p] # "udp" => real' = real
      BY <1>0, <2>2, <2>4, <3>2
    <3> QED BY <1>0, <2>1, <2>2, <2>4, <3>2, <3>4, <3>5 DEF UsersKnown, HoldsTCP, HoldsUDP, Kinds
  <2> QED BY Zenon, <2>3, <2>4
<1>15. ASSUME NEW p \in Pxy, ListenMC(p) PROVE UsersKnown'
  <2>1. Kind[p] = "mc" /\ Want[p] \in Port /\ Mux[Want[p]] \in Owner \ Pxy
    BY Zenon, <1>15, NameFacts DEF ListenMC
  <2> DEFINE m == Mux[Want[p]] marked == Marked(tcp, m, Want[p])
  <2>2. marked \in Managers /\ marked.used = [tcp.used EXCEPT ![Want[p]] = m]
    BY SMTT(60), <1>0, <2>1, MarkedFacts
  <2>3. Released(marked, Want[p]).used = [marked.used EXCEPT ![Want[p]] = None]
    BY Zenon, <2>1, <2>2, ReleasedFacts
  <2>4. \A r \in Pxy, q \in Port : tcp'.used[q] = r => tcp.used[q] = r
    <3>1. tcp' \in {tcp, marked, Released(marked, Want[p])}
      BY Zenon, <1>15 DEF ListenMC
    <3> HIDE DEF marked
    <3> QED BY <1>0, <2>1, <2>2, <2>3, <3>1
  <2>5. /\ pc[p] = "acquiring" /\ real' = real /\ udp' = udp
        /\ pc' = [pc EXCEPT ![p] = "undoing"] \/ pc' = [pc EXCEPT ![p] = "adding"]
    BY Zenon, <1>15 DEF ListenMC
  <2> QED BY Zenon, <2>4, <2>5, UsersFrame DEF HoldsTCP, HoldsUDP
<1>16. ASSUME NEW pm \in Managers, NEW p \in Pxy, NEW q \in Port
      PROVE  \A r \in Pxy : Released(pm, real[p]).used[q] = r =>
               pm.used[q] = r /\ (q # real[p])
  <2>1. pm.used \in [Port -> Owner \cup {None}] BY Zenon DEF Managers
  <2>2. CASE real[p] = None BY ZenonT(30), <1>0, <2>2, ReleasedFacts
  <2>3. CASE real[p] \in Port
    <3>1. Released(pm, real[p]).used = [pm.used EXCEPT ![real[p]] = None]
      BY Zenon, <2>3, ReleasedFacts
    <3> QED BY Zenon, <1>0, <2>1, <2>3, <3>1
  <2> QED BY Zenon, <1>0, <2>2, <2>3
<1>17. ASSUME NEW p \in Pxy, FailUDP(p) PROVE UsersKnown'
  BY <1>0, <1>16, <1>17 DEF UsersKnown, HoldsTCP, HoldsUDP, Kinds, FailUDP, GiveBack
<1>18. ASSUME NEW p \in Pxy, FailTCP(p) PROVE UsersKnown'
  BY <1>0, <1>16, <1>18 DEF UsersKnown, HoldsTCP, HoldsUDP, Kinds, FailTCP, GiveBack
<1>19. ASSUME NEW p \in Pxy, ReleasePorts(p) PROVE UsersKnown'
  <2>1. Kind[p] = "mc" => Want[p] \in Port BY Zenon, NameFacts
  <2>2. \A q \in Port : Kind[p] = "mc" => \A r \in Pxy :
          Released(tcp, Want[p]).used[q] = r => tcp.used[q] = r
    BY ZenonT(30), <1>0, <2>1, ReleasedFacts
  <2>3. \A r \in Pxy, q \in Port :
          /\ tcp'.used[q] = r => tcp.used[q] = r /\ (Kind[p] \in {"tcp", "tcpudp"} => q # real[p])
          /\ udp'.used[q] = r => udp.used[q] = r /\ (Kind[p] \in {"udp", "tcpudp"} => q # real[p])
    BY <1>0, <1>16, <1>19, <2>2 DEF ReleasePorts
  <2> QED BY <1>0, <1>19, <2>3 DEF UsersKnown, HoldsTCP, HoldsUDP, ReleasePorts
<1>20. ASSUME NEW p \in Pxy, ForwarderCloses(p) PROVE UsersKnown'
  <2>1. \A r \in Pxy, q \in Port :
          (tcp'.used[q] = r => tcp.used[q] = r) /\ (udp'.used[q] = r => udp.used[q] = r)
    BY <1>0, <1>16, <1>20 DEF ForwarderCloses
  <2> QED BY <1>0, <1>20, <2>1 DEF UsersKnown, ForwarderCloses
<1>21. ASSUME NEW c \in Ctl, Disconnect(c) PROVE UsersKnown'
  BY Zenon, <1>0, <1>21 DEF UsersKnown, Disconnect
<1>22. ASSUME NEW c \in Ctl, Finish(c) PROVE UsersKnown'
  BY <1>0, <1>22 DEF UsersKnown, Finish
<1>23. ASSUME NEW n \in PortName, CleanReserved(n) PROVE UsersKnown'
  <2>1. tcp'.used = tcp.used /\ udp'.used = udp.used
    BY <1>0, <1>23, CleanedFacts DEF CleanReserved
  <2> QED BY <1>0, <1>23, <2>1 DEF UsersKnown, CleanReserved
<1> HIDE DEF UsersKnown
<1> QED
  BY Zenon, <1>1, <1>2, <1>3, <1>4, <1>5, <1>6, <1>7, <1>8, <1>9, <1>10, <1>11, <1>12,
     <1>13, <1>14, <1>15, <1>17, <1>18, <1>19, <1>20, <1>21, <1>22, <1>23
     DEF Next, Running
-----------------------------------------------------------------------------
(* The invariant holds in every reachable state.                           *)
THEOREM Invariance == Spec => []IInv
<1>1. IInv /\ [Next]_vars => IInv'
  <2> SUFFICES ASSUME IInv, [Next]_vars PROVE IInv' BY Zenon
  <2>1. CASE Next
    <3>1. TypeOK' BY Zenon, <2>1, TypeStep DEF IInv
    <3>2. PortsPartitioned'
      BY Zenon, <2>1, NextMoves, MovesKeep DEF IInv, PortsPartitioned, TypeOK
    <3> QED BY Zenon, <2>1, <3>1, <3>2, NameStep, UsersStep DEF IInv
  <2>2. CASE UNCHANGED vars
    BY <2>2 DEF IInv, vars, TypeOK, NameOwned, Registered, PortsPartitioned, OneAtATime, UsersKnown
  <2> QED BY Zenon, <2>1, <2>2
<1> QED BY InitIInv, <1>1, PTL DEF Spec

(* The state of the registration keeps its types, on every path through    *)
(* RegisterProxy, CloseProxy and the worker.                               *)
THEOREM TypeCorrect == Spec => []TypeOK
BY Invariance, PTL DEF IInv

(* A proxy name belongs to one proxy from Add to Del.                      *)
THEOREM NameSafe == Spec => []NameOwned
BY Invariance, PTL DEF IInv

(* Neither port manager ever loses a port or has one both free and used.   *)
THEOREM PartitionSafe == Spec => []PortsPartitioned
BY Invariance, PTL DEF IInv

(* Once the worker of a control has finished, the managers have no entry   *)
(* of its proxies.                                                         *)
THEOREM GoneSafe == Spec => []GoneLeavesNothing
<1>1. IInv => GoneLeavesNothing
  <2> SUFFICES ASSUME IInv, NEW p \in Pxy, up[CtlOf[p]] = "gone"
               PROVE  /\ \A n \in ProxyName : pxys[n] # p
                      /\ \A q \in Port : tcp.used[q] # p /\ udp.used[q] # p
    BY Zenon DEF GoneLeavesNothing
  <2>1. pc[p] \in {"none", "closed"}
    BY Zenon, NameFacts DEF IInv, OneAtATime, Settled
  <2>2. \A q \in Port : tcp.used[q] # p /\ udp.used[q] # p
    BY Zenon, <2>1 DEF IInv, UsersKnown, HoldsTCP, HoldsUDP
  <2>3. ASSUME NEW n \in ProxyName PROVE pxys[n] # p
    BY Zenon, <2>1 DEF IInv, NameOwned, Registered
  <2> QED BY Zenon, <2>2, <2>3
<1> QED BY Invariance, <1>1, PTL

-----------------------------------------------------------------------------
(***************************************************************************)
(* The ports: the count of a client's, and who holds the TCP ports.        *)
(***************************************************************************)
INSTANCE FiniteSetTheorems

(* The proxies of a control that have a handler behind them are counted in *)
(* portsUsedNum; the set is finite, for every step adds at most one.       *)
Uncounted == {"none", "closing", "closingPorts", "deleting", "closed"}

LimitInv ==
  MaxPorts > 0 =>
    \A c \in Ctl : /\ IsFiniteSet(Counted(c))
                   /\ up[c] = "up" => /\ usedNum[c] = Cardinality(Counted(c))
                                      /\ usedNum[c] <= MaxPorts

(* A step that moves one proxy within the counted or the uncounted states  *)
(* and does not touch portsUsedNum keeps the count exact.                  *)
LEMMA LimitFrame ==
  ASSUME TypeOK, LimitInv, NEW p \in Pxy, NEW to,
         pc' = [pc EXCEPT ![p] = to], usedNum' = usedNum,
         \A c \in Ctl : up'[c] = "up" => up[c] = "up",
         up[CtlOf[p]] # "up" \/ Uses(p) = 0 \/ (pc[p] \in Uncounted <=> to \in Uncounted)
  PROVE  LimitInv'
<1>1. pc \in [Pxy -> PC] BY Zenon DEF TypeOK
<1>2. SUFFICES ASSUME MaxPorts > 0, NEW c \in Ctl
               PROVE  /\ IsFiniteSet(Counted(c))'
                      /\ up'[c] = "up" => /\ usedNum'[c] = Cardinality(Counted(c)')
                                          /\ usedNum'[c] <= MaxPorts
  BY Zenon DEF LimitInv
<1>3. IsFiniteSet(Counted(c)) BY Zenon, <1>2 DEF LimitInv
<1>4. Counted(c)' \in {Counted(c), Counted(c) \cup {p}, Counted(c) \ {p}}
  BY Zenon, <1>1 DEF Counted, Uses
<1>5. IsFiniteSet(Counted(c)')
  BY <1>3, <1>4, FS_AddElement, FS_RemoveElement
<1>6. ASSUME up'[c] = "up" PROVE Counted(c)' = Counted(c)
  BY <1>1, <1>6 DEF Counted, Uses, Uncounted
<1> QED BY Zenon, <1>2, <1>5, <1>6 DEF LimitInv

(* Every step keeps the count exact.                                       *)
LEMMA LimitStep ==
  ASSUME TypeOK, LimitInv, Next
  PROVE  LimitInv'
<1> USE DEF Step, ctlVars
<1>0. /\ pc \in [Pxy -> PC] /\ usedNum \in [Ctl -> Int] /\ MaxPorts \in Nat
      /\ up \in [Ctl -> {"up", "draining", "gone"}]
      /\ \A p \in Pxy : CtlOf[p] \in Ctl /\ Uses(p) \in {0, 1}
  BY Zenon, NameFacts, ProxyAssumption DEF TypeOK, Uses
<1>1. ASSUME NEW p \in Pxy, NEW to, pc' = [pc EXCEPT ![p] = to],
             Count(CtlOf[p], Uses(p)), up' = up, pc[p] \in Uncounted, to \notin Uncounted,
             WithinLimit(CtlOf[p], Uses(p))
      PROVE  LimitInv'
  <2> DEFINE k == CtlOf[p]
  <2>1. SUFFICES ASSUME MaxPorts > 0, NEW c \in Ctl
                 PROVE  /\ IsFiniteSet(Counted(c))'
                        /\ up'[c] = "up" => /\ usedNum'[c] = Cardinality(Counted(c)')
                                            /\ usedNum'[c] <= MaxPorts
    BY Zenon DEF LimitInv
  <2>2. /\ IsFiniteSet(Counted(c))
        /\ up[c] = "up" => usedNum[c] = Cardinality(Counted(c)) /\ usedNum[c] <= MaxPorts
    BY Zenon, <2>1 DEF LimitInv
  <2>3. usedNum' = [usedNum EXCEPT ![k] = @ + Uses(p)] /\ usedNum[k] + Uses(p) <= MaxPorts
    BY <1>0, <1>1, <2>1 DEF Count, WithinLimit
  <2>4. CASE c = k /\ Uses(p) = 1
    <3>1. p \notin Counted(c) /\ Counted(c)' = Counted(c) \cup {p}
      BY Zenon, <1>0, <1>1, <2>4 DEF Counted, Uses, Uncounted
    <3>2. IsFiniteSet(Counted(c)') /\ Cardinality(Counted(c)') = Cardinality(Counted(c)) + 1
      BY Zenon, <2>2, <3>1, FS_AddElement
    <3> QED BY Zenon, <1>0, <1>1, <2>2, <2>3, <2>4, <3>2
  <2>5. CASE ~(c = k /\ Uses(p) = 1)
    <3>1. Counted(c)' = Counted(c)
      BY Zenon, <1>0, <1>1, <2>5 DEF Counted, Uses, Uncounted
    <3>2. usedNum'[c] = usedNum[c]
      BY <1>0, <2>3, <2>5
    <3> QED BY Zenon, <1>1, <2>2, <3>1, <3>2
  <2> QED BY Zenon, <2>4, <2>5
<1>2. ASSUME NEW p \in Pxy, NEW to, pc' = [pc EXCEPT ![p] = to],
             Uncount(CtlOf[p], Uses(p)), up' = up, pc[p] \notin Uncounted, to \in Uncounted
      PROVE  LimitInv'
  <2> DEFINE k == CtlOf[p]
  <2>1. SUFFICES ASSUME MaxPorts > 0, NEW c \in Ctl
                 PROVE  /\ IsFiniteSet(Counted(c))'
                        /\ up'[c] = "up" => /\ usedNum'[c] = Cardinality(Counted(c)')
                                            /\ usedNum'[c] <= MaxPorts
    BY DEF LimitInv
  <2>2. /\ IsFiniteSet(Counted(c))
        /\ up[c] = "up" => usedNum[c] = Cardinality(Counted(c)) /\ usedNum[c] <= MaxPorts
    BY <2>1 DEF LimitInv
  <2>3. usedNum' = [usedNum EXCEPT ![k] = @ + (-Uses(p))]
    BY <1>0, <1>2, <2>1 DEF Count, Uncount
  <2>4. CASE c = k /\ Uses(p) = 1
    <3>1. p \in Counted(c) /\ Counted(c)' = Counted(c) \ {p}
      BY Zenon, <1>0, <1>2, <2>4 DEF Counted, Uses, Uncounted
    <3>2. IsFiniteSet(Counted(c)') /\ Cardinality(Counted(c)') = Cardinality(Counted(c)) - 1
      BY Zenon, <2>2, <3>1, FS_RemoveElement
    <3> QED BY <1>0, <1>2, <2>2, <2>3, <2>4, <3>2
  <2>5. CASE ~(c = k /\ Uses(p) = 1)
    <3>1. Counted(c)' = Counted(c)
      BY Zenon, <1>0, <1>2, <2>5 DEF Counted, Uses, Uncounted
    <3>2. usedNum'[c] = usedNum[c]
      BY <1>0, <2>3, <2>5
    <3> QED BY Zenon, <1>2, <2>2, <3>1, <3>2
  <2> QED BY <2>4, <2>5
<1>3. ASSUME NEW p \in Pxy, CountPorts(p) PROVE LimitInv'
  BY Zenon, <1>1, <1>3 DEF CountPorts, Uncounted
<1>4. ASSUME NEW p \in Pxy, Undo(p) PROVE LimitInv'
  BY Zenon, <1>2, <1>4 DEF Undo, Uncounted
<1>5. ASSUME NEW p \in Pxy, CloseProxy(p) PROVE LimitInv'
  BY Zenon, <1>2, <1>5 DEF CloseProxy, Uncounted
<1>6. ASSUME NEW p \in Pxy,
             \/ RejectProxy(p) \/ CheckExist(p) \/ AcquireTCP(p) \/ AcquireUDP(p) \/ ListenTCP(p)
             \/ ListenUDP(p) \/ ListenMC(p) \/ FailUDP(p) \/ FailTCP(p) \/ AddProxy(p)
             \/ CloseListeners(p) \/ ReleasePorts(p) \/ DelProxy(p)
      PROVE  LimitInv'
  <2>1. /\ up' = up /\ usedNum' = usedNum
        /\ \E to \in PC : pc' = [pc EXCEPT ![p] = to] /\ (pc[p] \in Uncounted <=> to \in Uncounted)
    BY Zenon, <1>6 DEF RejectProxy, CheckExist, AcquireTCP, AcquireUDP, ListenTCP, ListenUDP, ListenMC,
       FailUDP, FailTCP, AddProxy, CloseListeners, ReleasePorts, DelProxy, PC, Uncounted
  <2> QED BY Zenon, <2>1, LimitFrame
<1>7. ASSUME NEW p \in Pxy, Drain(p) PROVE LimitInv'
  BY Zenon, <1>7, LimitFrame DEF Drain
<1>8. ASSUME NEW c \in Ctl, Disconnect(c) \/ Finish(c) PROVE LimitInv'
  <2>1. /\ usedNum' = usedNum /\ pc' = pc
        /\ \A k \in Ctl : up'[k] = "up" => up[k] = "up"
    BY Zenon, <1>0, <1>8 DEF Disconnect, Finish, Idle
  <2>2. \A k \in Ctl : Counted(k)' = Counted(k) BY Zenon, <2>1 DEF Counted
  <2> QED BY Zenon, <2>1, <2>2 DEF LimitInv
<1>9. ASSUME UNCHANGED <<pc, ctlVars>> PROVE LimitInv'
  <2>1. \A k \in Ctl : Counted(k)' = Counted(k) BY Zenon, <1>9 DEF Counted
  <2> QED BY Zenon, <1>9, <2>1 DEF LimitInv
<1>10. ASSUME NEW p \in Pxy, ForwarderReturns(p) \/ ForwarderCloses(p) PROVE LimitInv'
  BY Zenon, <1>9, <1>10 DEF ForwarderReturns, ForwarderCloses
<1>11. ASSUME NEW n \in PortName, CleanReserved(n) PROVE LimitInv'
  BY Zenon, <1>9, <1>11 DEF CleanReserved
<1> HIDE DEF LimitInv
<1> QED BY Zenon, <1>3, <1>4, <1>5, <1>6, <1>7, <1>8, <1>10, <1>11 DEF Next, Running

(* portsUsedNum is exact while the control runs and within the limit, on   *)
(* every path through RegisterProxy and CloseProxy.                        *)
THEOREM LimitSafe == Spec => []LimitExact
<1>1. Init => LimitInv
  <2> SUFFICES ASSUME Init PROVE LimitInv OBVIOUS
  <2>1. \A c \in Ctl : Counted(c) = {} BY Zenon DEF Init, Counted
  <2>2. \A c \in Ctl : usedNum[c] = 0 BY Zenon DEF Init
  <2>3. IsFiniteSet({}) /\ Cardinality({}) = 0 BY Zenon, FS_EmptySet
  <2>4. 0 <= MaxPorts BY ProxyAssumption
  <2>5. ASSUME NEW c \in Ctl
        PROVE  /\ IsFiniteSet(Counted(c)) /\ usedNum[c] = Cardinality(Counted(c))
               /\ usedNum[c] <= MaxPorts
    BY Zenon, <2>1, <2>2, <2>3, <2>4
  <2> QED BY Zenon, <2>5 DEF LimitInv
<1>2. TypeOK /\ LimitInv /\ [Next]_vars => LimitInv'
  <2> SUFFICES ASSUME TypeOK, LimitInv, [Next]_vars PROVE LimitInv' BY Zenon
  <2>1. CASE Next BY Zenon, <2>1, LimitStep
  <2>2. CASE UNCHANGED vars
    <3>1. \A k \in Ctl : Counted(k)' = Counted(k) BY Zenon, <2>2 DEF Counted, vars
    <3> QED BY Zenon, <2>2, <3>1 DEF LimitInv, vars
  <2> QED BY Zenon, <2>1, <2>2
<1>3. LimitInv => LimitExact BY Zenon DEF LimitInv, LimitExact
<1> QED BY <1>1, <1>2, <1>3, TypeCorrect, PTL DEF Spec

-----------------------------------------------------------------------------
(* The configurations in which a TCP port has one user at a time: no proxy *)
(* is tcp+udp, whose forwarder releases the ports a second time, and no    *)
(* tcp proxy leaves the port to the manager, which hands out a reserved    *)
(* port without looking at the free ones.                                  *)
PortsNamed ==
  \A p \in Pxy : Kind[p] # "tcpudp" /\ (Kind[p] = "tcp" => Want[p] \in Port)

(* A tcp proxy has its port from Acquire to Release, its socket from       *)
(* Listen to Close; an mc proxy is a member of the muxer of its port from  *)
(* Listen to the second half of Close.                                     *)
HasPort == {"listening", "failingTCP", "adding", "open", "aborting", "abortingPorts",
            "closing", "closingPorts"}
HasSock == {"adding", "open", "aborting", "closing"}
InMux   == {"adding", "open", "aborting", "abortingPorts", "closing", "closingPorts"}

Members(q) == {p \in Pxy : Kind[p] = "mc" /\ Want[p] = q /\ pc[p] \in InMux}

KindsApart ==
  \A p \in Pxy : /\ pc[p] \in {"acquiringUDP", "listeningUDP", "failing"} => Kind[p] = "udp"
                 /\ pc[p] \in {"listening", "failingTCP"} => Kind[p] = "tcp"
TCPHeld ==
  \A p \in Pxy : Kind[p] = "tcp" =>
    /\ pc[p] \in HasPort => real[p] \in Port /\ tcp.used[real[p]] = p
    /\ pc[p] \in HasSock => tcpSock[real[p]] = p
MuxHeld ==
  \A q \in Port : /\ IsFiniteSet(Members(q)) /\ refs[q] = Cardinality(Members(q))
                  /\ Members(q) # {} => tcp.used[q] = Mux[q] /\ tcpSock[q] = Mux[q]
PortInv == KindsApart /\ TCPHeld /\ MuxHeld

(* What a step of one proxy must leave to the others, and secure for       *)
(* itself, for the tcp proxies to keep their ports.                        *)
LEMMA TCPMove ==
  ASSUME PortInv, NEW p \in Pxy, NEW to,
         \A r \in Pxy : pc'[r] = IF r = p THEN to ELSE pc[r],
         \A r \in Pxy, q \in Port :
           r # p /\ Kind[r] = "tcp" => /\ real'[r] = real[r]
                                       /\ tcp.used[q] = r => tcp'.used[q] = r
                                       /\ tcpSock[q] = r => tcpSock'[q] = r,
         Kind[p] = "tcp" =>
           /\ to \in HasPort => real'[p] \in Port /\ tcp'.used[real'[p]] = p
           /\ to \in HasSock => tcpSock'[real'[p]] = p,
         to \in {"acquiringUDP", "listeningUDP", "failing"} => Kind[p] = "udp",
         to \in {"listening", "failingTCP"} => Kind[p] = "tcp"
  PROVE  KindsApart' /\ TCPHeld'
<1>1. KindsApart' BY Zenon DEF PortInv, KindsApart
<1>2. ASSUME NEW r \in Pxy, Kind[r] = "tcp"
      PROVE  /\ pc'[r] \in HasPort => real'[r] \in Port /\ tcp'.used[real'[r]] = r
             /\ pc'[r] \in HasSock => tcpSock'[real'[r]] = r
  <2>1. CASE r = p BY Zenon, <1>2, <2>1
  <2>2. CASE r # p
    <3>1. pc'[r] = pc[r] BY Zenon, <2>2
    <3>2. HasSock \subseteq HasPort BY Zenon DEF HasSock, HasPort
    <3>3. /\ pc[r] \in HasPort => real[r] \in Port /\ tcp.used[real[r]] = r
          /\ pc[r] \in HasSock => tcpSock[real[r]] = r
      BY Zenon, <1>2 DEF PortInv, TCPHeld
    <3> QED BY <1>2, <2>2, <3>1, <3>2, <3>3
  <2> QED BY Zenon, <2>1, <2>2
<1>3. TCPHeld' BY Zenon, <1>2 DEF TCPHeld
<1> QED BY Zenon, <1>1, <1>3

(* A step that leaves the members of the muxers and their ports alone.     *)
LEMMA MuxStay ==
  ASSUME PortInv, NEW p \in Pxy, NEW to,
         \A r \in Pxy : pc'[r] = IF r = p THEN to ELSE pc[r],
         Kind[p] = "mc" => (to \in InMux <=> pc[p] \in InMux),
         refs' = refs,
         \A q \in Port : /\ tcp.used[q] = Mux[q] => tcp'.used[q] = Mux[q]
                         /\ tcpSock[q] = Mux[q] => tcpSock'[q] = Mux[q]
  PROVE  MuxHeld'
<1>1. \A q \in Port : Members(q)' = Members(q) BY Zenon DEF Members
<1>2. ASSUME NEW q \in Port
      PROVE  /\ IsFiniteSet(Members(q)') /\ refs'[q] = Cardinality(Members(q)')
             /\ Members(q)' # {} => tcp'.used[q] = Mux[q] /\ tcpSock'[q] = Mux[q]
  <2>1. Members(q)' = Members(q) /\ refs'[q] = refs[q] BY Zenon, <1>1
  <2>2. /\ IsFiniteSet(Members(q)) /\ refs[q] = Cardinality(Members(q))
        /\ Members(q) # {} => tcp.used[q] = Mux[q] /\ tcpSock[q] = Mux[q]
    BY Zenon DEF PortInv, MuxHeld
  <2> QED BY Zenon, <2>1, <2>2
<1> QED BY Zenon, <1>2 DEF MuxHeld

(* Only a port that is free is acquired.                                   *)
LEMMA AcquiredWasFree ==
  ASSUME NEW pm \in Managers, Partitioned(pm), NEW o, NEW want \in Port, NEW avail,
         NEW q \in Acquirable(pm, o, want, avail), q # None
  PROVE  q = want /\ pm.used[q] = None /\ q \in avail
BY Zenon, PortAssumption DEF Acquirable, Partitioned, Managers

(* The users of the ports after an acquisition and after a release.        *)
LEMMA UserMoves ==
  ASSUME NEW pm \in Managers, NEW q \in Port
  PROVE  /\ \A o \in Owner : /\ Marked(pm, o, q) \in Managers
                             /\ \A x \in Port : Marked(pm, o, q).used[x] = IF x = q THEN o ELSE pm.used[x]
         /\ \A x \in Port : Released(pm, q).used[x] = IF x = q THEN None ELSE pm.used[x]
<1>0. pm.used \in [Port -> Owner \cup {None}] BY Zenon DEF Managers
<1>1. ASSUME NEW o \in Owner
      PROVE  /\ Marked(pm, o, q) \in Managers
             /\ \A x \in Port : Marked(pm, o, q).used[x] = IF x = q THEN o ELSE pm.used[x]
  <2>1. Marked(pm, o, q) \in Managers /\ Marked(pm, o, q).used = [pm.used EXCEPT ![q] = o]
    BY Zenon, MarkedFacts
  <2> QED BY Zenon, <1>0, <2>1
<1>2. ASSUME NEW x \in Port PROVE Released(pm, q).used[x] = IF x = q THEN None ELSE pm.used[x]
  BY Zenon, <1>0, ReleasedFacts
<1> QED BY Zenon, <1>1, <1>2

(* Proxies, muxers and None are told apart, and so are the muxers.         *)
LEMMA WhoIsWho ==
  ASSUME PortsNamed
  PROVE  /\ None \notin Port
         /\ \A p \in Pxy : /\ p \in Owner /\ p # None /\ Kind[p] \in {"tcp", "udp", "mc"}
                           /\ Kind[p] \in {"tcp", "mc"} => Want[p] \in Port
         /\ \A q \in Port : Mux[q] \in Owner /\ Mux[q] \notin Pxy /\ Mux[q] # None
         /\ \A q, r \in Port : Mux[q] = Mux[r] => q = r
BY NameFacts, PortAssumption, ProxyAssumption DEF PortsNamed, Kinds

(* Every step keeps the TCP ports held.                                    *)
LEMMA PortStep ==
  ASSUME PortsNamed, TypeOK, PortsPartitioned, PortInv, Next
  PROVE  PortInv'
<1> USE DEF Step, ctlVars, muxVars, portVars
<1>t. /\ pc \in [Pxy -> PC] /\ real \in [Pxy -> Port \cup {None}]
      /\ tcpSock \in [Port -> Owner \cup {None}] /\ refs \in [Port -> Int]
  BY Zenon DEF TypeOK
<1>m. tcp \in Managers /\ Partitioned(tcp) BY Zenon DEF TypeOK, PortsPartitioned
<1>w. /\ None \notin Port
      /\ \A p \in Pxy : /\ p \in Owner /\ p # None /\ Kind[p] \in {"tcp", "udp", "mc"}
                        /\ Kind[p] \in {"tcp", "mc"} => Want[p] \in Port
      /\ \A q \in Port : Mux[q] \in Owner /\ Mux[q] \notin Pxy /\ Mux[q] # None
      /\ \A q, r \in Port : Mux[q] = Mux[r] => q = r
  BY Zenon, WhoIsWho
<1>k. KindsApart /\ TCPHeld /\ MuxHeld BY Zenon DEF PortInv
<1>q. KindsApart' /\ TCPHeld' /\ MuxHeld' => PortInv' BY Zenon DEF PortInv
<1>f. ASSUME NEW p \in Pxy, NEW to, pc' = [pc EXCEPT ![p] = to], tcp'.used = tcp.used,
             tcpSock' = tcpSock, refs' = refs,
             \A r \in Pxy : Kind[r] = "tcp" => real'[r] = real[r],
             Kind[p] = "tcp" => /\ to \in HasPort => pc[p] \in HasPort
                                /\ to \in HasSock => pc[p] \in HasSock,
             Kind[p] = "mc" => (to \in InMux <=> pc[p] \in InMux),
             to \in {"acquiringUDP", "listeningUDP", "failing"} => Kind[p] = "udp",
             to \in {"listening", "failingTCP"} => Kind[p] = "tcp"
      PROVE  PortInv'
  <2>1. \A r \in Pxy : pc'[r] = IF r = p THEN to ELSE pc[r] BY Zenon, <1>f, <1>t
  <2>2. Kind[p] = "tcp" => /\ to \in HasPort => real'[p] \in Port /\ tcp'.used[real'[p]] = p
                           /\ to \in HasSock => tcpSock'[real'[p]] = p
    BY Zenon, <1>f, <1>k DEF TCPHeld
  <2>3. KindsApart' /\ TCPHeld' BY <1>f, <2>1, <2>2, TCPMove
  <2>4. MuxHeld' BY <1>f, <2>1, MuxStay
  <2> QED BY Zenon, <1>q, <2>3, <2>4
<1>1. ASSUME NEW p \in Pxy,
             \/ RejectProxy(p) \/ CountPorts(p) \/ CheckExist(p) \/ ListenUDP(p) \/ FailUDP(p)
             \/ Undo(p) \/ AddProxy(p) \/ CloseProxy(p) \/ Drain(p) \/ DelProxy(p)
      PROVE  PortInv'
  <2>1. /\ tcp' = tcp /\ tcpSock' = tcpSock /\ refs' = refs /\ real' = real
        /\ \E to \in PC :
             /\ pc' = [pc EXCEPT ![p] = to]
             /\ Kind[p] = "tcp" => /\ to \in HasPort => pc[p] \in HasPort
                                   /\ to \in HasSock => pc[p] \in HasSock
             /\ Kind[p] = "mc" => (to \in InMux <=> pc[p] \in InMux)
             /\ to \in {"acquiringUDP", "listeningUDP", "failing"} => Kind[p] = "udp"
             /\ to \in {"listening", "failingTCP"} => Kind[p] = "tcp"
    BY Zenon, <1>w, <1>1, <1>k DEF KindsApart, RejectProxy, CountPorts, CheckExist, ListenUDP, FailUDP, Undo,
       AddProxy, CloseProxy, Drain, DelProxy, PC, HasPort, HasSock, InMux
  <2> QED BY Zenon, <2>1, <1>f
<1>2. ASSUME NEW p \in Pxy, AcquireUDP(p) PROVE PortInv'
  <2>1. Kind[p] = "udp" BY Zenon, <1>2, <1>k DEF AcquireUDP, KindsApart
  <2>2. /\ tcp' = tcp /\ tcpSock' = tcpSock /\ refs' = refs
        /\ \A r \in Pxy : r # p => real'[r] = real[r]
        /\ \E to \in {"undoing", "listeningUDP"} : pc' = [pc EXCEPT ![p] = to]
    BY Zenon, <1>t, <1>2, <2>1 DEF AcquireUDP
  <2>3. PICK to \in {"undoing", "listeningUDP"} : pc' = [pc EXCEPT ![p] = to] BY Zenon, <2>2
  <2>4. \A r \in Pxy : Kind[r] = "tcp" => real'[r] = real[r] BY Zenon, <2>1, <2>2
  <2>5. to \notin {"listening", "failingTCP"} BY Zenon, <2>3
  <2> QED BY Zenon, <1>f, <2>1, <2>2, <2>3, <2>4, <2>5
<1>3. ASSUME NEW p \in Pxy, AcquireTCP(p) PROVE PortInv'
  <2>1. Kind[p] = "tcp" /\ Want[p] \in Port /\ pc[p] = "acquiring"
    BY Zenon, <1>w, <1>3 DEF AcquireTCP
  <2>2. PICK avail \in SUBSET Bindable(tcpSock) : \E q \in Acquirable(tcp, p, Want[p], avail) :
          \/ q = None /\ tcp' = tcp /\ real' = real /\ pc' = [pc EXCEPT ![p] = "undoing"]
          \/ /\ q # None /\ tcp' = Marked(tcp, p, q) /\ real' = [real EXCEPT ![p] = q]
             /\ pc' = [pc EXCEPT ![p] = "listening"]
    BY Zenon, <1>3, <2>1 DEF AcquireTCP
  <2>3. PICK q \in Acquirable(tcp, p, Want[p], avail) :
          \/ q = None /\ tcp' = tcp /\ real' = real /\ pc' = [pc EXCEPT ![p] = "undoing"]
          \/ /\ q # None /\ tcp' = Marked(tcp, p, q) /\ real' = [real EXCEPT ![p] = q]
             /\ pc' = [pc EXCEPT ![p] = "listening"]
    BY Zenon, <2>2
  <2>4. tcpSock' = tcpSock /\ refs' = refs BY Zenon, <1>3 DEF AcquireTCP
  <2>5. CASE q = None
    <3>1. "undoing" \notin HasPort /\ "undoing" \notin HasSock BY Zenon DEF HasPort, HasSock
    <3> QED BY Zenon, <1>f, <2>1, <2>3, <2>4, <2>5, <3>1
  <2>6. CASE q # None
    <3>1. q = Want[p] /\ tcp.used[q] = None BY <1>m, <2>1, <2>6, AcquiredWasFree
    <3>2. \A x \in Port : tcp'.used[x] = IF x = q THEN p ELSE tcp.used[x]
      BY <1>m, <1>w, <2>1, <2>3, <2>6, <3>1, UserMoves
    <3>3. \A r \in Pxy : /\ pc'[r] = IF r = p THEN "listening" ELSE pc[r]
                         /\ real'[r] = IF r = p THEN q ELSE real[r]
      BY Zenon, <1>t, <2>3, <2>6
    <3>4. \A r \in Pxy, x \in Port :
            r # p => real'[r] = real[r] /\ (tcp.used[x] = r => tcp'.used[x] = r)
      BY Zenon, <1>w, <3>1, <3>2, <3>3
    <3>5. real'[p] \in Port /\ tcp'.used[real'[p]] = p BY Zenon, <2>1, <3>1, <3>2, <3>3
    <3>6. "listening" \notin HasSock BY Zenon DEF HasSock
    <3>7. KindsApart' /\ TCPHeld' BY <2>1, <2>4, <3>3, <3>4, <3>5, <3>6, TCPMove
    <3>8. \A x \in Port : tcp.used[x] = Mux[x] => tcp'.used[x] = Mux[x] BY Zenon, <1>w, <3>1, <3>2
    <3>9. MuxHeld' BY Zenon, <2>1, <2>4, <3>3, <3>8, MuxStay
    <3> QED BY Zenon, <1>q, <3>7, <3>9
  <2> QED BY Zenon, <2>5, <2>6
<1>4. ASSUME NEW p \in Pxy, ListenTCP(p) PROVE PortInv'
  <2>1. Kind[p] = "tcp" /\ pc[p] = "listening" /\ tcp' = tcp /\ refs' = refs /\ real' = real
    BY Zenon, <1>4, <1>k DEF ListenTCP, KindsApart
  <2>2. CASE pc' = [pc EXCEPT ![p] = "failingTCP"] /\ tcpSock' = tcpSock
    <3>1. pc[p] \in HasPort /\ "failingTCP" \notin HasSock BY Zenon, <2>1 DEF HasPort, HasSock
    <3> QED BY Zenon, <1>f, <2>1, <2>2, <3>1
  <2>3. CASE /\ pc' = [pc EXCEPT ![p] = "adding"] /\ tcpSock[real[p]] = None
             /\ tcpSock' = [tcpSock EXCEPT ![real[p]] = p]
    <3>1. real[p] \in Port /\ tcp.used[real[p]] = p
      BY Zenon, <1>k, <2>1 DEF TCPHeld, HasPort
    <3>2. \A r \in Pxy : pc'[r] = IF r = p THEN "adding" ELSE pc[r] BY Zenon, <1>t, <2>3
    <3>3. \A x \in Port : tcpSock'[x] = IF x = real[p] THEN p ELSE tcpSock[x]
      BY Zenon, <1>t, <2>3, <3>1
    <3>4. \A r \in Pxy, x \in Port : tcpSock[x] = r => tcpSock'[x] = r
      BY Zenon, <1>w, <2>3, <3>3
    <3>5. KindsApart' /\ TCPHeld' BY <2>1, <3>1, <3>2, <3>3, <3>4, TCPMove
    <3>6. \A x \in Port : tcpSock[x] = Mux[x] => tcpSock'[x] = Mux[x] BY Zenon, <1>w, <2>3, <3>3
    <3>7. MuxHeld' BY Zenon, <2>1, <3>2, <3>6, MuxStay
    <3> QED BY <1>q, <3>5, <3>7
  <2> QED BY Zenon, <1>4, <2>1, <2>2, <2>3 DEF ListenTCP
<1>r. ASSUME NEW p \in Pxy, NEW to, Kind[p] = "tcp", pc[p] \in HasPort, to \notin HasPort,
             to \notin HasSock, to \notin {"acquiringUDP", "listeningUDP", "failing"},
             pc' = [pc EXCEPT ![p] = to], tcp' = Released(tcp, real[p]),
             real' = real, refs' = refs, tcpSock' = tcpSock
      PROVE  PortInv'
  <2>1. real[p] \in Port /\ tcp.used[real[p]] = p BY Zenon, <1>k, <1>r DEF TCPHeld
  <2>2. \A x \in Port : tcp'.used[x] = IF x = real[p] THEN None ELSE tcp.used[x]
    BY <1>m, <1>r, <2>1, UserMoves
  <2>3. \A r \in Pxy : pc'[r] = IF r = p THEN to ELSE pc[r] BY Zenon, <1>t, <1>r
  <2>4. \A r \in Pxy, x \in Port : r # p => (tcp.used[x] = r => tcp'.used[x] = r)
    BY Zenon, <2>1, <2>2
  <2>5. KindsApart' /\ TCPHeld' BY <1>r, <2>3, <2>4, TCPMove
  <2>6. \A x \in Port : tcp.used[x] = Mux[x] => tcp'.used[x] = Mux[x] BY Zenon, <1>w, <2>1, <2>2
  <2>7. MuxHeld' BY <1>r, <2>3, <2>6, MuxStay
  <2> QED BY <1>q, <2>5, <2>7
<1>6. ASSUME NEW p \in Pxy, FailTCP(p) PROVE PortInv'
  <2>1. Kind[p] = "tcp" /\ pc[p] = "failingTCP" BY Zenon, <1>6, <1>k DEF FailTCP, KindsApart
  <2>2. pc[p] \in HasPort /\ "undoing" \notin HasPort /\ "undoing" \notin HasSock
    BY Zenon, <2>1 DEF HasPort, HasSock
  <2>3. /\ pc' = [pc EXCEPT ![p] = "undoing"] /\ tcp' = Released(tcp, real[p])
        /\ real' = real /\ refs' = refs /\ tcpSock' = tcpSock
    BY Zenon, <1>6, <2>1 DEF FailTCP, GiveBack
  <2> QED BY Zenon, <1>r, <2>1, <2>2, <2>3
<1>o. ASSUME NEW q \in Port, NEW x \in Port, x # q, refs'[x] = refs[x], Members(x)' = Members(x),
             tcp.used[x] = Mux[x] => tcp'.used[x] = Mux[x],
             tcpSock[x] = Mux[x] => tcpSock'[x] = Mux[x]
      PROVE  /\ IsFiniteSet(Members(x)') /\ refs'[x] = Cardinality(Members(x)')
             /\ Members(x)' # {} => tcp'.used[x] = Mux[x] /\ tcpSock'[x] = Mux[x]
  <2>1. /\ IsFiniteSet(Members(x)) /\ refs[x] = Cardinality(Members(x))
        /\ Members(x) # {} => tcp.used[x] = Mux[x] /\ tcpSock[x] = Mux[x]
    BY Zenon, <1>k DEF MuxHeld
  <2> QED BY Zenon, <1>o, <2>1
<1>j. ASSUME NEW p \in Pxy, NEW q \in Port, Kind[p] = "mc", Want[p] = q, pc[p] \notin InMux,
             \A r \in Pxy : pc'[r] = IF r = p THEN "adding" ELSE pc[r],
             refs'[q] = refs[q] + 1, tcp'.used[q] = Mux[q], tcpSock'[q] = Mux[q],
             \A x \in Port : x # q => /\ refs'[x] = refs[x]
                                      /\ tcp.used[x] = Mux[x] => tcp'.used[x] = Mux[x]
                                      /\ tcpSock[x] = Mux[x] => tcpSock'[x] = Mux[x]
      PROVE  MuxHeld'
  <2>1. IsFiniteSet(Members(q)) /\ refs[q] = Cardinality(Members(q)) BY Zenon, <1>k DEF MuxHeld
  <2>2. \A x \in Port : x # q => Members(x)' = Members(x) BY Zenon, <1>j DEF Members
  <2>3. p \notin Members(q) /\ Members(q)' = Members(q) \cup {p} BY Zenon, <1>j DEF Members, InMux
  <2>4. IsFiniteSet(Members(q)') /\ Cardinality(Members(q)') = Cardinality(Members(q)) + 1
    BY Zenon, <2>1, <2>3, FS_AddElement
  <2>5. refs'[q] = Cardinality(Members(q)') BY Zenon, <1>j, <2>1, <2>4
  <2>6. ASSUME NEW x \in Port
        PROVE  /\ IsFiniteSet(Members(x)') /\ refs'[x] = Cardinality(Members(x)')
               /\ Members(x)' # {} => tcp'.used[x] = Mux[x] /\ tcpSock'[x] = Mux[x]
    BY Zenon, <1>j, <1>o, <2>2, <2>4, <2>5
  <2> QED BY Zenon, <2>6 DEF MuxHeld
<1>l. ASSUME NEW p \in Pxy, NEW to, NEW q \in Port, Kind[p] = "mc", Want[p] = q,
             pc[p] \in InMux, to \notin InMux,
             \A r \in Pxy : pc'[r] = IF r = p THEN to ELSE pc[r],
             refs'[q] = refs[q] - 1,
             refs[q] # 1 => tcp'.used[q] = Mux[q] /\ tcpSock'[q] = Mux[q],
             \A x \in Port : x # q => /\ refs'[x] = refs[x]
                                      /\ tcp.used[x] = Mux[x] => tcp'.used[x] = Mux[x]
                                      /\ tcpSock[x] = Mux[x] => tcpSock'[x] = Mux[x]
      PROVE  MuxHeld'
  <2>1. IsFiniteSet(Members(q)) /\ refs[q] = Cardinality(Members(q)) BY <1>k DEF MuxHeld
  <2>2. \A x \in Port : x # q => Members(x)' = Members(x) BY Zenon, <1>l DEF Members
  <2>3. p \in Members(q) /\ Members(q)' = Members(q) \ {p} BY Zenon, <1>l DEF Members
  <2>4. IsFiniteSet(Members(q)') /\ Cardinality(Members(q)') = Cardinality(Members(q)) - 1
    BY Zenon, <2>1, <2>3, FS_RemoveElement
  <2>5. refs'[q] = Cardinality(Members(q)') BY Zenon, <1>l, <2>1, <2>4
  <2>6. refs[q] = 1 => Cardinality(Members(q)') = 0 BY <2>1, <2>4
  <2>7. refs[q] = 1 => Members(q)' = {} BY Zenon, <2>4, <2>6, FS_EmptySet
  <2>8. ASSUME NEW x \in Port
        PROVE  /\ IsFiniteSet(Members(x)') /\ refs'[x] = Cardinality(Members(x)')
               /\ Members(x)' # {} => tcp'.used[x] = Mux[x] /\ tcpSock'[x] = Mux[x]
    BY Zenon, <1>l, <1>o, <2>2, <2>4, <2>5, <2>7
  <2> QED BY Zenon, <2>8 DEF MuxHeld
<1>7. ASSUME NEW p \in Pxy, ListenMC(p) PROVE PortInv'
  <2> DEFINE q == Want[p] m == Mux[q] marked == Marked(tcp, m, q)
  <2>1. Kind[p] = "mc" /\ pc[p] = "acquiring" /\ real' = real /\ q \in Port
    BY Zenon, <1>w, <1>7 DEF ListenMC
  <2>m. m \in Owner BY Zenon, <1>w, <2>1
  <2> HIDE DEF m, q
  <2>2. marked \in Managers /\ \A x \in Port : marked.used[x] = IF x = q THEN m ELSE tcp.used[x]
    BY <1>m, <2>1, <2>m, UserMoves
  <2> USE DEF m, q
  <2>3. \A x \in Port : Released(marked, q).used[x] = IF x = q THEN None ELSE marked.used[x]
    BY Zenon, <2>1, <2>2, UserMoves
  <2>4. /\ "undoing" \notin HasPort /\ "undoing" \notin HasSock /\ "undoing" \notin InMux
        /\ pc[p] \notin InMux /\ "adding" \in InMux
    BY Zenon, <2>1 DEF HasPort, HasSock, InMux
  <2> HIDE DEF marked
  <2>5. CASE pc' = [pc EXCEPT ![p] = "undoing"] /\ tcp' = tcp /\ tcpSock' = tcpSock /\ refs' = refs
    BY Zenon, <1>f, <2>1, <2>4, <2>5
  <2>6. CASE /\ pc' = [pc EXCEPT ![p] = "undoing"] /\ tcp' = Released(marked, q)
             /\ tcp.used[q] = None /\ tcpSock' = tcpSock /\ refs' = refs
    <3>1. \A x \in Port : tcp'.used[x] = tcp.used[x] BY Zenon, <2>1, <2>2, <2>3, <2>6
    <3>2. \A r \in Pxy : pc'[r] = IF r = p THEN "undoing" ELSE pc[r] BY Zenon, <1>t, <2>6
    <3>3. KindsApart' /\ TCPHeld' BY SMTT(30), <2>1, <2>6, <3>1, <3>2, TCPMove
    <3>4. MuxHeld' BY <2>1, <2>4, <2>6, <3>1, <3>2, MuxStay
    <3> QED BY <1>q, <3>3, <3>4
  <2>7. ASSUME pc' = [pc EXCEPT ![p] = "adding"], refs' = [refs EXCEPT ![q] = @ + 1],
               tcp'.used[q] = m, tcpSock'[q] = m,
               \A x \in Port : x # q => tcp'.used[x] = tcp.used[x] /\ tcpSock'[x] = tcpSock[x],
               \A r \in Pxy : tcp.used[q] # r /\ tcpSock[q] # r
        PROVE  PortInv'
    <3>1. \A r \in Pxy : pc'[r] = IF r = p THEN "adding" ELSE pc[r] BY Zenon, <1>t, <2>7
    <3>2. \A r \in Pxy, x \in Port : /\ tcp.used[x] = r => tcp'.used[x] = r
                                     /\ tcpSock[x] = r => tcpSock'[x] = r
      BY Zenon, <2>1, <2>7
    <3>3. KindsApart' /\ TCPHeld' BY <2>1, <3>1, <3>2, TCPMove
    <3>4. refs'[q] = refs[q] + 1 BY Zenon, <1>t, <2>1, <2>7
    <3>5. \A x \in Port : x # q => /\ refs'[x] = refs[x]
                                   /\ tcp.used[x] = Mux[x] => tcp'.used[x] = Mux[x]
                                   /\ tcpSock[x] = Mux[x] => tcpSock'[x] = Mux[x]
      BY Zenon, <1>t, <2>1, <2>7
    <3>6. MuxHeld' BY Zenon, <1>j, <2>1, <2>4, <2>7, <3>1, <3>4, <3>5
    <3> QED BY <1>q, <3>3, <3>6
  <2>8. CASE /\ refs[q] > 0 /\ pc' = [pc EXCEPT ![p] = "adding"] /\ refs' = [refs EXCEPT ![q] = @ + 1]
             /\ tcp' = tcp /\ tcpSock' = tcpSock
    <3>1. IsFiniteSet(Members(q)) /\ refs[q] = Cardinality(Members(q)) BY Zenon, <1>k, <2>1 DEF MuxHeld
    <3>2. Cardinality(Members(q)) # 0 BY <2>8, <3>1
    <3>3. Members(q) # {} BY Zenon, <3>2, FS_EmptySet
    <3>4. tcp.used[q] = m /\ tcpSock[q] = m BY Zenon, <1>k, <2>1, <3>3 DEF MuxHeld
    <3> QED BY <1>w, <2>1, <2>7, <2>8, <3>4
  <2>9. CASE /\ refs[q] = 0 /\ pc' = [pc EXCEPT ![p] = "adding"] /\ refs' = [refs EXCEPT ![q] = 1]
             /\ tcp' = marked /\ tcpSock' = [tcpSock EXCEPT ![q] = m]
             /\ tcp.used[q] = None /\ tcpSock[q] = None
    <3>1. refs' = [refs EXCEPT ![q] = @ + 1] BY <1>t, <2>1, <2>9
    <3>2. \A x \in Port : tcpSock'[x] = IF x = q THEN m ELSE tcpSock[x] BY Zenon, <1>t, <2>9
    <3> QED BY <1>w, <2>1, <2>2, <2>7, <2>9, <3>1, <3>2
  <2>10. ASSUME NEW avail \in SUBSET Bindable(tcpSock), q \in Acquirable(tcp, m, q, avail)
         PROVE  tcp.used[q] = None /\ tcpSock[q] = None
    <3>1. q # None BY Zenon, <1>w, <2>1
    <3>2. tcp.used[q] = None /\ q \in avail BY <1>m, <2>1, <2>10, <3>1, AcquiredWasFree
    <3> QED BY Zenon, <3>2 DEF Bindable
  <2> QED BY Zenon, <1>7, <2>5, <2>6, <2>8, <2>9, <2>10 DEF ListenMC, marked
<1>8. ASSUME NEW p \in Pxy, CloseListeners(p) PROVE PortInv'
  <2>1. /\ tcp' = tcp /\ real' = real /\ refs' = refs /\ tcpSock' = Unbound(tcpSock, p)
        /\ pc[p] \in {"closing", "aborting"}
        /\ \E to \in {"closingPorts", "abortingPorts"} : pc' = [pc EXCEPT ![p] = to]
    BY Zenon, <1>8 DEF CloseListeners
  <2>2. PICK to \in {"closingPorts", "abortingPorts"} :
          \A r \in Pxy : pc'[r] = IF r = p THEN to ELSE pc[r]
    BY Zenon, <1>t, <2>1
  <2>3. \A x \in Port : \A o : tcpSock[x] = o /\ o # p => tcpSock'[x] = o BY Zenon, <2>1 DEF Unbound
  <2>4. /\ pc[p] \in HasPort /\ pc[p] \in InMux /\ to \in InMux /\ to \notin HasSock
        /\ to \notin {"acquiringUDP", "listeningUDP", "failing", "listening", "failingTCP"}
    BY Zenon, <2>1, <2>2 DEF HasPort, HasSock, InMux
  <2>5. Kind[p] = "tcp" => real[p] \in Port /\ tcp.used[real[p]] = p BY Zenon, <1>k, <2>4 DEF TCPHeld
  <2>6. KindsApart' /\ TCPHeld' BY <2>1, <2>2, <2>3, <2>4, <2>5, TCPMove
  <2>7. \A x \in Port : tcpSock[x] = Mux[x] => tcpSock'[x] = Mux[x] BY Zenon, <1>w, <2>3
  <2>8. MuxHeld' BY <2>1, <2>2, <2>4, <2>7, MuxStay
  <2> QED BY Zenon, <1>q, <2>6, <2>8
<1>9. ASSUME NEW p \in Pxy, ReleasePorts(p) PROVE PortInv'
  <2>1. /\ real' = real /\ pc[p] \in {"closingPorts", "abortingPorts"}
        /\ \E to \in {"deleting", "undoing"} : pc' = [pc EXCEPT ![p] = to]
    BY Zenon, <1>9 DEF ReleasePorts
  <2>2. PICK to \in {"deleting", "undoing"} : /\ pc' = [pc EXCEPT ![p] = to]
                                              /\ \A r \in Pxy : pc'[r] = IF r = p THEN to ELSE pc[r]
    BY Zenon, <1>t, <2>1
  <2>3. /\ pc[p] \in HasPort /\ pc[p] \in InMux /\ to \notin HasPort /\ to \notin HasSock /\ to \notin InMux
        /\ to \notin {"acquiringUDP", "listeningUDP", "failing", "listening", "failingTCP"}
    BY Zenon, <2>1, <2>2 DEF HasPort, HasSock, InMux
  <2>4. CASE Kind[p] = "udp"
    <3>1. tcp' = tcp /\ refs' = refs /\ tcpSock' = tcpSock BY Zenon, <1>9, <2>4 DEF ReleasePorts
    <3> QED BY Zenon, <1>f, <2>1, <2>2, <2>3, <2>4, <3>1
  <2>5. CASE Kind[p] = "tcp"
    <3>1. tcp' = Released(tcp, real[p]) /\ refs' = refs /\ tcpSock' = tcpSock
      BY Zenon, <1>9, <2>5 DEF ReleasePorts
    <3> QED BY Zenon, <1>r, <2>1, <2>2, <2>3, <2>5, <3>1
  <2>6. CASE Kind[p] = "mc"
    <3> DEFINE q == Want[p]
    <3>1. q \in Port /\ p \in Members(q) BY Zenon, <1>w, <2>3, <2>6 DEF Members
    <3>2. tcp.used[q] = Mux[q] /\ tcpSock[q] = Mux[q] BY Zenon, <1>k, <3>1 DEF MuxHeld
    <3>3. refs' = [refs EXCEPT ![q] = @ - 1] BY Zenon, <1>9, <2>6 DEF ReleasePorts
    <3>4. refs'[q] = refs[q] - 1 /\ \A x \in Port : x # q => refs'[x] = refs[x]
      BY Zenon, <1>t, <3>1, <3>3
    <3>5. CASE LastRef(q)
      <4>1. tcp' = Released(tcp, q) /\ tcpSock' = Unbound(tcpSock, Mux[q])
        BY Zenon, <1>9, <2>6, <3>5 DEF ReleasePorts
      <4>2. \A x \in Port : tcp'.used[x] = IF x = q THEN None ELSE tcp.used[x]
        BY <1>m, <3>1, <4>1, UserMoves
      <4>3. \A x \in Port : tcpSock'[x] = IF tcpSock[x] = Mux[q] THEN None ELSE tcpSock[x]
        BY Zenon, <4>1 DEF Unbound
      <4>4. \A r \in Pxy, x \in Port : /\ tcp.used[x] = r => tcp'.used[x] = r
                                       /\ tcpSock[x] = r => tcpSock'[x] = r
        BY <1>w, <3>1, <3>2, <4>2, <4>3
      <4>5. KindsApart' /\ TCPHeld' BY <2>1, <2>2, <2>3, <2>6, <4>4, TCPMove
      <4>6. \A x \in Port : x # q => /\ tcp.used[x] = Mux[x] => tcp'.used[x] = Mux[x]
                                     /\ tcpSock[x] = Mux[x] => tcpSock'[x] = Mux[x]
        BY Zenon, <1>w, <3>1, <4>2, <4>3
      <4>7. refs[q] = 1 BY Zenon, <3>5 DEF LastRef
      <4>8. MuxHeld' BY Zenon, <1>l, <2>2, <2>3, <2>6, <3>1, <3>4, <4>6, <4>7
      <4> QED BY Zenon, <1>q, <4>5, <4>8
    <3>6. CASE ~LastRef(q)
      <4>1. tcp' = tcp /\ tcpSock' = tcpSock BY Zenon, <1>9, <2>6, <3>6 DEF ReleasePorts
      <4>2. KindsApart' /\ TCPHeld' BY <2>1, <2>2, <2>3, <2>6, <4>1, TCPMove
      <4>3. MuxHeld' BY Zenon, <1>l, <2>2, <2>3, <2>6, <3>1, <3>2, <3>4, <4>1
      <4> QED BY <1>q, <4>2, <4>3
    <3> QED BY Zenon, <3>5, <3>6
  <2> QED BY Zenon, <1>w, <2>4, <2>5, <2>6
<1>10. ASSUME UNCHANGED <<pc, real, tcpSock, refs>>, tcp'.used = tcp.used PROVE PortInv'
  <2>1. \A x \in Port : Members(x)' = Members(x) BY Zenon, <1>10 DEF Members
  <2>2. KindsApart' /\ TCPHeld' BY Zenon, <1>10, <1>k DEF KindsApart, TCPHeld
  <2>3. ASSUME NEW x \in Port
        PROVE  /\ IsFiniteSet(Members(x)') /\ refs'[x] = Cardinality(Members(x)')
               /\ Members(x)' # {} => tcp'.used[x] = Mux[x] /\ tcpSock'[x] = Mux[x]
    BY Zenon, <1>10, <1>k, <2>1 DEF MuxHeld
  <2>4. MuxHeld' BY Zenon, <2>3 DEF MuxHeld
  <2> QED BY Zenon, <1>q, <2>2, <2>4
<1>11. ASSUME NEW p \in Pxy, ForwarderReturns(p) PROVE PortInv'
  BY Zenon, <1>10, <1>11 DEF ForwarderReturns
<1>12. ASSUME NEW p \in Pxy, ForwarderCloses(p) PROVE PortInv'
  BY Zenon, <1>w, <1>10, <1>12 DEF ForwarderCloses
<1>13. ASSUME NEW c \in Ctl, Disconnect(c) \/ Finish(c) PROVE PortInv'
  BY Zenon, <1>10, <1>13 DEF Disconnect, Finish
<1>14. ASSUME NEW n \in PortName, CleanReserved(n) PROVE PortInv'
  <2>1. tcp'.used = tcp.used BY Zenon, <1>m, <1>14, CleanedFacts DEF CleanReserved
  <2> QED BY Zenon, <1>10, <1>14, <2>1 DEF CleanReserved
<1> QED BY Zenon, <1>1, <1>2, <1>3, <1>4, <1>6, <1>7, <1>8, <1>9, <1>11, <1>12, <1>13, <1>14
        DEF Next, Running

(* In these configurations a proxy that serves a TCP port has its socket   *)
(* and its entry in the port manager, and a muxer with members its port,   *)
(* whoever else comes and goes.                                            *)
THEOREM PortSafe == PortsNamed => (Spec => [](PortHeld /\ MuxPortReserved))
<1> SUFFICES ASSUME PortsNamed PROVE Spec => [](PortHeld /\ MuxPortReserved) BY Zenon
<1>1. Init => PortInv
  <2> SUFFICES ASSUME Init PROVE PortInv BY Zenon
  <2>1. \A q \in Port : Members(q) = {} BY Zenon DEF Init, Members, InMux
  <2>2. IsFiniteSet({}) /\ Cardinality({}) = 0 BY Zenon, FS_EmptySet
  <2>3. \A q \in Port : refs[q] = 0 BY Zenon DEF Init
  <2>4. MuxHeld BY Zenon, <2>1, <2>2, <2>3 DEF MuxHeld
  <2>5. KindsApart /\ TCPHeld BY Zenon DEF Init, KindsApart, TCPHeld, HasPort, HasSock
  <2> QED BY Zenon, <2>4, <2>5 DEF PortInv
<1>2. IInv /\ PortInv /\ [Next]_vars => PortInv'
  <2> SUFFICES ASSUME IInv, PortInv, [Next]_vars PROVE PortInv' BY Zenon
  <2>1. CASE Next BY Zenon, <2>1, PortStep DEF IInv
  <2>2. CASE UNCHANGED vars
    <3>1. \A x \in Port : Members(x)' = Members(x) BY Zenon, <2>2 DEF Members, vars
    <3> QED BY Zenon, <2>2, <3>1 DEF PortInv, KindsApart, TCPHeld, MuxHeld, vars
  <2> QED BY Zenon, <2>1, <2>2
<1>3. PortInv => PortHeld
  <2> SUFFICES ASSUME PortInv, NEW p \in Pxy, pc[p] = "open"
               PROVE  /\ Kind[p] = "tcp" => tcp.used[real[p]] = p /\ tcpSock[real[p]] = p
                      /\ Kind[p] = "mc" => tcp.used[Want[p]] = Mux[Want[p]] /\ tcpSock[Want[p]] = Mux[Want[p]]
    BY Zenon DEF PortHeld
  <2>1. Kind[p] = "mc" => Want[p] \in Port /\ p \in Members(Want[p])
    BY Zenon, NameFacts DEF Members, InMux
  <2>2. Kind[p] = "mc" => tcp.used[Want[p]] = Mux[Want[p]] /\ tcpSock[Want[p]] = Mux[Want[p]]
    BY Zenon, <2>1 DEF PortInv, MuxHeld
  <2> QED BY Zenon, <2>2 DEF PortInv, TCPHeld, HasPort, HasSock
<1>4. PortInv => MuxPortReserved
  <2> SUFFICES ASSUME PortInv, NEW q \in Port, refs[q] > 0 PROVE tcp.used[q] = Mux[q]
    BY Zenon DEF MuxPortReserved
  <2>1. refs[q] = Cardinality(Members(q)) BY Zenon DEF PortInv, MuxHeld
  <2>2. Cardinality(Members(q)) # 0 BY <2>1
  <2>3. Members(q) # {} BY Zenon, <2>2, FS_EmptySet
  <2> QED BY Zenon, <2>3 DEF PortInv, MuxHeld
<1> QED BY <1>1, <1>2, <1>3, <1>4, Invariance, PTL DEF Spec
=============================================================================

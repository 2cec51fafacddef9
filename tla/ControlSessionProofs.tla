------------------------ MODULE ControlSessionProofs ------------------------
(***************************************************************************)
(* For any logins, run ids and client ids: type correctness, the invariants*)
(* of the handover, that the handover implements the table of run id       *)
(* owners, and that a login is refused for a reason only; and for any      *)
(* peers and rules, what the firewall and the hook at the entry promise.   *)
(***************************************************************************)
EXTENDS ControlSession, AuthTokens, Admission, TLAPS

-----------------------------------------------------------------------------
(***************************************************************************)
(* Admission.  A connection that asks the provider is the one in flight    *)
(* for its address; what it has waited is what its verdict is old; and a   *)
(* connection of frps's own knows what it was made for, and that the call  *)
(* that made it still waits.                                               *)
(***************************************************************************)
Fields == {"at", "ip", "port", "path", "of", "age", "asked", "old", "ok", "def", "failOpen", "due", "judged", "reused"}
IsConn(r) == r = [f \in Fields |-> r[f]]

Sound(r) ==
  /\ IsConn(r) /\ r.age \in Nat /\ r.old \in Nat /\ r.ip \in Addr \cup {Unparsed}
  /\ r.reused => r.at = "done" /\ r.old < VerdictTTL
  /\ r.path = "udp" => r.age = r.old /\ r.ip \in Remote
  /\ r.at \in {"rep", "wait", "ask"} => r.ip \in Addr

(* r is the record of c, and at the place of d, whose call c may be for.   *)
OwnSound(r, c, d, at) ==
  r.of = d =>
    /\ c # d
    /\ r.at # "done" =>
         /\ r.ip = Local
         /\ \/ r.port = ProviderPort /\ "provider" \in home /\ at = "ask" /\ r.at \notin {"rep", "wait", "ask"}
            \/ r.port = PluginPort /\ "plugin" \in home /\ at = "call" /\ r.at # "call"

VerdictSound(v) ==
  /\ v = [f \in {"ok", "left", "old"} |-> v[f]] /\ v.left \in Nat /\ v.old \in Nat
  /\ v.left > 0 => v.old + v.left <= VerdictTTL
VerdictsSound ==
  verdicts = [a \in Remote |-> verdicts[a]] /\ \A a \in Remote : VerdictSound(verdicts[a])

ConnsSound ==
  /\ adm = [c \in AdmConn |-> adm[c]] /\ repInFlight = [a \in Addr |-> repInFlight[a]]
  /\ \A c \in AdmConn : Sound(adm[c]) /\ (adm[c].at = "ask" => repInFlight[adm[c].ip] = c)
  /\ \A c, d \in AdmConn : OwnSound(adm[c], c, d, adm[d].at)

FileKept == ~unsaved => fwFile = fw

(* No connection is no one.                                                *)
LEMMA SomeOne == \A c \in AdmConn : c # NoOne
BY DEF AdmConn, NoOne

(* The records that a handler writes, field by field.                      *)
LEMMA IdleFacts ==
  /\ Sound(Idle0) /\ Idle0.at = "free" /\ Idle0.of = NoOne /\ VerdictSound(NoVerdict)
BY DEF Sound, IsConn, Fields, Idle0, VerdictSound, NoVerdict

(* r is the record of a connection that begins: it is at the rules, and no *)
(* verdict is reused for it.                                               *)
Begun(r, ip, port, path, of) ==
  /\ r.at = "rules" /\ r.ip = ip /\ r.port = port /\ r.path = path /\ r.of = of
  /\ r.age = 0 /\ r.old = 0 /\ r.reused = FALSE

(* Begin makes such a record.                                              *)
LEMMA BeginFacts ==
  \A ip, port, path, of :
    IsConn(Begin(ip, port, path, of)) /\ Begun(Begin(ip, port, path, of), ip, port, path, of)
<1> SUFFICES ASSUME NEW ip, NEW port, NEW path, NEW of
             PROVE  IsConn(Begin(ip, port, path, of)) /\ Begun(Begin(ip, port, path, of), ip, port, path, of)
  BY Zenon
<1> QED BY Zenon DEF IsConn, Fields, Idle0, Begin, Begun

(* It is sound: a datagram comes from a peer, a call of our own does not.  *)
LEMMA BeginSound ==
  \A ip, port, path, of :
    ip \in Remote \cup {Local} /\ (ip \in Remote \/ path # "udp") =>
      Sound(Begin(ip, port, path, of)) /\ Begun(Begin(ip, port, path, of), ip, port, path, of)
<1> SUFFICES ASSUME NEW ip, NEW port, NEW path, NEW of,
                    ip \in Remote \cup {Local}, ip \in Remote \/ path # "udp"
             PROVE  Sound(Begin(ip, port, path, of)) /\ Begun(Begin(ip, port, path, of), ip, port, path, of)
  BY Zenon
<1> DEFINE r == Begin(ip, port, path, of)
<1>1. IsConn(r) /\ Begun(r, ip, port, path, of) BY Zenon, BeginFacts
<1> HIDE DEF r
<1>2. Sound(r) BY <1>1 DEF Sound, Addr, Begun
<1> QED BY Zenon, <1>1, <1>2 DEF r

(* A connection that is done keeps whose call it was, and how old a        *)
(* verdict it reused.                                                      *)
LEMMA FinishedFacts ==
  ASSUME NEW a, IsConn(a), a.old \in Nat, a.reused => a.old < VerdictTTL
  PROVE  LET r == Finished(a) IN Sound(r) /\ r.at = "done" /\ r.of = a.of
<1> DEFINE r == Finished(a)
<1>1. /\ IsConn(r) /\ r.at = "done" /\ r.of = a.of /\ r.age = 0 /\ r.reused = a.reused /\ r.ip = Unparsed
      /\ r.old = (IF a.reused THEN a.old ELSE 0) /\ r.path = (IF a.path = "web" THEN "web" ELSE "tcp")
  <2> DEFINE ok == a.ok /\ a.of # NoOne
             due == a.path = "web" /\ a.due
             judged == a.path = "web" /\ a.judged
             old == IF a.reused THEN a.old ELSE 0
             path == IF a.path = "web" THEN "web" ELSE "tcp"
  <2>1. r = [Idle0 EXCEPT !.at = "done", !.of = a.of, !.ok = ok, !.reused = a.reused, !.old = old, !.path = path,
                          !.due = due, !.judged = judged]
    BY Zenon DEF Finished
  <2> HIDE DEF ok, due, judged, r, old, path
  <2>2. IsConn(r) /\ r.at = "done" /\ r.of = a.of /\ r.age = 0 /\ r.reused = a.reused /\ r.old = old /\ r.path = path
        /\ r.ip = Unparsed
    BY Zenon, <2>1 DEF IsConn, Fields, Idle0
  <2> QED BY Zenon, <2>2 DEF r, old, path
<1> HIDE DEF r
<1>2. Sound(r) BY <1>1 DEF Sound
<1> QED BY Zenon, <1>1, <1>2 DEF r

(* A connection judged is done, or goes to the hook unless it is the call  *)
(* to it.                                                                  *)
LEMMA JudgedFacts ==
  ASSUME NEW c, Sound(adm[c]), adm[c].at # "done", NEW ok
  PROVE  LET r == Judged(c, ok)
         IN  /\ Sound(r) /\ r.at \in {"call", "done"} /\ r.of = adm[c].of
             /\ r.at = "call" => ~IsSelfCall(r.ip, r.port) /\ r.ip = adm[c].ip /\ r.port = adm[c].port
<1> DEFINE a == [adm[c] EXCEPT !.judged = (adm[c].path = "web"), !.ok = ok, !.def = "allow", !.failOpen = FALSE, !.asked = 0]
           b == [a EXCEPT !.at = "call"]
<1>1. /\ IsConn(a) /\ a.at = adm[c].at /\ a.ip = adm[c].ip /\ a.port = adm[c].port /\ a.path = adm[c].path
      /\ a.of = adm[c].of /\ a.age = adm[c].age /\ a.old = adm[c].old /\ a.reused = adm[c].reused
  BY Zenon DEF Sound, IsConn, Fields
<1> HIDE DEF a
<1>2. /\ IsConn(b) /\ b.at = "call" /\ b.ip = a.ip /\ b.port = a.port /\ b.path = a.path
      /\ b.of = a.of /\ b.age = a.age /\ b.old = a.old /\ b.reused = a.reused
  BY Zenon, <1>1 DEF IsConn, Fields
<1> HIDE DEF b
<1>3. CASE ok /\ a.path \in {"tcp", "udp"} /\ ~IsSelfCall(a.ip, a.port)
  <2>1. Judged(c, ok) = b BY Zenon, <1>3 DEF Judged, a, b
  <2>2. Sound(b) BY Zenon, <1>1, <1>2 DEF Sound
  <2> QED BY Zenon, <1>1, <1>2, <1>3, <2>1, <2>2
<1>4. CASE ~(ok /\ a.path \in {"tcp", "udp"} /\ ~IsSelfCall(a.ip, a.port))
  <2>1. Judged(c, ok) = Finished(a) BY Zenon, <1>4 DEF Judged, a
  <2>2. a.old \in Nat /\ ~a.reused BY Zenon, <1>1 DEF Sound
  <2> QED BY Zenon, <1>1, <2>1, <2>2, FinishedFacts
<1> QED BY Zenon, <1>3, <1>4

(* A verdict that is kept counts from when the packet came.                *)
LEMMA KeptFacts ==
  ASSUME VerdictsSound, NEW c, Sound(adm[c]), NEW a, NEW ok, Kept(c, a, ok)
  PROVE  VerdictsSound'
<1>1. CASE adm[c].path = "udp" /\ a.at = "done"
  <2> DEFINE v == [ok |-> ok, left |-> FromTheStart(c), old |-> adm[c].old]
  <2>1. verdicts' = [verdicts EXCEPT ![adm[c].ip] = v] BY Zenon, <1>1 DEF Kept
  <2>2. VerdictSound(v) BY <1>1, AdmissionAssumption DEF VerdictSound, FromTheStart, Sound
  <2> HIDE DEF v
  <2>3. \A x \in Remote : verdicts'[x] \in {verdicts[x], v} BY Zenon, <2>1 DEF VerdictsSound
  <2>4. verdicts' = [x \in Remote |-> verdicts'[x]] BY Zenon, <2>1 DEF VerdictsSound
  <2> QED BY Zenon, <2>2, <2>3, <2>4 DEF VerdictsSound, VerdictSound
<1>2. CASE ~(adm[c].path = "udp" /\ a.at = "done") BY Zenon, <1>2 DEF Kept, VerdictsSound, VerdictSound
<1> QED BY Zenon, <1>1, <1>2

(* A step of one connection that does not end a call keeps the connections *)
(* sound.                                                                  *)
LEMMA ConnMoves ==
  ASSUME ConnsSound, NEW c \in AdmConn, NEW r, Sound(r), adm' = [adm EXCEPT ![c] = r], home' = home,
         adm[c].at \notin {"ask", "call"}, \A d \in AdmConn : OwnSound(r, c, d, adm[d].at),
         \/ r.at # "ask" /\ repInFlight' = repInFlight
         \/ r.at = "ask" /\ repInFlight[r.ip] = NoOne /\ repInFlight' = [repInFlight EXCEPT ![r.ip] = c]
  PROVE  ConnsSound'
<1>1. /\ adm' = [d \in AdmConn |-> adm'[d]]
      /\ \A d \in AdmConn : adm'[d] = IF d = c THEN r ELSE adm[d]
  BY Zenon DEF ConnsSound
<1>2. repInFlight' = [a \in Addr |-> repInFlight'[a]] BY Zenon DEF ConnsSound
<1>3. ASSUME NEW d \in AdmConn PROVE Sound(adm'[d]) BY Zenon, <1>1 DEF ConnsSound
<1>4. ASSUME NEW d \in AdmConn, adm'[d].at = "ask" PROVE repInFlight'[adm'[d].ip] = d
  <2>1. CASE d = c
    <3>1. adm'[d] = r /\ r.at = "ask" /\ r.ip \in Addr BY Zenon, <1>1, <1>4, <2>1 DEF Sound
    <3> QED BY Zenon, <2>1, <3>1 DEF ConnsSound
  <2>2. CASE d # c
    <3>1. adm'[d] = adm[d] /\ repInFlight[adm[d].ip] = d BY Zenon, <1>1, <1>4, <2>2 DEF ConnsSound
    <3>2. adm[d].ip \in Addr /\ d # NoOne BY Zenon, <1>4, <3>1, SomeOne DEF ConnsSound, Sound
    <3>3. CASE repInFlight' = repInFlight BY Zenon, <3>1, <3>3
    <3>4. CASE repInFlight[r.ip] = NoOne /\ repInFlight' = [repInFlight EXCEPT ![r.ip] = c]
      BY Zenon, <3>1, <3>2, <3>4 DEF ConnsSound
    <3> QED BY Zenon, <3>3, <3>4
  <2> QED BY Zenon, <2>1, <2>2
<1>5. ASSUME NEW e \in AdmConn, NEW d \in AdmConn PROVE OwnSound(adm'[e], e, d, adm'[d].at)
  <2>1. OwnSound(adm[e], e, d, adm[d].at) BY Zenon DEF ConnsSound
  <2>2. CASE e = c
    <3>1. OwnSound(r, c, d, adm[d].at) BY Zenon
    <3>2. d # c => adm'[d] = adm[d] BY Zenon, <1>1
    <3> QED BY Zenon, <1>1, <2>2, <3>1, <3>2 DEF OwnSound
  <2>3. CASE e # c
    <3>1. adm'[e] = adm[e] BY Zenon, <1>1, <2>3
    <3>2. adm'[d] = adm[d] \/ adm[d].at \notin {"ask", "call"} BY Zenon, <1>1
    <3> QED BY Zenon, <2>1, <3>1, <3>2 DEF OwnSound
  <2> QED BY Zenon, <2>2, <2>3
<1>6. \A e, d \in AdmConn : OwnSound(adm[e], e, d, adm[d].at)' BY <1>5 DEF OwnSound
<1> QED BY Zenon, <1>1, <1>2, <1>3, <1>4, <1>6 DEF ConnsSound, Sound

(* A call that ends takes back the connection it made.                     *)
LEMMA EndedFacts ==
  ASSUME ConnsSound, NEW c \in AdmConn, NEW e \in AdmConn
  PROVE  LET r == Ended(c)[e]
         IN  /\ Sound(r) /\ r.of # c
             /\ \/ r = adm[e]
                \/ r.of = NoOne /\ r.at = adm[e].at /\ r.ip = adm[e].ip
                \/ r.of = NoOne /\ r.at = "free" /\ adm[e].at = "done"
<1> DEFINE r == Ended(c)[e]
<1>1. Sound(adm[e]) BY Zenon DEF ConnsSound
<1>2. CASE adm[e].of = c /\ adm[e].at = "done" BY Zenon, <1>2, IdleFacts, SomeOne DEF Ended
<1>3. CASE adm[e].of = c /\ adm[e].at # "done"
  <2> DEFINE b == [adm[e] EXCEPT !.of = NoOne]
  <2>1. r = b BY Zenon, <1>3 DEF Ended
  <2>2. /\ IsConn(b) /\ b.of = NoOne /\ b.at = adm[e].at /\ b.ip = adm[e].ip /\ b.path = adm[e].path
        /\ b.age = adm[e].age /\ b.old = adm[e].old /\ b.reused = adm[e].reused
    BY Zenon, <1>1 DEF Sound, IsConn, Fields
  <2> HIDE DEF b, r
  <2>3. Sound(b) BY Zenon, <1>1, <2>2 DEF Sound
  <2> QED BY Zenon, <2>1, <2>2, <2>3, SomeOne DEF r
<1>4. CASE adm[e].of # c BY Zenon, <1>1, <1>4 DEF Ended
<1> QED BY Zenon, <1>2, <1>3, <1>4

(* The end of a call keeps the connections sound: the query is no longer   *)
(* in flight, and no connection waits for the call.                        *)
LEMMA CallEnds ==
  ASSUME ConnsSound, NEW c \in AdmConn, adm[c].at \in {"ask", "call"}, NEW r, Sound(r), r.at # "ask", r.of # c,
         adm' = [Ended(c) EXCEPT ![c] = r], home' = home, \A d \in AdmConn : OwnSound(r, c, d, adm[d].at),
         \/ adm[c].at = "call" /\ repInFlight' = repInFlight
         \/ adm[c].at = "ask" /\ repInFlight' = LeavesFlight(c)
  PROVE  ConnsSound'
<1>1. /\ adm' = [d \in AdmConn |-> adm'[d]]
      /\ \A d \in AdmConn : adm'[d] = IF d = c THEN r ELSE Ended(c)[d]
  BY Zenon DEF Ended
<1>2. repInFlight' = [a \in Addr |-> repInFlight'[a]] BY Zenon DEF ConnsSound, LeavesFlight
<1>3. ASSUME NEW d \in AdmConn PROVE Sound(adm'[d]) BY <1>1, EndedFacts
<1>4. ASSUME NEW d \in AdmConn, adm'[d].at = "ask" PROVE repInFlight'[adm'[d].ip] = d
  <2>1. d # c /\ adm[d].at = "ask" /\ adm'[d].ip = adm[d].ip BY <1>1, <1>4, EndedFacts
  <2>2. repInFlight[adm[d].ip] = d /\ adm[d].ip \in Addr BY Zenon, <2>1 DEF ConnsSound, Sound
  <2>3. adm[c].at = "ask" => repInFlight[adm[c].ip] = c BY Zenon DEF ConnsSound
  <2> QED BY Zenon, <2>1, <2>2, <2>3 DEF ConnsSound, LeavesFlight
<1>5. ASSUME NEW e \in AdmConn, NEW d \in AdmConn PROVE OwnSound(adm'[e], e, d, adm'[d].at)
  <2>1. OwnSound(adm[e], e, d, adm[d].at) BY Zenon DEF ConnsSound
  <2>2. d = c \/ adm'[d].at = adm[d].at \/ adm[d].at = "done" BY <1>1, EndedFacts
  <2>3. CASE e = c
    <3>1. adm'[e] = r /\ OwnSound(r, c, d, adm[d].at) BY Zenon, <1>1, <2>3
    <3> QED BY Zenon, <2>2, <2>3, <3>1 DEF OwnSound
  <2>4. CASE e # c
    <3>1. adm'[e].of # c /\ (adm'[e] = adm[e] \/ adm'[e].of = NoOne) BY <1>1, <2>4, EndedFacts
    <3> QED BY Zenon, <2>1, <2>2, <3>1, SomeOne DEF OwnSound
  <2> QED BY Zenon, <2>3, <2>4
<1>6. \A e, d \in AdmConn : OwnSound(adm[e], e, d, adm[d].at)' BY <1>5 DEF OwnSound
<1> QED BY Zenon, <1>1, <1>2, <1>3, <1>4, <1>6 DEF ConnsSound, Sound

(* A new connection, and one let in at once.                               *)
LEMMA ArrivesKeeps ==
  ASSUME ConnsSound, VerdictsSound, NEW u \in AdmUser, NEW ip \in UserAddr[u],
         \/ ArriveTCP(PeerConn(u), ip) \/ ArriveUDP(PeerConn(u), ip)
         \/ ArriveControl(PeerConn(u), ip) \/ ArriveWeb(PeerConn(u), ip)
  PROVE  ConnsSound' /\ VerdictsSound'
<1> DEFINE c == PeerConn(u)
<1>1. c \in AdmConn /\ ip \in Remote /\ ip \in Remote \cup {Local} BY Zenon DEF PeerConn, AdmConn, Remote
<1>2. /\ Free(c) /\ home' = home /\ repInFlight' = repInFlight /\ verdicts' = verdicts
  BY Zenon DEF ArriveTCP, ArriveUDP, ArriveControl, ArriveWeb
<1>3. PICK r : Set(c, r) /\ Sound(r) /\ r.at \in {"rules", "done"} /\ r.of = NoOne
  <2>1. CASE ArriveTCP(c, ip)
    <3> DEFINE r == Begin(ip, UserPort, "tcp", NoOne)
    <3>0. Sound(r) /\ Begun(r, ip, UserPort, "tcp", NoOne) BY Zenon, <1>1, BeginSound
    <3>1. Sound(r) /\ r.at = "rules" /\ r.of = NoOne BY Zenon, <3>0 DEF Begun
    <3> QED BY Zenon, <2>1, <3>1 DEF ArriveTCP
  <2>2. CASE ArriveUDP(c, ip)
    <3> DEFINE b == Begin(ip, UserPort, "udp", NoOne)
               a == [b EXCEPT !.ok = verdicts[ip].ok, !.reused = TRUE, !.old = verdicts[ip].old]
    <3>0. Sound(b) /\ Begun(b, ip, UserPort, "udp", NoOne) BY Zenon, <1>1, BeginSound
    <3>1. Sound(b) /\ b.at = "rules" /\ b.of = NoOne BY Zenon, <3>0 DEF Begun
    <3>2. CASE StillValid(verdicts[ip])
      <4>1. Set(c, Finished(a)) BY Zenon, <2>2, <3>2 DEF ArriveUDP
      <4> HIDE DEF b
      <4>2. IsConn(a) /\ a.old = verdicts[ip].old /\ a.of = NoOne BY Zenon, <3>1 DEF Sound, IsConn, Fields
      <4>3. verdicts[ip].old \in Nat /\ verdicts[ip].old < VerdictTTL
        BY <1>1, <3>2, AdmissionAssumption DEF VerdictsSound, VerdictSound, StillValid
      <4> HIDE DEF a
      <4>4. Sound(Finished(a)) /\ Finished(a).at = "done" /\ Finished(a).of = NoOne BY Zenon, <4>2, <4>3, FinishedFacts
      <4> QED BY Zenon, <4>1, <4>4
    <3>3. CASE ~StillValid(verdicts[ip]) BY Zenon, <2>2, <3>1, <3>3 DEF ArriveUDP
    <3> QED BY Zenon, <3>2, <3>3
  <2>3. CASE ArriveControl(c, ip)
    <3> DEFINE s == Begin(ip, UserPort, "control", NoOne)
               on == fw.on /\ fw.controlPort
               b == [s EXCEPT !.due = on]
               x == [b EXCEPT !.due = FALSE]
               y == [b EXCEPT !.ok = TRUE]
    <3>1. Set(c, IF b.due THEN x ELSE Finished(y)) BY Zenon, <2>3 DEF ArriveControl
    <3>0. Sound(s) /\ Begun(s, ip, UserPort, "control", NoOne) BY Zenon, <1>1, BeginSound
    <3> HIDE DEF s, on
    <3>2. Sound(s) /\ s.at = "rules" /\ s.of = NoOne /\ s.reused = FALSE /\ s.path = "control"
      BY Zenon, <3>0 DEF Begun
    <3>3. IsConn(b) /\ b.at = "rules" /\ b.of = NoOne /\ b.old = s.old /\ b.age = s.age /\ b.reused = FALSE /\ b.path = "control" /\ b.ip = s.ip
      BY Zenon, <3>2 DEF Sound, IsConn, Fields
    <3> HIDE DEF b
    <3>4. IsConn(x) /\ x.at = "rules" /\ x.of = NoOne /\ x.old = s.old /\ x.age = s.age /\ x.reused = FALSE /\ x.path = "control" /\ x.ip = b.ip
      BY Zenon, <3>3 DEF IsConn, Fields
    <3>5. IsConn(y) /\ y.of = NoOne /\ y.old = s.old /\ y.reused = FALSE BY Zenon, <3>3 DEF IsConn, Fields
    <3> HIDE DEF x, y
    <3>6. Sound(x) BY Zenon, <3>2, <3>3, <3>4 DEF Sound
    <3>7. Sound(Finished(y)) /\ Finished(y).at = "done" /\ Finished(y).of = NoOne
      BY Zenon, <3>2, <3>5, FinishedFacts DEF Sound
    <3> QED BY Zenon, <3>1, <3>4, <3>6, <3>7
  <2>4. CASE ArriveWeb(c, ip)
    <3> DEFINE s == Begin(ip, UserPort, "web", NoOne)
               on == fw.on /\ fw.webPort
               b == [s EXCEPT !.due = on]
               y == [b EXCEPT !.ok = TRUE]
    <3>1. Set(c, IF webFilter /\ b.due THEN b ELSE Finished(y)) BY Zenon, <2>4 DEF ArriveWeb
    <3>0. Sound(s) /\ Begun(s, ip, UserPort, "web", NoOne) BY Zenon, <1>1, BeginSound
    <3> HIDE DEF s, on
    <3>2. Sound(s) /\ s.at = "rules" /\ s.of = NoOne /\ s.reused = FALSE /\ s.path = "web"
      BY Zenon, <3>0 DEF Begun
    <3>3. IsConn(b) /\ b.at = "rules" /\ b.of = NoOne /\ b.old = s.old /\ b.age = s.age /\ b.reused = FALSE /\ b.path = "web" /\ b.ip = s.ip
      BY Zenon, <3>2 DEF Sound, IsConn, Fields
    <3> HIDE DEF b
    <3>4. IsConn(y) /\ y.of = NoOne /\ y.old = s.old /\ y.reused = FALSE BY Zenon, <3>3 DEF IsConn, Fields
    <3> HIDE DEF y
    <3>5. Sound(b) BY Zenon, <3>2, <3>3 DEF Sound
    <3>6. Sound(Finished(y)) /\ Finished(y).at = "done" /\ Finished(y).of = NoOne
      BY Zenon, <3>2, <3>4, FinishedFacts DEF Sound
    <3> QED BY Zenon, <3>1, <3>3, <3>5, <3>6
  <2> QED BY Zenon, <2>1, <2>2, <2>3, <2>4
<1>4. adm' = [adm EXCEPT ![c] = r] /\ adm[c].at \notin {"ask", "call"} /\ r.at # "ask" BY Zenon, <1>2, <1>3 DEF Set, Free
<1>5. \A d \in AdmConn : OwnSound(r, c, d, adm[d].at) BY Zenon, <1>3, SomeOne DEF OwnSound
<1> HIDE DEF c
<1>6. ConnsSound' BY Zenon, <1>1, <1>2, <1>3, <1>4, <1>5, ConnMoves
<1>7. VerdictsSound' BY Zenon, <1>2 DEF VerdictsSound, VerdictSound
<1> QED BY Zenon, <1>6, <1>7

(* The connection that a call to a service published here makes.           *)
LEMMA CallHomeKeeps == ASSUME ConnsSound, NEW u \in AdmUser, CallHome(u) PROVE ConnsSound'
<1> DEFINE c == OwnConn(u)
           p == PeerConn(u)
<1>1. c \in AdmConn /\ p \in AdmConn /\ c # p BY Zenon DEF PeerConn, OwnConn, AdmConn
<1>2. Free(c) /\ home' = home /\ repInFlight' = repInFlight BY Zenon DEF CallHome
<1>3. PICK what \in home :
        /\ Calls(p, what)
        /\ Set(c, Begin(Local, IF what = "provider" THEN ProviderPort ELSE PluginPort, "tcp", p))
  BY Zenon DEF CallHome
<1> DEFINE r == Begin(Local, IF what = "provider" THEN ProviderPort ELSE PluginPort, "tcp", p)
<1>4. /\ Sound(r) /\ r.at = "rules" /\ r.ip = Local /\ r.of = p
      /\ r.port = IF what = "provider" THEN ProviderPort ELSE PluginPort
  <2> DEFINE port == IF what = "provider" THEN ProviderPort ELSE PluginPort
  <2>1. Sound(r) /\ Begun(r, Local, port, "tcp", p) BY Zenon, BeginSound
  <2> HIDE DEF r
  <2> QED BY Zenon, <2>1 DEF Begun
<1>5. adm' = [adm EXCEPT ![c] = r] /\ adm[c].at \notin {"ask", "call"} BY Zenon, <1>2, <1>3 DEF Set, Free
<1> HIDE DEF r, c, p
<1>6. ASSUME NEW d \in AdmConn PROVE OwnSound(r, c, d, adm[d].at) BY Zenon, <1>1, <1>3, <1>4 DEF OwnSound, Calls
<1> QED BY Zenon, <1>1, <1>2, <1>4, <1>5, <1>6, ConnMoves

(* What a verdict of the firewall makes of a connection, its own ones too. *)
LEMMA JudgedSound ==
  ASSUME ConnsSound, NEW c \in AdmConn, adm[c].at \in {"rules", "rep", "ask"}, NEW ok
  PROVE  LET r == Judged(c, ok)
         IN  /\ Sound(r) /\ r.at \in {"call", "done"} /\ r.of # c
             /\ \A d \in AdmConn : OwnSound(r, c, d, adm[d].at)
<1> DEFINE r == Judged(c, ok)
<1>1. Sound(adm[c]) BY Zenon DEF ConnsSound
<1>2. /\ Sound(r) /\ r.at \in {"call", "done"} /\ r.of = adm[c].of
      /\ r.at = "call" => ~IsSelfCall(r.ip, r.port) /\ r.ip = adm[c].ip /\ r.port = adm[c].port
  BY Zenon, <1>1, JudgedFacts
<1> HIDE DEF r
<1>3. \A d \in AdmConn : OwnSound(adm[c], c, d, adm[d].at) BY Zenon DEF ConnsSound
<1>4. r.of # c BY Zenon, <1>2, <1>3 DEF OwnSound
<1>5. ASSUME NEW d \in AdmConn PROVE OwnSound(r, c, d, adm[d].at)
  BY Zenon, <1>2, <1>3 DEF OwnSound, IsSelfCall, ProviderPort, PluginPort
<1> QED BY Zenon, <1>2, <1>4, <1>5 DEF r

(* Firewall.Allow keeps them sound: a call to the provider does not ask    *)
(* it.                                                                     *)
LEMMA AllowKeeps ==
  ASSUME ConnsSound, VerdictsSound, NEW c \in AdmConn, Allow(c) PROVE ConnsSound' /\ VerdictsSound'
<1> DEFINE rule == RuleFor(fw, adm[c].ip, adm[c].port)
           asks == fw.mode # "off" /\ adm[c].ip # Unparsed /\ ~isSelfCall(adm[c].ip, adm[c].port)
           r == [adm[c] EXCEPT !.at = "rep", !.def = fw.def, !.failOpen = fw.failOpen]
<1>1. adm[c].at = "rules" /\ home' = home /\ repInFlight' = repInFlight /\ Sound(adm[c]) BY Zenon DEF Allow, ConnsSound
<1>2. CASE asks /\ Set(c, r) /\ UNCHANGED verdicts
  <2>1. /\ IsConn(r) /\ r.at = "rep" /\ r.ip = adm[c].ip /\ r.port = adm[c].port /\ r.path = adm[c].path
        /\ r.of = adm[c].of /\ r.age = adm[c].age /\ r.old = adm[c].old /\ r.reused = adm[c].reused
    BY Zenon, <1>1 DEF Sound, IsConn, Fields
  <2> HIDE DEF r
  <2>2. r.ip \in Addr BY Zenon, <1>1, <1>2, <2>1 DEF Sound
  <2>3. Sound(r) BY Zenon, <1>1, <2>1, <2>2 DEF Sound
  <2>4. ASSUME NEW d \in AdmConn PROVE OwnSound(r, c, d, adm[d].at)
    <3>1. OwnSound(adm[c], c, d, adm[d].at) BY Zenon DEF ConnsSound
    <3> QED BY Zenon, <1>1, <1>2, <2>1, <3>1 DEF OwnSound, isSelfCall
  <2>5. ConnsSound' BY Zenon, <1>1, <1>2, <2>1, <2>3, <2>4, ConnMoves DEF Set
  <2> QED BY Zenon, <1>2, <2>5 DEF VerdictsSound, VerdictSound
<1>3. ASSUME NEW ok, Verdict(c, ok) PROVE ConnsSound' /\ VerdictsSound'
  <2>1. Set(c, Judged(c, ok)) /\ Kept(c, Judged(c, ok), ok) BY Zenon, <1>3 DEF Verdict
  <2>2. ConnsSound' BY Zenon, <1>1, <2>1, JudgedSound, ConnMoves DEF Set
  <2> QED BY Zenon, <1>1, <2>1, <2>2, KeptFacts
<1> QED BY Zenon, <1>2, <1>3 DEF Allow

(* A connection that only changes its place.                               *)
LEMMA PlaceFacts ==
  ASSUME ConnsSound, NEW c \in AdmConn, adm[c].at \in {"rep", "wait"}, NEW at \in {"rep", "wait", "ask"}
  PROVE  LET r == [adm[c] EXCEPT !.at = at]
         IN  Sound(r) /\ r.at = at /\ r.ip = adm[c].ip /\ \A d \in AdmConn : OwnSound(r, c, d, adm[d].at)
<1> DEFINE r == [adm[c] EXCEPT !.at = at]
<1>1. Sound(adm[c]) BY Zenon DEF ConnsSound
<1>2. /\ IsConn(r) /\ r.at = at /\ r.ip = adm[c].ip /\ r.port = adm[c].port /\ r.path = adm[c].path
      /\ r.of = adm[c].of /\ r.age = adm[c].age /\ r.old = adm[c].old /\ r.reused = adm[c].reused
  BY Zenon, <1>1 DEF Sound, IsConn, Fields
<1> HIDE DEF r
<1>3. Sound(r) BY Zenon, <1>1, <1>2 DEF Sound
<1>4. ASSUME NEW d \in AdmConn PROVE OwnSound(r, c, d, adm[d].at)
  <2>1. OwnSound(adm[c], c, d, adm[d].at) BY Zenon DEF ConnsSound
  <2> QED BY Zenon, <1>2, <2>1 DEF OwnSound
<1> QED BY Zenon, <1>2, <1>3, <1>4 DEF r

(* checkExternal keeps them sound: whoever asks finds nobody in flight.    *)
LEMMA CheckKeeps ==
  ASSUME ConnsSound, VerdictsSound, NEW c \in AdmConn, CheckExternal(c) \/ WakeUp(c)
  PROVE  ConnsSound' /\ VerdictsSound'
<1>1. adm[c].at \in {"rep", "wait"} /\ home' = home /\ Sound(adm[c]) BY Zenon DEF CheckExternal, WakeUp, ConnsSound
<1>2. ASSUME verdicts' = verdicts PROVE VerdictsSound' BY Zenon, <1>2 DEF VerdictsSound, VerdictSound
<1>3. ASSUME NEW ok, adm[c].at = "rep", Verdict(c, ok), repInFlight' = repInFlight
      PROVE  ConnsSound' /\ VerdictsSound'
  <2>1. Set(c, Judged(c, ok)) /\ Kept(c, Judged(c, ok), ok) BY Zenon, <1>3 DEF Verdict
  <2>2. ConnsSound' BY Zenon, <1>1, <1>3, <2>1, JudgedSound, ConnMoves DEF Set
  <2> QED BY Zenon, <1>1, <2>1, <2>2, KeptFacts
<1>4. ASSUME NEW at \in {"rep", "wait"}, Set(c, [adm[c] EXCEPT !.at = at]), repInFlight' = repInFlight
      PROVE  ConnsSound'
  <2> DEFINE r == [adm[c] EXCEPT !.at = at]
  <2>1. Sound(r) /\ r.at = at /\ \A d \in AdmConn : OwnSound(r, c, d, adm[d].at) BY Zenon, <1>1, PlaceFacts
  <2>2. adm' = [adm EXCEPT ![c] = r] BY Zenon, <1>4 DEF Set
  <2> HIDE DEF r
  <2> QED BY Zenon, <1>1, <1>4, <2>1, <2>2, ConnMoves
<1>5. ASSUME Set(c, [adm[c] EXCEPT !.at = "ask"]), repInFlight[adm[c].ip] = NoOne,
             repInFlight' = [repInFlight EXCEPT ![adm[c].ip] = c]
      PROVE  ConnsSound'
  <2> DEFINE r == [adm[c] EXCEPT !.at = "ask"]
  <2>1. Sound(r) /\ r.at = "ask" /\ r.ip = adm[c].ip /\ \A d \in AdmConn : OwnSound(r, c, d, adm[d].at)
    BY Zenon, <1>1, PlaceFacts
  <2>2. adm' = [adm EXCEPT ![c] = r] BY Zenon, <1>5 DEF Set
  <2> HIDE DEF r
  <2> QED BY Zenon, <1>1, <1>5, <2>1, <2>2, ConnMoves
<1>6. CASE CheckExternal(c) BY Zenon, <1>2, <1>3, <1>4, <1>5, <1>6 DEF CheckExternal, SomeoneAsks
<1>7. CASE WakeUp(c) BY Zenon, <1>2, <1>4, <1>7 DEF WakeUp
<1> QED BY Zenon, <1>6, <1>7

(* The end of a query, and of a hook.                                      *)
LEMMA EndsKeep ==
  ASSUME ConnsSound, VerdictsSound, NEW c \in AdmConn,
         \/ \E b, e \in BOOLEAN : QueryEnds(c, b, e)
         \/ \E ok \in BOOLEAN : HookEnds(c, ok)
  PROVE  ConnsSound' /\ VerdictsSound'
<1>1. Sound(adm[c]) BY Zenon DEF ConnsSound
<1>2. ASSUME NEW b \in BOOLEAN, NEW e \in BOOLEAN, QueryEnds(c, b, e) PROVE ConnsSound' /\ VerdictsSound'
  <2> DEFINE ok == ~EntryFor(c, b, e).blocked /\ adm[c].def = "allow"
             r == Judged(c, ok)
  <2>1. /\ adm[c].at = "ask" /\ repInFlight' = LeavesFlight(c) /\ home' = home
        /\ adm' = [Ended(c) EXCEPT ![c] = r] /\ Kept(c, r, ok)
    BY Zenon, <1>2 DEF QueryEnds
  <2> HIDE DEF ok
  <2>2. /\ Sound(r) /\ r.at \in {"call", "done"} /\ r.of # c
        /\ \A d \in AdmConn : OwnSound(r, c, d, adm[d].at)
    BY Zenon, <2>1, JudgedSound
  <2> HIDE DEF r
  <2>3. ConnsSound' BY Zenon, <2>1, <2>2, CallEnds
  <2> QED BY Zenon, <1>1, <2>1, <2>3, KeptFacts
<1>3. ASSUME NEW ok \in BOOLEAN, HookEnds(c, ok) PROVE ConnsSound' /\ VerdictsSound'
  <2> DEFINE a == [adm[c] EXCEPT !.ok = ok]
             r == Finished(a)
  <2>1. /\ adm[c].at = "call" /\ repInFlight' = repInFlight /\ home' = home
        /\ adm' = [Ended(c) EXCEPT ![c] = r] /\ Kept(c, r, ok)
    BY Zenon, <1>3 DEF HookEnds
  <2>2. IsConn(a) /\ a.old \in Nat /\ ~a.reused /\ a.of = adm[c].of BY Zenon, <1>1, <2>1 DEF Sound, IsConn, Fields
  <2> HIDE DEF a
  <2>3. Sound(r) /\ r.at = "done" /\ r.of = adm[c].of BY Zenon, <2>2, FinishedFacts
  <2> HIDE DEF r
  <2>4. \A d \in AdmConn : OwnSound(adm[c], c, d, adm[d].at) BY Zenon DEF ConnsSound
  <2>5. r.of # c /\ \A d \in AdmConn : OwnSound(r, c, d, adm[d].at) BY Zenon, <2>3, <2>4 DEF OwnSound
  <2>6. ConnsSound' BY Zenon, <2>1, <2>3, <2>5, CallEnds
  <2> QED BY Zenon, <1>1, <2>1, <2>6, KeptFacts
<1> QED BY Zenon, <1>2, <1>3

(* Time passes for all of them at once.                                    *)
LEMMA TickKeeps == ASSUME ConnsSound, VerdictsSound, TickAdm PROVE ConnsSound' /\ VerdictsSound'
<1>1. repInFlight' = repInFlight /\ home' = home BY Zenon DEF TickAdm
<1>2. adm' = [c \in AdmConn |-> adm'[c]] /\ verdicts' = [a \in Remote |-> verdicts'[a]]
  BY Zenon DEF TickAdm, VerdictsSound
<1>3. ASSUME NEW c \in AdmConn
      PROVE  /\ Sound(adm'[c]) /\ adm'[c].at = adm[c].at /\ adm'[c].ip = adm[c].ip
             /\ adm'[c].port = adm[c].port /\ adm'[c].of = adm[c].of
  <2> DEFINE age == OfUDP(c, Incr(adm[c].age))
             old == OfUDP(c, Incr(adm[c].old))
             asked == IF adm[c].at = "ask" THEN adm[c].asked + 1 ELSE 0
             r == [adm[c] EXCEPT !.age = age, !.old = old, !.asked = asked]
  <2>1. Sound(adm[c]) BY Zenon DEF ConnsSound
  <2>2. CASE adm[c].at \in {"ask", "wait", "call"}
    <3>1. adm'[c] = r BY Zenon, <2>2 DEF TickAdm
    <3>2. age \in Nat /\ old \in Nat /\ (adm[c].path = "udp" => age = old)
      BY <2>1, AdmissionAssumption DEF Sound, OfUDP, Incr
    <3> HIDE DEF age, old, asked
    <3>3. /\ IsConn(r) /\ r.at = adm[c].at /\ r.ip = adm[c].ip /\ r.port = adm[c].port /\ r.path = adm[c].path
          /\ r.of = adm[c].of /\ r.age = age /\ r.old = old /\ r.reused = adm[c].reused
      BY Zenon, <2>1 DEF Sound, IsConn, Fields
    <3> HIDE DEF r
    <3>4. Sound(r) BY Zenon, <2>1, <2>2, <3>2, <3>3 DEF Sound
    <3> QED BY Zenon, <3>1, <3>3, <3>4
  <2>3. CASE adm[c].at \notin {"ask", "wait", "call"}
    <3>1. adm'[c] = adm[c] BY Zenon, <2>3 DEF TickAdm
    <3> QED BY Zenon, <2>1, <3>1
  <2> QED BY Zenon, <2>2, <2>3
<1>4. ConnsSound'
  <2>1. repInFlight' = [a \in Addr |-> repInFlight'[a]] BY Zenon, <1>1 DEF ConnsSound
  <2>2. \A c \in AdmConn : adm'[c].at = "ask" => repInFlight'[adm'[c].ip] = c BY Zenon, <1>1, <1>3 DEF ConnsSound
  <2>3. ASSUME NEW c \in AdmConn, NEW d \in AdmConn PROVE OwnSound(adm[c], c, d, adm[d].at)'
    <3>1. OwnSound(adm[c], c, d, adm[d].at) BY Zenon DEF ConnsSound
    <3> QED BY <1>1, <1>3, <3>1 DEF OwnSound
  <2> QED BY Zenon, <1>2, <1>3, <2>1, <2>2, <2>3 DEF ConnsSound, Sound
<1>5. ASSUME NEW a \in Remote PROVE VerdictSound(verdicts'[a])
  <2> DEFINE left == Decr(verdicts[a].left)
             old == Incr(verdicts[a].old)
             v == [verdicts[a] EXCEPT !.left = left, !.old = old]
  <2>1. VerdictSound(verdicts[a]) BY Zenon DEF VerdictsSound
  <2>2. verdicts'[a] = IF left = 0 THEN NoVerdict ELSE v BY Zenon DEF TickAdm, VerdictsSound
  <2>3. /\ left \in Nat /\ old \in Nat
        /\ left > 0 => verdicts[a].left > 0 /\ left = verdicts[a].left - 1 /\ old <= verdicts[a].old + 1
    BY <2>1, AdmissionAssumption DEF VerdictSound, Decr, Incr
  <2> HIDE DEF left, old
  <2>4. v = [f \in {"ok", "left", "old"} |-> v[f]] /\ v.left = left /\ v.old = old BY Zenon, <2>1 DEF VerdictSound
  <2> HIDE DEF v
  <2>5. VerdictSound(v) BY <2>1, <2>3, <2>4, AdmissionAssumption DEF VerdictSound
  <2> QED BY Zenon, <2>2, <2>5, IdleFacts
<1> QED BY Zenon, <1>2, <1>4, <1>5 DEF VerdictsSound, VerdictSound

(* Every step keeps them, and the state file.                              *)
LEMMA AdmStep ==
  ASSUME ConnsSound, VerdictsSound, AdmNext PROVE ConnsSound' /\ VerdictsSound'
<1>1. ASSUME adm' = [c \in AdmConn |-> Idle0], repInFlight' = [a \in Addr |-> NoOne],
             verdicts' = [a \in Remote |-> NoVerdict], home' = home
      PROVE  ConnsSound' /\ VerdictsSound'
  <2>1. \A c \in AdmConn : adm'[c] = Idle0 BY Zenon, <1>1
  <2>2. \A c, d \in AdmConn : OwnSound(adm[c], c, d, adm[d].at)' BY Zenon, <2>1, IdleFacts, SomeOne DEF OwnSound
  <2>3. ConnsSound' BY Zenon, <1>1, <2>1, <2>2, IdleFacts DEF ConnsSound, Sound
  <2>4. VerdictsSound' BY Zenon, <1>1, IdleFacts DEF VerdictsSound, VerdictSound
  <2> QED BY Zenon, <2>3, <2>4
<1>2. ASSUME UNCHANGED <<home, repInFlight, verdicts, adm>> PROVE ConnsSound' /\ VerdictsSound'
  BY <1>2 DEF ConnsSound, Sound, OwnSound, VerdictsSound, VerdictSound
<1>3. CASE RestartFrps BY Zenon, <1>1, <1>3 DEF RestartFrps
<1>4. CASE Sweep \/ \E f \in FWConfigs : SetConfig(f) BY Zenon, <1>2, <1>4 DEF Sweep, SetConfig
<1>5. ASSUME NEW u \in AdmUser, CallHome(u) PROVE ConnsSound' /\ VerdictsSound'
  BY Zenon, <1>5, CallHomeKeeps DEF CallHome, VerdictsSound, VerdictSound
<1> QED BY Zenon, <1>3, <1>4, <1>5, TickKeeps, ArrivesKeeps, AllowKeeps, CheckKeeps, EndsKeep DEF AdmNext

(* The state file is the configuration in force unless a save has failed.  *)
LEMMA FileStep == ASSUME FileKept, AdmNext PROVE FileKept'
<1>1. ASSUME UNCHANGED <<fw, fwFile, unsaved>> PROVE FileKept' BY Zenon, <1>1 DEF FileKept
<1>2. CASE RestartFrps BY Zenon, <1>2 DEF RestartFrps, FileKept
<1>3. CASE Sweep BY Zenon, <1>3 DEF Sweep, Saves, SavedState, SaveFails, FileKept
<1>4. CASE TickAdm BY Zenon, <1>4 DEF TickAdm, FileKept
<1>5. CASE \E f \in FWConfigs : SetConfig(f) BY Zenon, <1>5 DEF SetConfig, Saves, SavedState, SaveFails, FileKept
<1>6. CASE \E u \in AdmUser :
             \/ \E ip \in UserAddr[u] :
                  ArriveTCP(PeerConn(u), ip) \/ ArriveUDP(PeerConn(u), ip) \/ ArriveControl(PeerConn(u), ip)
                  \/ ArriveWeb(PeerConn(u), ip)
             \/ CallHome(u)
  BY Zenon, <1>1, <1>6 DEF ArriveTCP, ArriveUDP, ArriveControl, ArriveWeb, CallHome
<1>7. CASE \E c \in AdmConn :
             \/ Allow(c) \/ CheckExternal(c) \/ WakeUp(c)
             \/ \E b, e \in BOOLEAN : QueryEnds(c, b, e)
             \/ \E ok \in BOOLEAN : HookEnds(c, ok)
  BY Zenon, <1>1, <1>7 DEF Allow, CheckExternal, WakeUp, QueryEnds, HookEnds
<1> QED BY Zenon, <1>2, <1>3, <1>4, <1>5, <1>6, <1>7 DEF AdmNext

(* The inductive invariant of admission.                                   *)
AdmIInv == ConnsSound /\ VerdictsSound /\ FileKept

(* At the entry of frps, for any peers, rules, answers of the provider and *)
(* of the plugin and any lifetimes: one query for an address at a time, no *)
(* verdict of the udp filter reused after its time, no call that waits for *)
(* itself, and rules that a restart keeps unless the last save had failed. *)
THEOREM AdmissionSafe ==
  AdmSpec => []OneQueryPerAddress /\ []VerdictsYoung /\ []NoCallInItself /\ RestartKeepsRules
<1> USE DEF AdmIInv
<1>1. AdmInit => AdmIInv
  <2> SUFFICES ASSUME AdmInit PROVE AdmIInv BY Zenon
  <2>1. /\ adm = [c \in AdmConn |-> Idle0] /\ repInFlight = [a \in Addr |-> NoOne]
        /\ verdicts = [a \in Remote |-> NoVerdict] /\ fw = fwFile
    BY Zenon DEF AdmInit, Fresh
  <2>2. \A c, d \in AdmConn : OwnSound(adm[c], c, d, adm[d].at) BY Zenon, <2>1, IdleFacts, SomeOne DEF OwnSound
  <2>3. ConnsSound BY Zenon, <2>1, <2>2, IdleFacts DEF ConnsSound
  <2>4. VerdictsSound BY Zenon, <2>1, IdleFacts DEF VerdictsSound
  <2> QED BY Zenon, <2>1, <2>3, <2>4 DEF FileKept
<1>2. AdmIInv /\ [AdmNext]_admVars => AdmIInv'
  <2>1. ASSUME AdmIInv, UNCHANGED admVars PROVE AdmIInv'
    BY <2>1 DEF admVars, ConnsSound, Sound, OwnSound, VerdictsSound, VerdictSound, FileKept
  <2> QED BY Zenon, <2>1, AdmStep, FileStep
<1>3. AdmIInv => OneQueryPerAddress BY Zenon DEF ConnsSound, OneQueryPerAddress
<1>4. AdmIInv => VerdictsYoung BY Zenon DEF ConnsSound, Sound, VerdictsYoung
<1>5. AdmIInv => NoCallInItself BY Zenon DEF ConnsSound, OwnSound, NoCallInItself
<1>6. AdmIInv => (RestartFrps => (unsaved \/ fw' = pruneLocked(fw))) BY Zenon DEF FileKept, RestartFrps
<1>7. AdmIInv /\ [AdmNext]_admVars => [RestartFrps => (unsaved \/ fw' = pruneLocked(fw))]_admVars BY Zenon, <1>6
<1> QED BY <1>1, <1>2, <1>3, <1>4, <1>5, <1>7, PTL DEF AdmSpec, RestartKeepsRules

-----------------------------------------------------------------------------
(***************************************************************************)
(* The sessions (server/control.go, server/service.go, pkg/registry).      *)
(***************************************************************************)
Before == {"idle", "replacing", "waiting", "registering", "conflict",
           "responding", "undoing", "offlining", "starting"}

(* The worker exists exactly when Start brought it up.                     *)
WorkerStarted ==
  \A c \in Ctl : /\ (work[c] = "none") <=> ~started[c]
                 /\ started[c] => login[c] \notin Before

(* doneCh is closed by a dead worker, or by Replaced for a control that    *)
(* Start will leave down.                                                  *)
DoneExplained ==
  \A c \in Ctl : /\ done[c] => (replaced[c] /\ ~started[c]) \/ work[c] = "dead"
                 /\ work[c] = "dead" => done[c]

(* A login inside Add: the control it replaces is retired and still stored,*)
(* and the manager's mutex keeps a second one out.                         *)
ReplacingState ==
  \A c \in Ctl : login[c] = "replacing" =>
    /\ waitFor[c] \in Ctl
    /\ replaced[waitFor[c]]
    /\ ctlsByRunID[runOf[c]] = waitFor[c]
    /\ \A d \in Ctl : login[d] = "replacing" => d = c

WaitingState == \A c \in Ctl : login[c] = "waiting" => waitFor[c] \in Ctl

(* Run ids are assigned by Add, once.                                      *)
RunAssigned ==
  \A c \in Ctl : /\ login[c] = "idle" => runOf[c] = None
                 /\ login[c] \notin {"idle", "ended"} => runOf[c] \in RunID
                 /\ login[c] \in {"idle", "replacing"} => ~replaced[c]

(* An entry of the manager is a stored control, and a retired one only     *)
(* while Add is at work on it.                                             *)
EntryState ==
  \A r \in RunID : ctlsByRunID[r] # None =>
    /\ runOf[ctlsByRunID[r]] = r
    /\ login[ctlsByRunID[r]] \notin {"idle", "replacing"}
    /\ replaced[ctlsByRunID[r]] =>
         \E c \in Ctl : login[c] = "replacing" /\ runOf[c] = r

(* The handover: what relates logins, workers and the manager's entries.   *)
Handover == /\ WorkerStarted
            /\ DoneExplained
            /\ ReplacingState
            /\ WaitingState
            /\ RunAssigned
            /\ EntryState
            /\ NoStrandedWaiter
            /\ OwnerReachable

(* The inductive invariant.                                                *)
IInv == TypeOK /\ Handover
-----------------------------------------------------------------------------
(* The operations of the client registry return registries.                *)
LEMMA RegisteredType ==
  ASSUME NEW g \in Registries, NEW id \in ClientID \cup {None}, NEW r \in RunID
  PROVE  Registered(g, id, r) \in Registries
BY Zenon, RegistryAssumption DEF Registered, Registries, ClientInfo, ClientKey, Key

(* Marking a client offline leaves a registry.                             *)
LEMMA MarkedOfflineType ==
  ASSUME NEW g \in Registries, NEW r \in RunID \cup {None}
  PROVE  MarkedOffline(g, r) \in Registries
BY Zenon, RegistryAssumption DEF MarkedOffline, Registries, ClientInfo, Key

(* Initially nothing is stored, started or waited for.                     *)
LEMMA InitInvariant == Init => IInv
<1> SUFFICES ASSUME Init PROVE IInv
  BY Zenon
<1>1. TypeOK
  <2>1. reg \in Registries
    BY Zenon DEF Init, EmptyRegistry, Registries
  <2>2. svcClosed \in BOOLEAN
    BY Zenon DEF Init
  <2> QED
    BY <2>1, <2>2 DEF Init, TypeOK, LoginPC, WorkPC, Peers
<1>2. Handover
  BY Zenon DEF Init, Handover, WorkerStarted, DoneExplained, ReplacingState, WaitingState,
         RunAssigned, EntryState, NoStrandedWaiter, OwnerReachable, Before
<1> QED
  BY Zenon, <1>1, <1>2 DEF IInv
-----------------------------------------------------------------------------
(* Type correctness of each step.  Only the steps that call the registry   *)
(* need to know more than the types: the run id they pass was assigned.    *)
LEMMA TypeStep == IInv /\ [Next]_vars => TypeOK'
<1> SUFFICES ASSUME IInv, [Next]_vars PROVE TypeOK'
  BY Zenon
<1> USE DEF IInv, TypeOK, ctlVars, connVars, LoginStep, WorkStep, LoginPC, WorkPC, Peers
<1>1. ASSUME NEW c \in Ctl, RejectLogin(c) PROVE TypeOK'
  BY Zenon, <1>1 DEF RejectLogin
<1>2. ASSUME NEW c \in Ctl, NEW r \in RunID, AddControl(c, r) PROVE TypeOK'
  <2>1. CASE ctlsByRunID[r] = None
    BY SMTT(30), <1>2, <2>1 DEF AddControl
  <2>2. CASE ctlsByRunID[r] # None
    <3>1. ctlsByRunID[r] \in Ctl
      BY Zenon, <2>2
    <3>2. /\ login' \in [Ctl -> LoginPC]
          /\ waitFor' \in [Ctl -> Ctl \cup {None}]
          /\ replaced' \in [Ctl -> BOOLEAN]
      BY ZenonT(30), <1>2, <2>2, <3>1 DEF AddControl
    <3>3. ownRun' \in [Ctl -> RunID \cup {None}]
      BY <1>2, <2>2, <3>1 DEF AddControl
    <3> QED
      BY Zenon, <1>2, <2>2, <3>2, <3>3 DEF AddControl
  <2> QED
    BY Zenon, <2>1, <2>2
<1>3. ASSUME NEW c \in Ctl, FinishAdd(c) PROVE TypeOK'
  <2>1. runOf[c] \in RunID
    BY Zenon, <1>3 DEF FinishAdd, Handover, RunAssigned
  <2> QED
    BY Zenon, <1>3, <2>1 DEF FinishAdd, InterruptRead, DoneIfUnstarted, Store
<1>4. ASSUME NEW c \in Ctl, OldClosed(c) PROVE TypeOK'
  BY Zenon, <1>4 DEF OldClosed
<1>5. ASSUME NEW c \in Ctl, WriteResp(c) PROVE TypeOK'
  BY Zenon, <1>5 DEF WriteResp
<1>6. ASSUME NEW c \in Ctl, WriteRespFails(c) PROVE TypeOK'
  BY Zenon, <1>6 DEF WriteRespFails
<1>7. ASSUME NEW c \in Ctl, CountClient(c) PROVE TypeOK'
  BY <1>7 DEF CountClient
<1>8. ASSUME NEW c \in Ctl, WorkerEnds(c) PROVE TypeOK'
  BY Zenon, <1>8 DEF WorkerEnds
<1>9. ASSUME NEW c \in Ctl, CloseProxies(c) PROVE TypeOK'
  BY <1>9 DEF CloseProxies
<1>10. ASSUME NEW c \in Ctl, ReadRunID(c) PROVE TypeOK'
  BY Zenon, <1>10 DEF ReadRunID, OfflineArg
<1>11. ASSUME NEW c \in Ctl, CloseDone(c) PROVE TypeOK'
  BY Zenon, <1>11 DEF CloseDone
<1>12. ASSUME NEW c \in Ctl, HeartbeatTimeout(c) PROVE TypeOK'
  BY Zenon, <1>12 DEF HeartbeatTimeout
<1>13. ASSUME NEW c \in Ctl, PeerLeaves(c) PROVE TypeOK'
  BY <1>13 DEF PeerLeaves
<1>14. ASSUME NEW c \in Ctl, Start(c) PROVE TypeOK'
  BY ZenonT(30), <1>14 DEF Start
<1>15. ASSUME NEW c \in Ctl, DropConflict(c) PROVE TypeOK'
  BY Zenon, <1>15 DEF DropConflict, Del
<1>16. ASSUME NEW c \in Ctl, UndoControl(c) PROVE TypeOK'
  BY Zenon, <1>16 DEF UndoControl, Del
<1>17. ASSUME NEW c \in Ctl, Reap(c) PROVE TypeOK'
  BY Zenon, <1>17 DEF Reap, Del
<1>18. ASSUME NEW c \in Ctl, RegisterClient(c) PROVE TypeOK'
  <2>1. /\ runOf[c] \in RunID
        /\ ClientOf[runOf[c]] \in ClientID \cup {None}
    BY Zenon, <1>18, SessionAssumption DEF RegisterClient, Handover, RunAssigned
  <2>2. reg' \in Registries
    <3>1. Registered(reg, ClientOf[runOf[c]], runOf[c]) \in Registries
      BY Zenon, <2>1, RegisteredType
    <3> QED
      BY Zenon, <1>18, <3>1 DEF RegisterClient
  <2> QED
    BY Zenon, <1>18, <2>2 DEF RegisterClient
<1>19. ASSUME NEW c \in Ctl, UndoRegister(c) PROVE TypeOK'
  <2>1. reg' \in Registries
    BY Zenon, <1>19, MarkedOfflineType DEF UndoRegister
  <2> QED
    BY Zenon, <1>19, <2>1 DEF UndoRegister
<1>20. ASSUME NEW c \in Ctl, MarkOffline(c) PROVE TypeOK'
  <2>1. reg' \in Registries
    BY Zenon, <1>20, MarkedOfflineType DEF MarkOffline
  <2> QED
    BY Zenon, <1>20, <2>1 DEF MarkOffline
<1>21. CASE CloseManager
  BY Zenon, <1>21 DEF CloseManager
<1>22. CASE UNCHANGED vars
  BY Zenon, <1>22 DEF vars
<1> QED
  BY ZenonT(30), <1>1, <1>2, <1>3, <1>4, <1>5, <1>6, <1>7, <1>8, <1>9, <1>10, <1>11, <1>12, <1>13, <1>14, <1>15, <1>16, <1>17, <1>18, <1>19, <1>20, <1>21, <1>22
     DEF Next, LoginActions, WorkerActions
-----------------------------------------------------------------------------
(* A login goroutine that advances past Add without touching controls or   *)
(* the manager.                                                            *)
LEMMA LoginMoves ==
  ASSUME IInv, NEW c \in Ctl, NEW from \in LoginPC, NEW to \in LoginPC,
         LoginStep(c, from, to),
         from \notin {"idle", "replacing", "ended"},
         to \notin {"idle", "replacing", "waiting"},
         to \in Before => from \in Before,
         from = "offlining" => to = "ended",
         UNCHANGED <<work, ctlVars, expired, ctlsByRunID, svcClosed>>
  PROVE  Handover'
<1> USE DEF LoginStep, ctlVars, IInv, Handover, TypeOK, LoginPC
<1>1. WorkerStarted' /\ DoneExplained'
  BY DEF WorkerStarted, DoneExplained, Before
<1>2. ReplacingState' /\ WaitingState'
  BY DEF ReplacingState, WaitingState
<1>3. RunAssigned'
  BY DEF RunAssigned
<1>4. EntryState'
  BY DEF EntryState
<1>5. NoStrandedWaiter'
  BY Zenon DEF NoStrandedWaiter
<1>6. OwnerReachable'
  BY Zenon DEF OwnerReachable
<1> QED
  BY Zenon, <1>1, <1>2, <1>3, <1>4, <1>5, <1>6

(* A login or reaper goroutine that leaves, taking its own control out of  *)
(* the manager.                                                            *)
LEMMA DelLeaves ==
  ASSUME IInv, NEW c \in Ctl, NEW from \in {"conflict", "undoing", "reaping"},
         NEW to \in {"offlining", "ended"},
         LoginStep(c, from, to), Del(c),
         from \in {"conflict", "reaping"} => to = "ended",
         UNCHANGED <<work, ctlVars, expired, svcClosed>>
  PROVE  Handover'
<1> USE DEF LoginStep, ctlVars, IInv, Handover, TypeOK, LoginPC, Del, ManagerFree
<1>1. WorkerStarted' /\ DoneExplained'
  BY DEF WorkerStarted, DoneExplained, Before
<1>2. ReplacingState' /\ WaitingState'
  BY DEF ReplacingState, WaitingState
<1>3. RunAssigned'
  BY Zenon DEF RunAssigned
<1>4. EntryState'
  BY DEF EntryState
<1>5. NoStrandedWaiter'
  BY Zenon DEF NoStrandedWaiter
<1>6. OwnerReachable'
  BY DEF OwnerReachable
<1> QED
  BY Zenon, <1>1, <1>2, <1>3, <1>4, <1>5, <1>6

(* A worker that advances towards its end.                                 *)
LEMMA WorkerMoves ==
  ASSUME IInv, NEW c \in Ctl,
         NEW from \in {"running", "closing", "reading", "offlining"},
         NEW to \in {"closing", "reading", "offlining", "finishing"},
         WorkStep(c, from, to),
         UNCHANGED <<login, ctlVars, expired, ctlsByRunID, svcClosed>>
  PROVE  Handover'
<1> USE DEF WorkStep, ctlVars, IInv, Handover, TypeOK, WorkPC
<1>1. WorkerStarted' /\ DoneExplained'
  BY DEF WorkerStarted, DoneExplained
<1>2. ReplacingState' /\ WaitingState' /\ RunAssigned' /\ EntryState' /\ OwnerReachable'
  BY DEF ReplacingState, WaitingState, RunAssigned, EntryState, OwnerReachable
<1>3. NoStrandedWaiter'
  BY DEF NoStrandedWaiter
<1> QED
  BY Zenon, <1>1, <1>2, <1>3

(* Every step preserves the handover invariant.                            *)
LEMMA HandoverStep == IInv /\ [Next]_vars => Handover'
<1> SUFFICES ASSUME IInv, [Next]_vars PROVE Handover'
  BY Zenon
<1> USE DEF IInv
<1>1. ASSUME NEW c \in Ctl, RejectLogin(c) PROVE Handover'
  <2> USE <1>1 DEF RejectLogin, LoginStep, WorkStep, ctlVars, connVars, TypeOK, Handover
  <2>1. WorkerStarted'
    BY Zenon DEF WorkerStarted, Before
  <2>2. DoneExplained'
    BY Zenon DEF DoneExplained
  <2>3. ReplacingState'
    BY DEF ReplacingState
  <2>4. WaitingState'
    BY Zenon DEF WaitingState
  <2>5. RunAssigned'
    BY Zenon DEF RunAssigned
  <2>6. EntryState'
    BY DEF EntryState
  <2>7. NoStrandedWaiter'
    BY DEF NoStrandedWaiter
  <2>8. OwnerReachable'
    BY Zenon DEF OwnerReachable
  <2> QED
    BY Zenon, <2>1, <2>2, <2>3, <2>4, <2>5, <2>6, <2>7, <2>8
<1>2. ASSUME NEW c \in Ctl, NEW r \in RunID, AddControl(c, r) PROVE Handover'
  <2> USE <1>2 DEF AddControl, ManagerFree, LoginStep, WorkStep, ctlVars, connVars, TypeOK, Handover
  <2>1. ctlsByRunID[r] # None =>
          /\ ctlsByRunID[r] \in Ctl \ {c}
          /\ login[ctlsByRunID[r]] \notin {"idle", "replacing"}
          /\ runOf[ctlsByRunID[r]] = r
    BY DEF EntryState
  <2>2. WorkerStarted'
    BY <2>1 DEF WorkerStarted, Before
  <2>3. DoneExplained'
    BY <2>1 DEF DoneExplained
  <2>4. ReplacingState'
    BY <2>1 DEF ReplacingState
  <2>5. WaitingState'
    BY <2>1 DEF WaitingState
  <2>6. RunAssigned'
    BY <2>1 DEF RunAssigned
  <2>7. EntryState'
    BY <2>1 DEF EntryState, RunAssigned
  <2>8. NoStrandedWaiter'
    BY <2>1 DEF NoStrandedWaiter
  <2>9. OwnerReachable'
    <3> SUFFICES ASSUME NEW d \in Ctl, ~svcClosed', ~replaced'[d],
                        login'[d] \in {"waiting", "registering", "conflict", "responding",
                                       "undoing", "starting", "counting", "reaping"}
                 PROVE  ctlsByRunID'[runOf'[d]] = d
      BY Zenon DEF OwnerReachable
    <3>1. CASE d = c
      BY <2>1, <3>1
    <3>2. CASE d # c
      <4>1. /\ login[d] = login'[d] /\ runOf[d] = runOf'[d] /\ ~replaced[d]
        BY <2>1, <3>2
      <4>2. ctlsByRunID[runOf[d]] = d /\ runOf[d] \in RunID
        BY Zenon, <4>1 DEF OwnerReachable, RunAssigned
      <4> QED
        BY <2>1, <3>2, <4>1, <4>2, SessionAssumption
    <3> QED
      BY Zenon, <3>1, <3>2
  <2> QED
    BY Zenon, <2>2, <2>3, <2>4, <2>5, <2>6, <2>7, <2>8, <2>9
<1>3. ASSUME NEW c \in Ctl, FinishAdd(c) PROVE Handover'
  <2> USE <1>3 DEF FinishAdd, InterruptRead, DoneIfUnstarted, Store,
                  LoginStep, WorkStep, ctlVars, connVars, TypeOK, Handover
  <2>1. /\ waitFor[c] \in Ctl \ {c}
        /\ runOf[c] \in RunID
        /\ replaced[waitFor[c]] /\ ~replaced[c]
        /\ ctlsByRunID[runOf[c]] = waitFor[c]
        /\ \A d \in Ctl : login[d] = "replacing" => d = c
    BY DEF ReplacingState, RunAssigned, EntryState
  <2>2. WorkerStarted'
    BY <2>1 DEF WorkerStarted, Before
  <2>3. DoneExplained'
    BY <2>1 DEF DoneExplained
  <2>4. ReplacingState'
    BY <2>1 DEF ReplacingState
  <2>5. WaitingState'
    BY Zenon, <2>1 DEF WaitingState
  <2>6. RunAssigned'
    BY Zenon, <2>1 DEF RunAssigned
  <2>7. EntryState'
    BY <2>1 DEF EntryState, RunAssigned
  <2>8. NoStrandedWaiter'
    BY <2>1 DEF NoStrandedWaiter, WorkerStarted, DoneExplained, WaitingState
  <2>9. OwnerReachable'
    BY <2>1 DEF OwnerReachable, RunAssigned
  <2> QED
    BY Zenon, <2>2, <2>3, <2>4, <2>5, <2>6, <2>7, <2>8, <2>9
<1>4. ASSUME NEW c \in Ctl, Start(c) PROVE Handover'
  <2> USE <1>4 DEF Start, LoginStep, WorkStep, ctlVars, connVars, TypeOK, Handover
  <2>1. WorkerStarted'
    BY DEF WorkerStarted, Before
  <2>2. DoneExplained'
    BY DEF DoneExplained
  <2>3. ReplacingState'
    BY DEF ReplacingState
  <2>4. WaitingState'
    BY Zenon DEF WaitingState
  <2>5. RunAssigned'
    BY Zenon DEF RunAssigned
  <2>6. EntryState'
    BY DEF EntryState
  <2>7. NoStrandedWaiter'
    BY DEF NoStrandedWaiter, WaitingState
  <2>8. OwnerReachable'
    BY Zenon DEF OwnerReachable
  <2> QED
    BY Zenon, <2>1, <2>2, <2>3, <2>4, <2>5, <2>6, <2>7, <2>8
<1>5. ASSUME NEW c \in Ctl, CloseDone(c) PROVE Handover'
  <2> USE <1>5 DEF CloseDone, LoginStep, WorkStep, ctlVars, connVars, TypeOK, Handover
  <2>1. WorkerStarted'
    BY Zenon DEF WorkerStarted, Before
  <2>2. DoneExplained'
    BY Zenon DEF DoneExplained
  <2>3. ReplacingState'
    BY Zenon DEF ReplacingState
  <2>4. WaitingState'
    BY Zenon DEF WaitingState
  <2>5. RunAssigned'
    BY Zenon DEF RunAssigned
  <2>6. EntryState'
    BY DEF EntryState
  <2>7. NoStrandedWaiter'
    BY DEF NoStrandedWaiter
  <2>8. OwnerReachable'
    BY Zenon DEF OwnerReachable
  <2> QED
    BY Zenon, <2>1, <2>2, <2>3, <2>4, <2>5, <2>6, <2>7, <2>8
<1>6. CASE CloseManager
  <2> USE <1>6 DEF CloseManager, ManagerFree, LoginStep, WorkStep, ctlVars, connVars, TypeOK, Handover
  <2>1. WorkerStarted'
    BY Zenon DEF WorkerStarted, Before
  <2>2. DoneExplained'
    BY Zenon DEF DoneExplained
  <2>3. ReplacingState'
    BY Zenon DEF ReplacingState
  <2>4. WaitingState'
    BY Zenon DEF WaitingState
  <2>5. RunAssigned'
    BY Zenon DEF RunAssigned
  <2>6. EntryState'
    BY Zenon DEF EntryState
  <2>7. NoStrandedWaiter'
    BY Zenon DEF NoStrandedWaiter
  <2>8. OwnerReachable'
    BY Zenon DEF OwnerReachable
  <2> QED
    BY Zenon, <2>1, <2>2, <2>3, <2>4, <2>5, <2>6, <2>7, <2>8
<1>7. ASSUME NEW c \in Ctl, OldClosed(c) PROVE Handover'
  BY <1>7, LoginMoves DEF OldClosed, connVars, Before, LoginPC
<1>8. ASSUME NEW c \in Ctl, RegisterClient(c) PROVE Handover'
  BY <1>8, LoginMoves DEF RegisterClient, connVars, Before, LoginPC
<1>9. ASSUME NEW c \in Ctl, WriteResp(c) PROVE Handover'
  BY Zenon, <1>9, LoginMoves DEF WriteResp, connVars, Before, LoginPC
<1>10. ASSUME NEW c \in Ctl, WriteRespFails(c) PROVE Handover'
  BY Zenon, <1>10, LoginMoves DEF WriteRespFails, connVars, Before, LoginPC
<1>11. ASSUME NEW c \in Ctl, UndoRegister(c) PROVE Handover'
  BY Zenon, <1>11, LoginMoves DEF UndoRegister, connVars, Before, LoginPC
<1>12. ASSUME NEW c \in Ctl, CountClient(c) PROVE Handover'
  BY Zenon, <1>12, LoginMoves DEF CountClient, connVars, Before, LoginPC
<1>13. ASSUME NEW c \in Ctl, DropConflict(c) PROVE Handover'
  BY Zenon, <1>13, DelLeaves DEF DropConflict, connVars
<1>14. ASSUME NEW c \in Ctl, UndoControl(c) PROVE Handover'
  BY Zenon, <1>14, DelLeaves DEF UndoControl, connVars
<1>15. ASSUME NEW c \in Ctl, Reap(c) PROVE Handover'
  BY Zenon, <1>15, DelLeaves DEF Reap, connVars
<1>16. ASSUME NEW c \in Ctl, WorkerEnds(c) PROVE Handover'
  BY Zenon, <1>16, WorkerMoves DEF WorkerEnds, connVars
<1>17. ASSUME NEW c \in Ctl, CloseProxies(c) PROVE Handover'
  BY Zenon, <1>17, WorkerMoves DEF CloseProxies, connVars
<1>18. ASSUME NEW c \in Ctl, ReadRunID(c) PROVE Handover'
  BY Zenon, <1>18, WorkerMoves DEF ReadRunID, connVars
<1>19. ASSUME NEW c \in Ctl, MarkOffline(c) PROVE Handover'
  BY Zenon, <1>19, WorkerMoves DEF MarkOffline, connVars
<1>20. ASSUME UNCHANGED <<login, work, ctlVars, expired, ctlsByRunID, svcClosed>>
      PROVE  Handover'
  BY <1>20 DEF ctlVars, Handover, WorkerStarted, DoneExplained, ReplacingState, WaitingState, RunAssigned, EntryState, NoStrandedWaiter, OwnerReachable
<1>21. ASSUME NEW c \in Ctl, HeartbeatTimeout(c) \/ PeerLeaves(c) PROVE Handover'
  BY Zenon, <1>20, <1>21 DEF HeartbeatTimeout, PeerLeaves
<1>22. CASE UNCHANGED vars
  BY Zenon, <1>20, <1>22 DEF vars, ctlVars
<1> QED
  BY Zenon, <1>1, <1>2, <1>3, <1>4, <1>5, <1>6, <1>7, <1>8, <1>9, <1>10, <1>11, <1>12, <1>13, <1>14, <1>15, <1>16, <1>17, <1>18, <1>19, <1>20, <1>21, <1>22
     DEF Next, LoginActions, WorkerActions
-----------------------------------------------------------------------------
(* Every reachable state of the sessions satisfies the inductive           *)
(* invariant.                                                              *)
THEOREM Invariance == Spec => []IInv
<1>1. IInv /\ [Next]_vars => IInv'
  BY Zenon, TypeStep, HandoverStep DEF IInv
<1> QED
  BY <1>1, InitInvariant, PTL DEF Spec

(* Every reachable state is well typed.                                    *)
THEOREM TypeCorrect == Spec => []TypeOK
<1>1. IInv => TypeOK
  BY Zenon DEF IInv
<1> QED
  BY <1>1, Invariance, PTL

(* WaitClosed returns only for a control whose worker has finished its     *)
(* cleanup or never existed.                                               *)
THEOREM DoneSafe == Spec => []DoneMeansReleased
<1>1. IInv => DoneMeansReleased
  BY Zenon DEF IInv, Handover, DoneExplained, WorkerStarted, DoneMeansReleased
<1> QED
  BY <1>1, Invariance, PTL

(* No login waits for a control that nobody releases.                      *)
THEOREM WaiterSafe == Spec => []NoStrandedWaiter
<1>1. IInv => NoStrandedWaiter
  BY Zenon DEF IInv, Handover
<1> QED
  BY <1>1, Invariance, PTL

(* A control that is not replaced keeps its entry until its own goroutine  *)
(* removes it, and the manager never serves a retired one.                 *)
THEOREM HandoverSafe == Spec => []HandoverSound
<1>1. IInv => OwnerReachable
  BY Zenon DEF IInv, Handover
<1>2. IInv => RetiredUnreachable
  BY Zenon DEF IInv, Handover, EntryState, RetiredUnreachable, ManagerFree
<1>3. IInv => HandoverSound
  BY Zenon, <1>1, <1>2 DEF HandoverSound
<1> QED
  BY <1>3, Invariance, PTL
-----------------------------------------------------------------------------
(* A step of the handover is a step of the table of owners, or none.       *)
LEMMA TableStep == IInv /\ [Next]_vars => [Table!TableNext]_(Table!tableVars)
<1> DEFINE Seen == {c \in Ctl : runOf[c] # None /\ login[c] # "replacing"}
<1> DEFINE Left == {c \in Ctl : login[c] \in {"offlining", "ended"}}
<1> DEFINE Stutter == Seen' = Seen /\ Left' = Left /\ ctlsByRunID' = ctlsByRunID
<1> SUFFICES ASSUME IInv, [Next]_vars PROVE Table!TableNext \/ Stutter
  BY Zenon DEF Table!tableVars
<1> USE DEF IInv, TypeOK, ctlVars, connVars, LoginStep, WorkStep
<1>1. ASSUME NEW c \in Ctl, NEW r \in RunID, AddControl(c, r)
      PROVE  Table!Take(c, r) \/ Stutter
  <2>1. runOf[c] = None /\ login[c] = "idle"
    BY Zenon, <1>1 DEF AddControl, Handover, RunAssigned
  <2>2. CASE ctlsByRunID[r] = None
    BY <1>1, <2>1, <2>2, RegistryAssumption DEF AddControl, Table!Take
  <2>3. CASE ctlsByRunID[r] # None
    BY <1>1, <2>1, <2>3 DEF AddControl
  <2> QED
    BY Zenon, <2>2, <2>3
<1>2. ASSUME NEW c \in Ctl, FinishAdd(c)
      PROVE  \E r \in RunID : Table!Take(c, r)
  <2>1. PICK r \in RunID : r = runOf[c]
    BY Zenon, <1>2 DEF FinishAdd, Handover, RunAssigned
  <2>2. Table!Take(c, r)
    BY <1>2, <2>1, RegistryAssumption DEF FinishAdd, Store, Table!Take
  <2> QED
    BY Zenon, <2>2
<1>3. ASSUME NEW c \in Ctl, DropConflict(c) \/ UndoControl(c) \/ Reap(c)
      PROVE  Table!Leave(c)
  <2>1. /\ login[c] \in {"conflict", "undoing", "reaping"}
        /\ \/ login' = [login EXCEPT ![c] = "offlining"]
           \/ login' = [login EXCEPT ![c] = "ended"]
        /\ runOf' = runOf
        /\ Del(c)
    BY Zenon, <1>3 DEF DropConflict, UndoControl, Reap
  <2>2. Seen' = Seen /\ c \notin Left /\ Left' = Left \cup {c}
    BY <2>1
  <2>3. runOf[c] \in RunID /\ \A r \in RunID : ctlsByRunID[r] = c => r = runOf[c]
    BY <2>1, SessionAssumption DEF Handover, RunAssigned, EntryState
  <2>4. ctlsByRunID' = [r \in RunID |-> IF ctlsByRunID[r] = c THEN None ELSE ctlsByRunID[r]]
    BY Zenon, <2>1, <2>3 DEF Del
  <2> QED
    BY Zenon, <2>2, <2>4 DEF Table!Leave
<1>4. CASE CloseManager
  BY Zenon, <1>4 DEF CloseManager, Table!Shutdown, Table!TableNext
<1>5. ASSUME NEW c \in Ctl, RejectLogin(c)
      PROVE  Table!Leave(c)
  <2>1. runOf[c] = None /\ \A r \in RunID : ctlsByRunID[r] # c
    BY <1>5, SessionAssumption DEF RejectLogin, Handover, RunAssigned, EntryState
  <2> QED
    BY <1>5, <2>1 DEF RejectLogin, Table!Leave
<1>6. ASSUME NEW c \in Ctl,
             \/ OldClosed(c) \/ RegisterClient(c) \/ WriteResp(c) \/ WriteRespFails(c)
             \/ UndoRegister(c) \/ Start(c) \/ CountClient(c)
      PROVE  Stutter
  BY ZenonT(30), <1>6 DEF OldClosed, RegisterClient, WriteResp, WriteRespFails, UndoRegister,
              Start, CountClient
<1>7. ASSUME NEW c \in Ctl, WorkerActions(c) \/ HeartbeatTimeout(c) \/ PeerLeaves(c)
      PROVE  Stutter
  BY ZenonT(30), <1>7 DEF WorkerActions, WorkerEnds, CloseProxies, ReadRunID, MarkOffline,
              CloseDone, HeartbeatTimeout, PeerLeaves
<1>8. CASE UNCHANGED vars
  BY Zenon, <1>8 DEF vars
<1> HIDE DEF Stutter, IInv, TypeOK
<1>9. ASSUME NEW c \in Ctl, LoginActions(c) PROVE Table!TableNext \/ Stutter
  <2>1. CASE FinishAdd(c)
    BY Zenon, <1>2, <2>1 DEF Table!TableNext
  <2>2. CASE DropConflict(c) \/ UndoControl(c) \/ Reap(c)
    BY Zenon, <1>3, <2>2 DEF Table!TableNext
  <2> QED
    BY Zenon, <1>6, <1>9, <2>1, <2>2 DEF LoginActions
<1>10. ASSUME NEW c \in Ctl, NEW r \in RunID, AddControl(c, r)
       PROVE  Table!TableNext \/ Stutter
  BY Zenon, <1>1, <1>10 DEF Table!TableNext
<1>11. ASSUME NEW c \in Ctl, RejectLogin(c) PROVE Table!TableNext
  BY Zenon, <1>5, <1>11 DEF Table!TableNext
<1> QED
  BY Zenon, <1>4, <1>7, <1>8, <1>9, <1>10, <1>11 DEF Next

(* The manager, with its locks, waits and failures, implements the table   *)
(* in which every run id has one owner that nobody else dislodges.         *)
THEOREM TableRefinement == Spec => ImplementsTable
<1>1. Init => Table!TableInit
  BY DEF Init, Table!TableInit
<1> QED
  BY <1>1, TableStep, Invariance, PTL DEF Spec, ImplementsTable, Table!TableSpec

-----------------------------------------------------------------------------
(***************************************************************************)
(* The tokens of a login (pkg/auth): what the verifier compares is what the*)
(* source wrote, unless a key, a clock or a scope differs.                 *)
(***************************************************************************)
(* The key a client puts in now is one its method makes.                   *)
Genuine(key) ==
    \/ aconf.method = "token" /\ key = GetAuthKey(csecret)
    \/ aconf.method = "oidc" /\ \E n \in 1 .. TokenLife : key = [kind |-> "jwt", left |-> n]
    \/ aconf.method = "source" /\ \E n \in 0 .. TokenLife : key = [kind |-> "jwt", left |-> n]

(* The message in flight holds a genuine key unless its scope is off, and  *)
(* one after the login is of a client that is logged in.                   *)
FlightSound ==
    /\ authMsg.kind = "Login" => Genuine(authMsg.key)
    /\ authMsg.kind \in {"Ping", "NewWorkConn"} =>
          loggedIn /\ (ScopeOf(authMsg.kind) \in aconf.cscopes => Genuine(authMsg.key))

(* The oauth2 source keeps a token only of a provider that gives an        *)
(* expiry, and the verifier knows the subject of a session it accepted.    *)
SourceSound ==
    /\ tsource.held => tsource.initialized
    /\ tsource.caching /\ tsource.initialized => aconf.expires
    /\ loggedIn /\ aconf.method # "token" => subjects

AuthIInv == AuthTypeOK /\ FlightSound /\ SourceSound /\ RefusedForCause

(* The inductive invariant of the tokens holds at first.                   *)
LEMMA AuthInitial == AuthInit => AuthIInv
<1> SUFFICES ASSUME AuthInit PROVE AuthIInv OBVIOUS
<1>1. NoAuthMsg \in AuthMsgs BY Zenon DEF NoAuthMsg, AuthMsgs, Keys
<1>2. NewOidcAuthSetter \in TokenSource BY AuthAssumption DEF NewOidcAuthSetter, TokenSource
<1>0. aconf \in AuthCase /\ fileToken \in 0 .. TokenLife BY AuthAssumption DEF AuthInit
<1>3. AuthTypeOK BY Zenon, <1>0, <1>1, <1>2 DEF AuthInit, AuthTypeOK
<1>4. NoAuthMsg.kind = "none" BY Zenon DEF NoAuthMsg
<1>5. FlightSound BY Zenon, <1>4 DEF AuthInit, FlightSound
<1>6. SourceSound BY Zenon DEF AuthInit, SourceSound, NewOidcAuthSetter
<1>7. RefusedForCause BY Zenon, <1>4 DEF AuthInit, RefusedForCause
<1> QED BY Zenon, <1>3, <1>5, <1>6, <1>7 DEF AuthIInv

(* A key that is signed with is one of the keys and the one the two sides  *)
(* share, and what the token source is left with is sound.                 *)
LEMMA KeyFacts ==
    ASSUME AuthTypeOK, SourceSound, NEW kind
    PROVE  /\ KeyFor(kind) \in Keys /\ Genuine(KeyFor(kind))
           /\ SourceAfter \in TokenSource
           /\ SourceAfter.held => SourceAfter.initialized
           /\ SourceAfter.caching /\ SourceAfter.initialized => aconf.expires
<1>1. aconf \in AuthCase /\ tsource \in TokenSource /\ fileToken \in 0 .. TokenLife /\ csecret \in {0, 1}
  BY Zenon DEF AuthTypeOK
<1>2. aconf.method \in {"token", "oidc", "source"} BY Zenon, <1>1 DEF AuthCase
<1>3. tsource.left \in 0 .. TokenLife /\ tsource.held \in BOOLEAN /\ tsource.caching \in BOOLEAN
      /\ tsource.initialized \in BOOLEAN /\ aconf.expires \in BOOLEAN
  BY Zenon, <1>1 DEF TokenSource, AuthCase
<1>4. Reusable => tsource.left > 0 BY Zenon, <1>3 DEF Reusable, SourceSound
<1>5. SourceAfter.left \in 1 .. TokenLife BY <1>3, <1>4, AuthAssumption DEF SourceAfter
<1>6. CachingAfter \in BOOLEAN BY Zenon, <1>3 DEF CachingAfter, KeepsCaching
<1>7. SourceAfter \in TokenSource BY <1>3, <1>4, <1>6, AuthAssumption DEF SourceAfter, TokenSource
<1>8. /\ SourceAfter.held => SourceAfter.initialized
      /\ SourceAfter.caching /\ SourceAfter.initialized => aconf.expires
  BY Zenon DEF SourceAfter, CachingAfter, KeepsCaching, SourceSound
<1>9. KeyFor(kind) \in Keys /\ Genuine(KeyFor(kind))
  <2>1. CASE aconf.method = "token"
    <3>0. aconf.method # "oidc" /\ aconf.method # "source" BY Zenon, <2>1
    <3>1. KeyFor(kind) = GetAuthKey(csecret) BY Zenon, <2>1, <3>0, Zenon DEF KeyFor
    <3>2. GetAuthKey(csecret) \in [kind : {"auth key"}, of : {0, 1}] BY Zenon, <1>1 DEF GetAuthKey
    <3>3. GetAuthKey(csecret) \in Keys BY Zenon, <3>2 DEF Keys
    <3>4. Genuine(GetAuthKey(csecret)) BY Zenon, <2>1 DEF Genuine
    <3> QED BY Zenon, <3>1, <3>3, <3>4
  <2>2. CASE aconf.method = "oidc"
    <3>1. aconf.method # "token" BY Zenon, <2>2
    <3>2. KeyFor(kind) = GenerateAccessToken BY Zenon, <2>2 DEF KeyFor
    <3>3. SourceAfter.left \in 0 .. TokenLife BY <1>5
    <3> QED BY <3>2, <3>3, <2>2, <1>5 DEF Keys, Genuine, GenerateAccessToken
  <2>3. CASE aconf.method = "source"
    <3>2. KeyFor(kind) = Resolve BY Zenon, <2>3 DEF KeyFor
    <3> QED BY <3>2, <2>3, <1>1 DEF Keys, Genuine, Resolve
  <2> QED BY Zenon, <1>2, <2>1, <2>2, <2>3
<1> QED BY Zenon, <1>7, <1>8, <1>9

(* A genuine key is refused for a cause only.                              *)
LEMMA GenuineVerified ==
    ASSUME AuthTypeOK, NEW key, Genuine(key), ~VerifyKey(key)
    PROVE  \/ aconf.method = "token" /\ csecret # ssecret
           \/ aconf.method = "source" /\ key = [kind |-> "jwt", left |-> 0]
<1>1. CASE aconf.method = "token" BY Zenon, <1>1 DEF VerifyKey, Genuine
<1>2. CASE aconf.method = "oidc" BY <1>2 DEF VerifyKey, Genuine
<1>3. CASE aconf.method = "source"
  <2>1. PICK n \in 0 .. TokenLife : key = [kind |-> "jwt", left |-> n] BY Zenon, <1>3 DEF Genuine
  <2>2. n \notin 1 .. TokenLife BY Zenon, <1>3, <2>1 DEF VerifyKey
  <2>3. n = 0 BY <2>2, AuthAssumption
  <2> QED BY Zenon, <1>3, <2>1, <2>3
<1> QED BY Zenon, <1>1, <1>2, <1>3 DEF Genuine

(* Every step of client, server and token endpoint keeps it.               *)
LEMMA AuthStep == ASSUME AuthIInv, AuthNext PROVE AuthIInv'
<1>t. AuthTypeOK /\ FlightSound /\ SourceSound /\ RefusedForCause BY Zenon DEF AuthIInv
<1>u. /\ aconf \in AuthCase /\ secret \in {0, 1} /\ csecret \in {0, 1} /\ ssecret \in {0, 1}
      /\ tsource \in TokenSource /\ fileToken \in 0 .. TokenLife
      /\ subjects \in BOOLEAN /\ loggedIn \in BOOLEAN /\ authMsg \in AuthMsgs /\ refused \in AuthMsgs
  BY Zenon, <1>t DEF AuthTypeOK
<1>n. NoAuthMsg \in AuthMsgs /\ NoAuthMsg.kind = "none" BY Zenon DEF NoAuthMsg, AuthMsgs, Keys
<1>m. authMsg.kind \in {"none", "Login", "Ping", "NewWorkConn"} /\ authMsg.key \in Keys BY Zenon, <1>u DEF AuthMsgs
<1>1. ASSUME NEW kind \in {"Login", "Ping", "NewWorkConn"},
             NEW key \in Keys,
             authMsg' = [kind |-> kind, key |-> key],
             kind # "Login" => loggedIn,
             kind = "Login" \/ ScopeOf(kind) \in aconf.cscopes => Genuine(key),
             tsource' \in {tsource, SourceAfter},
             UNCHANGED <<aconf, secret, csecret, ssecret, fileToken, subjects, loggedIn, refused>>
      PROVE  AuthIInv'
  <2>1. authMsg' \in AuthMsgs /\ authMsg'.kind = kind /\ authMsg'.key = key BY Zenon, <1>1 DEF AuthMsgs
  <2>2. tsource' \in TokenSource BY Zenon, <1>1, <1>t, <1>u, KeyFacts
  <2>3. AuthTypeOK' BY Zenon, <1>1, <1>u, <2>1, <2>2 DEF AuthTypeOK
  <2>4. Genuine(key) => Genuine(key)' BY Zenon, <1>1 DEF Genuine, GetAuthKey
  <2>5. FlightSound' BY Zenon, <1>1, <2>1, <2>4 DEF FlightSound, Genuine, GetAuthKey
  <2>6. SourceSound' BY Zenon, <1>1, <1>t, KeyFacts DEF SourceSound
  <2>7. RefusedForCause' BY Zenon, <1>1, <1>t DEF RefusedForCause
  <2> QED BY Zenon, <2>3, <2>5, <2>6, <2>7 DEF AuthIInv
<1>k. \A kind : KeyFor(kind) \in Keys /\ Genuine(KeyFor(kind)) BY Zenon, <1>t, KeyFacts
<1>2. CASE SetLogin
  <2>1. /\ authMsg' = [kind |-> "Login", key |-> KeyFor("Login")] /\ tsource' \in {tsource, SourceAfter}
        /\ UNCHANGED <<aconf, secret, csecret, ssecret, fileToken, subjects, loggedIn, refused>>
    BY Zenon, <1>2 DEF SetLogin, Authenticate
  <2> QED BY Zenon, <1>1, <1>k, <2>1
<1>3. ASSUME NEW kind \in {"Ping", "NewWorkConn"}, SetScoped(kind, ScopeOf(kind)) PROVE AuthIInv'
  <2>1. /\ loggedIn /\ tsource' \in {tsource, SourceAfter}
        /\ \/ authMsg' = [kind |-> kind, key |-> KeyFor(kind)]
           \/ authMsg' = [kind |-> kind, key |-> NoKey] /\ ScopeOf(kind) \notin aconf.cscopes
        /\ UNCHANGED <<aconf, secret, csecret, ssecret, fileToken, subjects, loggedIn, refused>>
    BY Zenon, <1>3 DEF SetScoped, Authenticate
  <2>2. NoKey \in Keys BY Zenon DEF Keys
  <2> QED BY Zenon, <1>1, <1>k, <2>1, <2>2
<1>4. CASE SetPing \/ SetNewWorkConn
  BY Zenon, <1>3, <1>4 DEF SetPing, SetNewWorkConn, ScopeOf
(* What all the verifiers and the restarts have in common.                 *)
<1>5. ASSUME authMsg' = NoAuthMsg, loggedIn' \in BOOLEAN, subjects' \in BOOLEAN,
             refused' \in AuthMsgs, csecret' \in {0, 1}, ssecret' \in {0, 1},
             tsource' \in {tsource, NewOidcAuthSetter},
             UNCHANGED <<aconf, secret, fileToken>>,
             loggedIn' /\ aconf.method # "token" => subjects',
             RefusedForCause'
      PROVE  AuthIInv'
  <2>1. NewOidcAuthSetter \in TokenSource BY AuthAssumption DEF NewOidcAuthSetter, TokenSource
  <2>2. AuthTypeOK' BY Zenon, <1>5, <1>u, <1>n, <2>1 DEF AuthTypeOK
  <2>3. FlightSound' BY Zenon, <1>5, <1>n DEF FlightSound
  <2>4. SourceSound' BY <1>5, <1>t DEF SourceSound, NewOidcAuthSetter
  <2> QED BY Zenon, <1>5, <2>2, <2>3, <2>4 DEF AuthIInv
<1>6. CASE VerifyLogin
  <2>1. VerifyKey(authMsg.key) \in BOOLEAN
    <3>1. CASE aconf.method = "token" BY Zenon, <3>1 DEF VerifyKey
    <3>2. CASE aconf.method # "token" BY <3>2 DEF VerifyKey
    <3> QED BY Zenon, <3>1, <3>2
  <2>2. ~VerifyKey(authMsg.key) => \/ aconf.method = "token" /\ csecret # ssecret
                                   \/ aconf.method = "source" /\ authMsg.key = [kind |-> "jwt", left |-> 0]
    BY Zenon, <1>6, <1>t, GenuineVerified DEF VerifyLogin, FlightSound
  <2>3. RefusedForCause' BY Zenon, <1>6, <1>n, <2>2 DEF VerifyLogin, RefusedForCause
  <2> QED BY Zenon, <1>5, <1>6, <1>n, <1>u, <2>1, <2>3 DEF VerifyLogin
<1>7. ASSUME NEW kind \in {"Ping", "NewWorkConn"}, authMsg.kind = kind, ~ScopedOK(ScopeOf(kind))
      PROVE  \/ aconf.method = "token" /\ csecret # ssecret
             \/ aconf.method = "source" /\ authMsg.key = [kind |-> "jwt", left |-> 0]
             \/ ScopeOf(kind) \in aconf.sscopes \ aconf.cscopes
  <2>1. ScopeOf(kind) \in aconf.sscopes /\ ~VerifyPostLoginToken(authMsg.key) BY Zenon, <1>7 DEF ScopedOK
  <2>2. ~VerifyKey(authMsg.key) BY Zenon, <1>7, <1>t, <2>1 DEF VerifyPostLoginToken, FlightSound, SourceSound
  <2>3. CASE ScopeOf(kind) \in aconf.cscopes
    <3>1. Genuine(authMsg.key) BY Zenon, <1>7, <1>t, <2>3 DEF FlightSound
    <3> QED BY Zenon, <1>t, <2>2, <3>1, GenuineVerified
  <2> QED BY Zenon, <2>1, <2>3
<1>8. CASE VerifyPing
  <2>1. ScopedOK("HeartBeats") \in BOOLEAN BY Zenon DEF ScopedOK, VerifyPostLoginToken, VerifyKey
  <2>2. ScopeOf("Ping") = "HeartBeats" BY Zenon DEF ScopeOf
  <2>3. RefusedForCause' BY Zenon, <1>7, <1>8, <1>n, <2>2 DEF VerifyPing, RefusedForCause, ScopeOf
  <2>4. loggedIn BY Zenon, <1>8, <1>t DEF VerifyPing, FlightSound
  <2> QED BY Zenon, <1>5, <1>8, <1>n, <1>t, <1>u, <2>1, <2>3, <2>4 DEF VerifyPing, SourceSound
<1>9. CASE VerifyNewWorkConn
  <2>2. ScopeOf("NewWorkConn") = "NewWorkConns" BY Zenon DEF ScopeOf
  <2>3. RefusedForCause' BY Zenon, <1>7, <1>9, <1>n, <2>2 DEF VerifyNewWorkConn, RefusedForCause, ScopeOf
  <2> QED BY Zenon, <1>5, <1>9, <1>n, <1>t, <1>u, <2>3 DEF VerifyNewWorkConn, SourceSound
<1>10. CASE BuildClientAuth \/ BuildServerAuth
  <2>1. RefusedForCause' BY Zenon, <1>10, <1>n DEF BuildClientAuth, BuildServerAuth, RefusedForCause
  <2> QED BY Zenon, <1>5, <1>10, <1>n, <1>u, <2>1 DEF BuildClientAuth, BuildServerAuth
<1>11. CASE RotateSecret
  <2>1. AuthTypeOK' BY <1>11, <1>u DEF RotateSecret, AuthTypeOK
  <2>2. FlightSound' /\ SourceSound' /\ RefusedForCause'
    BY Zenon, <1>11, <1>t DEF RotateSecret, FlightSound, Genuine, GetAuthKey, SourceSound, RefusedForCause
  <2> QED BY Zenon, <2>1, <2>2 DEF AuthIInv
<1>12. CASE RenewFileToken
  <2>1. AuthTypeOK' BY <1>12, <1>u, AuthAssumption DEF RenewFileToken, AuthTypeOK
  <2>2. FlightSound' /\ SourceSound' /\ RefusedForCause'
    BY Zenon, <1>12, <1>t DEF RenewFileToken, FlightSound, Genuine, GetAuthKey, SourceSound, RefusedForCause
  <2> QED BY <2>1, <2>2 DEF AuthIInv
<1>13. CASE AgeTokens
  <2>1. \A n \in 0 .. TokenLife : OneLess(n) \in 0 .. TokenLife BY AuthAssumption DEF OneLess
  <2>2. tsource' \in TokenSource /\ tsource'.held = tsource.held /\ tsource'.caching = tsource.caching
        /\ tsource'.initialized = tsource.initialized
    BY Zenon, <1>13, <1>u, <2>1 DEF AgeTokens, TokenSource
  <2>3. AuthTypeOK' BY Zenon, <1>13, <1>u, <2>1, <2>2 DEF AgeTokens, AuthTypeOK
  <2>4. SourceSound' BY Zenon, <1>13, <1>t, <2>2 DEF AgeTokens, SourceSound
  <2>5. FlightSound' /\ RefusedForCause'
    BY Zenon, <1>13, <1>t DEF AgeTokens, FlightSound, Genuine, GetAuthKey, RefusedForCause
  <2> QED BY Zenon, <2>3, <2>4, <2>5 DEF AuthIInv
<1> QED BY Zenon, <1>2, <1>4, <1>6, <1>8, <1>9, <1>10, <1>11, <1>12, <1>13 DEF AuthNext

(* A message is refused only for a cause an operator can see, whatever the *)
(* life of a token and whatever the configurations.                        *)
THEOREM AuthSafe == AuthSpec => [](AuthTypeOK /\ RefusedForCause)
<1>1. AuthIInv /\ [AuthNext]_authVars => AuthIInv'
  <2> SUFFICES ASSUME AuthIInv, [AuthNext]_authVars PROVE AuthIInv' BY Zenon
  <2>1. CASE UNCHANGED authVars
    BY Zenon, <2>1 DEF AuthIInv, authVars, AuthTypeOK, FlightSound, Genuine, GetAuthKey, SourceSound, RefusedForCause
  <2> QED BY Zenon, <2>1, AuthStep
<1>2. AuthIInv => AuthTypeOK /\ RefusedForCause BY Zenon DEF AuthIInv
<1> QED BY AuthInitial, <1>1, <1>2, PTL DEF AuthSpec
=============================================================================

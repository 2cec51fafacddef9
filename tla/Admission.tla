------------------------------ MODULE Admission ------------------------------
(***************************************************************************)
(* Who is let in: server/firewall/firewall.go (manual rules, an external   *)
(* reputation provider behind a cache, a default policy, the state file),  *)
(* the NewUserConn hook of pkg/plugin/server, and the places of            *)
(* server/service.go and server/proxy/proxy.go that ask.                   *)
(*                                                                         *)
(* A connection comes from an address (in the unmapped form parseAddr      *)
(* gives; Unparsed when there is none) to a port of frps.  The provider    *)
(* and the plugin may themselves be published through frps: a call to      *)
(* them is then a connection from Local to their port, and is judged too.  *)
(* Times are kept as what is left of them; seconds pass (Tick) only while  *)
(* nobody is about to take a step that waits for nothing.                  *)
(***************************************************************************)
EXTENDS Integers, Sequences

CONSTANTS
  AdmUser,       \* peers that connect, each from an address and by the doors it likes
  UserAddr,      \* [AdmUser -> set of addresses]
  Doors,         \* [AdmUser -> set of tcp, udp (verdicts cached), control, web]
  FWConfigs,     \* configurations that can be put
  FWFirst,       \* the ones the state file may hold at first
  HomeCases,     \* which of "provider" and "plugin" are published here
  VerdictTTL, RepTTL, ErrTTL,   \* lifetimes, in ticks
  QueryTime,     \* a query of the provider times out before more ticks than this
  MaxPuts        \* new configurations

(* A query is given less time (800ms unless configured) than the answer to *)
(* it is kept (10s for an error, 300s otherwise).                          *)
ASSUME AdmissionAssumption ==
  VerdictTTL \in Nat \ {0} /\ RepTTL \in Nat /\ ErrTTL \in Nat /\ QueryTime \in 0..(ErrTTL - 1) /\ ErrTTL <= RepTTL

VARIABLES
  fw,          \* the live configuration
  fwFile,      \* the state file
  unsaved,     \* the last save failed
  home,        \* what is published through this frps
  webFilter,   \* SetConnFilter was called
  repCache, repInFlight,
  verdicts,    \* the verdict cache of a udp proxy
  adm,         \* the connections being judged
  puts

admVars == <<fw, fwFile, unsaved, home, webFilter, repCache, repInFlight, verdicts, adm, puts>>

(* Besides the peers' connections, the one frps makes for each of them to  *)
(* a service it publishes itself.                                          *)
PeerConn(u) == <<u, "peer">>
OwnConn(u) == <<u, "own">>
AdmConn == AdmUser \X {"peer", "own"}
NoOne == <<>>

Local == "local"
Unparsed == "?"
Remote == UNION {UserAddr[u] : u \in AdmUser}
Addr == (Remote \ {Unparsed}) \cup {Local}
UserPort == 1
ProviderPort == 2
PluginPort == 3
AllPorts == {UserPort, ProviderPort, PluginPort}
MostAge == IF VerdictTTL > RepTTL THEN VerdictTTL ELSE RepTTL
-----------------------------------------------------------------------------
(* Rules.  cidr is [any] or the addresses of a prefix (none when it does   *)
(* not parse); port is a set of <<lo, hi>> entries, empty for any port;    *)
(* left is what remains until ExpiresAt, -1 for a permanent rule.          *)
compilePorts(spec) == IF spec = {} THEN AllPorts ELSE UNION {e[1]..e[2] : e \in spec}
ParsePortSpec(spec) == \A e \in spec : e[1] <= e[2]
InPrefix(r, ip) == r.any \/ (ip # Unparsed /\ ip \in r.cidr)
matchRule(r, ip, port) == InPrefix(r, ip) /\ port \in compilePorts(r.port)
Expired(r) == r.left = 0

NoRule == "no rule"
RuleFor(f, ip, port) ==
  LET hits == {i \in 1..Len(f.rules) : ~Expired(f.rules[i]) /\ matchRule(f.rules[i], ip, port)}
  IN  IF hits = {} THEN NoRule ELSE f.rules[CHOOSE i \in hits : \A j \in hits : i <= j].action

pruneLocked(f) == [f EXCEPT !.rules = SelectSeq(@, LAMBDA r : ~Expired(r))]

(* What apiFirewallPut lets through.                                       *)
ValidPut(f) == \A i \in 1..Len(f.rules) : f.rules[i].action \in {"allow", "deny"} /\ ParsePortSpec(f.rules[i].port)
Normalised(f) == [f EXCEPT !.def = IF @ \in {"allow", "deny"} THEN @ ELSE "allow"]

OffState(f) == [f EXCEPT !.on = TRUE]
SavedState(f) == f

NeverSelf(ip, port) == FALSE
isSelfCall(ip, port) == "provider" \in home /\ port = ProviderPort /\ ip = Local
HookSelf(ip, port) == FALSE
IsSelfCall(ip, port) == "plugin" \in home /\ port = PluginPort /\ ip = Local

Idle0 == [at |-> "free", ip |-> Unparsed, port |-> UserPort, path |-> "tcp", of |-> NoOne, age |-> 0, asked |-> 0, old |-> 0,
          ok |-> FALSE, def |-> "allow", failOpen |-> FALSE, due |-> FALSE, judged |-> FALSE, reused |-> FALSE]
NotKept == [blocked |-> FALSE, left |-> 0]
NoVerdict == [ok |-> FALSE, left |-> 0, old |-> 0]
Fresh(f) ==
  /\ repCache = [a \in Addr |-> NotKept] /\ repInFlight = [a \in Addr |-> NoOne]
  /\ verdicts = [a \in Remote |-> NoVerdict] /\ adm = [c \in AdmConn |-> Idle0]
  /\ fw = f

(* NewService: the dashboard asks for its filter before the firewall is    *)
(* made, so finds none to ask.                                             *)
FirewallMade == FALSE
AdmInit ==
  \E f \in FWFirst :
    /\ Fresh(pruneLocked(f)) /\ fwFile = pruneLocked(f) /\ unsaved = FALSE
    /\ webFilter = FirewallMade /\ home \in HomeCases /\ puts = 0

(* The process restarts, and reads the file.                               *)
RestartFrps ==
  /\ fw' = pruneLocked(fwFile) /\ fwFile' = pruneLocked(fwFile) /\ unsaved' = FALSE
  /\ repCache' = [a \in Addr |-> NotKept] /\ repInFlight' = [a \in Addr |-> NoOne]
  /\ verdicts' = [a \in Remote |-> NoVerdict] /\ adm' = [c \in AdmConn |-> Idle0]
  /\ UNCHANGED <<home, webFilter, puts>>
-----------------------------------------------------------------------------
(* saveLocked: through a temporary file and a rename; may fail.            *)
Saves(f) == fwFile' = SavedState(f) /\ unsaved' = FALSE
SaveFails == fwFile' = fwFile /\ unsaved' = TRUE

SetConfig(f) ==
  /\ puts < MaxPuts /\ puts' = puts + 1 /\ ValidPut(f)
  /\ fw' = Normalised(f) /\ repCache' = [a \in Addr |-> NotKept]
  /\ Saves(fw') \/ SaveFails
  /\ UNCHANGED <<home, webFilter, repInFlight, verdicts, adm>>

Sweep ==
  /\ \E i \in 1..Len(fw.rules) : Expired(fw.rules[i])
  /\ fw' = pruneLocked(fw) /\ (Saves(fw') \/ SaveFails)
  /\ UNCHANGED <<home, webFilter, repCache, repInFlight, verdicts, adm, puts>>

Decr(n) == IF n > 0 THEN n - 1 ELSE n
Incr(n) == IF n < MostAge THEN n + 1 ELSE n
Aged(f) == [f EXCEPT !.rules = [i \in 1..Len(@) |-> [@[i] EXCEPT !.left = Decr(@)]]]
Settled2(c) ==
  \/ adm[c].at \in {"free", "call", "done"}
  \/ adm[c].at = "ask" /\ adm[c].asked < QueryTime
  \/ (adm[c].at = "wait" /\ repInFlight[adm[c].ip] # NoOne)
OfUDP(c, n) == IF adm[c].path = "udp" THEN n ELSE 0
TickAdm ==
  /\ \A c \in AdmConn : Settled2(c)
  /\ fw' = Aged(fw) /\ fwFile' = Aged(fwFile)
  /\ repCache' = [a \in Addr |-> [repCache[a] EXCEPT !.left = Decr(@)]]
  /\ verdicts' = [a \in DOMAIN verdicts |->
       IF Decr(verdicts[a].left) = 0 THEN NoVerdict
       ELSE [verdicts[a] EXCEPT !.left = Decr(@), !.old = Incr(@)]]
  /\ adm' = [c \in AdmConn |->
       CASE adm[c].at \in {"ask", "wait", "call"} ->
              [adm[c] EXCEPT !.age = OfUDP(c, Incr(@)), !.old = OfUDP(c, Incr(@)), !.asked = IF adm[c].at = "ask" THEN @ + 1 ELSE 0]
         [] OTHER -> adm[c]]
  /\ UNCHANGED <<unsaved, home, webFilter, repInFlight, puts>>
-----------------------------------------------------------------------------
StillValid(v) == v.left > 0
Set(c, r) == adm' = [adm EXCEPT ![c] = r]
Begin(ip, port, path, of) == [Idle0 EXCEPT !.at = "rules", !.ip = ip, !.port = port, !.path = path, !.of = of]
Free(c) == adm[c].at \in {"free", "done"} /\ adm[c].of = NoOne
Finished(a) ==
  [Idle0 EXCEPT !.at = "done", !.of = a.of, !.ok = (a.ok /\ a.of # NoOne), !.reused = a.reused,
                !.old = IF a.reused THEN a.old ELSE 0, !.path = IF a.path = "web" THEN "web" ELSE "tcp",
                !.due = (a.path = "web" /\ a.due), !.judged = (a.path = "web" /\ a.judged)]

(* A connection to a proxy: handleUserTCPConnection, or the admit filter   *)
(* of the udp read loop, which first looks for a verdict it has.           *)
ArriveTCP(c, ip) ==
  /\ Free(c) /\ "tcp" \in Doors[c[1]] /\ Set(c, Begin(ip, UserPort, "tcp", NoOne))
  /\ UNCHANGED <<fw, fwFile, unsaved, home, webFilter, repCache, repInFlight, verdicts, puts>>
ArriveUDP(c, ip) ==
  /\ Free(c) /\ "udp" \in Doors[c[1]]
  /\ Set(c, IF StillValid(verdicts[ip])
            THEN Finished([Begin(ip, UserPort, "udp", NoOne) EXCEPT !.ok = verdicts[ip].ok, !.reused = TRUE, !.old = verdicts[ip].old])
            ELSE Begin(ip, UserPort, "udp", NoOne))
  /\ UNCHANGED <<fw, fwFile, unsaved, home, webFilter, repCache, repInFlight, verdicts, puts>>

(* AllowControl and AllowWeb: the switch first, then Allow.                *)
ArriveControl(c, ip) ==
  /\ Free(c) /\ "control" \in Doors[c[1]]
  /\ LET b == [Begin(ip, UserPort, "control", NoOne) EXCEPT !.due = fw.on /\ fw.controlPort]
     IN  Set(c, IF b.due THEN [b EXCEPT !.due = FALSE] ELSE Finished([b EXCEPT !.ok = TRUE]))
  /\ UNCHANGED <<fw, fwFile, unsaved, home, webFilter, repCache, repInFlight, verdicts, puts>>
ArriveWeb(c, ip) ==
  /\ Free(c) /\ "web" \in Doors[c[1]]
  /\ LET b == [Begin(ip, UserPort, "web", NoOne) EXCEPT !.due = fw.on /\ fw.webPort]
     IN  Set(c, IF webFilter /\ b.due THEN b ELSE Finished([b EXCEPT !.ok = TRUE]))
  /\ UNCHANGED <<fw, fwFile, unsaved, home, webFilter, repCache, repInFlight, verdicts, puts>>

(* The verdict; the udp filter keeps it, for a time that counts from when  *)
(* the packet came.                                                        *)
FromTheEnd(c) == VerdictTTL
FromTheStart(c) == IF adm[c].age < VerdictTTL THEN VerdictTTL - adm[c].age ELSE 0
Kept(c, a, ok) ==
  verdicts' = (IF adm[c].path = "udp" /\ a.at = "done"
               THEN [verdicts EXCEPT ![adm[c].ip] = [ok |-> ok, left |-> FromTheStart(c), old |-> adm[c].old]] ELSE verdicts)

(* What follows the firewall: the hook for connections to a proxy, or the  *)
(* verdict.                                                                *)
Judged(c, ok) ==
  LET a == [adm[c] EXCEPT !.judged = (adm[c].path = "web"), !.ok = ok, !.def = "allow", !.failOpen = FALSE, !.asked = 0]
  IN  CASE ok /\ a.path \in {"tcp", "udp"} /\ ~IsSelfCall(a.ip, a.port) -> [a EXCEPT !.at = "call"]
        [] OTHER -> Finished(a)

Verdict(c, ok) == Set(c, Judged(c, ok)) /\ Kept(c, Judged(c, ok), ok)

(* Firewall.Allow, as far as it holds the lock.                            *)
Allow(c) ==
  /\ adm[c].at = "rules"
  /\ LET rule == RuleFor(fw, adm[c].ip, adm[c].port)
         asks == fw.mode # "off" /\ adm[c].ip # Unparsed /\ ~isSelfCall(adm[c].ip, adm[c].port)
     IN  IF fw.on /\ rule = NoRule /\ asks
         THEN /\ Set(c, [adm[c] EXCEPT !.at = "rep", !.def = fw.def, !.failOpen = fw.failOpen])
              /\ UNCHANGED verdicts
         ELSE Verdict(c, ~fw.on \/ rule = "allow" \/ (rule = NoRule /\ fw.def = "allow"))
  /\ UNCHANGED <<fw, fwFile, unsaved, home, webFilter, repCache, repInFlight, puts>>

(* One turn of checkExternal under repMu.  The age of an entry counts from *)
(* here.                                                                   *)
NobodyAsks(ip) == FALSE
SomeoneAsks(ip) == repInFlight[ip] # NoOne
CheckExternal(c) ==
  /\ adm[c].at = "rep"
  /\ LET ip == adm[c].ip
     IN  \/ /\ repCache[ip].left > 0 /\ Verdict(c, ~repCache[ip].blocked /\ adm[c].def = "allow")
            /\ UNCHANGED repInFlight
         \/ /\ repCache[ip].left = 0 /\ SomeoneAsks(ip) /\ Set(c, [adm[c] EXCEPT !.at = "wait"])
            /\ UNCHANGED <<repInFlight, verdicts>>
         \/ /\ repCache[ip].left = 0 /\ ~SomeoneAsks(ip) /\ Set(c, [adm[c] EXCEPT !.at = "ask"])
            /\ repInFlight' = [repInFlight EXCEPT ![ip] = c] /\ UNCHANGED verdicts
  /\ UNCHANGED <<fw, fwFile, unsaved, home, webFilter, repCache, puts>>

WakeUp(c) ==
  /\ adm[c].at = "wait" /\ repInFlight[adm[c].ip] = NoOne /\ Set(c, [adm[c] EXCEPT !.at = "rep"])
  /\ UNCHANGED <<fw, fwFile, unsaved, home, webFilter, repCache, repInFlight, verdicts, puts>>
-----------------------------------------------------------------------------
(* A call to a service that is published here makes a connection of ours.  *)
Calls(c, what) ==
  \/ adm[c].at = "ask" /\ what = "provider"
  \/ adm[c].at = "call" /\ what = "plugin"
CallHome(u) ==
  /\ Free(OwnConn(u))
  /\ \E what \in home :
       /\ Calls(PeerConn(u), what)
       /\ Set(OwnConn(u), Begin(Local, IF what = "provider" THEN ProviderPort ELSE PluginPort, "tcp", PeerConn(u)))
  /\ UNCHANGED <<fw, fwFile, unsaved, home, webFilter, repCache, repInFlight, verdicts, puts>>

(* It answers when it is elsewhere, or once our connection was let in.     *)
Reached(c, what) == what \notin home \/ \E d \in AdmConn : adm[d].of = c /\ adm[d].at = "done" /\ adm[d].ok
Ended(c) ==
  [d \in AdmConn |-> CASE adm[d].of = c /\ adm[d].at = "done" -> Idle0
                      [] adm[d].of = c /\ adm[d].at # "done" -> [adm[d] EXCEPT !.of = NoOne]
                      [] OTHER -> adm[d]]

(* queryProvider comes back with blocked or not, or with an error - after  *)
(* its timeout at the latest - and the cache is filled.                    *)
EntryFor(c, blocked, err) ==
  LET ttl == IF err THEN ErrTTL ELSE RepTTL
  IN  [blocked |-> IF err THEN ~adm[c].failOpen ELSE blocked, left |-> ttl - adm[c].asked]
StaysInFlight(c) == repInFlight
LeavesFlight(c) == [repInFlight EXCEPT ![adm[c].ip] = NoOne]
QueryEnds(c, blocked, err) ==
  /\ adm[c].at = "ask" /\ (err \/ Reached(c, "provider"))
  /\ repCache' = [repCache EXCEPT ![adm[c].ip] = EntryFor(c, blocked, err)]
  /\ repInFlight' = LeavesFlight(c)
  /\ LET ok == ~EntryFor(c, blocked, err).blocked /\ adm[c].def = "allow"
     IN  adm' = [Ended(c) EXCEPT ![c] = Judged(c, ok)] /\ Kept(c, Judged(c, ok), ok)
  /\ UNCHANGED <<fw, fwFile, unsaved, home, webFilter, puts>>

(* The NewUserConn hook: the plugin lets the user in, rejects it, or       *)
(* cannot be asked.  Only a refused connection makes a call home fail.     *)
HookEnds(c, ok) ==
  /\ adm[c].at = "call"
  /\ Reached(c, "plugin") \/ (~ok /\ \E d \in AdmConn : adm[d].of = c /\ adm[d].at = "done")
  /\ LET a == Finished([adm[c] EXCEPT !.ok = ok]) IN adm' = [Ended(c) EXCEPT ![c] = a] /\ Kept(c, a, ok)
  /\ UNCHANGED <<fw, fwFile, unsaved, home, webFilter, repCache, repInFlight, puts>>
-----------------------------------------------------------------------------
AdmNext ==
  \/ RestartFrps \/ Sweep \/ TickAdm
  \/ \E f \in FWConfigs : SetConfig(f)
  \/ \E u \in AdmUser :
       \/ \E ip \in UserAddr[u] : 
            ArriveTCP(PeerConn(u), ip) \/ ArriveUDP(PeerConn(u), ip) \/ ArriveControl(PeerConn(u), ip) \/ ArriveWeb(PeerConn(u), ip)
       \/ CallHome(u)
  \/ \E c \in AdmConn :
       \/ Allow(c) \/ CheckExternal(c) \/ WakeUp(c)
       \/ \E b, e \in BOOLEAN : QueryEnds(c, b, e)
       \/ \E ok \in BOOLEAN : HookEnds(c, ok)

(* A goroutine that can go on does; a query ends, in a timeout if need be; *)
(* what asks a service published here gets its connection as soon as one   *)
(* can be made, and the plugin answers.                                    *)
AdmFairness ==
  \A c \in AdmConn :
    /\ WF_admVars(Allow(c)) /\ WF_admVars(CheckExternal(c)) /\ WF_admVars(WakeUp(c))
    /\ WF_admVars(\E b, e \in BOOLEAN : QueryEnds(c, b, e))
    /\ WF_admVars(\E ok \in BOOLEAN : HookEnds(c, ok)) /\ WF_admVars(CallHome(c[1]))
AdmSpec == AdmInit /\ [][AdmNext]_admVars /\ AdmFairness
-----------------------------------------------------------------------------
AdmTypeOK ==
  /\ \A c \in AdmConn :
       /\ adm[c].at \in {"free", "rules", "rep", "wait", "ask", "call", "done"}
       /\ adm[c].ip \in Addr \cup {Unparsed} /\ adm[c].port \in AllPorts /\ adm[c].of \in AdmConn \cup {NoOne}
       /\ adm[c].age \in 0..MostAge /\ adm[c].old \in 0..MostAge
  /\ \A a \in Addr : repInFlight[a] \in AdmConn \cup {NoOne} /\ repCache[a].left \in 0..RepTTL
  /\ \A a \in DOMAIN verdicts : verdicts[a].left \in 0..VerdictTTL
  /\ puts \in 0..MaxPuts /\ unsaved \in BOOLEAN

(* However many connections come from one address, the provider is asked   *)
(* about it once at a time (checkExternal collapses lookups into one).     *)
OneQueryPerAddress ==
  \A c, d \in AdmConn : (adm[c].at = "ask" /\ adm[d].at = "ask" /\ adm[c].ip = adm[d].ip) => c = d

(* A verdict of the udp filter is reused only while the rules it was made  *)
(* under are younger than the lifetime of a verdict, however long the      *)
(* provider and the plugin took to answer.                                 *)
VerdictsYoung == \A c \in AdmConn : adm[c].reused => adm[c].old < VerdictTTL

(* No call to the provider waits for another call to the provider, and no  *)
(* hook for a hook: frps's own connections to a service it publishes do    *)
(* not ask that service again.                                             *)
NoCallInItself ==
  \A c, d \in AdmConn :
    adm[c].of = d => ~(adm[c].at \in {"ask", "wait"} /\ adm[d].at = "ask") /\ ~(adm[c].at = "call" /\ adm[d].at = "call")

(* A restart changes nobody's fortune: unless the last save had failed,    *)
(* the rules, the policy and the switches are the ones that were in force. *)
RestartKeepsRules == [][RestartFrps => (unsaved \/ fw' = pruneLocked(fw))]_admVars

(* Whoever is being judged is judged in the end.                           *)
EveryoneJudged == \A c \in AdmConn : []<>(adm[c].at \in {"free", "done"})

(* While the WebPort switch is on, nobody reaches the dashboard unjudged.  *)
WebPortGuarded ==
  \A c \in AdmConn : (adm[c].path = "web" /\ adm[c].at = "done" /\ adm[c].due) => adm[c].judged
=============================================================================

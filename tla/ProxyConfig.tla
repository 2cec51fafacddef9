----------------------------- MODULE ProxyConfig -----------------------------
(***************************************************************************)
(* A proxy's configuration on its way from the client to the server:       *)
(* pkg/config/v1/proxy.go (Complete, Clone, MarshalToMsg,                  *)
(* UnmarshalFromMsg), pkg/config/v1/validation/proxy.go on both sides, and *)
(* NewProxyConfigurerFromMsg of pkg/config/load.go.                        *)
(*                                                                         *)
(* A configuration is its type and the set of the fields that are not at   *)
(* their zero value.  "mode" is BandwidthLimitMode = "server"; underHost   *)
(* is a custom domain that belongs to the subdomain host of the server,    *)
(* dotted a subdomain with a dot or a star in it, badAnnotation an         *)
(* annotation that is no qualified name or too large, badLocal a setting   *)
(* only the client checks (proxy protocol, limit mode, local port, health  *)
(* check, plugin options).                                                 *)
(***************************************************************************)
VARIABLES
  pconf,      \* the client's configuration: [type, on]
  pclone,     \* the fields set in a clone of it
  pstage,     \* file, checked, sent, taken, clientRefuses, serverRefuses
  pmsg,       \* the fields set in msg.NewProxy
  sconf,      \* the fields set in the server's configuration
  features    \* what the server has: http, https and tcpmux ports, a subdomain host

configVars == <<pconf, pclone, pstage, pmsg, sconf, features>>
-----------------------------------------------------------------------------
(* One record per type: the fields MarshalToMsg sends and UnmarshalFromMsg *)
(* reads, the ones Clone copies in depth, and the ones that stay here.     *)
ProxyBaseConfig ==
  [sends |-> {"encryption", "compression", "limit", "mode", "group", "groupKey", "metas", "annotations",
             "badAnnotation"},
   reads |-> {"encryption", "compression", "limit", "mode", "group", "groupKey", "metas", "annotations",
             "badAnnotation"},
   copies |-> {"enabled", "annotations", "metas", "health", "plugin"},
   local |-> {"enabled", "health", "plugin", "badLocal"}]
Plus(sends, reads, copies, local) ==
  [sends |-> ProxyBaseConfig.sends \cup sends, reads |-> ProxyBaseConfig.reads \cup reads,
   copies |-> ProxyBaseConfig.copies \cup copies, local |-> ProxyBaseConfig.local \cup local]
Same(fs, copies, local) == Plus(fs, fs, copies, local)

Domains == {"customDomains", "subDomain", "underHost", "dotted"}
TCPProxyConfig == Same({"remotePort"}, {}, {})
UDPProxyConfig == Same({"remotePort"}, {}, {})
TCPUDPProxyConfig == Same({"remotePort"}, {}, {"localPortUDP"})
HTTPFields == Domains \cup
  {"locations", "httpUser", "httpPassword", "hostRewrite", "headers", "respHeaders", "routeByUser"}
HTTPProxyConfig == Same(HTTPFields, {"customDomains", "locations", "headers", "respHeaders"}, {})
HTTPSProxyConfig == Same(Domains, {"customDomains"}, {})
MCProxyConfig == Same(Domains \cup {"remotePort"}, {"customDomains"}, {})
PEProxyConfig == Same({"remotePort"}, {"forcedHosts"}, {"forcedHosts"})
TCPMuxFields == Domains \cup {"multiplexer", "httpUser", "httpPassword", "routeByUser"}
NoRouteByUser == Plus(TCPMuxFields \ {"routeByUser"}, TCPMuxFields, {"customDomains"}, {"routeByUser"})
TCPMuxProxyConfig == Same(TCPMuxFields, {"customDomains"}, {})
Secret == {"secretKey", "allowUsers"}
STCPProxyConfig == Same(Secret, {"allowUsers"}, {})
SharesTraversal == Same(Secret, {"allowUsers"}, {"natTraversal"})
XTCPProxyConfig == Same(Secret, {"allowUsers", "natTraversal"}, {"natTraversal"})
XUDPProxyConfig == Same(Secret, {"allowUsers", "natTraversal"}, {"natTraversal"})
XTCPXUDPProxyConfig == Same(Secret, {"allowUsers", "natTraversal"}, {"natTraversal", "localPortUDP"})
SUDPProxyConfig == Same(Secret, {"allowUsers"}, {})
STCPSUDPProxyConfig == Same(Secret, {"allowUsers"}, {"localPortUDP"})

ProxyTypes == {"tcp", "udp", "tcp+udp", "http", "https", "mc", "pe", "tcpmux", "stcp", "xtcp", "xudp",
               "xtcp+xudp", "sudp", "stcp+sudp"}
NewProxyConfigurerByType(t) ==
  CASE t = "tcp" -> TCPProxyConfig [] t = "udp" -> UDPProxyConfig [] t = "tcp+udp" -> TCPUDPProxyConfig
    [] t = "http" -> HTTPProxyConfig [] t = "https" -> HTTPSProxyConfig [] t = "mc" -> MCProxyConfig
    [] t = "pe" -> PEProxyConfig [] t = "tcpmux" -> TCPMuxProxyConfig [] t = "stcp" -> STCPProxyConfig
    [] t = "xtcp" -> XTCPProxyConfig [] t = "xudp" -> XUDPProxyConfig [] t = "xtcp+xudp" -> XTCPXUDPProxyConfig
    [] t = "sudp" -> SUDPProxyConfig [] t = "stcp+sudp" -> STCPSUDPProxyConfig

FieldsOf(t) == LET k == NewProxyConfigurerByType(t) IN k.sends \cup k.local

(* The files that are read: at most two fields, or all the good ones but   *)
(* at most two.                                                            *)
AtMostTwo(S) == {{}} \cup {{a, b} : a \in S, b \in S}
Settings(t) ==
  LET good == FieldsOf(t) \ {"underHost", "dotted", "badAnnotation", "badLocal"}
  IN  AtMostTwo(FieldsOf(t)) \cup {good \ s : s \in AtMostTwo(good)}
Plausible(on) ==
  /\ ("underHost" \in on) => ("customDomains" \in on)
  /\ ("dotted" \in on) => ("subDomain" \in on)
  /\ ("badAnnotation" \in on) => ("annotations" \in on)

ConfigInit ==
  /\ pconf \in {[type |-> t, on |-> {}] : t \in ProxyTypes} /\ pclone = {}
  /\ features = {} /\ pstage = "none" /\ pmsg = {} /\ sconf = {}

(* The file is read.                                                       *)
Decode ==
  /\ pstage = "none" /\ pstage' = "file"
  /\ \E on \in Settings(pconf.type) : Plausible(on) /\ pconf' = [pconf EXCEPT !.on = on] /\ pclone' = on
  /\ UNCHANGED <<pmsg, sconf, features>>
-----------------------------------------------------------------------------
(* Someone writes into a slice, a map or a struct of the clone.            *)
Refs == {"enabled", "annotations", "metas", "health", "plugin", "customDomains", "locations", "headers",
         "respHeaders", "forcedHosts", "allowUsers", "natTraversal"}
WriteIntoClone(f) ==
  /\ pstage = "file" /\ f \in Refs \cap FieldsOf(pconf.type) /\ f \in pclone /\ pclone = pconf.on
  /\ pclone' = pclone \ {f}
  /\ pconf' = (IF f \in NewProxyConfigurerByType(pconf.type).copies THEN pconf
               ELSE [pconf EXCEPT !.on = @ \ {f}])
  /\ UNCHANGED <<pstage, pmsg, sconf, features>>

(* Complete, and the checks of the client.                                 *)
ValidateAnnotations(on) == "badAnnotation" \notin on
BaseForClient(on) == ValidateAnnotations(on) /\ "badLocal" \notin on
DomainsForClient(on) == {"subDomain", "customDomains"} \cap on # {}
NoPortNeeded(on) == DomainsForClient(on)
MCForClient(on) == "remotePort" \in on /\ DomainsForClient(on)
PEForClient(on) == {"remotePort", "forcedHosts"} \subseteq on
TCPMuxForClient(on) == DomainsForClient(on) /\ "multiplexer" \in on
ValidForClient(t, on) ==
  /\ BaseForClient(on)
  /\ CASE t = "tcpmux" -> TCPMuxForClient(on)
       [] t \in {"http", "https"} -> DomainsForClient(on)
       [] t = "mc" -> MCForClient(on)
       [] t = "pe" -> PEForClient(on)
       [] OTHER -> TRUE
Check ==
  /\ pstage = "file" /\ pclone = pconf.on
  /\ pstage' = (IF ValidForClient(pconf.type, pconf.on) THEN "checked" ELSE "clientRefuses")
  /\ UNCHANGED <<pconf, pclone, pmsg, sconf, features>>

(* The message goes to the server, whatever that server has.               *)
MarshalToMsg ==
  /\ pstage = "checked" /\ pstage' = "sent"
  /\ pmsg' = pconf.on \cap NewProxyConfigurerByType(pconf.type).sends
  /\ features' \in SUBSET {"http", "https", "tcpmux", "subHost"}
  /\ UNCHANGED <<pconf, pclone, sconf>>
-----------------------------------------------------------------------------
DomainsForServer(on, has) ==
  /\ ("underHost" \in on) => ("subHost" \notin has)
  /\ ("subDomain" \in on) => ("subHost" \in has /\ "dotted" \notin on)
MCForServer(on, has) == "remotePort" \in on /\ DomainsForServer(on, has)
PEForServer(on) == "remotePort" \in on
TCPMuxForServer(on, has) == (("multiplexer" \in on) => ("tcpmux" \in has)) /\ DomainsForServer(on, has)
HTTPForServer(on, has) == "http" \in has /\ DomainsForServer(on, has)
HTTPSForServer(on, has) == "https" \in has /\ DomainsForServer(on, has)
ValidForServer(t, on, has) ==
  /\ ValidateAnnotations(on)
  /\ CASE t = "tcpmux" -> TCPMuxForServer(on, has)
       [] t = "http" -> HTTPForServer(on, has)
       [] t = "https" -> HTTPSForServer(on, has)
       [] t = "mc" -> MCForServer(on, has)
       [] t = "pe" -> PEForServer(on)
       [] OTHER -> TRUE

(* The server builds its own configuration from the message.               *)
NewProxyConfigurerFromMsg ==
  /\ pstage = "sent" /\ sconf' = pmsg \cap NewProxyConfigurerByType(pconf.type).reads
  /\ pstage' = (IF ValidForServer(pconf.type, sconf', features) THEN "taken" ELSE "serverRefuses")
  /\ UNCHANGED <<pconf, pclone, pmsg, features>>

ConfigNext ==
  \/ Decode \/ Check \/ MarshalToMsg \/ NewProxyConfigurerFromMsg
  \/ \E f \in Refs : WriteIntoClone(f)
ConfigSpec == ConfigInit /\ [][ConfigNext]_configVars
-----------------------------------------------------------------------------
AllFields == UNION {FieldsOf(t) : t \in ProxyTypes}
ConfigTypeOK ==
  /\ pconf \in [type : ProxyTypes, on : SUBSET AllFields] /\ pclone \subseteq AllFields
  /\ pstage \in {"none", "file", "checked", "sent", "taken", "clientRefuses", "serverRefuses"}
  /\ pmsg \subseteq AllFields /\ sconf \subseteq AllFields
  /\ features \subseteq {"http", "https", "tcpmux", "subHost"}

(* What the server's proxies of server/proxy/*.go look at.                 *)
ServerLooksAt(t) ==
  LET base == {"encryption", "compression", "limit", "mode", "group", "groupKey", "metas", "annotations"}
      vhost == {"customDomains", "subDomain"}
  IN  base \cup
      CASE t \in {"tcp", "udp", "tcp+udp", "pe"} -> {"remotePort"}
        [] t = "http" -> vhost \cup {"locations", "httpUser", "httpPassword", "hostRewrite", "headers",
                                     "respHeaders", "routeByUser"}
        [] t = "https" -> vhost
        [] t = "mc" -> vhost \cup {"remotePort"}
        [] t = "tcpmux" -> vhost \cup {"multiplexer", "httpUser", "httpPassword", "routeByUser"}
        [] OTHER -> {"secretKey", "allowUsers"}

(* The server runs the proxy the client configured: no field its proxies   *)
(* look at is lost or made up between the file and the server.             *)
ServerRunsConfigured ==
  pstage = "taken" => \A f \in ServerLooksAt(pconf.type) : (f \in sconf) <=> (f \in pconf.on)

(* A configuration that passed the client's own checks is refused by the   *)
(* server only for what the server lacks or for its subdomain host.        *)
RefusedOnlyForFeatures ==
  pstage = "serverRefuses" =>
    \/ pconf.type \in {"http", "https", "tcpmux"} /\ pconf.type \notin features
    \/ "subDomain" \in pconf.on /\ ("subHost" \notin features \/ "dotted" \in pconf.on)
    \/ "underHost" \in pconf.on /\ "subHost" \in features

(* Writing into a clone never changes the configuration it was made from.  *)
ClonesApart == [][pclone' # pclone => pconf' = pconf \/ pstage = "none"]_configVars
=============================================================================

------------------------ MODULE MCProxyRegistration ------------------------
(* Instances of ProxyRegistration for TLC.                                 *)
EXTENDS ProxyRegistration, TLC

CONSTANTS a, b,              \* controls
          p1, p2, p3, p4,    \* proxies
          m1, m2,            \* owners of shared ports
          n1, n2, n3         \* names

Mux2 == 1 :> m1 @@ 2 :> m2

(* Two tcp proxies that want the same name and two mc proxies on port 2,   *)
(* which a tcp proxy wants as well.                                        *)
TCPKind == p1 :> "tcp" @@ p2 :> "tcp" @@ p3 :> "mc" @@ p4 :> "mc"
TCPWant == p1 :> 1 @@ p2 :> 2 @@ p3 :> 2 @@ p4 :> 2
TCPCtl  == p1 :> a @@ p2 :> b @@ p3 :> a @@ p4 :> b
TCPName == p1 :> n1 @@ p2 :> n1 @@ p3 :> n2 @@ p4 :> n3 @@ m1 :> "@1" @@ m2 :> "@2"

(* A udp and two tcpudp proxies compete for one port, two of them with the *)
(* same name; one leaves the choice of the port to the manager.            *)
Mux1 == 1 :> m1
UDPKind == p1 :> "tcpudp" @@ p2 :> "udp" @@ p3 :> "tcpudp"
UDPWant == p1 :> 0 @@ p2 :> 1 @@ p3 :> 1
UDPCtl  == p1 :> a @@ p2 :> a @@ p3 :> b
UDPName == p1 :> n1 @@ p2 :> n2 @@ p3 :> n1 @@ m1 :> "@1"

(* A tcpudp proxy and an mc proxy on the same port.                        *)
MixKind == p1 :> "tcpudp" @@ p2 :> "mc"
MixWant == p1 :> 1 @@ p2 :> 1
MixCtl  == p1 :> a @@ p2 :> b
MixName == p1 :> n1 @@ p2 :> n2 @@ m1 :> "@1" @@ m2 :> "@2"
=============================================================================

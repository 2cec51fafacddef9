------------------------------ MODULE AuthTokens ------------------------------
(***************************************************************************)
(* How a client proves itself: what the setters of pkg/auth put into a     *)
(* Login, a Ping and a NewWorkConn, and what the verifiers of the server   *)
(* make of it.  The methods are a shared token (pkg/auth/token.go), OIDC   *)
(* client credentials with a token source that caches, and OIDC with a     *)
(* token read from a file or a command (pkg/auth/oidc.go).                 *)
(*                                                                         *)
(* A shared token may come from a file (auth.tokenSource); each program    *)
(* resolves it once, when it starts.  The identity provider may or may not *)
(* say when a token expires; its tokens live TokenLife ticks either way.   *)
(* A message takes less time than a tick: an oauth2 source gives no token  *)
(* away that has less than ten seconds left.                               *)
(***************************************************************************)
EXTENDS Naturals

CONSTANTS
    TokenLife,     \* ticks a token of the identity provider is good for
    AuthCases      \* configurations: method, the scopes of each side, expires

Scopes == {"HeartBeats", "NewWorkConns"}

AuthCase == [method : {"token", "oidc", "source"}, cscopes : SUBSET Scopes, sscopes : SUBSET Scopes,
             expires : BOOLEAN]

ASSUME AuthAssumption == TokenLife \in Nat \ {0} /\ AuthCases \subseteq AuthCase

VARIABLES
    aconf,       \* the configuration
    secret,      \* the token file of the shared token: its version
    csecret,     \* what the client resolved it to
    ssecret,     \* what the server resolved it to
    tsource,     \* oidcTokenSource and the oauth2 source it wraps
    fileToken,   \* ticks left of the OIDC token in the client's file
    subjects,    \* subjectsFromLogin has the client's subject
    loggedIn,    \* the client has a session
    authMsg,     \* the message in flight
    refused      \* the message the server has just refused

authVars == <<aconf, secret, csecret, ssecret, tsource, fileToken, subjects, loggedIn, authMsg, refused>>

NoKey == [kind |-> "empty"]

Keys == {NoKey} \cup [kind : {"auth key"}, of : {0, 1}] \cup [kind : {"jwt"}, left : 0 .. TokenLife]

NoAuthMsg == [kind |-> "none", key |-> NoKey]

(* oidcTokenSource and the oauth2 source it wraps; a message.              *)
TokenSource == [initialized : BOOLEAN, caching : BOOLEAN, left : 0 .. TokenLife, held : BOOLEAN]
AuthMsgs == [kind : {"none", "Login", "Ping", "NewWorkConn"}, key : Keys]

AuthTypeOK ==
    /\ aconf \in AuthCase
    /\ {secret, csecret, ssecret} \subseteq {0, 1}
    /\ tsource \in TokenSource
    /\ fileToken \in 0 .. TokenLife
    /\ {subjects, loggedIn} \subseteq BOOLEAN
    /\ authMsg \in AuthMsgs /\ refused \in AuthMsgs

(***************************************************************************)
(* NewOidcAuthSetter asks the provider for nothing yet.                    *)
(***************************************************************************)
NewOidcAuthSetter == [initialized |-> FALSE, caching |-> TRUE, left |-> 0, held |-> FALSE]

AuthInit ==
    /\ aconf \in AuthCases
    /\ secret = 0 /\ csecret = 0 /\ ssecret = 0
    /\ tsource = NewOidcAuthSetter
    /\ fileToken = TokenLife
    /\ subjects = FALSE /\ loggedIn = FALSE
    /\ authMsg = NoAuthMsg
    /\ refused = NoAuthMsg

-----------------------------------------------------------------------------
(***************************************************************************)
(* The client side.                                                        *)
(***************************************************************************)

(***************************************************************************)
(* The oauth2 source keeps a token while it is valid; one without an       *)
(* expiry is valid for ever.                                               *)
(***************************************************************************)
Reusable == tsource.caching /\ tsource.held /\ (aconf.expires => tsource.left > 0)

(***************************************************************************)
(* The first token tells whether the provider gives an expiry; if not, the *)
(* source is replaced by one that fetches every time.                      *)
(***************************************************************************)
KeepsCaching == tsource.caching /\ (tsource.initialized \/ aconf.expires)

CachesAnyway == tsource.caching

CachingAfter == KeepsCaching

(***************************************************************************)
(* Token(): the source after the call; left is what the caller gets.       *)
(***************************************************************************)
SourceAfter ==
    [initialized |-> TRUE, caching |-> CachingAfter, held |-> CachingAfter,
     left |-> IF Reusable THEN tsource.left ELSE TokenLife]

GenerateAccessToken == [kind |-> "jwt", left |-> SourceAfter.left]

(***************************************************************************)
(* OidcTokenSourceAuthProvider resolves its value source for each message. *)
(***************************************************************************)
Resolve == [kind |-> "jwt", left |-> fileToken]

GetAuthKey(s) == [kind |-> "auth key", of |-> s]

KeyFor(kind) ==
    CASE aconf.method = "token"  -> GetAuthKey(csecret)
      [] aconf.method = "oidc"   -> GenerateAccessToken
      [] aconf.method = "source" -> Resolve

(***************************************************************************)
(* A message that authenticates; a request that the provider does not      *)
(* answer leaves everything as it is, and the caller tries again later.    *)
(***************************************************************************)
Authenticate(kind) ==
    /\ authMsg' = [kind |-> kind, key |-> KeyFor(kind)]
    /\ tsource' = IF aconf.method = "oidc" THEN SourceAfter ELSE tsource

SetLogin ==
    /\ authMsg.kind = "none" /\ ~loggedIn
    /\ Authenticate("Login")
    /\ UNCHANGED <<aconf, secret, csecret, ssecret, fileToken, subjects, loggedIn, refused>>

SetScoped(kind, scope) ==
    /\ authMsg.kind = "none" /\ loggedIn
    /\ IF scope \in aconf.cscopes THEN Authenticate(kind)
       ELSE authMsg' = [kind |-> kind, key |-> NoKey] /\ UNCHANGED tsource
    /\ UNCHANGED <<aconf, secret, csecret, ssecret, fileToken, subjects, loggedIn, refused>>

SetPing == SetScoped("Ping", "HeartBeats")

SetNewWorkConn == SetScoped("NewWorkConn", "NewWorkConns")

-----------------------------------------------------------------------------
(***************************************************************************)
(* The server side.  The OIDC verifier remembers the subjects of the       *)
(* logins it accepted and wants a later token to be of one of them.        *)
(***************************************************************************)
VerifyKey(key) ==
    IF aconf.method = "token" THEN key = GetAuthKey(ssecret)
    ELSE key \in [kind : {"jwt"}, left : 1 .. TokenLife]

VerifyPostLoginToken(key) == VerifyKey(key) /\ (aconf.method # "token" => subjects)

VerifyLogin ==
    /\ authMsg.kind = "Login"
    /\ authMsg' = NoAuthMsg
    /\ loggedIn' = VerifyKey(authMsg.key)
    /\ subjects' = (subjects \/ (VerifyKey(authMsg.key) /\ aconf.method # "token"))
    /\ refused' = IF VerifyKey(authMsg.key) THEN NoAuthMsg ELSE authMsg
    /\ UNCHANGED <<aconf, secret, csecret, ssecret, tsource, fileToken>>

ScopedOK(scope) == scope \notin aconf.sscopes \/ VerifyPostLoginToken(authMsg.key)

(***************************************************************************)
(* A refused Ping is answered by a Pong with an error, at which the client *)
(* closes its session; a refused NewWorkConn costs its connection only.    *)
(***************************************************************************)
VerifyPing ==
    /\ authMsg.kind = "Ping"
    /\ authMsg' = NoAuthMsg
    /\ loggedIn' = ScopedOK("HeartBeats")
    /\ refused' = IF ScopedOK("HeartBeats") THEN NoAuthMsg ELSE authMsg
    /\ UNCHANGED <<aconf, secret, csecret, ssecret, tsource, fileToken, subjects>>

VerifyNewWorkConn ==
    /\ authMsg.kind = "NewWorkConn"
    /\ authMsg' = NoAuthMsg
    /\ refused' = IF ScopedOK("NewWorkConns") THEN NoAuthMsg ELSE authMsg
    /\ UNCHANGED <<aconf, secret, csecret, ssecret, tsource, fileToken, subjects, loggedIn>>

-----------------------------------------------------------------------------
(***************************************************************************)
(* Restarts, the files and time.                                           *)
(***************************************************************************)
BuildClientAuth ==
    /\ csecret' = secret
    /\ tsource' = NewOidcAuthSetter
    /\ loggedIn' = FALSE /\ authMsg' = NoAuthMsg /\ refused' = NoAuthMsg
    /\ UNCHANGED <<aconf, secret, ssecret, fileToken, subjects>>

BuildServerAuth ==
    /\ ssecret' = secret
    /\ subjects' = FALSE
    /\ loggedIn' = FALSE /\ authMsg' = NoAuthMsg /\ refused' = NoAuthMsg
    /\ UNCHANGED <<aconf, secret, csecret, tsource, fileToken>>

RotateSecret ==
    /\ aconf.method = "token"
    /\ secret' = 1 - secret
    /\ UNCHANGED <<aconf, csecret, ssecret, tsource, fileToken, subjects, loggedIn, authMsg, refused>>

RenewFileToken ==
    /\ fileToken < TokenLife
    /\ fileToken' = TokenLife
    /\ UNCHANGED <<aconf, secret, csecret, ssecret, tsource, subjects, loggedIn, authMsg, refused>>

OneLess(n) == IF n = 0 THEN 0 ELSE n - 1

AgeTokens ==
    /\ authMsg.kind = "none" /\ aconf.method # "token"
    /\ tsource' = [tsource EXCEPT !.left = OneLess(@)]
    /\ fileToken' = OneLess(fileToken)
    /\ UNCHANGED <<aconf, secret, csecret, ssecret, subjects, loggedIn, authMsg, refused>>

AuthNext ==
    \/ SetLogin \/ SetPing \/ SetNewWorkConn
    \/ VerifyLogin \/ VerifyPing \/ VerifyNewWorkConn
    \/ BuildClientAuth \/ BuildServerAuth
    \/ RotateSecret \/ RenewFileToken \/ AgeTokens

AuthSpec == AuthInit /\ [][AuthNext]_authVars

-----------------------------------------------------------------------------
ScopeOf(kind) == IF kind = "Ping" THEN "HeartBeats" ELSE "NewWorkConns"

(***************************************************************************)
(* The server refuses a message only for a cause an operator can see: the  *)
(* two programs resolved different shared tokens, the token in the         *)
(* client's file has expired, or the server checks a kind of message the   *)
(* client does not authenticate.  In particular a client with client       *)
(* credentials never sends a stale token, whether or not its provider says *)
(* when tokens expire, and a server that restarted, and so forgot every    *)
(* subject, refuses no client that logged in to it again.                  *)
(***************************************************************************)
RefusedForCause ==
    refused.kind # "none" =>
        \/ aconf.method = "token" /\ csecret # ssecret
        \/ aconf.method = "source" /\ refused.key = [kind |-> "jwt", left |-> 0]
        \/ refused.kind # "Login" /\ ScopeOf(refused.kind) \in aconf.sscopes \ aconf.cscopes
===============================================================================

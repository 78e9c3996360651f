--------------------------- MODULE OIDCVerifier ---------------------------
(***************************************************************************)
(* The configuration cache of the OIDC Verifier (lxd/auth/oidc/oidc.go).   *)
(*                                                                         *)
(* A single Verifier is shared by every HTTP request handler of the        *)
(* daemon.  Auth, Login and Callback first call ensureConfig, which        *)
(* rebuilds the relying party when there is none, when the request host   *)
(* differs from the cached host, or when ExpireConfig has been called      *)
(* (after a proxy configuration change), and creates the access token      *)
(* verifier once.  The fields are read and written without a lock, so     *)
(* the steps of concurrent handlers, and a concurrent ExpireConfig,        *)
(* interleave.  A relying party is abstracted to the request host its      *)
(* callback URL names and the generation of the proxy configuration of     *)
(* the HTTP client it was built with.                                      *)
(***************************************************************************)
EXTENDS Naturals

CONSTANTS
    Reqs,       \* concurrent request handlers (goroutines) using the Verifier
    Hosts,      \* values of the request Host header
    MaxGen,     \* bound on the proxy configuration changes (ExpireConfig calls)
    NoHost,     \* the zero value of Verifier.host
    NoRP        \* a nil Verifier.relyingParty

ASSUME ConstAssumption ==
    /\ Reqs # {}
    /\ Hosts # {}
    /\ MaxGen \in Nat
    /\ NoHost \notin Hosts
    /\ NoRP \notin [host : Hosts, gen : Nat]

VARIABLES
    relyingParty,    \* o.relyingParty: NoRP or [host, gen]
    host,            \* o.host
    expireConfig,    \* o.expireConfig
    atvSet,          \* o.accessTokenVerifier # nil
    atvGen,          \* proxy generation of the HTTP client its key set uses
    proxyGen,        \* generation of the proxy configuration httpClientFunc returns
    pc,              \* pc[r]: the step handler r is about to take
    reqHost,         \* reqHost[r]: the Host header of r's current request
    newRP            \* newRP[r]: the relying party r's setRelyingParty built

vars == <<relyingParty, host, expireConfig, atvSet, atvGen, proxyGen,
          pc, reqHost, newRP>>

Gens == 0..MaxGen
RP == [host : Hosts, gen : Gens]
Steps == {"idle", "check", "build", "assignRP", "setHost", "clearExpire",
          "checkATV", "setATV", "use"}

\* The steps from the start of setRelyingParty to the end of ensureConfig's
\* first branch: while a handler is in one of them the cache is being updated.
Updating == {"build", "assignRP", "setHost", "clearExpire"}

TypeOK ==
    /\ relyingParty \in RP \cup {NoRP}
    /\ host \in Hosts \cup {NoHost}
    /\ expireConfig \in BOOLEAN
    /\ atvSet \in BOOLEAN
    /\ atvGen \in Gens
    /\ proxyGen \in Gens
    /\ pc \in [Reqs -> Steps]
    /\ reqHost \in [Reqs -> Hosts]
    /\ newRP \in [Reqs -> RP \cup {NoRP}]

\* NewVerifier: no relying party, no verifier, no host.
Init ==
    /\ relyingParty = NoRP
    /\ host = NoHost
    /\ expireConfig = FALSE
    /\ atvSet = FALSE
    /\ atvGen = 0
    /\ proxyGen = 0
    /\ pc = [r \in Reqs |-> "idle"]
    /\ reqHost \in [Reqs -> Hosts]
    /\ newRP = [r \in Reqs |-> NoRP]

Goto(r, s) == pc' = [pc EXCEPT ![r] = s]

\* A request arrives at Auth, Login or Callback with Host header h.
Request(r) ==
    /\ pc[r] = "idle"
    /\ \E h \in Hosts : reqHost' = [reqHost EXCEPT ![r] = h]
    /\ Goto(r, "check")
    /\ UNCHANGED <<relyingParty, host, expireConfig, atvSet, atvGen, proxyGen, newRP>>

\* ensureConfig: the test of the first branch.
NeedsRelyingParty(r) ==
    relyingParty = NoRP \/ reqHost[r] # host \/ expireConfig

ensureConfigCheck(r) ==
    /\ pc[r] = "check"
    /\ Goto(r, IF NeedsRelyingParty(r) THEN "build" ELSE "checkATV")
    /\ UNCHANGED <<relyingParty, host, expireConfig, atvSet, atvGen, proxyGen,
                   reqHost, newRP>>

\* setRelyingParty up to the assignment: httpClientFunc returns a client
\* with the current proxy configuration and NewRelyingPartyOIDC performs
\* discovery.  Either may fail; ensureConfig then returns the error and the
\* handler answers the request with it.
setRelyingPartyBuild(r) ==
    /\ pc[r] = "build"
    /\ \/ /\ newRP' = [newRP EXCEPT ![r] = [host |-> reqHost[r], gen |-> proxyGen]]
          /\ Goto(r, "assignRP")
       \/ /\ Goto(r, "idle")
          /\ UNCHANGED newRP
    /\ UNCHANGED <<relyingParty, host, expireConfig, atvSet, atvGen, proxyGen, reqHost>>

\* o.relyingParty = relyingParty
setRelyingPartyAssign(r) ==
    /\ pc[r] = "assignRP"
    /\ relyingParty' = newRP[r]
    /\ Goto(r, "setHost")
    /\ UNCHANGED <<host, expireConfig, atvSet, atvGen, proxyGen, reqHost, newRP>>

\* o.host = host
ensureConfigSetHost(r) ==
    /\ pc[r] = "setHost"
    /\ host' = reqHost[r]
    /\ Goto(r, "clearExpire")
    /\ UNCHANGED <<relyingParty, expireConfig, atvSet, atvGen, proxyGen, reqHost, newRP>>

\* o.expireConfig = false
ensureConfigClearExpire(r) ==
    /\ pc[r] = "clearExpire"
    /\ expireConfig' = FALSE
    /\ Goto(r, "checkATV")
    /\ UNCHANGED <<relyingParty, host, atvSet, atvGen, proxyGen, reqHost, newRP>>

\* ensureConfig: if o.accessTokenVerifier == nil.
ensureConfigCheckATV(r) ==
    /\ pc[r] = "checkATV"
    /\ Goto(r, IF atvSet THEN "use" ELSE "setATV")
    /\ UNCHANGED <<relyingParty, host, expireConfig, atvSet, atvGen, proxyGen,
                   reqHost, newRP>>

\* The key set of the new access token verifier: the relying party's ID
\* token verifier's, fetched with the HTTP client that relying party was
\* built with, or without a relying party a remote key set on the client
\* httpClientFunc returns now.
KeySetGen == IF relyingParty # NoRP THEN relyingParty.gen ELSE proxyGen

\* Mutant: ensureConfig ignores the error of setAccessTokenVerifier.
setAccessTokenVerifierIgnoringError(r) ==
    /\ pc[r] = "setATV"
    /\ \/ /\ atvSet' = TRUE
          /\ atvGen' = KeySetGen
          /\ Goto(r, "use")
       \/ /\ Goto(r, "use")
          /\ UNCHANGED <<atvSet, atvGen>>
    /\ UNCHANGED <<relyingParty, host, expireConfig, proxyGen, reqHost, newRP>>

\* setAccessTokenVerifier: httpClientFunc and, without a relying party,
\* discovery may fail; otherwise the verifier is assigned.
setAccessTokenVerifier(r) ==
    /\ pc[r] = "setATV"
    /\ \/ /\ atvSet' = TRUE
          /\ atvGen' = KeySetGen
          /\ Goto(r, "use")
       \/ /\ Goto(r, "idle")
          /\ UNCHANGED <<atvSet, atvGen>>
    /\ UNCHANGED <<relyingParty, host, expireConfig, proxyGen, reqHost, newRP>>

\* After ensureConfig returned nil the handler uses o.relyingParty (the
\* AuthURLHandler of Login, the CodeExchangeHandler of Callback, the
\* ID token verifier and token refresh of Auth) and answers the request.
UseRelyingParty(r) ==
    /\ pc[r] = "use"
    /\ Goto(r, "idle")
    /\ UNCHANGED <<relyingParty, host, expireConfig, atvSet, atvGen, proxyGen, reqHost, newRP>>

\* ExpireConfig, called when the proxy configuration changes: the HTTP
\* client httpClientFunc returns from now on uses the new configuration.
ExpireConfig ==
    /\ proxyGen < MaxGen
    /\ proxyGen' = proxyGen + 1
    /\ expireConfig' = TRUE
    /\ UNCHANGED <<relyingParty, host, atvSet, atvGen, pc, reqHost, newRP>>

Handler(r) ==
    \/ Request(r)
    \/ ensureConfigCheck(r)
    \/ setRelyingPartyBuild(r)
    \/ setRelyingPartyAssign(r)
    \/ ensureConfigSetHost(r)
    \/ ensureConfigClearExpire(r)
    \/ ensureConfigCheckATV(r)
    \/ setAccessTokenVerifier(r)
    \/ UseRelyingParty(r)

Next == ExpireConfig \/ \E r \in Reqs : Handler(r)

Spec == Init /\ [][Next]_vars

-----------------------------------------------------------------------------
(* Properties *)

\* A handler only uses the Verifier once ensureConfig has left it with a
\* relying party and an access token verifier (a nil dereference in Login,
\* Callback or authenticateAccessToken otherwise), even when another handler
\* is rebuilding the configuration at the same time.
ConfiguredWhenUsed ==
    \A r \in Reqs : pc[r] = "use" => relyingParty # NoRP /\ atvSet

\* The relying party a handler uses was built for the host of its request,
\* so that Login sends the IdP a callback URL on the host the browser used
\* (the reason ensureConfig compares host with o.host).
UsedRPMatchesHost ==
    \A r \in Reqs : pc[r] = "use" => relyingParty.host = reqHost[r]

\* Once ExpireConfig has been called, the relying party is rebuilt with the
\* new proxy configuration before it is used again: when no handler is in
\* the middle of rebuilding it, an unexpired cache holds a relying party
\* built with the current proxy configuration.
ExpiryNotLost ==
    (\A r \in Reqs : pc[r] \notin Updating)
        => (relyingParty # NoRP /\ ~expireConfig => relyingParty.gen = proxyGen)

\* ExpireConfig makes the Verifier reconfigure "so that proxy configurations
\* (core.https_proxy) can be applied to the HTTP client used to call the
\* IdP": once no handler is rebuilding the cache and the relying party was
\* rebuilt with the current proxy configuration, the access token verifier,
\* which calls the IdP's JWKS endpoint when keys rotate, uses it too.
VerifierUsesCurrentProxy ==
    (\A r \in Reqs : pc[r] \notin Updating \cup {"setATV"})
        => (/\ atvSet /\ ~expireConfig
            /\ relyingParty # NoRP /\ relyingParty.gen = proxyGen
            => atvGen = proxyGen)

=============================================================================

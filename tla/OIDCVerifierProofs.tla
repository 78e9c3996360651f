------------------------ MODULE OIDCVerifierProofs ------------------------
(***************************************************************************)
(* Proofs about the OIDC Verifier's configuration cache (OIDCVerifier),   *)
(* for every set of request handlers and hosts and every bound MaxGen.     *)
(***************************************************************************)
EXTENDS OIDCVerifier, TLAPS

-----------------------------------------------------------------------------
(* Type correctness.                                                       *)

LEMMA TypeInit == Init => TypeOK
<1> USE ConstAssumption DEF TypeOK, RP, Gens, Steps
<1>1. Init => TypeOK
  <2> SUFFICES ASSUME Init PROVE TypeOK
    OBVIOUS
  <2>1. NoRP \in RP \cup {NoRP} /\ NoHost \in Hosts \cup {NoHost}
    OBVIOUS
  <2>2. 0 \in 0..MaxGen
    OBVIOUS
  <2>3. QED
    BY <2>1, <2>2 DEF Init
<1>2. QED
  BY <1>1

LEMMA TypeStep == TypeOK /\ [Next]_vars => TypeOK'
<1> USE ConstAssumption DEF TypeOK, RP, Gens, Steps
<1>1. TypeOK /\ [Next]_vars => TypeOK'
  <2> SUFFICES ASSUME TypeOK, [Next]_vars PROVE TypeOK'
    OBVIOUS
  <2>1. CASE ExpireConfig
    BY <2>1 DEF ExpireConfig
  <2>2. ASSUME NEW r \in Reqs, Handler(r) PROVE TypeOK'
    <3>1. CASE Request(r)
      BY <3>1 DEF Request, Goto
    <3>2. CASE ensureConfigCheck(r)
      BY <3>2 DEF ensureConfigCheck, Goto
    <3>3. CASE setRelyingPartyBuild(r)
      BY <3>3 DEF setRelyingPartyBuild, Goto
    <3>4. CASE setRelyingPartyAssign(r)
      BY <3>4 DEF setRelyingPartyAssign, Goto
    <3>5. CASE ensureConfigSetHost(r)
      BY <3>5 DEF ensureConfigSetHost, Goto
    <3>6. CASE ensureConfigClearExpire(r)
      BY <3>6 DEF ensureConfigClearExpire, Goto
    <3>7. CASE ensureConfigCheckATV(r)
      BY <3>7 DEF ensureConfigCheckATV, Goto
    <3>8. CASE setAccessTokenVerifier(r)
      <4>1. KeySetGen \in Gens
        BY DEF KeySetGen
      <4>2. QED
        BY <3>8, <4>1 DEF setAccessTokenVerifier, Goto
    <3>9. CASE UseRelyingParty(r)
      BY <3>9 DEF UseRelyingParty, Goto
    <3>10. QED
      BY <2>2, <3>1, <3>2, <3>3, <3>4, <3>5, <3>6, <3>7, <3>8, <3>9 DEF Handler
  <2>3. CASE UNCHANGED vars
    BY <2>3 DEF vars
  <2>4. QED
    BY <2>1, <2>2, <2>3 DEF Next
<1>2. QED
  BY <1>1

\* Every step of a handler, and ExpireConfig, keeps the Verifier's fields
\* and the handlers' locals in their types.
THEOREM TypeCorrect == Spec => []TypeOK
  BY TypeInit, TypeStep, PTL DEF Spec

-----------------------------------------------------------------------------
(* A handler never uses an unconfigured Verifier.                          *)

\* The strengthening of ConfiguredWhenUsed: a relying party a handler is
\* about to assign is a real one, so once some handler has assigned it the
\* Verifier keeps a relying party for good, and a handler past
\* setAccessTokenVerifier finds the verifier set.
AfterAssign == {"setHost", "clearExpire", "checkATV", "setATV", "use"}

ConfigIInv ==
    /\ TypeOK
    /\ \A r \in Reqs : pc[r] = "assignRP" => newRP[r] \in RP
    /\ \A r \in Reqs : pc[r] \in AfterAssign => relyingParty \in RP
    /\ \A r \in Reqs : pc[r] = "use" => atvSet

LEMMA NoRPNotRP == NoRP \notin RP
  BY ConstAssumption DEF RP, Gens

LEMMA ConfigIInvInit == Init => ConfigIInv
  BY TypeInit DEF ConfigIInv, Init, AfterAssign

LEMMA ConfigIInvStep == ConfigIInv /\ [Next]_vars => ConfigIInv'
<1> SUFFICES ASSUME ConfigIInv, [Next]_vars PROVE ConfigIInv'
  OBVIOUS
<1>0. TypeOK'
  BY TypeStep DEF ConfigIInv
<1> USE DEF ConfigIInv, AfterAssign
<1>1. CASE ExpireConfig
  BY <1>0, <1>1 DEF ExpireConfig
<1>2. ASSUME NEW r \in Reqs, Handler(r) PROVE ConfigIInv'
  <2> USE DEF TypeOK, Goto
  <2>1. CASE Request(r)
    BY <1>0, <2>1 DEF Request
  <2>2. CASE ensureConfigCheck(r)
    <3>1. pc'[r] = "checkATV" => relyingParty \in RP
      BY <2>2, NoRPNotRP DEF ensureConfigCheck, NeedsRelyingParty
    <3>2. QED
      BY <1>0, <2>2, <3>1 DEF ensureConfigCheck
  <2>3. CASE setRelyingPartyBuild(r)
    BY <1>0, <2>3 DEF setRelyingPartyBuild, RP, Gens
  <2>4. CASE setRelyingPartyAssign(r)
    BY <1>0, <2>4 DEF setRelyingPartyAssign
  <2>5. CASE ensureConfigSetHost(r)
    BY <1>0, <2>5 DEF ensureConfigSetHost
  <2>6. CASE ensureConfigClearExpire(r)
    BY <1>0, <2>6 DEF ensureConfigClearExpire
  <2>7. CASE ensureConfigCheckATV(r)
    BY <1>0, <2>7 DEF ensureConfigCheckATV
  <2>8. CASE setAccessTokenVerifier(r)
    BY <1>0, <2>8 DEF setAccessTokenVerifier
  <2>9. CASE UseRelyingParty(r)
    BY <1>0, <2>9 DEF UseRelyingParty
  <2>10. QED
    BY <1>2, <2>1, <2>2, <2>3, <2>4, <2>5, <2>6, <2>7, <2>8, <2>9 DEF Handler
<1>3. CASE UNCHANGED vars
  BY <1>0, <1>3 DEF vars
<1>4. QED
  BY <1>1, <1>2, <1>3 DEF Next

\* ConfiguredWhenUsed holds in every state, however many handlers race:
\* Login, Callback and Auth never dereference a nil relying party or
\* access token verifier after ensureConfig returned nil.
THEOREM ConfiguredWhenUsedHolds == Spec => []ConfiguredWhenUsed
<1>1. ConfigIInv => ConfiguredWhenUsed
  BY NoRPNotRP DEF ConfigIInv, ConfiguredWhenUsed, AfterAssign
<1>2. QED
  BY <1>1, ConfigIInvInit, ConfigIInvStep, PTL DEF Spec

-----------------------------------------------------------------------------
(* With one request handler, the relying party used matches the request    *)
(* host.                                                                   *)

\* The strengthening of UsedRPMatchesHost for a lone handler r0: outside the
\* window between assigning the relying party and recording the host, the
\* cached relying party was built for the cached host, and once the host is
\* recorded it is the host of r0's request.
HostIInv(r0) ==
    /\ ConfigIInv
    /\ pc[r0] # "setHost" => (relyingParty \in RP => relyingParty.host = host)
    /\ pc[r0] = "assignRP" => newRP[r0].host = reqHost[r0]
    /\ pc[r0] = "setHost" => relyingParty.host = reqHost[r0]
    /\ pc[r0] \in {"clearExpire", "checkATV", "setATV", "use"} => host = reqHost[r0]

LEMMA HostIInvInit ==
    ASSUME NEW r0, Reqs = {r0}
    PROVE  Init => HostIInv(r0)
  BY ConfigIInvInit, NoRPNotRP DEF HostIInv, Init

LEMMA HostIInvStep ==
    ASSUME NEW r0, Reqs = {r0}
    PROVE  HostIInv(r0) /\ [Next]_vars => HostIInv(r0)'
<1> SUFFICES ASSUME HostIInv(r0), [Next]_vars PROVE HostIInv(r0)'
  OBVIOUS
<1>0. ConfigIInv'
  BY ConfigIInvStep DEF HostIInv
<1> USE DEF HostIInv, ConfigIInv, TypeOK
<1>1. CASE ExpireConfig
  BY <1>0, <1>1 DEF ExpireConfig
<1>2. ASSUME NEW r \in Reqs, Handler(r) PROVE HostIInv(r0)'
  <2> r = r0
    OBVIOUS
  <2> USE DEF Goto
  <2>1. CASE Request(r)
    BY <1>0, <2>1 DEF Request
  <2>2. CASE ensureConfigCheck(r)
    BY <1>0, <2>2 DEF ensureConfigCheck, NeedsRelyingParty
  <2>3. CASE setRelyingPartyBuild(r)
    BY <1>0, <2>3 DEF setRelyingPartyBuild
  <2>4. CASE setRelyingPartyAssign(r)
    BY <1>0, <2>4 DEF setRelyingPartyAssign
  <2>5. CASE ensureConfigSetHost(r)
    BY <1>0, <2>5 DEF ensureConfigSetHost
  <2>6. CASE ensureConfigClearExpire(r)
    BY <1>0, <2>6 DEF ensureConfigClearExpire
  <2>7. CASE ensureConfigCheckATV(r)
    BY <1>0, <2>7 DEF ensureConfigCheckATV
  <2>8. CASE setAccessTokenVerifier(r)
    BY <1>0, <2>8 DEF setAccessTokenVerifier
  <2>9. CASE UseRelyingParty(r)
    BY <1>0, <2>9 DEF UseRelyingParty
  <2>10. QED
    BY <1>2, <2>1, <2>2, <2>3, <2>4, <2>5, <2>6, <2>7, <2>8, <2>9 DEF Handler
<1>3. CASE UNCHANGED vars
  BY <1>0, <1>3 DEF vars
<1>4. QED
  BY <1>1, <1>2, <1>3 DEF Next

\* When requests reach the Verifier one at a time (ExpireConfig may still be
\* called concurrently), the relying party Login, Callback and Auth use was
\* built for the Host header of their own request: ensureConfig's host
\* comparison is enough without concurrent handlers.
THEOREM SerialUsedRPMatchesHost ==
    ASSUME NEW r0, Reqs = {r0}
    PROVE  Spec => []UsedRPMatchesHost
<1>1. HostIInv(r0) => UsedRPMatchesHost
  BY NoRPNotRP DEF HostIInv, ConfigIInv, UsedRPMatchesHost, AfterAssign
<1>2. QED
  BY <1>1, HostIInvInit, HostIInvStep, PTL DEF Spec

=============================================================================

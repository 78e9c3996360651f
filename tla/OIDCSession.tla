----------------------------- MODULE OIDCSession -----------------------------
(***************************************************************************)
(* The browser session of the LXD UI (lxd/auth/oidc/oidc.go): Login,       *)
(* Callback, Logout and Auth with authenticateIDToken, getCookies,          *)
(* setCookies and secureCookieFromSession.  A browser holds a cookie jar   *)
(* and has several requests in flight; the server answers each with a      *)
(* response whose Set-Cookie headers the browser applies when it arrives,  *)
(* in any order.  The identity provider issues grants (an ID token and a   *)
(* refresh token), expires ID tokens, and answers a refresh either with a  *)
(* new refresh token, with the same one, or with none (RFC 6749 s. 6 lets  *)
(* it omit the field).                                                     *)
(*                                                                         *)
(* A token is the number of the grant that issued it, 0 is the empty       *)
(* string.  A session ID is the grant whose tokens were stored with it (a  *)
(* fresh uuid per setCookies).  Cookie encryption is abstracted to the     *)
(* cluster key generation the keys were derived from, and a tampered flag: *)
(* securecookie.Decode succeeds iff neither changed.  The ensureConfig     *)
(* prefix of the handlers is modelled in OIDCVerifier; here it only fails. *)
(***************************************************************************)
EXTENDS Naturals, FiniteSets

CONSTANTS
    Reqs,           \* requests of the browser that may be in flight at once
    MaxGrants,      \* bound on the grants the identity provider issues
    MaxLogins,      \* bound on the login flows the browser starts
    MaxKeyGen,      \* bound on cluster certificate renewals
    RefreshReplies  \* the refresh policies a provider may have

ASSUME OIDCSessionAssumption ==
    /\ Reqs # {}
    /\ MaxGrants \in Nat /\ MaxLogins \in Nat /\ MaxKeyGen \in Nat
    /\ RefreshReplies \subseteq {"rotate", "same", "omit"}

VARIABLES
    policy,     \* the provider's refresh policy, fixed for a behaviour
    jar,        \* the browser's cookies
    keyGen,     \* generation of the cluster private key
    issued,     \* grants issued so far by the provider
    expired,    \* grants whose ID token has expired
    spent,      \* refresh tokens the provider no longer accepts (rotated)
    logins,     \* login flows started (login_id values handed out)
    st,         \* st[r]: "idle", "sent" (at the server) or "answered"
    kind,       \* kind[r]: "auth", "login", "callback" or "logout"
    flow,       \* flow[r]: the login flow a callback comes back from
    sent,       \* sent[r]: the cookies request r carried
    update,     \* update[r]: the Set-Cookie headers of its response
    dropped     \* refresh tokens spent by a refresh whose result was dropped

vars == <<policy, jar, keyGen, issued, expired, spent, logins, st, kind, flow, sent,
          update, dropped>>
idpVars == <<policy, keyGen, issued, expired, spent, logins>>

Grants == 1..MaxGrants
Tok == 0..MaxGrants

\* The session_id, oidc_identity and oidc_refresh cookies (sid = 0: absent),
\* the key generation they were encrypted with, and the login_id cookie.
Jar == [sid : Tok, id : Tok, ref : Tok, key : 0..MaxKeyGen,
        tampered : BOOLEAN, login : 0..MaxLogins]

NoCookies == [sid |-> 0, id |-> 0, ref |-> 0, key |-> 0, tampered |-> FALSE,
              login |-> 0]

\* A response's Set-Cookie headers: the session cookies and the login_id
\* cookie are each kept, deleted (expired) or set to a value.
Session == [sid : Tok, id : Tok, ref : Tok, key : 0..MaxKeyGen]
Update == [sessionOp : {"keep", "delete", "set"}, session : Session,
           loginOp : {"keep", "delete", "set"}, login : 0..MaxLogins]

NoUpdate == [sessionOp |-> "keep", session |-> [sid |-> 0, id |-> 0, ref |-> 0,
             key |-> 0], loginOp |-> "keep", login |-> 0]
SetSession(v) == [NoUpdate EXCEPT !.sessionOp = "set", !.session = v]
DeleteSession == [NoUpdate EXCEPT !.sessionOp = "delete"]
SetLogin(l) == [NoUpdate EXCEPT !.loginOp = "set", !.login = l]

TypeOK ==
    /\ policy \in RefreshReplies
    /\ jar \in Jar
    /\ keyGen \in 0..MaxKeyGen
    /\ issued \in 0..MaxGrants
    /\ expired \subseteq Grants /\ spent \subseteq Grants
    /\ logins \in 0..MaxLogins
    /\ st \in [Reqs -> {"idle", "sent", "answered"}]
    /\ kind \in [Reqs -> {"auth", "login", "callback", "logout"}]
    /\ flow \in [Reqs -> 0..MaxLogins]
    /\ sent \in [Reqs -> Jar]
    /\ update \in [Reqs -> Update]
    /\ dropped \subseteq Grants

Init ==
    /\ policy \in RefreshReplies
    /\ jar = NoCookies
    /\ keyGen = 0
    /\ issued = 0
    /\ expired = {} /\ spent = {}
    /\ logins = 0
    /\ st = [r \in Reqs |-> "idle"]
    /\ kind = [r \in Reqs |-> "auth"]
    /\ flow = [r \in Reqs |-> 0]
    /\ sent = [r \in Reqs |-> NoCookies]
    /\ update = [r \in Reqs |-> NoUpdate]
    /\ dropped = {}

\* secureCookieFromSession: the cookie keys are derived by HKDF from the
\* current cluster private key, salted with the session ID; a session's keys
\* are identified by the generation of the cluster key they came from.
secureCookieFromSession == keyGen

\* Mutant: the refresh token cookie is not written.
setCookiesWithoutRefresh(g, idToken, refreshToken) ==
    [sid |-> g, id |-> idToken, ref |-> 0, key |-> secureCookieFromSession]

\* setCookies: the three session cookies, encrypted with the keys derived
\* from the current cluster key and the new session ID; or, to delete them,
\* the same cookies expired.
setCookies(g, idToken, refreshToken) ==
    [sid |-> g, id |-> idToken, ref |-> refreshToken,
     key |-> secureCookieFromSession]

\* getCookies with secureCookieFromSession: the cookies decrypt iff they were
\* encrypted with the keys of their own session under the current cluster
\* key and were not modified since.
CookiesDecrypt(c) == ~c.tampered /\ c.key = secureCookieFromSession

\* The jar after the browser applied the Set-Cookie headers u.
ApplyUpdate(c, u) ==
    LET s == CASE u.sessionOp = "keep"   -> c
               [] u.sessionOp = "delete" -> [c EXCEPT !.sid = 0, !.id = 0,
                                               !.ref = 0, !.tampered = FALSE]
               [] u.sessionOp = "set"    -> [c EXCEPT !.sid = u.session.sid,
                                               !.id = u.session.id,
                                               !.ref = u.session.ref,
                                               !.key = u.session.key,
                                               !.tampered = FALSE]
    IN  [s EXCEPT !.login = CASE u.loginOp = "keep"   -> @
                              [] u.loginOp = "delete" -> 0
                              [] u.loginOp = "set"    -> u.login]

Answer(r, u) ==
    /\ st' = [st EXCEPT ![r] = "answered"]
    /\ update' = [update EXCEPT ![r] = u]

\* The browser sends a request carrying the cookies of its jar; a callback
\* comes back from the provider for a login flow that was started.
Send(r) ==
    /\ st[r] = "idle"
    /\ \E k \in {"auth", "login", "callback", "logout"}, l \in 0..logins :
          /\ k = "callback" <=> l # 0
          /\ kind' = [kind EXCEPT ![r] = k]
          /\ flow' = [flow EXCEPT ![r] = l]
    /\ st' = [st EXCEPT ![r] = "sent"]
    /\ sent' = [sent EXCEPT ![r] = jar]
    /\ update' = [update EXCEPT ![r] = NoUpdate]
    /\ UNCHANGED <<jar, idpVars, dropped>>

\* Mutant: the refreshed session stores the refresh token that was sent
\* instead of tokens.RefreshToken.
authenticateIDTokenOldRefresh(r, c) ==
    \/ /\ c.id # 0 /\ c.id \notin expired
       /\ Answer(r, NoUpdate)
       /\ UNCHANGED <<issued, spent, dropped>>
    \/ /\ c.id = 0 \/ c.id \in expired
       /\ c.ref = 0 \/ c.ref \in spent
       /\ Answer(r, NoUpdate)
       /\ UNCHANGED <<issued, spent, dropped>>
    \/ /\ c.id = 0 \/ c.id \in expired
       /\ c.ref # 0 /\ c.ref \notin spent
       /\ issued < MaxGrants
       /\ LET g == issued + 1 IN
          /\ issued' = g
          /\ spent' = IF policy = "rotate" THEN spent \cup {c.ref} ELSE spent
          /\ \/ /\ Answer(r, SetSession(setCookies(g, g, c.ref)))
                /\ UNCHANGED dropped
             \/ /\ Answer(r, NoUpdate)
                /\ dropped' = dropped \cup {c.ref}

(***************************************************************************)
(* authenticateIDToken, for cookies c that decrypted: a valid ID token     *)
(* authenticates; otherwise the refresh token is sent to the provider.     *)
(* A refresh the provider refuses is an AuthError.  After a refresh the    *)
(* provider answered, the new ID token may be missing, malformed or fail   *)
(* to verify, and secureCookieFromSession or setCookies may fail: each is  *)
(* an AuthError that drops the new tokens.  Otherwise the response stores  *)
(* a new session with the new ID token and tokens.RefreshToken as given.   *)
(***************************************************************************)
authenticateIDToken(r, c) ==
    \/ /\ c.id # 0 /\ c.id \notin expired
       /\ Answer(r, NoUpdate)
       /\ UNCHANGED <<issued, spent, dropped>>
    \/ /\ c.id = 0 \/ c.id \in expired
       /\ c.ref = 0 \/ c.ref \in spent
       /\ Answer(r, NoUpdate)
       /\ UNCHANGED <<issued, spent, dropped>>
    \/ /\ c.id = 0 \/ c.id \in expired
       /\ c.ref # 0 /\ c.ref \notin spent
       /\ issued < MaxGrants
       /\ LET g == issued + 1
              newRef == CASE policy = "rotate" -> g
                          [] policy = "same"   -> c.ref
                          [] policy = "omit"   -> 0
          IN  /\ issued' = g
              /\ spent' = IF policy = "rotate" THEN spent \cup {c.ref} ELSE spent
              /\ \/ /\ Answer(r, SetSession(setCookies(g, g, newRef)))
                    /\ UNCHANGED dropped
                 \/ /\ Answer(r, NoUpdate)
                    /\ dropped' = dropped \cup {c.ref}

(***************************************************************************)
(* Auth: ensureConfig may fail; cookies that do not decrypt are deleted;  *)
(* a request without cookies is not authenticated (nil result); otherwise  *)
(* authenticateIDToken decides.                                            *)
(***************************************************************************)
Auth(r) ==
    /\ st[r] = "sent" /\ kind[r] = "auth"
    /\ LET c == sent[r] IN
       \/ /\ Answer(r, NoUpdate)
          /\ UNCHANGED <<issued, spent, dropped>>
       \/ /\ c.sid = 0
          /\ Answer(r, NoUpdate)
          /\ UNCHANGED <<issued, spent, dropped>>
       \/ /\ c.sid # 0 /\ ~CookiesDecrypt(c)
          /\ Answer(r, DeleteSession)
          /\ UNCHANGED <<issued, spent, dropped>>
       \/ /\ c.sid # 0 /\ CookiesDecrypt(c)
          /\ authenticateIDToken(r, c)
    /\ UNCHANGED <<policy, jar, keyGen, expired, logins, kind, flow, sent>>

(***************************************************************************)
(* Login: after ensureConfig, a fresh login_id cookie is set on the        *)
(* response; AuthURLHandler's state and PKCE cookies are encrypted with    *)
(* keys derived from it, so the login cookie stands for all three.         *)
(***************************************************************************)
Login(r) ==
    /\ st[r] = "sent" /\ kind[r] = "login"
    /\ \/ /\ Answer(r, NoUpdate)
          /\ UNCHANGED logins
       \/ /\ logins < MaxLogins
          /\ logins' = logins + 1
          /\ Answer(r, SetLogin(logins + 1))
    /\ UNCHANGED <<policy, jar, keyGen, issued, expired, spent, kind, flow, sent,
                   dropped>>

(***************************************************************************)
(* Callback: ensureConfig, then CodeExchangeHandler, which checks the      *)
(* state cookie (decrypted with the keys of the login_id cookie) against   *)
(* the flow the provider redirected back, and exchanges the code.  On      *)
(* success a new session is stored and login_id is deleted; a failure of   *)
(* secureCookieFromSession or setCookies answers 500 and sets nothing.     *)
(***************************************************************************)
Callback(r) ==
    /\ st[r] = "sent" /\ kind[r] = "callback"
    /\ \/ /\ Answer(r, NoUpdate)
          /\ UNCHANGED issued
       \/ /\ sent[r].login = flow[r]
          /\ issued < MaxGrants
          /\ issued' = issued + 1
          /\ \/ Answer(r, [SetSession(setCookies(issued + 1, issued + 1,
                                                 issued + 1))
                              EXCEPT !.loginOp = "delete"])
             \/ Answer(r, NoUpdate)
    /\ UNCHANGED <<policy, jar, keyGen, expired, spent, logins, kind, flow, sent,
                   dropped>>

\* Logout deletes the session cookies (setCookies with deleteCookies set,
\* which cannot fail) and redirects to the login page.
Logout(r) ==
    /\ st[r] = "sent" /\ kind[r] = "logout"
    /\ Answer(r, DeleteSession)
    /\ UNCHANGED <<jar, idpVars, kind, flow, sent, dropped>>

\* The browser applies the Set-Cookie headers of a response when it arrives.
Deliver(r) ==
    /\ st[r] = "answered"
    /\ jar' = ApplyUpdate(jar, update[r])
    /\ st' = [st EXCEPT ![r] = "idle"]
    /\ UNCHANGED <<idpVars, kind, flow, sent, update, dropped>>

\* The provider's ID token of a grant expires.
ExpireIDToken ==
    /\ \E g \in (1..issued) \ expired : expired' = expired \cup {g}
    /\ UNCHANGED <<policy, jar, keyGen, issued, spent, logins, st, kind, flow, sent,
                   update, dropped>>

\* The cluster certificate is renewed: secureCookieFromSession derives other
\* keys from then on.
RenewClusterCertificate ==
    /\ keyGen < MaxKeyGen
    /\ keyGen' = keyGen + 1
    /\ UNCHANGED <<policy, jar, issued, expired, spent, logins, st, kind, flow, sent,
                   update, dropped>>

\* Someone modifies the session cookies stored in the browser.
TamperCookies ==
    /\ jar.sid # 0 /\ ~jar.tampered
    /\ jar' = [jar EXCEPT !.tampered = TRUE]
    /\ UNCHANGED <<idpVars, st, kind, flow, sent, update, dropped>>

Next ==
    \/ ExpireIDToken \/ RenewClusterCertificate \/ TamperCookies
    \/ \E r \in Reqs :
          Send(r) \/ Auth(r) \/ Login(r) \/ Callback(r) \/ Logout(r) \/ Deliver(r)

Spec == Init /\ [][Next]_vars

-----------------------------------------------------------------------------

\* No request of the browser is in flight.
Quiescent == \A r \in Reqs : st[r] = "idle"

\* The session in the jar still authenticates: its ID token is valid or its
\* refresh token is one the provider accepts.
SessionUsable ==
    \/ jar.id # 0 /\ jar.id \notin expired
    \/ jar.ref # 0 /\ jar.ref \notin spent

(***************************************************************************)
(* Once every response has arrived, a browser whose session cookies still *)
(* decrypt holds a session that authenticates, unless its refresh token   *)
(* was spent by a refresh whose new tokens an error then dropped: the      *)
(* refreshes of authenticateIDToken, run by concurrent requests and        *)
(* answered in any order, never leave the browser logged out.              *)
(***************************************************************************)
SessionSurvivesRefresh ==
    Quiescent /\ jar.sid # 0 /\ CookiesDecrypt(jar) /\ jar.ref \notin dropped
        => SessionUsable

(***************************************************************************)
(* A response the browser applies never stores a refresh token that the   *)
(* provider has already revoked: however the refreshes that concurrent     *)
(* requests run in authenticateIDToken interleave, and however late their  *)
(* Set-Cookie answers arrive, the session a response sets carries a token  *)
(* the provider still accepts when the browser stores it.                  *)
(***************************************************************************)
NoRevokedRefreshStored ==
    [][\A r \in Reqs :
          st[r] = "answered" /\ st'[r] = "idle" /\ update[r].sessionOp = "set"
              => update[r].session.ref \notin spent]_vars

=============================================================================

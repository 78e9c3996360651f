--------------------------- MODULE OIDCSessionProofs ---------------------------
(***************************************************************************)
(* Proofs about the browser session of the LXD UI (OIDCSession), for every *)
(* set of concurrent requests and every bound on grants, login flows and  *)
(* cluster key renewals.                                                  *)
(***************************************************************************)
EXTENDS OIDCSession, TLAPS

USE OIDCSessionAssumption

-----------------------------------------------------------------------------
(* What the browser does with a response's Set-Cookie headers.             *)

\* ApplyUpdate keeps a jar a jar.
LEMMA ApplyUpdateType ==
    ASSUME NEW c \in Jar, NEW u \in Update
    PROVE  ApplyUpdate(c, u) \in Jar
<1> DEFINE s == CASE u.sessionOp = "keep"   -> c
                  [] u.sessionOp = "delete" -> [c EXCEPT !.sid = 0, !.id = 0,
                                                  !.ref = 0, !.tampered = FALSE]
                  [] u.sessionOp = "set"    -> [c EXCEPT !.sid = u.session.sid,
                                                  !.id = u.session.id,
                                                  !.ref = u.session.ref,
                                                  !.key = u.session.key,
                                                  !.tampered = FALSE]
<1>1. 0 \in Tok /\ 0 \in 0..MaxLogins
  BY DEF Tok
<1>2. s \in Jar
  <2>1. CASE u.sessionOp = "keep"
    BY <2>1
  <2>2. CASE u.sessionOp = "delete"
    BY <1>1, <2>2 DEF Jar
  <2>3. CASE u.sessionOp = "set"
    BY <2>3 DEF Jar, Update, Session
  <2>4. QED
    BY <2>1, <2>2, <2>3 DEF Update
<1>3. [s EXCEPT !.login = CASE u.loginOp = "keep"   -> @
                           [] u.loginOp = "delete" -> 0
                           [] u.loginOp = "set"    -> u.login] \in Jar
  BY <1>1, <1>2 DEF Jar, Update
<1>4. QED
  BY <1>3 DEF ApplyUpdate

\* The session cookies after ApplyUpdate: set to the response's session,
\* deleted, or kept.
LEMMA ApplyUpdateSession ==
    ASSUME NEW c \in Jar, NEW u \in Update
    PROVE  /\ u.sessionOp = "set" =>
                 ApplyUpdate(c, u).sid = u.session.sid
                 /\ ApplyUpdate(c, u).ref = u.session.ref
           /\ u.sessionOp = "delete" =>
                 ApplyUpdate(c, u).sid = 0 /\ ApplyUpdate(c, u).ref = 0
           /\ u.sessionOp = "keep" =>
                 ApplyUpdate(c, u).sid = c.sid /\ ApplyUpdate(c, u).ref = c.ref
  BY DEF ApplyUpdate, Jar, Update, Session

\* The Set-Cookie headers a handler answers with are updates.
LEMMA NoUpdateType == NoUpdate \in Update /\ DeleteSession \in Update
<1>1. 0 \in Tok /\ 0 \in 0..MaxKeyGen /\ 0 \in 0..MaxLogins
  BY DEF Tok
<1>2. NoUpdate \in Update
  BY <1>1 DEF NoUpdate, Update, Session
<1>3. DeleteSession \in Update
  BY <1>2 DEF DeleteSession, Update
<1>4. QED
  BY <1>2, <1>3

LEMMA SetLoginType ==
    ASSUME NEW l \in 0..MaxLogins PROVE SetLogin(l) \in Update
  BY NoUpdateType DEF SetLogin, Update

LEMMA SetSessionType ==
    ASSUME NEW v \in Session
    PROVE  /\ SetSession(v) \in Update
           /\ [SetSession(v) EXCEPT !.loginOp = "delete"] \in Update
  BY NoUpdateType DEF SetSession, Update

\* setCookies encrypts a session of tokens with the current key.
LEMMA SetCookiesType ==
    ASSUME NEW g \in Tok, NEW i \in Tok, NEW f \in Tok, keyGen \in 0..MaxKeyGen
    PROVE  setCookies(g, i, f) \in Session
  BY DEF setCookies, secureCookieFromSession, Session

-----------------------------------------------------------------------------
(* Type correctness.                                                       *)

LEMMA TypeInit == Init => TypeOK
<1>1. 0 \in Tok /\ 0 \in 0..MaxKeyGen /\ 0 \in 0..MaxLogins
  BY DEF Tok
<1>2. QED
  BY <1>1, NoUpdateType DEF Init, TypeOK, NoCookies, Jar

LEMMA TypeStep == TypeOK /\ [Next]_vars => TypeOK'
<1> SUFFICES ASSUME TypeOK, [Next]_vars PROVE TypeOK'
  OBVIOUS
<1> USE DEF TypeOK
<1>1. CASE ExpireIDToken
  BY <1>1 DEF ExpireIDToken, Grants
<1>2. CASE RenewClusterCertificate
  BY <1>2 DEF RenewClusterCertificate
<1>3. CASE TamperCookies
  BY <1>3 DEF TamperCookies, Jar, idpVars
<1>4. ASSUME NEW r \in Reqs, Send(r) PROVE TypeOK'
  BY <1>4, NoUpdateType DEF Send, idpVars
<1>5. ASSUME NEW r \in Reqs, Auth(r) PROVE TypeOK'
  <2> DEFINE c == sent[r]
             g == issued + 1
             newRef == CASE policy = "rotate" -> g
                         [] policy = "same"   -> c.ref
                         [] policy = "omit"   -> 0
  <2>0. UNCHANGED <<policy, jar, keyGen, expired, logins, kind, flow, sent>>
    BY <1>5 DEF Auth
  <2>1. c \in Jar /\ c.ref \in Tok
    BY DEF Jar
  <2>2. ASSUME NEW u \in Update, Answer(r, u)
        PROVE  st' \in [Reqs -> {"idle", "sent", "answered"}] /\ update' \in [Reqs -> Update]
    BY <2>2 DEF Answer
  <2>3. CASE (Answer(r, NoUpdate) \/ Answer(r, DeleteSession))
             /\ UNCHANGED <<issued, spent, dropped>>
    BY <2>0, <2>2, <2>3, NoUpdateType
  <2>4. CASE /\ c.ref # 0
             /\ issued < MaxGrants
             /\ issued' = g
             /\ spent' = IF policy = "rotate" THEN spent \cup {c.ref} ELSE spent
             /\ \/ Answer(r, SetSession(setCookies(g, g, newRef))) /\ UNCHANGED dropped
                \/ Answer(r, NoUpdate) /\ dropped' = dropped \cup {c.ref}
    <3>1. g \in Tok /\ c.ref \in Grants
      BY <2>1, <2>4 DEF Tok, Grants
    <3>2. newRef \in Tok
      BY <2>1, <3>1 DEF Tok
    <3>3. SetSession(setCookies(g, g, newRef)) \in Update
      BY <3>1, <3>2, SetCookiesType, SetSessionType
    <3>4. issued' \in 0..MaxGrants /\ spent' \subseteq Grants /\ dropped' \subseteq Grants
      BY <2>4, <3>1 DEF Tok
    <3>5. QED
      BY <2>0, <2>2, <2>4, <3>3, <3>4, NoUpdateType
  <2>5. QED
    BY <1>5, <2>3, <2>4 DEF Auth, authenticateIDToken
<1>6. ASSUME NEW r \in Reqs, Login(r) PROVE TypeOK'
  BY <1>6, NoUpdateType, SetLoginType DEF Login, Answer
<1>7. ASSUME NEW r \in Reqs, Callback(r) PROVE TypeOK'
  <2> DEFINE g == issued + 1
  <2>1. CASE Answer(r, NoUpdate) /\ UNCHANGED issued
    BY <1>7, <2>1, NoUpdateType DEF Callback, Answer
  <2>2. CASE /\ issued < MaxGrants /\ issued' = g
             /\ \/ Answer(r, [SetSession(setCookies(g, g, g)) EXCEPT !.loginOp = "delete"])
                \/ Answer(r, NoUpdate)
    <3>1. g \in Tok
      BY <2>2 DEF Tok
    <3>2. [SetSession(setCookies(g, g, g)) EXCEPT !.loginOp = "delete"] \in Update
      BY <3>1, SetCookiesType, SetSessionType
    <3>3. QED
      BY <1>7, <2>2, <3>1, <3>2, NoUpdateType DEF Callback, Answer, Tok
  <2>3. QED
    BY <1>7, <2>1, <2>2 DEF Callback
<1>8. ASSUME NEW r \in Reqs, Logout(r) PROVE TypeOK'
  BY <1>8, NoUpdateType DEF Logout, Answer, idpVars
<1>9. ASSUME NEW r \in Reqs, Deliver(r) PROVE TypeOK'
  BY <1>9, ApplyUpdateType DEF Deliver, idpVars
<1>10. CASE UNCHANGED vars
  BY <1>10 DEF vars
<1>11. QED
  BY <1>1, <1>2, <1>3, <1>4, <1>5, <1>6, <1>7, <1>8, <1>9, <1>10 DEF Next

\* The browser's jar, the provider's grants and the responses in flight stay
\* in their types.
THEOREM TypeCorrect == Spec => []TypeOK
  BY TypeInit, TypeStep, PTL DEF Spec

-----------------------------------------------------------------------------
(* Refreshes never log the browser out.                                    *)

\* The provider answers a refresh with a new refresh token or with the same
\* one; SessionSurvivesRefresh fails for a provider that omits it.
NoOmit == RefreshReplies \subseteq {"rotate", "same"}

\* The requests whose response, not yet applied, sets a new session.
Pending == {r \in Reqs : st[r] = "answered" /\ update[r].sessionOp = "set"}

\* With rotation: the provider has issued every token the browser or a
\* response holds; a response that sets a session carries a fresh refresh
\* token, which no other response carries, which is not in the jar or in a
\* request at the server, and so has not been spent.  A spent token in the
\* jar was dropped, or a response in flight will replace it.
RotateIInv ==
    /\ spent \subseteq 1..issued
    /\ jar.ref <= issued
    /\ \A r \in Reqs : sent[r].ref <= issued /\ update[r].session.ref <= issued
    /\ \A r \in Pending : update[r].session.ref \notin spent
    /\ \A r \in Pending : jar.ref # update[r].session.ref
    /\ \A r \in Pending, q \in Reqs :
          st[q] = "sent" => sent[q].ref # update[r].session.ref
    /\ \A r, q \in Pending : r # q => update[r].session.ref # update[q].session.ref
    /\ jar.sid # 0 /\ jar.ref \in spent => jar.ref \in dropped \/ Pending # {}

\* The strengthening of SessionSurvivesRefresh: every session the jar holds
\* or a response sets has a refresh token; a provider that repeats refresh
\* tokens spends none; RotateIInv for one that rotates them.
SessionIInv ==
    /\ TypeOK
    /\ jar.sid # 0 => jar.ref # 0
    /\ \A r \in Pending : update[r].session.ref # 0
    /\ policy = "same" => spent = {}
    /\ policy = "rotate" => RotateIInv

LEMMA SessionIInvInit == NoOmit /\ Init => SessionIInv
  BY TypeInit DEF SessionIInv, RotateIInv, Pending, Init, NoCookies, NoUpdate

\* A step that changes neither the session cookies in the jar, nor the
\* provider's grants, nor the requests keeps the invariant.
LEMMA SessionFrame ==
    ASSUME SessionIInv, TypeOK',
           jar'.sid = jar.sid, jar'.ref = jar.ref,
           UNCHANGED <<policy, issued, spent, dropped, st, sent, update>>
    PROVE  SessionIInv'
<1>1. Pending' = Pending
  BY DEF Pending
<1>2. QED
  BY <1>1 DEF SessionIInv, RotateIInv

\* A handler that answers request r without setting a session keeps the
\* invariant, even when the provider issued a grant meanwhile: no new
\* response sets a session, and r is no longer at the server.
LEMMA AnswerNoSession ==
    ASSUME SessionIInv, TypeOK', NEW r \in Reqs, st[r] = "sent",
           NEW u \in Update, u.sessionOp # "set", u.session.ref = 0,
           Answer(r, u), issued <= issued',
           UNCHANGED <<policy, jar, spent, dropped, sent>>
    PROVE  SessionIInv'
<1>1. Pending' = Pending
  BY DEF Pending, Answer, SessionIInv, TypeOK
<1>2. \A q \in Reqs : st'[q] = "sent" => st[q] = "sent"
  BY DEF Answer, SessionIInv, TypeOK
<1>3. \A q \in Pending : update'[q] = update[q]
  BY DEF Answer, Pending, SessionIInv, TypeOK
<1>4. policy = "rotate" => RotateIInv'
  <2> SUFFICES ASSUME policy = "rotate" PROVE RotateIInv'
    OBVIOUS
  <2>1. issued \in Nat /\ issued' \in Nat
    BY DEF SessionIInv, TypeOK
  <2>2. \A q \in Reqs : update'[q].session.ref <= issued'
    <3> TAKE q \in Reqs
    <3>1. CASE q = r
      BY <2>1, <3>1 DEF Answer, SessionIInv, TypeOK
    <3>2. CASE q # r
      <4>1. update'[q] = update[q]
        BY <3>2 DEF Answer, SessionIInv, TypeOK
      <4>2. update[q].session.ref \in Nat /\ update[q].session.ref <= issued
        BY DEF SessionIInv, TypeOK, RotateIInv, Update, Session, Tok
      <4>3. QED
        BY <2>1, <4>1, <4>2
    <3>3. QED
      BY <3>1, <3>2
  <2>3. /\ spent' \subseteq 1..issued' /\ jar'.ref <= issued'
        /\ \A q \in Reqs : sent'[q].ref <= issued'
    BY <2>1 DEF SessionIInv, RotateIInv, TypeOK, Jar, Tok
  <2>4. QED
    BY <1>1, <1>2, <1>3, <2>2, <2>3 DEF SessionIInv, RotateIInv
<1>5. QED
  BY <1>1, <1>3, <1>4 DEF SessionIInv

\* A handler that answers request r with a new session keeps the invariant:
\* the session's refresh token is not 0 and, with rotation, it is the new
\* grant's; the provider spends at most the token r carried.
LEMMA NewSession ==
    ASSUME SessionIInv, TypeOK', NEW r \in Reqs, st[r] = "sent",
           NEW u \in Update, u.sessionOp = "set", u.session.ref # 0,
           issued' = issued + 1,
           policy = "rotate" => u.session.ref = issued',
           \/ spent' = spent
           \/ policy = "rotate" /\ sent[r].ref # 0
              /\ spent' = spent \cup {sent[r].ref},
           Answer(r, u),
           UNCHANGED <<policy, jar, dropped, sent>>
    PROVE  SessionIInv'
<1>1. Pending' = Pending \cup {r}
  BY DEF Pending, Answer, SessionIInv, TypeOK
<1>2. \A q \in Pending : update'[q] = update[q] /\ q # r
  BY DEF Answer, Pending, SessionIInv, TypeOK
<1>3. update'[r] = u
  BY DEF Answer, SessionIInv, TypeOK
<1>4. policy = "rotate" => RotateIInv'
  <2> SUFFICES ASSUME policy = "rotate" PROVE RotateIInv'
    OBVIOUS
  <2> USE DEF SessionIInv
  <2>1. /\ issued \in Nat /\ jar.ref \in Nat /\ sent[r].ref \in Nat
        /\ \A q \in Reqs : sent[q].ref \in Nat /\ update[q].session.ref \in Nat
    BY DEF TypeOK, Jar, Update, Session, Tok
  <2>2. spent' \subseteq 1..issued'
    BY <2>1 DEF RotateIInv
  <2>3. \A q \in Reqs : sent'[q].ref <= issued' /\ update'[q].session.ref <= issued'
    BY <1>3, <2>1 DEF RotateIInv, Answer, TypeOK
  <2>4. \A p \in Pending' : update'[p].session.ref \notin spent'
    <3>1. \A p \in Pending : update[p].session.ref # sent[r].ref
      BY DEF RotateIInv
    <3>2. issued' \notin spent /\ issued' # sent[r].ref
      BY <2>1 DEF RotateIInv
    <3>3. QED
      BY <1>1, <1>2, <1>3, <3>1, <3>2 DEF RotateIInv
  <2>5. \A p \in Pending' : jar'.ref # update'[p].session.ref
    BY <1>1, <1>2, <1>3, <2>1 DEF RotateIInv
  <2>6. \A p \in Pending', q \in Reqs :
           st'[q] = "sent" => sent'[q].ref # update'[p].session.ref
    BY <1>1, <1>2, <1>3, <2>1 DEF RotateIInv, Answer, TypeOK
  <2>7. \A p, q \in Pending' :
           p # q => update'[p].session.ref # update'[q].session.ref
    <3> TAKE p, q \in Pending'
    <3>1. \A x \in Pending : update'[x].session.ref # issued'
      BY <1>2, <2>1 DEF RotateIInv, Pending
    <3>2. CASE p \in Pending /\ q \in Pending
      BY <1>2, <3>2 DEF RotateIInv
    <3>3. CASE p = r \/ q = r
      BY <1>1, <1>3, <3>1, <3>3
    <3>4. QED
      BY <1>1, <3>2, <3>3
  <2>8. jar'.ref <= issued' /\ r \in Pending'
    BY <1>1, <2>1 DEF RotateIInv
  <2>9. QED
    BY <2>2, <2>3, <2>4, <2>5, <2>6, <2>7, <2>8 DEF RotateIInv
<1>5. QED
  BY <1>1, <1>2, <1>3, <1>4 DEF SessionIInv

\* A refresh whose new tokens an error dropped keeps the invariant: the
\* token it spent is recorded as dropped.
LEMMA RefreshDropped ==
    ASSUME SessionIInv, TypeOK', NEW r \in Reqs, st[r] = "sent",
           sent[r].ref # 0, issued' = issued + 1,
           spent' = IF policy = "rotate" THEN spent \cup {sent[r].ref} ELSE spent,
           dropped' = dropped \cup {sent[r].ref},
           Answer(r, NoUpdate),
           UNCHANGED <<policy, jar, sent>>
    PROVE  SessionIInv'
<1>1. Pending' = Pending
  BY DEF Pending, Answer, SessionIInv, TypeOK, NoUpdate
<1>2. \A q \in Pending : update'[q] = update[q]
  BY DEF Answer, Pending, SessionIInv, TypeOK
<1>3. policy = "rotate" => RotateIInv'
  <2> SUFFICES ASSUME policy = "rotate" PROVE RotateIInv'
    OBVIOUS
  <2> USE DEF SessionIInv
  <2>1. /\ issued \in Nat /\ jar.ref \in Nat /\ sent[r].ref \in Nat
        /\ \A q \in Reqs : sent[q].ref \in Nat /\ update[q].session.ref \in Nat
    BY DEF TypeOK, Jar, Update, Session, Tok
  <2>2. spent' \subseteq 1..issued'
    BY <2>1 DEF RotateIInv
  <2>3. \A q \in Reqs : sent'[q].ref <= issued' /\ update'[q].session.ref <= issued'
    BY <2>1 DEF RotateIInv, Answer, TypeOK, NoUpdate
  <2>4. \A p \in Pending' : update'[p].session.ref \notin spent'
    BY <1>1, <1>2 DEF RotateIInv
  <2>5. \A p \in Pending', q \in Reqs :
           st'[q] = "sent" => sent'[q].ref # update'[p].session.ref
    BY <1>1, <1>2 DEF RotateIInv, Answer, TypeOK
  <2>6. jar'.sid # 0 /\ jar'.ref \in spent' => jar'.ref \in dropped' \/ Pending' # {}
    BY <1>1 DEF RotateIInv
  <2>7. jar'.ref <= issued' /\ \A p \in Pending' : jar'.ref # update'[p].session.ref
    BY <1>1, <1>2, <2>1 DEF RotateIInv
  <2>8. \A p, q \in Pending' :
           p # q => update'[p].session.ref # update'[q].session.ref
    BY <1>1, <1>2 DEF RotateIInv
  <2>9. QED
    BY <2>2, <2>3, <2>4, <2>5, <2>6, <2>7, <2>8 DEF RotateIInv
<1>4. QED
  BY <1>1, <1>2, <1>3 DEF SessionIInv

\* The browser applies a response: a new session takes a fresh token, which
\* no other pending response carries and the provider has not spent.
LEMMA DeliverSession ==
    ASSUME SessionIInv, TypeOK', NEW r \in Reqs, Deliver(r)
    PROVE  SessionIInv'
<1> DEFINE u == update[r]
<1> USE DEF SessionIInv
<1>1. u \in Update /\ jar \in Jar
  BY DEF TypeOK
<1>2. Pending' = Pending \ {r}
  BY DEF Pending, Deliver, TypeOK
<1>3. \A q \in Reqs : st'[q] = "sent" => st[q] = "sent"
  BY DEF Deliver, TypeOK
<1>4. UNCHANGED <<policy, issued, spent, dropped, sent, update>>
  BY DEF Deliver, idpVars
<1>5. CASE u.sessionOp = "set"
  <2>1. jar'.sid = u.session.sid /\ jar'.ref = u.session.ref /\ r \in Pending
    BY <1>1, <1>5, ApplyUpdateSession DEF Deliver, Pending
  <2>2. jar'.ref # 0
    BY <2>1
  <2>3. policy = "rotate" => RotateIInv'
    <3> SUFFICES ASSUME policy = "rotate" PROVE RotateIInv'
      OBVIOUS
    <3>1. jar'.ref <= issued /\ jar'.ref \notin spent
      BY <2>1 DEF RotateIInv
    <3>2. \A p \in Pending' : jar'.ref # update'[p].session.ref
      BY <1>2, <1>4, <2>1 DEF RotateIInv
    <3>3. QED
      BY <1>2, <1>3, <1>4, <3>1, <3>2 DEF RotateIInv
  <2>4. QED
    BY <1>2, <1>4, <2>2, <2>3
<1>6. CASE u.sessionOp = "delete"
  <2>1. jar'.sid = 0 /\ jar'.ref = 0 /\ r \notin Pending
    BY <1>1, <1>6, ApplyUpdateSession DEF Deliver, Pending
  <2>2. policy = "rotate" => RotateIInv'
    <3> SUFFICES ASSUME policy = "rotate" PROVE RotateIInv'
      OBVIOUS
    <3>1. issued \in Nat
      BY DEF TypeOK
    <3>2. \A p \in Pending' : jar'.ref # update'[p].session.ref
      BY <1>2, <1>4, <2>1
    <3>3. QED
      BY <1>2, <1>3, <1>4, <2>1, <3>1, <3>2 DEF RotateIInv
  <2>3. QED
    BY <1>2, <1>4, <2>1, <2>2
<1>7. CASE u.sessionOp = "keep"
  <2>1. jar'.sid = jar.sid /\ jar'.ref = jar.ref /\ r \notin Pending
    BY <1>1, <1>7, ApplyUpdateSession DEF Deliver, Pending
  <2>2. Pending' = Pending
    BY <1>2, <2>1
  <2>3. policy = "rotate" => RotateIInv'
    BY <1>3, <1>4, <2>1, <2>2 DEF RotateIInv
  <2>4. QED
    BY <1>4, <2>1, <2>2, <2>3
<1>8. QED
  BY <1>1, <1>5, <1>6, <1>7 DEF Update

\* The browser sends a request with the cookies of its jar: the request at
\* the server carries no token a pending response sets.
LEMMA SendSession ==
    ASSUME SessionIInv, TypeOK', NEW r \in Reqs, Send(r)
    PROVE  SessionIInv'
<1>1. Pending' = Pending
  BY DEF Pending, Send, SessionIInv, TypeOK
<1>2. \A q \in Pending : update'[q] = update[q]
  BY DEF Send, Pending
<1>3. policy = "rotate" => RotateIInv'
  <2> SUFFICES ASSUME policy = "rotate" PROVE RotateIInv'
    OBVIOUS
  <2>1. \A q \in Reqs : sent'[q].ref <= issued' /\ update'[q].session.ref <= issued'
    BY DEF Send, SessionIInv, RotateIInv, TypeOK, NoUpdate, idpVars
  <2>2. \A p \in Pending', q \in Reqs :
           st'[q] = "sent" => sent'[q].ref # update'[p].session.ref
    BY <1>1, <1>2 DEF Send, SessionIInv, RotateIInv, TypeOK
  <2>3. QED
    BY <1>1, <1>2, <2>1, <2>2 DEF Send, SessionIInv, RotateIInv, idpVars
<1>4. QED
  BY <1>1, <1>2, <1>3 DEF Send, SessionIInv, idpVars


\* The Set-Cookie headers of a response that sets no session.
LEMMA NoSessionUpdates ==
    /\ NoUpdate \in Update /\ NoUpdate.sessionOp # "set" /\ NoUpdate.session.ref = 0
    /\ DeleteSession \in Update /\ DeleteSession.sessionOp # "set"
    /\ DeleteSession.session.ref = 0
  BY NoUpdateType DEF NoUpdate, DeleteSession

\* Auth: a refresh the provider answered stores a session with a refresh
\* token the browser holds nowhere else, or its tokens are dropped.
LEMMA AuthSession ==
    ASSUME NoOmit, SessionIInv, TypeOK', NEW r \in Reqs, Auth(r)
    PROVE  SessionIInv'
<1> DEFINE c == sent[r]
           g == issued + 1
           newRef == CASE policy = "rotate" -> g
                       [] policy = "same"   -> c.ref
                       [] policy = "omit"   -> 0
<1>1. st[r] = "sent" /\ UNCHANGED <<policy, jar, sent>>
  BY DEF Auth
<1>2. ASSUME NEW u \in Update, u.sessionOp # "set", u.session.ref = 0, Answer(r, u),
             UNCHANGED <<issued, spent, dropped>>
      PROVE  SessionIInv'
  BY <1>1, <1>2, AnswerNoSession DEF SessionIInv, TypeOK
<1>3. ASSUME c.ref # 0, issued < MaxGrants, issued' = g,
             spent' = IF policy = "rotate" THEN spent \cup {c.ref} ELSE spent,
             \/ Answer(r, SetSession(setCookies(g, g, newRef))) /\ UNCHANGED dropped
             \/ Answer(r, NoUpdate) /\ dropped' = dropped \cup {c.ref}
      PROVE  SessionIInv'
  <2>1. policy \in {"rotate", "same"} /\ issued \in 0..MaxGrants /\ c \in Jar
        /\ keyGen \in 0..MaxKeyGen
    BY DEF NoOmit, SessionIInv, TypeOK
  <2>2. g \in Tok /\ newRef \in Tok /\ newRef # 0 /\ (policy = "rotate" => newRef = g)
    BY <1>3, <2>1 DEF Tok, Jar
  <2>3. setCookies(g, g, newRef) \in Session
    BY <2>1, <2>2, SetCookiesType
  <2>4. /\ SetSession(setCookies(g, g, newRef)) \in Update
        /\ SetSession(setCookies(g, g, newRef)).sessionOp = "set"
        /\ SetSession(setCookies(g, g, newRef)).session.ref = newRef
    BY <2>3, SetSessionType DEF SetSession, NoUpdate, setCookies
  <2>5. CASE Answer(r, SetSession(setCookies(g, g, newRef))) /\ UNCHANGED dropped
    BY <1>1, <1>3, <2>2, <2>4, <2>5, NewSession
  <2>6. CASE Answer(r, NoUpdate) /\ dropped' = dropped \cup {c.ref}
    BY <1>1, <1>3, <2>6, RefreshDropped
  <2>7. QED
    BY <1>3, <2>5, <2>6
<1>4. QED
  BY <1>2, <1>3, NoSessionUpdates DEF Auth, authenticateIDToken

\* Login sets only the login_id cookie.
LEMMA LoginSession ==
    ASSUME SessionIInv, TypeOK', NEW r \in Reqs, Login(r)
    PROVE  SessionIInv'
<1>1. st[r] = "sent" /\ UNCHANGED <<policy, jar, issued, spent, dropped, sent>>
  BY DEF Login
<1>2. CASE Answer(r, NoUpdate)
  BY <1>1, <1>2, NoSessionUpdates, AnswerNoSession DEF SessionIInv, TypeOK
<1>3. CASE logins < MaxLogins /\ Answer(r, SetLogin(logins + 1))
  <2>1. logins + 1 \in 0..MaxLogins
    BY <1>3 DEF SessionIInv, TypeOK
  <2>2. SetLogin(logins + 1) \in Update /\ SetLogin(logins + 1).sessionOp # "set"
        /\ SetLogin(logins + 1).session.ref = 0
    BY <2>1, SetLoginType DEF SetLogin, NoUpdate
  <2>3. QED
    BY <1>1, <1>3, <2>2, AnswerNoSession DEF SessionIInv, TypeOK
<1>4. QED
  BY <1>2, <1>3 DEF Login

\* Callback stores a session for a new grant, whose refresh token is new.
LEMMA CallbackSession ==
    ASSUME SessionIInv, TypeOK', NEW r \in Reqs, Callback(r)
    PROVE  SessionIInv'
<1> DEFINE g == issued + 1
           u == [SetSession(setCookies(g, g, g)) EXCEPT !.loginOp = "delete"]
<1>1. st[r] = "sent" /\ UNCHANGED <<policy, jar, spent, dropped, sent>>
  BY DEF Callback
<1>2. issued \in Nat /\ issued' \in Nat
  BY DEF SessionIInv, TypeOK
<1>3. CASE Answer(r, NoUpdate) /\ issued' \in {issued, g}
  BY <1>1, <1>2, <1>3, NoSessionUpdates, AnswerNoSession DEF SessionIInv, TypeOK
<1>4. CASE issued < MaxGrants /\ issued' = g /\ Answer(r, u)
  <2>1. g \in Tok /\ keyGen \in 0..MaxKeyGen
    BY <1>2, <1>4 DEF Tok, SessionIInv, TypeOK
  <2>2. setCookies(g, g, g) \in Session
    BY <2>1, SetCookiesType
  <2>3. u \in Update
    BY <2>2, SetSessionType
  <2>4. u.sessionOp = "set" /\ u.session.ref = g /\ g # 0
    BY <1>2, <2>3 DEF SetSession, NoUpdate, setCookies
  <2>5. QED
    BY <1>1, <1>4, <2>3, <2>4, NewSession
<1>5. QED
  BY <1>3, <1>4 DEF Callback

\* Logout deletes the session cookies.
LEMMA LogoutSession ==
    ASSUME SessionIInv, TypeOK', NEW r \in Reqs, Logout(r)
    PROVE  SessionIInv'
  BY NoSessionUpdates, AnswerNoSession DEF Logout, idpVars, SessionIInv, TypeOK

\* Every step keeps the invariant when the provider never omits the refresh
\* token.
LEMMA SessionIInvStep == NoOmit /\ SessionIInv /\ [Next]_vars => SessionIInv'
<1> SUFFICES ASSUME NoOmit, SessionIInv, [Next]_vars PROVE SessionIInv'
  OBVIOUS
<1>1. TypeOK'
  BY TypeStep DEF SessionIInv
<1>2. CASE ExpireIDToken
  BY <1>1, <1>2, SessionFrame DEF ExpireIDToken
<1>3. CASE RenewClusterCertificate
  BY <1>1, <1>3, SessionFrame DEF RenewClusterCertificate
<1>4. CASE TamperCookies
  BY <1>1, <1>4, SessionFrame DEF TamperCookies, idpVars
<1>5. ASSUME NEW r \in Reqs,
             Send(r) \/ Auth(r) \/ Login(r) \/ Callback(r) \/ Logout(r) \/ Deliver(r)
      PROVE  SessionIInv'
  BY <1>1, <1>5, SendSession, AuthSession, LoginSession, CallbackSession,
     LogoutSession, DeliverSession
<1>6. CASE UNCHANGED vars
  BY <1>6 DEF vars, SessionIInv, RotateIInv, TypeOK, Pending
<1>7. QED
  BY <1>2, <1>3, <1>4, <1>5, <1>6 DEF Next

\* Theorem: when the identity provider answers every refresh with a refresh
\* token, new or the same, concurrent Auth refreshes and responses applied
\* in any order never leave a browser whose cookies decrypt with a session
\* that no longer authenticates, unless an AuthError dropped the new tokens
\* of a refresh of its token (SessionSurvivesRefresh).
THEOREM SessionSurvivesRefreshHolds == NoOmit => (Spec => []SessionSurvivesRefresh)
<1> SUFFICES ASSUME NoOmit PROVE Spec => []SessionSurvivesRefresh
  OBVIOUS
<1>1. Init => SessionIInv
  BY SessionIInvInit
<1>2. SessionIInv /\ [Next]_vars => SessionIInv'
  BY SessionIInvStep
<1>3. SessionIInv => SessionSurvivesRefresh
  <2> SUFFICES ASSUME SessionIInv, Quiescent, jar.sid # 0, jar.ref \notin dropped
               PROVE  SessionUsable
    BY DEF SessionSurvivesRefresh
  <2>1. Pending = {} /\ jar.ref # 0 /\ policy \in {"rotate", "same"}
    BY DEF Quiescent, Pending, SessionIInv, NoOmit, TypeOK
  <2>2. jar.ref \notin spent
    BY <2>1 DEF SessionIInv, RotateIInv
  <2>3. QED
    BY <2>1, <2>2 DEF SessionUsable
<1>4. QED
  BY <1>1, <1>2, <1>3, PTL DEF Spec

\* Theorem: when the identity provider answers every refresh with a refresh
\* token, a response the browser applies never stores a refresh token the
\* provider has revoked, however the refreshes of concurrent Auth requests
\* interleave and their answers are delayed (NoRevokedRefreshStored).  A
\* response that sets a session is pending, and the invariant keeps the
\* fresh token of a pending response out of the spent set.
THEOREM NoRevokedRefreshStoredHolds == NoOmit => (Spec => NoRevokedRefreshStored)
<1> SUFFICES ASSUME NoOmit PROVE Spec => NoRevokedRefreshStored
  OBVIOUS
<1> DEFINE Stored == \A r \in Reqs :
                      st[r] = "answered" /\ st'[r] = "idle" /\ update[r].sessionOp = "set"
                          => update[r].session.ref \notin spent
<1>1. Init => SessionIInv
  BY SessionIInvInit
<1>2. SessionIInv /\ [Next]_vars => SessionIInv'
  BY SessionIInvStep
<1>3. SessionIInv => Stored
  <2> SUFFICES ASSUME SessionIInv, NEW r \in Reqs, st[r] = "answered",
                      update[r].sessionOp = "set"
               PROVE  update[r].session.ref \notin spent
    OBVIOUS
  <2>1. r \in Pending
    BY DEF Pending
  <2>2. CASE policy = "rotate"
    BY <2>1, <2>2 DEF SessionIInv, RotateIInv
  <2>3. CASE policy = "same"
    BY <2>3 DEF SessionIInv
  <2>4. QED
    BY <2>2, <2>3 DEF SessionIInv, TypeOK, NoOmit
<1>4. QED
  BY <1>1, <1>2, <1>3, PTL DEF Spec, NoRevokedRefreshStored

=============================================================================

----------------------------- MODULE DevLXDProofs -----------------------------
(***************************************************************************)
(* Proofs about the devLXD API of the VM agent (DevLXD), for every set of *)
(* guest requests, configuration keys, host error codes and number of     *)
(* connection attempts.                                                   *)
(***************************************************************************)
EXTENDS DevLXD, TLAPS

USE DevLXDAssumption

-----------------------------------------------------------------------------
(* What the handlers put in a response.                                    *)

\* A RawQuery handler answers at most the content it was given.
LEMMA RawQueryHandlerContent ==
    ASSUME NEW hc, NEW content, NEW ctype, NEW parses,
           NEW r \in RawQueryHandler(hc, content, ctype, parses)
    PROVE  r.content \subseteq content
  BY DEF RawQueryHandler, smartResponse, errorResponse, okResponse

\* The proxying handlers answer no configuration key.
LEMMA ProxyHandlerContent ==
    ASSUME NEW c, NEW hs, ep[c] \in DoEndpoints,
           NEW r \in ProxyHandler(c, hs)
    PROVE  r.content = {}
  BY DEF ProxyHandler, DoEndpoints, devLXDImageExportHandler,
         devLXDUbuntuProGetHandler, devLXDUbuntuProTokenPostHandler,
         smartResponse, errorResponse, okResponse, manualResponse

-----------------------------------------------------------------------------
(* The inductive invariant.                                                *)

\* What Render may write.  Render writes the content of the response the
\* handler returned, so every pending response must carry user keys only,
\* or the key its own traversing config/{key} path reached; the config/{key}
\* handler returns the key the host path names, checked by Handle two steps
\* before the query, so a request past that check must have passed it.
KeyIInv ==
    /\ DOMAIN pc = Clients /\ DOMAIN ep = Clients
    /\ DOMAIN arg = Clients /\ DOMAIN resp = Clients
    /\ \A c \in Clients : resp[c].content \subseteq UserKeys \cup TraversalKeys(c)
    /\ \A c \in Clients :
          ep[c] = "configKey" /\ pc[c] \in {"connect", "query"} =>
              arg[c] # BadEscape /\ arg[c].checked \in UserKeys

\* A query handler of a request that passed Handle answers user keys only,
\* or the key a traversing config/{key} path names.
LEMMA QueryHandlerContent ==
    ASSUME KeyIInv, NEW c \in Clients, pc[c] = "query",
           ep[c] \in RawQueryEndpoints, NEW hc, NEW r \in QueryHandler(c, hc)
    PROVE  r.content \subseteq UserKeys \cup TraversalKeys(c)
<1>1. CASE ep[c] = "configKey"
  <2>1. r \in RawQueryHandler(hc, {arg[c].resolved}, "raw", TRUE)
    BY <1>1 DEF QueryHandler, devLXDConfigKeyGetHandler
  <2>2. arg[c] # BadEscape /\ arg[c].checked \in UserKeys
    BY <1>1 DEF KeyIInv
  <2>3. arg[c].resolved \in UserKeys \cup TraversalKeys(c)
    BY <1>1, <2>2 DEF TraversalKeys
  <2>4. r.content \subseteq {arg[c].resolved}
    BY <2>1, RawQueryHandlerContent
  <2>5. QED
    BY <2>3, <2>4
<1>2. CASE ep[c] = "config"
  <2>1. r \in RawQueryHandler(hc, devLXDConfigFilter(hostConfig), "json", TRUE)
    BY <1>2 DEF QueryHandler, devLXDConfigGetHandler
  <2>2. r.content \subseteq devLXDConfigFilter(hostConfig)
    BY <2>1, RawQueryHandlerContent
  <2>3. QED
    BY <2>2 DEF devLXDConfigFilter
<1>3. CASE ep[c] \in {"api", "metaData", "devices"}
  <2>1. PICK m, b : r \in RawQueryHandler(hc, {}, m, b)
    BY <1>3 DEF QueryHandler, devLXDAPIGetHandler, devLXDAPIPatchHandler,
                devLXDMetadataGetHandler, devLXDDevicesGetHandler
  <2>2. r.content \subseteq {}
    BY <2>1, RawQueryHandlerContent
  <2>3. QED
    BY <2>2
<1>4. QED
  BY <1>1, <1>2, <1>3 DEF RawQueryEndpoints

LEMMA KeyIInvInit == Init => KeyIInv
  BY DEF Init, KeyIInv, NoResponse, errorResponse

\* A step that leaves the requests and the responses alone keeps the
\* invariant.
LEMMA KeyIInvFrame ==
    ASSUME KeyIInv, UNCHANGED <<ep, arg, resp>>, DOMAIN pc' = Clients,
           \A c \in Clients : pc'[c] \in {"connect", "query"} => pc[c] \in {"connect", "query"}
    PROVE  KeyIInv'
  BY DEF KeyIInv, TraversalKeys

LEMMA KeyIInvStep == KeyIInv /\ [Next]_vars => KeyIInv'
<1> SUFFICES ASSUME KeyIInv, [Next]_vars PROVE KeyIInv'
  OBVIOUS
<1>1. CASE SetHostConfig
  BY <1>1 DEF SetHostConfig, reqVars, KeyIInv, TraversalKeys
<1>2. ASSUME NEW c \in Clients, Send(c) PROVE KeyIInv'
  BY <1>2 DEF Send, Goto, Respond, NoResponse, errorResponse, KeyIInv, TraversalKeys
<1>3. ASSUME NEW c \in Clients, Dispatch(c) PROVE KeyIInv'
  BY <1>3 DEF Dispatch, reqVars, Goto, Respond, errorResponse, KeyIInv, TraversalKeys
<1>4. ASSUME NEW c \in Clients, Handle(c) PROVE KeyIInv'
  BY <1>4 DEF Handle, reqVars, Goto, Respond, errorResponse, okResponse,
              manualResponse, KeyIInv, TraversalKeys
<1>5. ASSUME NEW c \in Clients, Connect(c) PROVE KeyIInv'
  BY <1>5 DEF Connect, reqVars, Goto, Respond, errorResponse, KeyIInv, TraversalKeys
<1>6. ASSUME NEW c \in Clients, RawQuery(c) PROVE KeyIInv'
  <2>1. PICK r : /\ r.content \subseteq UserKeys \cup TraversalKeys(c)
                 /\ resp' = [resp EXCEPT ![c] = r]
    <3>1. CASE resp' = [resp EXCEPT ![c] = smartResponse(0)]
      BY <3>1 DEF smartResponse, errorResponse
    <3>2. CASE \E hc \in HostAnswers(c) : \E r \in QueryHandler(c, hc) :
                   resp' = [resp EXCEPT ![c] = r]
      BY <1>6, <3>2, QueryHandlerContent DEF RawQuery
    <3>3. QED
      BY <1>6, <3>1, <3>2 DEF RawQuery, Respond
  <2>2. QED
    BY <1>6, <2>1 DEF RawQuery, reqVars, Goto, KeyIInv, TraversalKeys
<1>7. ASSUME NEW c \in Clients, ProxyDo(c) PROVE KeyIInv'
  <2>1. PICK r : /\ r.content = {}
                 /\ resp' = [resp EXCEPT ![c] = r]
    <3>1. CASE resp' = [resp EXCEPT ![c] = errorResponse(500)]
      BY <3>1 DEF errorResponse
    <3>2. CASE \E hs \in {200} \cup HostErrorCodes : \E r \in ProxyHandler(c, hs) :
                   resp' = [resp EXCEPT ![c] = r]
      BY <1>7, <3>2, ProxyHandlerContent DEF ProxyDo
    <3>3. QED
      BY <1>7, <3>1, <3>2 DEF ProxyDo, Respond
  <2>2. QED
    BY <1>7, <2>1 DEF ProxyDo, reqVars, Goto, KeyIInv, TraversalKeys
<1>8. ASSUME NEW c \in Clients, Render(c) PROVE KeyIInv'
  BY <1>8, KeyIInvFrame DEF Render, eventsSocket, reqVars, Goto, KeyIInv
<1>9. ASSUME NEW c \in Clients, RenderError(c) PROVE KeyIInv'
  BY <1>9, KeyIInvFrame DEF RenderError, reqVars, Goto, KeyIInv
<1>10. ASSUME NEW c \in Clients, Stream(c) PROVE KeyIInv'
  BY <1>10, KeyIInvFrame DEF Stream, reqVars, Goto, KeyIInv
<1>11. CASE UNCHANGED vars
  BY <1>11 DEF vars, KeyIInv, TraversalKeys
<1>12. QED
  BY <1>1, <1>2, <1>3, <1>4, <1>5, <1>6, <1>7, <1>8, <1>9, <1>10, <1>11
  DEF Next, Serve

-----------------------------------------------------------------------------
(* The keys written to a guest.                                            *)

\* The step formula of OnlyTraversalLeaks.
NewLeaksAuthorized ==
    \A k \in leaked' \ leaked :
        \/ k \in UserKeys
        \/ \E c \in Clients : pc[c] = "render" /\ pc'[c] # "render" /\ k \in TraversalKeys(c)

\* Only Render writes keys to a guest.
LEMMA OnlyRenderLeaks ==
    ASSUME [Next]_vars, leaked' # leaked
    PROVE  \E c \in Clients : Render(c)
  BY DEF Next, Serve, vars, SetHostConfig, Send, Dispatch, Handle, Connect,
         RawQuery, ProxyDo, RenderError, Stream

LEMMA LeakStep == KeyIInv /\ [Next]_vars => NewLeaksAuthorized
<1> SUFFICES ASSUME KeyIInv, [Next]_vars, NEW k \in leaked' \ leaked
             PROVE  \/ k \in UserKeys
                    \/ \E c \in Clients : pc[c] = "render" /\ pc'[c] # "render"
                                          /\ k \in TraversalKeys(c)
  BY DEF NewLeaksAuthorized
<1>1. PICK c \in Clients : Render(c)
  BY OnlyRenderLeaks
<1>2. k \in resp[c].content
  BY <1>1 DEF Render
<1>3. pc[c] = "render" /\ pc'[c] # "render"
  BY <1>1 DEF Render, eventsSocket, Goto, KeyIInv
<1>4. QED
  BY <1>2, <1>3 DEF KeyIInv

\* Whatever the guests ask, in whatever order, however the host answers and
\* whatever the host's administrator changes meanwhile, every key the agent
\* writes to a guest is a user.* or cloud-init.* key, or the key a
\* config/{key} path reaches through an unescaped "/..": the config list
\* filter and the prefix check hold for every set of keys and of concurrent
\* requests, and the traversal is the only way past them.
THEOREM OnlyTraversalLeaksHolds == Spec => OnlyTraversalLeaks
<1>1. Init => KeyIInv
  BY KeyIInvInit
<1>2. KeyIInv /\ [Next]_vars => KeyIInv'
  BY KeyIInvStep
<1>3. KeyIInv /\ [Next]_vars => NewLeaksAuthorized
  BY LeakStep
<1>4. QED
  BY <1>1, <1>2, <1>3, PTL DEF Spec, OnlyTraversalLeaks, NewLeaksAuthorized

=============================================================================

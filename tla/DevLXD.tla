------------------------------- MODULE DevLXD -------------------------------
(***************************************************************************)
(* The devLXD API served by lxd-agent inside a VM (lxd-agent/devlxd.go and *)
(* lxd-agent/response.go).  A guest process sends an HTTP request on the   *)
(* /dev/lxd socket; registerDevLXDEndpoint dispatches it on the method to  *)
(* the endpoint's handler, which (for most endpoints) connects to the host *)
(* LXD over vsock, proxies a query and builds a devLXDResponse; Render then *)
(* writes that response, and a failed Render is followed by a second       *)
(* Render of a 500 errorResponse on the same ResponseWriter.               *)
(*                                                                         *)
(* Data are abstracted: a response body is the set of configuration keys   *)
(* whose name or value it carries, a host answer is its status code, and a *)
(* connection or a parse either succeeds or fails.  The response writer is *)
(* the first status written, the state of the body, whether an error text  *)
(* was appended, whether the connection was hijacked, and whether the     *)
(* guest has gone away.                                                    *)
(***************************************************************************)
EXTENDS Naturals, FiniteSets

CONSTANTS
    Clients,         \* concurrent guest requests on the devLXD socket
    Keys,            \* instance configuration keys
    UserKeys,        \* the keys named "user.*" or "cloud-init.*"
    HostErrorCodes,  \* error statuses the host LXD may answer with
    ConnectAttempts, \* connection attempts of the meta-data handler (10)
    BadEscape        \* a path argument url.PathUnescape rejects

(***************************************************************************)
(* The {key} path variable after url.PathUnescape.  The router keeps %2F   *)
(* encoded (UseEncodedPath), so the key may hold "/" and "..": checked is  *)
(* the key whose name the string starts with, which the HasPrefix check   *)
(* sees, and resolved is the key that "/1.0/config/" + key names once its *)
(* dot-dot segments are resolved.  A plain key has both equal.             *)
(***************************************************************************)
PathArgs == [checked : Keys, resolved : Keys]

ASSUME DevLXDAssumption ==
    /\ UserKeys \subseteq Keys
    /\ BadEscape \notin PathArgs
    /\ HostErrorCodes \subseteq Nat \ {0, 200}
    /\ ConnectAttempts \in Nat \ {0}

VARIABLES
    hostConfig,  \* the keys set in the instance's configuration on the host
    pc,          \* pc[c]: where request c is in handleFunc
    ep,          \* ep[c]: the endpoint the request was routed to
    method,      \* method[c]: its HTTP method
    arg,         \* arg[c]: the {key} or {fingerprint} path variable
    attempts,    \* attempts[c]: vsock connection attempts made
    connected,   \* connected[c]: a vsock client was obtained
    hostCode,    \* hostCode[c]: status the host answered with (0: none)
    resp,        \* resp[c]: the devLXDResponse the handler returned
    status,      \* status[c]: first status written on the ResponseWriter
    body,        \* body[c]: "empty", "complete" or "truncated"
    errText,     \* errText[c]: an http.Error text was written
    hijacked,    \* hijacked[c]: the events hook took over the connection
    gone,        \* gone[c]: the guest end of the connection went away
    leaked       \* the keys whose name or value was written to a guest

vars == <<hostConfig, pc, ep, method, arg, attempts, connected, hostCode,
          resp, status, body, errText, hijacked, gone, leaked>>
reqVars == <<ep, method, arg>>

Endpoints == {"root", "api", "config", "configKey", "metaData", "events",
              "devices", "imageExport", "ubuntuPro", "ubuntuProToken"}

\* "OTHER" stands for every method the switch of handleFunc has no case for.
Methods == {"GET", "HEAD", "POST", "PUT", "PATCH", "DELETE", "OTHER"}

\* The methods each entry of devLXDEndpoints has a Handler for.
Handlers ==
    [e \in Endpoints |->
        CASE e = "api"            -> {"GET", "PATCH"}
          [] e = "ubuntuProToken" -> {"POST"}
          [] OTHER                -> {"GET"}]

\* Endpoints whose handler uses the lxd client's RawQuery, and those that
\* proxy the request with http.Client.Do.
RawQueryEndpoints == {"api", "config", "configKey", "metaData", "devices"}
DoEndpoints == {"imageExport", "ubuntuPro", "ubuntuProToken"}

Steps == {"idle", "dispatch", "handler", "connect", "query", "render",
          "stream", "renderError", "done"}

Codes == {0, 101, 200, 400, 403, 404, 500, 501} \cup HostErrorCodes

\* A devLXDResponse: content is the set of keys the body carries, hook names
\* the manualResponse hook ("none" for a plain response).
Response == [code : Codes, ctype : {"json", "raw"},
             content : SUBSET Keys, hook : {"none", "export", "events"}]

errorResponse(code) ==
    [code |-> code, ctype |-> "raw", content |-> {}, hook |-> "none"]
okResponse(content, ctype) ==
    [code |-> 200, ctype |-> ctype, content |-> content, hook |-> "none"]
manualResponse(hook) ==
    [code |-> 0, ctype |-> "raw", content |-> {}, hook |-> hook]
NoResponse == errorResponse(0)

TypeOK ==
    /\ hostConfig \subseteq Keys
    /\ pc \in [Clients -> Steps]
    /\ ep \in [Clients -> Endpoints]
    /\ method \in [Clients -> Methods]
    /\ arg \in [Clients -> PathArgs \cup {BadEscape}]
    /\ attempts \in [Clients -> 0..ConnectAttempts]
    /\ connected \in [Clients -> BOOLEAN]
    /\ hostCode \in [Clients -> {0, 200, 404} \cup HostErrorCodes]
    /\ resp \in [Clients -> Response]
    /\ status \in [Clients -> Codes]
    /\ body \in [Clients -> {"empty", "complete", "truncated"}]
    /\ errText \in [Clients -> BOOLEAN]
    /\ hijacked \in [Clients -> BOOLEAN]
    /\ gone \in [Clients -> BOOLEAN]
    /\ leaked \subseteq Keys

Init ==
    /\ hostConfig \in SUBSET Keys
    /\ pc = [c \in Clients |-> "idle"]
    /\ ep = [c \in Clients |-> "root"]
    /\ method = [c \in Clients |-> "GET"]
    /\ arg = [c \in Clients |-> BadEscape]
    /\ attempts = [c \in Clients |-> 0]
    /\ connected = [c \in Clients |-> FALSE]
    /\ hostCode = [c \in Clients |-> 0]
    /\ resp = [c \in Clients |-> NoResponse]
    /\ status = [c \in Clients |-> 0]
    /\ body = [c \in Clients |-> "empty"]
    /\ errText = [c \in Clients |-> FALSE]
    /\ hijacked = [c \in Clients |-> FALSE]
    /\ gone = [c \in Clients |-> FALSE]
    /\ leaked = {}

Goto(c, s) == pc' = [pc EXCEPT ![c] = s]
Respond(c, r) == resp' = [resp EXCEPT ![c] = r]

\* ResponseWriter.WriteHeader: only the first call sets the status, a later
\* one is "superfluous" and ignored by net/http.
WriteHeader(c, code) ==
    status' = [status EXCEPT ![c] = IF @ = 0 THEN code ELSE @]

(***************************************************************************)
(* A guest sends a request: the router of devLXDAPI hands it to the        *)
(* handleFunc of the endpoint it matches, with a fresh ResponseWriter.     *)
(***************************************************************************)
Send(c) ==
    /\ pc[c] \in {"idle", "done"}
    /\ \E e \in Endpoints, m \in Methods, a \in PathArgs \cup {BadEscape} :
          /\ ep' = [ep EXCEPT ![c] = e]
          /\ method' = [method EXCEPT ![c] = m]
          /\ arg' = [arg EXCEPT ![c] = a]
    /\ Goto(c, "dispatch")
    /\ attempts' = [attempts EXCEPT ![c] = 0]
    /\ connected' = [connected EXCEPT ![c] = FALSE]
    /\ hostCode' = [hostCode EXCEPT ![c] = 0]
    /\ Respond(c, NoResponse)
    /\ status' = [status EXCEPT ![c] = 0]
    /\ body' = [body EXCEPT ![c] = "empty"]
    /\ errText' = [errText EXCEPT ![c] = FALSE]
    /\ hijacked' = [hijacked EXCEPT ![c] = FALSE]
    /\ gone' = [gone EXCEPT ![c] = FALSE]
    /\ UNCHANGED <<hostConfig, leaked>>

\* handleFunc's switch on r.Method, and handleRequest's nil Handler check.
Dispatch(c) ==
    /\ pc[c] = "dispatch"
    /\ \/ /\ method[c] = "OTHER"
          /\ Respond(c, errorResponse(404))
          /\ Goto(c, "render")
       \/ /\ method[c] # "OTHER"
          /\ method[c] \notin Handlers[ep[c]]
          /\ Respond(c, errorResponse(501))
          /\ Goto(c, "render")
       \/ /\ method[c] \in Handlers[ep[c]]
          /\ Goto(c, "handler")
          /\ UNCHANGED resp
    /\ UNCHANGED <<hostConfig, reqVars, attempts, connected, hostCode, status,
                   body, errText, hijacked, gone, leaked>>

(***************************************************************************)
(* The first part of a handler, before it contacts the host: the handlers *)
(* that answer locally, the path-variable checks, and the recover of       *)
(* handleRequest, which turns a panic anywhere in a handler into a 500.    *)
(***************************************************************************)
Handle(c) ==
    /\ pc[c] = "handler"
    /\ \/ /\ Respond(c, errorResponse(500))
          /\ Goto(c, "render")
       \/ /\ ep[c] = "root"
          /\ Respond(c, okResponse({}, "json"))
          /\ Goto(c, "render")
       \/ /\ ep[c] = "events"
          /\ Respond(c, manualResponse("events"))
          /\ Goto(c, "render")
       \/ /\ ep[c] \in {"configKey", "imageExport"}
          /\ arg[c] = BadEscape
          /\ Respond(c, errorResponse(IF ep[c] = "configKey" THEN 400 ELSE 500))
          /\ Goto(c, "render")
       \/ /\ ep[c] = "configKey"
          /\ arg[c] # BadEscape /\ arg[c].checked \notin UserKeys
          /\ Respond(c, errorResponse(403))
          /\ Goto(c, "render")
       \/ /\ ep[c] \notin {"root", "events", "configKey", "imageExport"}
          /\ Goto(c, "connect")
          /\ UNCHANGED resp
       \/ /\ ep[c] \in {"configKey", "imageExport"}
          /\ arg[c] # BadEscape
          /\ ep[c] = "configKey" => arg[c].checked \in UserKeys
          /\ Goto(c, "connect")
          /\ UNCHANGED resp
    /\ UNCHANGED <<hostConfig, reqVars, attempts, connected, hostCode, status,
                   body, errText, hijacked, gone, leaked>>

(***************************************************************************)
(* getVsockClient (getClient for the proxying handlers).  The meta-data    *)
(* handler tries ConnectAttempts times, sleeping between attempts; every   *)
(* other handler gives up after one failed attempt.                        *)
(***************************************************************************)
Connect(c) ==
    /\ pc[c] = "connect"
    /\ attempts' = [attempts EXCEPT ![c] = @ + 1]
    /\ \/ /\ connected' = [connected EXCEPT ![c] = TRUE]
          /\ Goto(c, "query")
          /\ UNCHANGED resp
       \/ /\ ep[c] = "metaData"
          /\ attempts[c] + 1 < ConnectAttempts
          /\ UNCHANGED <<pc, connected, resp>>
       \/ /\ ep[c] # "metaData" \/ attempts[c] + 1 >= ConnectAttempts
          /\ Respond(c, errorResponse(500))
          /\ Goto(c, "render")
          /\ UNCHANGED connected
    /\ UNCHANGED <<hostConfig, reqVars, hostCode, status, body, errText, hijacked, gone,
                   leaked>>

\* Mutant: the config list is returned unfiltered.
devLXDConfigFilterAll(keys) == keys

\* The loop of devLXDConfigGetHandler keeps the "/1.0/config/user.*" and
\* "/1.0/config/cloud-init.*" entries of the list the host returned.
devLXDConfigFilter(keys) == {k \in keys : k \in UserKeys}

\* The statuses the host answers a query of request c with: a config/{key}
\* query for a key the instance does not have is answered 404, and so is
\* one whose path the host does not resolve to a key.
HostAnswers(c) ==
    IF ep[c] = "configKey" /\ arg[c].resolved \notin hostConfig
    THEN {404}
    ELSE {200} \cup HostErrorCodes
             \cup (IF ep[c] = "configKey" /\ arg[c].checked # arg[c].resolved
                   THEN {404} ELSE {})

\* smartResponse: an error that carries an HTTP status (api.StatusErrorMatch)
\* is answered with that status, any other error with 500; code 0 stands
\* for an error without a status.
smartResponse(code) == errorResponse(IF code = 0 THEN 500 ELSE code)

\* A RawQuery handler once getVsockClient succeeded, for the host's answer
\* hc: an error answer is passed on by smartResponse; a 200 is answered
\* with the handler's content, unless the handler parses the metadata with
\* MetadataAsStruct and that fails ("Failed parsing response from LXD").
RawQueryHandler(hc, content, ctype, parses) ==
    IF hc # 200 THEN {smartResponse(hc)}
    ELSE {okResponse(content, ctype)} \cup (IF parses THEN {smartResponse(0)} ELSE {})

\* GET /1.0: the instance's api.DevLXDGet, which names no configuration key.
devLXDAPIGetHandler(hc) == RawQueryHandler(hc, {}, "json", TRUE)

\* PATCH /1.0: the body is passed to the host, nothing is parsed.
devLXDAPIPatchHandler(hc) == RawQueryHandler(hc, {}, "raw", FALSE)

\* GET /1.0/config: the host's key list, filtered.
devLXDConfigGetHandler(hc) == RawQueryHandler(hc, devLXDConfigFilter(hostConfig), "json", TRUE)

\* GET /1.0/config/{key}: the value of the key the host path names, after
\* the checks of Handle.
devLXDConfigKeyGetHandler(c, hc) == RawQueryHandler(hc, {arg[c].resolved}, "raw", TRUE)

\* GET /1.0/meta-data: the meta-data string, after the connection loop.
devLXDMetadataGetHandler(hc) == RawQueryHandler(hc, {}, "raw", TRUE)

\* GET /1.0/devices: the instance's config.Devices.
devLXDDevicesGetHandler(hc) == RawQueryHandler(hc, {}, "json", TRUE)

\* The handler handleFunc called for request c (its endpoint and method).
QueryHandler(c, hc) ==
    CASE ep[c] = "api" /\ method[c] = "GET" -> devLXDAPIGetHandler(hc)
      [] ep[c] = "api"                       -> devLXDAPIPatchHandler(hc)
      [] ep[c] = "config"                    -> devLXDConfigGetHandler(hc)
      [] ep[c] = "configKey"                 -> devLXDConfigKeyGetHandler(c, hc)
      [] ep[c] = "metaData"                  -> devLXDMetadataGetHandler(hc)
      [] ep[c] = "devices"                   -> devLXDDevicesGetHandler(hc)

(***************************************************************************)
(* The handlers of the RawQuery endpoints after connecting: the query may  *)
(* fail in transport (500), the host may answer an error, which            *)
(* smartResponse passes on with its status (api.StatusErrorMatch), and     *)
(* MetadataAsStruct may fail to parse the answer (500).  PATCH /1.0 parses *)
(* nothing and answers an empty raw body.                                  *)
(***************************************************************************)
RawQuery(c) ==
    /\ pc[c] = "query"
    /\ ep[c] \in RawQueryEndpoints
    /\ \/ /\ Respond(c, smartResponse(0))
          /\ UNCHANGED hostCode
       \/ \E hc \in HostAnswers(c) :
             /\ hostCode' = [hostCode EXCEPT ![c] = hc]
             /\ \E r \in QueryHandler(c, hc) : Respond(c, r)
    /\ Goto(c, "render")
    /\ UNCHANGED <<hostConfig, reqVars, attempts, connected, status, body,
                   errText, hijacked, gone, leaked>>

\* GET /1.0/images/{fingerprint}/export: a manualResponse whose hook writes
\* the host's status and copies its body (see Render).
devLXDImageExportHandler(hs) == {manualResponse("export")}

\* GET /1.0/ubuntu-pro: a body that does not decode as an api.Response, or
\* metadata that do not unmarshal, are a 500; the host's StatusCode is not
\* looked at.
devLXDUbuntuProGetHandler(hs) == {smartResponse(0), okResponse({}, "json")}

\* POST /1.0/ubuntu-pro/token: as the GET handler, but an answer whose
\* StatusCode is not 200 is answered with the host's error code.
devLXDUbuntuProTokenPostHandler(hs) ==
    {smartResponse(0)} \cup (IF hs # 200 THEN {errorResponse(hs)} ELSE {okResponse({}, "json")})

ProxyHandler(c, hs) ==
    CASE ep[c] = "imageExport" -> devLXDImageExportHandler(hs)
      [] ep[c] = "ubuntuPro"   -> devLXDUbuntuProGetHandler(hs)
      [] ep[c] = "ubuntuProToken" -> devLXDUbuntuProTokenPostHandler(hs)

(***************************************************************************)
(* The proxying handlers after getClient: client.Do may fail (500).  The   *)
(* image export handler returns a manualResponse that streams the host's   *)
(* answer.  The ubuntu-pro handlers decode the host's api.Response (a      *)
(* decode error is a 500); the token POST handler answers the host's error *)
(* code when its StatusCode is not 200, the GET handler does not look at   *)
(* it and only fails when the metadata do not unmarshal.                   *)
(***************************************************************************)
ProxyDo(c) ==
    /\ pc[c] = "query"
    /\ ep[c] \in DoEndpoints
    /\ \/ /\ Respond(c, errorResponse(500))
          /\ UNCHANGED hostCode
       \/ \E hs \in {200} \cup HostErrorCodes :
             /\ hostCode' = [hostCode EXCEPT ![c] = hs]
             /\ \E r \in ProxyHandler(c, hs) : Respond(c, r)
    /\ Goto(c, "render")
    /\ UNCHANGED <<hostConfig, reqVars, attempts, connected, status, body,
                   errText, hijacked, gone, leaked>>

(***************************************************************************)
(* The events hook: eventsGet's Render, eventsSocket.  With "Upgrade:      *)
(* websocket" the upgrader either refuses (it writes 400 and an error     *)
(* text) or writes 101 and takes the connection; otherwise Hijack either  *)
(* fails, having written nothing, or takes the connection.  On a taken    *)
(* connection the stream listener connection or AddListener may still     *)
(* fail, and the hook returns its error; else the listener streams events.*)
(***************************************************************************)
eventsSocket(c) ==
    \/ /\ WriteHeader(c, 400)
       /\ errText' = [errText EXCEPT ![c] = TRUE]
       /\ Goto(c, "renderError")
       /\ UNCHANGED hijacked
    \/ /\ Goto(c, "renderError")
       /\ UNCHANGED <<status, errText, hijacked>>
    \/ /\ \/ WriteHeader(c, 101)
          \/ UNCHANGED status
       /\ hijacked' = [hijacked EXCEPT ![c] = TRUE]
       /\ \E next \in {"stream", "renderError"} : Goto(c, next)
       /\ UNCHANGED errText

(***************************************************************************)
(* devLXDResponse.Render, with the hooks of the two manual responses.  The *)
(* export hook writes the host's status, then copies the host's body,      *)
(* which may break on either side.  A hook error, or a failed write of a   *)
(* 200 body, makes Render return an error.                                 *)
(***************************************************************************)
Render(c) ==
    /\ pc[c] = "render"
    /\ \/ /\ resp[c].hook = "export"
          /\ WriteHeader(c, hostCode[c])
          /\ \/ /\ body' = [body EXCEPT ![c] = "complete"]
                /\ Goto(c, "done")
                /\ UNCHANGED gone
             \/ /\ body' = [body EXCEPT ![c] = "truncated"]
                /\ Goto(c, "renderError")
                /\ UNCHANGED gone
             \/ /\ body' = [body EXCEPT ![c] = "truncated"]
                /\ gone' = [gone EXCEPT ![c] = TRUE]
                /\ Goto(c, "renderError")
          /\ UNCHANGED <<errText, hijacked, leaked>>
       \/ /\ resp[c].hook = "events"
          /\ eventsSocket(c)
          /\ UNCHANGED <<body, gone, leaked>>
       \/ /\ resp[c].hook = "none"
          /\ resp[c].code # 200
          /\ WriteHeader(c, resp[c].code)
          /\ errText' = [errText EXCEPT ![c] = TRUE]
          /\ Goto(c, "done")
          /\ UNCHANGED <<body, hijacked, gone, leaked>>
       \/ /\ resp[c].hook = "none"
          /\ resp[c].code = 200
          /\ WriteHeader(c, 200)
          /\ leaked' = leaked \cup resp[c].content
          /\ \/ /\ body' = [body EXCEPT ![c] = "complete"]
                /\ Goto(c, "done")
                /\ UNCHANGED gone
             \/ /\ body' = [body EXCEPT ![c] = "truncated"]
                /\ gone' = [gone EXCEPT ![c] = TRUE]
                /\ Goto(c, "renderError")
          /\ UNCHANGED <<errText, hijacked>>
    /\ UNCHANGED <<hostConfig, reqVars, attempts, connected, hostCode, resp>>

\* The events stream lasts until the guest closes it; the hook then returns.
Stream(c) ==
    /\ pc[c] = "stream"
    /\ gone' = [gone EXCEPT ![c] = TRUE]
    /\ Goto(c, "done")
    /\ UNCHANGED <<hostConfig, reqVars, attempts, connected, hostCode, resp,
                   status, body, errText, hijacked, leaked>>

\* After a failed Render, handleFunc renders errorResponse(500) on the same
\* ResponseWriter: http.Error calls WriteHeader(500) and appends its text;
\* on a hijacked connection net/http refuses both and nothing is written.
RenderError(c) ==
    /\ pc[c] = "renderError"
    /\ \/ /\ ~hijacked[c]
          /\ WriteHeader(c, 500)
          /\ errText' = [errText EXCEPT ![c] = TRUE]
       \/ /\ hijacked[c]
          /\ UNCHANGED <<status, errText>>
    /\ Goto(c, "done")
    /\ UNCHANGED <<hostConfig, reqVars, attempts, connected, hostCode, resp,
                   body, hijacked, gone, leaked>>

\* The host's administrator sets or unsets a key of the instance.
SetHostConfig ==
    /\ \E k \in Keys : hostConfig' = (hostConfig \ {k}) \cup (({k} \ hostConfig))
    /\ UNCHANGED <<pc, reqVars, attempts, connected, hostCode, resp, status,
                   body, errText, hijacked, gone, leaked>>

\* The steps the agent's goroutine serving request c takes on its own.
Serve(c) ==
    \/ Dispatch(c) \/ Handle(c) \/ Connect(c) \/ RawQuery(c) \/ ProxyDo(c)
    \/ Render(c) \/ RenderError(c)

Next ==
    \/ SetHostConfig
    \/ \E c \in Clients : Send(c) \/ Serve(c) \/ Stream(c)

Spec == Init /\ [][Next]_vars

-----------------------------------------------------------------------------
(***************************************************************************)
(* Properties.                                                             *)
(***************************************************************************)

\* The key request c's config/{key} path reaches through "/..", when its
\* unescaped key names another key than the one its prefix was checked on.
TraversalKeys(c) ==
    IF ep[c] = "configKey" /\ arg[c] # BadEscape /\ arg[c].checked # arg[c].resolved
    THEN {arg[c].resolved}
    ELSE {}

(***************************************************************************)
(* Every key whose name or value the agent newly writes to a guest is a   *)
(* user.* or cloud-init.* key, or the key reached by the traversing        *)
(* config/{key} path of the request rendered in that step: whatever the    *)
(* host answers and however hostConfig changes, the filter of the config  *)
(* list and the prefix check of config/{key} keep every other key from    *)
(* the guest, and the unescaped "/.." is the only way past them.           *)
(***************************************************************************)
OnlyTraversalLeaks ==
    [][\A k \in leaked' \ leaked :
          \/ k \in UserKeys
          \/ \E c \in Clients : pc[c] = "render" /\ pc'[c] # "render" /\ k \in TraversalKeys(c)]_vars

\* No response of the agent ever carries the name or the value of a key that
\* is not a user.* or cloud-init.* key.  With the host answering every key
\* it resolves, this does not hold: a key "user.x/../security.nesting"
\* passes the prefix check (see README).
NoPrivateKeyLeak == leaked \subseteq UserKeys

\* A guest that is still connected and reads status 200 has received the
\* whole body and no appended error text.
SuccessMeansComplete ==
    \A c \in Clients :
        pc[c] = "done" /\ ~gone[c] /\ status[c] = 200
            => body[c] = "complete" /\ ~errText[c]

\* A guest that is still connected reads status 200 only when the host, if
\* the request was passed on to it, answered 200 too: a host error is never
\* turned into a success.
NoSuccessOnHostError ==
    \A c \in Clients :
        pc[c] = "done" /\ ~gone[c] /\ status[c] = 200
            => hostCode[c] \in {0, 200}

=============================================================================

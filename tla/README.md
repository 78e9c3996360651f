# Formal models of the LXD snapshot in `src/`

This directory holds TLA+ models of the parts of the repository snapshot under
`src/`, the TLC configurations that model-check them, and the TLAPS proofs of
their main invariants. `PROJECT.json` lists every component, every run, the
mutants that show each checked property can fail, the source lines each
definition translates, the findings, the hazards and the theorems.

## 1. Inventory

The snapshot is not the whole LXD tree. It is a set of files from several
parts of it, some of which concatenate several Go files. `spec.md` describes
LXD's network ACL engine. The engine's code is not in the snapshot; only its
how-to page is, embedded in `src/lxd-agent/devlxd.go`.

| Component | Source | State it keeps | Operations | Interacts with |
|---|---|---|---|---|
| OIDC verifier configuration cache | `lxd/auth/oidc/oidc.go` 51-73, 441-540, 699-717 | `relyingParty`, `host`, `expireConfig`, `accessTokenVerifier` of the one `Verifier` the daemon shares between all request handlers | `ensureConfig` (called by `Auth`, `Login`, `Callback`), `setRelyingParty`, `setAccessTokenVerifier`, `ExpireConfig` (called on proxy configuration changes) | the identity provider (IdP), through discovery; the HTTP client factory `httpClientFunc` |
| OIDC sessions and token authentication | `oidc.go` 101-440, 542-697 | nothing on the server; the browser's cookies (`session_id`, `oidc_identity`, `oidc_refresh`, `login_id`), encrypted with keys derived from the cluster private key and the session ID | `Auth` (bearer access token or cookies), `authenticateIDToken` (verify, else refresh and re-issue the cookies), `authenticateAccessToken` (verify, audience, identity cache, else userinfo), `Login`, `Callback`, `Logout`, `getCookies`, `setCookies`, `secureCookieFromSession`, claim parsing | the IdP (token verification, refresh, userinfo); the identity cache; the cluster certificate |
| devLXD agent API | `lxd-agent/devlxd.go` 1-493, `lxd-agent/response.go` | none of its own: each request is proxied to the host LXD over vsock | `registerDevLXDEndpoint` dispatch by method, with recovery from a panic and a fallback error response when rendering fails; handlers for `/1.0`, `config`, `config/{key}` (only `user.` and `cloud-init.` keys), `meta-data` (10 connection attempts), `devices`, `events`, `images/{fp}/export` (streamed proxy), `ubuntu-pro`, `ubuntu-pro/token` | the host LXD (vsock client); the guest's HTTP clients; the agent's event hub |
| devLXD socket listener | `devlxd.go` 495-573 | the socket file `<dir>/lxd/sock` | remove a stale socket, listen, `chmod 0600` | the guest file system |
| Agent events and disk hotplug | `unnamed/part_003` | the agent's event listeners; the guest's mount table | `eventsSocket` (websocket or hijacked stream listener), `eventsPost` (forward an event from the host to the listeners and process it in a goroutine), `eventsProcess` (mount an added virtiofs disk, rejecting `..` paths, up to 5 attempts) | the host LXD, which posts the events; guest processes listening on `/dev/lxd/sock` |
| Backup configuration pool update | `devlxd.go` 1246-1396 | `backup.yaml` | `UpdateInstanceConfigStoragePool`: read the file, set the pool on root disks, truncate and rewrite the file | the cluster database; the storage volume |
| macvlan network driver | `devlxd.go` 1397-1571 | the network's configuration and availability | `Validate`, `Delete`, `Rename`, `Start` (mark unavailable on failure), `Stop`, `Update` (apply; on failure revert to the old configuration) | the common network code; the database; the cluster |
| Network allocations endpoint | `lxd/ubuntupro/client_test.go` 234-538 | none | list the addresses used by networks, leases, forwards and load balancers, filtered by permission | the database; the authorizer |
| Ubuntu Pro client test | `client_test.go` 1-233 | the test's settings file | the test of the guest attach setting | (the client it tests is not in the snapshot) |
| Instance and metadata endpoints, request context | `lxd/documentation.go` | the request `Info` in the context | `instanceGet` (forward to the member that owns the instance; fall back to the database when it is unreachable and the request is not recursive), `metadataConfigurationGet` | the cluster |
| OS facade | `lxd/sys/os.go` | detected host features | `DefaultOS`, `Init`, `InUbuntuCore` | the host OS |
| Block device helpers, database smart errors | `lxd/storage/block/utils.go`, `unnamed/part_004` | none | ioctl and stat; a constant table | the kernel |
| Tests and README | `unnamed/part_000..002`, `test/` | - | the devLXD test states the expected devLXD behaviour: which keys are readable, which events reach the listeners, the ready state | - |
| Network ACL engine (`spec.md`) | not in `src/` | ACLs, assignments, the port group membership index | validate, resolve selectors, compile per target and direction into drop/reject/allow/default tiers, apply to a backend | networks, NICs, backends |

### What is hard in this code

* **Shared mutable state without a lock.** `Verifier` is one object and every
  HTTP request handler of the daemon calls `ensureConfig` on it. The test of
  the cache, the rebuild of the relying party (which performs network
  discovery), and the writes of `relyingParty`, `host` and `expireConfig` are
  separate steps. They interleave with other handlers and with
  `ExpireConfig`.
* **Cookies as distributed state.** The session lives in the browser. The
  server re-derives its keys from the cluster key and the session ID on every
  request. Concurrent requests refresh tokens independently. Their responses
  overwrite each other's cookies in any order. A key rotation makes every
  cookie undecryptable.
* **Retries and timeouts.** The `meta-data` handler makes 10 connection
  attempts, 500 ms apart. The hotplug mount makes 5 attempts. Both run
  concurrently with the host changing state.
* **Partial failure.** A response hook can fail after it has written the
  status line and part of the body. The dispatcher then renders a second,
  error response. `backup.yaml` is truncated before it is rewritten.
  `macvlan.Update` reverts with a call that can itself fail.
* **Asynchronous processing.** `eventsPost` answers before `eventsProcess` has
  run, and two events for the same device are processed by concurrent
  goroutines.

### Properties that make each component correct

* OIDC configuration cache: a handler never uses a nil relying party or
  verifier. The relying party used was built for the request's host. An
  `ExpireConfig` is never lost: the next use after it rebuilds the relying
  party with the new proxy configuration.
* OIDC sessions: cookies the server sets can be decrypted by every cluster
  member until the cluster key rotates. Cookies that cannot be decrypted are
  deleted. An authenticated result always comes from a token that verified,
  either directly or after a refresh. Concurrent refreshes never leave the
  browser with a consumed refresh token while no request is in flight.
* devLXD: no configuration key outside `user.` and `cloud-init.` is read from
  the host or listed, unless the `{key}` variable escapes the prefix check.
  A request that got 200 got its whole body. A failure of the host is
  reported with the host's status or 500.
* Events and hotplug: only `added` disk events with a path free of `..` are
  mounted, each at most once. Every goroutine eventually ends, whether or
  not the share becomes ready.
* ACL engine: the decision for a packet is that of the highest-priority tier
  with a matching rule. It does not depend on the order of rules or ACLs. The
  default rule exists exactly when an ACL is assigned, and a NIC override
  wins over the network. Membership follows assignments.

## 2. Plan

Modules, in order, most important behaviour first:

1. `OIDCVerifier`: the configuration cache (done). `MCOIDCVerifier` gives
   host symmetry. `OIDCVerifierProofs` holds the proofs.
2. `OIDCSession`: `Auth`, `authenticateIDToken`, `getCookies`, `setCookies`,
   `Login`, `Callback` and `Logout` against a browser cookie jar (done).
3. `DevLXD`: dispatch and handlers with the host as a nondeterministic
   environment (done). `MCDevLXD` gives one user key and one private key.
4. `AgentEvents`: `eventsPost` with concurrent `eventsProcess` goroutines and
   the mount table (done). `AgentEventsProofs` holds the proofs.
5. `ACLCompiler` (spec-modelled, not yet written): membership index and priority compiler.
   `ACLDecision` is an abstract decision function, and the compiler is shown
   to implement it by `INSTANCE ... WITH` over bounded rule sets.
6. `BackupConfig`: a crash between truncation and write (done, with
   `BackupConfigProofs`). `BackupConfigAbstract` states what the function
   promises, and the refinement is proved for any number of snapshots (done). `Macvlan` is not modelled: the stored
   configuration, the revert and the availability flags live in the common
   network driver, which is not in the snapshot.

Theorems worth proving, after TLC agrees:

* `OIDCVerifier`: `TypeOK`, `ConfiguredWhenUsed`, and `UsedRPMatchesHost`
  for one handler (done).
* `OIDCSession`: `TypeOK`, `SessionSurvivesRefresh` and the action property
  `NoRevokedRefreshStored`, for a provider that rotates or repeats refresh
  tokens (done, `OIDCSessionProofs`).
* `DevLXD`: key authorisation, as the action property `OnlyTraversalLeaks`
  (done, `DevLXDProofs`).
* `AgentEvents`: `TypeOK` and `MountsAreHotplugs` (done).
* `BackupConfig`: `TypeOK`, `UnusableBackupUntouched` and
  `SuccessRetargetsRoots` (done).
* `ACLCompiler` (once modelled): the compiled decision equals the abstract
  decision, as a refinement step theorem.

## 3. The OIDC configuration cache (`OIDCVerifier`)

**State.** The model's variables correspond to the code as follows:

* `relyingParty` is `o.relyingParty`, abstracted to the host of its callback
  URL and the generation of the proxy configuration its HTTP client was made
  with.
* `host`, `expireConfig` and `atvSet` are `o.host`, `o.expireConfig` and
  `o.accessTokenVerifier != nil`.
* `proxyGen` counts proxy configuration changes.
* `atvGen` is the proxy generation of the HTTP client that the access token
  verifier's key set fetches keys with. It is the relying party's generation
  when `setAccessTokenVerifier` takes the relying party's key set. With no
  relying party it is the current generation, because discovery runs then
  (`KeySetGen`).
* Each request handler `r` has a program counter `pc[r]`, the Host header of
  its request `reqHost[r]`, and the relying party its `setRelyingParty` built,
  `newRP[r]`.

**Actions.** There is one action per step that reads or writes shared state:

* `Request` is entry into `Auth`, `Login` or `Callback`.
* `ensureConfigCheck` evaluates the test on line 452.
* `setRelyingPartyBuild` fetches the HTTP client and runs discovery. It may
  fail.
* `setRelyingPartyAssign`, `ensureConfigSetHost` and
  `ensureConfigClearExpire` are the three writes.
* `ensureConfigCheckATV` and `setAccessTokenVerifier` create the access token
  verifier. Setup may fail.
* `UseRelyingParty` is the handler's use of `o.relyingParty`.
* `ExpireConfig` is called concurrently, bounded by `MaxGen`.

A failed step returns the handler to `idle`, as the error is returned to the
client.

**Runs.**

| Run | Configuration | Result | What it shows |
|---|---|---|---|
| `oidc_concurrent` | 2 handlers, 2 hosts, `MaxGen` 1 | passes | No handler dereferences a nil relying party or verifier, however the handlers interleave. |
| `oidc_host_race` | 2 handlers, 2 hosts | violation of `UsedRPMatchesHost` | Handler 1 finishes `ensureConfig` for host h1. Handler 2 rebuilds the relying party for h2. Handler 1's `Login` then uses the h2 relying party, and the IdP is sent `https://h2/oidc/callback`. |
| `oidc_expiry_race` | 1 handler, 1 host, `MaxGen` 1 | violation of `ExpiryNotLost` | `setRelyingParty` takes the HTTP client, then `ExpireConfig` runs. `ensureConfig` then clears `expireConfig`. The relying party with the old proxy configuration stays cached until the Host header changes. |
| `oidc_stale_key_set` | 1 handler, 1 host, `MaxGen` 1 | violation of `VerifierUsesCurrentProxy` | One full `ensureConfig` runs, then `ExpireConfig`, then a second request. The second request rebuilds the relying party with the new HTTP client. The access token verifier is not nil, so it is kept. Its key set still fetches the IdP's keys through the old proxy configuration. |

With a single handler, `ensureConfig` alone is right: the relying party
used matches the request host. This is proved for every set of hosts
(`SerialUsedRPMatchesHost` below), so no run repeats it.

The bounds are enough because each race needs at most two handlers, two
hosts and one proxy change. The symmetry over hosts is sound because no
definition names a host.

**Proofs** (`OIDCVerifierProofs`, checked by `tlapm`):

* `TypeCorrect` holds for all constants.
* `ConfiguredWhenUsedHolds` holds for all constants. It rests on the
  inductive invariant `ConfigIInv`. `ConfigIInv` says that a relying party
  about to be assigned is real, and that every handler past the assignment
  sees one. It is needed because `ConfiguredWhenUsed` alone says nothing
  about the handlers still in the middle of `ensureConfig`.
* `SerialUsedRPMatchesHost` assumes a single handler. It rests on
  `HostIInv`: outside the window between assigning the relying party and
  recording the host, the cached relying party was built for the cached
  host.

Both races are findings, and so is the stale key set (see `PROJECT.json`).
The third is not a race: it happens with one handler. `ExpireConfig`
expires only the relying party. The `expireConfig` field comment says the
expiry exists so that a proxy change reaches "the HTTP client used to call
the IdP".

## 4. The browser session of the UI (`OIDCSession`)

The LXD UI authenticates with three cookies:

* `session_id`, a fresh uuid per stored session;
* `oidc_identity`, the ID token;
* `oidc_refresh`, the refresh token.

The two token cookies are encrypted with keys that `secureCookieFromSession`
derives from the cluster private key, salted with the session ID, so that
every cluster member can decrypt them.

`Auth` decrypts the cookies (`getCookies`) and deletes them if they do not
decrypt. `authenticateIDToken` then accepts a valid ID token. Otherwise it
refreshes at the provider and stores a new session with the refreshed
tokens.

**State.**

* `jar`: the browser's cookies.
* `st`, `kind`, `flow`, `sent`, `update`: the requests in flight. For each,
  its kind, the cookies it carried, and the Set-Cookie headers of its
  response.
* The provider: `policy`, `issued`, `expired`, `spent`.
* `keyGen`: the cluster key generation.
* `dropped`: refresh tokens spent by refreshes whose results an error
  dropped.

A token is the number of the grant that issued it, and 0 is the empty
string.

**Actions.**

* `Auth`, `Login`, `Callback` and `Logout`: one atomic server step each. The
  server shares no state between them beyond the provider.
* `Deliver`: the browser applies a response. Deliveries happen in any order.
* Environment steps: `ExpireIDToken`, `RenewClusterCertificate` and
  `TamperCookies`.

**Runs.**

| Run | Configuration | Result | What it shows |
|---|---|---|---|
| `oidc_session_refresh` | 2 requests, 3 grants, 1 login flow, 1 key renewal, policy rotate or same | passes (1.9M states) | `SessionSurvivesRefresh`: once all responses have arrived, a jar that still decrypts authenticates, unless its refresh token was spent by a refresh whose tokens were then dropped. Concurrent refreshes with one token, and their answers in any order, never log the user out. Under rotation only one of them succeeds. The stale answer that arrives last still carries an unspent token. `NoRevokedRefreshStored` (action property): a response the browser applies never stores a refresh token the provider has already revoked. |
| `oidc_session_omitted_refresh` | 1 request, 2 grants, policy omit | violation | The provider omits `refresh_token` when refreshing, which RFC 6749 allows. `authenticateIDToken` stores the empty string it gets, so the browser is logged out when the refreshed ID token expires. This contradicts the `setCookies` comment "Cookies are only set if they are non-empty" (finding). |

A provider that revokes the whole token family when a rotated token is
reused is not modelled. Under it, the concurrent refreshes above would log
the user out (see the hazards in `PROJECT.json`).

**Proof.** `OIDCSessionProofs` proves `TypeCorrect` and
`SessionSurvivesRefreshHolds`: `NoOmit => (Spec => []SessionSurvivesRefresh)`
for every set of requests and every bound, where `NoOmit` says that the
provider's policy is rotate or same. `SessionSurvivesRefresh` is not
inductive. A response in flight may set a token that is later spent, so the
proof carries `SessionIInv`. Let `Pending` be the answered requests whose
response sets a session. `SessionIInv` says that every session in the jar or
in a pending response has a non-empty refresh token, and that a provider
that repeats tokens spends none. For a provider that rotates tokens, it
adds `RotateIInv`:

* every token in the jar, in a request or in a response was issued;
* the token of a pending response is unspent;
* that token is in neither the jar nor a request still at the server;
* no other pending response carries it;
* a spent token in the jar was dropped, or some response is still pending.

TLC checked `SessionIInv` as an invariant of `oidc_session_refresh` before
it was proved. There is one lemma per handler. `NewSession` covers a
response that stores a new session (Auth's refresh, Callback).
`RefreshDropped` covers a refresh whose tokens an error dropped.
`AnswerNoSession` covers every other answer. `DeliverSession` covers the
browser applying a response: a set, a delete or a keep of the session
cookies.

`NoRevokedRefreshStoredHolds` proves the action property
`NoRevokedRefreshStored`: `NoOmit => (Spec => [][...]_vars)`. Whenever the
browser applies a response that sets a session, that session's refresh token
is not spent at that moment. It follows from the same `SessionIInv`. A
response that sets a session is pending. Under rotation, the token of a
pending response is unspent. Under repetition, nothing is spent. The run
checks the property with the mutant `authenticateIDTokenOldRefresh`, a
refresh that stores the token it sent in place of `tokens.RefreshToken`.
TLC finds that mutant violating the property after a single rotation.

## 5. The devLXD API of the VM agent (`DevLXD`)

`lxd-agent` serves `/dev/lxd/sock` inside a VM. Every request runs on its own
goroutine. The goroutine runs `handleFunc` of `registerDevLXDEndpoint`:

1. It switches on the method and calls the endpoint's handler, recovering a
   panic.
2. It calls `Render` on the handler's `devLXDResponse`.
3. If `Render` fails, it renders a 500 `errorResponse` on the same
   `ResponseWriter`.

Most handlers reach the host LXD over vsock, either through the lxd client's
`RawQuery` or by proxying the request with `http.Client.Do`.

**State.** The state per request `c` has three parts:

* The route: `ep`, `method`, and `arg`, the `{key}` or `{fingerprint}`
  variable.
* The handler's progress: `pc`, and `attempts` and `connected` for the vsock
  connection.
* `hostCode`, the status the host answered with, and `resp`, the
  `devLXDResponse`. A response body is abstracted to the set of
  configuration keys whose name or value it carries.

The `ResponseWriter` is modelled too:

* `status` is the first status written. net/http ignores later
  `WriteHeader` calls.
* `body` is empty, complete or truncated.
* `errText` records that an `http.Error` text was written.
* `gone` records that the guest closed its end.

Global state is `hostConfig`, the set of keys configured on the host, which
the administrator changes at any time, and `leaked`, the history of keys
written to a guest.

**Actions.**

* `Send`: a request enters `handleFunc`.
* `Dispatch`: the method switch and the nil-handler check.
* `Handle`: the local answers (`/`, `events`), the path checks of
  `config/{key}` and `images/{fingerprint}/export`, and a recovered panic.
* `Connect`: `getVsockClient` or `getClient`, with the meta-data loop of 10
  attempts.
* `RawQuery` and `ProxyDo`: the host's answer and the parse. Each one
  calls the handler of its endpoint, and each handler is a definition of
  its own with its Go name: `devLXDAPIGetHandler`, `devLXDConfigGetHandler`,
  `devLXDConfigKeyGetHandler`, `devLXDUbuntuProGetHandler` and the others.
  A handler gives the set of responses it may return for the host's
  answer. The `RawQuery` handlers share `RawQueryHandler`: an error answer
  goes through `smartResponse`, and a 200 answer gives the handler's
  content, or a 500 when `MetadataAsStruct` fails. `QueryHandler` and
  `ProxyHandler` are the route table.
* `Render`, with the events hook as `eventsSocket`, then `Stream` (an open
  events stream) and `RenderError`.

The host is nondeterministic. A connection, a transport or a parse may fail.
The host may answer 200 or any of `HostErrorCodes`, and it answers 404 for a
key the instance does not have. The host is assumed not to filter keys
itself, so the agent's own checks are what is verified.

**The `{key}` variable.** The router keeps paths encoded (`UseEncodedPath`,
`devlxd.go` 422) and the handler unescapes the variable itself (175). A
`{key}` of `user.x%2F..%2Fsecurity.nesting` becomes `user.x/../security.nesting`:
it passes the `HasPrefix` check (180), and `"/1.0/config/" + key` (191) names
`security.nesting` once its dot-dot segment is resolved. `arg[c]` is
therefore a record `PathArgs`: `checked` is the key the check sees and
`resolved` the key the host path names, equal for a plain key. `BadEscape`
is a variable that does not unescape (400). The host answers 404 for a
resolved key the instance does not have, and may answer 404 for a
traversing path.

**The events hook.** `devLXDEventsGetHandler` returns a manual response
whose hook is `eventsGet(d, r).Render`, that is `eventsSocket`
(`unnamed/part_003` 43-91). `eventsSocket` models its outcomes:

* the upgrader refuses, writing 400 and an error text;
* `Hijack` fails, having written nothing;
* the connection is taken (`hijacked`), after a 101 for a websocket or with
  nothing written for a stream, and then either the listener streams
  (`Stream`) or the listener connection or `AddListener` fails and the hook
  returns an error.

After a hook error `RenderError` writes 500 and its text, unless the
connection was taken, in which case net/http refuses both. Every path that
does not take the connection writes a status, so net/http's implicit 200
when the handler returns without one never applies: there is no path that
reaches it.

**Fairness.** None. The run checks only safety: an action property about
what a single step writes.

**Runs.**

| Run | Result | What it shows |
|---|---|---|
| `devlxd_agent` | passes (41,180 states) | `OnlyTraversalLeaks`: every step that writes keys to the guest writes `user.*` or `cloud-init.*` keys only, or the key that its own `config/{key}` path reaches by traversal. This holds whatever the host answers and however `hostConfig` changes. Its mutant lists every key in `devLXDConfigFilter`. |
| `devlxd_export_truncated` | violation of `SuccessMeansComplete` | The export hook writes the host's 200, then `io.Copy` fails when the host's stream breaks. The 500 of the fallback `Render` is a superfluous `WriteHeader`, so the guest reads 200, half an image and an error text. |
| `devlxd_ubuntu_pro_error` | violation of `NoSuccessOnHostError` | `GET /1.0/ubuntu-pro` decodes the host's error answer, its null metadata unmarshal without error, and the guest reads 200 with empty settings. The token `POST` handler checks `StatusCode` and does not have this defect. |

**Bounds.** There is one request: the agent's goroutines share nothing but
the host. There are two keys, one user key and one private key, and two host
error codes. `ConnectAttempts` is the code's 10, so the loop bound itself is
checked. `arg` ranges over every pair of the two keys, which includes
`user.x/../private`.

**Key traversal.** The stronger invariant `NoPrivateKeyLeak` (`leaked
\subseteq UserKeys`) is defined and does not hold for the agent alone. With
`INVARIANT NoPrivateKeyLeak`, TLC finds a six-step trace on the agent's
config:

1. `Send` a `config/{key}` request with `checked = user`, `resolved = private`.
2. `Dispatch`.
3. `Handle` passes the prefix check.
4. `Connect`.
5. `RawQuery`: the host answers the private key's value.
6. `Render` writes it.

Whether the host's `/1.0/config/{key}` cleans the path is outside the
repository. So the passing run checks `OnlyTraversalLeaks`: the traversal is
the only way out.

**Proof** (`DevLXDProofs`). `OnlyTraversalLeaksHolds` proves
`Spec => OnlyTraversalLeaks` for every set of clients, keys and host error
codes. The run has one request and two keys; the proof covers any number
of concurrent requests. The inductive invariant `KeyIInv` has three facts:

* every pending `resp[c]` carries only user keys, or the traversal key of
  `c`'s own path;
* a `config/{key}` request in `connect` or `query` has a `checked` key that
  is a user key;
* the domains of the per-request functions are the clients.

The second fact is needed because the prefix check (in `Handle`) and the
query that returns the key's value (in `RawQuery`) are two steps apart.
The lemmas `RawQueryHandlerContent`, `ProxyHandlerContent` and
`QueryHandlerContent` bound what each handler can put in a response.
`OnlyRenderLeaks` shows that only `Render` changes `leaked`. `LeakStep`
then gives the step formula from `KeyIInv`. Render leaves the render
step, and `TraversalKeys(c)` is read in the state before it.

## 6. Agent events and disk hotplug (`AgentEvents`)

The host LXD posts events to the VM agent (`eventsPost`, `unnamed/part_003`
97-114). Each event is broadcast to the guest's listeners. The host gets its
200, and only then does a goroutine `eventsProcess` handle the event. That
goroutine hot-plugs a virtiofs disk (116-194). It returns early for
anything that is not an added disk device with a path free of `..`. It makes
the path absolute and creates the directory. Then it tries the mount up to 5
times, half a second apart. Guests subscribe with `GET /1.0/events`
(`eventsSocket`, 43-91), optionally restricted to one type with `?type=`.

**State.**

* `sent`: the events broadcast, in order.
* `resp`: the status of each answer to the host.
* `procs`: one record per goroutine, holding its event, its place in the
  goroutine (`filter`, `mount` or `done`), its target directory, its
  attempts and its outcome.
* `ready`: the shares the guest can mount.
* `dirs`: the directories created.
* `mounts`: the mounts performed.
* Per listener, its state, its `?type=`, the length of `sent` when it
  subscribed, and its queue.

A path is a record of an absolute flag and a sequence of components. The
working directory of the agent is `/run/lxd_agent`. The constants, the
events and the pure steps of `eventsProcess` (`IsHotplug`, `MountSource`,
`AbsPath`) and `ListenerTypes` are in `AgentEventsData`.

**Actions.**

* `Subscribe`: every failure of the upgrade, of the connection or of
  `AddListener` closes without a listener.
* `Disconnect`.
* `PostUndecodable`: the host's body does not decode, or `d.events.Send`
  fails. The answer is 500, no listener got the event and no goroutine
  starts.
* `Post`: broadcast, start the goroutine, answer 200.
* `Filter`: every early return, `filepath.Abs` and `MkdirAll`.
* `MountTry`: one attempt of the loop.
* `ShareReady`: the host's share becomes usable in the guest.

**Fairness.** Each started goroutine is weakly fair: the Go scheduler runs
it, and its loop has no other wait than the bounded sleep. The host, the
guest's listeners and the share make no promise.

**Runs.**

| Run | Result | What it shows |
|---|---|---|
| `agent_events_hotplug` | passes | `MountsAreHotplugs`: every mount is of an added disk with no `..`, from its own share onto a directory created for it, at most once per event. `HotplugSettles` (liveness): every goroutine ends, whether or not the share ever becomes ready. |
| `agent_events_relative_path` | violation of `RelativeHotplugUnderRoot` | The comment before `filepath.Abs` says a relative path is handled "consistent with the way mounts are handled with containers", that is, under `/`. `filepath.Abs` joins it to the agent's working directory instead, so `mnt` is mounted on `/run/lxd_agent/mnt`. The check that the result starts with `/` can never fail. |

**Bounds.** The run has two posts, one device name, one listener and the
code's 5 attempts. `Event` is replaced by `MCEvent`: a hot-plug of a relative
and of an absolute path, plus one event per early return, each differing from
the hot-plug in the one field that return tests. With two posts, two
goroutines for the same device interleave, a mount can race the share
becoming ready, and a listener can subscribe between the two posts. The
inductive invariant below was also checked with two listeners.

**Proofs** (`AgentEventsProofs`), for any names, listeners and bounds:

* `TypeCorrect`. This needs the bound of the loop: a goroutine in the mount
  loop has `tries < MountAttempts`, and one at the filter has `tries = 0`.
* `MountsAreHotplugsHolds`. The invariant is not inductive by itself,
  because `MountTry` relies on a check `Filter` made one step earlier. The
  strengthening says two things. A goroutine at `mount` has a hot-plug event
  and its target is in `dirs`. Every mount belongs to a goroutine that has
  returned `mounted`, and to no other mount. A goroutine still running has
  therefore made no mount, which gives uniqueness.

## 7. Backup configuration pool update (`BackupConfig`)

`UpdateInstanceConfigStoragePool` (`lxd-agent/devlxd.go` 1301-1396) works in
this order:

1. It loads the target pool.
2. It parses `backup.yaml`, and rejects a file without an instance.
3. It calls `updateRootDevicePool` on the devices and on the expanded
   devices of the instance and of every snapshot, and rejects an instance
   that has no root disk.
4. It truncates the file with `os.Create`, then writes the new YAML.

**State.**

* `orig`: the file when the function starts.
* `file`: the file on the volume.
* `mem`: the configuration in memory.
* `target`: the pool.
* `found`: `rootDiskDeviceFound`.
* `pc` and `result`.

A devices map is a function from the two kinds of disk, the root disk and a
data disk, to a pool or `None`. An unparsable file is `Unreadable`. These
data definitions live in `BackupYaml`: `Config`, `updateRootDevicePool`,
`Retarget` (the changes in memory) and `Usable` (the file passes the
parse, the instance check and the root disk check). Both the detailed
module and the abstract one extend `BackupYaml`.

**Abstract specification.** `BackupConfigAbstract` has only `orig`,
`target`, `file` and `result`. It has three actions:

* `Truncate` empties a usable original.
* `Commit` replaces the empty file by `Retarget(orig, target)` and
  reports success.
* `Fail` reports an error and leaves the file alone.

A daemon stop is no step: the file keeps what it holds. The refinement
mapping is the identity on these four variables. `pc`, `mem` and `found`
are hidden. In the detailed model:

* `Create` is `Truncate`.
* A successful `Write` is `Commit`.
* Every early return is `Fail`.
* Every other step, `Crash` included, is a stutter.

**Actions.** `LoadPool`, `Parse` and `Create` may each fail. `Write` may
fail after the truncation. `Crash` stops the daemon between any two steps,
and then only the file survives.

**Run.** `backup_config_import` passes (449,194 states). It uses two pools
under symmetry, and every backup file of at most two snapshots
(`MCBackupFiles`) whose expanded
devices agree with its own. It checks two invariants, and the property
`ImplementsAbstract` (`Abs!Spec`, with `Abs == INSTANCE BackupConfigAbstract`):

* `SuccessRetargetsRoots`: on success, the file names the target pool, every
  root disk is on it, and no other disk moved.
* `UnusableBackupUntouched`: a file without an instance or without a root
  disk is never changed, even by a failure or a crash.

A truncated file left by a crash or a failed write is possible for a usable
backup. The model records that as a hazard; it is what the code does.

**Proofs** (`BackupConfigProofs`), for any pools and any number of
snapshots: `TypeCorrect`, `UnusableBackupUntouchedHolds`,
`SuccessRetargetsRootsHolds` and `Refinement`
(`Spec => ImplementsAbstract`). The inductive invariant has these parts:

* until `Create` truncates it, the file is the original;
* while `Write` runs, the file is empty;
* before the function returns, there is no result;
* from the root check on, the original was usable and `mem` is
  `Retarget(orig, target)`;
* a changed file implies a usable original;
* success implies the file is `Retarget(orig, target)`.

This strengthening is needed because `Create` truncates on the strength of a
check made in the previous step, and `Write` stores `mem`, not a function of
the file. The refinement needs the three facts about the file and the
result: the abstract `Truncate` starts from the original, `Commit` from
an empty file, and each abstract action only from `result = "none"`. The
lemmas `RetargetType` and `RetargetRetargets` state what `Retarget` does
to any number of snapshots. `AbsData` equates the abstract module's view
of `BackupYaml` with the detailed one's. `AbsStep` maps every step to an
abstract step or a stutter, one case per action.

## 8. What is only model-checked, and what is not modelled

Every safety invariant and action property that a passing run checks has a
theorem that states it for every value of the constants. The refinement
`BackupConfig => BackupConfigAbstract` is proved as well.

The following are left to TLC, because TLAPS cannot reach them:

* The liveness property `HotplugSettles` (`AgentEvents`). It rests on weak
  fairness of the goroutines' steps, and the prover does not reason about fairness or
  `ENABLED`. TLC checks it on the run's bounded instance.
* `NoPrivateKeyLeak` (`DevLXD`), which does not hold (see section 5).
* The properties of the violation runs (`UsedRPMatchesHost`,
  `ExpiryNotLost`, `VerifierUsesCurrentProxy`, `SuccessMeansComplete`,
  `NoSuccessOnHostError`, `RelativeHotplugUnderRoot` and, for a provider that
  omits refresh tokens, `SessionSurvivesRefresh`). They do not hold: TLC's
  counterexamples are the findings.
  `SerialUsedRPMatchesHost` proves the case that does hold: one handler at a
  time.
* The helpers on data are not recursive. `Retarget` and `AbsPath` are plain set and function expressions. Lemmas such as
  `RetargetRetargets` therefore state their results for every input, and no
  induction over data is needed.

See `PROJECT.json` "components" for what is not modelled and why.

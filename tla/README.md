# Ashrix: a verification project

Ashrix is a zero-trust access system made of three Go programs. The **control
plane** (`internal/cp`, "CP") keeps organisations, gateways, connectors,
applications, policies and user sessions in PostgreSQL and Redis. **Gateways**
(`internal/gateway`) admit users, evaluate policies and proxy their requests.
**Connectors** (`internal/connector`) sit next to the applications and dial out
to a gateway, once over gRPC (management) and once over QUIC (tunnel). A gateway
holds one bidirectional gRPC stream to the CP. Administrators work in a **web
console** (`web-cp`, React with TanStack Query and Router), which talks to the
CP over HTTP.

This directory holds TLA+ models of the protocols between these programs, TLC
configurations that check them on small instances, and TLAPS proofs of what
matters most for every instance. Paths below are relative to the repository.

    tlasany M.tla                                    parse
    tlc -config MC_X_run.cfg MC_X.tla                check one run
    tlapm X_proofs.tla                               check the proofs of X

`PROJECT.json` lists the runs with their properties, the source lines behind
every definition (`map`), one mutation of the code per property that TLC must
find (`mutants`), what is hard to test in this code and which property watches
it (`hazards`), and where code and documents disagree (`findings`).

| Modules | Models | Status |
| --- | --- | --- |
| `EventLog`, `GatewayEvents`, `GatewayEvents_proofs` | durable commands CP to gateway | checked and proved |
| `RuleReplica`, `PolicySync`, `PolicySync_proofs` | distribution of access rules | checked; safety proved (convergence and refinement: of requests that wait for each other) |
| `PolicyDecision`, `PolicyDecision_proofs` | decisions of the policy engine | checked and proved |
| `ServingSessions`, `ConnectorRegistry`, `ConnectorRegistry_proofs` | live connectors of a gateway | checked; safety and refinement proved |
| `LoginAccess`, `UserSessions`, `UserSessions_proofs` | login, session, revocation | checked; safety and refinement proved |
| `AdminAuth`, `RefreshFlight`, `AdminAuth_proofs` | administrators' tokens in the tabs of a browser | checked; safety and refinement proved |
| `FirstLogin`, `FirstLogin_proofs` | the first setup of an authenticator | checked (through `Console`); safety proved |
| `ListPages`, `FleetPages`, `RecordPages`, `ResourcePages` | the console's tables and the query cache behind them | checked and safety proved (through `Console`) |
| `SettingsPages`, `PolicyForms` | the console's settings and the editors of a policy | checked and safety proved (through `Console`) |
| `Console`, `Console_proofs` | composes all pages of the console | checked; safety proved |

## 1. Inventory

For each component: the state it keeps, its operations, whom it talks to, what
is hard about it, and what makes it correct.

### Durable command channel (`cp/events`, `cp_grpc/stream_handler.go`, `grpc_client/stream.go`)

- *State.* Per gateway: `gateway_event_allocators`, `gateway_events`,
  `gateway_events_acks.last_acked_seq` in PostgreSQL; a wake-up channel of
  capacity one per dispatcher worker; in the gateway a bounded `sendCh` that
  outlives a session, and one goroutine per message.
- *Operations.* Create an event (number and row in one serializable
  transaction), wake the worker, read cursor and pending events, drop the
  snapshots a later one replaces, send; reconcile on Hello; acknowledge.
- *Talks to.* Every administrative service writes events; the gateway's message
  handlers end in the registry, the session store, the certificate store.
- *Hard.* Two senders (worker and reconciliation) read the cursor while
  acknowledgements commit; handlers run in any order but the cursor is
  cumulative; acknowledgements are dropped when `sendCh` is full; wake-ups live
  in memory; restarts on both sides.
- *Correct when* the cursor never passes a command the gateway has not
  received, never moves back, and every committed command is handled.

### Policy distribution (`cp/policy`, `gateway/policy/store`, `gateway/policy/engine.go`)

- *State.* `policies`, `policy_mutations`; `gateway:policy_seq` in Redis; bbolt
  buckets of records, tombstones and the checkpoint; the engine's index.
- *Operations.* Create, update, enable, disable, delete; `Distribute` after each;
  pushes after a Hello; `ApplyDelta` in one bbolt transaction; reload and swap.
- *Hard.* Version and number are read outside the transaction that writes them;
  two distributions read the same acknowledged number; bundles are applied by
  concurrent goroutines; the checkpoint is read before the transaction; a bundle
  is all or nothing.
- *Correct when* a quiet system enforces the rules of the CP, the checkpoint
  never covers a mutation the store lacks, and a deleted rule stays deleted.

### Connector registry of a gateway (`gateway/registry`, `server/grpc`, `server/quic`)

- *State.* One entry per connector with its two sessions, the routing table, the
  list of revoked serials and the list of authorised connectors.
- *Operations.* Attach and detach per plane, displacement of an older session,
  eviction, `CloseAllConnectorConnection`, `VerifyGatewayConnections`.
- *Hard.* Three kinds of goroutines write one entry; checks and attachment are
  separate critical sections; pointers to an entry outlive it.
- *Correct when* the entry holds the open session that is being served, routes
  lead exactly to what is registered, closed sessions leave, revoked connectors
  leave.

### User sessions (`cp/identity`, `gateway/session`, `gateway/server/http`)

- *State.* `user_sessions` rows, one-time tokens in the CP's Redis; gateway
  sessions and an index per CP session in the gateway's Redis; a revocation
  store and a registry of active streams in the gateway's memory.
- *Operations.* Login, token, exchange, `Create`, `Get`, `Destroy`,
  `RevokeByCPSession`, the list of revoked sessions in every HelloAck.
- *Hard.* A revocation reads the index while a callback writes it; the memory is
  lost in a restart; Redis and the database fail half way; expiries.
- *Correct when* a login yields at most one session, a revocation reaches every
  session of the login, and no request is admitted after it.

### Gateway stream manager (`grpc_client/stream.go`, `connection.go`)

- *State.* Current session, reconnect and offline timers, `sendCh`.
- *Operations.* `Run` (connect, run a session, wait 5 s, repeat; give up after
  the offline limit; renew the certificate on an authentication error).
- *Hard.* The offline timer races with a session that starts; the renewal races
  with the rotator; `io.EOF` ends the process (`log.Fatal`).
- *Correct when* it always comes back or stops for good, and never serves
  longer than the offline limit.

### Registry of gateways in the CP (`cp_grpc/registry`)

- *State.* One connection per gateway id; acknowledgement waiters.
- *Hard.* `AlreadyExists` is tested before `Register`, not with it; `Unregister`
  goes by id (`registry.go:109`).
- *Correct when* the registered connection is the one being served.

### Policy evaluation and request path (`gateway/policy`, `router`, `server/http`)

- *State.* Two maps of compiled policies (per tenant, per tenant and
  application), swapped together while requests are being evaluated.
- *Operations.* Compile, build the index and swap it; `Evaluate` (candidates by
  priority, DENY before ALLOW, default deny), subject, resource, path and other
  conditions; the middleware enforces; `Route`.
- *Hard.* A swap between two reads; a policy filed under the wrong map; ties of
  priorities; early returns in `matchesSubject`; the recursion of `**`; the path
  `/`; a condition that cannot be evaluated admits when the policy is a DENY.
- *Correct when* a decision is what one set of rules, that was live when the
  evaluation began, says by a declarative definition, and what is served was allowed.

### Rate limiters (`server/http/ratelimiter.go`, `session/ratelimit.go`, `cp/platform/middleware/ratelimit.go`)

- *State.* Token buckets and windows in Redis, per script; *hard:* clocks of
  several gateways, refill rounding; *correct when* no window admits more than
  burst plus rate.

### Access log (`gateway/logging`)

- *State.* Bounded queue, batch of the current flusher; *hard:* the batch dies
  with its control stream, the queue drops when full; *correct when* each entry
  is sent at most once or is counted as lost.

### Certificates (`gateway/crypto`, `connector/crypto`, `cp/gateway`, `cp/connector`)

- *State.* Certificate and key on disk and in memory, enrolment tokens, serials;
  *hard:* three renewers at once, files written one by one, possession proofs;
  *correct when* disk and memory hold a matching pair and a revoked identity
  cannot renew.

### Administrators (`cp/auth`, `web-cp/src/config/api.ts`, `stores/auth.store.ts`, `views/auth`)

- *State.* `admins` (password, `otp_secret`, `otp_enabled`), `admin_sessions` rows,
  one refresh cookie per browser; per tab a store with the access token (copied
  to `localStorage`) and the promise of a renewal under way.
- *Operations.* Password, then the setup of an authenticator or a code; renewal
  of tokens by the request interceptor; sign-out; change and reset of a password.
- *Hard.* The cookie is shared by tabs that share neither token nor promise; a
  refresh token is accepted once; a renewal is four queries; the answer may be
  lost after everything was written; a secret is read, generated, stored and
  turned on by separate queries while another window does the same.
- *Correct when* renewals of one tab never refuse each other, no request is
  left behind by a dropped promise, and no account comes to ask for codes that
  its administrator cannot produce.

### Web console (`web-cp/src/views`, `hooks`, `services`)

- *State.* The page that the router has mounted; per key of the query cache the
  rows, a fetch under way, an error; the dialog, sheet or form that is open, with
  the row it is about; the values of a form; mutations under way.
- *Operations.* Fetch, poll, invalidate; open, confirm, close; create, re-enrol,
  revoke, drain, delete; fill, edit, save, discard a form.
- *Talks to.* The CP's administrative services, over `api.ts`.
- *Hard.* Answers arrive after the page, the dialog or the row changed; a fetch
  that read before a change answers after it; effects fill a form again over
  edits; empty lists are sent as "everyone"; other administrators change the
  same rows; programs connect while a sheet waits for them.
- *Correct when* no answer lands on another row, a list never stays behind a
  change the console was told of, a form sends what it shows and what its user did
  not touch as it was, and what is marked saved is saved.

### Identity providers (`cp/identity`), organisations, applications

- *State.* Provider configurations with a cache of adapters; single SQL
  statements for the rest. *Hard:* the cache is never invalidated.

### Connector program (`internal/connector`, `cmd/connector`)

- *State.* Management session, tunnel, heartbeat; *hard:* the rotation signal is
  looked at only between two messages (`receiver.go:35`), transports are
  negotiated and retried; *correct when* it always reconnects after a rotation.

### Left aside

The SOCKS server of the connector (sequential per connection and covered by its
tests), certificate authorities and cryptography (signatures are taken as
unforgeable), posture and network lookups (stateless), generated SQL (modelled
where it is used), configuration, telemetry, mail, and the console's dashboard,
layout and component library.

### How the components interact

    administrator -> CP services -> database rows + event log -> dispatcher
                                                                   |
        Hello / PolicyAck / CommandAck                             v
    gateway stream manager  <====== one gRPC stream ======>  CP stream handler
        |            |              |             |                ^
        v            v              v             v                |
     registry   policy store   session store   certificates    HelloAck with
        ^        + engine        + Redis                       lists, pushes
        |            ^              ^
    connectors       |              |
    (gRPC, QUIC)     +-- requests --+-- browsers

    administrator's browser: tabs -> interceptor (one renewal per tab) -> CP services
                             pages -> query cache -> interceptor

Nothing in memory survives a restart on either side; PostgreSQL, both Redis
servers, bbolt and the certificate files do. The only ordering the stream gives
is that of its messages; the gateway starts one goroutine per message
(`stream.go:290`) and so gives it up at once, which is why most hazards of the
list are orderings.

## 2. Plan

Done, in this order: the durable channel (everything else depends on it), the
distribution of rules, the registry of connectors, the sessions of users; then
the side of the administrators, which is where most of the remaining state
lives: their tokens, the first setup of an authenticator, and every page of the
console, composed in `Console`; then the decision of the policy engine, and an
abstract specification of what each protocol of the gateway promises, implemented
by its model (`EventLog`, `RuleReplica`, `ServingSessions`, `LoginAccess`).

What a continuation would add, most important first:

1. The stream manager with its timers and renewals against the CP's registry of
   gateways, two streams of one gateway at once. It would compose with
   `GatewayEvents` by the assumption made there of one accepted stream at a time.
2. Renewal of certificates by three callers with two files and the memory;
   rate limiters under several clocks; the batches of the access log; the
   connector's own retries, which `ConnectorRegistry` leaves free; `Route`, from the
  decision of a request to the tunnel it is sent through.

The runs are few on purpose: one per question. `Console` asks the questions of
all pages in one run, because one page is mounted at a time.

## 3. The modules

### `EventLog` and `GatewayEvents`

`EventLog` is the promise of the channel, three variables and three actions:
*create*, *receive* (a command may be received for the first time only when
everything before it was, up to snapshots a later one replaces) and
*acknowledge* (a received number; the cursor is the maximum). `GatewayEvents`
implements it with the variables of the same names.

| Code | Model |
| --- | --- |
| allocator row, `gateway_events` | `log`: the number is the index |
| `last_acked_seq` (`GREATEST`) | `cursor` |
| dispatcher worker and reconciling stream handler | the two `Senders`, each with `pc`, `from` (cursor it read), `todo` |
| wake-up channel of capacity 1 | `wake`; `owed` counts requests between commit and `Wakeup` |
| stream, registry entry | `alive`, `Registered`, `stale` (the worker holds an older connection) |
| goroutines of `handleMessage` | `started`, `acking`, `working` (past an early acknowledgement): counters per number |
| revocation of the gateway, CRL | `barred`: `Connect` refuses it until it is enrolled again |
| `sendCh` and `sendLoop` | `sendCh` (bounded by `QueueCap`), `up` |
| CRL and connector list in memory | `applied` |

Every query is a step of its own: the cursor, the list of events, each send.
`Fault(kind)` is the only source of broken streams, restarts of either program and
failed queries, but for a renewed certificate, whose new connection breaks the
stream, and a revocation, which ends the process. Whether a handler succeeds is not
modelled: its acknowledgement is the same.

Three commands are acknowledged before their work is done (`stream.go:472`, `:484`,
`:494`). `ROTATE_GATEWAY_CERT` renews, acknowledges, then swaps the connection;
`REVOKE_GATEWAY` acknowledges, then closes its connectors, clears its credentials and
ends itself. They are the `EarlyCommands` and the `FinalCommands`: `QueueAck` leaves
work behind, `FinishWork` does it, and the end of the process cuts it off (`cut`).
`REVOKE_GATEWAY_CERT` is like `REVOKE_GATEWAY`, and the control plane never sends it;
`DRAIN_GATEWAY` does nothing but acknowledge. What these commands do to
the connectors is `CloseAll` in `ConnectorRegistry`.

### `RuleReplica` and `PolicySync`

`RuleReplica` is the promise of the distribution: the control plane *publishes*
one change after the other, and the gateway comes to *enforce* the rules as they
were after one of them, skipping some perhaps, never going back.

| Code | Model |
| --- | --- |
| `policy_mutations`, `policies` | `mutations`, `rows` |
| `gateway:policy_seq` | `acked` |
| HTTP request then its goroutine `Distribute`; `PushSnapshot`, `PushDelta` | a slot of `Tasks` with the point it has reached and what it has read |
| Hello, bundles, acknowledgements | `hello`, `down`, `up` |
| bbolt: records, tombstones, checkpoint | `store`, `tombs`, `checkpoint` |
| one goroutine of `handlePolicyUpdate` per bundle | a slot of `Handlers` |
| the index behind the atomic pointer | `engine` |

The content of a rule is the number of the mutation that wrote it, the finest
content there is: two different contents never look alike. Signatures verify
and rules compile. The slots bound how many goroutines run at once; a message
waits when none is free.

`Patient` is an assumption about administrators, not about the program:
a request begins when nothing is on its way, and the gateway reconnects when no
request runs. With `Patient = TRUE` the rules converge; without it they do not,
see section 6. `Replica` maps the log to the history (`RulesAt(n)`, the rules after
`n` mutations) and the engine to the last change up to the checkpoint that left these
rules (`EnforcedAt`): the engine itself does not know a number that could be compared.

### `PolicyDecision`

| Code | Model |
| --- | --- |
| `byTenantApp`, `globalPolicies` | the two maps, built from a set of rules by `ForApps`, `Globals` |
| swap at the end of `UpdatePolicies` | `UpdatePolicies(R)`, for any set of rules the store may hold |
| a request in `PolicyMiddleware` | `visit[r].stage`: `Arrive`, `Enforce`, `Finish` |
| `Evaluate`: both maps under one lock, then two scans | `Evaluate`, then one `Deny` or `Allow` per candidate, `DefaultDeny` |
| `sort.Slice` by priority (not stable) | any candidate of the highest priority left (`Highest`) |
| the closure `match(pi, pj)` of `glob.go` | `Reach[k]`: where the last `k` segments match the rest, a recursive function |

A scan is a step per policy and updates come between them: that the
decision does not depend on it is to be shown. `rules` and `seen` are history: the rules
the index was built from, and those a request met. `Fits` says what the rules mean
without index, order or matcher; `Covers` what a pattern means, as a way to cut
the path into pieces. Requests do not look at each other, so one at a time is
the general case. `matchesSubject` and `matchesConditions` are stated once and used
in both, because they are their own definition. The root is a pattern with one empty
segment and a path with two, as in the code. Rules in the store compile:
`UpdatePolicies` refuses a bundle with one that does not before it writes.

### `ServingSessions` and `ConnectorRegistry`

`ServingSessions` is what those who send requests see of the registry: a connection has a
slot (connector and plane), gets into service once at most and displaces the one that is
there; an open one leaves only to its successor, to an eviction of its connector, or
with all others. `ConnectorRegistry` implements it, by its phases, open connections
and entries, and with the eviction goroutines at work as `evicted`.

Each stream identity is one connection of one connector on one plane, used once.
`phase` is how far its serving goroutine is: `idle`, `hello`, `authorized` (management)
or `checked` (tunnel), `running`, `done`; every critical section of the registry is one action.
`entries`, `routing` are the maps of `Registry`; `incarnation` counts how often the
entry of a connector was removed, which tells whether the pointer an eviction
goroutine got is still the one in the map. The eviction
(`stream.go:380-402`) is six steps, because it reads the entry twice without the lock;
between the nil test and the second read the management session may be gone:
`Panicking` is that state and `Restart` its consequence. `VerifyGatewayConnections`
runs when a session starts, before its HelloAck is handled.

### `LoginAccess` and `UserSessions`

`LoginAccess` is what a login gives: a token offered once, a holder for
good, one seat at the gateway that is opened once, requests that are served from an open
seat while the login is not barred; only revoked logins are barred. It
knows no Redis, no index and no message. `UserSessions` implements it: holders are the
callbacks with claims or a record, seats their records, barred the logins in the
gateway's memory.

| Code | Model |
| --- | --- |
| `user_sessions` | `row`, `expires`; `revoking` between the update and its event |
| one-time token in the CP's Redis | `token` |
| a visit of the callback, and the id it generates | `Callbacks` |
| `session:<id>` and `index:cp-session:<id>` | `record`, `index` |
| `RevocationStore`, `ActiveStreamRegistry` | `revocations`, `streams`, `cancelled` |
| command channel, HelloAck | `event`, `sent`, `received`, `helloAck`, `synced` |
| message goroutine: `RevocationStore`, then per session of the index | a slot of `Handlers` with `revoke`, `members`, `delete` |

From the command channel this module keeps what `GatewayEvents` proves of it:
redelivery on every stream until acknowledged, and an acknowledgement by a
later event of everything received. The clock is a number; `TTL`, `TokenTTL` and
`GatewayTTL` are the expiries of row, one-time token and gateway session. A
fault is a call to Redis or to the database that fails, or the loss of the stream.
The query behind the HelloAck list may fail too; the code then sends an empty
list, and the model does not count the gateway as synchronised.

### `AdminAuth` and `RefreshFlight`

`RefreshFlight` is what the console promises about renewals, two variables and
two actions: a request *joins* the renewal of its tab, and the renewal *lands*
and lets all of them go. `AdminAuth` implements it.

| Code | Model |
| --- | --- |
| `admin_sessions` rows, the tokens issued with them | one number: `status`, `owner`, `age` |
| the four queries of `Refresh` | `call[c].at`: `sent`, `read`, `revoked`, `ok` or `refused`, a step each |
| `refreshPromise` of a tab | the call it keeps (`Kept`), and the requests held by the interceptor (`Waiting`) |
| cookie, `localStorage`, zustand store | `cookie`, `disk`, `store[t]` |
| `clearAuthAndRedirect`, reload, guards of the routes | `ClearAuthAndRedirect`, `Unload`, `Load` |
| the password, then the code of a login | `form[t]`, `VerifyOTPLogin`, `AnswerVerify` |

The clock is the age of a token (fresh, ending, expired), which only grows, the
oldest first. A fault is a query that fails, the INSERT whose error the service
drops, or an answer lost on the way.

### `FirstLogin`

The pages of one administrator without an authenticator, in any number of
windows. `account` is the pair `otp_secret`, `otp_enabled`; `call` follows each
call through its queries; `scanned` is what the administrator's authenticator
holds. A secret is named after the call that generated it. `proven` and `raced`
are history: secrets a code was checked against, and whether a setup generated a
secret while another one was being stored.

### The list pages

`ListPages` is the machinery the tables share: `history` of the rows as anybody
changes them, `query` per key (the filters of the list, the detail of a row)
with what its fetch has read, `modal` with the row it is about, `call` for the
mutations. An answer carries what its handler knew when it was pressed (`live`,
`closes`). `FleetPages` adds enrolment and polling (gateways, connectors),
`RecordPages` the applications, policies, sessions and logs; `ResourcePages`
puts them together. `owed` is history: the change of the rows the console was
told of last, per filter.

### `SettingsPages`, `PolicyForms`, `Console`

`SettingsPages` follows a form by what it was filled with: an edit is a number,
zero for what the page starts with; timers that simulate an answer are steps.

| Code of the policy editors | Model |
| --- | --- |
| the policy as stored | `row`: which of name, subjects and resources it has, and per condition nothing, one of two settings, one of these made lax, or a device condition without postures |
| `useEffect` that fills the form, `policy.subjects \|\| []`, `block_tor ?? true` | `Filled`: parts the policy lacks become empty, `Strict` of each condition, conditions switched on and never off |
| `buildPayload` | `BuildPayload`, `Sent` |
| `DecodeJSON`, which refuses unknown fields and validates nothing | `UnknownFields` (a time condition of the forms), `IgnoreCreate`, `RefuseUpdate`; `OtherUpdate` stores any of `Contents` |
| `UpdatePolicy`: the name and all conditions replaced, absent lists kept | `Updated`, `CommitUpdate` |

The first settings are what a form may hold, the lax ones what only the API or
the page's own switches produce: Tor let through, a second factor that is
optional. The fetches behind the page are steps, and so are the changes of others
(the page or a program). `Console` mounts one page at a time: the state of the
others does not exist in the program and does not move in the model.

## 4. What is checked

State counts are distinct states of one TLC run.

| Run | Instance | Shows | States |
| --- | --- | --- | --- |
| `events_safety` | two events of three commands: a snapshot, one acknowledged early, one that ends the process; `sendCh` of one; one fault of any kind | the cursor covers only what was received and names an event that is handled, or whose work is going on or was cut off; implements `EventLog` | 5.6 M |
| `events_acked` | two events of an action, room in `sendCh`, a broken stream or a CP restart; fair | every committed event is handled, the cursor catches up | 0.36 M |
| `policy_paced` | two policies, four mutations, two broken streams or restarts, patient; fair | quiet means equal rules, no deleted rule comes back, rules end up enforced; implements `RuleReplica` (`IsReplica`) | 0.18 M |
| `policy_races` | one policy, all five requests, three mutations, two requests at once, one fault of six kinds | the number in Redis was reached; the version of a stored rule goes down only in a bundle that also deletes the rule | 3.1 M |
| `policy_stuck` | a provisioned policy and two updates | *violated*: see section 6 | |
| `decision_decisions` | ten policies, any two of them and some three; six requests of two tenants, one at a time, updates at any moment | the decision is what one set of rules says, what is served was allowed | 66 K |
| `registry_safety` | two connectors, three management streams (two of one connector, with different lists of applications), two tunnels, a revocation, two control-plane sessions, a restart; no evictions | an open stream is the registered one, routes are exact | 3.7 M |
| `registry_evictions` | one connector, two tunnels, one eviction goroutine, two commands, one `CloseAll`; fair | entries hold served sessions, closed sessions leave, condemned tunnels leave; implements `ServingSessions` | 0.16 M |
| `sessions_safety` | a login, two callbacks, a request, a logout, a handler, one fault, one restart, clock to 3; fair | acknowledged is known, acknowledged is not admitted, every revocation takes effect; implements `LoginAccess`, one record per login with it | 0.53 M |
| `sessions_streams` | a login with a request being proxied | *violated* | |
| `admin_requests` | one tab, every kind of request, two rows, a change of the password, one fault; fair | implements `RefreshFlight`, every request ends, a rotated cookie is replaced or on its way unless its answer was lost or dropped by the page | 0.12 M |
| `console_pages` | each page: two rows, two calls, two changes, one fault; three edits of the settings; every condition of a policy, stored by the console or by the API; two windows setting up an authenticator with five calls; fair queries | see below | 0.35 M |

`console_pages` asks of the tables that a sheet shows the commands of its own row
(`SheetMatchesTarget`), that an answer closes only what its own row has open, unless an action on gateways
or connectors was confirmed twice (`ClosedByOwnAnswer`), that no list stays behind a change the console was told
of (`ListCatchesUp`) and that a sheet shows a program that connected
(`EnrolmentSeen`); of the settings that what is not marked changed is saved
(`CleanMeansSaved`) and that an issuer is never sent under the name of another
provider (`IssuerOfProvider`); of the editors that an untouched condition sends
what was read, or the same made strict, or nothing where nothing was asked
(`FormIsFaithful`), that "everyone", "everything" or no name is sent only in place of
what the policy that was read last does not have (`NothingByDefault`) and that only a
changed policy takes edits away (`EditsSurviveRefetch`); of the sign-in that no account asks for codes nobody
has (`NobodyLockedOut`) and that only overlapping setups turn codes off
(`OnlyRacesDisable`).

**Why the bounds are enough to be interesting.** Two events suffice for an
acknowledgement out of order, a superseded snapshot and a wake-up during a send; a
queue of one is full with the first acknowledgement. Four mutations create, update
and delete one policy and touch a second. Two management streams of one connector
displace each other while a third belongs to another. Two callbacks present one
token; the clock passes every expiry (1, 2 and 3). The instances of
`UserSessions` have one login, that of `AdminAuth` one tab; more are covered by the
proofs. The ten policies use every condition the engine has, the two ways a policy is
for all applications, the two effects, equal priorities and each kind of segment, and
the six requests meet and miss each of them. Two rows of `AdminAuth` are a login and
a renewal whose answer meets a reload, a change of the password or a lost answer; two
rows and two calls of the console are a late answer and somebody else's row.
The conditions of a policy are looked at one by one by the properties, so one
edit in the update page, with any combination of what was read before, is
enough; the four contents of a stored policy are two that the console sends, and two
that only the API does: one for nobody and nothing with lax conditions, and one without
a name with a schedule and a device condition that asks for nothing. Five calls of the sign-in are two windows with a setup each, and an
enrolment. Each property is broken by a
mutation of the code listed in `PROJECT.json`, under the bounds of its run.
Larger instances were also run by hand: `UserSessions` with two handlers and two
faults, with two logins (`GivesAccess`, 6 M states); `PolicySync` with three faults;
`AdminAuth` with two tabs, three rows and the requests of a page
(`CookieReplaced`, `NoSelfEviction`, 0.72 M states).

**Deadlock** is not checked: requests are bounded, so every instance ends in
states where nobody asks for anything, and a real system may be idle.

**Symmetry** permutes slots of goroutines (`policy_races`), the connections of
one connector (`registry_safety`) and interchangeable browsers
(`sessions_streams`), only in runs without liveness.

**One property holds on purpose only without a command.** `OpenIsRegistered` is
checked without eviction goroutines: the eviction of `stream.go:396` detaches
whatever tunnel is registered when it gets there, so an open tunnel may be
out of the registry until its connector reconnects. What holds with evictions is
`KeepsServing`: nothing else takes out an open connection, and none comes back.

## 5. Fairness

Fairness is weak everywhere and given only to what a live Go scheduler, a timer or
the operating system carries out by itself; nobody is obliged to make a request, and no fault is
obliged to happen or to stop, but the number of faults is bounded.

- `GatewayEvents`: `Wakeup` (the request goes on after its commit), the worker and
  each sender (their goroutines run), `OpenStream` (the stream manager retries every
  5 s), the CP's receive loop (`CommandAck`) and the return of a broken handler,
  the gateway's receive loop, each message goroutine (`FinishWork` included), `SendLoop`, `SessionEnds`
  (keepalives end a session whose stream is gone).
- `PolicySync`: weak fairness of the disjunction of all steps but `Begin` and the
  faults. This is weaker than fairness of each goroutine.
- `ConnectorRegistry`: the goroutine of each stream (it notices a closed
  connection), each eviction goroutine, the stream manager's own steps, and the
  restart of a process that dereferenced nil (a supervisor restarts it). Connectors are
  not obliged to connect.
- `UserSessions`: the stream is connected again, a message on the stream is
  received, each message goroutine runs. Users are not obliged to do anything.
- `AdminAuth`: the control plane works through each call it has begun, and each
  request of a page is answered or fails (the browser ends it). No user action,
  reload or fault is fair.
- `Console`: the fetches of the mounted list are answered, and polling intervals
  elapse. No mutation, no program and no administrator is obliged to move.

## 6. Where code and documents disagree

Two runs show a disagreement that TLC must find; `PROJECT.json` quotes the
document and the line.

- **`Converged`** in `policy_stuck` (`policy_distribution.go:67`). A second mutation
  before the first is acknowledged gives a delta that repeats the first, refused as
  a whole and not sent again until another mutation or a reconnection.
- **`StreamsFollowSession`** in `sessions_streams` (`session.go:302`). Streams are
  registered under `session:<id>` and revoked under `<id>`: none is cancelled.

Four more are stated as definitions and fail when they are added to a run:

- **`SnapshotsCurrent`** (`stream_handler.go:375`; add it as an INVARIANT of
  `MC_GatewayEvents_safety.cfg`). The revocation list lives in the gateway's
  memory; its command was acknowledged, HelloAck does not carry it, so after a
  restart the list is empty until the next revocation, whereas
  `docs/03-networking/connection-lifecycle.md:11` says that it is sent.
- **`RevokedLeaves`** (`register.go:109`; add it as a PROPERTY of
  `MC_ConnectorRegistry_evictions.cfg`, with a second management stream). The
  checks of a connection and its attachment are two critical sections; a
  connector revoked in between stays (`docs/04-security/mtls.md:176`).
- **`PasswordChangeEndsSessions`** (`auth_service.go:532`; add it as an INVARIANT of
  `MC_AdminAuth_requests.cfg`). A renewal that has read its row before a change of
  the password creates another one after it, whereas `auth_service.go:423` says
  "Revoke all sessions — forces re-login on all devices".

- **`FailsClosed`** (`compiledpolicy.go:157`, "fail-closed if schedule is missing"; add it as
  an INVARIANT of `MC_PolicyDecision_decisions.cfg`). The cache of schedules is made
  empty (`engine.go:49`) and nothing fills it: an ALLOW with a schedule never
  applies, but neither does a DENY, and what it should refuse is served.

Other statements one might expect, met while modelling, that do not hold.
In the gateway and the control plane:

- a command acknowledged early is lost if the gateway ends before its work is done:
  a revoked gateway that restarts within ten seconds of its acknowledgement keeps
  its credentials, and nothing sends the revocation again. This is what the second half
  of `AckFollowsHandler` admits;
- a gateway revoked while it is disconnected never reads its revocation, because `Connect`
  refuses it; the command waits in the log, and when the gateway is enrolled again it
  ends the new process (`EnrollGateway` leaves the cursor where it was: acknowledging
  number 0 changes nothing, `gateway_service.go:253`);
- a cumulative acknowledgement also acknowledges earlier commands whose handlers
  are still running, and after a crash of the gateway they are gone
  (`AckFollowsHandler` is stated for the event the cursor names only);
- an attachment only adds routes (`register.go:146`): when a connector comes back with a
  shorter list, the applications it no longer announces still lead to it, and they do
  so until the gateway restarts if its entry is removed after that (`RoutesExact` excepts
  them, and nothing else). An application of two connectors leads to the last one that
  attached, and its route goes with whichever entry is removed first;
- with overlapping requests, `NoResurrection` and `Converged`
  both fail: a tombstone carries version 0, the rules and the number of a snapshot are two
  queries, an index loaded early can be swapped in late, numbers are read outside
  the transaction, two DELETE mutations refuse each other, snapshots overtake each other;
- the version of a stored rule may go down: a version read long before is committed
  under a number after the DELETE of its policy, and one bundle carries both;
- a disabled rule stays enforced at a gateway that gets it in a delta (the engine ignores
  `enabled`), while a snapshot leaves it out;
- a revocation does not always delete the record in Redis (`mtls.md:273`): a callback
  may write it after the index was read. It is refused all the same, which is
  what `AckedNotAdmitted` says;
- a session revoked in the database whose event could not be written is
  not revoked at the gateway until its next HelloAck, and a second attempt finds no active row;
- when the list of revoked sessions cannot be read, the HelloAck goes out empty and a
  restarted gateway is without its revocations until the next one:
  `RevocationTakesEffect` assumes that the lists arrive (`ListsArrive`).
- the pattern `/` matches no path, and the path `/` matches `/*/*` (`glob.go:21`, `glob.go:32`):
  the root is one empty segment as a pattern and two as a path;
- a policy that names users ignores the source applications it also names
  (`compiledpolicy.go:51`), and one that asks for a second factor applies to nobody, because
  the middleware leaves the level empty (`middleware.go:44`);
- `Route` would evaluate policies for requests between applications
  (`router.go:94`), and its only caller from a tunnel asks it not to (`quic.go:161`);
- `RevokeGateway` drops the reason it is given; a heartbeat keeps a gateway `draining`.

Of the administrators:

- the sign-out sends `GET /auth/logout` (`auth.service.ts:95`) where the control
  plane registers `POST` (`auth_handler.go:444`): no row is revoked, and the
  cookie would not be cleared either, for its path is another one;
- `Refresh` ignores the error of its INSERT (`auth_service.go:532`): the tokens it
  then hands out cannot be renewed;
- `UpdateAdminOTP` writes `otp_enabled = false` whatever it is by then
  (`auth_service.go:163`): a setup that overlapped another one can turn codes off
  and replace a secret that is in use. `OnlyRacesDisable` says that nothing else can;
- the secret a second attempt of a failed first setup is answered with is stored
  nowhere: the page shows no code to scan until it is reloaded (`enroll-totp.tsx:66`).

Of the console, none of which the properties of `console_pages` claim:

- the filter of the applications is never applied, because `??` binds it to the
  wrong operand (`applications/index.tsx:22`), and their delete button does
  nothing (`applications-table.tsx:84`);
- an action confirmed twice, which the guards of the drain of a gateway and of the
  revocation of a connector allow, closes the dialog of another row, and the answer
  of the action of that dialog may then close a third one;
- the form that creates a public application is never reset: the warning of the
  next one is not shown;
- the control plane leaves `block_tor` out when it is false (`policy_dto.go:47`) and
  the page that updates a policy reads what is left out as true
  (`policy-update/index.tsx:136`): a policy that lets Tor through blocks it once
  anything of it is saved, if only its name. A second factor that is optional
  becomes required and a device condition without postures goes away the same way;
  `FormIsFaithful` says that this is all that changes, and always towards less access;
- the control plane does not validate a policy (`DecodeJSON` only decodes), so the API
  may store one without subjects or resources. A refetch that brings one empties
  the lists behind an open summary (`index.tsx:118`), which is not checked
  again: Confirm sends the group "everyone" and the application "*" (`index.tsx:261`).
  `NothingByDefault` says that this is the only way. To the gateway a policy without
  subjects is for everyone, while "everyone" is a group like any other;
- both forms send a time condition with `timezone` and `rules`, which `TimeCondition`
  does not have (`policy_dto.go:50`) and `DecodeJSON` refuses (`validator.go:25`). An
  update is answered with 400 (`policy_handler.go:239`); a creation returns without
  writing an answer (`policy_handler.go:123`), so the page reports success and
  nothing was created;
- an update of a policy does not invalidate that policy, its versions are never
  fetched again, and an update based on an old version overwrites a newer one;
- the settings mark as saved what was edited while the save was under way
  (`identity.tsx:131`), and a timer of a test or an invitation reports on a
  form that was switched or opened again; on the page of the providers, whose calls
  are simulated, choosing another one does not count as a change.

## 7. What is proved

Each proof module extends its component and proves its theorems for every value
of the constants allowed by the named assumptions (and, where said below, by a named
predicate of the proof module, such as a finite number of calls): any number of
events, connectors, streams, sessions, handlers, faults and restarts.

**`GatewayEvents_proofs`**, from `EventsAssumption`. `TypeCorrect` is by groups of
variables (flags, counters, senders, queues, handlers). `AckedReceived` is not
inductive: it holds because of how events travel. `DeliveryInv` adds

- `KnownNumbers`: only allocated numbers travel;
- `ReceivedInOrder`, `FlightInOrder`, `SendersInOrder`: read in sending order,
  each event is preceded by all that came before it in the log, up to
  superseded snapshots: in what was received, what is in flight, what a sender
  whose stream works has still to send;
- `CursorReads`: a cursor a sender has read is a past value;
- `AckSources`: what is acknowledged was received, and handled or begun by a handler
  that acknowledges early (`WorkSteps`: its work ends, goes on or is cut off).

The heart of the argument is `CursorReads` with `AckedReceived`: a sender that starts
from an old cursor repeats events but never skips one, because everything below
the cursor it read was received. `AckedReceivedHolds`, `AckFollowsHandlerHolds`,
`CursorMonotoneHolds` and the refinement `KeepsPromiseHolds` (each step is a step
of `EventLog` or a stutter) follow.

**`PolicySync_proofs`**, from `PolicyAssumption`. Three theorems hold for any number of
requests at once and whatever fails. `PolicyTypeCorrect` needs `Room`: the versions
and numbers that requests read outside their transactions are at most one more than
the log is long, and the log has room for each request that is running.
`AckedReachedHolds` needs `NumbersReached`: every number on its way to Redis (queued,
sent, in a Hello, in a goroutine that will acknowledge) was a checkpoint.
`StoredVersionsGrowHolds` looks at one application of a bundle. What `ApplyDelta` does to a policy is a recursive function over a sequence of records, so
`ReplayFunction`, `ReplayEnds` and `ReplayAccepts` are proved by an induction over
numbers, which `SetInduction` gets from the well-foundedness of `<` on the naturals
(the library's own induction theorems cannot be instantiated here).

`ConvergedHolds` and `NoResurrectionHolds` are for `Paced`: the requests of
`policy_paced` (create, update, delete, each waiting for quiet) and broken streams
and restarts of either side, any number of each. Without the pace both are false
(section 6). `PacedInv` says

- `LogOrdered`, `RowsExact`: the log of a policy is its updates with growing
  versions, then at most one DELETE, and the row is what the newest one says;
- `StoreExact`: the gateway's store is the log up to the checkpoint, tombstones
  included;
- `StreamFine`, `HandlersFine`, `TasksFine`: every bundle on its way is `Fresh`: it
  starts from the checkpoint, or was overtaken by another that has brought the store
  to the end of the log, where it leads too; goroutines that have applied theirs
  know the checkpoint; one request or push runs at a time;
- `AcksFine`: the last number on its way to the CP is the checkpoint;
- `Underway`: a connected gateway that is behind is being served;
- `EngineExact`: the engine holds the store, or will be given it.

Then `Settled` leaves the first alternatives only, and the engine is the store, which
is the log to its end, which is the rows.

`ReplicaHolds` is for `Paced` too: with `StoreExact` the store is `RulesAt(checkpoint)`;
the engine holds rules of some change up to the checkpoint (`EngineKnown`),
and a step that changes the engine loads the store, so `EnforcedAt` does not go back.
A mutation appends to the log and leaves every earlier `RulesAt` as it was.

**`PolicyDecision_proofs`**, from `RulesAssumption`, for any requests, tenants,
applications, rules and updates; sets of rules need not be finite. `MatchIsCovers`
shows that the matcher finds a match exactly when the path can be cut up: by an
induction over the segments from the end (`UpTo`, from the well-foundedness of `<`),
`Reach` is the function its recursion describes (`ReachFunction`) and
its positions are those from which the rest of the pattern cuts up the rest of
the path (`ReachFindsCuts`, `CutsStep`). Then `CandidatesFound` (the index leads to
the rules for a tenant and application, and no others), `MatchesIsApplies` and
`HighestFound` tie the engine's operators to the declarative ones. The invariant is
`IndexInv` (the maps are those of `rules`) and `VisitInv`: what a scan has struck
off does not apply (`Left`), and what it has left, it keeps from the rules it met
whatever is swapped in. `DecisionFitsHolds` and `ServedIfAllowedHolds` follow.

**`ConnectorRegistry_proofs`**, from `StreamsAssumption` and `BoundsAssumption`. The
invariant is the types by groups and `SessionsServed`; a detach needs it because it
compares the session of the goroutine that ends with the one in the entry.
`OpenIsRegisteredHolds` assumes `Handlers = {}` and `RoutesExactHolds` that no two
connectors announce the same application (`DisjointApps`), whatever list each of
them announces from one stream to the next. The second also needs that an entry
announces nothing (a tunnel made it) or what a stream that attached announced
(`Announced`), and that such a stream never comes back (`PastStays`): a route that
an attachment leaves behind is then one its connector dropped (`AttachRoutes`).
`KeepsServingHolds` needs no more than the invariant, and neither assumption on
evictions or applications: a detach takes out the session that ends or nothing
(`DetachOut`), an attachment enters (`Enters`), and every other step of the registry is a
step of `ServingSessions` or a stutter.

**`UserSessions_proofs`**, from `SessionsAssumption`, `NoneAssumption` and `TimesAssumption`. The
invariant `IInv` has eight typed groups and

- `HeldOnce`: a callback holds claims, or a record exists, only from a spent
  token, and no two for one login. It gives `OneSessionPerLogin`;
- `OnlyRevoked`: everything on its way to revoke a session (event, message,
  handler, HelloAck) concerns a revoked row. With it, the deletion of an index
  keeps `IndexedUnlessRevoked`;
- `RevocationsExact`: the memory holds the expiry of the row;
- `ReceivedIsTold`: what a gateway process ever received is known to this one or about
  to be recorded, unless this one is not yet synchronised and the HelloAck that will
  synchronise it tells it again. It gives `AckedIsKnown`, and, with the guard of
  `Admit`, `AckedNotAdmitted`.

`CursorMonotone` (of the durable channel) and `IndexedUnlessRevoked` are proved without
a run of their own.

`GivesAccessHolds` needs two facts more
(`AccessInv`): the claims of a callback come from a spent token and are those of its
record (`ClaimsSpent`), and a request under way carries the claims of the callback it
came with (`VisitsClaimed`). A token that is spent stays spent, so there is no second
holder, and a seat that was closed is not opened again. `TokenTTL > 0` is part of
`TimesAssumption`.

**`AdminAuth_proofs`**, for some tab and finitely many calls (`SomeTabs`). The types
are not inductive by themselves: the INSERT of a renewal stays within the bound
because each call past its guard holds room for a row (`RoomKept`, by cardinalities),
and a code is checked for somebody because a page that forgets the administrator
forgets the request (`CodeOfSomeone`). The refinement needs `FlightInv`: a kept
call is under way, a tab keeps one at most, and exactly when requests wait. Every
step is one of three: aside (`Aside`), a request joins (`Joins`), the renewal lands
(`Lands`). `SharesFlightHolds` and `WaitersShareOneCallHolds` follow.

`CookieReplacedHolds` and `NoSelfEvictionHolds` rest on `TokenInv`, for any number of
tabs of a browser and of faults: rows are new when they are created (`RowsNew`); a
call that its tab has dropped counts as a lost answer (`LostWhenDropped`); if the row
of the cookie was rotated, the call that rotated it is still to answer with the next
row, or its answer was lost (`CookieRotated`); and a row that a kept call of this tab
presents and that this tab rotated was rotated by this very call (`OwnRotation`), so a
call that finds its row rotated was overtaken by another tab.

**`FirstLogin_proofs`**, for any natural numbers of calls and faults (`Bounded`) and any
set of windows. `NobodyLockedOut` needs that a secret on its way to be turned on
was scanned and proved (`EnrolmentProven`), which needs that codes come from
scanned secrets (`CodesScanned`). `ShownIsStored` and `OnlyRacesDisable` need that,
while no two setups store at once, the one that stores finds no secret
(`FirstStores`): a secret in use is then never overwritten, because the account
would have none to prove.

**`Console_proofs`**, from the assumptions of `Console`. The console mounts one page at
a time, so each step of it is a step of one page and leaves the others alone:
`ListsRun`, `SettingsRun`, `PolicyRuns` and `LoginRuns` show that `Console` implements
the specification of each of its pages. What a page promises it promises in the
console; the theorems of `FirstLogin_proofs` are taken over that way
(`LoginNobodyLockedOut`, `LoginOnlyRacesDisable`).

- `SettingsInv`: with `CleanMeansSaved` goes what a save under way sends
  (`SavesConfig`), with `IssuerOfProvider` that an issuer of one provider is in the
  form of that provider only (`IssuersGoWith`); every timer of an invitation was
  typed for (`TimersTyped`).
- `PolicyInv`, for any set of contents that others may store (`PolicyAssumption`):
  with `FormIsFaithful` goes that while the summary is open the form is complete or
  has the parts of the policy that was read last (`SummaryComplete`), because the
  editor stays closed behind it and only an answer fills the form; and that an answer
  on its way is a policy that was stored (`AnswerIsStored`). `NothingByDefault` is the
  action property that follows for `Confirm`.
- `ListsInv`: what a fetch has read is a state of the rows there was, and the calls on
  their way have room left in the history (`FetchesOK`, `RowsOK`); calls are numbered
  without gaps (`CallsOK`); what is open is of this page (`OwnModal`); while a call of
  the re-enrolling sheet is under way the sheet stays, on its row or on none
  (`SheetOfUpdate`); while a call that will close the dialog is under way the dialog
  is its own (`DialogOfAction`), which is where the guards of the drain and of the
  revocation come in.

`ConsoleTypeCorrect` puts the four types together.

**Two properties that their proofs corrected.** Both held in their runs and were
false on larger instances. `StoredVersionsGrow` said that versions never go down
while the rule is there; a few more overlapping requests can put a DELETE and an
older version in one bundle. `ClosedByOwnAnswer` only exempted the answers of
the twice-confirmed action itself; with three calls (`MaxCalls = 3`, gateways) the second
answer of such an action closes somebody else's dialog, whose own answer closes the
next. The definitions now say so.

**Proved and not run.** What a refinement of the same run already says has no place
of its own in the runs: `OneSessionPerLogin` follows from `GivesAccess`. `NoSelfEviction`
needs a third row beside the liveness of `admin_requests` and was run by
hand. The type invariants of `PolicySync`, `PolicyDecision`, `ConnectorRegistry`
and `UserSessions` are proved; the runs check those of the other modules.

**Only model-checked.** The liveness properties (`EventuallyHandled`, `EventuallyAcked`,
`EventuallyEnforced`, `ClosedLeaves`, `CutOff`, `RevocationTakesEffect`,
`RequestsSettle`, `ListCatchesUp`, `EnrolmentSeen`), because the prover has no rules
for fairness and `ENABLED`, and the two violations. Every invariant and every
action property that a passing run checks, and every refinement, is stated by a theorem.

## 8. What is not modelled, in the modelled components

- Durable channel: several gateways (they share no state), the payloads, the
  waiters of `ResolveAck` (no caller), the timer that ends an offline gateway,
  two streams of one gateway at once: `Unregister` goes by id and would remove the
  younger one (`registry.go:109`).
- Policies: validation of rules, signatures, the audit log, queries that only
  read. Snapshots leave disabled policies out (`policies.sql.go:860`). Of the engine: the
  reason given with a refusal, the time of day of a schedule (none is ever loaded),
  trimming of slashes beyond the root, and the rebuilding of the index as part of the
  transaction, which is in `PolicySync`.
- Registry: heartbeats, health of applications, `SetState` (no caller).
- Sessions: the `state` parameter of the two redirects, providers and their
  configuration, the domain of the cookie at logout, `RemoveExpired` (no caller).
  The token is rounded to seconds when signed, after its row: it may be
  valid for part of a second after the row expires; the models have one expiry.
- Administrators: registration, password reset by mail, rate limits of the
  sign-in. A browser has one cookie; several browsers share nothing.
- Console: wording, layout, search boxes, pagination, copy buttons, the dashboard
  (constants) and `services/api.ts` with its mock data (imported by nothing that
  is mounted).

Components without a model, and why: the rate limiters are scripts of Redis that
run alone; the access log is output, and
loses the batch of a flusher whose last send fails (`access_logger.go:173`);
three renewers of the gateway's certificate read the old one under one lock and
write under another (`gatewaycert.go:185`), which only costs a renewal; the
connector sees the signal of a rotation between two messages only
(`receiver.go:35`); the cache of adapters of identity providers is never
invalidated (`identity_service.go:469`). None of them shares state with a modelled
component beyond the inputs that are modelled there.

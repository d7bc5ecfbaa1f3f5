# Ganglion fabric and Dendrite: TLA+ models and proofs

This directory holds the verification project for the repository: TLA+ modules
translated from its source, TLC configurations that check them on small
instances, and TLAPS proofs that hold for instances of every size. File
references are to the repository (`src/...`).

## 1. Inventory

### 1.1 The system

A *fabric* is a Cloudflare Worker whose single durable object, `FabricRoom`,
knows a set of *Dendrite* nodes. A node is a Python process next to a GPU. It
keeps one outbound WebSocket to the room, reports a snapshot of its runtimes
every few seconds and executes the requests the room pushes down that socket.
Agents submit tasks over HTTP or MCP, and read results later.

```
 agent --HTTP/MCP--> Worker front --> FabricRoom (SQLite, alarm)
                                        |  ^ heartbeat, result
                                execute v  |
                                   WebSocket per node
                                        |  ^
                              Dendrite bridge --> node --> runtime lanes
```

| component | state | operations | interacts by |
|---|---|---|---|
| FabricRoom coordinator, `src/fabric/worker/index.ts` | tables `nodes`, `connections`, `jobs`, `reservations`; storage alarm; hibernatable sockets with attachments | `connectNode`, `webSocketMessage` (heartbeat, result), `webSocketClose/Error`, `createTask`, `prune`, `alarm`, token revocation | socket messages, close events, alarm, requests |
| Placement and inventory, `src/fabric/worker/domain.ts` | none (pure) | `nodeStatus`, `placementCandidates`, `aggregateFabricState`, sanitizers | called by the room |
| Access store, `src/fabric/worker/access.ts` | tables `access_tokens`, `access_sessions`; the configured bootstrap token | authenticate bearer or cookie, create and revoke tokens, create, delete and prune sessions | called by every request; awaits SHA-256 in the middle |
| HTTP and MCP front, `index.ts` `fetch`, `http.ts`, `mcp.ts` | none | parse, authenticate, dispatch | calls the room |
| Runtime lane, `src/dendrite/runtimes/*`, `cache.py` | state, resident model, instance, lane lock, `closing`, child process, quarantine, prefix candidate | `execute`, `load`, `unload`, `close`, `snapshot`, cancellation | asyncio lock, child process, local HTTP |
| Dendrite node, `src/dendrite/node.py` | runtimes and models | `select`, `execute`, `load`, `close`, `snapshot`, `refresh_attached` | lanes |
| Fabric bridge, `src/dendrite/fabric.py` | `active` tasks, `completed` history, socket | `serve_connection`, `heartbeats`, `execute`, `receive`, `run_fabric_bridge` (backoff) | WebSocket to the room; node |
| Dendrite HTTP API, `api.py`, `schemas.py` | background tasks | lifespan, routes, heartbeat publication | node, bridge |
| Configuration, probing, metrics: `config.py`, `hardware.py`, `performance.py`, `cli.py` | none | parse, probe, format | node |
| Operator scripts, `src/bin/*`, `src/fabric/scripts/*` | files, remote tokens | issue tokens with compensation, smoke tests | HTTP |
| Dashboard, `src/fabric/src/*` | React state | poll and render | HTTP |

`src/docs/ambiguous-integration.md` describes a hand-off protocol whose code is
not in this repository; there is nothing to model.

### 1.2 What is hard

* **Ordering.** A node reconnects before the close event of its old socket is
  delivered; a result, the alarm and a prune race at a deadline; messages
  arrive on sockets that were already told to close.
* **Timeouts prove nothing.** A job that timed out may still be computing. Its
  runtime must stay reserved until the node demonstrates that it is idle.
* **Crashes.** A restart of the durable object's host keeps the tables and
  loses the sockets, without close events.
* **Stale data.** Placement decides on snapshots; a snapshot from before a
  reconnect says nothing about the runtimes of the new process.
* **Awaits.** A durable object interleaves requests at every await: between
  reading and hashing a body, a token can be revoked or a cap reached.
* **Cancellation.** In Dendrite every await is a point where a task can be
  cancelled, with a child process running.

`PROJECT.json` lists every hazard at its line under `hazards`, with the
property that covers it or the reason why none does yet.

### 1.3 What makes each component correct

* *FabricRoom*: at most one job per runtime, quarantine included; a running job
  owns its reservation and belongs to its node's current connection; no
  reservation leaks; a job is settled once and the deadline decides how; every
  job settles; placement uses the current connection's own fresh heartbeat;
  revocation ends running work.
* *Placement*: the first candidate is eligible and none is better; a prefix
  hint never points at another model's, process's or expired cache, and no usable
  one is lost.
* *Access store*: no session or token outlives the authority it came from,
  whatever happens during an await; the caps hold.
* *Runtime lane*: what is advertised (resident model, prefix candidate, state)
  is what the native server really serves; a server whose generation may still
  run is stopped or not used again; every call leaves the lane; shutdown
  completes and is final.
* *Bridge*: one execution per job id; every accepted request is answered or ends
  with its connection; nothing keeps running for a lost connection.
* *Room and bridge together*: what a node works on has its reservation in the
  room, which knows the node's lanes only through reports and timeouts.
* *Dashboard*: late answers never show what is not true for good; no button stays
  disabled.

## 2. Plan

| order | module | about | status |
|---|---|---|---|
| 1 | `FabricRoom` | the coordinator | done |
| 2 | `RuntimeLease` | what a reservation promises; `FabricRoom` implements it | done, proved |
| 3 | `FabricRoomHistory`, `FabricRoomHistoryProofs` | the coordinator against a record of all heartbeats | done |
| 4 | `FabricRoomProofs` | every safety property of the room that the runs check | done |
| 5 | `AccessStore`, `AccessStoreProofs` | tokens and sessions with their awaits | done |
| 6 | `RuntimeLane`, `RuntimeLaneProofs` | one runtime: lane, cancellation, child process, shutdown | done |
| 7 | `NodeBridge`, `NodeBridgeProofs` | node and bridge: active and completed sets, heartbeats, disconnect, backoff, shutdown | done |
| 8 | `Placement`, `PlacementProofs` | parsing of reports and tasks, inventory, eligibility and preference order | done |
| 9 | `Dashboard`, `DashboardProofs` | the browser tab: requests, timers and late answers | done |
| 10 | `FabricSystem`, `FabricSystemProofs` | room and bridge composed over a WebSocket | done |

Composition: `FabricSystem` instantiates `FabricRoom` and `NodeBridge` and joins
them by messages; `FabricRoom` instantiates `RuntimeLease` as its abstract
specification; `FabricRoomHistory` extends `FabricRoom`. What is left is listed
in section 6.

## 3. Modules

### 3.1 FabricRoom

A durable object is single threaded. Between two awaits nothing interleaves, so
each handler segment is one action and all concurrency is in the order of
actions. Tables are functions: a row is a function value, a missing row `None`.

| variable | code |
|---|---|
| `connections[n]` | table `connections` |
| `lastSeen[n]`, `snapshot[n]` | table `nodes`; a runtime of the snapshot is reduced to absent, busy, ready (a placement candidate) or unready |
| `jobs[j]` | table `jobs`; `unused` and `deleted` stand for no row |
| `holder[l]`, `idleSeen[l]` | table `reservations`, keyed by lane = (node, runtime) |
| `alarm` | the storage alarm |
| `socket[c]`, `attachment[c]` | the server side of connection `c`: readyState and principal |
| `tokenState[t]` | what `rowIsActive` says of a node token |
| `now` | `Date.now()` |

| action | handler |
|---|---|
| `ConnectNode` | `connectNode`: fail the old connection's jobs, close the old socket, upsert, mark unseen |
| `MessageUnauthorized`, `MessageSuperseded`, `MessageMalformed` | the refusals of `webSocketMessage` |
| `Heartbeat` | `recordHeartbeat`, quarantine bookkeeping included |
| `ResultInTime`, `ResultLate` | `recordResult` on either side of the deadline |
| `PeerGone`, `SocketGone` | the network or the peer closes; later, the close or error event |
| `CreateTask` | the last segment of `createTask`, with `send` succeeding or throwing |
| `ApiRequest` | `prune`, which every authenticated request runs first |
| `Alarm` | `alarm()` |
| `RevokeToken`, `ExpireToken` | `DELETE /api/tokens/:id`; the passing of `expires_at` |
| `Restart` | the host restarts: sockets are lost without events, storage stays |
| `Tick` | the clock |

Abstracted: which candidate is best (any may be), who owns a job, payloads and
error texts, and read-only routes (they still prune: `ApiRequest`). An alarm may
be arbitrarily late, as the code's comment expects. A request's first segment
(prune) and its last (`CreateTask`) are separate actions without a memory of one
another; the header of the module says why this adds no behaviour.

### 3.2 RuntimeLease

The abstract promise: a lane is leased to one job at a time, a job gets at most
one lease in its life, and every return of a lease has a reason. `Finish`: the
job was settled in time, in the same step. `Recover`: the job was overdue before
the step and still is, and the lane was seen idle in an earlier step of the same
quarantine. `Forget`: the overdue job's record is given up. Becoming overdue
(`TimeOut`) keeps the lease and starts with no idle sighting, so a handler that
freed the lane at the moment of expiry, or a prune or a first idle report that
freed it later, is no step of this specification. Several lanes may move in one
step.

`FabricRoom!ImplementsLease` maps `holder` to `lease`, the lanes with an
`idle_seen_at` to `seen`, and the status of a job to its `stage` (`running` is
active, `succeeded` and `failed` are done, `expired` is overdue, a deleted row is
forgotten). The stage does not depend on who holds what, so the reason of a
return is judged by the jobs table alone. `Forget` is there because the code's
retention does it; that this is not what the documentation promises is finding
4.1. What the refinement adds to `OneJobPerLane` and `IdleEvidenceIsOwn` is
exactly this: which steps may free a lane.

### 3.3 FabricRoomHistory

`FabricRoom` with history variables that record every accepted heartbeat: when,
over which connection, and since when each lane has been reported idle without
interruption. The room's own bookkeeping (`last_seen`, `idle_seen_at`) is reset,
skipped and joined in ways the record is not, so comparing the two is a real
check of it.

### 3.4 AccessStore

SHA-256 and body reading are asynchronous, so a request is a call that runs in
segments; its record `calls[k]` holds what the code keeps in local variables
across the await (credential, principal, fingerprint, the `now` it has read).
Between two segments anything else may happen: another call, the clock, a
revocation, a restart.

| variable | code |
|---|---|
| `tokens[t]`, `sessions[s]` | rows of `access_tokens`, `access_sessions` |
| `bootstrap` | the configured bootstrap token of the running process |
| `minted` | session cookies handed out (a cookie may be presented after its row is gone) |

| action | segment |
|---|---|
| `Begin` | `fetch`, `login`, `logout` up to the digest of the credential, bearer token or cookie |
| `AuthenticateBearer` | `authenticateBearer` after its digest, then the handler (`Dispatch`) up to its next await or its end |
| `AuthenticateSession` | `authenticateSession` after its digest: an expired session or one whose principal is gone is deleted, a bootstrap session awaits the fingerprint and any other continues in `Dispatch` |
| `MatchFingerprint` | the fingerprint comparison, a deletion on mismatch, then `Dispatch` |
| `ReadBody` | `POST /api/tokens` has its body: it is refused, or `createToken` keeps the time and awaits the digest of the new secret; authority is not looked at here, only after the digest |
| `IssueToken` | `createToken` after the digest: cap, authority, insert |
| `InsertSession` | `createSession` after its digests: authority, cap, expiry, insert (its prune came before them, in `Dispatch`) |
| `DeleteSession` | `deleteSession` after its digest |
| `SubmitTask` | `createTask` after its await (its effect on the room is `FabricRoom!CreateTask`) |
| `Abandon` | a cap or an authority check refuses after the await |
| `Restart` | a new process, possibly with another bootstrap token; the tables stay |
| `Tick` | `Date.now()` |

`Dispatch` holds what happens without an await: role checks, listing, and
`revokeToken` with the deletion of the token's sessions. A logout deletes the
session of its cookie: the one it authenticated with or, next to a bearer token,
any cookie the request brings along, or none (`CookieOf`).

### 3.5 RuntimeLane

asyncio is cooperative: a segment between two awaits is one action. The lane lock
lets one call in and refuses the rest, so `lane` is one record: who is inside,
for which model, and at which await. A call can be cancelled at each of them
(`Cancel`: the bridge cancels executions when its connection ends; `Deadline`:
`asyncio.timeout` around `execute`). `mode` is chosen once, so every run covers
managed and attached runtimes.

| action | code |
|---|---|
| `EnterManaged` | `execute`/`load` to the first await of `ensure_loaded`: resident, or `stop` first, or refused because file or binary are gone |
| `EnterAttached`, `Observe` | the same for an attached runtime; `observe_attached` |
| `Unload`, `Close`, `CloseDrained` | `unload`; `close` sets `closing`, then has the lock |
| `StopEnds`, `StopTimesOut` | `stop`: the process has exited (continue where the caller was), or three seconds passed and it is killed |
| `Spawned` | `create_subprocess_exec` returned or raised |
| `VerifiedManaged`, `VerifiedAttached`, `NotVerified`, `ObservedNothing` | the readiness loop and `verify_model` |
| `Answered`, `NotAnswered` | the completion, or any failure of it |
| `Cancel`, `Deadline` | the interruption of whatever is awaited, with the `except` clauses that follow |
| `Snapshot`, `CandidateExpires` | what `snapshot()` notices and changes |
| `ServerListens`, `ServerExits`, `GenerationEnds`, `UpstreamStarts`, `ObservationAges` | environment: native servers, the operator of an attached one, time |

A server that was told to stop may ignore it, and may still open the port; one
that was killed exits. Abstracted: the fingerprint goes with the model (a
changed file is a model that must be loaded again); calls refused before they
enter the lane; payloads. The answer of `verify_model` and the request sent on the
strength of it are one step: a server replaced by another in between is not
modelled, nor does the code look for one. `stop` inside `close` is not cancelled: `api.py`
cancels its background tasks before it closes the node.

### 3.6 NodeBridge

One Dendrite process and its outbound bridge. A connection is served by a
receiver, a heartbeat task and one task per accepted job; a segment between two
awaits is one action. Several connections follow one another, with the locals of
`serve_connection` (`active`, `completed`) new for each.

| variable | code |
|---|---|
| `conn`, `up` | where `run_fabric_bridge` is; whether the WebSocket works |
| `inbox` | frames received by the library and not yet by `receive` |
| `refusing` | `receive` awaits the send of a 429 |
| `heart` | what `heartbeats` awaits |
| `task[j]` | what the task of job `j` awaits; `active` is where it is not `"none"` |
| `completed` | `completed` |
| `lane[r]` | the holder of the lock of runtime `r`: a job, an observation, a local request |
| `stopping` | `lifespan` has cancelled the bridge |

| action | code |
|---|---|
| `Receive`, `RefusalSent` | `receive`: duplicate, history full, no lane, or a new task |
| `Begin`, `Select`, `RunEnds`, `SendEnds` | `execute(message)`: `refresh_attached`, `select` and the entry of the lane, the runtime's answer, the send and the `finally` |
| `AbortEnds` | a cancelled execution has aborted and leaves its lane |
| `HeartbeatObserves`, `HeartbeatSends`, `HeartbeatSent` | `heartbeats` |
| `ObservationEnds` | `observe_attached` of one runtime, for a heartbeat or a job |
| `ConnectionEnds`, `Gathered` | the `finally` of `serve_connection`: cancel, gather |
| `Connect`, `ConnectFails`, `BackoffEnds` | `run_fabric_bridge` |
| `Shutdown`, `Stopped` | `lifespan` cancels the bridge and awaits it |
| `LocalCall`, `LocalDone` | requests to the node's own API |
| `Push`, `Drop` | the room; the network |

The inside of a lane is `RuntimeLane`; here it has a holder. The room names the
model of a request, so a job has one runtime.

### 3.7 FabricSystem

`FabricRoom` and `NodeBridge` as the two ends of a WebSocket. Alone, each module
lets its peer do anything; together, a heartbeat says what the lanes hold when it
is made, only what was pushed is answered, and `ConnectNode` is the other half of
`Connect`. The ends learn separately that a connection is gone (`Drop`,
`PeerGone`, `SocketGone`, `Restart`), messages of a replaced connection may still
arrive, and the answer to an upgrade may be lost.

`Prompt` is the one assumption on time: while both ends hold the connection, a
message is read and an accepted job has its lane before a unit of time, the job
timeout, has passed. `connect` pings every 20 seconds and gives up after 20 more,
an observation makes two requests, each with timeouts of two seconds, for every
model of its runtime until one is served, so about four seconds a model, and a job
times out after 180. It is a strong assumption: it stands on one unit of the clock
being the job timeout, and a node that observes some dozens of unreachable models
one after another would not meet it. Without it
the quarantine would prove nothing: two idle heartbeats sent before a job
arrived, and read after it timed out, would free a lane that computes.

`ExecutionsEnd` is the other assumption on time: an execution ends before its
job's row is old enough to be deleted. `request_timeout_seconds` is at most 900
(`config.py`), so it ends 15 minutes after it began, and `prune` keeps a finished
row for 24 hours. It says nothing about the deadline of 180 seconds, which an
execution may well outlive. The run's retention of nine units never lets it bite;
with `JobRetention = 1` and a longer clock, and without the assumption, TLC finds
`WorkIsReserved` violated: prune deletes the expired row, and the reservation with
it, under a job that still computes. With the assumption that instance passes.

### 3.8 Placement

From the raw report to the chosen runtime. `row[n]` is a row of `nodes`, `conn[n]`
the state of the node's connection, `reserved` the keys of `reservations`;
`accepted` is a history variable, the raw report behind each row.

| operator or action | code |
|---|---|
| `AcceptsTask`, `AcceptsSnapshot`, `AcceptsRuntime`, ... | `parseTaskRequest`, `sanitizeNodeSnapshot` and the sanitizers below it: one malformed field anywhere refuses the whole |
| `SanitizeNodeSnapshot`, `EpochMilliseconds` | what is stored of a report, with times in milliseconds |
| `NodeStatus`, `FabricState` | `nodeStatus`, `fabricState` and `aggregateFabricState` |
| `SchedulableNodes`, `CandidatesOn`, `IsValidPrefixCandidate` | `schedulableNodes`, `placementCandidates`, `isValidPrefixCandidate` |
| `Precedes`, `FirstCandidates` | the comparison it sorts by; what the sorted array may begin with |
| `ConnectNode`, `Heartbeat`, `RefusedHeartbeat`, `SocketGone`, `CreateTask` | the parts of those handlers that the inventory depends on |

Fields that no decision reads are left out; a field is well formed, malformed or
out of range, which are the classes the sanitizers tell apart.

### 3.9 Dashboard

One tab of `App.tsx`. Each callback awaits a request, and an answer is applied
when it comes, whatever happened since: `calls[k]` is a request in flight with
the cookie it was sent with and, once served, its answer (`ok`, 401, any other
status, or a rejected `fetch` before or after the Worker acted).

| action | code |
|---|---|
| `RefreshTimer`, `PollTimer` | the two intervals and the mount |
| `Login`, `Logout`, `SubmitTask` | the handlers up to their await |
| `Refresh`, `LoginAnswered`, `LoginDone`, `LogoutAnswered`, `SubmitAnswered`, `PollAnswered` | what they set when the answer comes |
| `Serve`, `Fail`, `EndSession`, `Settle`, `Prune`, `Change` | the Worker and the network, reduced to what the tab can tell |

## 4. Runs

Bounds shared by the room's runs: limits of one time unit (`StaleAfter`,
`JobTimeout`, `JobRetention`, `NodeRetention`, `IdleGap`), the clock starting at
2 and stopping at `MaxTime` (5 in the history runs, 4 in `room_lanes`, 3 in
`room_nodes`). One unit each is enough to separate every comparison of the code
in both directions (before, at, after); `room_lanes` and `room_nodes` use
`JobRetention = 0`, so that a finished job is pruned within their shorter clocks. With `MaxTime = 5` a job
can be placed, time out, be quarantined, recover, and a second job be placed on
the same lane and time out too. With 3 a job can time out and its lane be freed
or not, and a job that failed before loses its row, which is all that interference
between nodes needs. A placement requires
its deadline to lie within `MaxTime`, so that the bound cuts no job short. Node
sets, runtimes and connections are chosen per question. Jobs, connections and the
two tokens of one node are symmetric in the safety runs, and so are tokens, sessions,
calls and secrets in `access`; the runs with liveness
use no symmetry. Every property of
`room_lanes` and `room_nodes` is also a theorem for all values of these constants,
and so is every invariant and action property of the other runs that pass
(section 5); what only TLC checks is liveness.

| run | instance | question |
|---|---|---|
| `room_nodes` | 2 nodes, one with 2 tokens, 2 connections | does the end of a connection, token or row end its own running work, closing sockets included, and free its own lanes and no other? |
| `room_lanes` | 1 node, 2 runtimes, 2 connections, 2 jobs | do replacements, delayed closes, late results and restarts keep running work on the current connection, with its lane, settled once and by its deadline; one job per runtime, own idle evidence, alarm by the first deadline, and a lane given back only for a reason of the abstract lease? |
| `system` | room and node, 1 runtime, 2 connections, 2 jobs | is everything the node works on reserved in the room? |
| `room_evidence` | history, 1 node, 2 connections, 2 jobs | do placement and recovery rest on what the node really reported, and does every job settle? |
| `room_quarantine` | history | violated: see 4.1 |
| `room_node_row` | history | violated: see 4.1 |
| `access` | 2 tokens, 2 sessions, 2 secrets, 2 calls in flight, caps of 1 | do the caps hold for racing issues and logins, is every call served only with present authority, does a session created across a revocation survive its token, does rotation end bootstrap sessions? |
| `placement` | 2 nodes, 10 reports, 6 tasks | does a placement claim a prefix exactly when its node reported a usable hint, is the first candidate the warmest, does the inventory show what can be placed? |
| `dashboard` | 1 refresh, 1 poll and 2 other requests in flight, 2 sessions, 2 jobs | do late answers leave the tab wrong, or a button disabled, for good? |
| `bridge` | 2 runtimes, 3 jobs, 2 connections | does a job run once, does anything outlive its connection, does everything settle? |
| `lane` | 2 models, 2 servers, managed or attached | does the runtime advertise what its server serves, is an uncertain slot left alone, does every call leave the lane, does shutdown end? |
| `lane_strays` | the same | violated: see 4.1 |

In `access` two calls are in flight at once, which is what a race between
segments needs. A cap of 1 is reached by one row and exceeded by two racing
inserts. Tokens live one unit and the clock runs to 1, so a token ends with the
clock's one step, before or after a session or another token is made of it; all
six properties are theorems for every lifetime and clock. In `lane`, two
servers are the process that is owned and one that was given up; four instances
are enough for `uuid4` never to repeat one that is still in use (`Fresh`).

In `system` the clock has two steps after its start (10 to 12; retention of nine
units stands for the 24 hours and seven days, which only matter without a
recovery): a job can be placed, time out and be recovered by two idle reports one
unit apart, or another be placed after a reconnect. `MaxWire` bounds heartbeats
in flight to one per connection; results are not bounded.

In `placement` the ten reports are a cold, a warm and a busy runtime, one with
the other model, one whose cached prefix is of an earlier process, one whose
model file was replaced, too many hints, a malformed field, two runtimes (one
attached, one simulated) and a failed one. Three units of time are enough for a
hint to expire and a node to become stale.

In `dashboard` one refresh and one poll in flight, beside two of the user's
requests, let each answer be overtaken by another request's (a second refresh in
flight can only repeat the race between the timer's and the login's own). The
user acts twice and one request fails; two jobs and two sessions are what a late
answer can confuse.

In `bridge` the history holds one job (`MaxCompleted`) and the node has two
runtimes, so the limits on `completed` and `active` are both reached; each
connection has five pushes with at most two unread, so that each job can be
pushed again while it waits, runs, sends or is done. Two connections show what
one leaves behind for the next.

The `lane` runs switch deadlock checking off: after `close` a runtime whose
process has exited really does nothing more. In the others something can always
happen: a request arrives, a timer fires, or the bridge has stopped for good,
which `Stopped` says.

Fairness. `room_evidence`: weak fairness of `Tick` (time passes) and of `Alarm`
(the platform delivers a due alarm at least once); nothing is assumed of nodes,
clients, sockets or close events. `lane` and `lane_strays`: weak fairness of what
the code's own timeouts and asyncio bring about (`StopEnds`, `StopTimesOut`,
`Spawned`, `NotVerified` by the startup deadline, `ObservedNothing` by the
two-second HTTP timeouts, `Deadline`, `CloseDrained`) and of the exit of a killed
process; none of servers that listen, answer or obey SIGTERM. `bridge`: weak
fairness of what the event loop runs when it is ready, of observations and
executions, which have deadlines, of aborts, which kill, and of a send that the
room does not read, which the keepalive ends; none of the room, of connects that
succeed or of local requests. `dashboard`: the timers run, the Worker answers,
answers arrive and jobs settle; nothing is assumed of the user, of failures or of
when sessions end.

Every property has a mutant in `PROJECT.json`: a definition of the model and a
faulty variant of it (`ReleaseNone`, `BelowTokenCap`/`AnyTokenCount`, `LeaveLane`,
...), written just before it and used by no action, under which TLC finds the
property violated.

### 4.1 Where the code and the documentation disagree

* `docs/fabric.md:143` says that timed-out reservations stay quarantined until
  separated idle heartbeats demonstrate recovery. `prune` deletes an expired
  job's row after the retention time (`index.ts:655`) and then every reservation
  without a job row (`index.ts:657`), so after 24 hours the quarantine ends
  without a heartbeat. `RecoveredByEvidence` is what holds: a *heartbeat* never
  ends a quarantine without the evidence.
* `docs/fabric.md:23` says that disconnected node metadata becomes eligible for
  pruning after seven days. `connectNode` sets `last_seen=0` (`index.ts:390`); if
  that connection ends before its first heartbeat, the next prune deletes the
  row at once.
* `runtimes/base.py:93` says that after a cancellation or timeout a managed
  adapter stops the owned process. `stop()` forgets the process before it awaits
  its exit (`llama.py:196`). If that wait is itself interrupted (the fabric
  connection is lost while a failed load is being aborted, or the request
  deadline passes during a model switch), the `kill` after three seconds is
  skipped and a second `stop()` finds nothing: a server that does not obey
  SIGTERM keeps running and keeps the port. `StraysWereTold` is what holds:
  every such server was sent SIGTERM; `ResidentIsServed` shows that it is never
  taken for the new one.

More observations, which contradict no document. A failed execution leaves
the runtime in state `error`, and `placementCandidates` (`domain.ts:350`) takes
only `ready` and `unloaded`: the room does not use that runtime again until a
local request or load succeeds. And `observe_attached` holds the lane lock while it
looks, so a request that arrives in that moment is refused with 429; so is one
that arrives while the last result is still being sent, because a job leaves
`active` only after that (`fabric.py:115`).

In the dashboard, answers are applied in the order they come. A refresh in flight
can show the inventory again after "Signed out", until the next one; a late poll
of the previous job can replace the new one; `logout` does not look at the status
of its answer; the late answer of a sign-out clears the cookie of a session that
began since. `Converges` is what holds: each of these is corrected by the timers.
One thing is not: a job that is shown as running stays so, and is polled for
ever, where nobody is signed in, or the session does not see it, or it was pruned.

## 5. Proofs

All theorems hold for every value of the constants under the named assumptions
of the module they are about. Where a cardinality matters, what must be finite is
said below.

### 5.1 The room

`FabricRoomProofs`, for every set of nodes, runtimes, connections, jobs and
tokens, for every value of the limits and with no assumption of finiteness:

* `TypeCorrect`: `TypeOK` is invariant. The one type that is not immediate is the
  alarm's: `Min` of a nonempty set of deadlines is a natural number
  (`MinIsLeast`, from the well-foundedness of `<`).
* `RunningJobsHoldTheirLanes`, `NoReservationLeaks`, `LanesAreExclusive`, from
  the inductive invariant `LaneInv == TypeOK /\ RunningHoldsLane /\
  NoLeakedReservation`. Neither half is inductive alone. When `createTask` places
  on a free lane, that no other running job is there follows from
  `RunningHoldsLane`; when a step frees the lanes held by the jobs it settles,
  that it takes no lane from a job that goes on follows because a lane has one
  holder, and that it leaves none behind follows from `NoLeakedReservation`.
  `ReleaseKeepsLaneInv` is the common shape of those steps.
* `AlarmIsInTime`, from `AlarmInv == TypeOK /\ AlarmCoversDeadlines`: a step
  either sets the alarm from the jobs it leaves (`NextAlarmCovers`) or starts no
  job and moves no deadline.

About single jobs and connections:

* `JobMoves` says what a step can do to one job: nothing, start it, settle it, or
  take its row. `JobsSettleOnce` follows at once, and `DeadlinesDecide` from
  `TimeInv`, which adds that a job's completion is not in the future.
* `JobsRunOnCurrentConnections` and `RevocationEndsWork` from `ConnInv`: live
  sockets are bound to a token, a row of `connections` names a socket of its own
  node, and a job runs at the node of its lane. The last is what makes a
  replaced connection's jobs exactly those that `failConnectionJobs` finds.
* `EvidenceIsNeverInherited` from `ReservationMoves`, which says what a step can
  do to one reservation: release it, place a job, or count a heartbeat. A step
  that releases leaves none of the jobs it releases in state `expired`.
* `LeaseIsImplemented`: the initial states map to those of `RuntimeLease` and
  every step, under `LaneInv` and `EvidenceInv`, to a step of the lease.
  `LaneMoves` lists the ways a lane can go, in terms of the two tables, and is
  shown for the three kinds of step of `ReservationMoves`: a release frees no job
  that is expired afterwards (`Releases`) and none that keeps running
  (`RunningHoldsLane`), a placement frees nothing, and a heartbeat frees only what
  has an `idle_seen_at`, which a lane that has just timed out has not
  (`IdleEvidenceIsOwn`).

`FabricRoomHistoryProofs` compares the room with what was really reported.
`HistoryOnlyWatches` says that the history adds no behaviour, so all of the above
holds there too.

* `PlacedByEvidence`, the action property `PlacedOnOwnHeartbeat`, from `HeardInv`:
  a node that may count as online was last heard over its current connection,
  when its row says (`RowsAreHeard`). That survives a reconnect only because
  `connectNode` marks the row unseen before the new connection becomes current,
  and because 0 is stale at every time the room can read.
* `RecoveryIsEvidenced`, the action property `RecoveredByEvidence`, from
  `ReportInv`: since the time the reservation holds as `idle_seen_at` the lane was
  reported idle and nothing else (`SeenIsReported`), and that time is not before
  the timeout (`IdleEvidenceIsOwn`). `SilentKeepsQuarantine` shows that only a
  heartbeat frees the lane of a job that stays expired; `BeatRecovers` is that
  heartbeat.

Assumptions: tokens are bound to nodes, the limits are naturals, the clock starts
late enough for the epoch (`last_seen=0`) to be stale, and `None` is none of the
other values.

### 5.2 The access store

`AccessStoreProofs`, for every set of tokens, sessions, calls and secrets and for
every cap and lifetime:

* `StoreTypeCorrect`, `SessionsNeverOutliveTokens`, from the inductive invariant
  `StoreInv == TypeOK /\ CallsCarryWhatTheyNeed /\ SessionsWithinToken`.
  `SessionsWithinToken` alone is not inductive: a login that is resumed after its
  digests inserts a session, so one must know that the call carries a principal,
  a time that has been reached, and a token that was not a node's when it was
  dispatched; that the token is active is what the second authority check
  establishes. `RevokeStep` and `DispatchStep` carry the handlers that run
  without an await.
* `CallsAreServedWithAuthority`, the action property `ServedWithAuthority`.
* `TokenCapHolds`, `SessionCapHolds`, from `CapInv`. A cap is about a cardinality,
  so `CapInv` adds that only finitely many rows were ever issued or opened
  (each step adds at most one); no constant need be finite. Every step but the
  two inserts only takes rows away (`StepsFade`), and an insert is guarded by
  the count in the same segment (`OneMore`).

* `RotationIsNoticed`, the action property `RotationEndsBootstrapSessions`, from
  `PrintInv`: a call that awaits the second digest holds the fingerprint of its
  session, should that still exist. The session may be deleted in between; that
  no other session takes its place is why the invariant also says that every
  session's cookie was handed out, and `InsertSession` hands out none twice.
  `MatchingMoves` says how a call comes to that await and leaves it.

Assumptions: lifetimes are positive, caps are naturals, `None` and the bootstrap
principal are none of the other values.

### 5.3 The runtime lane

`RuntimeLaneProofs`, for every set of models, servers and instances:
`LaneTypeCorrect`, `AdvertisedModelIsServed`, `AdvertisedCandidateIsReusable`,
`IdleLanesAreSettled`, `StraysAreTold` and `GenerationsStartOnIdleServers`. They
support one another, so there is one inductive invariant, their conjunction with
four facts about the lane: which call is inside fits its await (`CallInLane`),
what is known of each server (`Servers`), an instance belongs to at most one
server (`InstanceIsOwn`), and outside `generating` the own slot is idle
(`SlotIsIdle`). The last makes the action property follow; the second is what
tells a stray from the process when both listen. The one assumption is that
`None` is no other value (`NamesAssumption`).

### 5.4 The bridge, and both ends together

`NodeBridgeProofs`: `JobsRunOnce`, `NothingIsLeftBehind`, `BridgeTypeCorrect`. A job
that was started on a connection is active or remembered, which is why a second
push finds it; a lane's holder and the stage of its task say the same. The bound
on what is remembered is a cardinality: a step that adds a job to `active` found
`completed` below its limit and `active` below the number of runtimes, and every
other step moves jobs from one to the other. Assumption: finitely many runtimes.

`FabricSystemProofs`: `RoomIsComposed` and `BridgeIsComposed`: the composition's
steps are steps of `FabricRoom` and of `NodeBridge`, so their theorems hold of it.
For the room this needs that every message in flight is well formed (`Typed`).

`WorkStaysReserved` is the theorem the composition is for: while room and node
hold the same connection, a job that waits for its runtime or runs there has its
reservation, for any number of jobs, runtimes, connections and messages. The
inductive invariant is `Typed`, `SocketInv` and `LinkedInv`, under what is proved
of the two parts (`RoomFacts`, `BridgeFacts`):

* `SocketInv`: the node's connection is one that was opened, nothing came over one
  that never was, and only the current socket is open. So a new connection starts
  with nothing in flight, and what is still read from an old one is refused.
* `LinkedInv` follows each job of the linked connection through the places it can
  be in (`OnePlace`: pushed and unread, refused, accepted, or answered and on the
  wire; never two of them). While it waits, the room's row runs and the deadline
  is ahead (`WaitsInTime`, from `Prompt`). While it runs, its lane is reserved, and
  from the deadline on no report in flight calls the lane idle (`RunsReserved`,
  `SaidIdle`), so none of the idle reports that end a quarantine can come; and its
  row is not yet old enough to be deleted (`ExecutionsEnd`).

`PlaceKeeps`, `TasksKeep`, `NodeAloneKeeps` and `RoomAloneKeeps` are the frames:
what a step of one end, or of the wire, leaves of that for each job.

### 5.5 Placement

`PlacementProofs`, for any finite set of nodes, any reports and tasks, bounds and
clock:

* `RowsAreReports` and `HintsAreUsable`. A row is the sanitized form of the report
  that `accepted` keeps, and a stored hint is good for a task exactly when the raw
  one is usable (`UsableIsKept`), so a placement claims a prefix when and only when
  a usable hint was reported (`PlacementIsReported`). That the stored expiry is the
  time the node means rests on `EpochAssumption`: the code's threshold separates seconds from
  milliseconds, which holds of reports made between 1970 and 2286.
* `FirstIsWarmest`: the comparison prefers exactly the higher `Score`
  (`PrecedesByScore`), ties go to the ids, and a nonempty set of candidates has a
  first one (`SomeIsFirst`), because scores are bounded and ids are naturals
  (`LeastNatural`, from the well-foundedness of `<`). Several candidates with the
  same ids differ in their models only, and the order does not tell them apart.
* `InventoryCovers`: what can be placed is counted in the inventory. Both read the
  same stored arrays (`StoredArrays`), so a candidate is an element of each set
  that the inventory counts (`PlacementIsListed`); that its count is then at least
  one needs those sets to be finite (`InventoryIsFinite`, `HintsAreFinite`).

Assumptions, besides the clock's: finitely many nodes, with naturals as ids (an
order, as strings have in the code), and reports whose arrays are arrays: an index
set from 1 to a length, with finitely many prefix hints on a runtime.

### 5.6 The dashboard

`DashboardProofs`, for any jobs, sessions and requests in flight:

* `ShownIsTrue`: `ShownJobIsNotAhead`, from an invariant that says of every request
  in flight what its answer will claim (`CallTrue`: a poll asks for a job the
  Worker has seen, and `settled` is answered only of a job that ended), and the
  same of the job shown. It is inductive because the Worker's jobs only move on
  (`Later`), so what was true when it was answered is true when it arrives.
* `FlagsAreRequests`: `BusyIsInFlight`. A flag is up exactly while one request that
  raised it is under way (`FlagIs`); the two steps of a sign-in hand the flag from
  one request to the next.

Assumptions: the three kinds of slots are disjoint, admins are sessions, bounds
are naturals, and `None` is no other value.

### 5.7 Left to TLC

Liveness (`EveryJobSettles`, `LaneIsFreed`, `ShutdownCompletes`, `Settles`,
`Converges`), which the prover does not reach; and the three violations of 4.1,
each a counterexample. Every invariant and every other action property that a
passing run checks is a theorem.

## 6. Not modelled

The components marked `not_modelled` or `partly` in `PROJECT.json`, each with its
reason there:

* The HTTP and MCP front, the configuration, the hardware probe and the
  performance metrics keep no state between calls; what of them decides who may
  do what is in `AccessStore`.
* The simulated runtime is a lane without a process.
* Operator scripts run once; the compensation of `issue_token` (`bin/fabric:118`)
  is two calls of `AccessStore` with a report to the operator between failures.
* `AccessPanel` loads its list once and after each change, without timers.
* Of the node, the choice among several models of one capability and the
  observation of an attached runtime going stale by the wall clock; of its API,
  the routes and `publish_heartbeats`, a legacy report outside the room.
* The lengths of backoffs, and the crash of a node's process as a step of its own:
  to the room it is a connection that ends, and to the next process a start from
  `Init`.
* `FabricSystem` leaves to its parts what they model alone: tokens that end,
  malformed messages, local requests, shutdown.

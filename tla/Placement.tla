----------------------------- MODULE Placement ------------------------------
(***************************************************************************)
(* From what a node reports to where a task is placed: the parsing of      *)
(* reports and tasks, the inventory and the placement of                   *)
(* src/fabric/worker/domain.ts, with the queries of index.ts that feed     *)
(* them.  The modules of the room (FabricRoom) take any lane a report      *)
(* offers; this one computes which lanes those are and which is taken.     *)
(*                                                                         *)
(* A report is a record of raw values.  Its fields that no decision looks  *)
(* at are left out; "malformed" names the fields of a record, those left   *)
(* out included, that are missing, of the wrong type or out of range, so   *)
(* that string(), number(), boolean(), array() and object() are one test.  *)
(* A time is a number in seconds or in milliseconds; "clock" says which    *)
(* the node means, and only the properties look at it.  Ids of nodes and   *)
(* runtimes are natural numbers, ordered like the names they stand for.    *)
(*                                                                         *)
(* Left to FabricRoom: tokens, deadlines, when a reservation ends          *)
(* (Release may happen at any time here), pruning.                         *)
(***************************************************************************)
EXTENDS Naturals, Sequences, FiniteSets

CONSTANTS
    Node,           \* node ids, a set of naturals
    RawSnapshot,    \* what may arrive as packet.snapshot
    RawTask,        \* what may arrive as the body of POST /v1/tasks
    Millis,         \* milliseconds in a second
    EpochLimit,     \* times below it are read as seconds
    StaleAfter,     \* LIMITS.staleAfterMs
    MaxRuntimes, MaxModels, MaxCandidates,   \* bounds of the sanitizers' arrays
    Start, MaxTime, \* the clock's range, in milliseconds
    None

\* Every candidate a report can hold.
RawCandidates == UNION {UNION {raw.runtimes[i].prefix_cache : i \in DOMAIN raw.runtimes} :
                        raw \in RawSnapshot}

ASSUME NodeAssumption == Node \subseteq Nat /\ IsFiniteSet(Node) /\ None \notin RawSnapshot
ASSUME ArrayAssumption == \A raw \in RawSnapshot :   \* array()
    /\ Len(raw.runtimes) \in Nat /\ DOMAIN raw.runtimes = 1 .. Len(raw.runtimes)
    /\ Len(raw.models) \in Nat /\ DOMAIN raw.models = 1 .. Len(raw.models)
    /\ \A i \in DOMAIN raw.runtimes :
          raw.runtimes[i].id \in Nat /\ IsFiniteSet(raw.runtimes[i].prefix_cache)
ASSUME BoundsAssumption == MaxRuntimes \in Nat /\ MaxModels \in Nat /\ MaxCandidates \in Nat
ASSUME ClockAssumption == Millis \in Nat /\ EpochLimit \in Nat /\ StaleAfter \in Nat
                          /\ Start \in Nat /\ MaxTime \in Nat /\ StaleAfter < Start
\* Seconds since 1970 stay below the limit until 2286; milliseconds have been
\* above it since April 1970.
ASSUME EpochAssumption == \A c \in RawCandidates :
    c.expires_at \in Nat /\ (c.clock = "seconds" <=> c.expires_at < EpochLimit)

VARIABLES
    now,        \* Date.now()
    conn,       \* of a node's connections row: "none", or its socket is "open" or "closing"
    row,        \* the nodes table: [last_seen, snapshot], or None
    reserved,   \* keys of the reservations table: <<node, runtime>>
    accepted    \* history: the raw report behind row[n].snapshot

vars == <<now, conn, row, reserved, accepted>>

-----------------------------------------------------------------------------
(* Parsing.                                                                *)

\* Faulty variant of EpochMilliseconds: seconds are taken for milliseconds.
TimeAsReported(t) == t

EpochMilliseconds(t) == IF t < EpochLimit THEN t * Millis ELSE t

TaskFields == {"capability", "prompt", "prefix", "model_id", "max_tokens",
               "temperature", "allow_simulated"}

\* A field that is not one of TaskFields refuses the task, a malformed one too.
AcceptsTask(task) == task.malformed = {} /\ task.fields \subseteq TaskFields

PrefixFields == {"prefix_sha256", "prefix_bytes", "expires_at", "runtime_instance",
                 "model_fingerprint", "slot_id", "state", "portable", "simulated"}
RuntimeFields == {"id", "kind", "mode", "state", "busy", "simulated", "loaded_model",
                  "prefix_cache", "runtime_instance", "model_fingerprint",
                  "supports_model_switch", "supports_cache_transfer"}
ModelFields == {"id", "runtime", "capabilities", "cached_on_disk", "resident",
                "available", "simulated", "size_bytes", "fingerprint"}
PerformanceFields == {"performance.generation_tokens_per_second",
                      "performance.prompt_tokens_per_second", "performance.samples",
                      "performance.last_observed_at", "performance.model_id",
                      "performance.runtime_id"}
SnapshotFields == {"schema_version", "observed_at", "uptime_seconds", "execution_scope",
                   "active_requests", "hardware", "load", "runtimes", "models"}

AcceptsPrefix(c) == c.malformed \cap PrefixFields = {}
SanitizePrefix(c) ==
    [prefix_sha256 |-> c.prefix_sha256, prefix_bytes |-> c.prefix_bytes,
     expires_at |-> EpochMilliseconds(c.expires_at),
     runtime_instance |-> c.runtime_instance,
     model_fingerprint |-> c.model_fingerprint, simulated |-> c.simulated]

AcceptsRuntime(r) ==
    /\ r.malformed \cap RuntimeFields = {}
    /\ Cardinality(r.prefix_cache) <= MaxCandidates
    /\ \A c \in r.prefix_cache : AcceptsPrefix(c)
SanitizeRuntime(r) ==
    [id |-> r.id, state |-> r.state, busy |-> r.busy, simulated |-> r.simulated,
     loaded_model |-> r.loaded_model,
     prefix_cache |-> {SanitizePrefix(c) : c \in r.prefix_cache},
     runtime_instance |-> r.runtime_instance, model_fingerprint |-> r.model_fingerprint,
     supports_model_switch |-> r.supports_model_switch]

AcceptsModel(m) == m.malformed \cap ModelFields = {}
SanitizeModel(m) ==
    [id |-> m.id, runtime |-> m.runtime, capabilities |-> m.capabilities,
     resident |-> m.resident, available |-> m.available, simulated |-> m.simulated,
     fingerprint |-> m.fingerprint]

AcceptsPerformance(raw) == raw.malformed \cap PerformanceFields = {}

\* Any field that fails refuses the whole report, however deep it is.
AcceptsSnapshot(raw, n) ==
    /\ raw.node_id = n
    /\ raw.malformed \cap SnapshotFields = {}
    /\ AcceptsPerformance(raw)
    /\ Len(raw.runtimes) <= MaxRuntimes /\ Len(raw.models) <= MaxModels
    /\ \A i \in DOMAIN raw.runtimes : AcceptsRuntime(raw.runtimes[i])
    /\ \A i \in DOMAIN raw.models : AcceptsModel(raw.models[i])
SanitizeNodeSnapshot(raw) ==
    [active_requests |-> raw.active_requests,
     runtimes |-> [i \in DOMAIN raw.runtimes |-> SanitizeRuntime(raw.runtimes[i])],
     models |-> [i \in DOMAIN raw.models |-> SanitizeModel(raw.models[i])]]

-----------------------------------------------------------------------------
(* The inventory.                                                          *)

NodeStatus(n, connected) ==
    IF ~connected THEN "offline"
    ELSE IF now - row[n].last_seen > StaleAfter THEN "stale" ELSE "online"

Stored == {n \in Node : row[n] # None}
\* fabricState asks of every row whether its connection's socket is open.
Shown(n) == NodeStatus(n, conn[n] = "open")
Online == {n \in Stored : Shown(n) = "online"}

\* The models the summary and the capability map count: <<node, index>>.
Listed == {e \in Node \X (1 .. MaxModels) :
              e[1] \in Online /\ e[2] \in DOMAIN row[e[1]].snapshot.models}
ModelAt(e) == row[e[1]].snapshot.models[e[2]]

HintsOf(n, i) == {<<n, i, c>> : c \in row[n].snapshot.runtimes[i].prefix_cache}
Hints(n) == UNION {HintsOf(n, i) : i \in DOMAIN row[n].snapshot.runtimes}

\* aggregateFabricState.  Its sums over online nodes have one shape; of them
\* resident and available models and prefix candidates stand for all.
FabricState ==
    LET offers(c) == {e \in Listed : c \in ModelAt(e).capabilities}
        caps      == UNION {ModelAt(e).capabilities : e \in Listed}
    IN  [online_nodes |-> Cardinality(Online), total_nodes |-> Cardinality(Stored),
         resident_models |-> Cardinality({e \in Listed : ModelAt(e).resident}),
         available_models |-> Cardinality({e \in Listed : ModelAt(e).available}),
         prefix_candidates |->
            Cardinality({h \in UNION {Hints(n) : n \in Online} : h[3].expires_at > now}),
         nodes |-> [n \in Stored |-> Shown(n)],
         capabilities |-> [c \in caps |->
            [nodes |-> Cardinality({e[1] : e \in offers(c)}),
             available_models |-> Cardinality({e \in offers(c) : ModelAt(e).available}),
             resident_models |-> Cardinality({e \in offers(c) : ModelAt(e).resident})]]]

-----------------------------------------------------------------------------
(* Placement.                                                              *)

\* Faulty variant of SchedulableNodes: any connection will do.
ConnectedNodes == {n \in Stored : conn[n] # "none"}

\* schedulableNodes: rows with a connection whose socket is open, taken as connected.
SchedulableNodes == {n \in Stored : conn[n] = "open"}

\* The first runtime of snapshot s with this id; only its existence is asked for by RuntimeOf.
RuntimeIndex(s, id) ==
    CHOOSE i \in DOMAIN s.runtimes :
        s.runtimes[i].id = id /\ \A k \in DOMAIN s.runtimes : s.runtimes[k].id = id => i <= k
HasRuntime(s, id) == \E i \in DOMAIN s.runtimes : s.runtimes[i].id = id
RuntimeOf(s, id) == s.runtimes[RuntimeIndex(s, id)]

IsValidPrefixCandidate(c, r, m, task) ==
    /\ task.prefix # None
    /\ c.prefix_sha256 = task.prefix
    /\ c.prefix_bytes = task.prefix_bytes
    /\ c.expires_at > now
    /\ c.runtime_instance = r.runtime_instance
    /\ r.loaded_model = m.id
    /\ r.model_fingerprint # None
    /\ c.model_fingerprint = r.model_fingerprint
    /\ c.simulated = r.simulated
    /\ (m.fingerprint = None \/ c.model_fingerprint = m.fingerprint)

\* The tests of placementCandidates on runtime r of node n for model m.
Runs(n, r, m, task) ==
    /\ ~r.busy /\ r.state \in {"ready", "unloaded"}
    /\ (r.loaded_model = m.id \/ r.supports_model_switch)
    /\ (r.simulated \/ m.simulated) => task.allow_simulated
    /\ <<n, r.id>> \notin reserved

\* The models of n that may take the task, as placements.
CandidatesOn(n, task) ==
    LET s == row[n].snapshot
        fits(i) == LET m == s.models[i] IN
            /\ m.available /\ task.capability \in m.capabilities
            /\ (task.model_id = None \/ task.model_id = m.id)
            /\ HasRuntime(s, m.runtime) /\ Runs(n, RuntimeOf(s, m.runtime), m, task)
        placement(i) == LET m == s.models[i]  r == RuntimeOf(s, m.runtime) IN
            [node_id |-> n, runtime_id |-> r.id, model_id |-> m.id,
             prefix_match |-> \E c \in r.prefix_cache : IsValidPrefixCandidate(c, r, m, task),
             resident |-> r.loaded_model = m.id /\ m.resident,
             simulated |-> r.simulated \/ m.simulated]
    IN  {placement(i) : i \in {k \in DOMAIN s.models : fits(k)}}

PlacementCandidates(task) ==
    UNION {CandidatesOn(n, task) : n \in {k \in SchedulableNodes : NodeStatus(k, TRUE) = "online"}}

\* Faulty variant of Precedes: residency before the prefix.
ResidentPrecedes(a, b) ==
    \/ a.resident /\ ~b.resident
    \/ a.resident = b.resident /\ a.prefix_match /\ ~b.prefix_match

\* The comparison placementCandidates sorts by.
Precedes(a, b) ==
    \/ a.prefix_match /\ ~b.prefix_match
    \/ a.prefix_match = b.prefix_match /\
       \/ a.resident /\ ~b.resident
       \/ a.resident = b.resident /\
          \/ ~a.simulated /\ b.simulated
          \/ a.simulated = b.simulated /\
             \/ a.node_id < b.node_id
             \/ a.node_id = b.node_id /\ a.runtime_id < b.runtime_id

\* What the sorted array may begin with; models of one runtime that compare equal tie.
FirstCandidates(task) ==
    {a \in PlacementCandidates(task) : \A b \in PlacementCandidates(task) : ~Precedes(b, a)}

-----------------------------------------------------------------------------
Init ==
    /\ now = Start
    /\ conn = [n \in Node |-> "none"]
    /\ row = [n \in Node |-> None]
    /\ reserved = {}
    /\ accepted = [n \in Node |-> None]

\* connectNode: the new connection has to report before the node is online again.
ConnectNode(n) ==
    /\ conn' = [conn EXCEPT ![n] = "open"]
    /\ row' = [row EXCEPT ![n] = IF @ = None THEN None
                                 ELSE [last_seen |-> 0, snapshot |-> @.snapshot]]
    /\ UNCHANGED <<now, reserved, accepted>>

\* Faulty variant of Heartbeat: the upsert refreshes last_seen only.
HeartbeatKeepsSnapshot(n, raw) ==
    /\ conn[n] = "open"
    /\ AcceptsSnapshot(raw, n)
    /\ row' = [row EXCEPT ![n] = IF @ = None
                                 THEN [last_seen |-> now, snapshot |-> SanitizeNodeSnapshot(raw)]
                                 ELSE [last_seen |-> now, snapshot |-> @.snapshot]]
    /\ accepted' = [accepted EXCEPT ![n] = raw]
    /\ UNCHANGED <<now, conn, reserved>>

\* recordHeartbeat with a report that passes, or one that closes the socket.
Heartbeat(n, raw) ==
    /\ conn[n] = "open"
    /\ AcceptsSnapshot(raw, n)
    /\ row' = [row EXCEPT ![n] = [last_seen |-> now, snapshot |-> SanitizeNodeSnapshot(raw)]]
    /\ accepted' = [accepted EXCEPT ![n] = raw]
    /\ UNCHANGED <<now, conn, reserved>>

RefusedHeartbeat(n, raw) ==
    /\ conn[n] = "open"
    /\ ~AcceptsSnapshot(raw, n)
    /\ conn' = [conn EXCEPT ![n] = "closing"]
    /\ UNCHANGED <<now, row, reserved, accepted>>

\* webSocketClose, webSocketError.
SocketGone(n) ==
    /\ conn[n] # "none"
    /\ conn' = [conn EXCEPT ![n] = "none"]
    /\ UNCHANGED <<now, row, reserved, accepted>>

\* createTask: the first candidate's reservation is inserted.  No key of a
\* candidate is in the table, so the first insert wins and the loop ends there.
CreateTask(task) ==
    /\ AcceptsTask(task)
    /\ \E p \in FirstCandidates(task) :
          reserved' = reserved \cup {<<p.node_id, p.runtime_id>>}
    /\ UNCHANGED <<now, conn, row, accepted>>

\* The reservation's job ended, or its quarantine did (see FabricRoom).
Release(key) ==
    /\ key \in reserved
    /\ reserved' = reserved \ {key}
    /\ UNCHANGED <<now, conn, row, accepted>>

Tick ==
    /\ now < MaxTime
    /\ now' = now + 1
    /\ UNCHANGED <<conn, row, reserved, accepted>>

Next ==
    \/ \E n \in Node : ConnectNode(n) \/ SocketGone(n)
    \/ \E n \in Node, raw \in RawSnapshot : Heartbeat(n, raw) \/ RefusedHeartbeat(n, raw)
    \/ \E task \in RawTask : CreateTask(task)
    \/ \E key \in reserved : Release(key)
    \/ Tick

Spec == Init /\ [][Next]_vars

-----------------------------------------------------------------------------
(* Properties.                                                             *)

Row == [last_seen : Nat, snapshot : {SanitizeNodeSnapshot(raw) : raw \in RawSnapshot}]

\* Types, and what the nodes table holds is the last report that passed.
TypeOK ==
    /\ now \in Nat
    /\ conn \in [Node -> {"none", "open", "closing"}]
    /\ row \in [Node -> Row \cup {None}]
    /\ accepted \in [Node -> RawSnapshot \cup {None}]
    /\ \A n \in Node : row[n] # None =>
          /\ accepted[n] # None
          /\ AcceptsSnapshot(accepted[n], n)
          /\ row[n].snapshot = SanitizeNodeSnapshot(accepted[n])

Tasks == {task \in RawTask : AcceptsTask(task)}

\* The time a node means, in milliseconds.
Meant(c) == IF c.clock = "seconds" THEN c.expires_at * Millis ELSE c.expires_at

\* What runtime r and model m reported makes hint c good for the task: it is for this
\* prefix, by the process that runs there, for the model that process holds in the file
\* the model is now, of the same kind of inference, and not expired when the node means.
Usable(c, r, m, task) ==
    /\ task.prefix # None /\ c.prefix_sha256 = task.prefix /\ c.prefix_bytes = task.prefix_bytes
    /\ c.runtime_instance = r.runtime_instance
    /\ r.loaded_model = m.id
    /\ r.model_fingerprint # None /\ c.model_fingerprint = r.model_fingerprint
    /\ m.fingerprint \in {None, c.model_fingerprint}
    /\ c.simulated = r.simulated
    /\ Meant(c) > now

\* A placement (placementCandidates, isValidPrefixCandidate, epochMilliseconds) claims a
\* reusable prefix exactly when its node itself reported, on this runtime and for this
\* model, a hint that is usable now: no hint outlives its process, file or time, and none
\* is lost on the way, whatever the unit the node reports times in.
HintIsUsable ==
    \A task \in Tasks : \A p \in PlacementCandidates(task) :
        LET raw == accepted[p.node_id] IN
        \E i \in DOMAIN raw.runtimes, k \in DOMAIN raw.models :
            /\ raw.runtimes[i].id = p.runtime_id /\ ~raw.runtimes[i].busy
            /\ raw.models[k].id = p.model_id
            /\ p.prefix_match <=> \E c \in raw.runtimes[i].prefix_cache :
                                     Usable(c, raw.runtimes[i], raw.models[k], task)

Score(p) == (IF p.prefix_match THEN 4 ELSE 0) + (IF p.resident THEN 2 ELSE 0)
            + (IF p.simulated THEN 0 ELSE 1)

\* The comparison sorts (it is consistent, so a nonempty array has a first element), and
\* what it puts first is warmest: no candidate scores higher, counting prefix over
\* residency over real inference, and among the best the lane has the least ids.
WarmestFirst ==
    \A task \in Tasks :
        /\ PlacementCandidates(task) # {} => FirstCandidates(task) # {}
        /\ \A p \in FirstCandidates(task), q \in PlacementCandidates(task) :
              /\ Score(q) <= Score(p)
              /\ Score(q) = Score(p) =>
                    p.node_id < q.node_id \/ (p.node_id = q.node_id /\ p.runtime_id <= q.runtime_id)

\* The inventory shown (fabricState, aggregateFabricState) and the placement query
\* (schedulableNodes, placementCandidates) agree although they read the tables apart:
\* whatever can be placed is listed, on a node shown online, as available, as resident
\* or as a prefix candidate when the placement says so.
InventoryCoversPlacement ==
    \A task \in Tasks : \A p \in PlacementCandidates(task) :
        /\ FabricState.nodes[p.node_id] = "online"
        /\ task.capability \in DOMAIN FabricState.capabilities
        /\ LET c == FabricState.capabilities[task.capability] IN
              /\ c.nodes \in 1 .. FabricState.online_nodes
              /\ c.available_models \in 1 .. FabricState.available_models
              /\ p.resident => c.resident_models \in 1 .. FabricState.resident_models
        /\ p.prefix_match => FabricState.prefix_candidates > 0
=============================================================================

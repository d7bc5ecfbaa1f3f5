----------------------------- MODULE FabricRoom -----------------------------
(***************************************************************************)
(* The fabric's coordinator: the FabricRoom durable object of              *)
(* src/fabric/worker/index.ts, with its four SQLite tables (nodes,         *)
(* connections, jobs, reservations), its storage alarm and the             *)
(* hibernatable WebSockets of the Dendrite nodes.                          *)
(*                                                                         *)
(* A durable object is single threaded: everything a handler does between  *)
(* two awaits is one indivisible step, and so is one action here.  What is *)
(* concurrent is the order of the handlers: requests, socket messages,     *)
(* close events, the alarm, the clock and the nodes' own fate.             *)
(*                                                                         *)
(* Abstractions:                                                           *)
(*   - a runtime of a snapshot is reduced to what the room tells apart:    *)
(*     "absent"  no runtime of that id in the snapshot                     *)
(*     "busy"    busy, or in state generating                              *)
(*     "ready"   not busy, ready or unloaded, with an available model that *)
(*               fits: a placement candidate                               *)
(*     "unready" not busy, not placeable: loading, error, unavailable, or  *)
(*               no model that fits                                        *)
(*   - createTask takes the best candidate of placementCandidates; here    *)
(*     any candidate may be the best one (the order is module Placement's) *)
(*   - a POST /v1/tasks prunes, then awaits its body and the prefix hash,  *)
(*     and then runs createTask; CreateTask is that last segment and       *)
(*     ApiRequest the first.  Any number of requests may have arrived, and *)
(*     pruned nothing, at time Start, so CreateTask needs no memory of the *)
(*     request it belongs to                                               *)
(*   - a token expires at a moment the environment chooses (ExpireToken)   *)
(***************************************************************************)
EXTENDS Integers, FiniteSets, FiniteSetsExt

CONSTANTS
    Node,           \* node ids
    Runtime,        \* runtime ids inside a node
    Conn,           \* connection ids (crypto.randomUUID, one per upgrade)
    Job,            \* job ids (crypto.randomUUID, one per placement)
    Token,          \* ids of the access tokens of role node
    Binding,        \* the node_id each of them is bound to
    None,           \* SQL NULL, or no such row

    StaleAfter,     \* LIMITS.staleAfterMs
    JobTimeout,     \* LIMITS.jobTimeoutMs
    JobRetention,   \* LIMITS.jobRetentionMs
    NodeRetention,  \* LIMITS.nodeRetentionMs
    IdleGap,        \* the 5_000 ms of recordHeartbeat
    Start,          \* Date.now() when the room is created
    MaxTime         \* bound: the clock stops here, the room does not

ASSUME BindingAssumption == Binding \in [Token -> Node]
ASSUME LimitsAssumption ==
    /\ {StaleAfter, JobTimeout, JobRetention, NodeRetention, IdleGap} \subseteq Nat
    /\ Start \in Nat /\ MaxTime \in Nat
    \* the epoch, which connectNode writes into last_seen, is long ago
    /\ Start > StaleAfter /\ Start > NodeRetention

Lane == Node \X Runtime      \* a reservation_key: node_id NUL runtime_id

ASSUME NoneAssumption == None \notin Nat \cup Conn \cup Job \cup Token \cup Lane

JobStatus == {"unused", "running", "succeeded", "failed", "expired", "deleted"}
RuntimeView == {"absent", "busy", "ready", "unready"}
Report == [Runtime -> RuntimeView]

VARIABLES
    now,            \* Date.now()
    tokenState,     \* access_tokens, as rowIsActive reads it
    socket,         \* readyState of each connection's server socket
    attachment,     \* the socket's principal_id (node_id is Binding of it)
    connections,    \* table connections: node_id -> connection_id
    lastSeen,       \* table nodes: last_seen, None without a row
    snapshot,       \* table nodes: snapshot_json
    jobs,           \* table jobs; "unused" and "deleted" have no row
    holder,         \* table reservations: reservation_key -> job_id
    idleSeen,       \* table reservations: idle_seen_at
    alarm           \* the storage alarm

vars == <<now, tokenState, socket, attachment, connections, lastSeen,
          snapshot, jobs, holder, idleSeen, alarm>>

JobRow == [status    : JobStatus,
           lane      : Lane \cup {None},
           conn      : Conn \cup {None},
           deadline  : Nat,
           completed : Nat \cup {None}]

NoRow(status) == [status |-> status, lane |-> None, conn |-> None,
                  deadline |-> 0, completed |-> None]

NoReport == [r \in Runtime |-> "absent"]

-----------------------------------------------------------------------------
(* Sockets and their authority.                                            *)

NodeOf(c) == Binding[attachment[c]]

\* The node access token behind socket c is neither expired nor revoked.
AuthorizedNode(c) ==
    attachment[c] # None /\ tokenState[attachment[c]] = "active"

\* Sockets that getWebSockets returns, and that messages still arrive on.
Live == {c \in Conn : socket[c] \in {"open", "closing"}}

\* socketFor(n, c): the one socket that work may be sent to.
Dispatchable(n, c) == c # None /\ socket[c] = "open" /\ AuthorizedNode(c) /\ NodeOf(c) = n

Current(c) == connections[NodeOf(c)] = c

-----------------------------------------------------------------------------
(* The jobs and reservations tables.                                       *)

HasRow(row) == row.status \notin {"unused", "deleted"}

RunningIn(rows) == {j \in Job : rows[j].status = "running"}

\* Faulty variant of RunningOn: a lost connection fails none of its jobs.
RunningOnNone(rows, n, c) == {}

\* The running jobs of connection c of node n.
RunningOn(rows, n, c) ==
    {j \in RunningIn(rows) : rows[j].lane[1] = n /\ rows[j].conn = c}

\* Faulty variant of Overdue: WHERE status='running' is missing.
OverdueOfAnyStatus(rows) == {j \in Job : HasRow(rows[j]) /\ rows[j].deadline <= now}

\* WHERE status='running' AND deadline_at <= now.
Overdue(rows) == {j \in RunningIn(rows) : rows[j].deadline <= now}

\* UPDATE jobs SET status, completed_at=now of the running jobs of S.
Settle(rows, S, status) ==
    [j \in Job |-> IF j \in S
                   THEN [rows[j] EXCEPT !.status = status, !.completed = now]
                   ELSE rows[j]]

\* Faulty variants of NextAlarm: the last deadline, and never an alarm.
LastDeadline(rows) ==
    IF RunningIn(rows) = {} THEN None ELSE Max({rows[j].deadline : j \in RunningIn(rows)})
NoAlarm(rows) == None

\* scheduleNextAlarm: the first deadline among the running jobs, or none.
NextAlarm(rows) ==
    IF RunningIn(rows) = {} THEN None ELSE Min({rows[j].deadline : j \in RunningIn(rows)})

\* DELETE FROM reservations WHERE job_id is one of S.
HolderWithout(h, S) == [l \in Lane |-> IF h[l] \in S THEN None ELSE h[l]]

\* Faulty variant of IdleWithout: idle_seen_at outlives its reservation.
IdleOfAnyone(h, S) == [l \in Lane |-> idleSeen[l]]

\* idle_seen_at goes with its row.
IdleWithout(h, S) == [l \in Lane |-> IF h[l] \in S THEN None ELSE idleSeen[l]]

\* prune: overdue jobs expire, then old finished jobs lose their row.
Retained(row) ==
    \/ row.status \in {"unused", "running", "deleted"}
    \/ row.completed >= now - JobRetention
PrunedJobs(rows) ==
    LET expired == Settle(rows, Overdue(rows), "expired")
    IN  [j \in Job |-> IF Retained(expired[j]) THEN expired[j] ELSE NoRow("deleted")]

\* prune: nodes unheard of for NodeRetention and not connected lose their row.
PrunedNodes ==
    {n \in Node : /\ lastSeen[n] # None
                  /\ lastSeen[n] < now - NodeRetention
                  /\ connections[n] = None}

\* Faulty variant of Orphaned: the reservation is kept for running jobs only,
\* so the lane of a job is free the moment it expires.
NotRunning(rows) == Job \ RunningIn(rows)

\* prune: reservations whose job has no row any more.
Orphaned(rows) == {j \in Job : ~HasRow(rows[j])}

PruneNodes ==
    /\ lastSeen' = [n \in Node |-> IF n \in PrunedNodes THEN None ELSE lastSeen[n]]
    /\ snapshot' = [n \in Node |-> IF n \in PrunedNodes THEN NoReport ELSE snapshot[n]]

\* Faulty variant of ReleaseAll: the reservations of settled jobs stay.
ReleaseNone(S) == UNCHANGED <<holder, idleSeen>>

ReleaseAll(S) ==
    /\ holder' = HolderWithout(holder, S)
    /\ idleSeen' = IdleWithout(holder, S)

\* failConnectionJobs: the running jobs of S fail and free their lanes.
FailConnectionJobs(S) ==
    /\ jobs' = Settle(jobs, S, "failed")
    /\ ReleaseAll(S)
    /\ alarm' = NextAlarm(jobs')

\* handleSocketGone: only the current connection of a node takes its row and
\* its jobs with it; a replaced one changes nothing.
HandleSocketGone(c) ==
    IF Current(c)
    THEN /\ connections' = [connections EXCEPT ![NodeOf(c)] = None]
         /\ FailConnectionJobs(RunningOn(jobs, NodeOf(c), c))
    ELSE UNCHANGED <<connections, jobs, holder, idleSeen, alarm>>

\* Faulty variants of Unseen: -1 for never seen, and no reset at all.
UnseenNegative(n) == IF lastSeen[n] = None THEN None ELSE -1
StillSeen(n) == lastSeen[n]

\* UPDATE nodes SET last_seen=0: the node's row, if any, counts as unseen.
Unseen(n) == IF lastSeen[n] = None THEN None ELSE 0

-----------------------------------------------------------------------------
Init ==
    /\ now = Start
    /\ tokenState = [t \in Token |-> "active"]
    /\ socket = [c \in Conn |-> "unused"]
    /\ attachment = [c \in Conn |-> None]
    /\ connections = [n \in Node |-> None]
    /\ lastSeen = [n \in Node |-> None]
    /\ snapshot = [n \in Node |-> NoReport]
    /\ jobs = [j \in Job |-> NoRow("unused")]
    /\ holder = [l \in Lane |-> None]
    /\ idleSeen = [l \in Lane |-> None]
    /\ alarm = None

\* GET /v1/nodes/connect with node token t: connection c becomes its node's
\* current one.  The jobs of the connection it replaces fail, the replaced
\* socket is closed if it is still there, and the node's row is marked unseen.
ConnectNode(c, t) ==
    LET n   == Binding[t]
        old == connections[n]
    IN  /\ socket[c] = "unused"
        /\ tokenState[t] = "active"
        /\ IF old = None
           THEN UNCHANGED <<jobs, holder, idleSeen, alarm>>
           ELSE FailConnectionJobs(RunningOn(jobs, n, old))
        /\ socket' = [d \in Conn |-> IF d = c THEN "open"
                                     ELSE IF d = old /\ d \in Live THEN "closing"
                                     ELSE socket[d]]
        /\ attachment' = [attachment EXCEPT ![c] = t]
        /\ connections' = [connections EXCEPT ![n] = c]
        /\ lastSeen' = [lastSeen EXCEPT ![n] = Unseen(n)]
        /\ UNCHANGED <<now, tokenState, snapshot>>

\* webSocketMessage on a socket whose token expired or was revoked.
MessageUnauthorized(c) ==
    /\ c \in Live
    /\ ~AuthorizedNode(c)
    /\ HandleSocketGone(c)
    /\ socket' = [socket EXCEPT ![c] = "closing"]
    /\ UNCHANGED <<now, tokenState, attachment, lastSeen, snapshot>>

\* webSocketMessage on a socket that is not its node's current connection.
MessageSuperseded(c) ==
    /\ c \in Live
    /\ AuthorizedNode(c)
    /\ ~Current(c)
    /\ socket' = [socket EXCEPT ![c] = "closing"]
    /\ UNCHANGED <<now, tokenState, attachment, connections, lastSeen, snapshot,
                   jobs, holder, idleSeen, alarm>>

\* The checks webSocketMessage makes before it reads a packet.
Accepts(c) == c \in Live /\ AuthorizedNode(c) /\ Current(c)

\* Too large, not JSON, an unknown type, a snapshot or a result that the
\* sanitizers refuse: the socket is closed and its close event does the rest.
MessageMalformed(c) ==
    /\ Accepts(c)
    /\ socket' = [socket EXCEPT ![c] = "closing"]
    /\ UNCHANGED <<now, tokenState, attachment, connections, lastSeen, snapshot,
                   jobs, holder, idleSeen, alarm>>

\* Faulty variant of Quarantined: JOIN jobs without AND j.status='expired'.
Reserved(n) == {l \in Lane : l[1] = n /\ holder[l] # None}

\* Lanes of node n whose job timed out: still reserved, in quarantine.
Quarantined(n) ==
    {l \in Lane : l[1] = n /\ holder[l] # None /\ jobs[holder[l]].status = "expired"}

\* Faulty variant of ReportsIdle: runtime.busy is not looked at.
Reported(report, l) == report[l[2]] # "absent"

ReportsIdle(report, l) == report[l[2]] \in {"ready", "unready"}

\* Faulty variant of Recovers: the first idle report is enough.
RecoversAtOnce(l, report) == ReportsIdle(report, l)

\* A quarantined lane leaves quarantine on the second idle report, IdleGap later.
Recovers(l, report) ==
    /\ ReportsIdle(report, l)
    /\ idleSeen[l] # None
    /\ now - idleSeen[l] >= IdleGap

\* recordHeartbeat.
Heartbeat(c, report) ==
    LET n == NodeOf(c)
    IN  /\ Accepts(c)
        /\ lastSeen' = [lastSeen EXCEPT ![n] = now]
        /\ snapshot' = [snapshot EXCEPT ![n] = report]
        /\ holder' = [l \in Lane |-> IF l \in Quarantined(n) /\ Recovers(l, report)
                                     THEN None ELSE holder[l]]
        /\ idleSeen' = [l \in Lane |->
                IF l \notin Quarantined(n) THEN idleSeen[l]
                ELSE IF ~ReportsIdle(report, l) \/ Recovers(l, report) THEN None
                ELSE IF idleSeen[l] = None THEN now
                ELSE idleSeen[l]]
        /\ UNCHANGED <<now, tokenState, socket, attachment, connections, jobs, alarm>>

\* What recordResult requires of the job a result names; any other result is
\* ignored.
Answers(c, j) ==
    /\ Accepts(c)
    /\ jobs[j].status = "running"
    /\ jobs[j].conn = c
    /\ jobs[j].lane[1] = NodeOf(c)

\* Faulty variant of InTime: the deadline itself still counts.
InTimeAtDeadline(j) == now <= jobs[j].deadline

InTime(j) == now < jobs[j].deadline

\* recordResult before the deadline: the job finishes and frees its lane.
ResultInTime(c, j, outcome) ==
    /\ Answers(c, j)
    /\ InTime(j)
    /\ jobs' = Settle(jobs, {j}, outcome)
    /\ ReleaseAll({j})
    /\ alarm' = NextAlarm(jobs')
    /\ UNCHANGED <<now, tokenState, socket, attachment, connections, lastSeen, snapshot>>

\* recordResult at or after the deadline: the answer is dropped, the job
\* expires and its lane stays reserved.
ResultLate(c, j) ==
    /\ Answers(c, j)
    /\ ~InTime(j)
    /\ jobs' = Settle(jobs, {j}, "expired")
    /\ alarm' = NextAlarm(jobs')
    /\ UNCHANGED <<now, tokenState, socket, attachment, connections, lastSeen,
                   snapshot, holder, idleSeen>>

\* The peer closes or the network fails: the socket is no longer OPEN, and
\* its close event has yet to be delivered.
PeerGone(c) ==
    /\ socket[c] = "open"
    /\ socket' = [socket EXCEPT ![c] = "closing"]
    /\ UNCHANGED <<now, tokenState, attachment, connections, lastSeen, snapshot,
                   jobs, holder, idleSeen, alarm>>

\* webSocketClose, webSocketError.
SocketGone(c) ==
    /\ socket[c] = "closing"
    /\ HandleSocketGone(c)
    /\ socket' = [socket EXCEPT ![c] = "closed"]
    /\ UNCHANGED <<now, tokenState, attachment, lastSeen, snapshot>>

\* nodeStatus = 'online', for a connected node.
Online(n) == lastSeen[n] # None /\ now - lastSeen[n] <= StaleAfter

\* Faulty variant of Unreserved: candidates and transaction ignore reservations.
Unguarded(l) == TRUE

\* reservedRuntimeKeys does not have l, so the transaction's INSERT wins.
Unreserved(l) == holder[l] = None

\* A lane of placementCandidates over schedulableNodes.
Candidate(l) ==
    /\ Dispatchable(l[1], connections[l[1]])
    /\ Online(l[1])
    /\ snapshot[l[1]][l[2]] = "ready"
    /\ Unreserved(l)

\* The row createTask inserts for a job it places on lane l.
PlacedRow(l) == [status    |-> "running",
                 lane      |-> l,
                 conn      |-> connections[l[1]],
                 deadline  |-> now + JobTimeout,
                 completed |-> None]

\* createTask, from the placement on: the reservation and the job are written
\* in one transaction, then the request is sent.  If send throws, the job has
\* failed and the lane is free again; otherwise the alarm is scheduled.
CreateTask(j, l, sent) ==
    LET placed == [jobs EXCEPT ![j] = PlacedRow(l)]
    IN  /\ jobs[j].status = "unused"
        /\ now + JobTimeout <= MaxTime
        /\ Candidate(l)
        /\ jobs' = IF sent THEN placed ELSE Settle(placed, {j}, "failed")
        /\ holder' = [holder EXCEPT ![l] = IF sent THEN j ELSE None]
        /\ idleSeen' = [idleSeen EXCEPT ![l] = None]
        /\ alarm' = NextAlarm(jobs')
        /\ UNCHANGED <<now, tokenState, socket, attachment, connections,
                       lastSeen, snapshot>>

Prune ==
    /\ jobs' = PrunedJobs(jobs)
    /\ PruneNodes
    /\ ReleaseAll(Orphaned(jobs'))

\* Any authenticated request: fetch prunes before it serves it.
ApiRequest ==
    /\ Prune
    /\ UNCHANGED <<now, tokenState, socket, attachment, connections, alarm>>

\* alarm(): overdue jobs expire, then prune, then the alarm is set again.
Alarm ==
    /\ alarm # None
    /\ alarm <= now
    /\ Prune
    /\ alarm' = NextAlarm(jobs')
    /\ UNCHANGED <<now, tokenState, socket, attachment, connections>>

\* Faulty variant of SocketsOf: a socket already closing is passed over.
OpenSocketsOf(t) == {c \in Live : attachment[c] = t /\ socket[c] = "open"}

\* getWebSockets of principal t.
SocketsOf(t) == {c \in Live : attachment[c] = t}

\* DELETE /api/tokens/t: prune, then handleSocketGone and a close for every
\* live socket of the token.  At most one of them is its node's current one.
RevokeToken(t) ==
    LET mine    == SocketsOf(t)
        active  == {c \in mine : Current(c)}
        pruned  == PrunedJobs(jobs)
        failing == UNION {RunningOn(pruned, NodeOf(c), c) : c \in active}
    IN  /\ tokenState[t] # "revoked"
        /\ tokenState' = [tokenState EXCEPT ![t] = "revoked"]
        /\ PruneNodes
        /\ jobs' = Settle(pruned, failing, "failed")
        /\ ReleaseAll(Orphaned(pruned) \cup failing)
        /\ connections' = [n \in Node |-> IF connections[n] \in active THEN None
                                          ELSE connections[n]]
        /\ socket' = [c \in Conn |-> IF c \in mine THEN "closing" ELSE socket[c]]
        /\ alarm' = IF active = {} THEN alarm ELSE NextAlarm(jobs')
        /\ UNCHANGED <<now, attachment>>

\* expires_at of token t passes; nothing in the room runs.
ExpireToken(t) ==
    /\ tokenState[t] = "active"
    /\ tokenState' = [tokenState EXCEPT ![t] = "expired"]
    /\ UNCHANGED <<now, socket, attachment, connections, lastSeen, snapshot,
                   jobs, holder, idleSeen, alarm>>

\* The durable object's host restarts: every socket is gone and no close
\* event will tell, the storage and its alarm are kept.
Restart ==
    /\ Live # {}
    /\ socket' = [c \in Conn |-> IF c \in Live THEN "closed" ELSE socket[c]]
    /\ UNCHANGED <<now, tokenState, attachment, connections, lastSeen, snapshot,
                   jobs, holder, idleSeen, alarm>>

Tick ==
    /\ now < MaxTime
    /\ now' = now + 1
    /\ UNCHANGED <<tokenState, socket, attachment, connections, lastSeen,
                   snapshot, jobs, holder, idleSeen, alarm>>

\* Everything but a heartbeat.
SilentNext ==
    \/ \E c \in Conn, t \in Token : ConnectNode(c, t)
    \/ \E c \in Conn : MessageUnauthorized(c)
    \/ \E c \in Conn : MessageSuperseded(c)
    \/ \E c \in Conn : MessageMalformed(c)
    \/ \E c \in Conn, j \in Job, outcome \in {"succeeded", "failed"} :
            ResultInTime(c, j, outcome)
    \/ \E c \in Conn, j \in Job : ResultLate(c, j)
    \/ \E c \in Conn : PeerGone(c)
    \/ \E c \in Conn : SocketGone(c)
    \/ \E j \in Job, l \in Lane, sent \in BOOLEAN : CreateTask(j, l, sent)
    \/ ApiRequest
    \/ Alarm
    \/ \E t \in Token : RevokeToken(t)
    \/ \E t \in Token : ExpireToken(t)
    \/ Restart
    \/ Tick

Next ==
    \/ \E c \in Conn, report \in Report : Heartbeat(c, report)
    \/ SilentNext

Spec == Init /\ [][Next]_vars

\* Time passes, and the platform delivers an alarm that is due.
Fairness == WF_vars(Tick) /\ WF_vars(Alarm)

FairSpec == Spec /\ Fairness

-----------------------------------------------------------------------------
(* Correctness.                                                            *)

TypeOK ==
    /\ now \in Nat
    /\ tokenState \in [Token -> {"active", "expired", "revoked"}]
    /\ socket \in [Conn -> {"unused", "open", "closing", "closed"}]
    /\ attachment \in [Conn -> Token \cup {None}]
    /\ connections \in [Node -> Conn \cup {None}]
    /\ lastSeen \in [Node -> Nat \cup {None}]
    /\ snapshot \in [Node -> Report]
    /\ jobs \in [Job -> JobRow]
    /\ holder \in [Lane -> Job \cup {None}]
    /\ idleSeen \in [Lane -> Nat \cup {None}]
    /\ alarm \in Nat \cup {None}

\* A running job owns the reservation of its lane from the transaction of
\* createTask until it is settled, whatever disconnects, replacements, late
\* results, prunes and alarms happen meanwhile.
RunningHoldsLane ==
    \A j \in RunningIn(jobs) : jobs[j].lane # None /\ holder[jobs[j].lane] = j

\* No reservation leaks: every reserved lane is held by a job of that lane
\* that still runs or timed out.  A lane held by a finished or a deleted job
\* would never be placed on again.
NoLeakedReservation ==
    \A l \in Lane : holder[l] # None =>
        /\ jobs[holder[l]].status \in {"running", "expired"}
        /\ jobs[holder[l]].lane = l

\* createTask never puts two jobs on one runtime: no two running jobs share a
\* lane, and no job runs where a timed-out one is in quarantine.
OneJobPerLane ==
    \A i, j \in Job :
        /\ i # j
        /\ jobs[i].status = "running"
        /\ jobs[j].status = "running" \/ (jobs[j].status = "expired" /\ j \in {holder[l] : l \in Lane})
        => jobs[i].lane # jobs[j].lane

\* A running job was sent to the connection that is still its node's current
\* one; every path that ends or replaces a connection fails its jobs first,
\* so no job waits for an answer recordResult would refuse.
RunningOnCurrentConnection ==
    \A j \in RunningIn(jobs) : jobs[j].conn # None /\ Current(jobs[j].conn)

\* After DELETE /api/tokens/:id no job keeps running over a socket of that
\* token that could still be read from.
NoWorkForRevokedToken ==
    \A j \in RunningIn(jobs) :
        tokenState[attachment[jobs[j].conn]] = "revoked" => jobs[j].conn \notin Live

\* The storage alarm never comes after a running job's deadline, although
\* prune and late results expire jobs without setting it again.
AlarmCoversDeadlines ==
    \A j \in RunningIn(jobs) : alarm # None /\ alarm <= jobs[j].deadline

\* recordHeartbeat's idle evidence on a lane was gathered after the job in
\* quarantine timed out; evidence about an earlier job is never inherited.
IdleEvidenceIsOwn ==
    \A l \in Lane : idleSeen[l] # None =>
        /\ holder[l] # None
        /\ jobs[holder[l]].status = "expired"
        /\ jobs[holder[l]].completed <= idleSeen[l]
        /\ idleSeen[l] <= now

\* The deadline decides between the answer and the timeout, whichever of
\* result, alarm and prune comes first: a job that succeeded was settled
\* before its deadline and one that expired was settled at or after it.
DeadlineDecides ==
    \A j \in Job :
        /\ jobs[j].status = "succeeded" => jobs[j].completed < jobs[j].deadline
        /\ jobs[j].status = "expired" => jobs[j].completed >= jobs[j].deadline

\* A settled job is settled once: no late result, second alarm, disconnect or
\* prune gives it another outcome; it can only lose its row.
SettledOnce ==
    [][\A j \in Job :
        jobs[j].status \in {"succeeded", "failed", "expired"}
            => jobs'[j] = jobs[j] \/ jobs'[j].status = "deleted"]_vars

\* How far job j is, by its row.
StageOf(j) ==
    CASE jobs[j].status = "unused"  -> "new"
      [] jobs[j].status = "running" -> "active"
      [] jobs[j].status = "expired" -> "overdue"
      [] jobs[j].status = "deleted" -> "forgotten"
      [] OTHER -> "done"

\* The rows of reservations and jobs implement the lease of RuntimeLease: a
\* lane goes to a fresh job when it is free, and a job that timed out, however
\* it does, keeps its lane until the lane was seen idle in quarantine before
\* (idle_seen_at), or prune deletes the job's row.
Lease == INSTANCE RuntimeLease WITH
    lease <- holder,
    seen  <- {l \in Lane : idleSeen[l] # None},
    stage <- [j \in Job |-> StageOf(j)]
ImplementsLease == Lease!Spec

\* Every job settles: its deadline passes and the alarm finds it, even when
\* its node never answers and no request ever comes.
EveryJobSettles ==
    \A j \in Job : jobs[j].status = "running" ~> jobs[j].status # "running"
=============================================================================

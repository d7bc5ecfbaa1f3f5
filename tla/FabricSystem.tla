---------------------------- MODULE FabricSystem ----------------------------
(***************************************************************************)
(* The room and one Dendrite node, composed over the WebSocket between     *)
(* them: FabricRoom is one end, NodeBridge the other.  The ends learn of   *)
(* the fate of a connection separately: the room may still hold a socket   *)
(* open that the node has left, and the node may still work for a          *)
(* connection that the room has given up.                                  *)
(*                                                                         *)
(* What the node sends travels in wire, one queue for each connection,     *)
(* and may arrive after the connection was replaced; what the room sends   *)
(* goes to the bridge's inbox, or is lost.                                 *)
(*                                                                         *)
(* Each module alone lets its peer do anything.  Here the reports say what *)
(* the node's lanes really hold, and only jobs that were sent are answered.*)
(*                                                                         *)
(* Left to the modules themselves: revocation and expiry of tokens,        *)
(* malformed messages (FabricRoom), local requests, the shutdown and the   *)
(* rotation of full histories (NodeBridge).  An idle runtime is reported   *)
(* ready.                                                                  *)
(***************************************************************************)
EXTENDS Naturals, Sequences, FiniteSets

CONSTANTS
    node,           \* the node
    Runtime, Attached, RuntimeOf, Conn, Job, Token, None,
    StaleAfter, JobTimeout, JobRetention, NodeRetention, IdleGap, Start, MaxTime,
    MaxWire         \* bound: heartbeats on their way over one connection

ASSUME RuntimesAssumption ==
    /\ Attached \subseteq Runtime /\ IsFiniteSet(Runtime)
    /\ RuntimeOf \in [Job -> Runtime]
\* Finitely many, because the bounds of Bridge count them.
ASSUME FinitelyManyAssumption == IsFiniteSet(Job) /\ IsFiniteSet(Conn)
ASSUME NamesAssumption ==
    /\ None \notin Nat \cup Conn \cup Job \cup Token \cup Runtime \cup ({node} \X Runtime)
    /\ None \notin {"local", "heartbeat"} /\ "local" \notin Job /\ "heartbeat" \notin Job
ASSUME LimitsAssumption ==
    /\ {StaleAfter, JobTimeout, JobRetention, NodeRetention, IdleGap} \subseteq Nat
    /\ Start \in Nat /\ MaxTime \in Nat /\ MaxWire \in Nat
    /\ Start > StaleAfter /\ Start > NodeRetention
    /\ JobTimeout > 0

VARIABLES
    now, tokenState, socket, attachment, connections, lastSeen, snapshot, jobs, holder,
    idleSeen, alarm,
    conn, up, inbox, refusing, heart, task, completed, lane, stopping, starts, pushes, opened,
    ws,             \* the connection that the bridge serves, or served last
    wire            \* of each connection: what the node sent and the room has not read;
                    \* lost when the room's socket is gone

room == <<now, tokenState, socket, attachment, connections, lastSeen, snapshot, jobs, holder,
          idleSeen, alarm>>
bridge == <<conn, up, inbox, refusing, heart, task, completed, lane, stopping, starts, pushes,
            opened>>
vars == <<room, bridge, ws, wire>>

Room == INSTANCE FabricRoom WITH Node <- {node}, Binding <- [t \in Token |-> node]

\* Every job is pushed once and every connection is opened once.
Bridge == INSTANCE NodeBridge WITH
    connections <- opened, MaxConnections <- Cardinality(Conn),
    MaxInbox <- Cardinality(Job), MaxPushes <- Cardinality(Job),
    MaxCompleted <- Cardinality(Job) + 1

-----------------------------------------------------------------------------
(* The node sends.                                                         *)

Message == [kind : {"heartbeat"}, report : Room!Report]
           \cup [kind : {"result"}, job : Job, outcome : {"succeeded", "failed"}]

\* Runtime.snapshot: busy is lock.locked().
ReportNow == [r \in Runtime |-> IF Bridge!Idle(r) THEN "ready" ELSE "busy"]

Heartbeat(report) == [kind |-> "heartbeat", report |-> report]
Result(j, outcome) == [kind |-> "result", job |-> j, outcome |-> outcome]

Send(message) ==
    wire' = IF up /\ ws \in Room!Live THEN [wire EXCEPT ![ws] = Append(@, message)] ELSE wire

SendHeartbeat ==
    /\ Bridge!HeartbeatSends
    /\ Len(wire[ws]) < MaxWire
    /\ Send(Heartbeat(ReportNow))

\* An execution's result or error; the 429 of a node without a free lane.
SendResult ==
    \/ \E j \in Job, outcome \in {"succeeded", "failed"} :
          Bridge!SendEnds(j) /\ Send(Result(j, outcome))
    \/ Bridge!RefusalSent /\ Send(Result(refusing, "failed"))

-----------------------------------------------------------------------------
(* The room reads: webSocketMessage.                                       *)

Ignores(c, m) == Room!Accepts(c) /\ m.kind = "result" /\ ~Room!Answers(c, m.job)

Read(c, m) ==
    \/ m.kind = "heartbeat" /\ Room!Heartbeat(c, m.report)
    \/ m.kind = "result" /\ (Room!ResultInTime(c, m.job, m.outcome) \/ Room!ResultLate(c, m.job))
    \/ Ignores(c, m) /\ UNCHANGED room
    \/ Room!MessageSuperseded(c)

Deliver(c) ==
    /\ wire[c] # <<>>
    /\ Read(c, Head(wire[c]))
    /\ wire' = [wire EXCEPT ![c] = Tail(@)]
    /\ UNCHANGED <<bridge, ws>>

-----------------------------------------------------------------------------
(* The room sends, and connections begin.                                  *)

\* socket.send succeeds also when the node has gone.
Reaches(c) == ws = c /\ up /\ conn \in Bridge!Served

CreateTask(j, sent) ==
    LET l == <<node, RuntimeOf[j]>> IN
    /\ Room!CreateTask(j, l, sent)
    /\ IF sent /\ Reaches(connections[node]) THEN Bridge!Push(j) ELSE UNCHANGED bridge
    /\ UNCHANGED <<ws, wire>>

\* The upgrade is answered, and the answer arrives or not.
Connect(c, t) ==
    /\ Room!ConnectNode(c, t)
    /\ \/ Bridge!Connect /\ ws' = c
       \/ Bridge!ConnectFails /\ UNCHANGED ws
    /\ UNCHANGED wire

-----------------------------------------------------------------------------
(* Each end by itself.                                                     *)

NodeAlone ==
    /\ \/ \E r \in Runtime : Bridge!ObservationEnds(r)
       \/ \E j \in Job : Bridge!Begin(j) \/ Bridge!Select(j) \/ Bridge!RunEnds(j)
                         \/ Bridge!AbortEnds(j)
       \/ Bridge!Receive \/ Bridge!HeartbeatObserves \/ Bridge!HeartbeatSent
       \/ Bridge!ConnectFails \/ Bridge!Drop \/ Bridge!ConnectionEnds \/ Bridge!Gathered
       \/ Bridge!BackoffEnds
    /\ UNCHANGED <<room, ws, wire>>

RoomAlone ==
    /\ \/ \E c \in Conn : Room!PeerGone(c) \/ Room!SocketGone(c)
       \/ Room!ApiRequest \/ Room!Alarm \/ Room!Restart
    /\ wire' = [c \in Conn |-> IF socket'[c] = "closed" THEN <<>> ELSE wire[c]]
    /\ UNCHANGED <<bridge, ws>>

Linked == ws # None /\ up /\ socket[ws] = "open"

\* Before its lane is taken a job is a message or a task that looks for its runtime.
Waits(j) == j \in {inbox[i] : i \in DOMAIN inbox} \/ task[j] \in {"created", "refreshing"}

\* Messages and the turns of the event loop take less than a unit of time, or the
\* connection has broken: ping_interval and ping_timeout of connect are 20 seconds each, an
\* observation makes two requests for each model of its runtime until one is served, with
\* timeouts of two seconds, and JobTimeout is 180.
Prompt == Linked => wire[ws] = <<>> /\ refusing = None /\ \A j \in Job : ~Waits(j)

\* An execution ends by request_timeout_seconds, at most 900; a job's row is kept for a day.
ExecutionsEnd ==
    Linked => \A j \in Job : task[j] = "running" => now < jobs[j].deadline + JobRetention

Time == Prompt /\ ExecutionsEnd /\ Room!Tick /\ UNCHANGED <<bridge, ws, wire>>

-----------------------------------------------------------------------------
Init ==
    /\ Room!Init /\ Bridge!Init
    /\ ws = None
    /\ wire = [c \in Conn |-> <<>>]

Next ==
    \/ NodeAlone \/ RoomAlone \/ Time
    \/ SendHeartbeat /\ UNCHANGED <<room, ws>>
    \/ SendResult /\ UNCHANGED <<room, ws>>
    \/ \E c \in Conn : Deliver(c)
    \/ \E j \in Job, sent \in BOOLEAN : CreateTask(j, sent)
    \/ \E c \in Conn, t \in Token : Connect(c, t)

Spec == Init /\ [][Next]_vars

-----------------------------------------------------------------------------
(* Properties.                                                             *)

\* What the quarantine is for (docs/fabric.md:143, recordHeartbeat): as long as room and
\* node hold the same connection, a job that waits for its runtime or runs there has its
\* reservation in the room, so that no other job is sent to it; although the room times
\* jobs out, loses and replaces connections, and sees the lanes through reports alone.
WorkIsReserved ==
    Linked => \A j \in Job :
        Waits(j) \/ task[j] = "running" => holder[<<node, RuntimeOf[j]>>] = j
=============================================================================

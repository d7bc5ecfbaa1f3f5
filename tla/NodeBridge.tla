----------------------------- MODULE NodeBridge -----------------------------
(***************************************************************************)
(* The outbound bridge of a Dendrite node: serve_connection and            *)
(* run_fabric_bridge of src/dendrite/fabric.py, with Node.execute, the     *)
(* lanes it takes, and the shutdown of api.py.                             *)
(*                                                                         *)
(* A connection is served by a receiver, a heartbeat task and one task per *)
(* accepted job.  asyncio is cooperative: a segment between two awaits is  *)
(* one action.  What a job's task awaits is its stage:                     *)
(*   "created"     its first turn                                          *)
(*   "refreshing"  its observations of the attached runtimes               *)
(*   "running"     its runtime, whose lane it holds (see RuntimeLane)      *)
(*   "sending"     ws.send of its result or error                          *)
(*   "cancelled"   abort(), still in the lane, after the connection ended  *)
(*                                                                         *)
(* The room pushes what it likes, twice if it likes.  Model ids and their  *)
(* runtimes are unique in a configuration, and the room names the model,   *)
(* so a job has one runtime.  Left out: payloads, the length of the        *)
(* backoff, and which error an execution ends with.                        *)
(***************************************************************************)
EXTENDS Naturals, Sequences, FiniteSets

CONSTANTS
    Job,            \* job ids
    Runtime,        \* configured runtimes
    Attached,       \* those in mode "attach"
    RuntimeOf,      \* of each job: the runtime of its model
    MaxCompleted,   \* jobs after which a connection is rotated, 1024 in the code
    MaxInbox,       \* bound on messages in flight (max_queue of connect)
    MaxPushes,      \* bound on messages of one connection
    MaxConnections, \* bound on connections
    None

ASSUME RuntimesAssumption ==
    /\ Attached \subseteq Runtime /\ IsFiniteSet(Runtime)
    /\ RuntimeOf \in [Job -> Runtime]
ASSUME NamesAssumption == None \notin Job \cup Runtime /\ "local" \notin Job
                          /\ "heartbeat" \notin Job /\ None \notin {"local", "heartbeat"}
ASSUME BoundsAssumption == /\ MaxCompleted \in Nat \ {0} /\ MaxInbox \in Nat
                           /\ MaxPushes \in Nat /\ MaxConnections \in Nat

VARIABLES
    conn,       \* run_fabric_bridge: "connecting", "open", "rotating" (ws.close),
                \* "ending" (the finally of serve_connection), "backoff", "stopped"
    up,         \* the WebSocket works
    inbox,      \* job ids pushed and not yet received
    refusing,   \* the job whose 429 the receiver is sending, or None
    heart,      \* the heartbeat task: "observing", "sending", "sleeping", "ended"
    task,       \* stage of each job's task, "none" if it is not in active
    completed,  \* job ids done on this connection
    lane,       \* what holds the lock of each runtime: a running job, who observes it,
                \* "local" (a request to the node's own API), or None
    stopping,   \* the application shuts down
    starts,     \* history: of each job, its executions on this connection
    pushes, connections     \* counters for the bounds

link == <<conn, up, stopping, connections>>
vars == <<link, inbox, refusing, heart, task, completed, lane, starts, pushes>>

Stage == {"none", "created", "refreshing", "running", "sending", "cancelled"}
Phase == {"connecting", "open", "rotating", "ending", "backoff", "stopped"}
Served == {"open", "rotating"}     \* serve_connection awaits its first finished task

active == {j \in Job : task[j] # "none"}
Idle(r) == lane[r] = None

-----------------------------------------------------------------------------
(* Lanes.                                                                  *)

\* refresh_attached: an attached runtime whose lane is taken is not observed.
Observed(by) == [r \in Runtime |-> IF r \in Attached /\ Idle(r) THEN by ELSE lane[r]]

\* An observation ends; its caller goes on when it was the last.
Observing(who) == {r \in Runtime : lane[r] = who}
Freed(rs) == [r \in Runtime |-> IF r \in rs THEN None ELSE lane[r]]

Observers == {"heartbeat"} \cup {j \in Job : task[j] = "refreshing"}

ObservationEnds(r) ==
    /\ lane[r] \in Observers
    /\ lane' = Freed({r})
    /\ UNCHANGED <<link, inbox, refusing, heart, task, completed, starts, pushes>>

\* The node's own API executes, loads, unloads or observes; and is done.
LocalCall(r) ==
    /\ ~stopping
    /\ Idle(r)
    /\ lane' = [lane EXCEPT ![r] = "local"]
    /\ UNCHANGED <<link, inbox, refusing, heart, task, completed, starts, pushes>>

LocalDone(r) ==
    /\ lane[r] = "local"
    /\ lane' = Freed({r})
    /\ UNCHANGED <<link, inbox, refusing, heart, task, completed, starts, pushes>>

-----------------------------------------------------------------------------
(* A job's task: execute(message).                                         *)

Goes(j, stage) == task' = [task EXCEPT ![j] = stage]

Begin(j) ==
    /\ task[j] = "created"
    /\ Goes(j, "refreshing")
    /\ lane' = Observed(j)
    /\ starts' = [starts EXCEPT ![j] = @ + 1]
    /\ UNCHANGED <<link, inbox, refusing, heart, completed, pushes>>

\* No await between select, lane() and the uncontended acquire.
Admits(r) == Idle(r)

\* Node.select and the entry of Runtime.execute; the model may be unavailable too.
Select(j) ==
    /\ task[j] = "refreshing" /\ Observing(j) = {}
    /\ \/ /\ Admits(RuntimeOf[j])
          /\ lane' = [lane EXCEPT ![RuntimeOf[j]] = j]
          /\ Goes(j, "running")
       \/ /\ Goes(j, "sending")
          /\ UNCHANGED lane
    /\ UNCHANGED <<link, inbox, refusing, heart, completed, starts, pushes>>

\* The runtime answers, fails or exceeds its deadline.
RunEnds(j) ==
    /\ task[j] = "running"
    /\ Goes(j, "sending")
    /\ lane' = Freed({RuntimeOf[j]})
    /\ UNCHANGED <<link, inbox, refusing, heart, completed, starts, pushes>>

\* Faulty variants of Finished: the job is not remembered; only a cancelled one leaves
\* active.
Forgotten(j) == Goes(j, "none") /\ UNCHANGED completed
Lingering(j) == /\ Goes(j, IF task[j] = "cancelled" THEN "none" ELSE task[j])
                /\ completed' = completed \cup {j}

\* The finally of execute.
Finished(j) == Goes(j, "none") /\ completed' = completed \cup {j}

\* The send succeeds, or raises because the connection is gone.
SendEnds(j) ==
    /\ task[j] = "sending"
    /\ Finished(j)
    /\ UNCHANGED <<link, inbox, refusing, heart, lane, starts, pushes>>

AbortEnds(j) ==
    /\ task[j] = "cancelled"
    /\ Finished(j)
    /\ lane' = Freed({RuntimeOf[j]})
    /\ UNCHANGED <<link, inbox, refusing, heart, starts, pushes>>

-----------------------------------------------------------------------------
(* The receiver.                                                           *)

Receiving == conn = "open" /\ refusing = None /\ inbox # <<>>

\* Faulty variant of AtHistoryLimit: one too late.
AtHistoryLimitLate == Cardinality(completed) > MaxCompleted

AtHistoryLimit == Cardinality(completed) >= MaxCompleted

\* A job that is active or done is dropped; a full history closes the connection; a
\* busy node refuses; otherwise a task is created.
Receive ==
    LET j == Head(inbox) IN
    /\ Receiving
    /\ inbox' = Tail(inbox)
    /\ IF j \in active \cup completed
       THEN UNCHANGED <<link, refusing, task>>
       ELSE IF AtHistoryLimit
       THEN conn' = "rotating" /\ up' = FALSE /\ UNCHANGED <<stopping, connections, refusing, task>>
       ELSE IF Cardinality(active) >= Cardinality(Runtime)
       THEN refusing' = j /\ UNCHANGED <<link, task>>
       ELSE Goes(j, "created") /\ UNCHANGED <<link, refusing>>
    /\ UNCHANGED <<heart, completed, lane, starts, pushes>>

RefusalSent ==
    /\ conn = "open" /\ refusing # None
    /\ up
    /\ refusing' = None
    /\ UNCHANGED <<link, inbox, heart, task, completed, lane, starts, pushes>>

-----------------------------------------------------------------------------
(* The heartbeat task.                                                     *)

HeartbeatObserves ==
    /\ conn \in Served
    /\ heart = "sleeping"
    /\ heart' = "observing"
    /\ lane' = Observed("heartbeat")
    /\ UNCHANGED <<link, inbox, refusing, task, completed, starts, pushes>>

HeartbeatSends ==
    /\ conn \in Served
    /\ heart = "observing" /\ Observing("heartbeat") = {}
    /\ heart' = "sending"
    /\ UNCHANGED <<link, inbox, refusing, task, completed, lane, starts, pushes>>

HeartbeatSent ==
    /\ conn \in Served
    /\ heart = "sending"
    /\ up
    /\ heart' = "sleeping"
    /\ UNCHANGED <<link, inbox, refusing, task, completed, lane, starts, pushes>>

-----------------------------------------------------------------------------
(* The connection.                                                         *)

\* Faulty variant of Cancelled: the executions are left to themselves.
CancelledNone == task

\* task.cancel() of every active task: one that is in its runtime aborts first, the
\* others are at their end, and so are the observations they wait for.
Cancelled == [j \in Job |-> IF task[j] = "running" THEN "cancelled" ELSE "none"]

\* The finally of serve_connection, up to its gather.
End ==
    /\ conn' = "ending"
    /\ up' = FALSE
    /\ task' = Cancelled
    /\ lane' = Freed({r \in Runtime : lane[r] \in Observers})
    /\ heart' = "ended"
    /\ inbox' = <<>> /\ refusing' = None

\* connect succeeds.
Connect ==
    /\ conn = "connecting"
    /\ connections < MaxConnections
    /\ connections' = connections + 1
    /\ conn' = "open" /\ up' = TRUE
    /\ inbox' = <<>> /\ refusing' = None
    /\ heart' = "observing" /\ lane' = Observed("heartbeat")
    /\ task' = [j \in Job |-> "none"] /\ completed' = {}    \* locals of serve_connection
    /\ starts' = [j \in Job |-> 0] /\ pushes' = 0
    /\ UNCHANGED stopping

ConnectFails ==
    /\ conn = "connecting"
    /\ conn' = "backoff"
    /\ UNCHANGED <<up, stopping, connections, inbox, refusing, heart, task, completed, lane,
                   starts, pushes>>

\* The room, the network or the keepalive gives the connection up; what was received
\* before is still there.
Drop ==
    /\ conn \in Served /\ up
    /\ up' = FALSE
    /\ UNCHANGED <<conn, stopping, connections, inbox, refusing, heart, task, completed, lane,
                   starts, pushes>>

\* A closed receiver or a failed sender ends the connection.
ConnectionEnds ==
    /\ \/ conn = "open" /\ ~up /\ (inbox = <<>> \/ refusing # None)
       \/ conn = "open" /\ ~up /\ heart = "sending"
       \/ conn = "rotating"
    /\ End
    /\ UNCHANGED <<stopping, connections, completed, starts, pushes>>

\* gather returns, and connect's exit has closed the WebSocket.
Gathered ==
    /\ conn = "ending"
    /\ \A j \in Job : task[j] # "cancelled"
    /\ conn' = IF stopping THEN "stopped" ELSE "backoff"
    /\ UNCHANGED <<up, stopping, connections, inbox, refusing, heart, task, completed, lane,
                   starts, pushes>>

BackoffEnds ==
    /\ conn = "backoff"
    /\ conn' = "connecting"
    /\ UNCHANGED <<up, stopping, connections, inbox, refusing, heart, task, completed, lane,
                   starts, pushes>>

\* lifespan cancels the bridge and awaits it before it closes the node.  A gather that
\* is cancelled cancels its tasks once more and still awaits them.
Shutdown ==
    /\ ~stopping
    /\ stopping' = TRUE
    /\ \/ conn \in Served /\ End
       \/ conn = "ending" /\ UNCHANGED <<conn, up, task, lane, heart, inbox, refusing>>
       \/ conn \in {"connecting", "backoff"} /\ conn' = "stopped"
          /\ UNCHANGED <<up, task, lane, heart, inbox, refusing>>
    /\ UNCHANGED <<connections, completed, starts, pushes>>

\* The bridge has ended; node.close() follows, see RuntimeLane.
Stopped == conn = "stopped" /\ UNCHANGED vars

\* The room pushes a job, a new one or one it has pushed before.
Push(j) ==
    /\ conn \in Served /\ up
    /\ pushes < MaxPushes /\ Len(inbox) < MaxInbox
    /\ pushes' = pushes + 1
    /\ inbox' = Append(inbox, j)
    /\ UNCHANGED <<link, refusing, heart, task, completed, lane, starts>>

-----------------------------------------------------------------------------
Init ==
    /\ conn = "connecting" /\ up = FALSE /\ stopping = FALSE
    /\ inbox = <<>> /\ refusing = None /\ heart = "ended"
    /\ task = [j \in Job |-> "none"] /\ completed = {}
    /\ lane = [r \in Runtime |-> None]
    /\ starts = [j \in Job |-> 0] /\ pushes = 0 /\ connections = 0

Next ==
    \/ \E r \in Runtime : ObservationEnds(r) \/ LocalCall(r) \/ LocalDone(r)
    \/ \E j \in Job : Begin(j) \/ Select(j) \/ RunEnds(j) \/ SendEnds(j) \/ AbortEnds(j) \/ Push(j)
    \/ Receive \/ RefusalSent
    \/ HeartbeatObserves \/ HeartbeatSends \/ HeartbeatSent
    \/ Connect \/ ConnectFails \/ Drop \/ ConnectionEnds \/ Gathered \/ BackoffEnds \/ Shutdown
    \/ Stopped

\* The event loop runs what is ready; observations and executions have deadlines, an
\* abort kills, and a send that the room does not read ends with the keepalive.
Fairness ==
    /\ \A r \in Runtime : WF_vars(ObservationEnds(r))
    /\ \A j \in Job : /\ WF_vars(Begin(j)) /\ WF_vars(Select(j)) /\ WF_vars(RunEnds(j))
                      /\ WF_vars(SendEnds(j)) /\ WF_vars(AbortEnds(j))
    /\ WF_vars(RefusalSent \/ (refusing # None /\ Drop)) /\ WF_vars(Receive)
    /\ WF_vars(ConnectionEnds) /\ WF_vars(Gathered)

Spec == Init /\ [][Next]_vars
FairSpec == Spec /\ Fairness

-----------------------------------------------------------------------------
(* Properties.                                                             *)

\* What a connection remembers is bounded, although jobs finish after the history was
\* last compared with its limit (receive).
TypeOK ==
    /\ conn \in Phase /\ up \in BOOLEAN /\ stopping \in BOOLEAN
    /\ inbox \in Seq(Job) /\ Len(inbox) <= MaxInbox
    /\ refusing \in Job \cup {None}
    /\ heart \in {"observing", "sending", "sleeping", "ended"}
    /\ task \in [Job -> Stage]
    /\ completed \subseteq Job
    /\ Cardinality(active) <= Cardinality(Runtime)
    /\ Cardinality(active \cup completed) < MaxCompleted + Cardinality(Runtime)
    /\ lane \in [Runtime -> Job \cup {"local", "heartbeat", None}]

\* "Never execute the same job twice in a connection" (fabric.py:130): however often and
\* whenever a job is pushed, while it waits, runs, sends or is done.
OncePerConnection == \A j \in Job : starts[j] <= 1

\* "Dendrite cancels connection-bound work on disconnect" (docs/fabric.md:144): a job
\* holds its own runtime's lane as long as it runs or aborts, and when the bridge turns
\* to the next connection, or the shutdown to the node, no job and no observation of an
\* earlier connection is left in any lane.  The room relies on it: it forgets the jobs of
\* a connection that ended and places on the lanes the next heartbeat calls idle.
NothingOutlivesItsConnection ==
    /\ \A j \in Job : task[j] \in {"running", "cancelled"} => lane[RuntimeOf[j]] = j
    /\ \A r \in Runtime : lane[r] \in Job =>
          task[lane[r]] \in {"running", "cancelled"} \/ lane[r] \in Observers
    /\ conn \in {"connecting", "backoff", "stopped"} =>
          active = {} /\ \A r \in Runtime : lane[r] \in {None, "local"}

\* An accepted job is answered or ends with its connection, a refusal does not block the
\* receiver for good, and a shutdown gets past the bridge, in whatever state it is.
Settles ==
    /\ \A j \in Job : task[j] # "none" ~> task[j] = "none"
    /\ refusing # None ~> refusing = None
    /\ stopping ~> conn = "stopped"
=============================================================================

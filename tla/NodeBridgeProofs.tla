-------------------------- MODULE NodeBridgeProofs --------------------------
(***************************************************************************)
(* Theorems about NodeBridge, for every set of jobs and runtimes, every    *)
(* history limit and any number of connections and pushes.                 *)
(***************************************************************************)
EXTENDS NodeBridge, FiniteSetTheorems, TLAPS

USE NamesAssumption, RuntimesAssumption

-----------------------------------------------------------------------------
(* The inductive invariant.                                                *)

Types ==
    /\ conn \in Phase /\ up \in BOOLEAN /\ stopping \in BOOLEAN
    /\ inbox \in Seq(Job) /\ Len(inbox) <= MaxInbox
    /\ refusing \in Job \cup {None}
    /\ heart \in {"observing", "sending", "sleeping", "ended"}
    /\ task \in [Job -> Stage]
    /\ completed \subseteq Job
    /\ lane \in [Runtime -> Job \cup {"local", "heartbeat", None}]
    /\ starts \in [Job -> Nat]

InLane == {"running", "cancelled"}

\* A job in a lane is in its own and in no other; who else has lanes observes.
LanesFollowTasks ==
    /\ \A j \in Job : task[j] \in InLane => lane[RuntimeOf[j]] = j
    /\ \A r \in Runtime : lane[r] \in Job =>
          \/ task[lane[r]] = "refreshing"
          \/ task[lane[r]] \in InLane /\ r = RuntimeOf[lane[r]]

\* What each state of the bridge has left of the connection.
LeftOver ==
    /\ conn \in Served => \A j \in Job : task[j] # "cancelled"
    /\ conn = "ending" => \A j \in Job : task[j] \in {"none", "cancelled"}
    /\ conn \in {"connecting", "backoff", "stopped"} => \A j \in Job : task[j] = "none"
    /\ conn \notin Served => \A r \in Runtime : lane[r] # "heartbeat"

\* A job that may be created or begin has not begun on this connection.
BegunOnce ==
    /\ \A j \in Job : starts[j] <= 1
    /\ conn \in Served => \A j \in Job :
          task[j] = "created" \/ (task[j] = "none" /\ j \notin completed) => starts[j] = 0

Inv == Types /\ LanesFollowTasks /\ LeftOver /\ BegunOnce

\* At first nothing is active and nothing remembered.
LEMMA InvInit == Init => Inv
<1>. SUFFICES ASSUME Init PROVE Inv
  OBVIOUS
<1>. USE DEF Init
<1>1. Types
  <2>1. inbox \in Seq(Job) /\ Len(inbox) <= MaxInbox
    BY BoundsAssumption
  <2>2. task \in [Job -> Stage]
    BY DEF Stage
  <2>3. lane \in [Runtime -> Job \cup {"local", "heartbeat", None}]
    OBVIOUS
  <2>4. starts \in [Job -> Nat]
    OBVIOUS
  <2>. QED BY <2>1, <2>2, <2>3, <2>4 DEF Types, Phase
<1>2. LanesFollowTasks
  BY DEF LanesFollowTasks, InLane
<1>3. LeftOver
  BY DEF LeftOver, Served
<1>4. BegunOnce
  BY DEF BegunOnce, Served
<1>. QED BY <1>1, <1>2, <1>3, <1>4 DEF Inv

-----------------------------------------------------------------------------
(* Steps of lanes and jobs.                                                *)

USE DEF Inv, Types, LanesFollowTasks, LeftOver, BegunOnce, InLane, Served, Phase, Stage, link

\* An observation gives its lane back.
LEMMA StepObservationEnds ==
    ASSUME Inv, NEW r \in Runtime, ObservationEnds(r)
    PROVE  Inv'
BY DEF ObservationEnds, Freed, Observers

\* A local request takes a lane, or gives it back.
LEMMA StepLocal ==
    ASSUME Inv, NEW r \in Runtime, LocalCall(r) \/ LocalDone(r)
    PROVE  Inv'
<1>1. Types'
  BY DEF LocalCall, LocalDone, Freed, Idle
<1>2. LanesFollowTasks'
  BY DEF LocalCall, LocalDone, Freed, Idle
<1>3. LeftOver'
  BY DEF LocalCall, LocalDone, Freed, Idle
<1>4. BegunOnce'
  BY DEF LocalCall, LocalDone, Freed, Idle
<1>. QED BY <1>1, <1>2, <1>3, <1>4

\* A task observes first, if the runtime is attached.
LEMMA StepBegin ==
    ASSUME Inv, NEW j \in Job, Begin(j)
    PROVE  Inv'
BY DEF Begin, Goes, Observed, Idle

\* A task takes its lane, or is refused.
LEMMA StepSelect ==
    ASSUME Inv, NEW j \in Job, Select(j)
    PROVE  Inv'
<1>1. Types'
  <2>1. task' \in [Job -> Stage]
    BY DEF Select, Goes
  <2>2. lane' \in [Runtime -> Job \cup {"local", "heartbeat", None}]
    BY DEF Select
  <2>. QED BY <2>1, <2>2 DEF Select
<1>2. LanesFollowTasks'
  BY DEF Select, Goes, Admits, Idle, Observing
<1>3. LeftOver'
  BY DEF Select, Goes, Admits, Idle, Observing
<1>4. BegunOnce'
  BY DEF Select, Goes, Admits, Idle, Observing
<1>. QED BY <1>1, <1>2, <1>3, <1>4

\* The runtime answers and the lane is free.
LEMMA StepRunEnds ==
    ASSUME Inv, NEW j \in Job, RunEnds(j)
    PROVE  Inv'
BY DEF RunEnds, Goes, Freed

\* A task leaves active and is remembered.
LEMMA StepSendEnds ==
    ASSUME Inv, NEW j \in Job, SendEnds(j)
    PROVE  Inv'
BY DEF SendEnds, Finished, Goes

\* A cancelled execution leaves its lane.
LEMMA StepAbortEnds ==
    ASSUME Inv, NEW j \in Job, AbortEnds(j)
    PROVE  Inv'
BY DEF AbortEnds, Finished, Goes, Freed

-----------------------------------------------------------------------------
(* Steps of the connection.                                                *)

\* A push is a duplicate, is refused, or starts a task.
LEMMA StepReceive ==
    ASSUME Inv, Receive
    PROVE  Inv'
<1>1. Types'
  <2>1. inbox' \in Seq(Job) /\ Len(inbox') <= MaxInbox
    BY BoundsAssumption DEF Receive, Receiving
  <2>2. Head(inbox) \in Job
    BY DEF Receive, Receiving
  <2>3. task' \in [Job -> Stage]
    BY <2>2 DEF Receive, Goes
  <2>4. refusing' \in Job \cup {None}
    BY <2>2 DEF Receive
  <2>. QED BY <2>1, <2>2, <2>3, <2>4 DEF Receive
<1>2. LanesFollowTasks'
  BY DEF Receive, Receiving, Goes, active
<1>3. LeftOver'
  BY DEF Receive, Receiving, Goes, active
<1>4. BegunOnce'
  BY DEF Receive, Receiving, Goes, active
<1>. QED BY <1>1, <1>2, <1>3, <1>4

\* The refusal is sent and the receiver goes on.
LEMMA StepRefusalSent ==
    ASSUME Inv, RefusalSent
    PROVE  Inv'
BY DEF RefusalSent

\* A heartbeat observes and sends.
LEMMA StepHeartbeat ==
    ASSUME Inv, HeartbeatObserves \/ HeartbeatSends \/ HeartbeatSent
    PROVE  Inv'
<1>1. Types'
  <2>1. lane' \in [Runtime -> Job \cup {"local", "heartbeat", None}]
    BY DEF HeartbeatObserves, HeartbeatSends, HeartbeatSent, Observed
  <2>. QED BY <2>1 DEF HeartbeatObserves, HeartbeatSends, HeartbeatSent
<1>2. LanesFollowTasks'
  <2>1. UNCHANGED task /\ \A r \in Runtime :
           lane'[r] = lane[r] \/ (lane[r] = None /\ lane'[r] = "heartbeat")
    BY DEF HeartbeatObserves, HeartbeatSends, HeartbeatSent, Observed, Idle
  <2>. QED BY <2>1
<1>3. LeftOver'
  BY DEF HeartbeatObserves, HeartbeatSends, HeartbeatSent, Observed, Idle
<1>4. BegunOnce'
  BY DEF HeartbeatObserves, HeartbeatSends, HeartbeatSent, Observed, Idle
<1>. QED BY <1>1, <1>2, <1>3, <1>4

\* A new connection starts with nothing active.
LEMMA StepConnect ==
    ASSUME Inv, Connect
    PROVE  Inv'
<1>1. Types'
  BY BoundsAssumption DEF Connect, Observed, Idle
<1>2. LanesFollowTasks'
  BY BoundsAssumption DEF Connect, Observed, Idle
<1>3. LeftOver'
  BY BoundsAssumption DEF Connect, Observed, Idle
<1>4. BegunOnce'
  BY BoundsAssumption DEF Connect, Observed, Idle
<1>. QED BY <1>1, <1>2, <1>3, <1>4

\* The end of a connection cancels what is active.
LEMMA StepEnd ==
    ASSUME Inv, conn \in Served, End, UNCHANGED <<completed, starts>>, stopping' \in BOOLEAN
    PROVE  Inv'
<1>1. Types'
  <2>1. inbox' \in Seq(Job) /\ Len(inbox') <= MaxInbox
    BY BoundsAssumption DEF End
  <2>2. task' \in [Job -> Stage]
    BY DEF End, Cancelled
  <2>3. lane' \in [Runtime -> Job \cup {"local", "heartbeat", None}]
    BY DEF End, Freed
  <2>. QED BY <2>1, <2>2, <2>3 DEF End
<1>2. LanesFollowTasks'
  BY BoundsAssumption DEF End, Cancelled, Observers, Freed
<1>3. LeftOver'
  BY BoundsAssumption DEF End, Cancelled, Observers, Freed
<1>4. BegunOnce'
  BY BoundsAssumption DEF End, Cancelled, Observers, Freed
<1>. QED BY <1>1, <1>2, <1>3, <1>4

\* Steps that touch no task and no lane.
LEMMA StepIdle ==
    ASSUME Inv, ConnectFails \/ Drop \/ BackoffEnds \/ Stopped \/ UNCHANGED vars
    PROVE  Inv'
BY DEF ConnectFails, Drop, BackoffEnds, Stopped, vars

\* Everything was awaited: nothing is left behind.
LEMMA StepGathered ==
    ASSUME Inv, Gathered
    PROVE  Inv'
BY DEF Gathered

\* The room pushes a job.
LEMMA StepPush ==
    ASSUME Inv, NEW j \in Job, Push(j)
    PROVE  Inv'
BY BoundsAssumption DEF Push

\* One step per action.
LEMMA InvNext == Inv /\ [Next]_vars => Inv'
<1>. SUFFICES ASSUME Inv, [Next]_vars
              PROVE  Inv'
  OBVIOUS
<1>1. ASSUME NEW r \in Runtime, ObservationEnds(r) \/ LocalCall(r) \/ LocalDone(r)
      PROVE  Inv'
  BY <1>1, StepObservationEnds, StepLocal
<1>2. ASSUME NEW j \in Job,
             Begin(j) \/ Select(j) \/ RunEnds(j) \/ SendEnds(j) \/ AbortEnds(j) \/ Push(j)
      PROVE  Inv'
  BY <1>2, StepBegin, StepSelect, StepRunEnds, StepSendEnds, StepAbortEnds, StepPush
<1>3. CASE Receive \/ RefusalSent \/ Connect \/ Gathered
  BY <1>3, StepReceive, StepRefusalSent, StepConnect, StepGathered
<1>4. CASE HeartbeatObserves \/ HeartbeatSends \/ HeartbeatSent
  BY <1>4, StepHeartbeat
<1>5. CASE ConnectFails \/ Drop \/ BackoffEnds \/ Stopped \/ UNCHANGED vars
  BY <1>5, StepIdle
<1>6. CASE ConnectionEnds
  <2>1. conn \in Served /\ End /\ UNCHANGED <<completed, starts>> /\ stopping' \in BOOLEAN
    BY <1>6 DEF ConnectionEnds
  <2>. QED BY <2>1, StepEnd
<1>7. CASE Shutdown
  <2>1. CASE conn \in Served /\ End
    <3>1. UNCHANGED <<completed, starts>> /\ stopping' \in BOOLEAN
      BY <1>7 DEF Shutdown
    <3>. QED BY <2>1, <3>1, StepEnd
  <2>2. CASE conn \notin Served
    BY <1>7, <2>2 DEF Shutdown, End
  <2>. QED BY <1>7, <2>1, <2>2 DEF Shutdown
<1>. HIDE DEF Inv
<1>. QED BY <1>1, <1>2, <1>3, <1>4, <1>5, <1>6, <1>7 DEF Next

\* The invariant behind the theorems about the bridge.
LEMMA InvAlways == Spec => []Inv
<1>. HIDE DEF Inv
<1>. QED BY InvInit, InvNext, PTL DEF Spec

\* A job id starts at most once on a connection, however often it is pushed
\* (receive, execute).
THEOREM JobsRunOnce == Spec => []OncePerConnection
<1>1. Inv => OncePerConnection
  BY DEF OncePerConnection
<1>. HIDE DEF Inv
<1>. QED BY <1>1, InvAlways, PTL

\* Jobs hold their own lanes, and no job and no observation of a connection is left in
\* any lane when the bridge has left the connection (serve_connection, lifespan).
THEOREM NothingIsLeftBehind == Spec => []NothingOutlivesItsConnection
<1>1. Inv => NothingOutlivesItsConnection
  BY DEF NothingOutlivesItsConnection, Observers, active
<1>. HIDE DEF Inv
<1>. QED BY <1>1, InvAlways, PTL

-----------------------------------------------------------------------------
(* What a connection remembers.                                            *)

Bounded ==
    /\ IsFiniteSet(active) /\ IsFiniteSet(completed)
    /\ Cardinality(active) <= Cardinality(Runtime)
    /\ Cardinality(active \cup completed) < MaxCompleted + Cardinality(Runtime)

\* A step that adds no job to those remembered keeps the bound.
LEMMA NothingAdded ==
    ASSUME Bounded, active' \subseteq active, completed' \subseteq active \cup completed
    PROVE  Bounded'
<1>. DEFINE remembered == active \cup completed
<1>1. IsFiniteSet(remembered)
  BY FS_Union DEF Bounded
<1>2. IsFiniteSet(active') /\ Cardinality(active') <= Cardinality(active)
  BY FS_Subset DEF Bounded
<1>3. IsFiniteSet(completed')
  BY <1>1, FS_Subset
<1>4. (active \cup completed)' \subseteq remembered
  OBVIOUS
<1>5. Cardinality((active \cup completed)') <= Cardinality(remembered)
  <2>. HIDE DEF remembered
  <2>. QED BY <1>1, <1>4, FS_Subset
<1>6. /\ Cardinality(active') \in Nat /\ Cardinality(active) \in Nat
      /\ Cardinality(Runtime) \in Nat /\ Cardinality(remembered) \in Nat
      /\ IsFiniteSet((active \cup completed)') /\ Cardinality((active \cup completed)') \in Nat
  BY <1>1, <1>2, <1>3, FS_CardinalityType, FS_Union DEF Bounded
<1>. QED BY <1>2, <1>3, <1>5, <1>6, BoundsAssumption DEF Bounded

\* A job is accepted only below the history limit and with a lane to spare.
LEMMA OneAdded ==
    ASSUME Bounded, NEW j \in Job, active' = active \cup {j}, UNCHANGED completed,
           ~AtHistoryLimit, Cardinality(active) < Cardinality(Runtime)
    PROVE  Bounded'
<1>1. /\ Cardinality(active) \in Nat /\ Cardinality(completed) \in Nat
      /\ Cardinality(Runtime) \in Nat
  BY FS_CardinalityType DEF Bounded
<1>2. /\ IsFiniteSet(active') /\ Cardinality(active') \in Nat
      /\ Cardinality(active') <= Cardinality(active) + 1
  <2>1. IsFiniteSet(active)
    BY DEF Bounded
  <2>2. /\ IsFiniteSet(active \cup {j})
        /\ \/ Cardinality(active \cup {j}) = Cardinality(active)
           \/ Cardinality(active \cup {j}) = Cardinality(active) + 1
    BY <2>1, FS_AddElement
  <2>. QED BY <1>1, <2>2
<1>3. /\ IsFiniteSet(active' \cup completed)
      /\ Cardinality(active' \cup completed) <= Cardinality(active') + Cardinality(completed)
  <2>1. Cardinality(active' \cup completed) =
           Cardinality(active') + Cardinality(completed) - Cardinality(active' \cap completed)
    BY <1>2, FS_Union DEF Bounded
  <2>2. Cardinality(active' \cap completed) \in Nat
    BY <1>2, FS_Intersection, FS_CardinalityType DEF Bounded
  <2>. QED BY <1>1, <1>2, <2>1, <2>2, FS_Union DEF Bounded
<1>4. Cardinality(active' \cup completed) \in Nat /\ Cardinality(completed) < MaxCompleted
  BY <1>1, <1>3, FS_CardinalityType, BoundsAssumption DEF AtHistoryLimit
<1>. QED BY <1>1, <1>2, <1>3, <1>4, BoundsAssumption DEF Bounded

\* A job comes to active only below both limits.
LEMMA BoundedNext == Inv /\ Bounded /\ [Next]_vars => Bounded'
<1>. SUFFICES ASSUME Inv, Bounded, [Next]_vars
              PROVE  Bounded'
  OBVIOUS
<1>1. CASE Receive
  <2>. DEFINE j == Head(inbox)
  <2>1. CASE UNCHANGED task
    BY <1>1, <2>1, NothingAdded DEF Receive, active
  <2>2. CASE ~UNCHANGED task
    <3>1. /\ j \in Job /\ task' = [task EXCEPT ![j] = "created"]
          /\ ~AtHistoryLimit /\ ~(Cardinality(active) >= Cardinality(Runtime))
          /\ UNCHANGED completed
      BY <1>1, <2>2 DEF Receive, Receiving, Goes
    <3>2. Cardinality(active) < Cardinality(Runtime)
      BY <3>1, FS_CardinalityType DEF Bounded
    <3>3. active' = active \cup {j}
      BY <3>1 DEF active
    <3>. HIDE DEF j
    <3>. QED BY <3>1, <3>2, <3>3, OneAdded
  <2>. QED BY <2>1, <2>2
<1>2. CASE Next /\ ~Receive
  <2>1. active' \subseteq active /\ completed' \subseteq active \cup completed
    <3>1. ASSUME NEW r \in Runtime, ObservationEnds(r) \/ LocalCall(r) \/ LocalDone(r)
          PROVE  UNCHANGED <<task, completed>>
      BY <3>1 DEF ObservationEnds, LocalCall, LocalDone
    <3>2. ASSUME NEW j \in Job, Begin(j) \/ Select(j) \/ RunEnds(j) \/ Push(j)
          PROVE  active' \subseteq active /\ UNCHANGED completed
      BY <3>2 DEF Begin, Select, RunEnds, Push, Goes, active
    <3>3. ASSUME NEW j \in Job, SendEnds(j) \/ AbortEnds(j)
          PROVE  active' \subseteq active /\ completed' \subseteq active \cup completed
      BY <3>3 DEF SendEnds, AbortEnds, Finished, Goes, active
    <3>4. CASE RefusalSent \/ HeartbeatObserves \/ HeartbeatSends \/ HeartbeatSent
               \/ ConnectFails \/ Drop \/ Gathered \/ BackoffEnds \/ Stopped
      BY <3>4 DEF RefusalSent, HeartbeatObserves, HeartbeatSends, HeartbeatSent,
           ConnectFails, Drop, Gathered, BackoffEnds, Stopped, vars, active
    <3>5. CASE Connect
      BY <3>5 DEF Connect, active
    <3>6. ASSUME End
          PROVE  active' \subseteq active
      BY <3>6 DEF End, Cancelled, active
    <3>7. CASE ConnectionEnds
      BY <3>6, <3>7 DEF ConnectionEnds
    <3>8. CASE Shutdown
      BY <3>6, <3>8 DEF Shutdown, active
    <3>9. ASSUME UNCHANGED <<task, completed>>
          PROVE  active' \subseteq active /\ completed' \subseteq active \cup completed
      BY <3>9 DEF active
    <3>. HIDE DEF Inv
    <3>. QED BY <1>2, <3>1, <3>2, <3>3, <3>4, <3>5, <3>7, <3>8, <3>9 DEF Next
  <2>. QED BY <2>1, NothingAdded
<1>3. CASE UNCHANGED vars
  BY <1>3, NothingAdded DEF vars, active
<1>. QED BY <1>1, <1>2, <1>3

\* The bridge is well typed, runs at most as many jobs as it has runtimes, and remembers
\* fewer jobs than the history limit and its runtimes together (receive).
THEOREM BridgeTypeCorrect == Spec => []TypeOK
<1>1. Init => Bounded
  <2>. SUFFICES ASSUME Init PROVE Bounded
    OBVIOUS
  <2>1. active = {} /\ completed = {} /\ active \cup completed = {}
    BY DEF Init, active
  <2>2. Cardinality(Runtime) \in Nat
    BY FS_CardinalityType
  <2>. QED BY <2>1, <2>2, FS_EmptySet, BoundsAssumption DEF Bounded
<1>2. Inv /\ Bounded => TypeOK
  BY DEF Bounded, TypeOK
<1>. HIDE DEF Inv
<1>. QED BY <1>1, <1>2, InvAlways, BoundedNext, PTL DEF Spec
=============================================================================

------------------------- MODULE FabricSystemProofs -------------------------
(***************************************************************************)
(* The composition is faithful to its parts: in every behaviour of         *)
(* FabricSystem the room behaves as FabricRoom allows and the node's       *)
(* bridge as NodeBridge does, for any number of connections, jobs and      *)
(* runtimes.  So what is proved of either module holds of the composition. *)
(***************************************************************************)
EXTENDS FabricSystem, FiniteSetTheorems, TLAPS

-----------------------------------------------------------------------------
(* Messages.                                                               *)

\* What is on its way in either direction was sent by one end for the other.
Typed ==
    /\ wire \in [Conn -> Seq(Message)]
    /\ inbox \in Seq(Job)
    /\ refusing \in Job \cup {None}

\* At first nothing is on its way.
LEMMA TypedInit == Init => Typed
BY DEF Init, Typed, Bridge!Init

\* What a heartbeat says.
LEMMA ReportIsTyped == Heartbeat(ReportNow) \in Message
BY DEF Heartbeat, ReportNow, Message, Room!Report, Room!RuntimeView

\* What an answer says.
LEMMA ResultIsTyped ==
    ASSUME NEW j \in Job, NEW outcome \in {"succeeded", "failed"}
    PROVE  Result(j, outcome) \in Message
BY DEF Result, Message

\* A message is appended to the wire of the open connection.
LEMMA SendKeeps ==
    ASSUME Typed, NEW m \in Message, Send(m)
    PROVE  wire' \in [Conn -> Seq(Message)]
<1>1. CASE ws \in Conn
  <2>1. Append(wire[ws], m) \in Seq(Message)
    BY <1>1 DEF Typed
  <2>. QED BY <1>1, <2>1 DEF Typed, Send
<1>2. CASE ws \notin Conn
  BY <1>2 DEF Typed, Send, Room!Live
<1>. QED BY <1>1, <1>2

\* The steps of the bridge that touch its inbox are Push, Receive, Connect and the end of
\* a connection.
LEMMA BridgeKeeps ==
    ASSUME Typed, Bridge!Next
    PROVE  inbox' \in Seq(Job) /\ refusing' \in Job \cup {None}
<1>. USE DEF Typed
<1>1. ASSUME NEW r \in Runtime,
             Bridge!ObservationEnds(r) \/ Bridge!LocalCall(r) \/ Bridge!LocalDone(r)
      PROVE  UNCHANGED <<inbox, refusing>>
  BY <1>1 DEF Bridge!ObservationEnds, Bridge!LocalCall, Bridge!LocalDone
<1>2. ASSUME NEW j \in Job,
             \/ Bridge!Begin(j) \/ Bridge!Select(j) \/ Bridge!RunEnds(j)
             \/ Bridge!SendEnds(j) \/ Bridge!AbortEnds(j)
      PROVE  UNCHANGED <<inbox, refusing>>
  BY <1>2 DEF Bridge!Begin, Bridge!Select, Bridge!RunEnds, Bridge!SendEnds, Bridge!AbortEnds
<1>3. ASSUME NEW j \in Job, Bridge!Push(j)
      PROVE  inbox' \in Seq(Job) /\ UNCHANGED refusing
  BY <1>3 DEF Bridge!Push
<1>4. CASE Bridge!Receive
  <2>1. inbox # <<>>
    BY <1>4 DEF Bridge!Receive, Bridge!Receiving
  <2>2. Head(inbox) \in Job /\ Tail(inbox) \in Seq(Job)
    BY <2>1
  <2>. QED BY <1>4, <2>2 DEF Bridge!Receive
<1>5. CASE Bridge!RefusalSent
  BY <1>5 DEF Bridge!RefusalSent
<1>6. CASE Bridge!HeartbeatObserves \/ Bridge!HeartbeatSends \/ Bridge!HeartbeatSent
  BY <1>6 DEF Bridge!HeartbeatObserves, Bridge!HeartbeatSends, Bridge!HeartbeatSent
<1>7. CASE Bridge!Connect
  BY <1>7 DEF Bridge!Connect
<1>8. CASE Bridge!ConnectionEnds \/ Bridge!Shutdown
  <2>1. <<>> \in Seq(Job)
    OBVIOUS
  <2>2. CASE Bridge!End
    BY <2>1, <2>2 DEF Bridge!End
  <2>3. CASE UNCHANGED <<inbox, refusing>>
    BY <2>3
  <2>4. Bridge!End \/ UNCHANGED <<inbox, refusing>>
    BY <1>8 DEF Bridge!ConnectionEnds, Bridge!Shutdown
  <2>. QED BY <2>2, <2>3, <2>4
<1>9. CASE Bridge!ConnectFails \/ Bridge!Drop \/ Bridge!Gathered \/ Bridge!BackoffEnds
  BY <1>9 DEF Bridge!ConnectFails, Bridge!Drop, Bridge!Gathered, Bridge!BackoffEnds
<1>10. CASE Bridge!Stopped
  BY <1>10 DEF Bridge!Stopped, Bridge!vars
<1>. HIDE DEF Typed
<1>. QED BY <1>1, <1>2, <1>3, <1>4, <1>5, <1>6, <1>7, <1>8, <1>9, <1>10 DEF Bridge!Next, Typed

-----------------------------------------------------------------------------
(* The bridge.                                                             *)

\* Every step is one of the bridge, or leaves it alone.
LEMMA BridgeStep == [Next]_vars => [Bridge!Next]_(Bridge!vars)
<1>. SUFFICES ASSUME [Next]_vars
              PROVE  Bridge!Next \/ UNCHANGED bridge
  BY DEF bridge, Bridge!vars, Bridge!link
<1>1. CASE NodeAlone
  BY <1>1 DEF NodeAlone, Bridge!Next
<1>2. CASE RoomAlone \/ Time
  BY <1>2 DEF RoomAlone, Time
<1>3. CASE SendHeartbeat \/ SendResult
  BY <1>3 DEF SendHeartbeat, SendResult, Bridge!Next
<1>4. ASSUME NEW c \in Conn, Deliver(c)
      PROVE  UNCHANGED bridge
  BY <1>4 DEF Deliver
<1>5. ASSUME NEW j \in Job, NEW sent \in BOOLEAN, CreateTask(j, sent)
      PROVE  Bridge!Next \/ UNCHANGED bridge
  BY <1>5 DEF CreateTask, Bridge!Next
<1>6. ASSUME NEW c \in Conn, NEW t \in Token, Connect(c, t)
      PROVE  Bridge!Next
  BY <1>6 DEF Connect, Bridge!Next
<1>7. CASE UNCHANGED vars
  BY <1>7 DEF vars
<1>. QED BY <1>1, <1>2, <1>3, <1>4, <1>5, <1>6, <1>7 DEF Next

\* Whatever the room and the network do, the bridge takes steps of NodeBridge.
THEOREM BridgeIsComposed == Spec => Bridge!Spec
<1>1. Init => Bridge!Init
  BY DEF Init
<1>. QED BY <1>1, BridgeStep, PTL DEF Spec, Bridge!Spec

-----------------------------------------------------------------------------
(* The room.                                                               *)

\* One step per action.
LEMMA TypedNext == Typed /\ [Next]_vars => Typed'
<1>. SUFFICES ASSUME Typed, [Next]_vars
              PROVE  Typed'
  OBVIOUS
<1>1. inbox' \in Seq(Job) /\ refusing' \in Job \cup {None}
  <2>1. CASE Bridge!Next
    BY <2>1, BridgeKeeps
  <2>2. CASE UNCHANGED bridge
    BY <2>2 DEF bridge, Typed
  <2>. QED BY <2>1, <2>2, BridgeStep DEF bridge, Bridge!vars, Bridge!link
<1>2. wire' \in [Conn -> Seq(Message)]
  <2>1. CASE SendHeartbeat
    BY <2>1, ReportIsTyped, SendKeeps DEF SendHeartbeat
  <2>2. CASE SendResult
    <3>1. CASE \E j \in Job, outcome \in {"succeeded", "failed"} :
                  Bridge!SendEnds(j) /\ Send(Result(j, outcome))
      BY <3>1, ResultIsTyped, SendKeeps
    <3>2. CASE Bridge!RefusalSent /\ Send(Result(refusing, "failed"))
      <4>1. refusing \in Job
        BY <3>2 DEF Bridge!RefusalSent, Typed
      <4>. QED BY <3>2, <4>1, ResultIsTyped, SendKeeps
    <3>. QED BY <2>2, <3>1, <3>2 DEF SendResult
  <2>3. ASSUME NEW c \in Conn, Deliver(c)
        PROVE  wire' \in [Conn -> Seq(Message)]
    <3>1. Tail(wire[c]) \in Seq(Message)
      BY <2>3 DEF Deliver, Typed
    <3>. QED BY <2>3, <3>1 DEF Deliver, Typed
  <2>4. CASE RoomAlone
    <3>1. <<>> \in Seq(Message) /\ \A c \in Conn : wire[c] \in Seq(Message)
      BY DEF Typed
    <3>. QED BY <2>4, <3>1 DEF RoomAlone
  <2>5. CASE UNCHANGED wire
    BY <2>5 DEF Typed
  <2>. QED BY <2>1, <2>2, <2>3, <2>4, <2>5 DEF Next, NodeAlone, Time, CreateTask, Connect, vars
<1>. QED BY <1>1, <1>2 DEF Typed

\* Every step is one of the room, or leaves it alone.
LEMMA RoomStep == Typed /\ [Next]_vars => [Room!Next]_(Room!vars)
<1>. SUFFICES ASSUME Typed, [Next]_vars
              PROVE  Room!Next \/ UNCHANGED room
  BY DEF room, Room!vars
<1>1. CASE NodeAlone
  BY <1>1 DEF NodeAlone
<1>2. CASE RoomAlone
  BY <1>2 DEF RoomAlone, Room!Next, Room!SilentNext
<1>3. CASE Time
  BY <1>3 DEF Time, Room!Next, Room!SilentNext
<1>4. CASE (SendHeartbeat \/ SendResult) /\ UNCHANGED <<room, ws>>
  BY <1>4
<1>5. ASSUME NEW c \in Conn, Deliver(c)
      PROVE  Room!Next \/ UNCHANGED room
  <2>. DEFINE m == Head(wire[c])
  <2>0. m \in Message
    BY <1>5 DEF Deliver, Typed
  <2>1. CASE m.kind = "heartbeat" /\ Room!Heartbeat(c, m.report)
    BY <2>0, <2>1 DEF Room!Next, Message
  <2>2. CASE /\ m.kind = "result"
             /\ Room!ResultInTime(c, m.job, m.outcome) \/ Room!ResultLate(c, m.job)
    BY <2>0, <2>2 DEF Message, Room!Next, Room!SilentNext
  <2>3. CASE Ignores(c, m) /\ UNCHANGED room
    BY <2>3
  <2>4. CASE Room!MessageSuperseded(c)
    BY <2>4 DEF Room!Next, Room!SilentNext
  <2>. QED BY <1>5, <2>1, <2>2, <2>3, <2>4 DEF Deliver, Read
<1>6. ASSUME NEW j \in Job, NEW sent \in BOOLEAN, CreateTask(j, sent)
      PROVE  Room!Next
  <2>1. <<node, RuntimeOf[j]>> \in Room!Lane
    BY RuntimesAssumption DEF Room!Lane
  <2>. QED BY <1>6, <2>1 DEF CreateTask, Room!Next, Room!SilentNext
<1>7. ASSUME NEW c \in Conn, NEW t \in Token, Connect(c, t)
      PROVE  Room!Next
  BY <1>7 DEF Connect, Room!Next, Room!SilentNext
<1>8. CASE UNCHANGED vars
  BY <1>8 DEF vars
<1>. QED BY <1>1, <1>2, <1>3, <1>4, <1>5, <1>6, <1>7, <1>8 DEF Next

\* Whatever the node and the network do, the room takes steps of FabricRoom.
THEOREM RoomIsComposed == Spec => Room!Spec
<1>1. Init => Room!Init
  BY DEF Init
<1>. QED BY <1>1, TypedInit, TypedNext, RoomStep, PTL DEF Spec, Room!Spec

-----------------------------------------------------------------------------
(* What is proved of the parts.                                            *)

RoomProofs == INSTANCE FabricRoomProofs WITH Node <- {node}, Binding <- [t \in Token |-> node]

BridgeProofs == INSTANCE NodeBridgeProofs WITH
    connections <- opened, MaxConnections <- Cardinality(Conn),
    MaxInbox <- Cardinality(Job), MaxPushes <- Cardinality(Job),
    MaxCompleted <- Cardinality(Job) + 1

RoomFacts ==
    /\ Room!TypeOK /\ Room!RunningHoldsLane
    /\ \A j \in Job : jobs[j].status = "expired" =>
          /\ jobs[j].completed \in Nat
          /\ jobs[j].deadline <= jobs[j].completed /\ jobs[j].completed <= now
    /\ \A c \in Conn : socket[c] # "unused" => attachment[c] \in Token
BridgeFacts == Bridge!TypeOK /\ Bridge!NothingOutlivesItsConnection

\* Room and RoomProofs hold the same definitions by two names.
LEMMA SameRoom == Room!Spec => RoomProofs!Spec
<1>1. Room!Init => RoomProofs!Init
  BY DEF Room!Init, RoomProofs!Init, Room!NoReport, RoomProofs!NoReport, Room!NoRow,
     RoomProofs!NoRow, Room!Lane, RoomProofs!Lane
<1>2. Room!Next => RoomProofs!Next
  BY DEF Room!Next, RoomProofs!Next, Room!Report, RoomProofs!Report, Room!RuntimeView,
     RoomProofs!RuntimeView, Room!Heartbeat, RoomProofs!Heartbeat, Room!NodeOf,
     RoomProofs!NodeOf, Room!Accepts, RoomProofs!Accepts, Room!Live, RoomProofs!Live,
     Room!AuthorizedNode, RoomProofs!AuthorizedNode, Room!Current, RoomProofs!Current,
     Room!Lane, RoomProofs!Lane, Room!Quarantined, RoomProofs!Quarantined, Room!Recovers,
     RoomProofs!Recovers, Room!ReportsIdle, RoomProofs!ReportsIdle, Room!SilentNext,
     RoomProofs!SilentNext, Room!ConnectNode, RoomProofs!ConnectNode, Room!FailConnectionJobs,
     RoomProofs!FailConnectionJobs, Room!Settle, RoomProofs!Settle, Room!ReleaseAll,
     RoomProofs!ReleaseAll, Room!HolderWithout, RoomProofs!HolderWithout, Room!IdleWithout,
     RoomProofs!IdleWithout, Room!NextAlarm, RoomProofs!NextAlarm, Room!RunningIn,
     RoomProofs!RunningIn, Room!RunningOn, RoomProofs!RunningOn, Room!Unseen, RoomProofs!Unseen,
     Room!MessageUnauthorized, RoomProofs!MessageUnauthorized, Room!HandleSocketGone,
     RoomProofs!HandleSocketGone, Room!MessageSuperseded, RoomProofs!MessageSuperseded,
     Room!MessageMalformed, RoomProofs!MessageMalformed, Room!ResultInTime,
     RoomProofs!ResultInTime, Room!Answers, RoomProofs!Answers, Room!InTime, RoomProofs!InTime,
     Room!ResultLate, RoomProofs!ResultLate, Room!PeerGone, RoomProofs!PeerGone,
     Room!SocketGone, RoomProofs!SocketGone, Room!CreateTask, RoomProofs!CreateTask,
     Room!PlacedRow, RoomProofs!PlacedRow, Room!Candidate, RoomProofs!Candidate,
     Room!Dispatchable, RoomProofs!Dispatchable, Room!Online, RoomProofs!Online,
     Room!Unreserved, RoomProofs!Unreserved, Room!ApiRequest, RoomProofs!ApiRequest, Room!Prune,
     RoomProofs!Prune, Room!PrunedJobs, RoomProofs!PrunedJobs, Room!Overdue, RoomProofs!Overdue,
     Room!Retained, RoomProofs!Retained, Room!NoRow, RoomProofs!NoRow, Room!PruneNodes,
     RoomProofs!PruneNodes, Room!PrunedNodes, RoomProofs!PrunedNodes, Room!NoReport,
     RoomProofs!NoReport, Room!Orphaned, RoomProofs!Orphaned, Room!HasRow, RoomProofs!HasRow,
     Room!Alarm, RoomProofs!Alarm, Room!RevokeToken, RoomProofs!RevokeToken, Room!SocketsOf,
     RoomProofs!SocketsOf, Room!ExpireToken, RoomProofs!ExpireToken, Room!Restart,
     RoomProofs!Restart, Room!Tick, RoomProofs!Tick, Room!Min, RoomProofs!Min
<1>3. [Room!Next]_(Room!vars) => [RoomProofs!Next]_(RoomProofs!vars)
  BY <1>2 DEF Room!vars, RoomProofs!vars
<1>. QED BY <1>1, <1>3, PTL DEF Room!Spec, RoomProofs!Spec

\* The instance that NodeBridgeProofs speaks of is the bridge.
LEMMA SameBridge == Bridge!Spec => BridgeProofs!Spec
<1>1. Bridge!Init => BridgeProofs!Init
  BY DEF Bridge!Init, BridgeProofs!Init
<1>2. Bridge!Next => BridgeProofs!Next
  <2>1. \A r \in Runtime : 
        /\ Bridge!ObservationEnds(r) => BridgeProofs!ObservationEnds(r)
        /\ Bridge!LocalCall(r) => BridgeProofs!LocalCall(r)
        /\ Bridge!LocalDone(r) => BridgeProofs!LocalDone(r)
    BY DEF Bridge!ObservationEnds, BridgeProofs!ObservationEnds, Bridge!Observers,
       BridgeProofs!Observers, Bridge!Freed, BridgeProofs!Freed, Bridge!link, BridgeProofs!link,
       Bridge!LocalCall, BridgeProofs!LocalCall, Bridge!Idle, BridgeProofs!Idle,
       Bridge!LocalDone, BridgeProofs!LocalDone
  <2>2. \A j \in Job : 
        /\ Bridge!Begin(j) => BridgeProofs!Begin(j)
        /\ Bridge!Select(j) => BridgeProofs!Select(j)
        /\ Bridge!RunEnds(j) => BridgeProofs!RunEnds(j)
    BY DEF Bridge!Begin, BridgeProofs!Begin, Bridge!Goes, BridgeProofs!Goes, Bridge!Observed,
       BridgeProofs!Observed, Bridge!Idle, BridgeProofs!Idle, Bridge!link, BridgeProofs!link,
       Bridge!Select, BridgeProofs!Select, Bridge!Observing, BridgeProofs!Observing,
       Bridge!Admits, BridgeProofs!Admits, Bridge!RunEnds, BridgeProofs!RunEnds, Bridge!Freed,
       BridgeProofs!Freed
  <2>3. \A j \in Job : 
        /\ Bridge!SendEnds(j) => BridgeProofs!SendEnds(j)
        /\ Bridge!AbortEnds(j) => BridgeProofs!AbortEnds(j)
        /\ Bridge!Push(j) => BridgeProofs!Push(j)
    BY DEF Bridge!SendEnds, BridgeProofs!SendEnds, Bridge!Finished, BridgeProofs!Finished,
       Bridge!Goes, BridgeProofs!Goes, Bridge!link, BridgeProofs!link, Bridge!AbortEnds,
       BridgeProofs!AbortEnds, Bridge!Freed, BridgeProofs!Freed, Bridge!Push, BridgeProofs!Push,
       Bridge!Served, BridgeProofs!Served
  <2>4. Bridge!Receive => BridgeProofs!Receive
    <3>1. \A S : Bridge!Cardinality(S) = BridgeProofs!Cardinality(S)
      BY DEF Bridge!Cardinality, BridgeProofs!Cardinality
    <3>. QED BY <3>1 DEF Bridge!Receive, BridgeProofs!Receive, Bridge!Receiving,
       BridgeProofs!Receiving, Bridge!active, BridgeProofs!active, Bridge!link,
       BridgeProofs!link, Bridge!AtHistoryLimit, BridgeProofs!AtHistoryLimit, Bridge!Goes,
       BridgeProofs!Goes
  <2>7. Bridge!RefusalSent => BridgeProofs!RefusalSent
    BY DEF Bridge!RefusalSent, BridgeProofs!RefusalSent, Bridge!link, BridgeProofs!link
  <2>8. Bridge!HeartbeatObserves => BridgeProofs!HeartbeatObserves
    BY DEF Bridge!HeartbeatObserves, BridgeProofs!HeartbeatObserves, Bridge!Served,
       BridgeProofs!Served, Bridge!Observed, BridgeProofs!Observed, Bridge!Idle,
       BridgeProofs!Idle, Bridge!link, BridgeProofs!link
  <2>9. /\ Bridge!HeartbeatSends => BridgeProofs!HeartbeatSends
        /\ Bridge!HeartbeatSent => BridgeProofs!HeartbeatSent
    BY DEF Bridge!HeartbeatSends, BridgeProofs!HeartbeatSends, Bridge!Observing,
       BridgeProofs!Observing, Bridge!link, BridgeProofs!link, Bridge!Served,
       BridgeProofs!Served, Bridge!HeartbeatSent, BridgeProofs!HeartbeatSent
  <2>5. /\ Bridge!Connect => BridgeProofs!Connect
        /\ Bridge!ConnectFails => BridgeProofs!ConnectFails
        /\ Bridge!Drop => BridgeProofs!Drop
        /\ Bridge!ConnectionEnds => BridgeProofs!ConnectionEnds
    BY DEF Bridge!Connect, BridgeProofs!Connect, Bridge!Observed, BridgeProofs!Observed,
       Bridge!Idle, BridgeProofs!Idle, Bridge!ConnectFails, BridgeProofs!ConnectFails,
       Bridge!Drop, BridgeProofs!Drop, Bridge!Served, BridgeProofs!Served,
       Bridge!ConnectionEnds, BridgeProofs!ConnectionEnds, Bridge!End, BridgeProofs!End,
       Bridge!Cancelled, BridgeProofs!Cancelled, Bridge!Freed, BridgeProofs!Freed,
       Bridge!Observers, BridgeProofs!Observers
  <2>6. /\ Bridge!Gathered => BridgeProofs!Gathered
        /\ Bridge!BackoffEnds => BridgeProofs!BackoffEnds
        /\ Bridge!Shutdown => BridgeProofs!Shutdown
        /\ Bridge!Stopped => BridgeProofs!Stopped
    BY DEF Bridge!Gathered, BridgeProofs!Gathered, Bridge!BackoffEnds, BridgeProofs!BackoffEnds,
       Bridge!Shutdown, BridgeProofs!Shutdown, Bridge!Served, BridgeProofs!Served, Bridge!End,
       BridgeProofs!End, Bridge!Cancelled, BridgeProofs!Cancelled, Bridge!Freed,
       BridgeProofs!Freed, Bridge!Observers, BridgeProofs!Observers, Bridge!Stopped,
       BridgeProofs!Stopped, Bridge!vars, BridgeProofs!vars, Bridge!link, BridgeProofs!link
  <2>. QED BY <2>1, <2>2, <2>3, <2>4, <2>5, <2>6, <2>7, <2>8, <2>9
       DEF Bridge!Next, BridgeProofs!Next
<1>3. [Bridge!Next]_(Bridge!vars) => [BridgeProofs!Next]_(BridgeProofs!vars)
  BY <1>2 DEF Bridge!vars, BridgeProofs!vars, Bridge!link, BridgeProofs!link
<1>. QED BY <1>1, <1>3, PTL DEF Bridge!Spec, BridgeProofs!Spec

\* What FabricRoomProofs shows, of the room of the composition.
LEMMA RoomFactsHold == Spec => []RoomFacts
<1>1. RoomProofs!Spec => []RoomProofs!TypeOK
  BY RoomProofs!TypeCorrect, LimitsAssumption, NamesAssumption DEF RoomProofs!Lane
<1>2. RoomProofs!Spec => []RoomProofs!RunningHoldsLane
  BY RoomProofs!RunningJobsHoldTheirLanes, LimitsAssumption, NamesAssumption DEF RoomProofs!Lane
<1>3. RoomProofs!Spec => []RoomProofs!TimeInv
  BY RoomProofs!TimeInvariant, LimitsAssumption, NamesAssumption DEF RoomProofs!Lane
<1>5. RoomProofs!Spec => []RoomProofs!ConnInv
  BY RoomProofs!ConnInvariant, LimitsAssumption, NamesAssumption DEF RoomProofs!Lane
<1>4. /\ RoomProofs!TypeOK /\ RoomProofs!RunningHoldsLane /\ RoomProofs!TimeInv
      /\ RoomProofs!ConnInv
      => RoomFacts
  BY DEF RoomFacts, Room!TypeOK, RoomProofs!TypeOK, Room!Report, RoomProofs!Report, Room!RuntimeView,
     RoomProofs!RuntimeView, Room!JobRow, RoomProofs!JobRow, Room!JobStatus,
     RoomProofs!JobStatus, Room!Lane, RoomProofs!Lane, Room!RunningHoldsLane,
     RoomProofs!RunningHoldsLane, Room!RunningIn, RoomProofs!RunningIn, RoomProofs!TimeInv,
     RoomProofs!TimedOut, RoomProofs!DeadlineDecides, RoomProofs!ConnInv, RoomProofs!SocketsAreBound
<1>. QED BY <1>1, <1>2, <1>3, <1>4, <1>5, RoomIsComposed, SameRoom, PTL

\* What NodeBridgeProofs shows, of the bridge of the composition.
LEMMA BridgeFactsHold == Spec => []BridgeFacts
<1>1. /\ Attached \subseteq Runtime /\ BridgeProofs!IsFiniteSet(Runtime)
      /\ RuntimeOf \in [Job -> Runtime]
  BY RuntimesAssumption DEF IsFiniteSet, BridgeProofs!IsFiniteSet
<1>2. /\ None \notin Job \cup Runtime /\ "local" \notin Job
      /\ "heartbeat" \notin Job /\ None \notin {"local", "heartbeat"}
  BY NamesAssumption
<1>3. /\ Cardinality(Job) + 1 \in Nat \ {0} /\ Cardinality(Job) \in Nat
      /\ Cardinality(Job) \in Nat /\ Cardinality(Conn) \in Nat
  BY FinitelyManyAssumption, FS_CardinalityType
<1>4. BridgeProofs!Spec => []BridgeProofs!TypeOK
  BY <1>1, <1>2, <1>3, BridgeProofs!BridgeTypeCorrect
<1>5. BridgeProofs!Spec => []BridgeProofs!NothingOutlivesItsConnection
  BY <1>1, <1>2, <1>3, BridgeProofs!NothingIsLeftBehind
<1>6. BridgeProofs!TypeOK /\ BridgeProofs!NothingOutlivesItsConnection => BridgeFacts
  <2>1. \A S : Bridge!Cardinality(S) = BridgeProofs!Cardinality(S)
    BY DEF Bridge!Cardinality, BridgeProofs!Cardinality
  <2>. QED BY <2>1 DEF BridgeFacts, Bridge!TypeOK, BridgeProofs!TypeOK, Bridge!Phase,
     BridgeProofs!Phase, Bridge!Stage, BridgeProofs!Stage, Bridge!active, BridgeProofs!active,
     Bridge!NothingOutlivesItsConnection, BridgeProofs!NothingOutlivesItsConnection,
     Bridge!Observers, BridgeProofs!Observers
<1>. QED BY <1>4, <1>5, <1>6, BridgeIsComposed, SameBridge, PTL

-----------------------------------------------------------------------------
(* Where a job is on its way through the node.                             *)

LaneOf(j) == <<node, RuntimeOf[j]>>

InInbox(j) == \E i \in DOMAIN inbox : inbox[i] = j

Answering(j) == \E i \in DOMAIN wire[ws] : wire[ws][i].kind = "result" /\ wire[ws][i].job = j

\* A heartbeat on its way says that nothing runs on lane l.
SaidIdle(l) ==
    \E i \in DOMAIN wire[ws] :
        wire[ws][i].kind = "heartbeat" /\ Room!ReportsIdle(wire[ws][i].report, l)

\* A job is sent once, so it is in one place: a message, refused, a task, or answered.
OnePlace(j) ==
    /\ InInbox(j) => task[j] = "none" /\ refusing # j /\ ~Answering(j)
    /\ refusing = j => task[j] = "none" /\ ~Answering(j)
    /\ Answering(j) => task[j] = "none"
    /\ InInbox(j) \/ refusing = j \/ Answering(j) \/ task[j] # "none"
          => jobs[j].status # "unused"

\* A job that waits has not timed out.
WaitsInTime(j) ==
    Waits(j) => /\ jobs[j].status = "running" /\ jobs[j].lane = LaneOf(j)
                /\ now < jobs[j].deadline

\* A job that runs may have timed out.  Then its reservation is in quarantine: no report
\* on its way calls its lane idle, and its row is not yet old enough to be deleted.
RunsReserved(j) ==
    task[j] = "running" =>
        /\ jobs[j].status \in {"running", "expired"} /\ jobs[j].lane = LaneOf(j)
        /\ now <= jobs[j].deadline + JobRetention
        /\ holder[LaneOf(j)] = j
        /\ now >= jobs[j].deadline => ~SaidIdle(LaneOf(j))

JobInv(j) == OnePlace(j) /\ WaitsInTime(j) /\ RunsReserved(j)

NoDuplicates == \A i, k \in DOMAIN inbox : inbox[i] = inbox[k] => i = k

LinkedInv == Linked => NoDuplicates /\ \A j \in Job : JobInv(j)

\* A node has one open socket, the current one; nothing came over one never opened.
SocketInv ==
    /\ ws # None => ws \in Conn /\ socket[ws] # "unused"
    /\ \A c \in Conn : socket[c] = "unused" => wire[c] = <<>>
    /\ \A c \in Conn : socket[c] = "open" => connections[node] = c

Facts == Typed /\ RoomFacts /\ BridgeFacts

\* A job of the node has a lane there.
LEMMA LaneOfType == \A j \in Job : LaneOf(j) \in Room!Lane
BY RuntimesAssumption DEF LaneOf, Room!Lane

\* What is read of a row of jobs.
LEMMA RowTypes ==
    ASSUME RoomFacts
    PROVE  /\ now \in Nat
           /\ \A j \in Job : /\ jobs[j].status \in Room!JobStatus
                             /\ jobs[j].deadline \in Nat
                             /\ jobs[j].completed \in Nat \cup {None}
BY DEF RoomFacts, Room!TypeOK, Room!JobRow

\* A running job holds its lane.
LEMMA RunningHolds ==
    ASSUME RoomFacts, NEW j \in Job, jobs[j].status = "running", jobs[j].lane = LaneOf(j)
    PROVE  holder[LaneOf(j)] = j
BY DEF RoomFacts, Room!RunningHoldsLane, Room!RunningIn

\* A waiting job runs for the room too, and a running one is reserved.
LEMMA InvImpliesReserved == RoomFacts /\ LinkedInv => WorkIsReserved
<1>. SUFFICES ASSUME RoomFacts, LinkedInv, Linked, NEW j \in Job, Waits(j) \/ task[j] = "running"
              PROVE  holder[LaneOf(j)] = j
  BY DEF WorkIsReserved, LaneOf
<1>1. JobInv(j)
  BY DEF LinkedInv
<1>. QED BY <1>1, RunningHolds DEF JobInv, WaitsInTime, RunsReserved

\* Every node of the room is the node.
LEMMA NodeOfSocket ==
    ASSUME RoomFacts, NEW c \in Conn, socket[c] # "unused"
    PROVE  Room!NodeOf(c) = node
BY DEF RoomFacts, Room!NodeOf

\* What is left of a sequence was there before.
LEMMA TailFrom ==
    ASSUME NEW S, NEW s \in Seq(S), s # <<>>
    PROVE  /\ Tail(s) \in Seq(S)
           /\ Head(s) = s[1] /\ 1 \in DOMAIN s
           /\ \A i \in DOMAIN Tail(s) : i + 1 \in DOMAIN s /\ Tail(s)[i] = s[i + 1] /\ i \in Nat \ {0}
OBVIOUS

\* What is in a longer sequence was there before, or is the new element.
LEMMA AppendFrom ==
    ASSUME NEW S, NEW s \in Seq(S), NEW x \in S
    PROVE  /\ Append(s, x) \in Seq(S)
           /\ \A i \in DOMAIN Append(s, x) :
                 \/ i \in DOMAIN s /\ Append(s, x)[i] = s[i]
                 \/ i = Len(s) + 1 /\ Append(s, x)[i] = x
           /\ Len(s) + 1 \notin DOMAIN s
OBVIOUS

-----------------------------------------------------------------------------
(* Sockets.                                                                *)

\* At first no connection was opened.
LEMMA SocketInit == Init => SocketInv
BY DEF Init, SocketInv, Room!Init

\* A closed or closing socket was opened before; the open one keeps its row.
LEMMA SocketGoneKeeps ==
    ASSUME Facts, SocketInv, NEW c \in Conn, Room!SocketGone(c), NEW d \in Conn,
           socket'[d] = "open"
    PROVE  socket[d] = "open" /\ UNCHANGED <<connections, jobs, holder>>
<1>1. socket[c] = "closing" /\ socket[d] = "open" /\ socket \in [Conn -> {"unused", "open", "closing", "closed"}]
  BY DEF Facts, RoomFacts, Room!TypeOK, Room!SocketGone
<1>2. Room!NodeOf(c) = node
  BY <1>1, NodeOfSocket DEF Facts
<1>3. connections[node] = d
  BY <1>1 DEF SocketInv
<1>4. ~Room!Current(c)
  BY <1>1, <1>2, <1>3 DEF Room!Current
<1>. QED BY <1>1, <1>4 DEF Room!SocketGone, Room!HandleSocketGone

\* The steps but Connect open no socket, and close no row of an open one.
LEMMA SocketKept ==
    ASSUME Facts, SocketInv, UNCHANGED ws,
           \A c \in Conn : socket'[c] = "unused" <=> socket[c] = "unused",
           \A c \in Conn : socket[c] = "unused" => wire'[c] = wire[c],
           \A c \in Conn : socket'[c] = "open" =>
                socket[c] = "open" /\ connections'[node] = connections[node]
    PROVE  SocketInv'
BY DEF SocketInv

\* What the room does when it reads a message.
LEMMA ReadKeepsSockets ==
    ASSUME Facts, NEW c \in Conn, NEW m, Read(c, m)
    PROVE  /\ c \in Room!Live /\ UNCHANGED connections
           /\ \/ UNCHANGED socket
              \/ socket' = [socket EXCEPT ![c] = "closing"]
BY DEF Read, Ignores, Room!Heartbeat, Room!ResultInTime, Room!ResultLate, Room!Answers,
       Room!Accepts, Room!MessageSuperseded, room

\* Nothing is sent over a connection that was never opened.
LEMMA SendKeepsUnused ==
    ASSUME Typed, NEW m, Send(m), NEW c \in Conn, socket[c] = "unused"
    PROVE  wire'[c] = wire[c]
BY DEF Send, Room!Live, Typed

\* One step per action.
LEMMA SocketNext == Facts /\ SocketInv /\ [Next]_vars => SocketInv'
<1>. SUFFICES ASSUME Facts, SocketInv, [Next]_vars PROVE SocketInv'
  OBVIOUS
<1>0. socket \in [Conn -> {"unused", "open", "closing", "closed"}]
  BY DEF Facts, RoomFacts, Room!TypeOK
<1>1. CASE UNCHANGED <<socket, connections, ws, wire>>
  BY <1>1 DEF SocketInv
<1>2. CASE SendHeartbeat /\ UNCHANGED <<room, ws>>
  BY <1>2, SendKeepsUnused, SocketKept DEF SendHeartbeat, room, Facts
<1>3. CASE SendResult /\ UNCHANGED <<room, ws>>
  BY <1>3, SendKeepsUnused, SocketKept DEF SendResult, room, Facts
<1>4. ASSUME NEW c \in Conn, Deliver(c)
      PROVE  SocketInv'
  <2>1. /\ c \in Room!Live /\ UNCHANGED <<connections, ws>>
        /\ UNCHANGED socket \/ socket' = [socket EXCEPT ![c] = "closing"]
        /\ wire' = [wire EXCEPT ![c] = Tail(@)]
    BY <1>4, ReadKeepsSockets DEF Deliver
  <2>2. \A d \in Conn : d # c => wire'[d] = wire[d]
    BY <2>1 DEF Facts, Typed
  <2>. QED BY <1>0, <2>1, <2>2, SocketKept DEF Room!Live
<1>5. ASSUME NEW c \in Conn, Room!PeerGone(c) \/ Room!SocketGone(c),
             wire' = [d \in Conn |-> IF socket'[d] = "closed" THEN <<>> ELSE wire[d]],
             UNCHANGED ws
      PROVE  SocketInv'
  <2>1. \/ socket[c] = "open" /\ socket' = [socket EXCEPT ![c] = "closing"]
        \/ socket[c] = "closing" /\ socket' = [socket EXCEPT ![c] = "closed"]
    BY <1>5 DEF Room!PeerGone, Room!SocketGone
  <2>2. \A d \in Conn : socket'[d] = "open" =>
            socket[d] = "open" /\ connections'[node] = connections[node]
    BY <1>5, <1>0, <2>1, SocketGoneKeeps DEF Room!PeerGone
  <2>3. \A d \in Conn : socket'[d] = "unused" <=> socket[d] = "unused"
    BY <1>0, <2>1
  <2>4. \A d \in Conn : socket[d] = "unused" => wire'[d] = wire[d]
    BY <1>0, <1>5, <2>1
  <2>. QED BY <1>5, <2>2, <2>3, <2>4, SocketKept
<1>6. ASSUME Room!ApiRequest \/ Room!Alarm \/ Room!Restart,
             wire' = [d \in Conn |-> IF socket'[d] = "closed" THEN <<>> ELSE wire[d]],
             UNCHANGED ws
      PROVE  SocketInv'
  <2>1. /\ UNCHANGED connections
        /\ \/ UNCHANGED socket
           \/ socket' = [c \in Conn |-> IF c \in Room!Live THEN "closed" ELSE socket[c]]
    BY <1>6 DEF Room!ApiRequest, Room!Alarm, Room!Restart
  <2>. QED BY <1>0, <1>6, <2>1, SocketKept DEF Room!Live
<1>7. ASSUME NEW c \in Conn, NEW t \in Token, Connect(c, t)
      PROVE  SocketInv'
  <2>1. /\ socket[c] = "unused" /\ connections' = [connections EXCEPT ![node] = c]
        /\ socket' = [d \in Conn |-> IF d = c THEN "open"
                                     ELSE IF d = connections[node] /\ d \in Room!Live
                                     THEN "closing" ELSE socket[d]]
        /\ UNCHANGED wire /\ ws' \in {ws, c}
    BY <1>7 DEF Connect, Room!ConnectNode
  <2>2. connections'[node] = c
    BY <2>1 DEF Facts, RoomFacts, Room!TypeOK
  <2>. QED BY <1>0, <2>1, <2>2 DEF SocketInv, Room!Live
<1>8. ASSUME NEW j \in Job, NEW sent \in BOOLEAN, CreateTask(j, sent)
      PROVE  UNCHANGED <<socket, connections, ws, wire>>
  BY <1>8 DEF CreateTask, Room!CreateTask
<1>9. CASE NodeAlone
  BY <1>1, <1>9 DEF NodeAlone, room
<1>10. CASE Time
  BY <1>1, <1>10 DEF Time, Room!Tick
<1>11. CASE UNCHANGED vars
  BY <1>1, <1>11 DEF vars, room
<1>. QED BY <1>1, <1>2, <1>3, <1>4, <1>5, <1>6, <1>7, <1>8, <1>9, <1>10, <1>11
         DEF Next, RoomAlone

-----------------------------------------------------------------------------
(* Steps of the room, as one job that is in the node sees them.            *)

\* The job's row stays, or expires at its deadline, and its reservation stays.
Kept(j) ==
    /\ jobs[j].status # "unused" => jobs'[j].status # "unused"
    /\ Waits(j) \/ task[j] = "running" =>
        /\ jobs'[j].lane = jobs[j].lane /\ jobs'[j].deadline = jobs[j].deadline
        /\ \/ jobs'[j].status = jobs[j].status
           \/ /\ jobs[j].status = "running" /\ jobs'[j].status = "expired"
              /\ now >= jobs[j].deadline
        /\ holder[LaneOf(j)] = j => holder'[LaneOf(j)] = j

\* If besides the connection only brings older news, the invariant is kept.
LEMMA KeptKeeps ==
    ASSUME Facts, NEW j \in Job, JobInv(j), Kept(j), UNCHANGED <<inbox, refusing, task, now>>,
           Answering(j)' => Answering(j), SaidIdle(LaneOf(j))' => SaidIdle(LaneOf(j))
    PROVE  JobInv(j)'
<1>. USE DEF Facts
<1>1. OnePlace(j)'
  <2>1. InInbox(j)' <=> InInbox(j)
    BY DEF InInbox
  <2>. QED BY <2>1 DEF JobInv, OnePlace, Kept
<1>2. Waits(j)' <=> Waits(j)
  BY DEF Waits
<1>3. now \in Nat /\ jobs[j].deadline \in Nat
  BY RowTypes
<1>4. WaitsInTime(j)'
  BY <1>2, <1>3 DEF JobInv, WaitsInTime, Kept, LaneOf
<1>5. RunsReserved(j)'
  <2>. SUFFICES ASSUME task[j] = "running" PROVE RunsReserved(j)'
    BY DEF RunsReserved
  <2>1. LaneOf(j)' = LaneOf(j)
    BY DEF LaneOf
  <2>. QED BY <1>3, <2>1 DEF JobInv, RunsReserved, Kept
<1>. QED BY <1>1, <1>4, <1>5 DEF JobInv

\* An untouched wire carries the same answers and reports.
LEMMA SameWire ==
    ASSUME UNCHANGED ws, wire'[ws] = wire[ws], NEW j
    PROVE  Answering(j)' <=> Answering(j)
BY DEF Answering

\* An untouched wire says the same of a lane.
LEMMA SameWireIdle ==
    ASSUME UNCHANGED ws, wire'[ws] = wire[ws], NEW l
    PROVE  SaidIdle(l)' <=> SaidIdle(l)
BY DEF SaidIdle, Room!ReportsIdle

\* A message less says no more.
LEMMA ShorterWire ==
    ASSUME Facts, UNCHANGED ws, ws \in Conn, wire[ws] # <<>>, wire'[ws] = Tail(wire[ws])
    PROVE  /\ \A j : Answering(j)' => Answering(j)
           /\ \A l : SaidIdle(l)' => SaidIdle(l)
<1>1. wire[ws] \in Seq(Message)
  BY DEF Facts, Typed
<1>. QED BY <1>1, TailFrom DEF Answering, SaidIdle, Room!ReportsIdle

\* prune: a row that may still be needed is not old enough.
LEMMA PruneKeeps ==
    ASSUME Facts, NEW j \in Job, JobInv(j), Room!Prune
    PROVE  Kept(j)
<1>. DEFINE expired == Room!Settle(jobs, Room!Overdue(jobs), "expired")
<1>1. /\ now \in Nat /\ JobRetention \in Nat /\ None \notin Nat
      /\ jobs[j].status \in Room!JobStatus /\ jobs[j].deadline \in Nat
      /\ jobs[j].completed \in Nat \cup {None}
      /\ jobs \in [Job -> Room!JobRow]
  BY RowTypes, LimitsAssumption, NamesAssumption DEF Facts, RoomFacts, Room!TypeOK
<1>2. expired[j] = IF jobs[j].status = "running" /\ jobs[j].deadline <= now
                   THEN [jobs[j] EXCEPT !.status = "expired", !.completed = now] ELSE jobs[j]
  BY DEF Room!Settle, Room!Overdue, Room!RunningIn
<1>3. /\ expired[j].lane = jobs[j].lane /\ expired[j].deadline = jobs[j].deadline
      /\ \/ expired[j] = jobs[j]
         \/ /\ jobs[j].status = "running" /\ now >= jobs[j].deadline
            /\ expired[j].status = "expired" /\ expired[j].completed = now
  BY <1>1, <1>2 DEF Room!JobRow
<1>4. jobs'[j] = IF Room!Retained(expired[j]) THEN expired[j] ELSE Room!NoRow("deleted")
  BY DEF Room!Prune, Room!PrunedJobs
<1>. HIDE DEF expired
<1>5. jobs[j].status # "unused" => jobs'[j].status # "unused"
  BY <1>3, <1>4 DEF Room!NoRow
<1>6. ASSUME Waits(j) \/ task[j] = "running" PROVE Room!Retained(expired[j])
  <2>1. /\ jobs[j].status \in {"running", "expired"}
        /\ jobs[j].status = "expired" => now <= jobs[j].deadline + JobRetention
    BY <1>6 DEF JobInv, WaitsInTime, RunsReserved
  <2>2. jobs[j].status = "expired" =>
            jobs[j].completed \in Nat /\ jobs[j].deadline <= jobs[j].completed
    BY DEF Facts, RoomFacts
  <2>3. CASE expired[j] # jobs[j]
    BY <1>1, <1>3, <2>3 DEF Room!Retained
  <2>4. CASE expired[j] = jobs[j] /\ jobs[j].status = "running"
    BY <2>4 DEF Room!Retained
  <2>5. CASE expired[j] = jobs[j] /\ jobs[j].status = "expired"
    BY <1>1, <2>1, <2>2, <2>5 DEF Room!Retained
  <2>. QED BY <2>1, <2>3, <2>4, <2>5
<1>7. ASSUME Waits(j) \/ task[j] = "running", holder[LaneOf(j)] = j
      PROVE  holder'[LaneOf(j)] = j
  <2>1. jobs'[j].status \in {"running", "expired"}
    BY <1>3, <1>4, <1>6, <1>7 DEF JobInv, WaitsInTime, RunsReserved
  <2>2. j \notin Room!Orphaned(jobs')
    BY <2>1 DEF Room!Orphaned, Room!HasRow
  <2>. QED BY <1>7, <2>2, LaneOfType DEF Room!Prune, Room!ReleaseAll, Room!HolderWithout
<1>. QED BY <1>3, <1>4, <1>5, <1>6, <1>7 DEF Kept

\* A job whose row and reservation stay.
LEMMA StillKept ==
    ASSUME UNCHANGED <<jobs, holder>>, NEW j
    PROVE  Kept(j)
BY DEF Kept

\* The connection that both ends hold is open.
LEMMA WsOpen ==
    ASSUME Facts, SocketInv, Linked
    PROVE  /\ ws \in Conn /\ socket[ws] = "open" /\ connections[node] = ws
           /\ wire[ws] \in Seq(Message)
BY DEF Linked, SocketInv, Facts, Typed

\* As long as room and node are linked, the socket between them is the current one.
LEMMA LinkIsCurrent ==
    ASSUME Facts, SocketInv, Linked, NEW c \in Conn, socket[c] # "unused"
    PROVE  Room!Current(c) <=> c = ws
BY NodeOfSocket, WsOpen DEF Facts, Room!Current

\* Steps of the room alone end the link or leave its jobs alone.
LEMMA RoomAloneKeeps ==
    ASSUME Facts, SocketInv, LinkedInv, RoomAlone, Linked'
    PROVE  LinkedInv'
<1>1. UNCHANGED <<inbox, refusing, task, up, ws>>
  BY DEF RoomAlone, bridge
<1>2. /\ \/ \E c \in Conn : Room!PeerGone(c) \/ Room!SocketGone(c)
         \/ Room!ApiRequest \/ Room!Alarm \/ Room!Restart
      /\ wire' = [c \in Conn |-> IF socket'[c] = "closed" THEN <<>> ELSE wire[c]]
  BY DEF RoomAlone
<1>3. ws \in Conn /\ socket'[ws] = "open"
  BY <1>1 DEF Linked, SocketInv
<1>4. /\ socket[ws] = "open" /\ UNCHANGED now
      /\ Room!Prune \/ UNCHANGED <<jobs, holder>>
  <2>0. socket \in [Conn -> {"unused", "open", "closing", "closed"}]
    BY DEF Facts, RoomFacts, Room!TypeOK
  <2>1. CASE \E c \in Conn : Room!PeerGone(c)
    BY <1>3, <2>0, <2>1 DEF Room!PeerGone
  <2>2. CASE \E c \in Conn : Room!SocketGone(c)
    BY <1>3, <2>0, <2>2, SocketGoneKeeps DEF Room!SocketGone
  <2>3. CASE Room!ApiRequest \/ Room!Alarm
    BY <1>3, <2>3 DEF Room!ApiRequest, Room!Alarm
  <2>4. CASE Room!Restart
    BY <1>3, <2>4 DEF Room!Restart, Room!Live
  <2>. QED BY <1>2, <2>1, <2>2, <2>3, <2>4
<1>5. Linked
  BY <1>1, <1>4 DEF Linked
<1>6. wire'[ws] = wire[ws]
  BY <1>2, <1>3
<1>7. ASSUME NEW j \in Job PROVE JobInv(j)'
  <2>1. JobInv(j)
    BY <1>5 DEF LinkedInv
  <2>2. Kept(j)
    BY <1>4, <2>1, PruneKeeps, StillKept
  <2>. QED BY <1>1, <1>4, <1>6, <2>1, <2>2, KeptKeeps, SameWire, SameWireIdle
<1>8. NoDuplicates'
  BY <1>1, <1>5 DEF LinkedInv, NoDuplicates
<1>. QED BY <1>7, <1>8 DEF LinkedInv

\* The answer of one job settles that job only.
LEMMA SettledOne ==
    ASSUME NEW k \in Job, NEW status, jobs \in [Job -> Room!JobRow],
           jobs' = Room!Settle(jobs, {k}, status)
    PROVE  /\ \A j \in Job \ {k} : jobs'[j] = jobs[j]
           /\ jobs'[k].status = status
<1>1. \A row \in Room!JobRow : [row EXCEPT !.status = status, !.completed = now].status = status
  BY DEF Room!JobRow
<1>2. \A j \in Job : j \in {k} <=> j = k
  OBVIOUS
<1>. QED BY <1>1, <1>2, Zenon DEF Room!Settle

\* A result is of a job that the node has let go; a heartbeat frees no lane in use.
LEMMA DeliverKeeps ==
    ASSUME Facts, SocketInv, LinkedInv, NEW c \in Conn, Deliver(c), Linked'
    PROVE  LinkedInv'
<1>. DEFINE m == Head(wire[c])
<1>1. /\ UNCHANGED <<inbox, refusing, task, up, ws>> /\ Read(c, m)
      /\ wire[c] # <<>> /\ wire' = [wire EXCEPT ![c] = Tail(@)]
  BY DEF Deliver, bridge
<1>0. socket \in [Conn -> {"unused", "open", "closing", "closed"}] /\ wire \in [Conn -> Seq(Message)]
  BY DEF Facts, Typed, RoomFacts, Room!TypeOK
<1>2. /\ c \in Room!Live /\ ws \in Conn
      /\ \/ UNCHANGED socket
         \/ socket' = [socket EXCEPT ![c] = "closing"]
  BY <1>1, ReadKeepsSockets DEF Linked, SocketInv
<1>3. Linked
  BY <1>0, <1>1, <1>2 DEF Linked
<1>4. socket[c] # "unused" /\ (Room!Current(c) <=> c = ws)
  BY <1>0, <1>2, <1>3, LinkIsCurrent DEF Room!Live
<1>5. UNCHANGED now
  BY <1>1 DEF Read, Ignores, Room!Heartbeat, Room!ResultInTime, Room!ResultLate,
              Room!MessageSuperseded, room
<1>6. CASE c # ws
  <2>1. UNCHANGED <<jobs, holder>>
    BY <1>1, <1>4, <1>6 DEF Read, Ignores, Room!Heartbeat, Room!ResultInTime,
       Room!ResultLate, Room!Answers, Room!Accepts, Room!MessageSuperseded
  <2>2. wire'[ws] = wire[ws]
    BY <1>0, <1>1, <1>2, <1>6
  <2>3. \A j \in Job : JobInv(j)'
    BY <1>1, <1>3, <1>5, <2>1, <2>2, KeptKeeps, SameWire, SameWireIdle, StillKept DEF LinkedInv
  <2>. QED BY <1>1, <1>3, <2>3 DEF LinkedInv, NoDuplicates
<1>7. CASE c = ws
  <2>1. /\ \A j : Answering(j)' => Answering(j)
        /\ \A l : SaidIdle(l)' => SaidIdle(l)
    BY <1>0, <1>1, <1>2, <1>7, ShorterWire
  <2>2. /\ wire[ws] \in Seq(Message) /\ m = wire[ws][1] /\ 1 \in DOMAIN wire[ws]
        /\ m \in Message
    BY <1>0, <1>1, <1>7, TailFrom
  <2>3. ASSUME NEW j \in Job PROVE Kept(j)
    <3>0. JobInv(j)
      BY <1>3 DEF LinkedInv
    <3>1. CASE m.kind = "heartbeat" /\ Room!Heartbeat(c, m.report)
      <4>1. UNCHANGED jobs
        BY <3>1 DEF Room!Heartbeat
      <4>. DEFINE l == LaneOf(j)
      <4>2. ASSUME Waits(j) \/ task[j] = "running", holder[l] = j PROVE holder'[l] = j
        <5>0. /\ l \in Room!Lane /\ Room!NodeOf(c) = node
              /\ now \in Nat /\ jobs[j].deadline \in Nat
          BY <1>4, LaneOfType, NodeOfSocket, RowTypes DEF Facts
        <5>1. holder'[l] = IF l \in Room!Quarantined(node) /\ Room!Recovers(l, m.report)
                           THEN None ELSE holder[l]
          BY <3>1, <5>0 DEF Room!Heartbeat
        <5>2. ASSUME l \in Room!Quarantined(node), Room!Recovers(l, m.report) PROVE FALSE
          <6>1. jobs[j].status = "expired"
            BY <4>2, <5>2 DEF Room!Quarantined
          <6>2. now >= jobs[j].deadline
            BY <5>0, <6>1 DEF Facts, RoomFacts
          <6>3. task[j] = "running"
            BY <3>0, <4>2, <6>1 DEF JobInv, WaitsInTime
          <6>4. SaidIdle(l)
            BY <2>2, <3>1, <5>2 DEF SaidIdle, Room!Recovers
          <6>. QED BY <3>0, <6>2, <6>3, <6>4 DEF JobInv, RunsReserved
        <5>. QED BY <4>2, <5>1, <5>2
      <4>. QED BY <4>1, <4>2 DEF Kept
    <3>2. CASE /\ m.kind = "result"
               /\ Room!ResultInTime(c, m.job, m.outcome) \/ Room!ResultLate(c, m.job)
      <4>1. m.job \in Job /\ m.outcome \in {"succeeded", "failed"}
        BY <2>2, <3>2 DEF Message
      <4>2. Answering(m.job)
        BY <2>2, <3>2 DEF Answering
      <4>3. task[m.job] = "none" /\ ~InInbox(m.job)
        BY <1>3, <4>1, <4>2 DEF LinkedInv, JobInv, OnePlace
      <4>4. ~Waits(m.job) /\ task[m.job] # "running"
        BY <4>3 DEF Waits, InInbox
      <4>5. \E status \in {"succeeded", "failed", "expired"} :
                jobs' = Room!Settle(jobs, {m.job}, status)
        BY <3>2, <4>1 DEF Room!ResultInTime, Room!ResultLate
      <4>6. /\ j # m.job => jobs'[j] = jobs[j]
            /\ jobs'[m.job].status # "unused"
        BY <4>1, <4>5, SettledOne DEF Facts, RoomFacts, Room!TypeOK
      <4>7. \A l \in Room!Lane : holder[l] # m.job => holder'[l] = holder[l]
        BY <3>2 DEF Room!ResultInTime, Room!ResultLate, Room!ReleaseAll, Room!HolderWithout
      <4>. QED BY <4>4, <4>6, <4>7, LaneOfType DEF Kept
    <3>3. CASE UNCHANGED <<jobs, holder>>
      BY <3>3, StillKept
    <3>. QED BY <1>1, <3>1, <3>2, <3>3 DEF Read, Room!MessageSuperseded, room
  <2>4. \A j \in Job : JobInv(j)'
    BY <1>1, <1>3, <1>5, <2>1, <2>3, KeptKeeps DEF LinkedInv
  <2>. QED BY <1>1, <1>3, <2>4 DEF LinkedInv, NoDuplicates
<1>. QED BY <1>6, <1>7

\* Time passes only while nothing is on its way and no execution outlasts its row.
LEMMA TimeKeeps ==
    ASSUME Facts, SocketInv, LinkedInv, Time, Linked'
    PROVE  LinkedInv'
<1>1. /\ UNCHANGED <<inbox, refusing, task, up, ws, wire, jobs, holder, socket>>
      /\ now' = now + 1
  BY DEF Time, Room!Tick, bridge
<1>2. Linked
  BY <1>1 DEF Linked
<1>3. wire[ws] = <<>> /\ \A j \in Job : ~Waits(j)
  BY <1>2 DEF Time, Prompt
<1>4. ASSUME NEW j \in Job PROVE JobInv(j)'
  <2>1. JobInv(j)
    BY <1>2 DEF LinkedInv
  <2>2. OnePlace(j)'
    BY <1>1, <2>1 DEF JobInv, OnePlace, InInbox, Answering
  <2>3. WaitsInTime(j)'
    BY <1>1, <1>3 DEF WaitsInTime, Waits
  <2>4. RunsReserved(j)'
    <3>. SUFFICES ASSUME task[j] = "running" PROVE RunsReserved(j)'
      BY <1>1 DEF RunsReserved
    <3>1. /\ now \in Nat /\ jobs[j].deadline \in Nat /\ JobRetention \in Nat
          /\ now < jobs[j].deadline + JobRetention
      BY <1>2, RowTypes, LimitsAssumption DEF Facts, Time, ExecutionsEnd
    <3>2. ~SaidIdle(LaneOf(j))' /\ LaneOf(j)' = LaneOf(j)
      BY <1>1, <1>3 DEF SaidIdle, LaneOf
    <3>. QED BY <1>1, <2>1, <3>1, <3>2 DEF JobInv, RunsReserved
  <2>. QED BY <2>2, <2>3, <2>4 DEF JobInv
<1>5. NoDuplicates'
  BY <1>1, <1>2 DEF LinkedInv, NoDuplicates
<1>. QED BY <1>4, <1>5 DEF LinkedInv

\* A placement takes a free lane for a job that is nowhere yet.
LEMMA CreateKeeps ==
    ASSUME Facts, SocketInv, LinkedInv, NEW k \in Job, NEW sent \in BOOLEAN,
           CreateTask(k, sent), Linked', RoomFacts'
    PROVE  LinkedInv'
<1>. DEFINE l == LaneOf(k)
<1>1. /\ Room!CreateTask(k, l, sent)
      /\ \/ sent /\ Bridge!Push(k)
         \/ UNCHANGED bridge
      /\ UNCHANGED <<ws, wire>>
  BY DEF CreateTask, LaneOf
<1>2. UNCHANGED <<refusing, task, up, now, socket>>
  BY <1>1 DEF Bridge!Push, Bridge!link, bridge, Room!CreateTask
<1>3. Linked
  BY <1>1, <1>2 DEF Linked
<1>4. /\ inbox \in Seq(Job)
      /\ inbox' = inbox \/ (sent /\ inbox' = Append(inbox, k))
  BY <1>1 DEF Bridge!Push, bridge, Facts, Typed
<1>5. /\ jobs[k].status = "unused" /\ holder[l] = None /\ l \in Room!Lane
  BY <1>1, LaneOfType DEF Room!CreateTask, Room!Candidate, Room!Unreserved
<1>6. /\ \A j \in Job \ {k} : jobs'[j] = jobs[j]
      /\ jobs'[k].status # "unused"
      /\ sent => /\ jobs'[k].status = "running" /\ jobs'[k].lane = l
                 /\ jobs'[k].deadline = now + JobTimeout
  <2>. DEFINE placed == [jobs EXCEPT ![k] = Room!PlacedRow(l)]
  <2>1. jobs' = IF sent THEN placed ELSE Room!Settle(placed, {k}, "failed")
    BY <1>1 DEF Room!CreateTask
  <2>2. /\ placed[k] = Room!PlacedRow(l)
        /\ \A j \in Job \ {k} : placed[j] = jobs[j]
    BY DEF Facts, RoomFacts, Room!TypeOK
  <2>3. /\ [Room!PlacedRow(l) EXCEPT !.status = "failed", !.completed = now].status = "failed"
        /\ Room!PlacedRow(l).status = "running" /\ Room!PlacedRow(l).lane = l
        /\ Room!PlacedRow(l).deadline = now + JobTimeout
    BY DEF Room!PlacedRow
  <2>. HIDE DEF placed
  <2>4. /\ Room!Settle(placed, {k}, "failed")[k].status = "failed"
        /\ \A j \in Job \ {k} : Room!Settle(placed, {k}, "failed")[j] = placed[j]
    <3>1. \A j \in Job : j \in {k} <=> j = k
      OBVIOUS
    <3>. QED BY <2>2, <2>3, <3>1, Zenon DEF Room!Settle
  <2>. QED BY <2>1, <2>2, <2>3, <2>4
<1>7. \A m \in Room!Lane : m # l => holder'[m] = holder[m]
  BY <1>1 DEF Room!CreateTask, Facts, RoomFacts, Room!TypeOK
<1>8. ~InInbox(k) /\ refusing # k /\ ~Answering(k) /\ task[k] = "none"
  BY <1>3, <1>5 DEF LinkedInv, JobInv, OnePlace
<1>9. \A j \in Job : InInbox(j)' => InInbox(j) \/ (j = k /\ sent)
  BY <1>4, AppendFrom DEF InInbox
<1>10. NoDuplicates'
  <2>1. CASE inbox' = inbox
    BY <1>3, <2>1 DEF LinkedInv, NoDuplicates
  <2>2. CASE inbox' = Append(inbox, k)
    BY <1>3, <1>4, <1>8, <2>2, AppendFrom DEF LinkedInv, NoDuplicates, InInbox
  <2>. QED BY <1>4, <2>1, <2>2
<1>11. ASSUME NEW j \in Job PROVE (Answering(j)' <=> Answering(j)) /\ (SaidIdle(LaneOf(j))' <=> SaidIdle(LaneOf(j)))
  BY <1>1, SameWire, SameWireIdle
<1>12. JobInv(k)'
  <2>1. OnePlace(k)'
    BY <1>2, <1>6, <1>8, <1>11 DEF OnePlace
  <2>2. WaitsInTime(k)'
    <3>. SUFFICES ASSUME Waits(k)' PROVE WaitsInTime(k)'
      BY DEF WaitsInTime
    <3>1. InInbox(k)'
      BY <1>2, <1>8 DEF Waits, InInbox
    <3>2. now < now + JobTimeout /\ now' = now
      BY <1>2, LimitsAssumption, RowTypes DEF Facts
    <3>. QED BY <1>6, <1>8, <1>9, <3>1, <3>2 DEF WaitsInTime, LaneOf
  <2>3. RunsReserved(k)'
    BY <1>2, <1>8 DEF RunsReserved
  <2>. QED BY <2>1, <2>2, <2>3 DEF JobInv
<1>13. ASSUME NEW j \in Job \ {k} PROVE JobInv(j)'
  <2>0. JobInv(j)
    BY <1>3 DEF LinkedInv
  <2>1. OnePlace(j)'
    BY <1>2, <1>6, <1>9, <1>11, <2>0 DEF JobInv, OnePlace
  <2>2. Waits(j)' => Waits(j)
    BY <1>2, <1>9 DEF Waits, InInbox
  <2>3. WaitsInTime(j)'
    BY <1>2, <1>6, <2>0, <2>2 DEF JobInv, WaitsInTime, LaneOf
  <2>4. RunsReserved(j)'
    <3>. SUFFICES ASSUME task[j] = "running" PROVE RunsReserved(j)'
      BY <1>2 DEF RunsReserved
    <3>1. holder[LaneOf(j)] = j
      BY <2>0 DEF JobInv, RunsReserved
    <3>2. holder'[LaneOf(j)] = j
      BY <1>5, <1>7, <3>1, LaneOfType, NamesAssumption
    <3>3. LaneOf(j)' = LaneOf(j)
      BY DEF LaneOf
    <3>. QED BY <1>2, <1>6, <1>11, <2>0, <3>2, <3>3 DEF JobInv, RunsReserved
  <2>. QED BY <2>1, <2>3, <2>4 DEF JobInv
<1>. QED BY <1>10, <1>12, <1>13 DEF LinkedInv

\* A new connection starts with nothing; a connection the node never learns of replaces
\* the one it knows.
LEMMA ConnectKeeps ==
    ASSUME Facts, SocketInv, NEW c \in Conn, NEW t \in Token, Connect(c, t), Linked'
    PROVE  LinkedInv'
<1>1. /\ socket[c] = "unused" /\ UNCHANGED wire
      /\ socket' = [d \in Conn |-> IF d = c THEN "open"
                                   ELSE IF d = connections[node] /\ d \in Room!Live
                                   THEN "closing" ELSE socket[d]]
      /\ \/ Bridge!Connect /\ ws' = c
         \/ UNCHANGED ws
  BY DEF Connect, Room!ConnectNode
<1>2. CASE Bridge!Connect /\ ws' = c
  <2>1. wire'[ws'] = <<>> /\ inbox' = <<>> /\ refusing' = None /\ \A j \in Job : task'[j] = "none"
    BY <1>1, <1>2 DEF Bridge!Connect, SocketInv
  <2>2. \A j \in Job : ~InInbox(j)' /\ ~Answering(j)' /\ refusing' # j
    BY <2>1, NamesAssumption DEF InInbox, Answering
  <2>3. \A j \in Job : ~Waits(j)'
    BY <2>1, <2>2 DEF Waits, InInbox
  <2>4. \A j \in Job : JobInv(j)'
    BY <2>1, <2>2, <2>3 DEF JobInv, OnePlace, WaitsInTime, RunsReserved
  <2>5. NoDuplicates'
    BY <2>1 DEF NoDuplicates
  <2>. QED BY <2>4, <2>5 DEF LinkedInv
<1>3. CASE UNCHANGED ws
  <2>1. ws \in Conn /\ socket'[ws] = "open" /\ ws # c
    BY <1>1, <1>3 DEF Linked, SocketInv
  <2>2. socket[ws] = "open" /\ connections[node] = ws
    BY <1>1, <2>1 DEF SocketInv
  <2>. QED BY <1>1, <2>1, <2>2 DEF Room!Live
<1>. QED BY <1>1, <1>2, <1>3

-----------------------------------------------------------------------------
(* Steps of the node.                                                      *)

\* What a task does when neither the receiver nor the room is concerned.
TaskMoves(j) ==
    \/ task'[j] = task[j]
    \/ task[j] = "created" /\ task'[j] = "refreshing"
    \/ task[j] = "refreshing" /\ task'[j] \in {"running", "sending"}
    \/ task[j] = "running" /\ task'[j] = "sending"
    \/ task[j] = "cancelled" /\ task'[j] = "none"

\* From the message to the answer, a job's reservation is carried along.
LEMMA PlaceKeeps ==
    ASSUME Facts, NEW j \in Job, JobInv(j), UNCHANGED <<now, jobs, holder>>, OnePlace(j)',
           Waits(j)' => Waits(j),
           task'[j] = "running" => task[j] = "running" \/ Waits(j),
           SaidIdle(LaneOf(j))' =>
               SaidIdle(LaneOf(j)) \/ task[j] # "running"
    PROVE  JobInv(j)'
<1>0. /\ now \in Nat /\ jobs[j].deadline \in Nat /\ JobRetention \in Nat
      /\ LaneOf(j)' = LaneOf(j)
  BY RowTypes, LimitsAssumption DEF Facts, LaneOf
<1>1. WaitsInTime(j)'
  BY <1>0 DEF JobInv, WaitsInTime
<1>2. RunsReserved(j)'
  <2>. SUFFICES ASSUME task'[j] = "running" PROVE RunsReserved(j)'
    BY DEF RunsReserved
  <2>1. CASE task[j] = "running"
    BY <1>0, <2>1 DEF JobInv, RunsReserved
  <2>2. CASE Waits(j)
    <3>1. /\ jobs[j].status = "running" /\ jobs[j].lane = LaneOf(j) /\ now < jobs[j].deadline
      BY <2>2 DEF JobInv, WaitsInTime
    <3>2. holder[LaneOf(j)] = j
      BY <3>1, RunningHolds DEF Facts
    <3>. QED BY <1>0, <3>1, <3>2 DEF RunsReserved
  <2>. QED BY <2>1, <2>2
<1>. QED BY <1>1, <1>2 DEF JobInv

\* Steps that move jobs on at the node, with the room at rest.
LEMMA TasksKeep ==
    ASSUME Facts, LinkedInv, UNCHANGED <<room, ws, wire, inbox, refusing>>,
           \A j \in Job : TaskMoves(j), up' => up, Linked'
    PROVE  LinkedInv'
<1>1. UNCHANGED <<now, jobs, holder, socket>>
  BY DEF room
<1>2. Linked
  BY <1>1 DEF Linked
<1>3. ASSUME NEW j \in Job PROVE JobInv(j)'
  <2>0. JobInv(j) /\ TaskMoves(j)
    BY <1>2 DEF LinkedInv
  <2>1. OnePlace(j)'
    BY <1>1, <2>0, SameWire DEF JobInv, OnePlace, TaskMoves, InInbox
  <2>2. Waits(j)' => Waits(j)
    BY <2>0 DEF Waits, TaskMoves
  <2>3. task'[j] = "running" => task[j] = "running" \/ Waits(j)
    BY <2>0 DEF Waits, TaskMoves
  <2>. QED BY <1>1, <2>0, <2>1, <2>2, <2>3, PlaceKeeps, SameWireIdle
<1>4. NoDuplicates'
  BY <1>2 DEF LinkedInv, NoDuplicates
<1>. QED BY <1>3, <1>4 DEF LinkedInv

\* The receiver takes a job from the inbox and drops it, refuses it, or starts its task.
LEMMA ReceiveKeeps ==
    ASSUME Facts, LinkedInv, UNCHANGED <<room, ws, wire>>, Bridge!Receive, Linked'
    PROVE  LinkedInv'
<1>1. UNCHANGED <<now, jobs, holder, socket>>
  BY DEF room
<1>0. PICK k \in Job : k = Head(inbox)
  <2>1. inbox # <<>>
    BY DEF Bridge!Receive, Bridge!Receiving
  <2>. QED BY <2>1, TailFrom DEF Facts, Typed
<1>2. /\ inbox # <<>> /\ refusing = None /\ inbox' = Tail(inbox)
      /\ up' => up
      /\ \/ UNCHANGED <<refusing, task>>
         \/ refusing' = k /\ UNCHANGED task
         \/ task' = [task EXCEPT ![k] = "created"] /\ UNCHANGED refusing
  BY <1>0 DEF Bridge!Receive, Bridge!Receiving, Bridge!link, Bridge!Goes
<1>3. Linked
  BY <1>1, <1>2 DEF Linked
<1>4. /\ inbox \in Seq(Job) /\ k = inbox[1] /\ 1 \in DOMAIN inbox
      /\ \A i \in DOMAIN Tail(inbox) : /\ i + 1 \in DOMAIN inbox /\ i + 1 # 1
                                       /\ Tail(inbox)[i] = inbox[i + 1]
      /\ \A i, n \in DOMAIN Tail(inbox) : i # n => i + 1 # n + 1
  BY <1>0, <1>2, TailFrom DEF Facts, Typed
<1>5. NoDuplicates /\ \A j \in Job : JobInv(j)
  BY <1>3 DEF LinkedInv
<1>6. /\ \A j \in Job : InInbox(j)' => InInbox(j)
      /\ ~InInbox(k)' /\ InInbox(k)
  <2>1. InInbox(k) /\ \A i \in DOMAIN inbox : inbox[i] = k => i = 1
    BY <1>4, <1>5 DEF InInbox, NoDuplicates
  <2>2. ASSUME NEW j \in Job, InInbox(j)'
        PROVE  InInbox(j) /\ j # k
    BY <1>2, <1>4, <2>1, <2>2 DEF InInbox
  <2>. QED BY <2>1, <2>2
<1>7. /\ \A j \in Job \ {k} : task'[j] = task[j]
      /\ task'[k] \in {task[k], "created"}
  BY <1>2, <1>4 DEF Facts, BridgeFacts, Bridge!TypeOK
<1>8. task[k] = "none" /\ ~Answering(k) /\ ~Answering(k)' /\ jobs[k].status # "unused"
  BY <1>1, SameWire,  <1>5, <1>6 DEF JobInv, OnePlace
<1>9. ASSUME NEW j \in Job PROVE JobInv(j)'
  <2>1. OnePlace(j)'
    <3>1. CASE j = k
      <4>1. ~(refusing' = k /\ task'[k] # "none")
        BY <1>2, <1>8, NamesAssumption
      <4>. QED BY <1>1, <1>6, <1>8, <3>1, <4>1 DEF OnePlace
    <3>2. CASE j # k
      <4>1. refusing' = j => refusing = j
        BY <1>2, <3>2
      <4>. QED BY <1>1, <1>5, <1>6, <1>7, <3>2, <4>1, SameWire DEF JobInv, OnePlace
    <3>. QED BY <3>1, <3>2
  <2>2. Waits(j)' => Waits(j)
    BY <1>6, <1>7 DEF Waits, InInbox
  <2>3. task'[j] = "running" => task[j] = "running"
    BY <1>7
  <2>. QED BY <1>1, <1>5, <2>1, <2>2, <2>3, PlaceKeeps, SameWireIdle
<1>10. NoDuplicates'
  BY <1>2, <1>4, <1>5 DEF NoDuplicates
<1>. QED BY <1>9, <1>10 DEF LinkedInv

\* Steps of the node alone.
LEMMA NodeAloneKeeps ==
    ASSUME Facts, SocketInv, LinkedInv, NodeAlone, Linked'
    PROVE  LinkedInv'
<1>0. UNCHANGED <<room, ws, wire>> /\ up'
  BY DEF NodeAlone, Linked
<1>1. CASE Bridge!Receive
  BY <1>0, <1>1, ReceiveKeeps
<1>2. CASE Bridge!ConnectionEnds
  BY <1>0, <1>2 DEF Bridge!ConnectionEnds, Bridge!End
<1>3. ASSUME /\ UNCHANGED <<inbox, refusing>> /\ (up' => up)
             /\ \A j \in Job : TaskMoves(j)
      PROVE  LinkedInv'
  BY <1>0, <1>3, TasksKeep
<1>. USE DEF TaskMoves, Bridge!link
<1>4. CASE \/ \E r \in Runtime : Bridge!ObservationEnds(r)
           \/ Bridge!HeartbeatObserves \/ Bridge!HeartbeatSent \/ Bridge!ConnectFails
           \/ Bridge!Drop \/ Bridge!Gathered \/ Bridge!BackoffEnds
  BY <1>3, <1>4 DEF Bridge!ObservationEnds, Bridge!HeartbeatObserves, Bridge!HeartbeatSent,
     Bridge!ConnectFails, Bridge!Drop, Bridge!Gathered, Bridge!BackoffEnds
<1>5. ASSUME NEW k \in Job, \/ Bridge!Begin(k) \/ Bridge!Select(k) \/ Bridge!RunEnds(k)
                            \/ Bridge!AbortEnds(k)
      PROVE  LinkedInv'
  <2>0. task \in [Job -> Bridge!Stage]
    BY DEF Facts, BridgeFacts, Bridge!TypeOK
  <2>1. UNCHANGED <<inbox, refusing, up>>
    BY <1>5 DEF Bridge!Begin, Bridge!Select, Bridge!RunEnds, Bridge!AbortEnds
  <2>2. \A j \in Job : TaskMoves(j)
    BY <1>5, <2>0 DEF Bridge!Begin, Bridge!Select, Bridge!RunEnds, Bridge!AbortEnds,
       Bridge!Goes, Bridge!Finished
  <2>. QED BY <1>3, <2>1, <2>2
<1>. QED BY <1>1, <1>2, <1>4, <1>5 DEF NodeAlone

\* What Send adds to the connection.
LEMMA Sent ==
    ASSUME Facts, SocketInv, Linked, NEW m \in Message, Send(m), UNCHANGED ws
    PROVE  /\ \A j : Answering(j)' => Answering(j) \/ (m.kind = "result" /\ m.job = j)
           /\ \A l : SaidIdle(l)' =>
                 SaidIdle(l) \/ (m.kind = "heartbeat" /\ Room!ReportsIdle(m.report, l))
<1>1. ws \in Conn /\ wire[ws] \in Seq(Message) /\ wire'[ws] = Append(wire[ws], m)
  BY WsOpen DEF Facts, Typed, Send, Linked, Room!Live
<1>. QED BY <1>1, AppendFrom DEF Answering, SaidIdle, Room!ReportsIdle

\* A report sent while a job runs says that its lane is busy.
LEMMA SendHeartbeatKeeps ==
    ASSUME Facts, SocketInv, LinkedInv, SendHeartbeat, UNCHANGED <<room, ws>>, Linked'
    PROVE  LinkedInv'
<1>1. /\ UNCHANGED <<now, jobs, holder, socket, inbox, refusing, task, up>>
      /\ Send(Heartbeat(ReportNow))
  BY DEF SendHeartbeat, Bridge!HeartbeatSends, Bridge!link, room
<1>2. Linked
  BY <1>1 DEF Linked
<1>3. /\ Heartbeat(ReportNow) \in Message
      /\ Heartbeat(ReportNow).kind = "heartbeat" /\ Heartbeat(ReportNow).report = ReportNow
  BY ReportIsTyped DEF Heartbeat
<1>4. ASSUME NEW j \in Job PROVE JobInv(j)'
  <2>0. JobInv(j)
    BY <1>2 DEF LinkedInv
  <2>1. Answering(j)' => Answering(j)
    BY <1>1, <1>2, <1>3, Sent
  <2>2. OnePlace(j)'
    BY <1>1, <2>0, <2>1 DEF JobInv, OnePlace, InInbox
  <2>3. Waits(j)' => Waits(j)
    BY <1>1 DEF Waits
  <2>4. SaidIdle(LaneOf(j))' => SaidIdle(LaneOf(j)) \/ task[j] # "running"
    <3>. SUFFICES ASSUME task[j] = "running" PROVE ~Room!ReportsIdle(ReportNow, LaneOf(j))
      BY <1>1, <1>2, <1>3, Sent DEF LaneOf
    <3>1. lane[RuntimeOf[j]] = j /\ RuntimeOf[j] \in Runtime
      BY RuntimesAssumption DEF Facts, BridgeFacts, Bridge!NothingOutlivesItsConnection
    <3>2. j # None
      BY NamesAssumption
    <3>. QED BY <3>1, <3>2 DEF Room!ReportsIdle, ReportNow, LaneOf, Bridge!Idle
  <2>. QED BY <1>1, <2>0, <2>2, <2>3, <2>4, PlaceKeeps
<1>5. NoDuplicates'
  BY <1>1, <1>2 DEF LinkedInv, NoDuplicates
<1>. QED BY <1>4, <1>5 DEF LinkedInv

\* An answer leaves when the task is at its end, a refusal when there is no task.
LEMMA SendResultKeeps ==
    ASSUME Facts, SocketInv, LinkedInv, SendResult, UNCHANGED <<room, ws>>, Linked'
    PROVE  LinkedInv'
<1>1. PICK k \in Job, outcome \in {"succeeded", "failed"} :
        /\ Send(Result(k, outcome))
        /\ \/ Bridge!SendEnds(k)
           \/ Bridge!RefusalSent /\ refusing = k
  BY NamesAssumption DEF SendResult, Bridge!RefusalSent, Facts, Typed
<1>2. /\ UNCHANGED <<now, jobs, holder, socket, inbox, up>>
      /\ \/ /\ task[k] = "sending" /\ task' = [task EXCEPT ![k] = "none"] /\ UNCHANGED refusing
         \/ refusing = k /\ refusing' = None /\ UNCHANGED task
  BY <1>1 DEF Bridge!SendEnds, Bridge!Finished, Bridge!Goes, Bridge!RefusalSent, Bridge!link, room
<1>3. Linked
  BY <1>2 DEF Linked
<1>4. NoDuplicates /\ \A j \in Job : JobInv(j)
  BY <1>3 DEF LinkedInv
<1>5. /\ task'[k] = "none" /\ refusing' # k /\ ~InInbox(k)
      /\ \A j \in Job \ {k} : task'[j] = task[j] /\ (refusing' = j => refusing = j)
      /\ jobs[k].status # "unused"
  BY <1>2, <1>4, NamesAssumption DEF Facts, BridgeFacts, Bridge!TypeOK, JobInv, OnePlace
<1>6. /\ \A j : Answering(j)' => Answering(j) \/ j = k
      /\ \A l : SaidIdle(l)' => SaidIdle(l)
  <2>1. /\ Result(k, outcome) \in Message /\ Result(k, outcome).kind = "result"
        /\ Result(k, outcome).job = k
    BY ResultIsTyped DEF Result
  <2>. QED BY <1>1, <1>3, <2>1, Sent
<1>7. ASSUME NEW j \in Job PROVE JobInv(j)'
  <2>0. InInbox(j)' <=> InInbox(j)
    BY <1>2 DEF InInbox
  <2>1. OnePlace(j)'
    BY <1>2, <1>4, <1>5, <1>6, <2>0 DEF JobInv, OnePlace
  <2>2. Waits(j)' => Waits(j)
    BY <1>2, <1>5 DEF Waits
  <2>3. task'[j] = "running" => task[j] = "running"
    BY <1>5
  <2>4. LaneOf(j)' = LaneOf(j)
    BY DEF LaneOf
  <2>. QED BY <1>2, <1>4, <1>6, <2>1, <2>2, <2>3, <2>4, PlaceKeeps
<1>8. NoDuplicates'
  BY <1>2, <1>4 DEF NoDuplicates
<1>. QED BY <1>7, <1>8 DEF LinkedInv

-----------------------------------------------------------------------------
(* Reservations.                                                           *)

\* At first the ends are not linked.
LEMMA InitLinkedInv == Init => LinkedInv
BY DEF Init, LinkedInv, Linked

\* One step per action.
LEMMA NextLinkedInv ==
    Facts /\ RoomFacts' /\ SocketInv /\ LinkedInv /\ [Next]_vars => LinkedInv'
<1>. SUFFICES ASSUME Facts, RoomFacts', SocketInv, LinkedInv, [Next]_vars, Linked'
              PROVE  LinkedInv'
  BY DEF LinkedInv
<1>1. CASE UNCHANGED vars
  <2>1. UNCHANGED <<room, ws, wire, inbox, refusing, task, up>>
    BY <1>1 DEF vars, bridge
  <2>. QED BY <2>1, TasksKeep DEF TaskMoves
<1>. QED BY <1>1, NodeAloneKeeps, RoomAloneKeeps, TimeKeeps, SendHeartbeatKeeps, SendResultKeeps,
            DeliverKeeps, CreateKeeps, ConnectKeeps DEF Next

\* While room and node are linked, a job that waits for its runtime or runs there has its
\* reservation in the room (recordHeartbeat, handleSocketGone, prune, createTask).
THEOREM WorkStaysReserved == Spec => []WorkIsReserved
<1>. DEFINE Inv == Typed /\ SocketInv /\ LinkedInv
            Both == RoomFacts /\ BridgeFacts
<1>1. Init => Inv
  BY TypedInit, SocketInit, InitLinkedInv
<1>2. Both /\ Both' /\ Inv /\ [Next]_vars => Inv'
  BY TypedNext, SocketNext, NextLinkedInv DEF Facts
<1>3. Both /\ Inv => WorkIsReserved
  BY InvImpliesReserved
<1>. HIDE DEF Inv
<1>. QED BY <1>1, <1>2, <1>3, RoomFactsHold, BridgeFactsHold, PTL DEF Spec
=============================================================================

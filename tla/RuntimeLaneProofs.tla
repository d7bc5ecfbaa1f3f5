------------------------- MODULE RuntimeLaneProofs --------------------------
(***************************************************************************)
(* Theorems about RuntimeLane, for every set of models, of native servers  *)
(* and of instance ids.                                                    *)
(***************************************************************************)
EXTENDS RuntimeLane, TLAPS

USE NamesAssumption

-----------------------------------------------------------------------------
(* The inductive invariant.                                                *)

Starts == {"execute", "load"}
AtRest == state \notin {"loading", "generating"} /\ (state = "ready" <=> loaded # None)

\* What a call that awaits something in the lane has left in the attributes of the
\* runtime.
CallInLane ==
    /\ lane.pc = "free" <=> lane = Free
    /\ lane # Free => phase # "closed" /\ lane.op \in Op
    /\ lane.pc = "generating" =>
          lane.op = "execute" /\ lane.target \in Model /\ loaded = lane.target /\ cache = None
    /\ lane.pc \in {"spawning", "verifying"} /\ ~Attached =>
          lane.op \in Starts /\ lane.target \in Model /\ loaded = None /\ cache = None
    /\ lane.pc = "verifying" /\ Attached =>
          /\ ~quarantined
          /\ (lane.op = "observe" /\ AtRest) \/ (lane.op \in Starts /\ lane.target \in Model)
    /\ lane.pc = "spawning" => ~Attached /\ process = None
    /\ lane.pc \in StopPc => ~Attached /\ process = None
    /\ lane.pc = "switching" => lane.op \in Starts /\ lane.target \in Model
    /\ lane.pc = "closing" => phase = "closing"

\* What is known of the native servers and of the process that is owned.
Servers ==
    /\ \A c \in Server : life[c] # "none" => alias[c] \in Candidate
    /\ listener # None => life[listener] \in {"listening", "stopping", "killed"}
    /\ \A c \in generating : life[c] # "none"
    /\ Attached => process = None /\ cache = None
    /\ ~Attached /\ Alive(process) =>
          /\ life[process] \in {"starting", "listening"}
          /\ alias[process].instance = instance
          /\ lane.pc = "verifying" => alias[process].model = lane.target

\* No server but the process has the present instance as its alias, except while stop
\* awaits the exit of the one that had it.
InstanceIsOwn ==
    ~Attached /\ lane.pc \notin StopPc =>
        \A c \in Server : Alive(c) /\ c # process => alias[c].instance # instance

\* A slot computes only for the call that generates, unless it was quarantined.
SlotIsIdle ==
    /\ ~Attached /\ process # None /\ lane.pc # "generating" => process \notin generating
    /\ Attached /\ ~quarantined =>
          /\ \A c \in generating : c = listener
          /\ lane.pc # "generating" => generating = {}

Inv ==
    /\ TypeOK /\ CallInLane /\ Servers /\ InstanceIsOwn /\ SlotIsIdle
    /\ ResidentIsServed /\ CandidateIsReusable /\ IdleLaneIsSettled /\ StraysWereTold

USE DEF Inv, TypeOK, LaneRow, Lane, Free, StopPc, Pc, Op, State, Mode, Candidate, Attached,
        Alive, Starts, AtRest

\* At first no server of the node's own runs.
LEMMA InvInit == Init => Inv
<1>. SUFFICES ASSUME Init PROVE Inv
  OBVIOUS
<1>. USE DEF Init
<1>1. TypeOK
  OBVIOUS
<1>2. CallInLane /\ Servers /\ InstanceIsOwn /\ SlotIsIdle
  BY DEF CallInLane, Servers, InstanceIsOwn, SlotIsIdle
<1>3. ResidentIsServed /\ CandidateIsReusable /\ IdleLaneIsSettled /\ StraysWereTold
  BY DEF ResidentIsServed, CandidateIsReusable, IdleLaneIsSettled, StraysWereTold
<1>. QED BY <1>1, <1>2, <1>3

-----------------------------------------------------------------------------
(* stop() and what follows it.                                             *)

\* The runtime is reset and a call leaves the lane, or goes on to spawn.
LEMMA StoppedKeeps ==
    ASSUME Inv,
           NEW op \in Op, NEW target \in Model \cup {None}, NEW pc \in StopPc,
           pc = "switching" => ~Attached /\ op \in Starts /\ target \in Model,
           phase # "closed", process' = None, Stopped(op, target, pc),
           quarantined' \in BOOLEAN, quarantined => quarantined',
           lane.pc = "generating" /\ Attached => quarantined',
           ~Attached => \A c \in Server :
              (Alive(c) /\ c # process) => life[c] \in {"stopping", "killed"},
           ~Alive(process),
           UNCHANGED <<attachment, srv>>
    PROVE  Inv'
<1>. USE DEF attachment, srv
<1>1. /\ loaded' = None /\ cache' = None /\ instance' \in Fresh
      /\ state' \in {"loading", "error", "unloaded"}
      /\ \/ lane' = Free /\ state' # "loading"
         \/ pc = "switching" /\ lane' = Lane(op, target, "spawning", None) /\ phase' = phase
      /\ phase' = phase \/ (phase' = "closed" /\ lane' = Free)
  BY DEF Stopped, Reset
<1>2. TypeOK'
  BY <1>1 DEF Fresh
<1>3. CallInLane'
  BY <1>1 DEF CallInLane
<1>4. Servers'
  BY <1>1 DEF Servers
<1>5. InstanceIsOwn'
  BY <1>1 DEF Fresh, InstanceIsOwn
<1>6. SlotIsIdle'
  BY <1>1 DEF SlotIsIdle
<1>7. ResidentIsServed' /\ CandidateIsReusable' /\ IdleLaneIsSettled'
  BY <1>1 DEF ResidentIsServed, CandidateIsReusable, IdleLaneIsSettled
<1>8. StraysWereTold'
  BY <1>1 DEF StraysWereTold
<1>. QED BY <1>2, <1>3, <1>4, <1>5, <1>6, <1>7, <1>8

\* A stop begins.
LEMMA StopKeeps ==
    ASSUME Inv,
           NEW op \in Op, NEW target \in Model \cup {None}, NEW pc \in StopPc,
           pc = "switching" => ~Attached /\ op \in Starts /\ target \in Model,
           pc = "closing" => phase = "closing",
           phase # "closed", Stop(op, target, pc),
           quarantined' \in BOOLEAN, quarantined => quarantined',
           lane.pc = "generating" /\ Attached => quarantined',
           UNCHANGED attachment
    PROVE  Inv'
<1>. USE DEF attachment, srv, rt
<1>1. CASE Alive(process)
  <2>1. /\ process' = None /\ life' = [life EXCEPT ![process] = "stopping"]
        /\ lane' = Lane(op, target, pc, process)
        /\ UNCHANGED <<rt, phase, alias, generating, listener>>
    BY <1>1 DEF Stop, Terminated
  <2>2. ~Attached
    BY <1>1 DEF Servers
  <2>3. TypeOK'
    BY <1>1, <2>1
  <2>4. CallInLane'
    BY <1>1, <2>1, <2>2 DEF CallInLane
  <2>5. Servers'
    BY <1>1, <2>1, <2>2 DEF Servers
  <2>6. InstanceIsOwn' /\ SlotIsIdle'
    BY <1>1, <2>1, <2>2 DEF InstanceIsOwn, SlotIsIdle
  <2>7. ResidentIsServed' /\ CandidateIsReusable' /\ IdleLaneIsSettled'
    BY <1>1, <2>1, <2>2 DEF ResidentIsServed, CandidateIsReusable, IdleLaneIsSettled
  <2>8. StraysWereTold'
    BY <1>1, <2>1, <2>2 DEF StraysWereTold
  <2>. QED BY <2>3, <2>4, <2>5, <2>6, <2>7, <2>8
<1>2. CASE ~Alive(process)
  <2>1. process' = None /\ Stopped(op, target, pc) /\ UNCHANGED srv
    BY <1>2 DEF Stop
  <2>2. ~Attached => \A c \in Server : (Alive(c) /\ c # process) => life[c] \in {"stopping", "killed"}
    BY DEF StraysWereTold
  <2>. HIDE DEF Inv
  <2>. QED BY <1>2, <2>1, <2>2, StoppedKeeps
<1>. QED BY <1>1, <1>2

\* A call is interrupted or fails.
LEMMA AbortKeeps ==
    ASSUME Inv, NEW op \in Op, NEW target \in Model \cup {None}, phase # "closed",
           Abort(op, target), UNCHANGED attachment
    PROVE  Inv'
<1>1. /\ Stop(op, target, "aborting") /\ quarantined' \in BOOLEAN
      /\ quarantined => quarantined'
      /\ Attached => quarantined'
  BY DEF Abort
<1>. HIDE DEF Inv
<1>. QED BY <1>1, StopKeeps

-----------------------------------------------------------------------------
(* Calls enter the lane.                                                   *)

\* A call that finds its model resident.
LEMMA ResidentKeeps ==
    ASSUME Inv, NEW op \in Starts, NEW m \in Model, ~Attached, Admits, loaded = m, Alive(process),
           \/ op = "execute" /\ Generate(m)
           \/ op = "load" /\ UNCHANGED <<lane, state, cache, generating>>,
           UNCHANGED <<phase, loaded, instance, process, quarantined, life, alias, listener,
                       attachment>>
    PROVE  Inv'
<1>. USE DEF Admits, Generate, rt, srv, attachment
<1>1. TypeOK'
  OBVIOUS
<1>2. CallInLane'
  BY DEF CallInLane
<1>3. Servers'
  BY DEF Servers
<1>4. InstanceIsOwn' /\ SlotIsIdle'
  BY DEF InstanceIsOwn, SlotIsIdle
<1>5. ResidentIsServed'
  BY DEF ResidentIsServed
<1>6. CandidateIsReusable'
  BY DEF CandidateIsReusable
<1>7. IdleLaneIsSettled'
  BY DEF IdleLaneIsSettled
<1>8. StraysWereTold'
  BY DEF StraysWereTold
<1>. QED BY <1>1, <1>2, <1>3, <1>4, <1>5, <1>6, <1>7, <1>8

\* A call that observes an attached server first.
LEMMA LookKeeps ==
    ASSUME Inv, NEW op \in Starts \cup {"observe"}, NEW m \in Model \cup {None}, Attached,
           Admits, ~quarantined,
           op # "observe" => m \in Model, lane' = Lane(op, m, "verifying", None),
           UNCHANGED <<phase, rt, process, quarantined, attachment, srv>>
    PROVE  Inv'
<1>. USE DEF Admits, rt, srv, attachment
<1>1. TypeOK'
  OBVIOUS
<1>2. CallInLane'
  BY DEF CallInLane, IdleLaneIsSettled
<1>3. Servers'
  BY DEF Servers
<1>4. InstanceIsOwn' /\ SlotIsIdle'
  BY DEF InstanceIsOwn, SlotIsIdle
<1>5. ResidentIsServed'
  BY DEF ResidentIsServed
<1>6. CandidateIsReusable'
  BY DEF CandidateIsReusable
<1>7. IdleLaneIsSettled'
  BY DEF IdleLaneIsSettled
<1>8. StraysWereTold'
  BY DEF StraysWereTold
<1>. QED BY <1>1, <1>2, <1>3, <1>4, <1>5, <1>6, <1>7, <1>8

\* Shutdown begins.
LEMMA StepClose ==
    ASSUME Inv, Close
    PROVE  Inv'
<1>. USE DEF Close, rt, srv, attachment
<1>1. TypeOK'
  OBVIOUS
<1>2. CallInLane'
  BY DEF CallInLane
<1>3. Servers'
  BY DEF Servers
<1>4. InstanceIsOwn' /\ SlotIsIdle'
  BY DEF InstanceIsOwn, SlotIsIdle
<1>5. ResidentIsServed'
  BY DEF ResidentIsServed
<1>6. CandidateIsReusable'
  BY DEF CandidateIsReusable
<1>7. IdleLaneIsSettled'
  BY DEF IdleLaneIsSettled
<1>8. StraysWereTold'
  BY DEF StraysWereTold
<1>. QED BY <1>1, <1>2, <1>3, <1>4, <1>5, <1>6, <1>7, <1>8

\* The process is killed after three seconds.
LEMMA StepStopTimesOut ==
    ASSUME Inv, StopTimesOut
    PROVE  Inv'
<1>. USE DEF StopTimesOut, Killed, rt, srv, attachment
<1>1. TypeOK'
  OBVIOUS
<1>2. CallInLane'
  BY DEF CallInLane
<1>3. Servers'
  BY DEF Servers, CallInLane
<1>4. InstanceIsOwn' /\ SlotIsIdle'
  BY DEF InstanceIsOwn, SlotIsIdle
<1>5. ResidentIsServed'
  BY DEF ResidentIsServed, CallInLane
<1>6. CandidateIsReusable'
  BY DEF CandidateIsReusable
<1>7. IdleLaneIsSettled'
  BY DEF IdleLaneIsSettled
<1>8. StraysWereTold'
  BY DEF StraysWereTold
<1>. QED BY <1>1, <1>2, <1>3, <1>4, <1>5, <1>6, <1>7, <1>8

\* A process was started for the call inside.
LEMMA SpawnedKeeps ==
    ASSUME Inv, NEW c \in Server, lane.pc = "spawning", life[c] = "none",
           life' = [life EXCEPT ![c] = "starting"],
           alias' = [alias EXCEPT ![c] = [model |-> lane.target, instance |-> instance]],
           process' = c, lane' = Lane(lane.op, lane.target, "verifying", None),
           UNCHANGED <<phase, rt, quarantined, generating, listener, attachment>>
    PROVE  Inv'
<1>. USE DEF rt, srv, attachment
<1>1. TypeOK'
  BY DEF CallInLane
<1>2. CallInLane'
  BY DEF CallInLane
<1>3. Servers'
  BY DEF Servers, CallInLane
<1>4. InstanceIsOwn' /\ SlotIsIdle'
  BY DEF InstanceIsOwn, SlotIsIdle, CallInLane, Servers
<1>5. ResidentIsServed'
  BY DEF ResidentIsServed, CallInLane
<1>6. CandidateIsReusable'
  BY DEF CandidateIsReusable, CallInLane
<1>7. IdleLaneIsSettled'
  BY DEF IdleLaneIsSettled
<1>8. StraysWereTold'
  BY DEF StraysWereTold, CallInLane
<1>. QED BY <1>1, <1>2, <1>3, <1>4, <1>5, <1>6, <1>7, <1>8

\* The new process serves the model.
LEMMA StepVerifiedManaged ==
    ASSUME Inv, VerifiedManaged
    PROVE  Inv'
<1>. USE DEF VerifiedManaged, Serves, Generate, rt, srv, attachment
<1>1. TypeOK'
  OBVIOUS
<1>2. CallInLane'
  BY DEF CallInLane
<1>3. Servers'
  BY DEF Servers
<1>4. InstanceIsOwn' /\ SlotIsIdle'
  BY DEF InstanceIsOwn, SlotIsIdle
<1>5. ResidentIsServed'
  BY DEF ResidentIsServed, CallInLane, Servers, InstanceIsOwn
<1>6. CandidateIsReusable'
  BY DEF CandidateIsReusable, CallInLane, Servers
<1>7. IdleLaneIsSettled'
  BY DEF IdleLaneIsSettled, CallInLane
<1>8. StraysWereTold'
  BY DEF StraysWereTold
<1>. QED BY <1>1, <1>2, <1>3, <1>4, <1>5, <1>6, <1>7, <1>8

\* The attached server serves the model.
LEMMA StepVerifiedAttached ==
    ASSUME Inv, VerifiedAttached
    PROVE  Inv'
<1>. USE DEF VerifiedAttached, Serves, Generate, Fresh, rt, srv, attachment
<1>1. TypeOK'
  OBVIOUS
<1>2. CallInLane'
  BY DEF CallInLane
<1>3. Servers'
  BY DEF Servers
<1>4. InstanceIsOwn' /\ SlotIsIdle'
  BY DEF InstanceIsOwn, SlotIsIdle
<1>5. ResidentIsServed'
  BY DEF ResidentIsServed
<1>6. CandidateIsReusable'
  BY DEF CandidateIsReusable
<1>7. IdleLaneIsSettled'
  BY DEF IdleLaneIsSettled, CallInLane
<1>8. StraysWereTold'
  BY DEF StraysWereTold
<1>. QED BY <1>1, <1>2, <1>3, <1>4, <1>5, <1>6, <1>7, <1>8

\* The attached server serves something else, or nothing.
LEMMA StepObservedNothing ==
    ASSUME Inv, ObservedNothing
    PROVE  Inv'
<1>. USE DEF ObservedNothing, Reset, Fresh, rt, srv, attachment
<1>1. TypeOK'
  OBVIOUS
<1>2. CallInLane'
  BY DEF CallInLane
<1>3. Servers'
  BY DEF Servers, CallInLane
<1>4. InstanceIsOwn' /\ SlotIsIdle'
  BY DEF InstanceIsOwn, SlotIsIdle
<1>5. ResidentIsServed'
  BY DEF ResidentIsServed
<1>6. CandidateIsReusable'
  BY DEF CandidateIsReusable
<1>7. IdleLaneIsSettled'
  BY DEF IdleLaneIsSettled
<1>8. StraysWereTold'
  BY DEF StraysWereTold
<1>. QED BY <1>1, <1>2, <1>3, <1>4, <1>5, <1>6, <1>7, <1>8

\* The completion has come.
LEMMA StepAnswered ==
    ASSUME Inv, Answered
    PROVE  Inv'
<1>. USE DEF Answered, Recorded, rt, srv, attachment
<1>1. TypeOK'
  BY DEF CallInLane
<1>2. CallInLane'
  BY DEF CallInLane
<1>3. Servers'
  BY DEF Servers
<1>4. InstanceIsOwn' /\ SlotIsIdle'
  BY DEF InstanceIsOwn, SlotIsIdle, CallInLane, Servers, ResidentIsServed
<1>5. ResidentIsServed'
  BY DEF ResidentIsServed
<1>6. CandidateIsReusable'
  BY DEF CandidateIsReusable, CallInLane, Servers, ResidentIsServed
<1>7. IdleLaneIsSettled'
  BY DEF IdleLaneIsSettled, CallInLane
<1>8. StraysWereTold'
  BY DEF StraysWereTold
<1>. QED BY <1>1, <1>2, <1>3, <1>4, <1>5, <1>6, <1>7, <1>8

\* A call leaves the lane without an answer.
LEMMA LetGoKeeps ==
    ASSUME Inv, 
           \/ /\ lane.pc = "verifying" /\ lane.op = "observe"
              /\ UNCHANGED rt
           \/ lane.pc \in {"switching", "spawning"} /\ Reset("error")
           \/ lane.pc \in {"aborting", "unloading"} /\ Reset("unloaded"),
           lane' = Free, UNCHANGED <<phase, process, quarantined, srv, attachment>>
    PROVE  Inv'
<1>. USE DEF Reset, Fresh, rt, srv, attachment
<1>1. TypeOK'
  OBVIOUS
<1>2. CallInLane'
  BY DEF CallInLane
<1>3. Servers'
  BY DEF Servers, CallInLane
<1>4. InstanceIsOwn' /\ SlotIsIdle'
  BY DEF InstanceIsOwn, SlotIsIdle
<1>5. ResidentIsServed'
  BY DEF ResidentIsServed
<1>6. CandidateIsReusable'
  BY DEF CandidateIsReusable
<1>7. IdleLaneIsSettled'
  BY DEF IdleLaneIsSettled, CallInLane, Servers
<1>8. StraysWereTold'
  BY DEF StraysWereTold
<1>. QED BY <1>1, <1>2, <1>3, <1>4, <1>5, <1>6, <1>7, <1>8

\* A snapshot notices that the process is gone.
LEMMA StepSnapshot ==
    ASSUME Inv, Snapshot
    PROVE  Inv'
<1>. USE DEF Snapshot, Reset, Fresh, rt, srv, attachment
<1>1. TypeOK'
  OBVIOUS
<1>2. CallInLane'
  BY DEF CallInLane
<1>3. Servers'
  BY DEF Servers
<1>4. InstanceIsOwn' /\ SlotIsIdle'
  BY DEF InstanceIsOwn, SlotIsIdle
<1>5. ResidentIsServed'
  BY DEF ResidentIsServed
<1>6. CandidateIsReusable'
  BY DEF CandidateIsReusable
<1>7. IdleLaneIsSettled'
  BY DEF IdleLaneIsSettled
<1>8. StraysWereTold'
  BY DEF StraysWereTold
<1>. QED BY <1>1, <1>2, <1>3, <1>4, <1>5, <1>6, <1>7, <1>8

\* The prefix candidate expires.
LEMMA StepCandidateExpires ==
    ASSUME Inv, CandidateExpires
    PROVE  Inv'
<1>. USE DEF CandidateExpires, rt, srv, attachment
<1>1. TypeOK'
  OBVIOUS
<1>2. CallInLane'
  BY DEF CallInLane
<1>3. Servers'
  BY DEF Servers
<1>4. InstanceIsOwn' /\ SlotIsIdle'
  BY DEF InstanceIsOwn, SlotIsIdle
<1>5. ResidentIsServed'
  BY DEF ResidentIsServed
<1>6. CandidateIsReusable'
  BY DEF CandidateIsReusable
<1>7. IdleLaneIsSettled'
  BY DEF IdleLaneIsSettled
<1>8. StraysWereTold'
  BY DEF StraysWereTold
<1>. QED BY <1>1, <1>2, <1>3, <1>4, <1>5, <1>6, <1>7, <1>8

\* A server opens its port.
LEMMA StepServerListens ==
    ASSUME Inv, NEW c \in Server, ServerListens(c)
    PROVE  Inv'
<1>. USE DEF ServerListens, rt, srv, attachment
<1>1. TypeOK'
  OBVIOUS
<1>2. CallInLane'
  BY DEF CallInLane
<1>3. Servers'
  BY DEF Servers
<1>4. InstanceIsOwn' /\ SlotIsIdle'
  BY DEF InstanceIsOwn, SlotIsIdle
<1>5. ResidentIsServed'
  BY DEF ResidentIsServed
<1>6. CandidateIsReusable'
  BY DEF CandidateIsReusable
<1>7. IdleLaneIsSettled'
  BY DEF IdleLaneIsSettled
<1>8. StraysWereTold'
  BY DEF StraysWereTold
<1>. QED BY <1>1, <1>2, <1>3, <1>4, <1>5, <1>6, <1>7, <1>8

\* A server exits.
LEMMA StepServerExits ==
    ASSUME Inv, NEW c \in Server, ServerExits(c)
    PROVE  Inv'
<1>. USE DEF ServerExits, rt, srv, attachment
<1>1. TypeOK'
  OBVIOUS
<1>2. CallInLane'
  BY DEF CallInLane
<1>3. Servers'
  BY DEF Servers
<1>4. InstanceIsOwn' /\ SlotIsIdle'
  BY DEF InstanceIsOwn, SlotIsIdle
<1>5. ResidentIsServed'
  BY DEF ResidentIsServed
<1>6. CandidateIsReusable'
  BY DEF CandidateIsReusable
<1>7. IdleLaneIsSettled'
  BY DEF IdleLaneIsSettled
<1>8. StraysWereTold'
  BY DEF StraysWereTold
<1>. QED BY <1>1, <1>2, <1>3, <1>4, <1>5, <1>6, <1>7, <1>8

\* A slot becomes idle.
LEMMA StepGenerationEnds ==
    ASSUME Inv, NEW c \in Server, GenerationEnds(c)
    PROVE  Inv'
<1>. USE DEF GenerationEnds, rt, srv, attachment
<1>1. TypeOK'
  OBVIOUS
<1>2. CallInLane'
  BY DEF CallInLane
<1>3. Servers'
  BY DEF Servers
<1>4. InstanceIsOwn' /\ SlotIsIdle'
  BY DEF InstanceIsOwn, SlotIsIdle
<1>5. ResidentIsServed'
  BY DEF ResidentIsServed
<1>6. CandidateIsReusable'
  BY DEF CandidateIsReusable
<1>7. IdleLaneIsSettled'
  BY DEF IdleLaneIsSettled
<1>8. StraysWereTold'
  BY DEF StraysWereTold
<1>. QED BY <1>1, <1>2, <1>3, <1>4, <1>5, <1>6, <1>7, <1>8

\* The operator starts an attached server.
LEMMA StepUpstreamStarts ==
    ASSUME Inv, NEW c \in Server, NEW m \in Model, UpstreamStarts(c, m)
    PROVE  Inv'
<1>. USE DEF UpstreamStarts, rt, srv, attachment
<1>1. TypeOK'
  OBVIOUS
<1>2. CallInLane'
  BY DEF CallInLane
<1>3. Servers'
  BY DEF Servers
<1>4. InstanceIsOwn' /\ SlotIsIdle'
  BY DEF InstanceIsOwn, SlotIsIdle
<1>5. ResidentIsServed'
  BY DEF ResidentIsServed
<1>6. CandidateIsReusable'
  BY DEF CandidateIsReusable
<1>7. IdleLaneIsSettled'
  BY DEF IdleLaneIsSettled
<1>8. StraysWereTold'
  BY DEF StraysWereTold
<1>. QED BY <1>1, <1>2, <1>3, <1>4, <1>5, <1>6, <1>7, <1>8

\* An observation becomes old.
LEMMA StepObservationAges ==
    ASSUME Inv, ObservationAges
    PROVE  Inv'
<1>. USE DEF ObservationAges, rt, srv, attachment
<1>1. TypeOK'
  OBVIOUS
<1>2. CallInLane'
  BY DEF CallInLane
<1>3. Servers'
  BY DEF Servers
<1>4. InstanceIsOwn' /\ SlotIsIdle'
  BY DEF InstanceIsOwn, SlotIsIdle
<1>5. ResidentIsServed'
  BY DEF ResidentIsServed
<1>6. CandidateIsReusable'
  BY DEF CandidateIsReusable
<1>7. IdleLaneIsSettled'
  BY DEF IdleLaneIsSettled
<1>8. StraysWereTold'
  BY DEF StraysWereTold
<1>. QED BY <1>1, <1>2, <1>3, <1>4, <1>5, <1>6, <1>7, <1>8

\* Nothing happens.
LEMMA StepStutter ==
    ASSUME Inv, UNCHANGED vars
    PROVE  Inv'
<1>. USE DEF vars, rt, srv, attachment
<1>1. TypeOK'
  OBVIOUS
<1>2. CallInLane'
  BY DEF CallInLane
<1>3. Servers'
  BY DEF Servers
<1>4. InstanceIsOwn' /\ SlotIsIdle'
  BY DEF InstanceIsOwn, SlotIsIdle
<1>5. ResidentIsServed'
  BY DEF ResidentIsServed
<1>6. CandidateIsReusable'
  BY DEF CandidateIsReusable
<1>7. IdleLaneIsSettled'
  BY DEF IdleLaneIsSettled
<1>8. StraysWereTold'
  BY DEF StraysWereTold
<1>. QED BY <1>1, <1>2, <1>3, <1>4, <1>5, <1>6, <1>7, <1>8
\* One step per action.
LEMMA InvNext == Inv /\ [Next]_vars => Inv'
<1>. SUFFICES ASSUME Inv, [Next]_vars
              PROVE  Inv'
  OBVIOUS
<1>. USE DEF attachment, rt, srv
<1>1. ASSUME NEW op \in Op, NEW m \in Model, EnterManaged(op, m)
      PROVE  Inv'
  <2>1. op \in Starts /\ ~Attached /\ Admits /\ phase # "closed" /\ UNCHANGED attachment
    BY <1>1 DEF EnterManaged, Admits
  <2>2. CASE Stop(op, m, "switching") /\ UNCHANGED quarantined
    <3>1. quarantined' \in BOOLEAN /\ (quarantined => quarantined') /\ lane.pc # "generating"
      BY <2>1, <2>2 DEF Admits
    <3>. HIDE DEF Inv
    <3>. QED BY <2>1, <2>2, <3>1, StopKeeps
  <2>. HIDE DEF Inv
  <2>3. CASE Abort(op, m)
    BY <2>1, <2>3, AbortKeeps
  <2>4. CASE ~Abort(op, m) /\ ~(Stop(op, m, "switching") /\ UNCHANGED quarantined)
    BY <1>1, <2>1, <2>4, ResidentKeeps DEF EnterManaged
  <2>. QED BY <2>2, <2>3, <2>4
<1>2. ASSUME NEW op \in Op, NEW m \in Model, EnterAttached(op, m)
      PROVE  Inv'
  <2>1. op \in Starts /\ Attached /\ Admits /\ phase # "closed" /\ UNCHANGED attachment
    BY <1>2 DEF EnterAttached, Admits
  <2>. HIDE DEF Inv
  <2>2. CASE quarantined
    BY <1>2, <2>1, <2>2, AbortKeeps DEF EnterAttached
  <2>3. CASE ~quarantined
    BY <1>2, <2>1, <2>3, LookKeeps DEF EnterAttached
  <2>. QED BY <2>2, <2>3
<1>3. CASE Observe
  <2>. HIDE DEF Inv
  <2>. QED BY <1>3, LookKeeps DEF Observe
<1>4. CASE Unload
  <2>1. quarantined' \in BOOLEAN /\ lane.pc # "generating" /\ phase # "closed"
    BY <1>4 DEF Unload, Admits
  <2>. HIDE DEF Inv
  <2>. QED BY <1>4, <2>1, StopKeeps DEF Unload
<1>5. CASE CloseDrained
  <2>1. quarantined' \in BOOLEAN /\ lane.pc # "generating" /\ phase = "closing"
    BY <1>5 DEF CloseDrained
  <2>. HIDE DEF Inv
  <2>. QED BY <1>5, <2>1, StopKeeps DEF CloseDrained
<1>6. CASE StopEnds
  <2>1. /\ lane.op \in Op /\ lane.target \in Model \cup {None} /\ lane.pc \in StopPc
        /\ phase # "closed" /\ process = None
    <3>1. lane.pc \in StopPc /\ lane.pc # "free"
      BY <1>6 DEF StopEnds
    <3>2. lane # Free /\ phase # "closed" /\ process = None /\ lane.op \in Op
      BY <3>1 DEF CallInLane
    <3>3. lane.target \in Model \cup {None}
      OBVIOUS
    <3>. QED BY <3>1, <3>2, <3>3
  <2>2. /\ process' = None /\ Stopped(lane.op, lane.target, lane.pc) /\ quarantined' \in BOOLEAN
        /\ UNCHANGED <<quarantined, attachment, srv>>
    BY <1>6, <2>1 DEF StopEnds
  <2>3. ~Attached => \A c \in Server : (Alive(c) /\ c # process) => life[c] \in {"stopping", "killed"}
    BY DEF StraysWereTold
  <2>4. lane.pc = "switching" => ~Attached /\ lane.op \in Starts /\ lane.target \in Model
    BY <2>1 DEF CallInLane
  <2>. HIDE DEF Inv
  <2>. QED BY <2>1, <2>2, <2>3, <2>4, StoppedKeeps
<1>7. ASSUME lane.pc \in {"spawning", "verifying", "generating"}
      PROVE  /\ phase # "closed" /\ lane.op \in Op /\ lane.target \in Model \cup {None}
  BY <1>7 DEF CallInLane
<1>8. CASE Spawned
  <2>. HIDE DEF Inv
  <2>1. CASE Abort(lane.op, lane.target)
    BY <1>7, <1>8, <2>1, AbortKeeps DEF Spawned
  <2>2. CASE ~Abort(lane.op, lane.target)
    BY <1>8, <2>2, SpawnedKeeps DEF Spawned
  <2>. QED BY <2>1, <2>2
<1>9. CASE NotVerified \/ NotAnswered
  <2>. HIDE DEF Inv
  <2>. QED BY <1>7, <1>9, AbortKeeps DEF NotVerified, NotAnswered
<1>10. CASE Cancel \/ Deadline
  <2>1. Interrupted /\ UNCHANGED attachment
    BY <1>10 DEF Cancel, Deadline
  <2>. HIDE DEF Inv
  <2>2. CASE lane.pc \in {"verifying", "generating"} /\ lane.op # "observe"
    BY <1>7, <2>1, <2>2, AbortKeeps DEF Interrupted
  <2>3. CASE ~(lane.pc \in {"verifying", "generating"} /\ lane.op # "observe")
    BY <2>1, <2>3, LetGoKeeps DEF Interrupted
  <2>. QED BY <2>2, <2>3
<1>. HIDE DEF Inv
<1>11. CASE Close \/ StopTimesOut \/ VerifiedManaged \/ VerifiedAttached \/ ObservedNothing
  BY <1>11, StepClose, StepStopTimesOut, StepVerifiedManaged, StepVerifiedAttached,
     StepObservedNothing
<1>12. CASE Answered \/ Snapshot \/ CandidateExpires \/ ObservationAges
  BY <1>12, StepAnswered, StepSnapshot, StepCandidateExpires, StepObservationAges
<1>13. ASSUME NEW c \in Server, ServerListens(c) \/ ServerExits(c) \/ GenerationEnds(c)
       PROVE  Inv'
  BY <1>13, StepServerListens, StepServerExits, StepGenerationEnds
<1>14. ASSUME NEW c \in Server, NEW m \in Model, UpstreamStarts(c, m)
       PROVE  Inv'
  BY <1>14, StepUpstreamStarts
<1>15. CASE UNCHANGED vars
  BY <1>15, StepStutter
<1>. QED BY <1>1, <1>2, <1>3, <1>4, <1>5, <1>6, <1>8, <1>9, <1>10, <1>11, <1>12, <1>13, <1>14,
            <1>15 DEF Next

\* The invariant behind the theorems about the lane.
LEMMA InvAlways == Spec => []Inv
<1>. HIDE DEF Inv
<1>. QED BY InvInit, InvNext, PTL DEF Spec

-----------------------------------------------------------------------------
(* The theorems.                                                           *)

\* Every attribute of the runtime, the call in its lane and every server has its type.
THEOREM LaneTypeCorrect == Spec => []TypeOK
BY InvAlways, PTL DEF Inv

\* While the owned process lives, it is what serves the model and the instance that
\* the runtime advertises (ensure_loaded, stop, verify_model).
THEOREM AdvertisedModelIsServed == Spec => []ResidentIsServed
BY InvAlways, PTL DEF Inv

\* An advertised prefix candidate belongs to the resident model and the present
\* instance, and its slot is not in use (generate, reset).
THEOREM AdvertisedCandidateIsReusable == Spec => []CandidateIsReusable
BY InvAlways, PTL DEF Inv

\* A runtime nobody is using is at rest, and a closed one stays empty (lane, abort,
\* close).
THEOREM IdleLanesAreSettled == Spec => []IdleLaneIsSettled
BY InvAlways, PTL DEF Inv

\* A managed server that is not the process was told to stop, whatever interrupted
\* stop() and however often.
THEOREM StraysAreTold == Spec => []StraysWereTold
BY InvAlways, PTL DEF Inv

\* A generation starts on the resident model's own server and in an idle slot
\* (ensure_loaded, abort's quarantine).
THEOREM GenerationsStartOnIdleServers == Spec => GenerationStartsOnIdleServer
<1>1. ASSUME Inv, Next, lane.pc # "generating", lane'.pc = "generating", listener # None
      PROVE  /\ listener \notin generating
             /\ alias[listener].model = lane'.target
             /\ ~Attached => listener = process
  <2>. DEFINE Good == /\ listener \notin generating
                      /\ alias[listener].model = lane'.target
                      /\ ~Attached => listener = process
  <2>1. ASSUME NEW op \in Op, NEW target, NEW pc \in StopPc, Stop(op, target, pc)
        PROVE  FALSE
    BY <1>1, <2>1 DEF Stop, Stopped
  <2>2. ASSUME NEW op \in Op, NEW m \in Model, EnterManaged(op, m)
        PROVE  Good
    <3>1. loaded = m /\ Alive(process) /\ Generate(m) /\ Admits /\ ~Attached
      BY <1>1, <2>1, <2>2 DEF EnterManaged, Abort, Admits
    <3>. QED BY <1>1, <3>1 DEF Generate, ResidentIsServed, SlotIsIdle
  <2>3. CASE VerifiedManaged
    <3>1. Serves(lane.target) /\ ~Attached /\ Alive(process) /\ lane.pc = "verifying" /\ Generate(lane.target)
      BY <1>1, <2>3 DEF VerifiedManaged
    <3>2. listener = process
      BY <1>1, <3>1 DEF Serves, Servers, InstanceIsOwn
    <3>. QED BY <1>1, <3>1, <3>2 DEF Generate, Serves, SlotIsIdle
  <2>4. CASE VerifiedAttached
    <3>1. PICK m \in Model : Serves(m) /\ Generate(m)
      BY <1>1, <2>4 DEF VerifiedAttached, CallInLane
    <3>2. generating = {} /\ Attached
      BY <1>1, <2>4 DEF VerifiedAttached, CallInLane, SlotIsIdle
    <3>. QED BY <1>1, <3>1, <3>2 DEF Generate, Serves
  <2>5. \/ \E op \in Op, m \in Model : EnterManaged(op, m)
        \/ VerifiedManaged \/ VerifiedAttached
    <3>1. ASSUME NEW op \in Op, NEW target, Abort(op, target)
          PROVE  FALSE
      BY <2>1, <3>1 DEF Abort
    <3>2. ASSUME NEW op \in Op, NEW m \in Model, EnterAttached(op, m)
          PROVE  FALSE
      BY <1>1, <3>1, <3>2 DEF EnterAttached
    <3>3. lane.pc \in {"spawning", "verifying"} => lane.op \in Op
      BY <1>1 DEF CallInLane
    <3>4. CASE Observe \/ Unload \/ Close \/ CloseDrained
      BY <1>1, <2>1, <3>4 DEF Observe, Unload, Close, CloseDrained
    <3>5. CASE StopEnds \/ StopTimesOut
      BY <1>1, <3>5 DEF StopEnds, StopTimesOut, Stopped
    <3>6. CASE Spawned \/ NotVerified \/ NotAnswered
      BY <1>1, <3>1, <3>3, <3>6 DEF Spawned, NotVerified, NotAnswered
    <3>7. CASE ObservedNothing \/ Answered \/ Snapshot \/ CandidateExpires \/ ObservationAges
      BY <1>1, <3>7 DEF ObservedNothing, Answered, Snapshot, CandidateExpires, ObservationAges
    <3>8. CASE Cancel \/ Deadline
      BY <1>1, <3>1, <3>3, <3>8 DEF Cancel, Deadline, Interrupted
    <3>9. ASSUME NEW c \in Server, ServerListens(c) \/ ServerExits(c) \/ GenerationEnds(c)
          PROVE  FALSE
      BY <1>1, <3>9 DEF ServerListens, ServerExits, GenerationEnds
    <3>10. ASSUME NEW c \in Server, NEW m \in Model, UpstreamStarts(c, m)
           PROVE  FALSE
      BY <1>1, <3>10 DEF UpstreamStarts
    <3>. HIDE DEF Inv
    <3>. QED BY <1>1, <3>2, <3>4, <3>5, <3>6, <3>7, <3>8, <3>9, <3>10 DEF Next
  <2>. HIDE DEF Inv
  <2>. QED BY <2>2, <2>3, <2>4, <2>5
<1>2. Inv /\ [Next]_vars => [StartsOnIdleServer]_vars
  <2>. HIDE DEF Inv
  <2>. QED BY <1>1 DEF StartsOnIdleServer
<1>. HIDE DEF Inv
<1>. QED BY <1>2, InvAlways, PTL DEF Spec, GenerationStartsOnIdleServer
=============================================================================

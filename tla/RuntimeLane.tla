---------------------------- MODULE RuntimeLane -----------------------------
(***************************************************************************)
(* One runtime of a Dendrite node: Runtime of                              *)
(* src/dendrite/runtimes/base.py with its adapter LlamaRuntime of          *)
(* llama.py, managed (it owns a llama-server process) or attached (the     *)
(* server is somebody else's).                                             *)
(*                                                                         *)
(* asyncio is cooperative: a segment between two awaits is one action.     *)
(* The lane lock admits one call at a time and refuses the rest, so the    *)
(* call in the lane is one record; what it awaits is its pc:               *)
(*   "switching", "aborting",   stop(), for the old process to exit        *)
(*   "unloading", "closing"                                                *)
(*   "spawning"                 create_subprocess_exec                     *)
(*   "verifying"                /health and /v1/models                     *)
(*   "generating"               POST /completion                           *)
(* At each of them a call may be cancelled, an execution may reach its     *)
(* deadline, and servers exit, listen or linger as they please.            *)
(*                                                                         *)
(* Abstractions: a model's fingerprint goes with the model (a replaced     *)
(* file is a model that must be loaded again); requests that are refused   *)
(* before they enter the lane change nothing and are left out.             *)
(***************************************************************************)
EXTENDS Naturals

CONSTANTS
    Model,      \* configured models of this runtime
    Server,     \* native server processes
    Instance,   \* uuid4 values of runtime_instance
    None

ASSUME NamesAssumption == None \notin Model \cup Server \cup Instance

Op == {"execute", "load", "unload", "observe", "close"}
StopPc == {"switching", "aborting", "unloading", "closing"}
Pc == StopPc \cup {"free", "spawning", "verifying", "generating"}
State == {"unloaded", "loading", "ready", "generating", "error", "unavailable"}
Mode == {"managed", "attach"}
Candidate == [instance : Instance, model : Model]

VARIABLES
    lane,        \* the call that holds the lock, or Free
    phase,       \* "open", "closing" (closing is set) or "closed"
    mode,        \* config.mode of the runtime, which never changes
    state, loaded, instance, cache,     \* attributes of Runtime
    process, quarantined, observed,     \* attributes of LlamaRuntime
    life,        \* of each server: "none", "starting", "listening",
                 \* "stopping" (SIGTERM was sent) or "killed"
    alias,       \* the model and instance a server was started for
    generating,  \* servers with a generation in their slot
    listener     \* the server that holds the port of base_url, or None

attachment == <<mode, observed>>
rt   == <<state, loaded, instance, cache>>
srv  == <<life, alias, generating, listener>>
vars == <<lane, phase, rt, process, quarantined, attachment, srv>>

LaneRow == [op : Op \cup {None}, target : Model \cup {None}, pc : Pc,
            victim : Server \cup {None}]
Lane(op, target, pc, victim) ==
    [op |-> op, target |-> target, pc |-> pc, victim |-> victim]
Free == Lane(None, None, "free", None)

-----------------------------------------------------------------------------
Attached == mode = "attach"

\* process is set and its returncode is None.
Alive(c) == c # None /\ life[c] # "none"

Fresh == Instance \ ({instance} \cup {alias[c].instance : c \in {s \in Server : Alive(s)}})

\* Faulty variant of Reset: the prefix candidate survives.
ResetNotCache(st) ==
    /\ loaded' = None
    /\ cache' = cache
    /\ instance' \in Fresh
    /\ state' = st

\* reset(), and the state its caller sets next.
Reset(st) ==
    /\ loaded' = None
    /\ cache' = None
    /\ instance' \in Fresh
    /\ state' = st

\* What follows the await of stop() at pc; its finally has reset the runtime.
\* A switch fails, and aborts with nothing left to stop, when the port is held.
Stopped(op, target, pc) ==
    \/ /\ pc = "switching" /\ listener = None
       /\ Reset("loading")
       /\ lane' = Lane(op, target, "spawning", None)
       /\ UNCHANGED phase
    \/ /\ pc = "aborting" \/ (pc = "switching" /\ listener # None)
       /\ Reset("error")
       /\ lane' = Free
       /\ UNCHANGED phase
    \/ /\ pc = "unloading"
       /\ Reset("unloaded")
       /\ lane' = Free
       /\ UNCHANGED phase
    \/ /\ pc = "closing"
       /\ Reset("unloaded")
       /\ lane' = Free
       /\ phase' = "closed"

\* Faulty variant of Terminated: the process is only waited for.
Untouched(c) == life

\* process.terminate().
Terminated(c) == [life EXCEPT ![c] = "stopping"]

\* stop() up to its await: forget the process and tell it to end.  With no
\* live process there is nothing to await.
Stop(op, target, pc) ==
    /\ process' = None
    /\ IF Alive(process)
       THEN /\ life' = Terminated(process)
            /\ lane' = Lane(op, target, pc, process)
            /\ UNCHANGED <<rt, phase>>
       ELSE Stopped(op, target, pc) /\ UNCHANGED life
    /\ UNCHANGED <<alias, generating, listener>>

\* Faulty variant of Abort: a failed call just leaves the lane.
LeaveLane(op, target) ==
    /\ state' = "error"
    /\ lane' = Free
    /\ UNCHANGED <<loaded, instance, cache, phase, process, quarantined, srv>>

\* Faulty variant of Abort: an attached runtime stays in use.
AbortTrusting(op, target) ==
    /\ UNCHANGED quarantined
    /\ Stop(op, target, "aborting")

\* abort() in the except clause of execute and load.
Abort(op, target) ==
    /\ quarantined' = (quarantined \/ Attached)
    /\ Stop(op, target, "aborting")

\* generate(): the request reaches whoever listens.  The slot is in use from
\* here on, so no candidate is advertised.
Generate(m) ==
    /\ state' = "generating"
    /\ cache' = None
    /\ lane' = Lane("execute", m, "generating", None)
    /\ generating' = generating \cup ({listener} \ {None})

-----------------------------------------------------------------------------
Init ==
    /\ lane = Free
    /\ phase = "open"
    /\ mode \in Mode
    /\ state = "unloaded" /\ loaded = None /\ cache = None
    /\ instance \in Instance
    /\ process = None /\ quarantined = FALSE /\ observed = "never"
    /\ life = [c \in Server |-> "none"]
    /\ alias = [c \in Server |-> None]
    /\ generating = {}
    /\ listener = None

\* Faulty variant of Admits: a closing runtime still takes work.
AdmitsAlways == lane = Free

\* lane(): refused while closing and while locked.
Admits == lane = Free /\ phase = "open"

\* execute or load of m enters a managed lane: ensure_loaded up to its first
\* await.  The file or the binary may be gone, or the file may have changed.
EnterManaged(op, m) ==
    /\ ~Attached /\ Admits /\ op \in {"execute", "load"}
    /\ \/ /\ loaded = m /\ Alive(process)
          /\ \/ op = "execute" /\ Generate(m)
             \/ op = "load" /\ UNCHANGED <<lane, state, cache, generating>>
          /\ UNCHANGED <<phase, loaded, instance, process, quarantined, life, alias, listener>>
       \/ Stop(op, m, "switching") /\ UNCHANGED quarantined
       \/ Abort(op, m)
    /\ UNCHANGED attachment

\* execute or load of m enters an attached lane.  Node.select takes an
\* attached runtime only for the model it was last seen serving.
EnterAttached(op, m) ==
    /\ Attached /\ Admits /\ op \in {"execute", "load"}
    /\ op = "execute" => loaded = m /\ state \in {"ready", "generating"}
    /\ IF quarantined
       THEN Abort(op, m)
       ELSE /\ lane' = Lane(op, m, "verifying", None)
            /\ UNCHANGED <<phase, rt, process, quarantined, srv>>
    /\ UNCHANGED attachment

\* observe_attached, before snapshots and executions.
Observe ==
    /\ Attached /\ Admits /\ ~quarantined
    /\ lane' = Lane("observe", None, "verifying", None)
    /\ UNCHANGED <<phase, rt, process, quarantined, attachment, srv>>

\* unload; an attached runtime refuses it.
Unload ==
    /\ ~Attached /\ Admits
    /\ Stop("unload", None, "unloading")
    /\ UNCHANGED <<quarantined, attachment>>

\* close() is called, and waits for the lock.
Close ==
    /\ phase = "open"
    /\ phase' = "closing"
    /\ UNCHANGED <<lane, rt, process, quarantined, attachment, srv>>

\* close() has the lock and stops the process.
CloseDrained ==
    /\ phase = "closing" /\ lane = Free
    /\ Stop("close", None, "closing")
    /\ UNCHANGED <<quarantined, attachment>>

\* The process that stop() awaits has exited.
StopEnds ==
    /\ lane.pc \in StopPc /\ ~Alive(lane.victim)
    /\ Stopped(lane.op, lane.target, lane.pc)
    /\ UNCHANGED <<process, quarantined, attachment, srv>>

\* Faulty variant of Killed: SIGTERM again.
KilledNot(c) == life

\* process.kill().
Killed(c) == [life EXCEPT ![c] = "killed"]

\* It has not exited within three seconds.
StopTimesOut ==
    /\ lane.pc \in StopPc /\ Alive(lane.victim) /\ life[lane.victim] # "killed"
    /\ life' = Killed(lane.victim)
    /\ UNCHANGED <<lane, phase, rt, process, quarantined, attachment, alias, generating, listener>>

\* The child is there, or the executable cannot be started.
Spawned ==
    /\ lane.pc = "spawning"
    /\ \/ \E c \in Server :
            /\ life[c] = "none"
            /\ life' = [life EXCEPT ![c] = "starting"]
            /\ alias' = [alias EXCEPT ![c] = [model |-> lane.target, instance |-> instance]]
            /\ process' = c
            /\ lane' = Lane(lane.op, lane.target, "verifying", None)
            /\ UNCHANGED <<phase, rt, quarantined, generating, listener>>
       \/ Abort(lane.op, lane.target)
    /\ UNCHANGED attachment

\* Faulty variant of Serves: any server of the model will do.
ServesModel(m) == listener # None /\ alias[listener].model = m

\* verify_model: whoever listens answers with the alias of this instance, or
\* of an attached server's model.
Serves(m) ==
    /\ listener # None
    /\ alias[listener].model = m
    /\ Attached \/ alias[listener].instance = instance

\* The readiness loop of a managed runtime succeeds for a live child.
VerifiedManaged ==
    /\ ~Attached /\ lane.pc = "verifying"
    /\ Alive(process) /\ Serves(lane.target)
    /\ loaded' = lane.target
    /\ \/ lane.op = "execute" /\ Generate(lane.target)
       \/ /\ lane.op = "load" /\ state' = "ready" /\ lane' = Free
          /\ UNCHANGED <<cache, generating>>
    /\ UNCHANGED <<phase, instance, process, quarantined, attachment, life, alias, listener>>

\* An attached server answers with the model; observe_attached takes the
\* first of the configured models that it serves.
VerifiedAttached ==
    /\ Attached /\ lane.pc = "verifying"
    /\ \E m \in IF lane.op = "observe" THEN Model ELSE {lane.target} :
        /\ Serves(m)
        /\ loaded' = m
        /\ IF loaded = m THEN UNCHANGED instance ELSE instance' \in Fresh
        /\ \/ lane.op = "execute" /\ Generate(m)
           \/ /\ lane.op # "execute" /\ state' = "ready" /\ lane' = Free
              /\ cache' = IF loaded = m THEN cache ELSE None
              /\ UNCHANGED generating
    /\ observed' = "fresh"
    /\ UNCHANGED <<mode, phase, process, quarantined, life, alias, listener>>

\* The child exited, the startup deadline passed, or the attached server
\* does not answer as expected.
NotVerified ==
    /\ lane.pc = "verifying" /\ lane.op # "observe"
    /\ Abort(lane.op, lane.target)
    /\ UNCHANGED attachment

\* No configured model is served.
ObservedNothing ==
    /\ lane.pc = "verifying" /\ lane.op = "observe"
    /\ Reset("unavailable")
    /\ lane' = Free /\ observed' = "fresh"
    /\ UNCHANGED <<mode, phase, process, quarantined, srv>>

\* Faulty variant of Recorded: two arguments of record() are swapped.
RecordedSwapped(m) == [instance |-> m, model |-> instance]

\* cache.record(): the candidate that will be advertised.
Recorded(m) == [instance |-> instance, model |-> m]

\* The completion arrives.  A managed slot is advertised if the request had a
\* prefix and was not truncated.
Answered ==
    /\ lane.pc = "generating" /\ listener \in generating
    /\ state' = "ready"
    /\ cache' \in {None} \cup
            IF Attached THEN {} ELSE {Recorded(lane.target)}
    /\ generating' = generating \ {listener}
    /\ lane' = Free
    /\ UNCHANGED <<phase, loaded, instance, process, quarantined, attachment, life, alias, listener>>

\* An error response, a lost connection or malformed JSON.
NotAnswered ==
    /\ lane.pc = "generating"
    /\ Abort(lane.op, lane.target)
    /\ UNCHANGED attachment

\* The await of the call in the lane is interrupted.  Inside stop() the
\* process is forgotten already: its finally resets and nobody waits for it
\* any longer.
Interrupted ==
    \/ /\ lane.pc \in {"verifying", "generating"} /\ lane.op # "observe"
       /\ Abort(lane.op, lane.target)
    \/ /\ lane.pc = "verifying" /\ lane.op = "observe"
       /\ lane' = Free
       /\ UNCHANGED <<phase, rt, process, quarantined, srv>>
    \/ /\ lane.pc \in {"switching", "spawning"}
       /\ Reset("error") /\ lane' = Free
       /\ UNCHANGED <<phase, process, quarantined, srv>>
    \/ /\ lane.pc \in {"aborting", "unloading"}
       /\ Reset("unloaded") /\ lane' = Free
       /\ UNCHANGED <<phase, process, quarantined, srv>>

\* The caller's task is cancelled: a lost fabric connection, a shutdown.
Cancel == Interrupted /\ UNCHANGED attachment

\* request_timeout_seconds: covers the whole of execute but its abort.
Deadline ==
    /\ lane.op = "execute" /\ lane.pc # "aborting"
    /\ Interrupted
    /\ UNCHANGED attachment

\* snapshot() of an unlocked runtime notices that its process has exited, or
\* that its attachment was not observed for a heartbeat.
Snapshot ==
    /\ lane = Free
    /\ \/ process # None /\ ~Alive(process) /\ Reset("error")
       \/ Attached /\ observed = "old" /\ Reset("unavailable")
    /\ UNCHANGED <<lane, phase, process, quarantined, attachment, srv>>

\* The candidate's time to live is over.
CandidateExpires ==
    /\ cache # None
    /\ cache' = None
    /\ UNCHANGED <<lane, phase, state, loaded, instance, process, quarantined, attachment, srv>>

-----------------------------------------------------------------------------
(* Native servers.  One that was told to stop may still do anything, open  *)
(* the port included, until it exits.                                      *)

ServerListens(c) ==
    /\ life[c] \in {"starting", "stopping"} /\ listener = None
    /\ listener' = c
    /\ life' = [life EXCEPT ![c] = IF @ = "starting" THEN "listening" ELSE @]
    /\ UNCHANGED <<lane, phase, rt, process, quarantined, attachment, alias, generating>>

ServerExits(c) ==
    /\ Alive(c)
    /\ life' = [life EXCEPT ![c] = "none"]
    /\ generating' = generating \ {c}
    /\ alias' = [alias EXCEPT ![c] = None]
    /\ listener' = IF listener = c THEN None ELSE listener
    /\ UNCHANGED <<lane, phase, rt, process, quarantined, attachment>>

\* A generation nobody waits for any longer comes to its end.
GenerationEnds(c) ==
    /\ c \in generating
    /\ lane.pc = "generating" => c # listener
    /\ generating' = generating \ {c}
    /\ UNCHANGED <<lane, phase, rt, process, quarantined, attachment, life, alias, listener>>

\* The operator of an attached server starts it.
UpstreamStarts(c, m) ==
    /\ Attached /\ life[c] = "none" /\ listener = None
    /\ life' = [life EXCEPT ![c] = "listening"]
    /\ alias' = [alias EXCEPT ![c] = [model |-> m, instance |-> instance]]
    /\ listener' = c
    /\ UNCHANGED <<lane, phase, rt, process, quarantined, attachment, generating>>

\* heartbeat_seconds pass without an observation.
ObservationAges ==
    /\ observed = "fresh"
    /\ observed' = "old"
    /\ UNCHANGED <<mode, lane, phase, rt, process, quarantined, srv>>

-----------------------------------------------------------------------------
Next ==
    \/ \E op \in Op, m \in Model : EnterManaged(op, m) \/ EnterAttached(op, m)
    \/ Observe \/ Unload \/ Close \/ CloseDrained
    \/ StopEnds \/ StopTimesOut
    \/ Spawned
    \/ VerifiedManaged \/ VerifiedAttached \/ NotVerified \/ ObservedNothing
    \/ Answered \/ NotAnswered
    \/ Cancel \/ Deadline
    \/ Snapshot \/ CandidateExpires
    \/ \E c \in Server : ServerListens(c) \/ ServerExits(c) \/ GenerationEnds(c)
    \/ \E c \in Server, m \in Model : UpstreamStarts(c, m)
    \/ ObservationAges

Spec == Init /\ [][Next]_vars

\* Deadlines fire, awaits of HTTP requests with a timeout end, asyncio resumes
\* a task whose await is over, and the operating system ends a process that
\* was killed.  Servers need neither answer nor obey SIGTERM.
Fairness ==
    /\ WF_vars(StopEnds) /\ WF_vars(StopTimesOut)
    /\ WF_vars(Spawned) /\ WF_vars(NotVerified) /\ WF_vars(ObservedNothing)
    /\ WF_vars(Deadline) /\ WF_vars(CloseDrained)
    /\ \A c \in Server : WF_vars(life[c] = "killed" /\ ServerExits(c))

FairSpec == Spec /\ Fairness

-----------------------------------------------------------------------------
(* Correctness.                                                            *)

TypeOK ==
    /\ lane \in LaneRow
    /\ phase \in {"open", "closing", "closed"}
    /\ mode \in Mode
    /\ state \in State
    /\ loaded \in Model \cup {None}
    /\ instance \in Instance
    /\ cache \in Candidate \cup {None}
    /\ process \in Server \cup {None}
    /\ quarantined \in BOOLEAN
    /\ observed \in {"never", "fresh", "old"}
    /\ life \in [Server -> {"none", "starting", "listening", "stopping", "killed"}]
    /\ alias \in [Server -> Candidate \cup {None}]
    /\ generating \in SUBSET Server
    /\ listener \in Server \cup {None}

\* A resident model is served: while the owned process lives it holds the
\* port, as the model and instance that the runtime advertises.  A process of
\* an earlier, cancelled load that opens the port late is never taken for it.
ResidentIsServed ==
    ~Attached /\ loaded # None /\ Alive(process) =>
        /\ listener = process
        /\ life[process] = "listening"
        /\ alias[process] = [model |-> loaded, instance |-> instance]

\* The advertised prefix candidate belongs to the resident model and the
\* present instance, and nothing is using its slot.
CandidateIsReusable ==
    cache # None =>
        /\ cache = [model |-> loaded, instance |-> instance]
        /\ lane.pc # "generating"
        /\ process # None => process \notin generating

\* Between calls the runtime is at rest: a state that says otherwise would be
\* reported by every heartbeat and keep the room from placing work.  After
\* close() nothing is in the lane or loaded, and no process is started any more.
IdleLaneIsSettled ==
    /\ lane = Free =>
          /\ state \notin {"loading", "generating"}
          /\ state = "ready" <=> loaded # None
    /\ phase = "closed" => lane = Free /\ process = None /\ loaded = None

\* Every live server of a managed runtime is its process or was told to stop.
StraysWereTold ==
    ~Attached =>
        \A c \in Server : Alive(c) /\ c # process => life[c] \in {"stopping", "killed"}

\* A generation starts only on the resident model's server, with an idle slot:
\* one that was cancelled or timed out may still be running, so its server is
\* stopped, or not used again.
StartsOnIdleServer ==
    lane.pc # "generating" /\ lane'.pc = "generating" /\ listener # None =>
        /\ listener \notin generating
        /\ alias[listener].model = lane'.target
        /\ ~Attached => listener = process

GenerationStartsOnIdleServer == [][StartsOnIdleServer]_vars

\* Whatever a call awaits, it leaves the lane.
LaneIsFreed == lane # Free ~> lane = Free

\* Shutdown drains the lane and ends.
ShutdownCompletes == phase = "closing" ~> phase = "closed"

\* base.py:93 of a failed or cancelled request: "Managed adapters stop the
\* owned process".  So a server that the runtime gave up comes to its end.
GivenUpServersEnd ==
    \A c \in Server : ~Attached /\ Alive(c) /\ c # process ~> ~Alive(c)
=============================================================================

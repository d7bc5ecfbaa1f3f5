---------------------------- MODULE RuntimeLease ----------------------------
(***************************************************************************)
(* What the fabric promises about a runtime: it is leased to one job at a  *)
(* time, a job gets one lease in its life, and a lease is given back for   *)
(* one of three reasons only.  The job is settled in time; or it is        *)
(* overdue, and the runtime was seen idle once since and is seen idle      *)
(* again; or it is overdue, and its record is given up.  Being overdue is  *)
(* itself no reason: the lane stays in quarantine, withheld from others.   *)
(* The reservations and jobs tables of src/fabric/worker/index.ts          *)
(* implement it (FabricRoom, property ImplementsLease).                    *)
(*                                                                         *)
(* Several lanes may move in one step: one lost connection ends all of its *)
(* leases, one alarm times several of them out.                            *)
(***************************************************************************)
CONSTANTS
    Lane,  \* what is leased
    Job,   \* to whom
    None   \* not a job

VARIABLES
    lease,  \* the job each lane is leased to, or None
    seen,   \* the lanes seen idle since their job became overdue
    stage   \* how far each job is

vars == <<lease, seen, stage>>

Stage == {"new", "active", "done", "overdue", "forgotten"}

Init ==
    /\ lease = [l \in Lane |-> None]
    /\ seen = {}
    /\ stage = [j \in Job |-> "new"]

\* Job j stays as it is, or goes one way: only a new job becomes active, only
\* an active one overdue, and nothing is settled twice.
Advance(j) ==
    \/ stage'[j] = stage[j]
    \/ stage[j] = "new" /\ stage'[j] \in {"active", "done"}
    \/ stage[j] = "active" /\ stage'[j] \in {"done", "overdue"}
    \/ stage[j] \in {"done", "overdue"} /\ stage'[j] = "forgotten"

\* The lane holds no lease after the step.
Frees(l) == lease[l] # None /\ lease'[l] = None

\* Lane l is free and goes to a job that becomes active with it.
Grant(l) ==
    /\ lease[l] = None
    /\ lease'[l] \in {j \in Job : stage[j] = "new" /\ stage'[j] = "active"}

\* The job answered, or its connection was lost, in time.
Finish(l) ==
    /\ Frees(l)
    /\ stage[lease[l]] = "active" /\ stage'[lease[l]] = "done"

\* The job did not answer in time: it keeps the lane, not yet seen idle.
TimeOut(l) ==
    /\ lease[l] # None /\ lease'[l] = lease[l]
    /\ stage[lease[l]] = "active" /\ stage'[lease[l]] = "overdue"

\* In quarantine the lane is seen idle, or busy again.
Watch(l) ==
    /\ lease[l] # None /\ lease'[l] = lease[l]
    /\ stage[lease[l]] = "overdue" /\ stage'[lease[l]] = "overdue"

\* The lane was seen idle before and is known to be idle.
Recover(l) ==
    /\ Frees(l)
    /\ stage[lease[l]] = "overdue" /\ stage'[lease[l]] = "overdue"
    /\ l \in seen

\* The record of the overdue job is given up, and its lane with it.
Forget(l) ==
    /\ Frees(l)
    /\ stage[lease[l]] = "overdue" /\ stage'[lease[l]] = "forgotten"

\* The lane is free, or leased to a job that goes on.
Keep(l) ==
    /\ lease'[l] = lease[l]
    /\ lease[l] # None => stage[lease[l]] = "active" /\ stage'[lease[l]] = "active"

Next ==
    /\ lease' \in [Lane -> Job \cup {None}]
    /\ stage' \in [Job -> Stage]
    /\ seen' \in SUBSET Lane
    /\ \A j \in Job : Advance(j)
    /\ \A l \in Lane : \/ Grant(l) \/ Finish(l) \/ TimeOut(l) \/ Watch(l)
                       \/ Recover(l) \/ Forget(l) \/ Keep(l)
    \* a job at work holds a lane, a lane its own job, and what was seen idle
    \* was in quarantine before and is still
    /\ \A j \in Job : stage'[j] = "active" => \E l \in Lane : lease'[l] = j
    /\ \A l, m \in Lane : lease'[l] = lease'[m] => l = m \/ lease'[l] = None
    /\ \A l \in seen' : Watch(l)

Spec == Init /\ [][Next]_vars
=============================================================================

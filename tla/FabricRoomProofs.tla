-------------------------- MODULE FabricRoomProofs --------------------------
(***************************************************************************)
(* Theorems about FabricRoom, for every set of nodes, runtimes,            *)
(* connections, jobs and tokens and every value of the limits.             *)
(***************************************************************************)
EXTENDS FabricRoom, WellFoundedInduction, TLAPS

-----------------------------------------------------------------------------
(* The operators the actions are built from.                               *)

\* Every nonempty set of naturals has a minimum, and Min is it.
LEMMA MinIsLeast ==
    ASSUME NEW S \in SUBSET Nat, S # {}
    PROVE  Min(S) \in S /\ \A x \in S : Min(S) <= x
<1>. DEFINE R == {ss \in Nat \X Nat : ss[1] < ss[2]}
<1>1. IsWellFoundedOn(R, Nat)
  BY NatLessThanWellFounded DEF OpToRel
<1>2. \A x, y \in Nat : <<x, y>> \in R <=> x < y
  OBVIOUS
<1>. HIDE DEF R
<1>3. PICK m \in S : \A y \in S : ~ (<<y, m>> \in R)
  BY <1>1, WFMin, Zenon
<1>4. \A y \in S : m <= y
  <2>1. TAKE y \in S
  <2>2. m \in Nat /\ y \in Nat
    OBVIOUS
  <2>3. ~ (y < m)
    BY <1>2, <1>3, <2>2
  <2>. QED BY <2>2, <2>3
<1>. QED BY <1>4 DEF Min

\* scheduleNextAlarm sets an alarm no later than any running job's deadline.
LEMMA NextAlarmCovers ==
    ASSUME NEW rows \in [Job -> JobRow]
    PROVE  /\ NextAlarm(rows) \in Nat \cup {None}
           /\ \A j \in RunningIn(rows) :
                 NextAlarm(rows) # None /\ NextAlarm(rows) <= rows[j].deadline
<1>. DEFINE S == {rows[j].deadline : j \in RunningIn(rows)}
<1>1. S \in SUBSET Nat
  BY DEF RunningIn, JobRow
<1>2. CASE RunningIn(rows) = {}
  BY <1>2 DEF NextAlarm
<1>3. CASE RunningIn(rows) # {}
  <2>1. S # {}
    BY <1>3
  <2>2. Min(S) \in S /\ \A x \in S : Min(S) <= x
    BY <1>1, <2>1, MinIsLeast, Zenon
  <2>3. NextAlarm(rows) = Min(S)
    BY <1>3 DEF NextAlarm
  <2>4. NextAlarm(rows) # None
    BY <1>1, <2>2, <2>3, NoneAssumption
  <2>. QED BY <1>1, <2>2, <2>3, <2>4
<1>. QED BY <1>2, <1>3

\* Settle changes status and completed_at of the rows of S and nothing else.
LEMMA SettleRows ==
    ASSUME NEW rows \in [Job -> JobRow], NEW S, NEW status \in JobStatus, now \in Nat
    PROVE  /\ Settle(rows, S, status) \in [Job -> JobRow]
           /\ \A j \in Job :
                IF j \in S
                THEN /\ Settle(rows, S, status)[j].status = status
                     /\ Settle(rows, S, status)[j].completed = now
                     /\ Settle(rows, S, status)[j].lane = rows[j].lane
                     /\ Settle(rows, S, status)[j].conn = rows[j].conn
                     /\ Settle(rows, S, status)[j].deadline = rows[j].deadline
                ELSE Settle(rows, S, status)[j] = rows[j]
<1>1. \A j \in Job : rows[j] \in JobRow
  OBVIOUS
<1>2. ASSUME NEW row \in JobRow
      PROVE  LET new == [row EXCEPT !.status = status, !.completed = now]
             IN  /\ new \in JobRow
                 /\ new.status = status /\ new.completed = now
                 /\ new.lane = row.lane /\ new.conn = row.conn
                 /\ new.deadline = row.deadline
  BY DEF JobRow
<1>3. Settle(rows, S, status) \in [Job -> JobRow]
  BY <1>1, <1>2, Zenon DEF Settle
<1>. QED BY <1>1, <1>2, <1>3, Zenon DEF Settle

\* What prune leaves in the jobs table: an overdue running row expires now
\* and is not deleted in the same pass; only finished rows are deleted.
LEMMA PrunedRows ==
    ASSUME NEW rows \in [Job -> JobRow], now \in Nat
    PROVE  /\ PrunedJobs(rows) \in [Job -> JobRow]
           /\ \A j \in Job :
                \/ PrunedJobs(rows)[j] = rows[j] /\ j \notin Overdue(rows)
                \/ /\ rows[j].status \in {"succeeded", "failed", "expired"}
                   /\ PrunedJobs(rows)[j] = NoRow("deleted")
                \/ /\ j \in Overdue(rows)
                   /\ PrunedJobs(rows)[j].status = "expired"
                   /\ PrunedJobs(rows)[j].completed = now
                   /\ PrunedJobs(rows)[j].lane = rows[j].lane
                   /\ PrunedJobs(rows)[j].conn = rows[j].conn
                   /\ PrunedJobs(rows)[j].deadline = rows[j].deadline
<1>. DEFINE expired == Settle(rows, Overdue(rows), "expired")
<1>1. /\ expired \in [Job -> JobRow]
      /\ \A j \in Job :
            IF j \in Overdue(rows)
            THEN /\ expired[j].status = "expired" /\ expired[j].completed = now
                 /\ expired[j].lane = rows[j].lane /\ expired[j].conn = rows[j].conn
                 /\ expired[j].deadline = rows[j].deadline
            ELSE expired[j] = rows[j]
  BY SettleRows DEF JobStatus
<1>. HIDE DEF expired
<1>2. NoRow("deleted") \in JobRow
  BY DEF NoRow, JobRow, JobStatus
<1>3. PrunedJobs(rows) = [j \in Job |-> IF Retained(expired[j]) THEN expired[j]
                                        ELSE NoRow("deleted")]
  BY DEF PrunedJobs, expired
<1>4. \A j \in Job : rows[j].status \in JobStatus
  BY DEF JobRow
<1>5. \A j \in Overdue(rows) : Retained(expired[j])
  BY <1>1, LimitsAssumption DEF Retained, Overdue, RunningIn
<1>6. \A j \in Job : ~Retained(expired[j]) =>
         j \notin Overdue(rows) /\ rows[j].status \in {"succeeded", "failed", "expired"}
  BY <1>1, <1>4, <1>5 DEF Retained, JobStatus
<1>. QED BY <1>1, <1>2, <1>3, <1>6

\* Releasing lanes keeps the reservations table well typed.
LEMMA ReleaseType ==
    ASSUME NEW S, TypeOK, ReleaseAll(S)
    PROVE  /\ holder' \in [Lane -> Job \cup {None}]
           /\ idleSeen' \in [Lane -> Nat \cup {None}]
BY DEF TypeOK, ReleaseAll, HolderWithout, IdleWithout

\* The types of what FailConnectionJobs writes.
LEMMA FailConnectionJobsType ==
    ASSUME NEW S, TypeOK, FailConnectionJobs(S)
    PROVE  /\ jobs' \in [Job -> JobRow]
           /\ holder' \in [Lane -> Job \cup {None}]
           /\ idleSeen' \in [Lane -> Nat \cup {None}]
           /\ alarm' \in Nat \cup {None}
<1>1. jobs' \in [Job -> JobRow]
  BY SettleRows DEF FailConnectionJobs, TypeOK, JobStatus
<1>2. alarm' \in Nat \cup {None}
  BY <1>1, NextAlarmCovers DEF FailConnectionJobs
<1>. QED BY <1>1, <1>2, ReleaseType DEF FailConnectionJobs

\* The types of what HandleSocketGone writes.
LEMMA HandleSocketGoneType ==
    ASSUME NEW c \in Conn, TypeOK, HandleSocketGone(c)
    PROVE  /\ connections' \in [Node -> Conn \cup {None}]
           /\ jobs' \in [Job -> JobRow]
           /\ holder' \in [Lane -> Job \cup {None}]
           /\ idleSeen' \in [Lane -> Nat \cup {None}]
           /\ alarm' \in Nat \cup {None}
<1>1. CASE Current(c)
  BY <1>1, FailConnectionJobsType DEF HandleSocketGone, TypeOK
<1>2. CASE ~Current(c)
  BY <1>2 DEF HandleSocketGone, TypeOK
<1>. QED BY <1>1, <1>2

\* The types of what Prune writes.
LEMMA PruneType ==
    ASSUME TypeOK, Prune
    PROVE  /\ jobs' \in [Job -> JobRow]
           /\ lastSeen' \in [Node -> Nat \cup {None}]
           /\ snapshot' \in [Node -> Report]
           /\ holder' \in [Lane -> Job \cup {None}]
           /\ idleSeen' \in [Lane -> Nat \cup {None}]
<1>1. jobs' \in [Job -> JobRow]
  BY PrunedRows DEF Prune, TypeOK
<1>2. lastSeen' \in [Node -> Nat \cup {None}] /\ snapshot' \in [Node -> Report]
  BY DEF Prune, PruneNodes, TypeOK, Report, NoReport, RuntimeView
<1>. QED BY <1>1, <1>2, ReleaseType DEF Prune

-----------------------------------------------------------------------------
(* Type correctness.                                                       *)

\* The empty room is well typed.
LEMMA InitType == Init => TypeOK
BY LimitsAssumption DEF Init, TypeOK, NoRow, NoReport, JobRow, JobStatus, Report, RuntimeView

\* One step per action.
LEMMA NextType == TypeOK /\ [Next]_vars => TypeOK'
<1>. SUFFICES ASSUME TypeOK, [Next]_vars PROVE TypeOK'
  OBVIOUS
<1>. USE DEF TypeOK
<1>1. CASE \E c \in Conn, report \in Report : Heartbeat(c, report)
  <2>1. PICK c \in Conn, report \in Report : Heartbeat(c, report)
    BY <1>1
  <2>2. lastSeen' \in [Node -> Nat \cup {None}] /\ snapshot' \in [Node -> Report]
    BY <2>1 DEF Heartbeat
  <2>3. holder' \in [Lane -> Job \cup {None}]
    BY <2>1 DEF Heartbeat
  <2>4. idleSeen' \in [Lane -> Nat \cup {None}]
    BY <2>1 DEF Heartbeat
  <2>. QED BY <2>1, <2>2, <2>3, <2>4 DEF Heartbeat
<1>2. CASE \E c \in Conn, t \in Token : ConnectNode(c, t)
  <2>1. PICK c \in Conn, t \in Token : ConnectNode(c, t)
    BY <1>2
  <2>. DEFINE n == Binding[t]
  <2>2. n \in Node
    BY BindingAssumption
  <2>3. /\ jobs' \in [Job -> JobRow]
        /\ holder' \in [Lane -> Job \cup {None}]
        /\ idleSeen' \in [Lane -> Nat \cup {None}]
        /\ alarm' \in Nat \cup {None}
    <3>1. CASE connections[n] = None
      BY <2>1, <3>1 DEF ConnectNode
    <3>2. CASE connections[n] # None
      BY <2>1, <3>2, FailConnectionJobsType DEF ConnectNode
    <3>. QED BY <3>1, <3>2
  <2>4. lastSeen' \in [Node -> Nat \cup {None}]
    BY <2>1, <2>2 DEF ConnectNode, Unseen
  <2>5. socket' \in [Conn -> {"unused", "open", "closing", "closed"}]
    BY <2>1 DEF ConnectNode
  <2>. QED BY <2>1, <2>2, <2>3, <2>4, <2>5 DEF ConnectNode
<1>3. CASE \E c \in Conn : MessageUnauthorized(c)
  BY <1>3, HandleSocketGoneType DEF MessageUnauthorized
<1>4. CASE \E c \in Conn : MessageSuperseded(c)
  BY <1>4 DEF MessageSuperseded
<1>5. CASE \E c \in Conn : MessageMalformed(c)
  BY <1>5 DEF MessageMalformed
<1>6. CASE \E c \in Conn, j \in Job, outcome \in {"succeeded", "failed"} :
              ResultInTime(c, j, outcome)
  <2>1. PICK c \in Conn, j \in Job, outcome \in {"succeeded", "failed"} :
              ResultInTime(c, j, outcome)
    BY <1>6
  <2>2. jobs' \in [Job -> JobRow]
    BY <2>1, SettleRows DEF ResultInTime, JobStatus
  <2>3. alarm' \in Nat \cup {None}
    BY <2>1, <2>2, NextAlarmCovers DEF ResultInTime
  <2>. QED BY <2>1, <2>2, <2>3, ReleaseType DEF ResultInTime
<1>7. CASE \E c \in Conn, j \in Job : ResultLate(c, j)
  <2>1. PICK c \in Conn, j \in Job : ResultLate(c, j)
    BY <1>7
  <2>2. jobs' \in [Job -> JobRow]
    BY <2>1, SettleRows DEF ResultLate, JobStatus
  <2>3. alarm' \in Nat \cup {None}
    BY <2>1, <2>2, NextAlarmCovers DEF ResultLate
  <2>. QED BY <2>1, <2>2, <2>3 DEF ResultLate
<1>8. CASE \E c \in Conn : PeerGone(c)
  BY <1>8 DEF PeerGone
<1>9. CASE \E c \in Conn : SocketGone(c)
  BY <1>9, HandleSocketGoneType DEF SocketGone
<1>10. CASE \E j \in Job, l \in Lane, sent \in BOOLEAN : CreateTask(j, l, sent)
  <2>1. PICK j \in Job, l \in Lane, sent \in BOOLEAN : CreateTask(j, l, sent)
    BY <1>10
  <2>2. /\ jobs' \in [Job -> JobRow]
        /\ holder' \in [Lane -> Job \cup {None}]
        /\ idleSeen' \in [Lane -> Nat \cup {None}]
    <3>. DEFINE placed == [jobs EXCEPT ![j] = PlacedRow(l)]
    <3>1. PlacedRow(l) \in JobRow
      BY LimitsAssumption DEF PlacedRow, JobRow, JobStatus, Lane
    <3>2. placed \in [Job -> JobRow]
      BY <3>1
    <3>3. jobs' = IF sent THEN placed ELSE Settle(placed, {j}, "failed")
      BY <2>1 DEF CreateTask
    <3>4. holder' = [holder EXCEPT ![l] = IF sent THEN j ELSE None]
          /\ idleSeen' = [idleSeen EXCEPT ![l] = None]
      BY <2>1 DEF CreateTask
    <3>. HIDE DEF placed
    <3>5. Settle(placed, {j}, "failed") \in [Job -> JobRow]
      BY <3>2, SettleRows, "failed" \in JobStatus DEF JobStatus
    <3>. QED BY <3>2, <3>3, <3>4, <3>5
  <2>3. alarm' \in Nat \cup {None}
    BY <2>1, <2>2, NextAlarmCovers DEF CreateTask
  <2>. QED BY <2>1, <2>2, <2>3 DEF CreateTask
<1>11. CASE ApiRequest
  BY <1>11, PruneType DEF ApiRequest
<1>12. CASE Alarm
  <2>1. alarm' \in Nat \cup {None}
    BY <1>12, PruneType, NextAlarmCovers DEF Alarm
  <2>. QED BY <1>12, <2>1, PruneType DEF Alarm
<1>13. CASE \E t \in Token : RevokeToken(t)
  <2>1. PICK t \in Token : RevokeToken(t)
    BY <1>13
  <2>2. PICK S : /\ jobs' = Settle(PrunedJobs(jobs), S, "failed")
                 /\ ReleaseAll(Orphaned(PrunedJobs(jobs)) \cup S)
    BY <2>1 DEF RevokeToken
  <2>3. jobs' \in [Job -> JobRow]
    BY <2>2, PrunedRows, SettleRows DEF JobStatus
  <2>4. holder' \in [Lane -> Job \cup {None}] /\ idleSeen' \in [Lane -> Nat \cup {None}]
    BY <2>2, ReleaseType
  <2>5. alarm' \in Nat \cup {None}
    BY <2>1, <2>3, NextAlarmCovers DEF RevokeToken
  <2>6. lastSeen' \in [Node -> Nat \cup {None}] /\ snapshot' \in [Node -> Report]
    BY <2>1 DEF RevokeToken, PruneNodes, Report, NoReport, RuntimeView
  <2>7. /\ connections' \in [Node -> Conn \cup {None}]
        /\ socket' \in [Conn -> {"unused", "open", "closing", "closed"}]
        /\ tokenState' \in [Token -> {"active", "expired", "revoked"}]
    BY <2>1 DEF RevokeToken
  <2>. QED BY <2>1, <2>3, <2>4, <2>5, <2>6, <2>7 DEF RevokeToken
<1>14. CASE \E t \in Token : ExpireToken(t)
  BY <1>14 DEF ExpireToken
<1>15. CASE Restart
  BY <1>15 DEF Restart
<1>16. CASE Tick
  BY <1>16 DEF Tick
<1>17. CASE UNCHANGED vars
  BY <1>17 DEF vars
<1>. QED BY <1>1, <1>2, <1>3, <1>4, <1>5, <1>6, <1>7, <1>8, <1>9, <1>10, <1>11,
            <1>12, <1>13, <1>14, <1>15, <1>16, <1>17 DEF Next, SilentNext

\* Every reachable state of the room is well typed.
THEOREM TypeCorrect == Spec => []TypeOK
BY InitType, NextType, PTL DEF Spec

-----------------------------------------------------------------------------
(* Reservations.  RunningHoldsLane and NoLeakedReservation support each    *)
(* other: a lane that is free has no running job only because every running*)
(* job holds its own, and releasing the lanes of some jobs frees no other  *)
(* job's lane only because a lane's holder is a job of that lane.          *)

LaneInv == TypeOK /\ RunningHoldsLane /\ NoLeakedReservation

\* The shape of every step that settles, expires or deletes jobs and frees
\* the lanes of the jobs S: jobs only leave the running state, and the jobs
\* that keep a lane keep running or have timed out.
LEMMA ReleaseKeepsLaneInv ==
    ASSUME NEW S, LaneInv, TypeOK',
           \A l \in Lane : holder'[l] = IF holder[l] \in S THEN None ELSE holder[l],
           \A j \in Job : jobs'[j].status = "running" =>
               j \notin S /\ jobs[j].status = "running" /\ jobs'[j].lane = jobs[j].lane,
           \A j \in Job \ S : jobs[j].status \in {"running", "expired"} =>
               jobs'[j].status \in {"running", "expired"} /\ jobs'[j].lane = jobs[j].lane
    PROVE  LaneInv'
<1>1. RunningHoldsLane'
  <2>1. SUFFICES ASSUME NEW j \in Job, jobs'[j].status = "running"
                 PROVE  jobs'[j].lane # None /\ holder'[jobs'[j].lane] = j
    BY DEF RunningHoldsLane, RunningIn
  <2>2. /\ j \notin S /\ jobs'[j].lane = jobs[j].lane
        /\ jobs[j].lane # None /\ holder[jobs[j].lane] = j
    BY <2>1 DEF LaneInv, RunningHoldsLane, RunningIn
  <2>3. jobs[j].lane \in Lane
    BY <2>2 DEF LaneInv, TypeOK, JobRow
  <2>. QED BY <2>2, <2>3
<1>2. NoLeakedReservation'
  <2>1. SUFFICES ASSUME NEW l \in Lane, holder'[l] # None
                 PROVE  /\ jobs'[holder'[l]].status \in {"running", "expired"}
                        /\ jobs'[holder'[l]].lane = l
    BY DEF NoLeakedReservation
  <2>2. holder'[l] = holder[l] /\ holder[l] \in Job \ S
    BY <2>1 DEF LaneInv, TypeOK
  <2>. QED BY <2>1, <2>2 DEF LaneInv, NoLeakedReservation
<1>. QED BY <1>1, <1>2 DEF LaneInv

\* Failing running jobs and freeing their lanes.
LEMMA FailKeepsLaneInv ==
    ASSUME NEW S, NEW status \in {"succeeded", "failed"}, LaneInv, TypeOK',
           jobs' = Settle(jobs, S, status), ReleaseAll(S)
    PROVE  LaneInv'
<1>1. \A j \in Job : IF j \in S THEN jobs'[j].status = status ELSE jobs'[j] = jobs[j]
  BY SettleRows DEF LaneInv, TypeOK, JobStatus
<1>2. \A l \in Lane : holder'[l] = IF holder[l] \in S THEN None ELSE holder[l]
  BY DEF ReleaseAll, HolderWithout
<1>. QED BY <1>1, <1>2, ReleaseKeepsLaneInv

\* Steps that touch neither jobs nor reservations.
LEMMA UnchangedKeepsLaneInv ==
    ASSUME LaneInv, TypeOK', UNCHANGED <<jobs, holder>>
    PROVE  LaneInv'
BY DEF LaneInv, RunningHoldsLane, NoLeakedReservation, RunningIn

\* The end of a connection settles its running jobs and frees their lanes.
LEMMA SocketGoneKeepsLaneInv ==
    ASSUME NEW c \in Conn, LaneInv, TypeOK', HandleSocketGone(c)
    PROVE  LaneInv'
<1>1. CASE Current(c)
  BY <1>1, FailKeepsLaneInv DEF HandleSocketGone, FailConnectionJobs
<1>2. CASE ~Current(c)
  BY <1>2, UnchangedKeepsLaneInv DEF HandleSocketGone
<1>. QED BY <1>1, <1>2

\* Prune frees exactly the lanes of the rows it deletes.
LEMMA PruneKeepsLaneInv ==
    ASSUME LaneInv, TypeOK', Prune
    PROVE  LaneInv'
<1>. DEFINE S == Orphaned(jobs')
<1>1. \A l \in Lane : holder'[l] = IF holder[l] \in S THEN None ELSE holder[l]
  BY DEF Prune, ReleaseAll, HolderWithout
<1>2. \A j \in Job :
        \/ jobs'[j] = jobs[j]
        \/ jobs'[j] = NoRow("deleted")
        \/ /\ jobs[j].status = "running" /\ jobs'[j].status = "expired"
           /\ jobs'[j].lane = jobs[j].lane
  BY PrunedRows DEF Prune, LaneInv, TypeOK, Overdue, RunningIn
<1>3. \A j \in Job : j \in S <=> jobs'[j].status \in {"unused", "deleted"}
  BY DEF Orphaned, HasRow
<1>4. NoRow("deleted").status = "deleted"
  BY DEF NoRow
<1>. HIDE DEF S
<1>. QED BY <1>1, <1>2, <1>3, <1>4, ReleaseKeepsLaneInv

\* A placement takes a free lane; a failed send gives it back.
LEMMA CreateKeepsLaneInv ==
    ASSUME NEW j \in Job, NEW l \in Lane, NEW sent \in BOOLEAN,
           LaneInv, TypeOK', CreateTask(j, l, sent)
    PROVE  LaneInv'
<1>1. /\ jobs[j].status = "unused"
      /\ holder[l] = None
      /\ \A m \in Lane : m # l => holder'[m] = holder[m]
      /\ holder'[l] = IF sent THEN j ELSE None
  BY DEF CreateTask, Candidate, Unreserved, LaneInv, TypeOK
<1>2. \A i \in Job \ {j} : jobs'[i] = jobs[i]
  <2>. DEFINE placed == [jobs EXCEPT ![j] = PlacedRow(l)]
  <2>1. placed \in [Job -> JobRow]
    BY LimitsAssumption DEF PlacedRow, JobRow, JobStatus, Lane, LaneInv, TypeOK
  <2>2. \A i \in Job \ {j} : placed[i] = jobs[i]
    BY DEF LaneInv, TypeOK
  <2>3. jobs' = IF sent THEN placed ELSE Settle(placed, {j}, "failed")
    BY DEF CreateTask
  <2>. HIDE DEF placed
  <2>4. \A i \in Job \ {j} : Settle(placed, {j}, "failed")[i] = placed[i]
    BY <2>1 DEF Settle
  <2>. QED BY <2>2, <2>3, <2>4
<1>3. jobs'[j].status = (IF sent THEN "running" ELSE "failed") /\ (sent => jobs'[j].lane = l)
  <2>. DEFINE placed == [jobs EXCEPT ![j] = PlacedRow(l)]
  <2>1. placed \in [Job -> JobRow] /\ placed[j] = PlacedRow(l)
    BY LimitsAssumption DEF PlacedRow, JobRow, JobStatus, Lane, LaneInv, TypeOK
  <2>2. jobs' = IF sent THEN placed ELSE Settle(placed, {j}, "failed")
    BY DEF CreateTask
  <2>. HIDE DEF placed
  <2>3. Settle(placed, {j}, "failed")[j].status = "failed"
    BY <2>1, SettleRows, "failed" \in JobStatus DEF JobStatus, LaneInv, TypeOK
  <2>. QED BY <2>1, <2>2, <2>3 DEF PlacedRow
<1>4. \A m \in Lane : holder[m] # j
  BY <1>1, NoneAssumption DEF LaneInv, NoLeakedReservation
<1>5. l # None
  BY NoneAssumption
<1>6. RunningHoldsLane'
  <2>1. SUFFICES ASSUME NEW i \in Job, jobs'[i].status = "running"
                 PROVE  jobs'[i].lane # None /\ holder'[jobs'[i].lane] = i
    BY DEF RunningHoldsLane, RunningIn
  <2>2. CASE i = j
    BY <1>1, <1>3, <1>5, <2>1, <2>2
  <2>3. CASE i # j
    <3>1. jobs[i].lane # None /\ holder[jobs[i].lane] = i /\ jobs'[i] = jobs[i]
      BY <1>2, <2>1, <2>3 DEF LaneInv, RunningHoldsLane, RunningIn
    <3>2. jobs[i].lane \in Lane
      BY <3>1 DEF LaneInv, TypeOK, JobRow
    <3>3. i # None
      BY NoneAssumption
    <3>. QED BY <1>1, <3>1, <3>2, <3>3
  <2>. QED BY <2>2, <2>3
<1>7. NoLeakedReservation'
  <2>1. SUFFICES ASSUME NEW m \in Lane, holder'[m] # None
                 PROVE  /\ jobs'[holder'[m]].status \in {"running", "expired"}
                        /\ jobs'[holder'[m]].lane = m
    BY DEF NoLeakedReservation
  <2>2. CASE m = l
    BY <1>1, <1>3, <2>1, <2>2
  <2>3. CASE m # l
    BY <1>1, <1>2, <1>4, <2>1, <2>3 DEF LaneInv, NoLeakedReservation, TypeOK
  <2>. QED BY <2>2, <2>3
<1>. QED BY <1>6, <1>7 DEF LaneInv

\* A revocation prunes, then settles what runs for the token.
LEMMA RevokeKeepsLaneInv ==
    ASSUME NEW t \in Token, LaneInv, TypeOK', RevokeToken(t)
    PROVE  LaneInv'
<1>. DEFINE pruned == PrunedJobs(jobs)
<1>. DEFINE F == UNION {RunningOn(pruned, NodeOf(c), c) : c \in {d \in SocketsOf(t) : Current(d)}}
<1>1. /\ jobs' = Settle(pruned, F, "failed")
      /\ ReleaseAll(Orphaned(pruned) \cup F)
      /\ F \subseteq RunningIn(pruned)
  BY DEF RevokeToken, RunningOn
<1>. HIDE DEF F
<1>. DEFINE S == Orphaned(pruned) \cup F
<1>2. \A l \in Lane : holder'[l] = IF holder[l] \in S THEN None ELSE holder[l]
  BY <1>1 DEF ReleaseAll, HolderWithout
<1>3. /\ pruned \in [Job -> JobRow]
      /\ \A j \in Job :
        \/ pruned[j] = jobs[j]
        \/ pruned[j] = NoRow("deleted")
        \/ /\ jobs[j].status = "running" /\ pruned[j].status = "expired"
           /\ pruned[j].lane = jobs[j].lane
  BY PrunedRows DEF LaneInv, TypeOK, Overdue, RunningIn
<1>4. \A j \in Job : j \in Orphaned(pruned) <=> pruned[j].status \in {"unused", "deleted"}
  BY DEF Orphaned, HasRow
<1>5. NoRow("deleted").status = "deleted"
  BY DEF NoRow
<1>. HIDE DEF pruned
<1>6. \A j \in Job : IF j \in F THEN jobs'[j].status = "failed" ELSE jobs'[j] = pruned[j]
  BY <1>1, <1>3, SettleRows, "failed" \in JobStatus DEF LaneInv, TypeOK, JobStatus
<1>7. \A j \in Job : jobs'[j].status = "running" =>
         j \notin S /\ jobs[j].status = "running" /\ jobs'[j].lane = jobs[j].lane
  BY <1>3, <1>4, <1>5, <1>6
<1>8. \A j \in Job \ S : jobs[j].status \in {"running", "expired"} =>
         jobs'[j].status \in {"running", "expired"} /\ jobs'[j].lane = jobs[j].lane
  BY <1>3, <1>4, <1>5, <1>6
<1>. HIDE DEF S
<1>. QED BY <1>2, <1>7, <1>8, ReleaseKeepsLaneInv

\* At first nothing runs and nothing is reserved.
LEMMA InitLaneInv == Init => LaneInv
BY InitType DEF Init, LaneInv, RunningHoldsLane, NoLeakedReservation, RunningIn, NoRow

\* One step per action.
LEMMA NextLaneInv == LaneInv /\ [Next]_vars => LaneInv'
<1>. SUFFICES ASSUME LaneInv, [Next]_vars PROVE LaneInv'
  OBVIOUS
<1>0. TypeOK'
  BY NextType DEF LaneInv
<1>1. CASE \E c \in Conn, report \in Report : Heartbeat(c, report)
  <2>1. PICK c \in Conn, report \in Report : Heartbeat(c, report)
    BY <1>1
  <2>2. \A l \in Lane : \/ holder'[l] = holder[l]
                        \/ /\ holder'[l] = None
                           /\ holder[l] # None /\ jobs[holder[l]].status = "expired"
    BY <2>1 DEF Heartbeat, Quarantined
  <2>3. jobs' = jobs
    BY <2>1 DEF Heartbeat
  <2>4. RunningHoldsLane'
    <3>1. SUFFICES ASSUME NEW j \in Job, jobs[j].status = "running"
                   PROVE  jobs[j].lane # None /\ holder'[jobs[j].lane] = j
      BY <2>3 DEF RunningHoldsLane, RunningIn
    <3>2. jobs[j].lane # None /\ holder[jobs[j].lane] = j
      BY <3>1 DEF LaneInv, RunningHoldsLane, RunningIn
    <3>3. jobs[j].lane \in Lane
      BY <3>2 DEF LaneInv, TypeOK, JobRow
    <3>. QED BY <2>2, <3>1, <3>2, <3>3
  <2>5. NoLeakedReservation'
    BY <2>2, <2>3 DEF LaneInv, NoLeakedReservation
  <2>. QED BY <1>0, <2>4, <2>5 DEF LaneInv
<1>2. CASE \E c \in Conn, t \in Token : ConnectNode(c, t)
  <2>1. PICK c \in Conn, t \in Token : ConnectNode(c, t)
    BY <1>2
  <2>2. CASE connections[Binding[t]] = None
    BY <1>0, <2>1, <2>2, UnchangedKeepsLaneInv DEF ConnectNode
  <2>3. CASE connections[Binding[t]] # None
    <3>1. PICK S : FailConnectionJobs(S)
      BY <2>1, <2>3 DEF ConnectNode
    <3>. QED BY <1>0, <3>1, FailKeepsLaneInv DEF FailConnectionJobs
  <2>. QED BY <2>2, <2>3
<1>3. CASE \E c \in Conn : MessageUnauthorized(c)
  BY <1>0, <1>3, SocketGoneKeepsLaneInv DEF MessageUnauthorized
<1>4. CASE \E c \in Conn, j \in Job, outcome \in {"succeeded", "failed"} :
              ResultInTime(c, j, outcome)
  BY <1>0, <1>4, FailKeepsLaneInv DEF ResultInTime
<1>5. CASE \E c \in Conn, j \in Job : ResultLate(c, j)
  <2>1. PICK c \in Conn, j \in Job : ResultLate(c, j)
    BY <1>5
  <2>2. /\ jobs[j].status = "running"
        /\ jobs'[j].status = "expired" /\ jobs'[j].lane = jobs[j].lane
        /\ \A i \in Job \ {j} : jobs'[i] = jobs[i]
        /\ holder' = holder
    BY <2>1, SettleRows DEF ResultLate, Answers, LaneInv, TypeOK, JobStatus
  <2>. DEFINE S == {}
  <2>3. \A l \in Lane : holder'[l] = IF holder[l] \in S THEN None ELSE holder[l]
    BY <2>2
  <2>4. \A i \in Job : jobs'[i].status = "running" =>
           i \notin S /\ jobs[i].status = "running" /\ jobs'[i].lane = jobs[i].lane
    BY <2>2
  <2>5. \A i \in Job \ S : jobs[i].status \in {"running", "expired"} =>
           jobs'[i].status \in {"running", "expired"} /\ jobs'[i].lane = jobs[i].lane
    BY <2>2
  <2>. HIDE DEF S
  <2>. QED BY <1>0, <2>3, <2>4, <2>5, ReleaseKeepsLaneInv
<1>6. CASE \E c \in Conn : SocketGone(c)
  BY <1>0, <1>6, SocketGoneKeepsLaneInv DEF SocketGone
<1>7. CASE \E j \in Job, l \in Lane, sent \in BOOLEAN : CreateTask(j, l, sent)
  BY <1>0, <1>7, CreateKeepsLaneInv
<1>8. CASE ApiRequest \/ Alarm
  BY <1>0, <1>8, PruneKeepsLaneInv DEF ApiRequest, Alarm
<1>9. CASE \E t \in Token : RevokeToken(t)
  BY <1>0, <1>9, RevokeKeepsLaneInv
<1>10. CASE \/ \E c \in Conn : MessageSuperseded(c) \/ MessageMalformed(c) \/ PeerGone(c)
            \/ \E t \in Token : ExpireToken(t)
            \/ Restart \/ Tick \/ UNCHANGED vars
  BY <1>0, <1>10, UnchangedKeepsLaneInv
     DEF MessageSuperseded, MessageMalformed, PeerGone, ExpireToken, Restart, Tick, vars
<1>. QED BY <1>1, <1>2, <1>3, <1>4, <1>5, <1>6, <1>7, <1>8, <1>9, <1>10
         DEF Next, SilentNext

\* The invariant behind every theorem about lanes.
THEOREM LaneInvariant == Spec => []LaneInv
BY InitLaneInv, NextLaneInv, PTL DEF Spec

\* A running job owns its lane's reservation.
THEOREM RunningJobsHoldTheirLanes == Spec => []RunningHoldsLane
<1>1. LaneInv => RunningHoldsLane
  BY DEF LaneInv
<1>. QED BY <1>1, LaneInvariant, PTL

\* No reservation is held by a job that is finished, deleted or elsewhere.
THEOREM NoReservationLeaks == Spec => []NoLeakedReservation
<1>1. LaneInv => NoLeakedReservation
  BY DEF LaneInv
<1>. QED BY <1>1, LaneInvariant, PTL

\* The room never puts two jobs on one runtime, nor one in quarantine.
THEOREM LanesAreExclusive == Spec => []OneJobPerLane
<1>1. LaneInv => OneJobPerLane
  <2>1. SUFFICES ASSUME LaneInv, NEW i \in Job, NEW j \in Job, i # j,
                        jobs[i].status = "running",
                        \/ jobs[j].status = "running"
                        \/ j \in {holder[l] : l \in Lane}
                 PROVE  jobs[i].lane # jobs[j].lane
    BY DEF OneJobPerLane
  <2>2. holder[jobs[i].lane] = i
    BY <2>1 DEF LaneInv, RunningHoldsLane, RunningIn
  <2>3. holder[jobs[j].lane] = j
    BY <2>1, NoneAssumption DEF LaneInv, RunningHoldsLane, RunningIn, NoLeakedReservation
  <2>. QED BY <2>1, <2>2, <2>3
<1>. QED BY <1>1, LaneInvariant, PTL

-----------------------------------------------------------------------------
(* The alarm.  Only prune and a revocation that meets no current           *)
(* connection change jobs without setting the alarm again, and they start  *)
(* no job and move no deadline.                                            *)

AlarmInv == TypeOK /\ AlarmCoversDeadlines

\* Steps that set the alarm from the jobs they leave.
LEMMA ScheduledAlarmCovers ==
    ASSUME TypeOK', alarm' = NextAlarm(jobs')
    PROVE  AlarmInv'
BY NextAlarmCovers DEF AlarmInv, AlarmCoversDeadlines, TypeOK, RunningIn

\* Steps that leave the alarm alone, start no job and move no deadline.
LEMMA KeptAlarmCovers ==
    ASSUME AlarmInv, TypeOK', alarm' = alarm,
           \A j \in Job : jobs'[j].status = "running" => jobs'[j] = jobs[j]
    PROVE  AlarmInv'
BY DEF AlarmInv, AlarmCoversDeadlines, RunningIn

\* One step per action.
LEMMA NextAlarmInv == AlarmInv /\ [Next]_vars => AlarmInv'
<1>. SUFFICES ASSUME AlarmInv, [Next]_vars PROVE AlarmInv'
  OBVIOUS
<1>0. TypeOK'
  BY NextType DEF AlarmInv
<1>a. PrunedJobs(jobs) \in [Job -> JobRow] /\
      \A j \in Job : PrunedJobs(jobs)[j].status = "running" => PrunedJobs(jobs)[j] = jobs[j]
  BY PrunedRows DEF AlarmInv, TypeOK, NoRow
<1>b. ASSUME NEW c \in Conn, HandleSocketGone(c) PROVE AlarmInv'
  BY <1>0, <1>b, ScheduledAlarmCovers, KeptAlarmCovers
     DEF HandleSocketGone, FailConnectionJobs
<1>1. CASE \E c \in Conn, t \in Token : ConnectNode(c, t)
  BY <1>0, <1>1, ScheduledAlarmCovers, KeptAlarmCovers DEF ConnectNode, FailConnectionJobs
<1>2. CASE \E c \in Conn : MessageUnauthorized(c) \/ SocketGone(c)
  BY <1>2, <1>b DEF MessageUnauthorized, SocketGone
<1>3. CASE \E c \in Conn, j \in Job, outcome \in {"succeeded", "failed"} :
              ResultInTime(c, j, outcome)
  BY <1>0, <1>3, ScheduledAlarmCovers DEF ResultInTime
<1>4. CASE \E c \in Conn, j \in Job : ResultLate(c, j)
  BY <1>0, <1>4, ScheduledAlarmCovers DEF ResultLate
<1>5. CASE \E j \in Job, l \in Lane, sent \in BOOLEAN : CreateTask(j, l, sent)
  BY <1>0, <1>5, ScheduledAlarmCovers DEF CreateTask
<1>6. CASE ApiRequest
  BY <1>0, <1>6, <1>a, KeptAlarmCovers DEF ApiRequest, Prune
<1>7. CASE Alarm
  BY <1>0, <1>7, ScheduledAlarmCovers DEF Alarm
<1>8. CASE \E t \in Token : RevokeToken(t)
  <2>1. PICK t \in Token : RevokeToken(t)
    BY <1>8
  <2>. DEFINE active == {c \in SocketsOf(t) : Current(c)}
              failing == UNION {RunningOn(PrunedJobs(jobs), NodeOf(c), c) : c \in active}
  <2>2. CASE active = {}
    <3>1. failing = {}
      BY <2>2
    <3>2. jobs' = Settle(PrunedJobs(jobs), failing, "failed") /\ alarm' = alarm
      BY <2>1, <2>2 DEF RevokeToken
    <3>. HIDE DEF active, failing
    <3>3. \A j \in Job : jobs'[j] = PrunedJobs(jobs)[j]
      BY <3>1, <3>2, Zenon DEF Settle
    <3>. QED BY <1>0, <1>a, <3>2, <3>3, KeptAlarmCovers
  <2>3. CASE active # {}
    BY <1>0, <2>1, <2>3, ScheduledAlarmCovers DEF RevokeToken
  <2>. QED BY <2>2, <2>3
<1>9. CASE \/ \E c \in Conn, report \in Report : Heartbeat(c, report)
           \/ \E c \in Conn : MessageSuperseded(c) \/ MessageMalformed(c) \/ PeerGone(c)
           \/ \E t \in Token : ExpireToken(t)
           \/ Restart \/ Tick \/ UNCHANGED vars
  BY <1>0, <1>9, KeptAlarmCovers
     DEF Heartbeat, MessageSuperseded, MessageMalformed, PeerGone, ExpireToken, Restart,
         Tick, vars
<1>. QED BY <1>1, <1>2, <1>3, <1>4, <1>5, <1>6, <1>7, <1>8, <1>9 DEF Next, SilentNext

\* The alarm never comes after the deadline of a running job.
THEOREM AlarmIsInTime == Spec => []AlarmCoversDeadlines
<1>1. Init => AlarmInv
  BY InitType DEF Init, AlarmInv, AlarmCoversDeadlines, RunningIn, NoRow
<1>2. AlarmInv => AlarmCoversDeadlines
  BY DEF AlarmInv
<1>. QED BY <1>1, <1>2, NextAlarmInv, PTL DEF Spec
-----------------------------------------------------------------------------
(* What one step does to one job.                                          *)

Ended == {"succeeded", "failed", "expired"}

Stays(j) == jobs'[j] = jobs[j]

LosesRow(j) == jobs[j].status \in Ended /\ jobs'[j] = NoRow("deleted")

Starts(j) ==
    /\ jobs[j].status = "unused"
    /\ jobs'[j].status \in {"running", "failed"}

Ends(j) ==
    /\ jobs[j].status = "running"
    /\ jobs'[j].completed = now
    /\ jobs'[j].lane = jobs[j].lane /\ jobs'[j].conn = jobs[j].conn
    /\ jobs'[j].deadline = jobs[j].deadline
    /\ \/ jobs'[j].status = "failed"
       \/ jobs'[j].status = "succeeded" /\ now < jobs[j].deadline
       \/ jobs'[j].status = "expired" /\ now >= jobs[j].deadline

Moves(j) == Stays(j) \/ LosesRow(j) \/ Starts(j) \/ Ends(j)

\* Running jobs of S fail.
LEMMA FailingMoves ==
    ASSUME NEW S, TypeOK, jobs' = Settle(jobs, S, "failed"), S \subseteq RunningIn(jobs)
    PROVE  \A j \in Job : Moves(j)
<1>1. "failed" \in JobStatus /\ jobs \in [Job -> JobRow] /\ now \in Nat
  BY DEF JobStatus, TypeOK
<1>2. \A j \in Job : j \in S => jobs[j].status = "running"
  BY DEF RunningIn
<1>. QED BY <1>1, <1>2, SettleRows DEF Moves, Stays, Ends

\* Overdue jobs expire, old ones lose their row.
LEMMA PruneMoves ==
    ASSUME TypeOK, jobs' = PrunedJobs(jobs)
    PROVE  \A j \in Job : Moves(j)
<1>1. jobs \in [Job -> JobRow] /\ now \in Nat
  BY DEF TypeOK
<1>2. \A j \in Overdue(jobs) : jobs[j].status = "running" /\ now >= jobs[j].deadline
  BY <1>1 DEF Overdue, RunningIn, JobRow
<1>. QED BY <1>1, <1>2, PrunedRows DEF Moves, Stays, LosesRow, Ends, Ended

\* The end of a connection fails its running jobs.
LEMMA SocketGoneMoves ==
    ASSUME NEW c \in Conn, TypeOK, HandleSocketGone(c)
    PROVE  \A j \in Job : Moves(j)
<1>1. CASE Current(c)
  BY <1>1, FailingMoves DEF HandleSocketGone, FailConnectionJobs, RunningOn
<1>2. CASE ~Current(c)
  BY <1>2 DEF HandleSocketGone, Moves, Stays
<1>. QED BY <1>1, <1>2

\* A placement starts one job.
LEMMA CreateMoves ==
    ASSUME NEW j \in Job, NEW l \in Lane, NEW sent \in BOOLEAN, TypeOK, CreateTask(j, l, sent)
    PROVE  /\ \A i \in Job \ {j} : Stays(i)
           /\ Starts(j)
           /\ sent => jobs'[j] = PlacedRow(l)
           /\ ~sent => jobs'[j].status = "failed"
<1>. DEFINE placed == [jobs EXCEPT ![j] = PlacedRow(l)]
<1>1. /\ placed \in [Job -> JobRow] /\ placed[j] = PlacedRow(l)
      /\ \A i \in Job \ {j} : placed[i] = jobs[i]
  BY LimitsAssumption DEF PlacedRow, JobRow, JobStatus, Lane, TypeOK
<1>2. jobs' = IF sent THEN placed ELSE Settle(placed, {j}, "failed")
  BY DEF CreateTask
<1>3. jobs[j].status = "unused"
  BY DEF CreateTask
<1>. HIDE DEF placed
<1>4. /\ Settle(placed, {j}, "failed")[j].status = "failed"
      /\ \A i \in Job \ {j} : Settle(placed, {j}, "failed")[i] = placed[i]
  BY <1>1, SettleRows, "failed" \in JobStatus DEF JobStatus, TypeOK
<1>5. PlacedRow(l).status = "running"
  BY DEF PlacedRow
<1>. QED BY <1>1, <1>2, <1>3, <1>4, <1>5 DEF Starts, Stays

\* A revocation prunes first, so an overdue job expires and does not fail.
LEMMA RevokeMoves ==
    ASSUME NEW t \in Token, TypeOK, RevokeToken(t)
    PROVE  \A j \in Job : Moves(j)
<1>. DEFINE pruned == PrunedJobs(jobs)
            F == UNION {RunningOn(pruned, NodeOf(c), c) : c \in {d \in SocketsOf(t) : Current(d)}}
<1>1. jobs' = Settle(pruned, F, "failed") /\ F \subseteq RunningIn(pruned)
  BY DEF RevokeToken, RunningOn
<1>2. /\ jobs \in [Job -> JobRow] /\ now \in Nat
      /\ \A j \in Overdue(jobs) : jobs[j].status = "running" /\ now >= jobs[j].deadline
  BY DEF TypeOK, Overdue, RunningIn, JobRow
<1>3. pruned \in [Job -> JobRow]
  BY <1>2, PrunedRows
<1>4. \A j \in Job :
        \/ pruned[j] = jobs[j] /\ j \notin Overdue(jobs)
        \/ jobs[j].status \in Ended /\ pruned[j] = NoRow("deleted")
        \/ /\ jobs[j].status = "running" /\ now >= jobs[j].deadline
           /\ pruned[j].status = "expired" /\ pruned[j].completed = now
           /\ pruned[j].lane = jobs[j].lane /\ pruned[j].conn = jobs[j].conn
           /\ pruned[j].deadline = jobs[j].deadline
  BY <1>2, PrunedRows DEF Ended
<1>5. \A j \in F : pruned[j].status = "running"
  BY <1>1 DEF RunningIn
<1>. HIDE DEF pruned, F
<1>6. \A j \in Job : IF j \in F
                     THEN /\ jobs'[j].status = "failed" /\ jobs'[j].completed = now
                          /\ jobs'[j].lane = pruned[j].lane /\ jobs'[j].conn = pruned[j].conn
                          /\ jobs'[j].deadline = pruned[j].deadline
                     ELSE jobs'[j] = pruned[j]
  BY <1>1, <1>2, <1>3, SettleRows, "failed" \in JobStatus DEF JobStatus
<1>7. NoRow("deleted").status = "deleted"
  BY DEF NoRow
<1>. QED BY <1>4, <1>5, <1>6, <1>7 DEF Moves, Stays, LosesRow, Ends

\* What any step does to any job.
LEMMA JobMoves == TypeOK /\ [Next]_vars => \A j \in Job : Moves(j)
<1>. SUFFICES ASSUME TypeOK, [Next]_vars PROVE \A j \in Job : Moves(j)
  OBVIOUS
<1>1. CASE \E c \in Conn, t \in Token : ConnectNode(c, t)
  <2>1. PICK c \in Conn, t \in Token : ConnectNode(c, t)
    BY <1>1
  <2>2. CASE UNCHANGED jobs
    BY <2>2 DEF Moves, Stays
  <2>3. CASE FailConnectionJobs(RunningOn(jobs, Binding[t], connections[Binding[t]]))
    BY <2>3, FailingMoves DEF FailConnectionJobs, RunningOn
  <2>. QED BY <2>1, <2>2, <2>3 DEF ConnectNode
<1>2. CASE \E c \in Conn : MessageUnauthorized(c) \/ SocketGone(c)
  BY <1>2, SocketGoneMoves DEF MessageUnauthorized, SocketGone
<1>3. CASE \E c \in Conn, j \in Job, outcome \in {"succeeded", "failed"} :
              ResultInTime(c, j, outcome)
  <2>1. PICK c \in Conn, j \in Job, outcome \in {"succeeded", "failed"} :
              ResultInTime(c, j, outcome)
    BY <1>3
  <2>2. jobs[j].status = "running" /\ now < jobs[j].deadline /\ jobs' = Settle(jobs, {j}, outcome)
    BY <2>1 DEF ResultInTime, Answers, InTime
  <2>3. jobs \in [Job -> JobRow] /\ now \in Nat /\ outcome \in JobStatus
    BY DEF TypeOK, JobStatus
  <2>. QED BY <2>2, <2>3, SettleRows DEF Moves, Stays, Ends
<1>4. CASE \E c \in Conn, j \in Job : ResultLate(c, j)
  <2>1. PICK c \in Conn, j \in Job : ResultLate(c, j)
    BY <1>4
  <2>2. /\ jobs \in [Job -> JobRow] /\ now \in Nat /\ "expired" \in JobStatus
        /\ jobs[j].deadline \in Nat
    BY DEF TypeOK, JobStatus, JobRow
  <2>3. jobs[j].status = "running" /\ now >= jobs[j].deadline /\ jobs' = Settle(jobs, {j}, "expired")
    BY <2>1, <2>2 DEF ResultLate, Answers, InTime
  <2>. QED BY <2>2, <2>3, SettleRows DEF Moves, Stays, Ends
<1>5. CASE \E j \in Job, l \in Lane, sent \in BOOLEAN : CreateTask(j, l, sent)
  BY <1>5, CreateMoves DEF Moves
<1>6. CASE ApiRequest \/ Alarm
  BY <1>6, PruneMoves DEF ApiRequest, Alarm, Prune
<1>7. CASE \E t \in Token : RevokeToken(t)
  BY <1>7, RevokeMoves
<1>8. CASE \/ \E c \in Conn, report \in Report : Heartbeat(c, report)
           \/ \E c \in Conn : MessageSuperseded(c) \/ MessageMalformed(c) \/ PeerGone(c)
           \/ \E t \in Token : ExpireToken(t)
           \/ Restart \/ Tick \/ UNCHANGED vars
  BY <1>8 DEF Heartbeat, MessageSuperseded, MessageMalformed, PeerGone, ExpireToken, Restart,
              Tick, vars, Moves, Stays
<1>. QED BY <1>1, <1>2, <1>3, <1>4, <1>5, <1>6, <1>7, <1>8 DEF Next, SilentNext

\* A job is settled once: no later result, alarm, disconnect or prune gives it another
\* outcome (recordResult, finishJob, prune).
THEOREM JobsSettleOnce == Spec => SettledOnce
<1>1. TypeOK /\ [Next]_vars =>
        [\A j \in Job :
            jobs[j].status \in {"succeeded", "failed", "expired"}
                => jobs'[j] = jobs[j] \/ jobs'[j].status = "deleted"]_vars
  BY JobMoves DEF Moves, Stays, LosesRow, Starts, Ends, Ended, NoRow
<1>. QED BY <1>1, TypeCorrect, PTL DEF Spec, SettledOnce

-----------------------------------------------------------------------------
(* The deadline.                                                           *)

\* A timed-out job was timed out by now.
TimedOut ==
    \A j \in Job : jobs[j].status = "expired" => jobs[j].completed \in Nat /\ jobs[j].completed <= now

TimeInv == TypeOK /\ DeadlineDecides /\ TimedOut

\* A job that ends is compared with its deadline in that step.
LEMMA NextTimeInv == TimeInv /\ [Next]_vars => TimeInv'
<1>. SUFFICES ASSUME TimeInv, [Next]_vars PROVE TimeInv'
  OBVIOUS
<1>1. TypeOK' /\ \A j \in Job : Moves(j)
  BY NextType, JobMoves DEF TimeInv
<1>2. now' \in Nat /\ now' >= now /\ now \in Nat
  <2>1. now' = now \/ now' = now + 1
    BY DEF Next, SilentNext, Heartbeat, ConnectNode, MessageUnauthorized, MessageSuperseded,
       MessageMalformed, ResultInTime, ResultLate, PeerGone, SocketGone, CreateTask, ApiRequest,
       Alarm, RevokeToken, ExpireToken, Restart, Tick, vars
  <2>. QED BY <2>1 DEF TimeInv, TypeOK
<1>3. NoRow("deleted").status = "deleted"
  BY DEF NoRow
<1>4. ASSUME NEW j \in Job
      PROVE  /\ jobs'[j].status = "succeeded" => jobs'[j].completed < jobs'[j].deadline
             /\ jobs'[j].status = "expired" => jobs'[j].completed >= jobs'[j].deadline
             /\ jobs'[j].status = "expired" =>
                   jobs'[j].completed \in Nat /\ jobs'[j].completed <= now'
  <2>1. CASE Stays(j)
    BY <1>2, <2>1 DEF Stays, TimeInv, DeadlineDecides, TimedOut
  <2>2. CASE LosesRow(j) \/ Starts(j)
    BY <1>3, <2>2 DEF LosesRow, Starts
  <2>3. CASE Ends(j)
    BY <1>2, <2>3 DEF Ends
  <2>. QED BY <1>1, <2>1, <2>2, <2>3 DEF Moves
<1>. QED BY <1>1, <1>4 DEF TimeInv, DeadlineDecides, TimedOut

\* The invariant behind DeadlinesDecide.
LEMMA TimeInvariant == Spec => []TimeInv
<1>1. Init => TimeInv
  BY InitType DEF Init, TimeInv, DeadlineDecides, TimedOut, NoRow
<1>. QED BY <1>1, NextTimeInv, PTL DEF Spec

\* A job that succeeded was settled before its deadline and one that expired was not,
\* whichever of result, alarm and prune came first.
THEOREM DeadlinesDecide == Spec => []DeadlineDecides
<1>1. TimeInv => DeadlineDecides
  BY DEF TimeInv
<1>. QED BY <1>1, TimeInvariant, PTL

-----------------------------------------------------------------------------
(* The connection a job runs on.                                           *)

SocketsAreBound == \A c \in Conn : socket[c] # "unused" => attachment[c] \in Token

\* A connections row names a socket that was opened for that node.
RowsAreOwn ==
    \A n \in Node : connections[n] # None =>
        socket[connections[n]] # "unused" /\ NodeOf(connections[n]) = n

\* A running job is on a lane of its connection's node.
RunsAtItsNode ==
    \A j \in RunningIn(jobs) :
        jobs[j].conn # None /\ jobs[j].lane # None /\ NodeOf(jobs[j].conn) = jobs[j].lane[1]

ConnInv == /\ TypeOK /\ SocketsAreBound /\ RowsAreOwn /\ RunsAtItsNode
           /\ RunningOnCurrentConnection /\ NoWorkForRevokedToken

\* A job that runs on ran before, in the same row, unless it was just created.
LEMMA RanBefore ==
    ASSUME NEW j \in Job, Moves(j), jobs'[j].status = "running"
    PROVE  Stays(j) \/ Starts(j)
BY DEF Moves, LosesRow, Ends, NoRow

\* The shape of the steps that create no job and open no socket: connections lose rows
\* only with their jobs, tokens of running jobs are not revoked.
LEMMA KeepsConnInv ==
    ASSUME ConnInv, TypeOK', UNCHANGED attachment,
           \A c \in Conn : socket[c] = "unused" <=> socket'[c] = "unused",
           \A c \in Conn : c \in Live' => c \in Live,
           \A n \in Node : connections'[n] \in {connections[n], None},
           \A j \in Job : jobs'[j].status = "running" =>
               /\ jobs'[j] = jobs[j]
               /\ connections'[NodeOf(jobs[j].conn)] = connections[NodeOf(jobs[j].conn)]
               /\ \/ tokenState'[attachment[jobs[j].conn]] # "revoked"
                  \/ tokenState[attachment[jobs[j].conn]] = "revoked"
                  \/ jobs[j].conn \notin Live
    PROVE  ConnInv'
<1>1. SocketsAreBound'
  BY DEF ConnInv, SocketsAreBound
<1>2. RowsAreOwn'
  BY DEF ConnInv, RowsAreOwn, NodeOf, TypeOK
<1>3. \A j \in RunningIn(jobs)' : /\ j \in RunningIn(jobs) /\ jobs'[j] = jobs[j]
                                 /\ jobs[j].conn \in Conn
  BY DEF RunningIn, ConnInv, RunsAtItsNode, TypeOK, JobRow
<1>4. RunsAtItsNode'
  BY <1>3 DEF ConnInv, RunsAtItsNode, NodeOf
<1>5. RunningOnCurrentConnection'
  BY <1>3 DEF ConnInv, RunningOnCurrentConnection, Current, NodeOf, RunningIn
<1>6. NoWorkForRevokedToken'
  BY <1>3 DEF ConnInv, NoWorkForRevokedToken, RunningIn
<1>. QED BY <1>1, <1>2, <1>4, <1>5, <1>6 DEF ConnInv

\* The end of a current connection ends the work that ran on it.
LEMMA SocketGoneKeepsConnInv ==
    ASSUME NEW c \in Conn, NEW to \in {"closing", "closed"}, ConnInv, TypeOK', c \in Live,
           HandleSocketGone(c),
           socket' = [socket EXCEPT ![c] = to], UNCHANGED <<attachment, tokenState>>
    PROVE  ConnInv'
<1>1. \A j \in Job : Moves(j)
  BY SocketGoneMoves DEF ConnInv
<1>2. /\ \A d \in Conn : socket[d] = "unused" <=> socket'[d] = "unused"
      /\ \A d \in Conn : d \in Live' => d \in Live
  BY DEF Live, ConnInv, TypeOK
<1>3. CASE ~Current(c)
  BY <1>2, <1>3, KeepsConnInv DEF HandleSocketGone
<1>4. CASE Current(c)
  <2>1. /\ connections' = [connections EXCEPT ![NodeOf(c)] = None]
        /\ jobs' = Settle(jobs, RunningOn(jobs, NodeOf(c), c), "failed")
    BY <1>4 DEF HandleSocketGone, FailConnectionJobs
  <2>2. \A n \in Node : connections'[n] \in {connections[n], None}
    BY <2>1 DEF ConnInv, TypeOK
  <2>3. ASSUME NEW j \in Job, jobs'[j].status = "running"
        PROVE  /\ jobs'[j] = jobs[j]
               /\ connections'[NodeOf(jobs[j].conn)] = connections[NodeOf(jobs[j].conn)]
    <3>1. j \notin RunningOn(jobs, NodeOf(c), c) /\ jobs'[j] = jobs[j]
      BY <2>1, <2>3, SettleRows DEF ConnInv, TypeOK, JobStatus
    <3>2. /\ jobs[j].conn \in Conn /\ Current(jobs[j].conn)
          /\ NodeOf(jobs[j].conn) = jobs[j].lane[1]
      BY <2>3, <3>1 DEF ConnInv, RunsAtItsNode, RunningOnCurrentConnection, RunningIn, TypeOK, JobRow
    <3>3. NodeOf(jobs[j].conn) # NodeOf(c)
      BY <1>4, <2>3, <3>1, <3>2 DEF RunningOn, RunningIn, Current
    <3>. QED BY <2>1, <3>1, <3>3 DEF ConnInv, TypeOK
  <2>. QED BY <1>2, <2>2, <2>3, KeepsConnInv
<1>. QED BY <1>3, <1>4

\* A revocation ends the work of each current connection of its token.
LEMMA RevokeKeepsConnInv ==
    ASSUME NEW t \in Token, ConnInv, TypeOK', RevokeToken(t)
    PROVE  ConnInv'
<1>. DEFINE pruned == PrunedJobs(jobs)
            mine == SocketsOf(t)
            active == {c \in mine : Current(c)}
            F == UNION {RunningOn(pruned, NodeOf(c), c) : c \in active}
<1>1. /\ jobs' = Settle(pruned, F, "failed")
      /\ connections' = [n \in Node |-> IF connections[n] \in active THEN None ELSE connections[n]]
      /\ socket' = [c \in Conn |-> IF c \in mine THEN "closing" ELSE socket[c]]
      /\ tokenState' = [tokenState EXCEPT ![t] = "revoked"]
      /\ UNCHANGED attachment
  BY DEF RevokeToken
<1>2. mine \subseteq Live
  BY DEF SocketsOf
<1>3. /\ \A d \in Conn : socket[d] = "unused" <=> socket'[d] = "unused"
      /\ \A d \in Conn : d \in Live' => d \in Live
  BY <1>1, <1>2 DEF Live
<1>4. pruned \in [Job -> JobRow] /\ \A j \in Job : pruned[j].status = "running" => pruned[j] = jobs[j]
  BY PrunedRows DEF ConnInv, TypeOK, NoRow
<1>5. ASSUME NEW j \in Job, jobs'[j].status = "running"
      PROVE  /\ jobs'[j] = jobs[j] /\ j \in RunningIn(jobs) /\ jobs[j].conn \in Conn
             /\ connections'[NodeOf(jobs[j].conn)] = connections[NodeOf(jobs[j].conn)]
             /\ jobs[j].conn \notin active
  <2>1. j \notin F /\ jobs'[j] = pruned[j] /\ pruned[j] = jobs[j]
    BY <1>1, <1>4, <1>5, SettleRows, "failed" \in JobStatus DEF JobStatus, ConnInv, TypeOK
  <2>2. /\ j \in RunningIn(jobs) /\ jobs[j].conn \in Conn /\ Current(jobs[j].conn)
        /\ NodeOf(jobs[j].conn) = jobs[j].lane[1] /\ NodeOf(jobs[j].conn) \in Node
        /\ j \in RunningIn(pruned)
    <3>1. j \in RunningIn(jobs) /\ j \in RunningIn(pruned)
      BY <1>5, <2>1 DEF RunningIn
    <3>2. /\ jobs[j].conn \in Conn /\ Current(jobs[j].conn)
          /\ NodeOf(jobs[j].conn) = jobs[j].lane[1]
          /\ jobs[j].lane \in Lane
      BY <3>1 DEF ConnInv, RunsAtItsNode, RunningOnCurrentConnection, TypeOK, JobRow
    <3>. QED BY <3>1, <3>2 DEF Lane
  <2>3. jobs[j].conn \notin active
    BY <2>1, <2>2 DEF RunningOn
  <2>4. connections[NodeOf(jobs[j].conn)] = jobs[j].conn
    BY <2>2 DEF Current
  <2>. HIDE DEF active, F, pruned, mine
  <2>. QED BY <1>1, <2>1, <2>2, <2>3, <2>4
<1>6. ASSUME NEW j \in Job, jobs'[j].status = "running"
      PROVE  \/ tokenState'[attachment[jobs[j].conn]] # "revoked"
             \/ tokenState[attachment[jobs[j].conn]] = "revoked"
             \/ jobs[j].conn \notin Live
  <2>1. jobs[j].conn \in Conn /\ Current(jobs[j].conn)
    BY <1>5, <1>6 DEF ConnInv, RunningOnCurrentConnection
  <2>2. CASE attachment[jobs[j].conn] = t
    BY <1>5, <1>6, <2>1, <2>2 DEF SocketsOf
  <2>3. CASE attachment[jobs[j].conn] # t
    BY <1>1, <2>3 DEF ConnInv, TypeOK
  <2>. QED BY <2>2, <2>3
<1>7. \A n \in Node : connections'[n] \in {connections[n], None}
  BY <1>1
<1>. HIDE DEF active, F, pruned, mine
<1>. QED BY <1>1, <1>3, <1>5, <1>6, <1>7, KeepsConnInv

\* A new connection ends the work of the one it replaces.
LEMMA ConnectKeepsConnInv ==
    ASSUME NEW c \in Conn, NEW t \in Token, ConnInv, TypeOK', ConnectNode(c, t)
    PROVE  ConnInv'
<1>. DEFINE n == Binding[t]
            old == connections[n]
<1>1. /\ n \in Node /\ socket[c] = "unused" /\ tokenState[t] = "active"
      /\ socket' = [d \in Conn |-> IF d = c THEN "open"
                                   ELSE IF d = old /\ d \in Live THEN "closing" ELSE socket[d]]
      /\ attachment' = [attachment EXCEPT ![c] = t]
      /\ connections' = [connections EXCEPT ![n] = c]
      /\ UNCHANGED tokenState
  BY BindingAssumption DEF ConnectNode
<1>2. /\ attachment'[c] = t /\ NodeOf(c)' = n /\ connections'[n] = c /\ socket'[c] = "open"
      /\ \A d \in Conn \ {c} : /\ attachment'[d] = attachment[d] /\ NodeOf(d)' = NodeOf(d)
                               /\ socket[d] # "unused" <=> socket'[d] # "unused"
                               /\ d \in Live' => d \in Live
      /\ \A m \in Node \ {n} : connections'[m] = connections[m]
  BY <1>1 DEF ConnInv, TypeOK, NodeOf, Live
<1>3. ASSUME NEW j \in Job, jobs'[j].status = "running"
      PROVE  /\ jobs'[j] = jobs[j] /\ j \in RunningIn(jobs)
             /\ jobs[j].conn \in Conn \ {c} /\ NodeOf(jobs[j].conn) \in Node \ {n}
  <2>1. jobs'[j] = jobs[j]
    <3>1. CASE UNCHANGED jobs
      BY <3>1
    <3>2. CASE FailConnectionJobs(RunningOn(jobs, n, old))
      BY <1>3, <3>2, SettleRows DEF ConnInv, TypeOK, JobStatus, FailConnectionJobs
    <3>. QED BY <3>1, <3>2 DEF ConnectNode
  <2>2. /\ j \in RunningIn(jobs) /\ jobs[j].conn \in Conn /\ Current(jobs[j].conn)
        /\ jobs[j].lane \in Lane /\ NodeOf(jobs[j].conn) = jobs[j].lane[1]
    BY <1>3, <2>1 DEF ConnInv, RunsAtItsNode, RunningOnCurrentConnection, RunningIn, TypeOK, JobRow
  <2>3. NodeOf(jobs[j].conn) \in Node
    BY <2>2 DEF Lane
  <2>4. socket[jobs[j].conn] # "unused"
    BY <2>2, <2>3, NoneAssumption DEF Current, ConnInv, RowsAreOwn
  <2>5. NodeOf(jobs[j].conn) # n
    <3>1. SUFFICES ASSUME NodeOf(jobs[j].conn) = n PROVE FALSE
      OBVIOUS
    <3>2. old = jobs[j].conn /\ old # None
      BY <2>2, <3>1, NoneAssumption DEF Current
    <3>3. j \in RunningOn(jobs, n, old)
      BY <2>2, <3>1, <3>2 DEF RunningOn
    <3>4. jobs' = Settle(jobs, RunningOn(jobs, n, old), "failed")
      BY <3>2 DEF ConnectNode, FailConnectionJobs
    <3>5. jobs'[j].status = "failed"
      BY <3>3, <3>4, SettleRows, "failed" \in JobStatus DEF ConnInv, TypeOK, JobStatus
    <3>. QED BY <1>3, <3>5
  <2>. QED BY <1>1, <2>1, <2>2, <2>3, <2>4, <2>5
<1>. HIDE DEF n, old
<1>4. SocketsAreBound'
  BY <1>1, <1>2 DEF ConnInv, SocketsAreBound
<1>5. RowsAreOwn'
  <2>1. SUFFICES ASSUME NEW m \in Node, connections'[m] # None
                 PROVE  /\ socket'[connections'[m]] # "unused"
                        /\ Binding[attachment'[connections'[m]]] = m
    BY DEF RowsAreOwn, NodeOf
  <2>2. CASE m = n
    BY <1>2, <2>2 DEF NodeOf
  <2>3. CASE m # n
    <3>1. connections'[m] = connections[m] /\ connections[m] \in Conn \ {c}
      BY <1>1, <1>2, <2>1, <2>3 DEF ConnInv, TypeOK, RowsAreOwn
    <3>2. socket[connections[m]] # "unused" /\ NodeOf(connections[m]) = m
      BY <2>1, <3>1 DEF ConnInv, RowsAreOwn
    <3>. QED BY <1>2, <3>1, <3>2 DEF NodeOf
  <2>. QED BY <2>2, <2>3
<1>6. \A j \in RunningIn(jobs)' : j \in Job /\ jobs'[j].status = "running"
  BY DEF RunningIn
<1>7. RunsAtItsNode'
  BY <1>2, <1>3, <1>6 DEF ConnInv, RunsAtItsNode, NodeOf
<1>8. RunningOnCurrentConnection'
  BY <1>2, <1>3, <1>6, NoneAssumption DEF ConnInv, RunningOnCurrentConnection, Current, NodeOf
<1>9. NoWorkForRevokedToken'
  BY <1>1, <1>2, <1>3, <1>6 DEF ConnInv, NoWorkForRevokedToken
<1>. QED BY <1>4, <1>5, <1>7, <1>8, <1>9 DEF ConnInv

\* A placement runs on the current connection, whose token is active.
LEMMA CreateKeepsConnInv ==
    ASSUME NEW j \in Job, NEW l \in Lane, NEW sent \in BOOLEAN, ConnInv, TypeOK',
           CreateTask(j, l, sent)
    PROVE  ConnInv'
<1>1. UNCHANGED <<tokenState, socket, attachment, connections>>
  BY DEF CreateTask
<1>2. /\ \A i \in Job \ {j} : jobs'[i] = jobs[i]
      /\ jobs'[j].status = "running" => jobs'[j] = PlacedRow(l)
  BY CreateMoves DEF ConnInv, Stays
<1>. DEFINE c == connections[l[1]]
<1>3. /\ c \in Conn /\ NodeOf(c) = l[1] /\ l # None /\ l[1] \in Node
      /\ tokenState[attachment[c]] = "active"
  BY NoneAssumption DEF CreateTask, Candidate, Dispatchable, AuthorizedNode, ConnInv, TypeOK, Lane
<1>4. PlacedRow(l).conn = c /\ PlacedRow(l).lane = l
  BY DEF PlacedRow
<1>5. SocketsAreBound' /\ RowsAreOwn'
  BY <1>1 DEF ConnInv, SocketsAreBound, RowsAreOwn, NodeOf
<1>6. \A i \in Job : jobs'[i].status = "running" =>
         \/ jobs[i].status = "running" /\ jobs'[i] = jobs[i]
         \/ jobs'[i].conn = c /\ jobs'[i].lane = l
  BY <1>2, <1>4
<1>7. c # None
  BY <1>3, NoneAssumption
<1>. HIDE DEF c
<1>8. RunsAtItsNode'
  BY <1>1, <1>3, <1>6, <1>7 DEF ConnInv, RunsAtItsNode, NodeOf, RunningIn
<1>9. RunningOnCurrentConnection'
  BY <1>1, <1>3, <1>6, <1>7 DEF ConnInv, RunningOnCurrentConnection, Current, NodeOf, RunningIn, c
<1>10. NoWorkForRevokedToken'
  BY <1>1, <1>3, <1>6 DEF ConnInv, NoWorkForRevokedToken, RunningIn, Live
<1>. QED BY <1>5, <1>8, <1>9, <1>10 DEF ConnInv

\* One step per action.
LEMMA NextConnInv == ConnInv /\ [Next]_vars => ConnInv'
<1>. SUFFICES ASSUME ConnInv, [Next]_vars PROVE ConnInv'
  OBVIOUS
<1>0. TypeOK' /\ (\A j \in Job : Moves(j))
  BY NextType, JobMoves DEF ConnInv
<1>1. CASE \E c \in Conn, t \in Token : ConnectNode(c, t)
  BY <1>0, <1>1, ConnectKeepsConnInv
<1>2. CASE \E c \in Conn : MessageUnauthorized(c) \/ SocketGone(c)
  BY <1>0, <1>2, SocketGoneKeepsConnInv DEF MessageUnauthorized, SocketGone, Live
<1>3. CASE \E j \in Job, l \in Lane, sent \in BOOLEAN : CreateTask(j, l, sent)
  BY <1>0, <1>3, CreateKeepsConnInv
<1>4. CASE \E t \in Token : RevokeToken(t)
  BY <1>0, <1>4, RevokeKeepsConnInv
<1>. DEFINE Quiet ==
       /\ UNCHANGED <<attachment, connections>>
       /\ \A j \in Job : Moves(j) /\ ~Starts(j)
       /\ \A c \in Conn : socket[c] = "unused" <=> socket'[c] = "unused"
       /\ \A c \in Conn : c \in Live' => c \in Live
       /\ \A t \in Token : tokenState'[t] = "revoked" => tokenState[t] = "revoked"
<1>5. ASSUME Quiet PROVE ConnInv'
  <2>1. ASSUME NEW j \in Job, jobs'[j].status = "running"
        PROVE  /\ jobs'[j] = jobs[j]
               /\ \/ tokenState'[attachment[jobs[j].conn]] # "revoked"
                  \/ tokenState[attachment[jobs[j].conn]] = "revoked"
    <3>1. jobs'[j] = jobs[j]
      BY <1>5, <2>1, RanBefore DEF Stays
    <3>2. attachment[jobs[j].conn] \in Token
      <4>1. jobs[j].conn \in Conn /\ jobs[j].lane \in Lane
            /\ NodeOf(jobs[j].conn) = jobs[j].lane[1] /\ connections[jobs[j].lane[1]] = jobs[j].conn
        BY <2>1, <3>1 DEF ConnInv, RunsAtItsNode, RunningOnCurrentConnection, Current, RunningIn,
                          TypeOK, JobRow
      <4>2. jobs[j].lane[1] \in Node
        BY <4>1 DEF Lane
      <4>. QED BY <4>1, <4>2, NoneAssumption DEF ConnInv, RowsAreOwn, SocketsAreBound
    <3>. QED BY <1>5, <3>1, <3>2
  <2>. QED BY <1>0, <1>5, <2>1, KeepsConnInv
<1>6. CASE \/ \E c \in Conn, report \in Report : Heartbeat(c, report)
           \/ \E c \in Conn : MessageSuperseded(c) \/ MessageMalformed(c) \/ PeerGone(c)
           \/ \E t \in Token : ExpireToken(t)
           \/ Restart \/ Tick \/ UNCHANGED vars
  <2>1. UNCHANGED <<attachment, connections, jobs>>
    BY <1>6 DEF Heartbeat, MessageSuperseded, MessageMalformed, PeerGone, ExpireToken, Restart,
                Tick, vars
  <2>2. /\ \A c \in Conn : socket[c] = "unused" <=> socket'[c] = "unused"
        /\ \A c \in Conn : c \in Live' => c \in Live
    BY <1>6 DEF Heartbeat, MessageSuperseded, MessageMalformed, PeerGone, ExpireToken, Restart,
                Tick, vars, Live, Accepts, ConnInv, TypeOK
  <2>3. \A t \in Token : tokenState'[t] = "revoked" => tokenState[t] = "revoked"
    BY <1>6 DEF Heartbeat, MessageSuperseded, MessageMalformed, PeerGone, ExpireToken, Restart,
                Tick, vars, ConnInv, TypeOK
  <2>4. \A j \in Job : ~Starts(j)
    BY <2>1 DEF Starts
  <2>. QED BY <1>0, <1>5, <2>1, <2>2, <2>3, <2>4
<1>7. CASE \/ \E c \in Conn, j \in Job, outcome \in {"succeeded", "failed"} : ResultInTime(c, j, outcome)
           \/ \E c \in Conn, j \in Job : ResultLate(c, j)
           \/ ApiRequest \/ Alarm
  <2>1. UNCHANGED <<attachment, connections, socket, tokenState>>
    BY <1>7 DEF ResultInTime, ResultLate, ApiRequest, Alarm
  <2>2. \A i \in Job : jobs[i].status = "unused" => jobs'[i] = jobs[i]
    <3>1. ASSUME NEW j \in Job, NEW status \in JobStatus, jobs[j].status = "running",
                 jobs' = Settle(jobs, {j}, status)
          PROVE  \A i \in Job : jobs[i].status = "unused" => jobs'[i] = jobs[i]
      BY <3>1, SettleRows DEF ConnInv, TypeOK
    <3>2. {"succeeded", "failed", "expired"} \subseteq JobStatus
      BY DEF JobStatus
    <3>3. CASE \E c \in Conn, j \in Job, outcome \in {"succeeded", "failed"} : ResultInTime(c, j, outcome)
      BY <3>1, <3>2, <3>3 DEF ResultInTime, Answers
    <3>4. CASE \E c \in Conn, j \in Job : ResultLate(c, j)
      BY <3>1, <3>2, <3>4 DEF ResultLate, Answers
    <3>5. CASE ApiRequest \/ Alarm
      BY <3>5, PrunedRows DEF ApiRequest, Alarm, Prune, ConnInv, TypeOK, Overdue, RunningIn
    <3>. QED BY <1>7, <3>3, <3>4, <3>5
  <2>3. \A i \in Job : ~Starts(i)
    BY <2>2 DEF Starts
  <2>. QED BY <1>0, <1>5, <2>1, <2>3 DEF Live
<1>. QED BY <1>1, <1>2, <1>3, <1>4, <1>6, <1>7 DEF Next, SilentNext

\* At first no socket was opened.
LEMMA InitConnInv == Init => ConnInv
BY InitType DEF Init, ConnInv, SocketsAreBound, RowsAreOwn, RunsAtItsNode,
   RunningOnCurrentConnection, NoWorkForRevokedToken, RunningIn, NoRow

\* The invariant behind the theorems about connections.
LEMMA ConnInvariant == Spec => []ConnInv
BY InitConnInv, NextConnInv, PTL DEF Spec

\* A running job was sent to the connection that is still its node's current one
\* (connectNode, handleSocketGone, the revocation of tokens).
THEOREM JobsRunOnCurrentConnections == Spec => []RunningOnCurrentConnection
<1>1. ConnInv => RunningOnCurrentConnection
  BY DEF ConnInv
<1>. QED BY <1>1, ConnInvariant, PTL

\* No job runs over a live socket of a revoked token.
THEOREM RevocationEndsWork == Spec => []NoWorkForRevokedToken
<1>1. ConnInv => NoWorkForRevokedToken
  BY DEF ConnInv
<1>. QED BY <1>1, ConnInvariant, PTL

-----------------------------------------------------------------------------
(* What one step does to one reservation.                                  *)

Released(S) == \A l \in Lane : /\ holder'[l] = IF holder[l] \in S THEN None ELSE holder[l]
                              /\ idleSeen'[l] = IF holder[l] \in S THEN None ELSE idleSeen[l]

\* Of the steps but placements and heartbeats: they release the lanes of jobs S, every job
\* that loses its row is one of S, and none of S is left in quarantine.
Releases == /\ \E S \in SUBSET Job :
                  /\ Released(S)
                  /\ \A j \in Job : LosesRow(j) => j \in S
                  /\ \A j \in S : jobs'[j].status # "expired"
            /\ \A j \in Job : ~Starts(j)

Places == \E j \in Job, l \in Lane, sent \in BOOLEAN : CreateTask(j, l, sent)
Beats == \E c \in Conn, report \in Report : Heartbeat(c, report)

\* A job that loses its row had one.
LEMMA LosesRowHasNone ==
    ASSUME NEW j \in Job, LosesRow(j)
    PROVE  jobs[j].status \in Ended /\ jobs'[j].status = "deleted" /\ jobs'[j] # jobs[j]
BY DEF LosesRow, NoRow, Ended

\* Steps that settle running jobs, and free their lanes unless they expire.
LEMMA SettleReleases ==
    ASSUME TypeOK, NEW S \in SUBSET Job, NEW status \in Ended, jobs' = Settle(jobs, S, status),
           (ReleaseAll(S) /\ status # "expired") \/ UNCHANGED <<holder, idleSeen>>,
           S \subseteq RunningIn(jobs)
    PROVE  Releases
<1>1. \A j \in Job : jobs'[j] = jobs[j] \/ jobs'[j].status = status
  BY SettleRows DEF TypeOK, Ended, JobStatus
<1>2. \A j \in Job : ~LosesRow(j)
  BY <1>1, LosesRowHasNone DEF Ended
<1>3. \A j \in Job : ~Starts(j)
  <2>1. \A j \in Job : jobs'[j] = jobs[j] \/ j \in S
    BY SettleRows DEF TypeOK, Ended, JobStatus
  <2>. QED BY <2>1 DEF Starts, RunningIn
<1>4. CASE ReleaseAll(S) /\ status # "expired"
  <2>1. Released(S)
    BY <1>4 DEF Released, ReleaseAll, HolderWithout, IdleWithout
  <2>2. \A j \in S : jobs'[j].status # "expired"
    BY <1>4, SettleRows DEF TypeOK, Ended, JobStatus
  <2>. QED BY <1>2, <1>3, <2>1, <2>2 DEF Releases
<1>5. CASE UNCHANGED <<holder, idleSeen>>
  <2>1. Released({})
    BY <1>5 DEF Released
  <2>. QED BY <1>2, <1>3, <2>1 DEF Releases
<1>. QED BY <1>4, <1>5

\* Steps that touch neither jobs nor reservations.
LEMMA StillReleases ==
    ASSUME UNCHANGED <<jobs, holder, idleSeen>>
    PROVE  Releases
<1>1. Released({})
  BY DEF Released
<1>2. \A j \in Job : ~LosesRow(j) /\ ~Starts(j)
  BY LosesRowHasNone DEF Starts
<1>. QED BY <1>1, <1>2 DEF Releases

\* A prune frees the lanes of the jobs that lose their row.
LEMMA PruneReleases ==
    ASSUME TypeOK, Prune
    PROVE  Releases
<1>1. Released(Orphaned(jobs'))
  BY DEF Prune, ReleaseAll, HolderWithout, IdleWithout, Released
<1>2. \A j \in Job : LosesRow(j) => j \in Orphaned(jobs')
  BY LosesRowHasNone DEF Orphaned, HasRow
<1>3. \A j \in Job : jobs[j].status = "unused" => jobs'[j] = jobs[j]
  BY PrunedRows DEF Prune, TypeOK, Overdue, RunningIn
<1>4. Orphaned(jobs') \in SUBSET Job /\ \A j \in Orphaned(jobs') : jobs'[j].status # "expired"
  BY DEF Orphaned, HasRow
<1>. QED BY <1>1, <1>2, <1>3, <1>4 DEF Releases, Starts

\* A revocation frees those and the lanes of the jobs it fails.
LEMMA RevokeReleases ==
    ASSUME TypeOK, NEW t \in Token, RevokeToken(t)
    PROVE  Releases
<1>. DEFINE pruned == PrunedJobs(jobs)
            F == UNION {RunningOn(pruned, NodeOf(c), c) : c \in {d \in SocketsOf(t) : Current(d)}}
            S == Orphaned(pruned) \cup F
<1>1. /\ jobs' = Settle(pruned, F, "failed") /\ ReleaseAll(S)
      /\ F \subseteq RunningIn(pruned)
  BY DEF RevokeToken, RunningOn
<1>2. S \in SUBSET Job
  BY DEF Orphaned, RunningOn, RunningIn
<1>3. pruned \in [Job -> JobRow] /\ now \in Nat
  BY PrunedRows DEF TypeOK
<1>4. \A j \in Job : jobs[j].status = "unused" => pruned[j] = jobs[j]
  BY PrunedRows DEF TypeOK, Overdue, RunningIn
<1>5. \A j \in Job : IF j \in F THEN jobs'[j].status = "failed" ELSE jobs'[j] = pruned[j]
  BY <1>1, <1>3, SettleRows, "failed" \in JobStatus DEF JobStatus
<1>6. \A j \in F : pruned[j].status = "running"
  BY <1>1 DEF RunningIn
<1>7. \A j \in Job : LosesRow(j) => j \in S
  BY <1>5, LosesRowHasNone DEF Orphaned, HasRow
<1>8. Released(S)
  BY <1>1 DEF ReleaseAll, HolderWithout, IdleWithout, Released
<1>9. \A j \in Job : ~Starts(j)
  BY <1>4, <1>5, <1>6 DEF Starts
<1>10. ASSUME NEW j \in S PROVE jobs'[j].status # "expired"
  <2>1. j \in Job /\ (j \in F \/ ~HasRow(pruned[j]))
    BY <1>2, Zenon DEF Orphaned
  <2>2. ~HasRow(pruned[j]) => pruned[j].status # "expired"
    BY DEF HasRow
  <2>. HIDE DEF F, pruned
  <2>. QED BY <1>5, <2>1, <2>2
<1>. HIDE DEF S
<1>. QED BY <1>2, <1>7, <1>8, <1>9, <1>10 DEF Releases

\* Of every step that is no heartbeat.
LEMMA SilentMoves == TypeOK /\ (SilentNext \/ UNCHANGED vars) => Releases \/ Places
<1>. SUFFICES ASSUME TypeOK, SilentNext \/ UNCHANGED vars PROVE Releases \/ Places
  OBVIOUS
<1>0. ASSUME NEW n, NEW c, FailConnectionJobs(RunningOn(jobs, n, c)) PROVE Releases
  BY <1>0, SettleReleases DEF FailConnectionJobs, RunningOn, RunningIn, Ended
<1>1. CASE \E c \in Conn, t \in Token : ConnectNode(c, t)
  BY <1>0, <1>1, StillReleases DEF ConnectNode
<1>2. CASE \E c \in Conn : MessageUnauthorized(c) \/ SocketGone(c)
  BY <1>0, <1>2, StillReleases DEF MessageUnauthorized, SocketGone, HandleSocketGone
<1>3. CASE \E c \in Conn, j \in Job, outcome \in {"succeeded", "failed"} :
              ResultInTime(c, j, outcome)
  BY <1>3, SettleReleases DEF ResultInTime, Answers, RunningIn, Ended
<1>4. CASE \E c \in Conn, j \in Job : ResultLate(c, j)
  BY <1>4, SettleReleases DEF ResultLate, Answers, RunningIn, Ended
<1>5. CASE ApiRequest \/ Alarm
  BY <1>5, PruneReleases DEF ApiRequest, Alarm
<1>6. CASE \E t \in Token : RevokeToken(t)
  BY <1>6, RevokeReleases
<1>7. CASE \/ \E c \in Conn : MessageSuperseded(c) \/ MessageMalformed(c) \/ PeerGone(c)
           \/ \E t \in Token : ExpireToken(t)
           \/ Restart \/ Tick \/ UNCHANGED vars
  BY <1>7, StillReleases DEF MessageSuperseded, MessageMalformed, PeerGone, ExpireToken, Restart,
                             Tick, vars
<1>. QED BY <1>1, <1>2, <1>3, <1>4, <1>5, <1>6, <1>7 DEF SilentNext, Places

\* Of every step.
LEMMA ReservationMoves == TypeOK /\ [Next]_vars => Releases \/ Places \/ Beats
BY SilentMoves DEF Next, Beats

-----------------------------------------------------------------------------
(* Idle evidence.                                                          *)

EvidenceInv == TimeInv /\ IdleEvidenceIsOwn

\* Evidence is written by heartbeats in quarantine only, and goes with the reservation.
LEMMA NextEvidenceInv == EvidenceInv /\ [Next]_vars => EvidenceInv'
<1>. SUFFICES ASSUME EvidenceInv, [Next]_vars PROVE EvidenceInv'
  OBVIOUS
<1>1. /\ TimeInv' /\ TypeOK /\ TypeOK' /\ (\A j \in Job : Moves(j))
      /\ now \in Nat /\ now' \in Nat
  BY NextTimeInv, JobMoves DEF EvidenceInv, TimeInv, TypeOK
<1>2. now' >= now
  <2>1. now' = now \/ now' = now + 1
    BY DEF Next, SilentNext, Heartbeat, ConnectNode, MessageUnauthorized, MessageSuperseded,
       MessageMalformed, ResultInTime, ResultLate, PeerGone, SocketGone, CreateTask, ApiRequest,
       Alarm, RevokeToken, ExpireToken, Restart, Tick, vars
  <2>. QED BY <1>1, <2>1
<1>3. SUFFICES ASSUME NEW l \in Lane, idleSeen'[l] # None
               PROVE  /\ holder'[l] # None
                      /\ jobs'[holder'[l]].status = "expired"
                      /\ jobs'[holder'[l]].completed <= idleSeen'[l]
                      /\ idleSeen'[l] <= now'
  BY <1>1 DEF EvidenceInv, IdleEvidenceIsOwn
<1>4. ASSUME holder'[l] = holder[l], idleSeen'[l] = idleSeen[l],
             jobs'[holder[l]] = jobs[holder[l]]
      PROVE  /\ holder'[l] # None
             /\ jobs'[holder'[l]].status = "expired"
             /\ jobs'[holder'[l]].completed <= idleSeen'[l]
             /\ idleSeen'[l] <= now'
  <2>1. idleSeen[l] \in Nat
    BY <1>1, <1>3, <1>4 DEF TypeOK
  <2>. QED BY <1>1, <1>2, <1>3, <1>4, <2>1 DEF EvidenceInv, IdleEvidenceIsOwn
<1>5. idleSeen[l] # None => /\ holder[l] \in Job /\ jobs[holder[l]].status = "expired"
  BY <1>1 DEF EvidenceInv, IdleEvidenceIsOwn, TypeOK
<1>6. CASE Releases
  <2>1. PICK S \in SUBSET Job : Released(S) /\ \A j \in Job : LosesRow(j) => j \in S
    BY <1>6 DEF Releases
  <2>2. holder[l] \notin S /\ holder'[l] = holder[l] /\ idleSeen'[l] = idleSeen[l]
    BY <1>3, <2>1 DEF Released
  <2>3. jobs'[holder[l]] = jobs[holder[l]]
    BY <1>1, <1>3, <1>5, <2>1, <2>2 DEF Moves, Stays, Starts, Ends
  <2>. QED BY <1>4, <2>2, <2>3
<1>7. CASE Places
  <2>1. PICK j \in Job, m \in Lane, sent \in BOOLEAN : CreateTask(j, m, sent)
    BY <1>7 DEF Places
  <2>2. l # m /\ holder'[l] = holder[l] /\ idleSeen'[l] = idleSeen[l]
    BY <1>1, <1>3, <2>1 DEF CreateTask, TypeOK
  <2>3. holder[l] # j
    BY <1>3, <1>5, <2>1, <2>2 DEF CreateTask
  <2>4. jobs'[holder[l]] = jobs[holder[l]]
    BY <1>1, <1>3, <1>5, <2>1, <2>2, <2>3, CreateMoves DEF Stays
  <2>. QED BY <1>4, <2>2, <2>4
<1>8. CASE Beats
  <2>1. PICK c \in Conn, report \in Report : Heartbeat(c, report)
    BY <1>8 DEF Beats
  <2>. DEFINE q == Quarantined(NodeOf(c))
  <2>2. /\ jobs' = jobs /\ now' = now
        /\ holder'[l] = IF l \in q /\ Recovers(l, report) THEN None ELSE holder[l]
        /\ idleSeen'[l] = IF l \notin q THEN idleSeen[l]
                          ELSE IF ~ReportsIdle(report, l) \/ Recovers(l, report) THEN None
                          ELSE IF idleSeen[l] = None THEN now
                          ELSE idleSeen[l]
    BY <2>1 DEF Heartbeat
  <2>3. l \in q => holder[l] # None /\ jobs[holder[l]].status = "expired"
    BY DEF Quarantined
  <2>. HIDE DEF q
  <2>4. CASE idleSeen'[l] = idleSeen[l]
    <3>1. holder'[l] = holder[l]
      BY <1>3, <2>2
    <3>. QED BY <1>4, <2>2, <2>4, <3>1
  <2>5. CASE l \in q /\ idleSeen'[l] = now /\ holder'[l] = holder[l]
    <3>1. holder[l] \in Job /\ jobs[holder[l]].completed <= now
      BY <1>1, <2>3, <2>5 DEF EvidenceInv, TimeInv, TimedOut, TypeOK
    <3>. QED BY <1>1, <2>2, <2>3, <2>5, <3>1
  <2>. QED BY <1>3, <2>2, <2>4, <2>5
<1>. HIDE DEF EvidenceInv
<1>. QED BY <1>1, <1>6, <1>7, <1>8, ReservationMoves

\* At first there is no evidence.
LEMMA InitEvidenceInv == Init => EvidenceInv
BY InitType DEF Init, EvidenceInv, TimeInv, DeadlineDecides, TimedOut, IdleEvidenceIsOwn, NoRow

\* The idle evidence on a lane was gathered after the job in quarantine there timed out
\* (recordHeartbeat, createTask, the deletion of reservations).
THEOREM EvidenceIsNeverInherited == Spec => []IdleEvidenceIsOwn
<1>1. EvidenceInv => IdleEvidenceIsOwn
  BY DEF EvidenceInv
<1>. QED BY InitEvidenceInv, <1>1, NextEvidenceInv, PTL DEF Spec

-----------------------------------------------------------------------------
(* The reservations implement the lease.                                   *)

LeaseStage == [j \in Job |-> StageOf(j)]
SeenIdle == {l \in Lane : idleSeen[l] # None}

\* What is known of the room before and after a step.
RoomInv == LaneInv /\ EvidenceInv

\* The stages in the words of the jobs table.
LEMMA Stages ==
    ASSUME TypeOK, NEW j \in Job
    PROVE  /\ StageOf(j) \in {"new", "active", "done", "overdue", "forgotten"}
           /\ StageOf(j) = "new" <=> jobs[j].status = "unused"
           /\ StageOf(j) = "active" <=> jobs[j].status = "running"
           /\ StageOf(j) = "overdue" <=> jobs[j].status = "expired"
           /\ StageOf(j) = "forgotten" <=> jobs[j].status = "deleted"
           /\ StageOf(j) = "done" <=> jobs[j].status \in {"succeeded", "failed"}
<1>1. jobs[j].status \in {"unused", "running", "succeeded", "failed", "expired", "deleted"}
  BY DEF TypeOK, JobRow, JobStatus
<1>. QED BY <1>1 DEF StageOf

\* The same of the state after the step.
LEMMA StagesNext ==
    ASSUME TypeOK', NEW j \in Job
    PROVE  /\ StageOf(j)' \in {"new", "active", "done", "overdue", "forgotten"}
           /\ StageOf(j)' = "new" <=> jobs'[j].status = "unused"
           /\ StageOf(j)' = "active" <=> jobs'[j].status = "running"
           /\ StageOf(j)' = "overdue" <=> jobs'[j].status = "expired"
           /\ StageOf(j)' = "forgotten" <=> jobs'[j].status = "deleted"
           /\ StageOf(j)' = "done" <=> jobs'[j].status \in {"succeeded", "failed"}
<1>1. jobs'[j].status \in {"unused", "running", "succeeded", "failed", "expired", "deleted"}
  BY DEF TypeOK, JobRow, JobStatus
<1>. QED BY <1>1 DEF StageOf

\* Every job goes one way.
LEMMA StageMoves ==
    ASSUME TypeOK, TypeOK', [Next]_vars, NEW j \in Job
    PROVE  \/ StageOf(j)' = StageOf(j)
           \/ StageOf(j) = "new" /\ StageOf(j)' \in {"active", "done"}
           \/ StageOf(j) = "active" /\ StageOf(j)' \in {"done", "overdue"}
           \/ StageOf(j) \in {"done", "overdue"} /\ StageOf(j)' = "forgotten"
<1>1. Moves(j)
  BY JobMoves
<1>2. CASE Stays(j)
  BY <1>2 DEF Stays, StageOf
<1>3. CASE LosesRow(j)
  BY <1>3, LosesRowHasNone, Stages, StagesNext DEF Ended
<1>4. CASE Starts(j)
  BY <1>4, Stages, StagesNext DEF Starts
<1>5. CASE Ends(j)
  BY <1>5, Stages, StagesNext DEF Ends
<1>. QED BY <1>1, <1>2, <1>3, <1>4, <1>5 DEF Moves

\* What a step does to the lease of one lane, in the words of the two tables.
\* Nothing frees the lane of a job at its expiry, nor of an expired job that
\* keeps its row, but a heartbeat that finds the lane seen idle before.
LaneMoves(l) ==
    \/ /\ holder[l] = None /\ holder'[l] = None
       /\ idleSeen'[l] = None
    \/ /\ holder[l] = None /\ holder'[l] \in Job
       /\ jobs[holder'[l]].status = "unused" /\ jobs'[holder'[l]].status = "running"
       /\ idleSeen'[l] = None
    \/ /\ holder[l] \in Job /\ holder'[l] = None /\ idleSeen'[l] = None
       /\ jobs[holder[l]].status = "running"
       /\ jobs'[holder[l]].status \in {"succeeded", "failed"}
    \/ /\ holder[l] \in Job /\ holder'[l] = None /\ idleSeen'[l] = None
       /\ jobs[holder[l]].status = "expired" /\ jobs'[holder[l]].status = "deleted"
    \/ /\ holder[l] \in Job /\ holder'[l] = None /\ idleSeen'[l] = None
       /\ jobs[holder[l]].status = "expired" /\ jobs'[holder[l]].status = "expired"
       /\ idleSeen[l] # None
    \/ /\ holder[l] \in Job /\ holder'[l] = holder[l]
       /\ jobs[holder[l]].status = "running"
       /\ jobs'[holder[l]].status \in {"running", "expired"}
       /\ idleSeen'[l] = None
    \/ /\ holder[l] \in Job /\ holder'[l] = holder[l]
       /\ jobs[holder[l]].status = "expired" /\ jobs'[holder[l]].status = "expired"

\* Of a step that releases the lanes of some jobs.
LEMMA ReleaseLaneMoves ==
    ASSUME RoomInv, RoomInv', [Next]_vars, Releases, NEW l \in Lane
    PROVE  LaneMoves(l)
<1>1. TypeOK /\ TypeOK' /\ RunningHoldsLane' /\ NoLeakedReservation /\ NoLeakedReservation'
  BY DEF RoomInv, LaneInv
<1>2. /\ idleSeen[l] # None => holder[l] # None /\ jobs[holder[l]].status = "expired"
      /\ idleSeen'[l] # None => holder'[l] # None /\ jobs'[holder'[l]].status = "expired"
  BY DEF RoomInv, EvidenceInv, IdleEvidenceIsOwn
<1>3. PICK S \in SUBSET Job : /\ Released(S)
                              /\ \A j \in Job : LosesRow(j) => j \in S
                              /\ \A j \in S : jobs'[j].status # "expired"
  BY DEF Releases
<1>4. /\ holder'[l] = IF holder[l] \in S THEN None ELSE holder[l]
      /\ idleSeen'[l] = IF holder[l] \in S THEN None ELSE idleSeen[l]
  BY <1>3 DEF Released
<1>5. CASE holder[l] = None
  <2>1. holder[l] \notin S
    BY <1>3, <1>5, NoneAssumption
  <2>. QED BY <1>2, <1>4, <1>5, <2>1 DEF LaneMoves
<1>6. CASE holder[l] # None
  <2>. DEFINE h == holder[l]
  <2>1. /\ h \in Job /\ jobs[h].lane = l
        /\ jobs[h].status \in {"running", "expired"}
    BY <1>1, <1>6 DEF NoLeakedReservation, TypeOK
  <2>2. Moves(h) /\ ~Starts(h)
    BY <1>1, <2>1, JobMoves DEF Releases
  <2>3. CASE h \in S
    <3>1. holder'[l] = None /\ idleSeen'[l] = None
      BY <1>4, <2>3
    <3>2. jobs'[h].status # "expired"
      BY <1>3, <2>3
    <3>3. CASE Stays(h)
      <4>1. jobs'[h].status = "running" /\ jobs'[h].lane = l
        BY <2>1, <3>2, <3>3 DEF Stays
      <4>2. holder'[l] = h
        BY <1>1, <2>1, <4>1 DEF RunningHoldsLane, RunningIn
      <4>. QED BY <1>6, <3>1, <4>2
    <3>4. CASE LosesRow(h)
      BY <2>1, <3>1, <3>4, LosesRowHasNone DEF LaneMoves, Ended
    <3>5. CASE Ends(h)
      BY <2>1, <3>1, <3>2, <3>5 DEF LaneMoves, Ends
    <3>. QED BY <2>2, <3>3, <3>4, <3>5 DEF Moves
  <2>4. CASE h \notin S
    <3>1. holder'[l] = h /\ idleSeen'[l] = idleSeen[l]
      BY <1>4, <2>4
    <3>2. jobs'[h].status \in {"running", "expired"}
      BY <1>1, <1>6, <3>1 DEF NoLeakedReservation
    <3>3. CASE Stays(h)
      BY <1>2, <2>1, <3>1, <3>3 DEF LaneMoves, Stays
    <3>4. CASE Ends(h)
      BY <1>2, <2>1, <3>1, <3>2, <3>4 DEF LaneMoves, Ends
    <3>5. ~LosesRow(h)
      BY <1>3, <2>1, <2>4
    <3>. QED BY <2>2, <3>3, <3>4, <3>5 DEF Moves
  <2>. QED BY <2>3, <2>4
<1>. QED BY <1>5, <1>6

\* Of a placement.
LEMMA PlaceLaneMoves ==
    ASSUME RoomInv, RoomInv', Places, NEW l \in Lane
    PROVE  LaneMoves(l)
<1>1. TypeOK /\ TypeOK' /\ NoLeakedReservation
  BY DEF RoomInv, LaneInv
<1>2. /\ idleSeen[l] # None => holder[l] # None /\ jobs[holder[l]].status = "expired"
      /\ idleSeen'[l] # None => holder'[l] # None /\ jobs'[holder'[l]].status = "expired"
  BY DEF RoomInv, EvidenceInv, IdleEvidenceIsOwn
<1>3. PICK j \in Job, m \in Lane, sent \in BOOLEAN : CreateTask(j, m, sent)
  BY DEF Places
<1>4. /\ holder[m] = None /\ jobs[j].status = "unused"
      /\ holder' = [holder EXCEPT ![m] = IF sent THEN j ELSE None]
      /\ idleSeen' = [idleSeen EXCEPT ![m] = None]
  BY <1>3 DEF CreateTask, Candidate, Unreserved
<1>5. PlacedRow(m).status = "running"
  BY DEF PlacedRow
<1>6. /\ \A i \in Job \ {j} : jobs'[i] = jobs[i]
      /\ sent => jobs'[j].status = "running"
  BY <1>1, <1>3, <1>5, CreateMoves DEF Stays
<1>7. CASE l = m
  <2>1. holder'[l] = (IF sent THEN j ELSE None) /\ idleSeen'[l] = None
    BY <1>1, <1>4, <1>7 DEF TypeOK
  <2>. QED BY <1>4, <1>6, <1>7, <2>1 DEF LaneMoves
<1>8. CASE l # m
  <2>1. holder'[l] = holder[l] /\ idleSeen'[l] = idleSeen[l]
    BY <1>4, <1>8 DEF TypeOK
  <2>2. CASE holder[l] = None
    BY <1>2, <2>1, <2>2 DEF LaneMoves
  <2>3. CASE holder[l] # None
    <3>1. /\ holder[l] \in Job
          /\ jobs[holder[l]].status \in {"running", "expired"}
      BY <1>1, <2>3 DEF NoLeakedReservation, TypeOK
    <3>2. jobs'[holder[l]] = jobs[holder[l]]
      BY <1>4, <1>6, <3>1
    <3>. QED BY <1>2, <2>1, <3>1, <3>2 DEF LaneMoves
  <2>. QED BY <2>2, <2>3
<1>. QED BY <1>7, <1>8

\* Of a heartbeat.
LEMMA BeatLaneMoves ==
    ASSUME RoomInv, RoomInv', Beats, NEW l \in Lane
    PROVE  LaneMoves(l)
<1>1. TypeOK /\ NoLeakedReservation
  BY DEF RoomInv, LaneInv
<1>2. /\ idleSeen[l] # None => holder[l] # None /\ jobs[holder[l]].status = "expired"
      /\ idleSeen'[l] # None => holder'[l] # None /\ jobs'[holder'[l]].status = "expired"
  BY DEF RoomInv, EvidenceInv, IdleEvidenceIsOwn
<1>3. PICK c \in Conn, report \in Report : Heartbeat(c, report)
  BY DEF Beats
<1>. DEFINE q == Quarantined(NodeOf(c))
<1>4. /\ jobs' = jobs
      /\ holder'[l] = IF l \in q /\ Recovers(l, report) THEN None ELSE holder[l]
  BY <1>3 DEF Heartbeat
<1>5. l \in q => holder[l] # None /\ jobs[holder[l]].status = "expired"
  BY DEF Quarantined
<1>6. Recovers(l, report) => idleSeen[l] # None
  BY DEF Recovers
<1>. HIDE DEF q
<1>7. CASE holder[l] = None
  BY <1>2, <1>4, <1>7 DEF LaneMoves
<1>8. CASE holder[l] # None
  <2>1. /\ holder[l] \in Job
        /\ jobs[holder[l]].status \in {"running", "expired"}
    BY <1>1, <1>8 DEF NoLeakedReservation, TypeOK
  <2>. QED BY <1>2, <1>4, <1>5, <1>6, <2>1 DEF LaneMoves
<1>. QED BY <1>7, <1>8

\* In the words of RuntimeLease.
LEMMA LeaseMoves ==
    ASSUME TypeOK, TypeOK', NEW l \in Lane, LaneMoves(l)
    PROVE  /\ \/ Lease!Grant(l) \/ Lease!Finish(l) \/ Lease!TimeOut(l) \/ Lease!Watch(l)
              \/ Lease!Recover(l) \/ Lease!Forget(l) \/ Lease!Keep(l)
           /\ idleSeen'[l] # None => Lease!Watch(l)
<1>1. \A j \in Job : /\ [i \in Job |-> StageOf(i)][j] = StageOf(j)
                     /\ [i \in Job |-> StageOf(i)]'[j] = StageOf(j)'
  OBVIOUS
<1>2. None \notin Job
  BY NoneAssumption
<1>. QED BY <1>1, <1>2, Stages, StagesNext DEF LaneMoves, Lease!Grant, Lease!Finish, Lease!TimeOut,
         Lease!Watch, Lease!Recover, Lease!Forget, Lease!Keep, Lease!Frees

\* A step of the room is one of RuntimeLease, or changes no lease.
LEMMA LeaseStep ==
    ASSUME RoomInv, RoomInv', [Next]_vars
    PROVE  Lease!Next
<1>1. TypeOK /\ TypeOK' /\ NoLeakedReservation' /\ RunningHoldsLane'
  BY DEF RoomInv, LaneInv
<1>2. \A l \in Lane : LaneMoves(l)
  BY <1>1, ReservationMoves, ReleaseLaneMoves, PlaceLaneMoves, BeatLaneMoves
<1>3. \A l \in Lane :
        /\ \/ Lease!Grant(l) \/ Lease!Finish(l) \/ Lease!TimeOut(l) \/ Lease!Watch(l)
           \/ Lease!Recover(l) \/ Lease!Forget(l) \/ Lease!Keep(l)
        /\ idleSeen'[l] # None => Lease!Watch(l)
  BY <1>1, <1>2, LeaseMoves
<1>4. \A j \in Job :
        /\ LeaseStage[j] = StageOf(j) /\ LeaseStage'[j] = StageOf(j)'
        /\ StageOf(j)' \in Lease!Stage
  BY <1>1, StagesNext DEF LeaseStage, Lease!Stage
<1>5. LeaseStage' \in [Job -> Lease!Stage]
  BY <1>4 DEF LeaseStage
<1>6. \A j \in Job : Lease!Advance(j)
  BY <1>1, <1>4, StageMoves DEF Lease!Advance, LeaseStage
<1>7. \A j \in Job : LeaseStage'[j] = "active" => \E l \in Lane : holder'[l] = j
  <2>. SUFFICES ASSUME NEW j \in Job, LeaseStage'[j] = "active"
                PROVE  \E l \in Lane : holder'[l] = j
    OBVIOUS
  <2>1. jobs'[j].status = "running"
    BY <1>1, <1>4, StagesNext
  <2>2. jobs'[j].lane # None /\ holder'[jobs'[j].lane] = j
    BY <1>1, <2>1 DEF RunningHoldsLane, RunningIn
  <2>3. jobs'[j].lane \in Lane
    BY <1>1, <2>2 DEF TypeOK, JobRow
  <2>. QED BY <2>2, <2>3
<1>8. \A l, m \in Lane : holder'[l] = holder'[m] => l = m \/ holder'[l] = None
  BY <1>1 DEF NoLeakedReservation
<1>9. holder' \in [Lane -> Job \cup {None}]
  BY <1>1 DEF TypeOK
<1>10. SeenIdle' \in SUBSET Lane /\ \A l \in SeenIdle' : Lease!Watch(l)
  BY <1>3 DEF SeenIdle
<1>. QED BY <1>3, <1>5, <1>6, <1>7, <1>8, <1>9, <1>10 DEF Lease!Next, LeaseStage, SeenIdle

\* The rows of reservations and jobs implement the lease of RuntimeLease: a lane goes to a
\* fresh job when it is free, and a job that timed out, in whatever handler, keeps its lane
\* until a heartbeat finds it seen idle in quarantine before, or prune deletes its row.
THEOREM LeaseIsImplemented == Spec => ImplementsLease
<1>1. Init => Lease!Init
  <2>. SUFFICES ASSUME Init PROVE Lease!Init
    OBVIOUS
  <2>1. SeenIdle = {}
    BY DEF SeenIdle, Init
  <2>2. LeaseStage = [j \in Job |-> "new"]
    BY DEF LeaseStage, StageOf, Init, NoRow
  <2>3. holder = [l \in Lane |-> None]
    BY DEF Init
  <2>. QED BY <2>1, <2>2, <2>3 DEF Lease!Init, SeenIdle, LeaseStage
<1>2. Spec => []RoomInv
  <2>1. EvidenceInv /\ [Next]_vars => EvidenceInv'
    BY NextEvidenceInv
  <2>2. Spec => []EvidenceInv
    BY <2>1, InitEvidenceInv, PTL DEF Spec
  <2>3. LaneInv /\ EvidenceInv => RoomInv
    BY DEF RoomInv
  <2>. QED BY <2>2, <2>3, LaneInvariant, PTL
<1>3. RoomInv /\ RoomInv' /\ [Next]_vars => [Lease!Next]_Lease!vars
  BY LeaseStep
<1>. QED BY <1>1, <1>2, <1>3, PTL DEF Spec, ImplementsLease, Lease!Spec
=============================================================================

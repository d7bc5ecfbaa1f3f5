---------------------- MODULE FabricRoomHistoryProofs -----------------------
(***************************************************************************)
(* Theorems about FabricRoomHistory: what the room does, against what the  *)
(* nodes really reported.  The history changes nothing in the room, so     *)
(* whatever FabricRoomProofs shows of the room holds here.                 *)
(***************************************************************************)
EXTENDS FabricRoomHistory, FabricRoomProofs

\* The history variables only watch: every behaviour is one of the room's.
THEOREM HistoryOnlyWatches == HSpec => Spec
<1>1. HInit => Init
  BY DEF HInit
<1>2. [HNext]_hvars => [Next]_vars
  BY DEF HNext, Next, hvars
<1>. QED BY <1>1, <1>2, PTL DEF HSpec, Spec

-----------------------------------------------------------------------------
(* Heartbeats and connections.                                             *)

HistoryType ==
    /\ heardAt \in [Node -> Nat \cup {None}]
    /\ heardFrom \in [Node -> Conn \cup {None}]
    /\ idleSince \in [Lane -> Nat \cup {None}]

\* A node that may count as online was last heard over its current connection, when its
\* row says: connectNode marks the row unseen before another connection is current.
RowsAreHeard ==
    \A n \in Node : /\ connections[n] # None
                    /\ lastSeen[n] # None
                    /\ lastSeen[n] # 0
                    => heardFrom[n] = connections[n] /\ heardAt[n] = lastSeen[n]

HeardInv == ConnInv /\ HistoryType /\ now >= Start /\ RowsAreHeard

\* What a step that is no heartbeat does to a node's connection and row.
KeepsHeard ==
    \A n \in Node : connections'[n] # None =>
        \/ connections'[n] = connections[n] /\ lastSeen'[n] \in {lastSeen[n], None, 0}
        \/ lastSeen'[n] \in {None, 0}

\* The end of a connection leaves its node without one.
LEMMA SocketGoneKeepsHeard ==
    ASSUME NEW c \in Conn, TypeOK, HandleSocketGone(c), lastSeen' = lastSeen
    PROVE  KeepsHeard
BY DEF HandleSocketGone, FailConnectionJobs, KeepsHeard, TypeOK

\* One step per action but the heartbeat.
LEMMA SilentKeepsHeard ==
    ASSUME TypeOK, SilentNext
    PROVE  KeepsHeard
<1>1. CASE \E c \in Conn, t \in Token : ConnectNode(c, t)
  <2>1. PICK c \in Conn, t \in Token : ConnectNode(c, t)
    BY <1>1
  <2>. DEFINE b == Binding[t]
  <2>2. /\ b \in Node
        /\ connections' = [connections EXCEPT ![b] = c]
        /\ lastSeen' = [lastSeen EXCEPT ![b] = Unseen(b)]
    BY <2>1, BindingAssumption DEF ConnectNode
  <2>. HIDE DEF b
  <2>3. Unseen(b) \in {None, 0}
    BY DEF Unseen
  <2>. QED BY <2>2, <2>3 DEF KeepsHeard, TypeOK
<1>2. CASE \E c \in Conn : MessageUnauthorized(c) \/ SocketGone(c)
  BY <1>2, SocketGoneKeepsHeard DEF MessageUnauthorized, SocketGone
<1>3. CASE ApiRequest \/ Alarm
  BY <1>3 DEF ApiRequest, Alarm, Prune, PruneNodes, KeepsHeard
<1>4. CASE \E t \in Token : RevokeToken(t)
  <2>1. PICK t \in Token : RevokeToken(t)
    BY <1>4
  <2>2. \A n \in Node : connections'[n] \in {connections[n], None}
    BY <2>1 DEF RevokeToken
  <2>3. \A n \in Node : lastSeen'[n] \in {lastSeen[n], None}
    BY <2>1 DEF RevokeToken, PruneNodes
  <2>. QED BY <2>2, <2>3 DEF KeepsHeard
<1>5. CASE UNCHANGED <<connections, lastSeen>>
  BY <1>5 DEF KeepsHeard
<1>. QED BY <1>1, <1>2, <1>3, <1>4, <1>5
         DEF SilentNext, MessageSuperseded, MessageMalformed, ResultInTime, ResultLate, PeerGone,
             CreateTask, ExpireToken, Restart, Tick

\* Time does not go back.
LEMMA NowRuns == TypeOK /\ [Next]_vars => now' \in Nat /\ now' >= now
<1>1. [Next]_vars => now' = now \/ now' = now + 1
  BY DEF Next, SilentNext, Heartbeat, ConnectNode, MessageUnauthorized, MessageSuperseded,
     MessageMalformed, ResultInTime, ResultLate, PeerGone, SocketGone, CreateTask, ApiRequest,
     Alarm, RevokeToken, ExpireToken, Restart, Tick, vars
<1>. QED BY <1>1 DEF TypeOK

\* What is recorded of a heartbeat is well typed.
LEMMA RecordsType ==
    ASSUME HistoryType, TypeOK, ConnInv, NEW c \in Conn, NEW report \in Report,
           Heartbeat(c, report), Record(c, report)
    PROVE  HistoryType'
BY DEF HistoryType, TypeOK, Record

\* A heartbeat is recorded as it is stored; every other step keeps or unsees the row.
LEMMA NextHeardInv == HeardInv /\ [HNext]_hvars => HeardInv'
<1>. SUFFICES ASSUME HeardInv, [HNext]_hvars
              PROVE  HeardInv'
  OBVIOUS
<1>1. [Next]_vars
  BY DEF HNext, Next, hvars
<1>2. ConnInv' /\ TypeOK /\ TypeOK' /\ now' >= Start
  <2>1. ConnInv' /\ TypeOK /\ TypeOK'
    BY <1>1, NextConnInv DEF HeardInv, ConnInv
  <2>2. now \in Nat /\ now >= Start /\ now' \in Nat /\ now' >= now
    BY <1>1, <2>1, NowRuns DEF HeardInv, TypeOK
  <2>. QED BY <2>1, <2>2, LimitsAssumption
<1>3. CASE KeepsHeard /\ UNCHANGED history
  <2>1. RowsAreHeard'
    BY <1>3 DEF KeepsHeard, RowsAreHeard, HeardInv, history
  <2>2. HistoryType'
    BY <1>3 DEF HistoryType, HeardInv, history
  <2>. QED BY <1>2, <2>1, <2>2 DEF HeardInv
<1>4. CASE SilentNext /\ UNCHANGED history
  BY <1>2, <1>3, <1>4, SilentKeepsHeard
<1>5. CASE UNCHANGED hvars
  BY <1>3, <1>5 DEF hvars, vars, history, KeepsHeard
<1>6. CASE \E c \in Conn, report \in Report : Heartbeat(c, report) /\ Record(c, report)
  <2>1. PICK c \in Conn, report \in Report : Heartbeat(c, report) /\ Record(c, report)
    BY <1>6
  <2>. DEFINE n == NodeOf(c)
  <2>2. /\ connections' = connections
        /\ lastSeen' = [lastSeen EXCEPT ![n] = now]
        /\ connections[n] = c
        /\ heardAt' = [heardAt EXCEPT ![n] = now]
        /\ heardFrom' = [heardFrom EXCEPT ![n] = c]
    BY <2>1 DEF Heartbeat, Accepts, Current, Record
  <2>. HIDE DEF n
  <2>3. RowsAreHeard'
    BY <1>2, <2>2 DEF RowsAreHeard, HeardInv, HistoryType, TypeOK
  <2>4. HistoryType'
    BY <1>2, <2>1, RecordsType DEF HeardInv
  <2>. QED BY <1>2, <2>3, <2>4 DEF HeardInv
<1>. QED BY <1>4, <1>5, <1>6 DEF HNext

\* At first no node is connected.
LEMMA InitHeardInv == HInit => HeardInv
<1>. SUFFICES ASSUME HInit
              PROVE  HeardInv
  OBVIOUS
<1>1. ConnInv
  BY InitConnInv DEF HInit
<1>. QED BY <1>1, LimitsAssumption DEF HInit, Init, HeardInv, HistoryType, RowsAreHeard

\* The invariant behind PlacedByEvidence.
LEMMA HeardInvariant == HSpec => []HeardInv
BY InitHeardInv, NextHeardInv, PTL DEF HSpec

\* The row of a new job, whether or not its request could be sent.
LEMMA CreatePlaces ==
    ASSUME NEW j \in Job, NEW l \in Lane, NEW sent \in BOOLEAN, TypeOK, CreateTask(j, l, sent)
    PROVE  jobs'[j].lane = l /\ jobs'[j].conn = connections[l[1]]
<1>. DEFINE placed == [jobs EXCEPT ![j] = PlacedRow(l)]
<1>1. placed \in [Job -> JobRow] /\ placed[j] = PlacedRow(l)
  BY LimitsAssumption DEF PlacedRow, JobRow, JobStatus, Lane, TypeOK
<1>2. jobs' = IF sent THEN placed ELSE Settle(placed, {j}, "failed")
  BY DEF CreateTask
<1>. HIDE DEF placed
<1>3. /\ Settle(placed, {j}, "failed")[j].lane = placed[j].lane
      /\ Settle(placed, {j}, "failed")[j].conn = placed[j].conn
  BY <1>1, SettleRows, "failed" \in JobStatus DEF JobStatus, TypeOK
<1>4. PlacedRow(l).lane = l /\ PlacedRow(l).conn = connections[l[1]]
  BY DEF PlacedRow
<1>. QED BY <1>1, <1>2, <1>3, <1>4

\* Only createTask starts a job.
LEMMA StartIsPlacement ==
    ASSUME TypeOK, [Next]_vars, NEW j \in Job,
           jobs[j].status = "unused", jobs'[j].status # "unused"
    PROVE  \E l \in Lane, sent \in BOOLEAN : CreateTask(j, l, sent)
<1>1. Starts(j)
  BY JobMoves DEF Moves, Stays, LosesRow, Ends, Ended
<1>2. CASE Releases
  BY <1>1, <1>2 DEF Releases
<1>3. CASE Beats
  BY <1>3 DEF Beats, Heartbeat
<1>4. CASE Places
  <2>1. PICK k \in Job, l \in Lane, sent \in BOOLEAN : CreateTask(k, l, sent)
    BY <1>4 DEF Places
  <2>2. j = k
    BY <2>1, CreateMoves DEF Stays
  <2>. QED BY <2>1, <2>2
<1>. QED BY <1>2, <1>3, <1>4, ReservationMoves

\* A placement relies on a recent heartbeat of the very connection the work is sent to
\* (createTask, nodeStatus, and the last_seen = 0 of connectNode).
THEOREM PlacedByEvidence == HSpec => PlacedOnOwnHeartbeat
<1>1. ASSUME HeardInv, [HNext]_hvars, NEW j \in Job,
             jobs[j].status = "unused", jobs'[j].status # "unused"
      PROVE  /\ heardFrom[jobs'[j].lane[1]] = jobs'[j].conn
             /\ now - heardAt[jobs'[j].lane[1]] <= StaleAfter
  <2>1. TypeOK /\ [Next]_vars /\ now \in Nat /\ now >= Start
    BY <1>1 DEF HNext, Next, hvars, HeardInv, ConnInv, TypeOK
  <2>2. PICK l \in Lane, sent \in BOOLEAN : CreateTask(j, l, sent)
    BY <1>1, <2>1, StartIsPlacement
  <2>3. jobs'[j].lane = l /\ jobs'[j].conn = connections[l[1]]
    BY <2>1, <2>2, CreatePlaces
  <2>4. /\ l[1] \in Node /\ connections[l[1]] # None
        /\ lastSeen[l[1]] # None /\ now - lastSeen[l[1]] <= StaleAfter
    BY <2>2 DEF CreateTask, Candidate, Dispatchable, Online, Lane
  <2>5. lastSeen[l[1]] # 0
    BY <2>1, <2>4, LimitsAssumption
  <2>6. heardFrom[l[1]] = connections[l[1]] /\ heardAt[l[1]] = lastSeen[l[1]]
    BY <1>1, <2>4, <2>5 DEF HeardInv, RowsAreHeard
  <2>. QED BY <2>3, <2>4, <2>6
<1>2. HeardInv /\ [HNext]_hvars =>
        [\A j \in Job :
            jobs[j].status = "unused" /\ jobs'[j].status # "unused" =>
                LET n == jobs'[j].lane[1]
                IN  /\ heardFrom[n] = jobs'[j].conn
                    /\ now - heardAt[n] <= StaleAfter]_hvars
  BY <1>1
<1>. QED BY <1>2, HeardInvariant, PTL DEF HSpec, PlacedOnOwnHeartbeat

-----------------------------------------------------------------------------
(* Heartbeats and quarantine.                                              *)

\* What the reservation holds as idle_seen_at was seen: since then the lane was reported
\* idle, and nothing but idle.
SeenIsReported ==
    \A l \in Lane :
       /\ idleSeen[l] # None => idleSince[l] # None /\ idleSince[l] <= idleSeen[l]
       /\ idleSince[l] # None => idleSince[l] <= now

ReportInv == HeardInv /\ EvidenceInv /\ SeenIsReported

\* Of the steps that are no heartbeat.
LEMMA SilentKeepsEvidence ==
    ASSUME TypeOK, SilentNext \/ UNCHANGED vars, NEW l \in Lane
    PROVE  idleSeen'[l] \in {idleSeen[l], None}
<1>1. CASE Releases
  BY <1>1 DEF Releases, Released
<1>2. CASE Places
  BY <1>2 DEF Places, CreateTask, TypeOK
<1>. QED BY <1>1, <1>2, SilentMoves

\* A report of idleness starts or goes on; any other ends it in both records.
LEMMA NextReportInv == ReportInv /\ [HNext]_hvars => ReportInv'
<1>. SUFFICES ASSUME ReportInv, [HNext]_hvars
              PROVE  ReportInv'
  OBVIOUS
<1>1. [Next]_vars
  BY DEF HNext, Next, hvars
<1>2. HeardInv' /\ EvidenceInv' /\ TypeOK /\ HistoryType /\ now \in Nat
  BY <1>1, NextHeardInv, NextEvidenceInv DEF ReportInv, HeardInv, ConnInv, TypeOK
<1>3. CASE \E c \in Conn, report \in Report : Heartbeat(c, report) /\ Record(c, report)
  <2>1. PICK c \in Conn, report \in Report : Heartbeat(c, report) /\ Record(c, report)
    BY <1>3
  <2>. DEFINE n == NodeOf(c)
              q == Quarantined(n)
  <2>2. ASSUME NEW l \in Lane, idleSeen'[l] # None
        PROVE  idleSince'[l] # None /\ idleSince'[l] <= idleSeen'[l]
    <3>1. /\ idleSeen'[l] = IF l \notin q THEN idleSeen[l]
                            ELSE IF ~ReportsIdle(report, l) \/ Recovers(l, report) THEN None
                            ELSE IF idleSeen[l] = None THEN now
                            ELSE idleSeen[l]
          /\ idleSince'[l] = IF l[1] # n THEN idleSince[l]
                             ELSE IF ~ReportsIdle(report, l) THEN None
                             ELSE IF idleSince[l] = None THEN now
                             ELSE idleSince[l]
      BY <2>1 DEF Heartbeat, Record
    <3>2. l \in q <=> l[1] = n /\ holder[l] # None /\ jobs[holder[l]].status = "expired"
      BY DEF Quarantined
    <3>3. /\ idleSeen[l] # None =>
                /\ holder[l] # None /\ jobs[holder[l]].status = "expired"
                                /\ idleSeen[l] <= now
                                /\ idleSince[l] # None /\ idleSince[l] <= idleSeen[l]
          /\ idleSince[l] # None => idleSince[l] <= now
      BY DEF ReportInv, EvidenceInv, IdleEvidenceIsOwn, SeenIsReported
    <3>4. idleSince[l] \in Nat \cup {None} /\ idleSeen[l] \in Nat \cup {None}
      BY <1>2 DEF HistoryType, TypeOK
    <3>5. None \notin Nat
      BY NoneAssumption
    <3>. HIDE DEF n, q
    <3>6. CASE l[1] # n
      BY <2>2, <3>1, <3>2, <3>3, <3>6
    <3>7. CASE l[1] = n /\ idleSeen[l] # None
      BY <1>2, <2>2, <3>1, <3>2, <3>3, <3>4, <3>5, <3>7
    <3>8. CASE l[1] = n /\ idleSeen[l] = None
      <4>1. l \in q /\ ReportsIdle(report, l) /\ idleSeen'[l] = now
        BY <2>2, <3>1, <3>8
      <4>2. CASE idleSince[l] = None
        BY <1>2, <3>1, <3>5, <3>8, <4>1, <4>2
      <4>3. CASE idleSince[l] # None
        BY <1>2, <3>1, <3>3, <3>4, <3>8, <4>1, <4>3
      <4>. QED BY <4>2, <4>3
    <3>. QED BY <3>6, <3>7, <3>8
  <2>3. ASSUME NEW l \in Lane, idleSince'[l] # None
        PROVE  idleSince'[l] <= now'
    <3>1. now' = now /\ idleSince'[l] \in {idleSince[l], None, now}
      BY <2>1 DEF Heartbeat, Record
    <3>. QED BY <1>2, <2>3, <3>1 DEF ReportInv, SeenIsReported
  <2>. QED BY <1>2, <2>2, <2>3 DEF ReportInv, SeenIsReported
<1>4. CASE (SilentNext \/ UNCHANGED vars) /\ UNCHANGED history
  <2>1. \A l \in Lane : idleSeen'[l] \in {idleSeen[l], None}
    BY <1>2, <1>4, SilentKeepsEvidence
  <2>2. idleSince' = idleSince /\ now' \in Nat /\ now' >= now
    BY <1>1, <1>2, <1>4, NowRuns DEF history
  <2>3. \A l \in Lane : idleSince[l] \in Nat \cup {None}
    BY <1>2 DEF HistoryType
  <2>4. SeenIsReported'
    BY <1>2, <2>1, <2>2, <2>3 DEF ReportInv, SeenIsReported
  <2>. QED BY <1>2, <2>4 DEF ReportInv
<1>. QED BY <1>3, <1>4 DEF HNext, hvars

\* The invariant behind RecoveryIsEvidenced.
LEMMA ReportInvariant == HSpec => []ReportInv
<1>1. HInit => ReportInv
  <2>. SUFFICES ASSUME HInit
                PROVE  ReportInv
    OBVIOUS
  <2>1. EvidenceInv /\ HeardInv
    BY InitEvidenceInv, InitHeardInv DEF HInit
  <2>. QED BY <2>1 DEF HInit, Init, ReportInv, SeenIsReported
<1>. QED BY <1>1, NextReportInv, PTL DEF HSpec

\* Only a heartbeat frees the lane of a job that stays expired.
LEMMA SilentKeepsQuarantine ==
    ASSUME TypeOK, SilentNext \/ UNCHANGED vars, NEW l \in Lane, holder[l] # None,
           jobs[holder[l]].status = "expired", jobs'[holder[l]].status = "expired"
    PROVE  holder'[l] # None
<1>1. CASE Releases
  <2>1. PICK S \in SUBSET Job : Released(S) /\ \A j \in S : jobs'[j].status # "expired"
    BY <1>1 DEF Releases
  <2>2. holder[l] \notin S
    BY <2>1
  <2>. QED BY <2>1, <2>2 DEF Released
<1>2. CASE Places
  <2>1. PICK j \in Job, k \in Lane, sent \in BOOLEAN : CreateTask(j, k, sent)
    BY <1>2 DEF Places
  <2>2. holder'[l] = holder[l] \/ l = k
    BY <2>1 DEF CreateTask, TypeOK
  <2>3. holder[k] = None
    BY <2>1 DEF CreateTask, Candidate, Unreserved
  <2>. QED BY <2>2, <2>3
<1>. QED BY <1>1, <1>2, SilentMoves

\* The heartbeat that ends a quarantine is the second of two idle reports, and the lane was
\* reported idle ever since the first.
LEMMA BeatRecovers ==
    ASSUME ReportInv, NEW c \in Conn, NEW report \in Report,
           Heartbeat(c, report), Record(c, report),
           NEW l \in Lane, holder[l] # None, holder'[l] = None
    PROVE  /\ idleSince'[l] # None
           /\ idleSince'[l] + IdleGap <= now
           /\ jobs[holder[l]].completed + IdleGap <= now
<1>. DEFINE n == NodeOf(c)
<1>1. TypeOK /\ HistoryType /\ now \in Nat /\ IdleGap \in Nat
  BY LimitsAssumption DEF ReportInv, HeardInv, ConnInv, TypeOK
<1>2. /\ l \in Quarantined(n)
      /\ ReportsIdle(report, l)
      /\ idleSeen[l] # None
      /\ now - idleSeen[l] >= IdleGap
  BY DEF Heartbeat, Recovers
<1>3. l[1] = n
  BY <1>2 DEF Quarantined
<1>4. /\ idleSince[l] # None /\ idleSince[l] <= idleSeen[l]
      /\ jobs[holder[l]].completed <= idleSeen[l]
  BY <1>2 DEF ReportInv, EvidenceInv, IdleEvidenceIsOwn, SeenIsReported
<1>5. idleSince'[l] = idleSince[l]
  BY <1>2, <1>3, <1>4 DEF Record
<1>6. idleSince[l] \in Nat /\ idleSeen[l] \in Nat
  BY <1>1, <1>2, <1>4 DEF HistoryType, TypeOK
<1>7. jobs[holder[l]].completed \in Nat
  <2>1. holder[l] \in Job /\ jobs[holder[l]].status = "expired"
    BY <1>1, <1>2 DEF TypeOK, Quarantined
  <2>. QED BY <2>1 DEF ReportInv, EvidenceInv, TimeInv, TimedOut
<1>. QED BY <1>1, <1>2, <1>4, <1>5, <1>6, <1>7

\* Only idleness that the node reported ends a quarantine, and only after the job timed out
\* (recordHeartbeat against what the heartbeats said).
THEOREM RecoveryIsEvidenced == HSpec => RecoveredByEvidence
<1>1. ASSUME ReportInv, [HNext]_hvars, NEW l \in Lane, holder[l] # None, holder'[l] = None,
             jobs[holder[l]].status = "expired", jobs'[holder[l]].status = "expired"
      PROVE  /\ idleSince'[l] # None
             /\ idleSince'[l] + IdleGap <= now
             /\ jobs[holder[l]].completed + IdleGap <= now
  <2>1. TypeOK
    BY <1>1 DEF ReportInv, HeardInv, ConnInv
  <2>2. ~(SilentNext \/ UNCHANGED vars)
    BY <1>1, <2>1, SilentKeepsQuarantine
  <2>3. PICK c \in Conn, report \in Report : Heartbeat(c, report) /\ Record(c, report)
    BY <1>1, <2>2 DEF HNext, hvars
  <2>. QED BY <1>1, <2>3, BeatRecovers
<1>2. ReportInv /\ [HNext]_hvars =>
        [\A l \in Lane :
            /\ holder[l] # None
            /\ holder'[l] = None
            /\ jobs[holder[l]].status = "expired"
            /\ jobs'[holder[l]].status = "expired"
            => /\ idleSince'[l] # None
               /\ idleSince'[l] + IdleGap <= now
               /\ jobs[holder[l]].completed + IdleGap <= now]_hvars
  BY <1>1
<1>. QED BY <1>2, ReportInvariant, PTL DEF HSpec, RecoveredByEvidence
=============================================================================

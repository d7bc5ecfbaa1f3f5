------------------------- MODULE FabricRoomHistory --------------------------
(***************************************************************************)
(* FabricRoom with what the heartbeats said, as seen from outside: history *)
(* variables that record every accepted heartbeat whether or not the room  *)
(* looks at it.  They change no behaviour of FabricRoom; the properties    *)
(* here compare what the room does with what the nodes really reported.    *)
(***************************************************************************)
EXTENDS FabricRoom

VARIABLES
    heardAt,    \* when the node's last heartbeat arrived, None before
    heardFrom,  \* the connection it came over
    idleSince   \* since when every heartbeat reported the lane idle, None if
                \* the last one did not

history == <<heardAt, heardFrom, idleSince>>
hvars == <<vars, history>>

HInit ==
    /\ Init
    /\ heardAt = [n \in Node |-> None]
    /\ heardFrom = [n \in Node |-> None]
    /\ idleSince = [l \in Lane |-> None]

Record(c, report) ==
    LET n == NodeOf(c)
    IN  /\ heardAt' = [heardAt EXCEPT ![n] = now]
        /\ heardFrom' = [heardFrom EXCEPT ![n] = c]
        /\ idleSince' = [l \in Lane |->
                IF l[1] # n THEN idleSince[l]
                ELSE IF ~ReportsIdle(report, l) THEN None
                ELSE IF idleSince[l] = None THEN now
                ELSE idleSince[l]]

HNext ==
    \/ \E c \in Conn, report \in Report : Heartbeat(c, report) /\ Record(c, report)
    \/ SilentNext /\ UNCHANGED history

HSpec == HInit /\ [][HNext]_hvars

\* Also with a clock that runs and alarms that are delivered.
HFairSpec == HSpec /\ Fairness

-----------------------------------------------------------------------------
\* A placement relies on a heartbeat of the very connection the work is sent
\* to, at most StaleAfter old: never on what the node reported before it
\* reconnected, however recent that is.
PlacedOnOwnHeartbeat ==
    [][\A j \in Job :
        jobs[j].status = "unused" /\ jobs'[j].status # "unused" =>
            LET n == jobs'[j].lane[1]
            IN  /\ heardFrom[n] = jobs'[j].conn
                /\ now - heardAt[n] <= StaleAfter]_hvars

\* A heartbeat ends a quarantine only if the lane was reported idle, without
\* a contrary report in between, for at least IdleGap since some time after
\* the job timed out.
RecoveredByEvidence ==
    [][\A l \in Lane :
        /\ holder[l] # None
        /\ holder'[l] = None
        /\ jobs[holder[l]].status = "expired"
        /\ jobs'[holder[l]].status = "expired"
        => /\ idleSince'[l] # None
           /\ idleSince'[l] + IdleGap <= now
           /\ jobs[holder[l]].completed + IdleGap <= now]_hvars

\* docs/fabric.md: "Timed-out runtime reservations remain quarantined until
\* separated idle heartbeats demonstrate recovery."  Whatever releases the
\* lane of a job that timed out, the lane was reported idle for IdleGap.
QuarantineUntilIdle ==
    [][\A l \in Lane :
        /\ holder[l] # None
        /\ holder'[l] = None
        /\ jobs[holder[l]].status = "expired"
        => idleSince'[l] # None /\ idleSince'[l] + IdleGap <= now]_hvars

\* docs/fabric.md: "disconnected node metadata after seven days".  A node's
\* row is deleted only when its last heartbeat is older than NodeRetention.
NodeMetadataRetained ==
    [][\A n \in Node :
        lastSeen[n] # None /\ lastSeen'[n] = None => heardAt[n] < now - NodeRetention]_hvars
=============================================================================

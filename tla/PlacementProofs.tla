-------------------------- MODULE PlacementProofs ---------------------------
(***************************************************************************)
(* Theorems about Placement, for every set of nodes, reports and tasks,    *)
(* every bound of the sanitizers and every clock.                          *)
(***************************************************************************)
EXTENDS Placement, WellFoundedInduction, FiniteSetTheorems, TLAPS

-----------------------------------------------------------------------------
(* The nodes table.                                                        *)

\* At first there are no rows.
LEMMA TypeInit == Init => TypeOK
BY ClockAssumption DEF Init, TypeOK

\* connectNode and recordHeartbeat are the steps that write a row.
LEMMA TypeNext == TypeOK /\ [Next]_vars => TypeOK'
<1>. SUFFICES ASSUME TypeOK, [Next]_vars
              PROVE  TypeOK'
  OBVIOUS
<1>. USE DEF TypeOK
<1>1. ASSUME NEW n \in Node, ConnectNode(n)
      PROVE  TypeOK'
  <2>1. row'[n] = IF row[n] = None THEN None
                  ELSE [last_seen |-> 0, snapshot |-> row[n].snapshot]
    BY <1>1 DEF ConnectNode
  <2>2. row'[n] \in Row \cup {None}
    BY <2>1 DEF Row
  <2>3. row' \in [Node -> Row \cup {None}]
    BY <1>1, <2>1, <2>2 DEF ConnectNode
  <2>4. \A k \in Node : row'[k] # None => row[k] # None /\ row'[k].snapshot = row[k].snapshot
    BY <1>1, <2>1 DEF ConnectNode
  <2>. QED BY <1>1, <2>3, <2>4 DEF ConnectNode
<1>2. ASSUME NEW n \in Node, NEW raw \in RawSnapshot, Heartbeat(n, raw)
      PROVE  TypeOK'
  <2>1. [last_seen |-> now, snapshot |-> SanitizeNodeSnapshot(raw)] \in Row
    BY DEF Row
  <2>2. row' \in [Node -> Row \cup {None}] /\ accepted' \in [Node -> RawSnapshot \cup {None}]
    BY <1>2, <2>1 DEF Heartbeat
  <2>3. /\ row'[n].snapshot = SanitizeNodeSnapshot(raw)
        /\ accepted'[n] = raw /\ raw # None /\ AcceptsSnapshot(raw, n)
    BY <1>2, NodeAssumption DEF Heartbeat
  <2>4. \A k \in Node \ {n} : row'[k] = row[k] /\ accepted'[k] = accepted[k]
    BY <1>2 DEF Heartbeat
  <2>. QED BY <1>2, <2>2, <2>3, <2>4 DEF Heartbeat
<1>3. ASSUME NEW n \in Node, NEW raw \in RawSnapshot, RefusedHeartbeat(n, raw)
      PROVE  TypeOK'
  BY <1>3 DEF RefusedHeartbeat
<1>4. ASSUME NEW n \in Node, SocketGone(n)
      PROVE  TypeOK'
  BY <1>4 DEF SocketGone
<1>5. ASSUME NEW task \in RawTask, CreateTask(task)
      PROVE  TypeOK'
  BY <1>5 DEF CreateTask
<1>6. ASSUME NEW key \in reserved, Release(key)
      PROVE  TypeOK'
  BY <1>6 DEF Release
<1>7. CASE Tick
  BY <1>7 DEF Tick
<1>8. CASE UNCHANGED vars
  BY <1>8 DEF vars
<1>. HIDE DEF TypeOK
<1>. QED BY <1>1, <1>2, <1>3, <1>4, <1>5, <1>6, <1>7, <1>8 DEF Next

\* Every row of the nodes table is the sanitized form of the last report of its node that
\* passed, whatever arrives in between (recordHeartbeat, connectNode).
THEOREM RowsAreReports == Spec => []TypeOK
BY TypeInit, TypeNext, PTL DEF Spec

-----------------------------------------------------------------------------
(* What a placement rests on.                                              *)

\* A nonempty set of naturals has a least element.
LEMMA LeastNatural ==
    ASSUME NEW T \in SUBSET Nat, T # {}
    PROVE  \E m \in T : \A k \in T : m <= k
<1>. DEFINE R == {ss \in Nat \X Nat : ss[1] < ss[2]}
<1>1. IsWellFoundedOn(R, Nat)
  BY NatLessThanWellFounded DEF OpToRel
<1>2. \A x, y \in Nat : <<x, y>> \in R <=> x < y
  OBVIOUS
<1>3. PICK m \in T : \A y \in T : ~ (<<y, m>> \in R)
  <2>. HIDE DEF R
  <2>. QED BY <1>1, WFMin, Zenon
<1>4. \A k \in T : m <= k
  <2>1. TAKE k \in T
  <2>2. m \in Nat /\ k \in Nat
    OBVIOUS
  <2>3. ~ (k < m)
    BY <1>2, <1>3, <2>2
  <2>. QED BY <2>2, <2>3
<1>. QED BY <1>4

\* snapshot.runtimes.find(id) finds a runtime with that id, if there is one.
LEMMA RuntimeFound ==
    ASSUME NEW s, NEW N \in Nat, DOMAIN s.runtimes = 1 .. N, NEW id, HasRuntime(s, id)
    PROVE  RuntimeIndex(s, id) \in DOMAIN s.runtimes /\ RuntimeOf(s, id).id = id
<1>. DEFINE T == {i \in DOMAIN s.runtimes : s.runtimes[i].id = id}
<1>1. T \subseteq Nat /\ T # {}
  BY DEF HasRuntime
<1>2. PICK m \in T : \A k \in T : m <= k
  BY <1>1, LeastNatural
<1>3. m \in DOMAIN s.runtimes /\ s.runtimes[m].id = id
      /\ \A k \in DOMAIN s.runtimes : s.runtimes[k].id = id => m <= k
  BY <1>2
<1>. QED BY <1>3 DEF RuntimeIndex, RuntimeOf

\* epochMilliseconds converts to the time the node meant.
LEMMA TimesAreMeant ==
    ASSUME NEW c \in RawCandidates
    PROVE  EpochMilliseconds(c.expires_at) = Meant(c)
BY EpochAssumption DEF EpochMilliseconds, Meant

\* A hint is good after sanitizing exactly when it was usable as reported.
LEMMA UsableIsKept ==
    ASSUME NEW raw \in RawSnapshot, NEW i \in DOMAIN raw.runtimes, NEW k \in DOMAIN raw.models,
           NEW task, NEW rc \in raw.runtimes[i].prefix_cache
    PROVE  IsValidPrefixCandidate(SanitizePrefix(rc), SanitizeRuntime(raw.runtimes[i]),
                                  SanitizeModel(raw.models[k]), task)
           <=> Usable(rc, raw.runtimes[i], raw.models[k], task)
<1>. DEFINE c == SanitizePrefix(rc)
            r == SanitizeRuntime(raw.runtimes[i])
            m == SanitizeModel(raw.models[k])
<1>1. rc \in RawCandidates
  BY DEF RawCandidates
<1>2. c.expires_at = Meant(rc)
  BY <1>1, TimesAreMeant DEF SanitizePrefix
<1>3. /\ c.prefix_sha256 = rc.prefix_sha256 /\ c.prefix_bytes = rc.prefix_bytes
      /\ c.runtime_instance = rc.runtime_instance
      /\ c.model_fingerprint = rc.model_fingerprint /\ c.simulated = rc.simulated
  BY DEF SanitizePrefix
<1>4. /\ r.runtime_instance = raw.runtimes[i].runtime_instance
      /\ r.loaded_model = raw.runtimes[i].loaded_model
      /\ r.model_fingerprint = raw.runtimes[i].model_fingerprint
      /\ r.simulated = raw.runtimes[i].simulated
  BY DEF SanitizeRuntime
<1>5. m.id = raw.models[k].id /\ m.fingerprint = raw.models[k].fingerprint
  BY DEF SanitizeModel
<1>. HIDE DEF c, r, m
<1>6. IsValidPrefixCandidate(c, r, m, task) <=> Usable(rc, raw.runtimes[i], raw.models[k], task)
  BY <1>2, <1>3, <1>4, <1>5 DEF IsValidPrefixCandidate, Usable
<1>. QED BY <1>6 DEF c, r, m

(* A candidate of a stored snapshot: model m and the runtime r it names.    *)

PlacementOf(n, m, r, task) ==
    [node_id |-> n, runtime_id |-> r.id, model_id |-> m.id,
     prefix_match |-> \E c \in r.prefix_cache : IsValidPrefixCandidate(c, r, m, task),
     resident |-> r.loaded_model = m.id /\ m.resident,
     simulated |-> r.simulated \/ m.simulated]

Offers(n, m, r, task) ==
    m.available /\ task.capability \in m.capabilities /\ Runs(n, r, m, task)

\* What a row on which a placement may rest holds.
IsReport(n) ==
    /\ n \in Node /\ row[n] # None /\ conn[n] = "open" /\ NodeStatus(n, TRUE) = "online"
    /\ accepted[n] \in RawSnapshot /\ AcceptsSnapshot(accepted[n], n)
    /\ row[n].snapshot = SanitizeNodeSnapshot(accepted[n])

\* A stored snapshot has the report's models and runtimes, each one sanitized.
LEMMA StoredArrays ==
    ASSUME NEW raw \in RawSnapshot, NEW s, s = SanitizeNodeSnapshot(raw)
    PROVE  /\ s.models = [x \in DOMAIN raw.models |-> SanitizeModel(raw.models[x])]
           /\ s.runtimes = [x \in DOMAIN raw.runtimes |-> SanitizeRuntime(raw.runtimes[x])]
           /\ DOMAIN s.models = DOMAIN raw.models
           /\ DOMAIN s.runtimes = DOMAIN raw.runtimes
           /\ \E N \in Nat : DOMAIN s.models = 1 .. N
           /\ \E N \in Nat : DOMAIN s.runtimes = 1 .. N
<1>1. /\ s.models = [x \in DOMAIN raw.models |-> SanitizeModel(raw.models[x])]
      /\ s.runtimes = [x \in DOMAIN raw.runtimes |-> SanitizeRuntime(raw.runtimes[x])]
  BY DEF SanitizeNodeSnapshot
<1>2. DOMAIN s.models = DOMAIN raw.models /\ DOMAIN s.runtimes = DOMAIN raw.runtimes
  BY <1>1
<1>3. \E N \in Nat : DOMAIN s.models = 1 .. N
  BY <1>2, ArrayAssumption
<1>4. \E N \in Nat : DOMAIN s.runtimes = 1 .. N
  BY <1>2, ArrayAssumption
<1>. QED BY <1>1, <1>2, <1>3, <1>4

\* placementCandidates takes its candidates from the rows of schedulableNodes.
LEMMA CandidateIsStored ==
    ASSUME TypeOK, NEW task, NEW p \in PlacementCandidates(task)
    PROVE  \E n \in Node :
              /\ IsReport(n)
              /\ \E k \in DOMAIN row[n].snapshot.models, i \in DOMAIN row[n].snapshot.runtimes :
                    /\ Offers(n, row[n].snapshot.models[k], row[n].snapshot.runtimes[i], task)
                    /\ p = PlacementOf(n, row[n].snapshot.models[k],
                                       row[n].snapshot.runtimes[i], task)
<1>. DEFINE Good == {k \in SchedulableNodes : NodeStatus(k, TRUE) = "online"}
<1>1. PICK n \in Good : p \in CandidatesOn(n, task)
  <2>1. p \in UNION {CandidatesOn(n, task) : n \in Good}
    BY Zenon DEF PlacementCandidates
  <2>. QED BY <2>1, Zenon
<1>2. n \in SchedulableNodes /\ NodeStatus(n, TRUE) = "online"
  BY <1>1, Zenon
<1>3. IsReport(n)
  <2>1. n \in Node /\ row[n] # None /\ conn[n] = "open"
    BY <1>2 DEF SchedulableNodes, Stored
  <2>2. accepted[n] \in RawSnapshot /\ AcceptsSnapshot(accepted[n], n)
        /\ row[n].snapshot = SanitizeNodeSnapshot(accepted[n])
    BY <2>1 DEF TypeOK
  <2>. QED BY <1>2, <2>1, <2>2, Zenon DEF IsReport
<1>. DEFINE s == row[n].snapshot
<1>4. PICK k \in DOMAIN s.models :
         /\ HasRuntime(s, s.models[k].runtime)
         /\ Offers(n, s.models[k], RuntimeOf(s, s.models[k].runtime), task)
         /\ p = PlacementOf(n, s.models[k], RuntimeOf(s, s.models[k].runtime), task)
  BY <1>1, Zenon DEF CandidatesOn, Offers, PlacementOf
<1>5. PICK N \in Nat : DOMAIN s.runtimes = 1 .. N
  <2>1. accepted[n] \in RawSnapshot /\ s = SanitizeNodeSnapshot(accepted[n])
    BY <1>3, Zenon DEF IsReport
  <2>. HIDE DEF s
  <2>. QED BY <2>1, StoredArrays, Zenon
<1>. DEFINE i == RuntimeIndex(s, s.models[k].runtime)
<1>. HIDE DEF s
<1>6. i \in DOMAIN s.runtimes
  BY <1>4, <1>5, RuntimeFound
<1>7. RuntimeOf(s, s.models[k].runtime) = s.runtimes[i]
  BY DEF RuntimeOf
<1>. HIDE DEF i
<1>8. \E kk \in DOMAIN s.models, ii \in DOMAIN s.runtimes :
         /\ Offers(n, s.models[kk], s.runtimes[ii], task)
         /\ p = PlacementOf(n, s.models[kk], s.runtimes[ii], task)
  BY <1>4, <1>6, <1>7, Zenon
<1>9. n \in Node
  BY <1>3 DEF IsReport
<1>. QED BY <1>3, <1>8, <1>9, Zenon DEF s

\* A placement rests on a runtime and a model of its node's own report, and on the hints
\* usable there.
LEMMA PlacementIsReported ==
    ASSUME TypeOK, NEW task \in Tasks, NEW p \in PlacementCandidates(task),
           NEW raw, raw = accepted[p.node_id]
    PROVE  \E i \in DOMAIN raw.runtimes, k \in DOMAIN raw.models :
              /\ raw.runtimes[i].id = p.runtime_id /\ ~raw.runtimes[i].busy
              /\ raw.models[k].id = p.model_id
              /\ p.prefix_match <=> \E c \in raw.runtimes[i].prefix_cache :
                                       Usable(c, raw.runtimes[i], raw.models[k], task)
<1>0. PICK n \in Node :
         /\ IsReport(n)
         /\ \E k \in DOMAIN row[n].snapshot.models, i \in DOMAIN row[n].snapshot.runtimes :
               /\ Offers(n, row[n].snapshot.models[k], row[n].snapshot.runtimes[i], task)
               /\ p = PlacementOf(n, row[n].snapshot.models[k],
                                  row[n].snapshot.runtimes[i], task)
  BY CandidateIsStored, Zenon
<1>. DEFINE s == row[n].snapshot
<1>1. PICK k \in DOMAIN s.models, i \in DOMAIN s.runtimes :
         /\ Offers(n, s.models[k], s.runtimes[i], task)
         /\ p = PlacementOf(n, s.models[k], s.runtimes[i], task)
  BY <1>0, Zenon
<1>. DEFINE m == s.models[k]
            r == s.runtimes[i]
<1>2. raw \in RawSnapshot /\ s = SanitizeNodeSnapshot(raw)
  BY <1>0, <1>1 DEF IsReport, PlacementOf
<1>3. /\ i \in DOMAIN raw.runtimes /\ r = SanitizeRuntime(raw.runtimes[i])
      /\ k \in DOMAIN raw.models /\ m = SanitizeModel(raw.models[k])
  <2>1. /\ s.runtimes = [x \in DOMAIN raw.runtimes |-> SanitizeRuntime(raw.runtimes[x])]
        /\ s.models = [x \in DOMAIN raw.models |-> SanitizeModel(raw.models[x])]
        /\ DOMAIN s.runtimes = DOMAIN raw.runtimes /\ DOMAIN s.models = DOMAIN raw.models
    BY <1>2, StoredArrays, Zenon
  <2>. QED BY <1>1, <2>1
<1>4. /\ p.runtime_id = r.id /\ p.model_id = m.id
      /\ p.prefix_match <=> \E c \in r.prefix_cache : IsValidPrefixCandidate(c, r, m, task)
  BY <1>1 DEF PlacementOf
<1>5. ~r.busy
  BY <1>1 DEF Offers, Runs
<1>. HIDE DEF m, r, s
<1>6. /\ r.id = raw.runtimes[i].id /\ r.busy = raw.runtimes[i].busy
      /\ r.prefix_cache = {SanitizePrefix(c) : c \in raw.runtimes[i].prefix_cache}
  BY <1>3 DEF SanitizeRuntime
<1>7. m.id = raw.models[k].id
  BY <1>3 DEF SanitizeModel
<1>8. \A rc \in raw.runtimes[i].prefix_cache :
         IsValidPrefixCandidate(SanitizePrefix(rc), r, m, task)
         <=> Usable(rc, raw.runtimes[i], raw.models[k], task)
  BY <1>2, <1>3, UsableIsKept
<1>9. p.prefix_match <=> \E c \in raw.runtimes[i].prefix_cache :
                            Usable(c, raw.runtimes[i], raw.models[k], task)
  BY <1>4, <1>6, <1>8, Zenon
<1>. QED BY <1>3, <1>4, <1>5, <1>6, <1>7, <1>9

\* A placement claims a reusable prefix exactly when its node reported a hint that is usable
\* there, at the time the node means, for any reports and any mix of units.
THEOREM HintsAreUsable == Spec => []HintIsUsable
<1>1. TypeOK => HintIsUsable
  BY PlacementIsReported DEF HintIsUsable
<1>. QED BY <1>1, RowsAreReports, PTL

-----------------------------------------------------------------------------
(* The order of placement.                                                 *)

IsPlacement(p) ==
    /\ p.prefix_match \in BOOLEAN /\ p.resident \in BOOLEAN /\ p.simulated \in BOOLEAN
    /\ p.node_id \in Nat /\ p.runtime_id \in Nat

\* What placementCandidates compares are Booleans and ids.
LEMMA CandidatesAreTyped ==
    ASSUME TypeOK, NEW task, NEW p \in PlacementCandidates(task)
    PROVE  IsPlacement(p)
<1>1. PICK n \in Node :
         /\ IsReport(n)
         /\ \E k \in DOMAIN row[n].snapshot.models, i \in DOMAIN row[n].snapshot.runtimes :
               /\ Offers(n, row[n].snapshot.models[k], row[n].snapshot.runtimes[i], task)
               /\ p = PlacementOf(n, row[n].snapshot.models[k],
                                  row[n].snapshot.runtimes[i], task)
  BY CandidateIsStored, Zenon
<1>. DEFINE s == row[n].snapshot
            raw == accepted[n]
<1>2. PICK k \in DOMAIN s.models, i \in DOMAIN s.runtimes :
         p = PlacementOf(n, s.models[k], s.runtimes[i], task)
  BY <1>1, Zenon
<1>3. raw \in RawSnapshot /\ s = SanitizeNodeSnapshot(raw)
  BY <1>1, Zenon DEF IsReport
<1>. DEFINE m == s.models[k]
            r == s.runtimes[i]
<1>4. p = PlacementOf(n, m, r, task)
  BY <1>2
<1>5. i \in DOMAIN raw.runtimes /\ r = SanitizeRuntime(raw.runtimes[i])
  <2>1. /\ s.runtimes = [x \in DOMAIN raw.runtimes |-> SanitizeRuntime(raw.runtimes[x])]
        /\ DOMAIN s.runtimes = DOMAIN raw.runtimes
    BY <1>3, StoredArrays, Zenon
  <2>. QED BY <1>2, <2>1
<1>6. raw.runtimes[i].id \in Nat
  BY <1>3, <1>5, ArrayAssumption
<1>. HIDE DEF m, r, raw
<1>7. r.id \in Nat
  BY <1>5, <1>6 DEF SanitizeRuntime
<1>8. /\ p.node_id = n /\ p.runtime_id = r.id
      /\ p.prefix_match = (\E c \in r.prefix_cache : IsValidPrefixCandidate(c, r, m, task))
      /\ p.resident = (r.loaded_model = m.id /\ m.resident)
      /\ p.simulated = (r.simulated \/ m.simulated)
  BY <1>4 DEF PlacementOf
<1>. QED BY <1>7, <1>8, NodeAssumption DEF IsPlacement

\* The comparison sorts by the score, then by the ids.
LEMMA PrecedesByScore ==
    ASSUME NEW a, NEW b, IsPlacement(a), IsPlacement(b)
    PROVE  /\ Score(a) \in 0 .. 7
           /\ Precedes(a, b) <=>
                 \/ Score(b) < Score(a)
                 \/ /\ Score(b) = Score(a)
                    /\ \/ a.node_id < b.node_id
                       \/ a.node_id = b.node_id /\ a.runtime_id < b.runtime_id
BY DEF IsPlacement, Score, Precedes

\* Of any set of placements, one comes before or with every other.
LEMMA SomeIsFirst ==
    ASSUME NEW C, C # {}, \A p \in C : IsPlacement(p)
    PROVE  \E p \in C : \A q \in C : ~Precedes(q, p)
<1>. DEFINE D == {7 - Score(p) : p \in C}
<1>1. \A p \in C : Score(p) \in 0 .. 7
  BY PrecedesByScore
<1>2. D \subseteq Nat /\ D # {}
  BY <1>1
<1>3. PICK d \in D : \A x \in D : d <= x
  BY <1>2, LeastNatural
<1>. DEFINE C1 == {p \in C : 7 - Score(p) = d}
            N == {p.node_id : p \in C1}
<1>4. N \subseteq Nat /\ N # {}
  BY <1>3 DEF IsPlacement
<1>5. PICK n \in N : \A x \in N : n <= x
  BY <1>4, LeastNatural
<1>. DEFINE C2 == {p \in C1 : p.node_id = n}
            R == {p.runtime_id : p \in C2}
<1>6. R \subseteq Nat /\ R # {}
  BY <1>5 DEF IsPlacement
<1>7. PICK r \in R : \A x \in R : r <= x
  BY <1>6, LeastNatural
<1>8. PICK p \in C2 : p.runtime_id = r
  BY <1>7
<1>9. ASSUME NEW q \in C
      PROVE  ~Precedes(q, p)
  <2>1. /\ IsPlacement(p) /\ IsPlacement(q) /\ Score(p) \in 0 .. 7 /\ Score(q) \in 0 .. 7
    BY <1>1, <1>8
  <2>2. Score(q) <= Score(p)
    <3>1. d <= 7 - Score(q) /\ 7 - Score(p) = d
      BY <1>3, <1>8
    <3>. HIDE DEF D
    <3>. QED BY <2>1, <3>1
  <2>3. ASSUME Score(q) = Score(p)
        PROVE  p.node_id <= q.node_id
    <3>1. q \in C1
      BY <1>8, <2>3
    <3>. QED BY <1>5, <1>8, <3>1
  <2>4. ASSUME Score(q) = Score(p), q.node_id = p.node_id
        PROVE  p.runtime_id <= q.runtime_id
    <3>1. q \in C2
      BY <1>8, <2>4
    <3>. QED BY <1>7, <1>8, <3>1
  <2>. HIDE DEF C1, C2, N, R, D
  <2>. QED BY <2>1, <2>2, <2>3, <2>4, PrecedesByScore DEF IsPlacement
<1>. QED BY <1>8, <1>9

\* Whatever is reported and asked for, the sort of placementCandidates has a first element
\* unless there is none, and no candidate is warmer than it, or as warm with lesser ids.
THEOREM FirstIsWarmest == Spec => []WarmestFirst
<1>1. TypeOK => WarmestFirst
  <2>. SUFFICES ASSUME TypeOK, NEW task \in Tasks
                PROVE  /\ PlacementCandidates(task) # {} => FirstCandidates(task) # {}
                       /\ \A p \in FirstCandidates(task), q \in PlacementCandidates(task) :
                             /\ Score(q) <= Score(p)
                             /\ Score(q) = Score(p) =>
                                   \/ p.node_id < q.node_id
                                   \/ p.node_id = q.node_id /\ p.runtime_id <= q.runtime_id
    BY DEF WarmestFirst
  <2>1. \A p \in PlacementCandidates(task) : IsPlacement(p)
    BY CandidatesAreTyped
  <2>2. PlacementCandidates(task) # {} => FirstCandidates(task) # {}
    BY <2>1, SomeIsFirst DEF FirstCandidates
  <2>3. ASSUME NEW p \in FirstCandidates(task), NEW q \in PlacementCandidates(task)
        PROVE  /\ Score(q) <= Score(p)
               /\ Score(q) = Score(p) =>
                     \/ p.node_id < q.node_id
                     \/ p.node_id = q.node_id /\ p.runtime_id <= q.runtime_id
    <3>1. IsPlacement(p) /\ IsPlacement(q) /\ ~Precedes(q, p)
      BY <2>1 DEF FirstCandidates
    <3>2. Score(p) \in 0 .. 7 /\ Score(q) \in 0 .. 7
      BY <3>1, PrecedesByScore
    <3>3. ~(Score(p) < Score(q))
      BY <3>1, PrecedesByScore
    <3>4. Score(p) = Score(q) =>
             ~(q.node_id < p.node_id)
             /\ ~(q.node_id = p.node_id /\ q.runtime_id < p.runtime_id)
      BY <3>1, PrecedesByScore
    <3>. QED BY <3>1, <3>2, <3>3, <3>4 DEF IsPlacement
  <2>. QED BY <2>2, <2>3
<1>. QED BY <1>1, RowsAreReports, PTL

-----------------------------------------------------------------------------
(* The inventory.                                                          *)

\* A count of some of the things counted elsewhere.
LEMMA Counted ==
    ASSUME NEW S, IsFiniteSet(S), NEW T, T \subseteq S, NEW x \in T
    PROVE  IsFiniteSet(T) /\ Cardinality(T) \in 1 .. Cardinality(S)
<1>1. IsFiniteSet(T) /\ Cardinality(T) <= Cardinality(S)
  BY FS_Subset
<1>2. Cardinality(T) \in Nat /\ Cardinality(S) \in Nat
  BY <1>1, FS_CardinalityType
<1>3. Cardinality(T) # 0
  BY <1>1, FS_EmptySet
<1>. QED BY <1>1, <1>2, <1>3

\* The image of a finite set is finite.
LEMMA ImageIsFinite ==
    ASSUME NEW S, IsFiniteSet(S), NEW f, DOMAIN f = S
    PROVE  /\ IsFiniteSet({f[x] : x \in S})
           /\ Cardinality({f[x] : x \in S}) <= Cardinality(S)
<1>. DEFINE g == [x \in S |-> f[x]]
            T == {f[x] : x \in S}
<1>1. g \in Surjection(S, T)
  BY DEF Surjection
<1>. HIDE DEF g, T
<1>2. IsFiniteSet(T) /\ Cardinality(T) <= Cardinality(S)
  BY <1>1, FS_Surjection
<1>. QED BY <1>2 DEF T

\* What aggregateFabricState counts is finite: array() bounds every report.
LEMMA InventoryIsFinite == IsFiniteSet(Online) /\ IsFiniteSet(Listed)
<1>1. IsFiniteSet(Online)
  BY NodeAssumption, FS_Subset DEF Online, Stored
<1>2. IsFiniteSet(1 .. MaxModels)
  BY BoundsAssumption, FS_Interval
<1>3. IsFiniteSet(Node \X (1 .. MaxModels))
  BY <1>2, NodeAssumption, FS_Product
<1>4. Listed \subseteq Node \X (1 .. MaxModels)
  BY Zenon DEF Listed
<1>. QED BY <1>1, <1>3, <1>4, FS_Subset

\* The prefix candidates of the online nodes are finitely many.
LEMMA HintsAreFinite ==
    ASSUME TypeOK
    PROVE  IsFiniteSet(UNION {Hints(n) : n \in Online})
<1>1. ASSUME NEW n \in Online
      PROVE  IsFiniteSet(Hints(n))
  <2>. DEFINE raw == accepted[n]
              s == row[n].snapshot
  <2>1. raw \in RawSnapshot /\ s = SanitizeNodeSnapshot(raw)
    BY <1>1 DEF Online, Stored, TypeOK
  <2>2. /\ s.runtimes = [x \in DOMAIN raw.runtimes |-> SanitizeRuntime(raw.runtimes[x])]
        /\ DOMAIN s.runtimes = DOMAIN raw.runtimes
        /\ \E N \in Nat : DOMAIN s.runtimes = 1 .. N
    <3>. HIDE DEF raw, s
    <3>. QED BY <2>1, StoredArrays, Zenon
  <2>. DEFINE I == DOMAIN s.runtimes
              f == [i \in I |-> HintsOf(n, i)]
  <2>3. IsFiniteSet(I)
    BY <2>2, FS_Interval
  <2>4. ASSUME NEW i \in I
        PROVE  IsFiniteSet(HintsOf(n, i))
    <3>. DEFINE P == raw.runtimes[i].prefix_cache
                Q == s.runtimes[i].prefix_cache
                g == [c \in P |-> SanitizePrefix(c)]
                h == [c \in Q |-> <<n, i, c>>]
    <3>1. IsFiniteSet(P)
      BY <2>1, <2>2, ArrayAssumption
    <3>2. Q = {g[c] : c \in P}
      <4>1. s.runtimes[i] = SanitizeRuntime(raw.runtimes[i])
        BY <2>2
      <4>2. Q = {SanitizePrefix(c) : c \in P}
        BY <4>1 DEF SanitizeRuntime
      <4>3. \A c \in P : g[c] = SanitizePrefix(c)
        OBVIOUS
      <4>. HIDE DEF P, Q, g
      <4>. QED BY <4>2, <4>3
    <3>3. HintsOf(n, i) = {h[c] : c \in Q}
      BY DEF HintsOf
    <3>4. DOMAIN g = P /\ DOMAIN h = Q
      OBVIOUS
    <3>. HIDE DEF P, Q, g, h
    <3>5. IsFiniteSet(Q)
      BY <3>1, <3>2, <3>4, ImageIsFinite
    <3>. QED BY <3>3, <3>4, <3>5, ImageIsFinite
  <2>5. Hints(n) = UNION {f[i] : i \in I}
    BY DEF Hints
  <2>6. DOMAIN f = I
    OBVIOUS
  <2>7. \A T \in {f[i] : i \in I} : IsFiniteSet(T)
    BY <2>4
  <2>. HIDE DEF f, I
  <2>8. IsFiniteSet({f[i] : i \in I})
    BY <2>3, <2>6, ImageIsFinite
  <2>. QED BY <2>5, <2>7, <2>8, FS_UNION
<1>. DEFINE f == [n \in Online |-> Hints(n)]
<1>2. DOMAIN f = Online /\ {f[n] : n \in Online} = {Hints(n) : n \in Online}
  OBVIOUS
<1>3. \A T \in {Hints(n) : n \in Online} : IsFiniteSet(T)
  BY <1>1
<1>. HIDE DEF f
<1>4. IsFiniteSet({Hints(n) : n \in Online})
  BY <1>2, InventoryIsFinite, ImageIsFinite
<1>. QED BY <1>3, <1>4, FS_UNION

OffersOf(c) == {e \in Listed : c \in ModelAt(e).capabilities}

\* The fields of the state that aggregateFabricState returns.
LEMMA InventoryFields ==
    /\ FabricState.online_nodes = Cardinality(Online)
    /\ FabricState.resident_models = Cardinality({e \in Listed : ModelAt(e).resident})
    /\ FabricState.available_models = Cardinality({e \in Listed : ModelAt(e).available})
    /\ FabricState.prefix_candidates =
          Cardinality({h \in UNION {Hints(n) : n \in Online} : h[3].expires_at > now})
    /\ FabricState.nodes = [n \in Stored |-> Shown(n)]
    /\ FabricState.capabilities =
          [c \in UNION {ModelAt(e).capabilities : e \in Listed} |->
             [nodes |-> Cardinality({e[1] : e \in OffersOf(c)}),
              available_models |-> Cardinality({e \in OffersOf(c) : ModelAt(e).available}),
              resident_models |-> Cardinality({e \in OffersOf(c) : ModelAt(e).resident})]]
BY Zenon DEF FabricState, OffersOf

\* What placementCandidates offers is listed by aggregateFabricState.
LEMMA PlacementIsListed ==
    ASSUME TypeOK, NEW task, NEW p \in PlacementCandidates(task)
    PROVE  \E e \in Listed :
              /\ p.node_id = e[1] /\ e[1] \in Online
              /\ ModelAt(e).available /\ task.capability \in ModelAt(e).capabilities
              /\ p.resident => ModelAt(e).resident
              /\ p.prefix_match => \E h \in Hints(e[1]) : h[3].expires_at > now
<1>1. PICK n \in Node :
         /\ IsReport(n)
         /\ \E k \in DOMAIN row[n].snapshot.models, i \in DOMAIN row[n].snapshot.runtimes :
               /\ Offers(n, row[n].snapshot.models[k], row[n].snapshot.runtimes[i], task)
               /\ p = PlacementOf(n, row[n].snapshot.models[k],
                                  row[n].snapshot.runtimes[i], task)
  BY CandidateIsStored, Zenon
<1>. DEFINE s == row[n].snapshot
            raw == accepted[n]
<1>2. PICK k \in DOMAIN s.models, i \in DOMAIN s.runtimes :
         /\ Offers(n, s.models[k], s.runtimes[i], task)
         /\ p = PlacementOf(n, s.models[k], s.runtimes[i], task)
  BY <1>1, Zenon
<1>. DEFINE m == s.models[k]
            r == s.runtimes[i]
            e == <<n, k>>
<1>3. n \in Online
  BY <1>1 DEF IsReport, Online, Stored, Shown, NodeStatus
<1>4. k \in 1 .. MaxModels
  <2>1. raw \in RawSnapshot /\ s = SanitizeNodeSnapshot(raw) /\ Len(raw.models) <= MaxModels
    BY <1>1 DEF IsReport, AcceptsSnapshot
  <2>2. DOMAIN s.models = DOMAIN raw.models
    BY <2>1, StoredArrays, Zenon
  <2>3. DOMAIN raw.models = 1 .. Len(raw.models) /\ Len(raw.models) \in Nat
    BY <2>1, ArrayAssumption
  <2>. QED BY <1>2, <2>1, <2>2, <2>3, BoundsAssumption
<1>5. e \in Listed /\ e[1] = n
  BY <1>2, <1>3, <1>4 DEF Listed
<1>6. ModelAt(e) = m
  BY DEF ModelAt
<1>. HIDE DEF e
<1>7. m.available /\ task.capability \in m.capabilities
  BY <1>2 DEF Offers
<1>8. /\ p.node_id = n
      /\ p.prefix_match = (\E c \in r.prefix_cache : IsValidPrefixCandidate(c, r, m, task))
      /\ p.resident = (r.loaded_model = m.id /\ m.resident)
  <2>1. p = PlacementOf(n, m, r, task)
    BY <1>2
  <2>. HIDE DEF m, r
  <2>. QED BY <2>1 DEF PlacementOf
<1>9. ASSUME p.prefix_match
      PROVE  \E h \in Hints(n) : h[3].expires_at > now
  <2>1. PICK c \in r.prefix_cache : IsValidPrefixCandidate(c, r, m, task)
    BY <1>8, <1>9
  <2>2. c.expires_at > now
    BY <2>1 DEF IsValidPrefixCandidate
  <2>. DEFINE h == <<n, i, c>>
  <2>3. h \in HintsOf(n, i)
    BY <2>1 DEF HintsOf
  <2>4. h \in Hints(n)
    <3>. HIDE DEF h
    <3>. QED BY <1>2, <2>3, Zenon DEF Hints
  <2>. QED BY <2>2, <2>4
<1>. HIDE DEF m, r
<1>. QED BY <1>3, <1>5, <1>6, <1>7, <1>8, <1>9

\* Whatever can be placed is in the inventory shown, counted where the placement says it
\* belongs, although fabricState and schedulableNodes ask the tables different questions.
THEOREM InventoryCovers == Spec => []InventoryCoversPlacement
<1>1. TypeOK => InventoryCoversPlacement
  <2>. SUFFICES
         ASSUME TypeOK, NEW task \in Tasks, NEW p \in PlacementCandidates(task)
         PROVE  /\ FabricState.nodes[p.node_id] = "online"
                /\ task.capability \in DOMAIN FabricState.capabilities
                /\ LET c == FabricState.capabilities[task.capability] IN
                      /\ c.nodes \in 1 .. FabricState.online_nodes
                      /\ c.available_models \in 1 .. FabricState.available_models
                      /\ p.resident => c.resident_models \in 1 .. FabricState.resident_models
                /\ p.prefix_match => FabricState.prefix_candidates > 0
    BY DEF InventoryCoversPlacement
  <2>. DEFINE cap == task.capability
              c == FabricState.capabilities[cap]
  <2>1. PICK e \in Listed :
           /\ p.node_id = e[1] /\ e[1] \in Online
           /\ ModelAt(e).available /\ cap \in ModelAt(e).capabilities
           /\ p.resident => ModelAt(e).resident
           /\ p.prefix_match => \E h \in Hints(e[1]) : h[3].expires_at > now
    BY PlacementIsListed, Zenon
  <2>2. FabricState.nodes[p.node_id] = "online"
    BY <2>1, InventoryFields DEF Online
  <2>3. cap \in UNION {ModelAt(x).capabilities : x \in Listed} /\ e \in OffersOf(cap)
    BY <2>1 DEF OffersOf
  <2>4. /\ cap \in DOMAIN FabricState.capabilities
        /\ c.nodes = Cardinality({x[1] : x \in OffersOf(cap)})
        /\ c.available_models = Cardinality({x \in OffersOf(cap) : ModelAt(x).available})
        /\ c.resident_models = Cardinality({x \in OffersOf(cap) : ModelAt(x).resident})
    BY <2>3, InventoryFields
  <2>. HIDE DEF c
  <2>5. c.nodes \in 1 .. FabricState.online_nodes
    <3>. DEFINE T == {x[1] : x \in OffersOf(cap)}
    <3>1. T \subseteq Online
      BY DEF OffersOf, Listed
    <3>2. e[1] \in T
      BY <2>3
    <3>. HIDE DEF T
    <3>3. Cardinality(T) \in 1 .. Cardinality(Online)
      BY <3>1, <3>2, InventoryIsFinite, Counted
    <3>. QED BY <2>4, <3>3, InventoryFields, Zenon DEF T
  <2>6. c.available_models \in 1 .. FabricState.available_models
    <3>. DEFINE S == {x \in Listed : ModelAt(x).available}
                T == {x \in OffersOf(cap) : ModelAt(x).available}
    <3>1. IsFiniteSet(S) /\ T \subseteq S /\ e \in T
      BY <2>1, <2>3, InventoryIsFinite, FS_Subset DEF OffersOf
    <3>. HIDE DEF T
    <3>2. Cardinality(T) \in 1 .. Cardinality(S)
      <4>. HIDE DEF S
      <4>. QED BY <3>1, Counted
    <3>. QED BY <2>4, <3>2, InventoryFields DEF T
  <2>7. p.resident => c.resident_models \in 1 .. FabricState.resident_models
    <3>. HAVE p.resident
    <3>. DEFINE S == {x \in Listed : ModelAt(x).resident}
                T == {x \in OffersOf(cap) : ModelAt(x).resident}
    <3>1. IsFiniteSet(S) /\ T \subseteq S /\ e \in T
      BY <2>1, <2>3, InventoryIsFinite, FS_Subset DEF OffersOf
    <3>. HIDE DEF T
    <3>2. Cardinality(T) \in 1 .. Cardinality(S)
      <4>. HIDE DEF S
      <4>. QED BY <3>1, Counted
    <3>. QED BY <2>4, <3>2, InventoryFields DEF T
  <2>8. p.prefix_match => FabricState.prefix_candidates > 0
    <3>. HAVE p.prefix_match
    <3>. DEFINE S == UNION {Hints(n) : n \in Online}
                T == {h \in S : h[3].expires_at > now}
    <3>1. PICK h \in Hints(e[1]) : h[3].expires_at > now
      BY <2>1
    <3>2. IsFiniteSet(S) /\ h \in S
      BY <2>1, <3>1, HintsAreFinite, Zenon
    <3>3. T \subseteq S /\ h \in T
      BY <3>1, <3>2, Zenon
    <3>4. FabricState.prefix_candidates = Cardinality(T)
      BY InventoryFields, Zenon
    <3>5. IsFiniteSet(T) /\ Cardinality(T) \in 1 .. Cardinality(S)
      <4>. HIDE DEF S, T
      <4>. QED BY <3>2, <3>3, Counted
    <3>. HIDE DEF S, T
    <3>6. Cardinality(S) \in Nat
      BY <3>2, FS_CardinalityType
    <3>. QED BY <3>4, <3>5, <3>6
  <2>. QED BY <2>2, <2>4, <2>5, <2>6, <2>7, <2>8 DEF c
<1>. QED BY <1>1, RowsAreReports, PTL
=============================================================================

-------------------------- MODULE DashboardProofs ---------------------------
(***************************************************************************)
(* Theorems about Dashboard, for every set of request slots, sessions and  *)
(* jobs and every bound.                                                   *)
(***************************************************************************)
EXTENDS Dashboard, FiniteSetTheorems, TLAPS

-----------------------------------------------------------------------------
(* Requests and what the tab shows, by their types.                        *)

Answers == {"none", "ok", "denied", "error", "lost"}
Data == Session \cup Job \cup Nat \cup {"none", "running", "settled", "gone"} \cup {None}
CallRecs == [kind : Kinds \cup {None}, cookie : Session \cup {None}, job : Job \cup {None},
             answer : Answers, data : Data]

Typed ==
    /\ calls \in [Slot -> CallRecs]
    /\ job \in Shown \cup {None, RequestError}
    /\ tokenBusy \in BOOLEAN /\ taskBusy \in BOOLEAN
    /\ cookie \in Session \cup {None}
    /\ minted \subseteq Session
    /\ served \in [Job -> {"none", "running", "settled", "gone"}]
    /\ version \in Nat

\* A step writes one slot, or none.
Writes1(k, r) ==
    /\ k \in Slot /\ r \in CallRecs
    /\ calls' = [calls EXCEPT ![k] = r]

\* What a write of one slot changes.
LEMMA SlotWritten ==
    ASSUME Typed, NEW k, NEW r, Writes1(k, r)
    PROVE  /\ calls' \in [Slot -> CallRecs]
           /\ calls'[k] = r
           /\ \A x \in Slot \ {k} : calls'[x] = calls[x]
BY DEF Writes1, Typed

\* fetch: a free slot takes the request with the cookie of that moment.
LEMMA SendWrites ==
    ASSUME Typed, NEW k \in Slot, NEW kind \in Kinds, NEW j \in Job \cup {None},
           Send(k, kind, j)
    PROVE  /\ calls[k].kind = None
           /\ Writes1(k, Call(kind, cookie, j))
           /\ Call(kind, cookie, j) = [kind |-> kind, cookie |-> cookie, job |-> j,
                                       answer |-> "none", data |-> None]
<1>1. Call(kind, cookie, j) = [kind |-> kind, cookie |-> cookie, job |-> j,
                               answer |-> "none", data |-> None]
  <2>. DEFINE R(a, b, c) == [kind |-> a, cookie |-> b, job |-> c,
                             answer |-> "none", data |-> None]
  <2>1. [Free EXCEPT !.kind = kind] = R(kind, None, None)
    BY DEF Free
  <2>2. [R(kind, None, None) EXCEPT !.cookie = cookie] = R(kind, cookie, None)
    OBVIOUS
  <2>3. [R(kind, cookie, None) EXCEPT !.job = j] = R(kind, cookie, j)
    OBVIOUS
  <2>4. Call(kind, cookie, j) =
           [[[Free EXCEPT !.kind = kind] EXCEPT !.cookie = cookie] EXCEPT !.job = j]
    BY Zenon DEF Call
  <2>. HIDE DEF R
  <2>5. Call(kind, cookie, j) = R(kind, cookie, j)
    BY <2>1, <2>2, <2>3, <2>4, Zenon
  <2>. QED BY <2>5 DEF R
<1>2. Call(kind, cookie, j) \in CallRecs
  BY <1>1 DEF CallRecs, Typed, Answers, Data
<1>3. calls[k].kind = None
  BY DEF Send, Free
<1>. QED BY <1>1, <1>2, <1>3 DEF Send, Writes1

\* An answer is attached to its request.
LEMMA AnswerWrites ==
    ASSUME Typed, NEW k \in Slot, NEW a \in Answers, NEW d \in Data, Answered(k, a, d)
    PROVE  \E r \in CallRecs :
              /\ Writes1(k, r)
              /\ r.kind = calls[k].kind /\ r.cookie = calls[k].cookie /\ r.job = calls[k].job
              /\ r.answer = a /\ r.data = d
<1>. DEFINE c == calls[k]
            r == [kind |-> c.kind, cookie |-> c.cookie, job |-> c.job,
                  answer |-> a, data |-> d]
<1>1. c \in CallRecs
  BY DEF Typed
<1>2. r \in CallRecs
  BY <1>1 DEF CallRecs
<1>3. [[c EXCEPT !.answer = a] EXCEPT !.data = d] = r
  <2>. DEFINE q == [kind |-> c.kind, cookie |-> c.cookie, job |-> c.job,
                    answer |-> a, data |-> c.data]
  <2>1. [c EXCEPT !.answer = a] = q
    BY <1>1 DEF CallRecs
  <2>2. [q EXCEPT !.data = d] = r
    OBVIOUS
  <2>. QED BY <2>1, <2>2, Zenon
<1>4. calls' = [calls EXCEPT ![k] = r]
  BY <1>3 DEF Answered, Typed
<1>. HIDE DEF r
<1>5. Writes1(k, r)
  BY <1>2, <1>4 DEF Writes1
<1>. QED BY <1>2, <1>5 DEF r

\* A callback that is over frees its slot.
LEMMA DoneWrites ==
    ASSUME Typed, NEW k \in Slot, Done(k)
    PROVE  Writes1(k, Free) /\ Free.kind = None
BY DEF Done, Free, Writes1, CallRecs, Answers, Data

-----------------------------------------------------------------------------
(* What answers say is true of the Worker, and stays true.                 *)

Ended == {"settled", "gone"}

\* An answer under way against the Worker's jobs sv.
CallTrue(c, sv) ==
    /\ c.kind = "poll" =>
          /\ c.job \in Job /\ sv[c.job] # "none"
          /\ c.answer = "ok" =>
                c.data \in Status /\ (c.data = "settled" => sv[c.job] \in Ended)
    /\ c.kind = "submit" /\ c.answer = "ok" => c.data \in Job /\ sv[c.data] # "none"
    /\ c.kind = "login" /\ c.answer = "ok" => c.data \in Session

\* The job the tab shows, against them.
JobTrue(jb, sv) ==
    jb # None /\ jb.id # None =>
       sv[jb.id] # "none" /\ (jb.status = "settled" => sv[jb.id] \in Ended)

Inv ==
    /\ Typed
    /\ \A k \in Slot : CallTrue(calls[k], served)
    /\ JobTrue(job, served)

\* Jobs only move on.
Later(sv, sw) ==
    \A j \in Job :
       /\ sv[j] # "none" => sw[j] # "none"
       /\ sv[j] \in Ended => sw[j] \in Ended

\* What was true of the Worker's jobs stays true as they move on.
LEMMA TrueLater ==
    ASSUME NEW sv, NEW sw, Later(sv, sw)
    PROVE  /\ \A c : CallTrue(c, sv) => CallTrue(c, sw)
           /\ \A jb \in Shown \cup {None, RequestError} : JobTrue(jb, sv) => JobTrue(jb, sw)
<1>1. ASSUME NEW c, CallTrue(c, sv)
      PROVE  CallTrue(c, sw)
  BY <1>1 DEF CallTrue, Later
<1>2. ASSUME NEW jb \in Shown \cup {None, RequestError}, JobTrue(jb, sv)
      PROVE  JobTrue(jb, sw)
  BY <1>2 DEF JobTrue, Later, Shown, RequestError
<1>. QED BY <1>1, <1>2

\* One slot is written with a true call, and jobs move on or stay.
LEMMA CallsStayTrue ==
    ASSUME Inv, NEW k, NEW r, Writes1(k, r), Later(served, served'), CallTrue(r, served')
    PROVE  /\ calls' \in [Slot -> CallRecs]
           /\ \A x \in Slot : CallTrue(calls'[x], served')
<1>1. /\ calls' \in [Slot -> CallRecs] /\ calls'[k] = r
      /\ \A x \in Slot \ {k} : calls'[x] = calls[x]
  BY SlotWritten DEF Inv
<1>2. \A x \in Slot : CallTrue(calls[x], served')
  BY TrueLater DEF Inv
<1>. QED BY <1>1, <1>2

\* A request without an answer says nothing.
LEMMA NoneIsTrue ==
    /\ CallTrue(Free, served')
    /\ \A kind \in Kinds \ {"poll"} : \A j, r :
          r = [kind |-> kind, cookie |-> cookie, job |-> j, answer |-> "none", data |-> None]
          => CallTrue(r, served')
BY NamesAssumption DEF CallTrue, Free, Kinds

\* Most steps leave the Worker's jobs alone.
LEMMA SameJobs == served' = served => Later(served, served')
BY DEF Later

\* What is sent.
LEMMA SendKeeps ==
    ASSUME Inv, NEW k \in Slot, NEW kind \in Kinds \ {"poll"}, Send(k, kind, None),
           served' = served
    PROVE  /\ calls' \in [Slot -> CallRecs]
           /\ \A x \in Slot : CallTrue(calls'[x], served')
<1>1. PICK r : r = Call(kind, cookie, None)
  OBVIOUS
<1>2. Writes1(k, r) /\ r = [kind |-> kind, cookie |-> cookie, job |-> None,
                           answer |-> "none", data |-> None]
  BY <1>1, SendWrites DEF Inv
<1>3. CallTrue(r, served')
  BY <1>2, NoneIsTrue
<1>. QED BY <1>2, <1>3, CallsStayTrue, SameJobs

\* What is done with.
LEMMA DoneKeeps ==
    ASSUME Inv, NEW k \in Slot, Done(k), served' = served
    PROVE  /\ calls' \in [Slot -> CallRecs]
           /\ \A x \in Slot : CallTrue(calls'[x], served')
BY DoneWrites, NoneIsTrue, CallsStayTrue, SameJobs DEF Inv

\* An answer is given, or fails.
LEMMA AnswerKeeps ==
    ASSUME Inv, NEW k \in Slot, NEW a \in Answers, NEW d \in Data, Answered(k, a, d),
           Later(served, served'),
           a = "ok" /\ calls[k].kind = "poll" =>
              d \in Status /\ (d = "settled" => served'[calls[k].job] \in Ended),
           a = "ok" /\ calls[k].kind = "submit" => d \in Job /\ served'[d] # "none",
           a = "ok" /\ calls[k].kind = "login" => d \in Session
    PROVE  /\ calls' \in [Slot -> CallRecs]
           /\ \A x \in Slot : CallTrue(calls'[x], served')
<1>1. PICK r \in CallRecs :
              /\ Writes1(k, r)
              /\ r.kind = calls[k].kind /\ r.cookie = calls[k].cookie /\ r.job = calls[k].job
              /\ r.answer = a /\ r.data = d
  BY AnswerWrites DEF Inv
<1>2. CallTrue(calls[k], served')
  BY TrueLater DEF Inv
<1>3. CallTrue(r, served')
  BY <1>1, <1>2 DEF CallTrue
<1>. QED BY <1>1, <1>3, CallsStayTrue

\* What is shown stays true while the Worker's jobs move on.
LEMMA JobStays ==
    ASSUME Inv, Later(served, served')
    PROVE  job \in Shown \cup {None, RequestError} /\ JobTrue(job, served')
BY TrueLater DEF Inv, Typed

\* The Worker answers the request of slot k.
LEMMA ServeKeeps ==
    ASSUME Inv, NEW k \in Slot, Serve(k)
    PROVE  Inv'
<1>. DEFINE c == calls[k]
            authorized == c.cookie \in live
            CallsTrue == /\ calls' \in [Slot -> CallRecs]
                         /\ \A x \in Slot : CallTrue(calls'[x], served')
<1>0. c \in CallRecs /\ CallTrue(c, served) /\ Typed
  BY DEF Inv, Typed
<1>1. UNCHANGED view
  BY DEF Serve
<1>2. ASSUME CallsTrue, Later(served, served'), minted' \subseteq Session, version' = version,
             served' \in [Job -> {"none", "running", "settled", "gone"}]
      PROVE  Inv'
  <2>1. JobTrue(job', served') /\ job' \in Shown \cup {None, RequestError}
    BY <1>1, <1>2, JobStays DEF view
  <2>2. Typed'
    BY <1>0, <1>1, <1>2, <2>1 DEF Typed, view
  <2>. QED BY <1>2, <2>1, <2>2 DEF Inv
<1>3. CASE authorized /\ c.kind \in {"refresh", "relogin"}
           /\ Answered(k, "ok", version) /\ UNCHANGED worker
  <2>1. version \in Data /\ "ok" \in Answers
    BY <1>0 DEF Typed, Data, Answers
  <2>2. CallsTrue
    BY <1>3, <2>1, AnswerKeeps, SameJobs DEF worker
  <2>. QED BY <1>0, <1>2, <1>3, <2>2, SameJobs DEF worker, Typed
<1>4. CASE Answered(k, "denied", None) /\ UNCHANGED worker
  <2>1. None \in Data /\ "denied" \in Answers
    BY DEF Data, Answers
  <2>2. CallsTrue
    BY <1>4, <2>1, AnswerKeeps, SameJobs DEF worker
  <2>. QED BY <1>0, <1>2, <1>4, <2>2, SameJobs DEF worker, Typed
<1>5. CASE Answered(k, "error", None) /\ UNCHANGED worker
  <2>1. None \in Data /\ "error" \in Answers
    BY DEF Data, Answers
  <2>2. CallsTrue
    BY <1>5, <2>1, AnswerKeeps, SameJobs DEF worker
  <2>. QED BY <1>0, <1>2, <1>5, <2>2, SameJobs DEF worker, Typed
<1>6. CASE c.kind = "poll" /\ Sees(c.cookie, c.job)
           /\ Answered(k, "ok", served[c.job]) /\ UNCHANGED worker
  <2>1. c.job \in Job /\ served[c.job] \in Status
    BY <1>0, <1>6 DEF CallTrue, Typed, Sees, Status
  <2>2. served[c.job] \in Data /\ "ok" \in Answers
    BY <2>1 DEF Data, Answers, Status
  <2>3. CallsTrue
    BY <1>6, <2>1, <2>2, AnswerKeeps, SameJobs DEF worker, Ended
  <2>. QED BY <1>0, <1>2, <1>6, <2>3, SameJobs DEF worker, Typed
<1>7. CASE c.kind = "logout" /\ Answered(k, "ok", None)
           /\ UNCHANGED <<minted, served, owner, version>>
  <2>1. None \in Data /\ "ok" \in Answers
    BY DEF Data, Answers
  <2>2. CallsTrue
    BY <1>7, <2>1, AnswerKeeps, SameJobs
  <2>. QED BY <1>0, <1>2, <1>7, <2>2, SameJobs DEF Typed
<1>8. ASSUME c.kind = "login", NEW s \in Session \ minted, minted' = minted \cup {s},
             Answered(k, "ok", s), UNCHANGED <<served, owner, version>>
      PROVE  Inv'
  <2>1. s \in Data /\ "ok" \in Answers
    BY DEF Data, Answers
  <2>2. CallsTrue
    BY <1>8, <2>1, AnswerKeeps, SameJobs
  <2>. QED BY <1>0, <1>2, <1>8, <2>2, SameJobs DEF Typed
<1>9. ASSUME c.kind = "submit", NEW j \in Job, served[j] = "none",
             served' = [served EXCEPT ![j] = "running"], Answered(k, "ok", j),
             UNCHANGED <<live, minted, version>>
      PROVE  Inv'
  <2>1. j \in Data /\ "ok" \in Answers
    BY DEF Data, Answers
  <2>2. /\ Later(served, served') /\ served'[j] = "running"
        /\ served' \in [Job -> {"none", "running", "settled", "gone"}]
    BY <1>0, <1>9 DEF Later, Ended, Typed
  <2>3. CallsTrue
    BY <1>9, <2>1, <2>2, AnswerKeeps
  <2>. QED BY <1>0, <1>2, <1>9, <2>2, <2>3 DEF Typed
<1>. HIDE DEF CallsTrue
<1>. QED BY <1>3, <1>4, <1>5, <1>6, <1>7, <1>8, <1>9, Zenon DEF Serve

\* Nothing is in flight and nothing is shown.
LEMMA InvInit == Init => Inv
<1>. SUFFICES ASSUME Init
              PROVE  Inv
  OBVIOUS
<1>1. cookie \in Session \cup {None} /\ minted \subseteq Session
  BY DEF Init
<1>2. Free \in CallRecs
  BY DEF Free, CallRecs, Answers, Data
<1>3. Typed
  BY <1>1, <1>2 DEF Init, Typed
<1>4. \A k \in Slot : CallTrue(calls[k], served)
  BY NamesAssumption DEF Init, CallTrue, Free, Kinds
<1>. QED BY <1>3, <1>4 DEF Init, Inv, JobTrue

\* Every callback of the tab and every step of the Worker.
LEMMA InvNext == Inv /\ [Next]_vars => Inv'
<1>. SUFFICES ASSUME Inv, [Next]_vars
              PROVE  Inv'
  OBVIOUS
<1>. DEFINE CallsTrue == /\ calls' \in [Slot -> CallRecs]
                         /\ \A x \in Slot : CallTrue(calls'[x], served')
<1>0. Typed
  BY DEF Inv
\* A step that writes a call and what is shown, but none of the Worker's state.
<1>a. ASSUME CallsTrue, UNCHANGED worker, cookie' \in Session \cup {None},
             tokenBusy' \in BOOLEAN, taskBusy' \in BOOLEAN,
             job' \in Shown \cup {None, RequestError}, JobTrue(job', served)
      PROVE  Inv'
  BY <1>0, <1>a DEF Inv, Typed, worker
<1>b. ASSUME CallsTrue, UNCHANGED <<worker, job>>, cookie' \in Session \cup {None},
             tokenBusy' \in BOOLEAN, taskBusy' \in BOOLEAN
      PROVE  Inv'
  BY <1>0, <1>b DEF Inv, Typed, worker
<1>c. cookie \in Session \cup {None} /\ tokenBusy \in BOOLEAN /\ taskBusy \in BOOLEAN
      /\ TRUE \in BOOLEAN /\ FALSE \in BOOLEAN
  BY <1>0 DEF Typed
<1>d. {"refresh", "login", "logout", "submit"} \subseteq Kinds \ {"poll"}
  BY DEF Kinds
\* A step of the Worker that no call waits for.
<1>e. ASSUME UNCHANGED <<view, calls>>, Later(served, served'), minted' = minted,
             served' \in [Job -> {"none", "running", "settled", "gone"}], version' \in Nat
      PROVE  Inv'
  <2>1. \A x \in Slot : CallTrue(calls'[x], served')
    BY <1>e, TrueLater DEF Inv
  <2>2. JobTrue(job', served')
    BY <1>e, JobStays DEF view
  <2>. QED BY <1>0, <1>e, <2>1, <2>2 DEF Inv, Typed, view
<1>1. ASSUME NEW k \in Slot, RefreshTimer(k)
      PROVE  Inv'
  <2>1. CallsTrue
    BY <1>1, <1>d, SendKeeps DEF RefreshTimer, worker
  <2>. HIDE DEF CallsTrue
  <2>. QED BY <1>1, <1>b, <1>c, <2>1 DEF RefreshTimer, view
<1>2. ASSUME NEW k \in Slot, PollTimer(k)
      PROVE  Inv'
  <2>1. /\ job.id \in Job /\ served[job.id] # "none" /\ served' = served
        /\ Send(k, "poll", job.id)
    <3>1. job \in Shown \cup {None, RequestError} /\ JobTrue(job, served) /\ Running
      BY <1>0, <1>2 DEF Inv, Typed, PollTimer
    <3>2. job.id \in Job
      BY <3>1 DEF Running, Shown, RequestError
    <3>. QED BY <1>2, <3>1, <3>2, NamesAssumption DEF JobTrue, Running, PollTimer, worker
  <2>2. PICK r : r = Call("poll", cookie, job.id)
    OBVIOUS
  <2>3. Writes1(k, r) /\ r = [kind |-> "poll", cookie |-> cookie, job |-> job.id,
                             answer |-> "none", data |-> None]
    BY <1>0, <2>1, <2>2, SendWrites DEF Kinds
  <2>4. CallTrue(r, served')
    BY <2>1, <2>3 DEF CallTrue
  <2>5. CallsTrue
    BY <2>1, <2>3, <2>4, CallsStayTrue, SameJobs
  <2>. HIDE DEF CallsTrue
  <2>. QED BY <1>2, <1>b, <1>c, <2>5 DEF PollTimer, view
<1>3. ASSUME NEW k \in Slot, Login(k)
      PROVE  Inv'
  <2>1. CallsTrue
    BY <1>3, <1>d, SendKeeps DEF Login, worker
  <2>. HIDE DEF CallsTrue
  <2>. QED BY <1>3, <1>b, <1>c, <2>1 DEF Login
<1>4. ASSUME NEW k \in Slot, Logout(k)
      PROVE  Inv'
  <2>1. CallsTrue
    BY <1>4, <1>d, SendKeeps DEF Logout, worker
  <2>. HIDE DEF CallsTrue
  <2>. QED BY <1>4, <1>b, <1>c, <2>1 DEF Logout, view
<1>5. ASSUME NEW k \in Slot, SubmitTask(k)
      PROVE  Inv'
  <2>1. CallsTrue
    BY <1>5, <1>d, SendKeeps DEF SubmitTask, worker
  <2>2. job' = None /\ JobTrue(job', served)
    BY <1>5 DEF SubmitTask, JobTrue
  <2>. HIDE DEF CallsTrue
  <2>. QED BY <1>5, <1>a, <1>c, <2>1, <2>2 DEF SubmitTask
<1>6. ASSUME NEW k \in Slot, Serve(k)
      PROVE  Inv'
  BY <1>6, ServeKeeps
<1>7. ASSUME NEW k \in Slot, Fail(k)
      PROVE  Inv'
  <2>1. "error" \in Answers /\ "lost" \in Answers /\ None \in Data
    BY DEF Answers, Data
  <2>2. served' = served /\ (Answered(k, "error", None) \/ Answered(k, "lost", None))
    BY <1>7 DEF Fail, worker
  <2>3. CallsTrue
    BY <2>1, <2>2, AnswerKeeps, SameJobs
  <2>. HIDE DEF CallsTrue
  <2>. QED BY <1>7, <1>b, <1>c, <2>3 DEF Fail, view
<1>8. ASSUME NEW k \in Slot, Refresh(k)
      PROVE  Inv'
  <2>1. CallsTrue
    BY <1>8, DoneKeeps DEF Refresh, worker
  <2>. HIDE DEF CallsTrue
  <2>. QED BY <1>8, <1>b, <1>c, <2>1 DEF Refresh
<1>9. ASSUME NEW k \in Slot, LoginAnswered(k)
      PROVE  Inv'
  <2>1. CASE calls[k].answer = "ok"
    <3>1. calls[k].data \in Session
      BY <1>9, <2>1 DEF Inv, CallTrue, LoginAnswered, Arrives
    <3>2. PICK r : r = Call("relogin", calls[k].data, None)
      OBVIOUS
    <3>3. r = [kind |-> "relogin", cookie |-> calls[k].data, job |-> None,
               answer |-> "none", data |-> None]
      BY <3>2 DEF Call, Free
    <3>4. Writes1(k, r) /\ CallTrue(r, served') /\ served' = served
      <4>1. r \in CallRecs
        BY <3>1, <3>3 DEF CallRecs, Answers, Data, Kinds
      <4>2. CallTrue(r, served')
        BY <3>3 DEF CallTrue
      <4>. QED BY <1>9, <2>1, <3>2, <4>1, <4>2 DEF Writes1, LoginAnswered, worker
    <3>5. CallsTrue
      BY <3>4, CallsStayTrue, SameJobs
    <3>. HIDE DEF CallsTrue
    <3>. QED BY <1>9, <2>1, <1>b, <1>c, <3>1, <3>5 DEF LoginAnswered
  <2>2. CASE calls[k].answer # "ok"
    <3>1. CallsTrue
      BY <1>9, <2>2, DoneKeeps DEF LoginAnswered, worker
    <3>. HIDE DEF CallsTrue
    <3>. QED BY <1>9, <2>2, <1>b, <1>c, <3>1 DEF LoginAnswered
  <2>. QED BY <2>1, <2>2
<1>10. ASSUME NEW k \in Slot, LoginDone(k)
       PROVE  Inv'
  <2>1. CallsTrue
    BY <1>10, DoneKeeps DEF LoginDone, worker
  <2>. HIDE DEF CallsTrue
  <2>. QED BY <1>10, <1>b, <1>c, <2>1 DEF LoginDone
<1>11. ASSUME NEW k \in Slot, LogoutAnswered(k)
       PROVE  Inv'
  <2>1. CallsTrue
    BY <1>11, DoneKeeps DEF LogoutAnswered, worker
  <2>2. cookie' \in Session \cup {None}
    BY <1>11, <1>c DEF LogoutAnswered
  <2>. HIDE DEF CallsTrue
  <2>. QED BY <1>11, <1>b, <1>c, <2>1, <2>2 DEF LogoutAnswered
<1>12. ASSUME NEW k \in Slot, SubmitAnswered(k)
       PROVE  Inv'
  <2>1. CallsTrue
    BY <1>12, DoneKeeps DEF SubmitAnswered, worker
  <2>2. job' \in Shown \cup {None, RequestError} /\ JobTrue(job', served)
    <3>1. CASE calls[k].answer = "ok"
      <4>1. calls[k].data \in Job /\ served[calls[k].data] # "none"
        BY <1>12, <3>1 DEF Inv, CallTrue, SubmitAnswered, Arrives
      <4>2. job' = [id |-> calls[k].data, status |-> "running"]
        BY <1>12, <3>1 DEF SubmitAnswered
      <4>. QED BY <4>1, <4>2 DEF Shown, Status, JobTrue
    <3>2. CASE calls[k].answer # "ok"
      BY <1>12, <3>2 DEF SubmitAnswered, RequestError, JobTrue
    <3>. QED BY <3>1, <3>2
  <2>. HIDE DEF CallsTrue
  <2>. QED BY <1>12, <1>a, <1>c, <2>1, <2>2 DEF SubmitAnswered, TaskSettles
<1>13. ASSUME NEW k \in Slot, PollAnswered(k)
       PROVE  Inv'
  <2>1. CallsTrue
    BY <1>13, DoneKeeps DEF PollAnswered, worker
  <2>2. job' \in Shown \cup {None, RequestError} /\ JobTrue(job', served)
    <3>1. CASE calls[k].answer = "ok"
      <4>. DEFINE c == calls[k]
      <4>1. /\ c.job \in Job /\ served[c.job] # "none" /\ c.data \in Status
            /\ c.data = "settled" => served[c.job] \in Ended
        BY <1>13, <3>1 DEF Inv, CallTrue, PollAnswered, Arrives
      <4>2. job' = [id |-> c.job, status |-> c.data]
        BY <1>13, <3>1 DEF PollAnswered, Polled
      <4>. QED BY <4>1, <4>2 DEF Shown, JobTrue
    <3>2. CASE calls[k].answer # "ok"
      BY <1>0, <1>13, <3>2 DEF Inv, Typed, PollAnswered, Polled
    <3>. QED BY <3>1, <3>2
  <2>. HIDE DEF CallsTrue
  <2>. QED BY <1>13, <1>a, <1>c, <2>1, <2>2 DEF PollAnswered
<1>14. ASSUME NEW s \in live, EndSession(s)
       PROVE  Inv'
  BY <1>0, <1>14, <1>e, SameJobs DEF EndSession, Typed
<1>15. ASSUME NEW j \in Job, Settle(j) \/ Prune(j)
       PROVE  Inv'
  BY <1>0, <1>15, <1>e DEF Settle, Prune, Typed, Later, Ended
<1>16. CASE Change
  BY <1>0, <1>16, <1>e, SameJobs DEF Change, Typed
<1>17. CASE UNCHANGED vars
  BY <1>0, <1>17, <1>e, SameJobs DEF vars, worker, Typed
<1>. HIDE DEF CallsTrue
<1>. QED BY <1>1, <1>2, <1>3, <1>4, <1>5, <1>6, <1>7, <1>8, <1>9, <1>10, <1>11, <1>12,
            <1>13, <1>14, <1>15, <1>16, <1>17 DEF Next, Deliver, Slot

\* The inductive invariant.
LEMMA InvHolds == Spec => []Inv
BY InvInit, InvNext, PTL DEF Spec

\* The tab never shows a job settled before the Worker settled it, nor an id no task was
\* accepted under, however late and in whatever order answers are applied (setJob of
\* submitTask and of the poll).
THEOREM ShownIsTrue == Spec => []ShownJobIsNotAhead
<1>1. Inv => ShownJobIsNotAhead
  BY DEF Inv, Typed, JobTrue, ShownJobIsNotAhead, Ended
<1>. QED BY <1>1, InvHolds, PTL

-----------------------------------------------------------------------------
(* The busy flags.                                                         *)

SignIn == {"login", "relogin"}

\* A flag stands for the one slot whose request is of these kinds, if there is one.
FlagIs(flag, cs, kinds) ==
    /\ flag <=> \E k \in Slot : cs[k].kind \in kinds
    /\ \A k, x \in Slot : cs[k].kind \in kinds /\ cs[x].kind \in kinds => k = x

Busy ==
    /\ FlagIs(tokenBusy, calls, SignIn)
    /\ FlagIs(taskBusy, calls, {"submit"})

\* A step of another request keeps the flag.
LEMMA FlagKept ==
    ASSUME NEW flag \in BOOLEAN, NEW kinds, FlagIs(flag, calls, kinds), Typed,
           NEW k, NEW r, Writes1(k, r), r.kind \in kinds <=> calls[k].kind \in kinds
    PROVE  FlagIs(flag, calls', kinds)
<1>1. /\ calls'[k] = r /\ k \in Slot
      /\ \A x \in Slot \ {k} : calls'[x] = calls[x]
  BY SlotWritten DEF Writes1
<1>2. \A x \in Slot : calls'[x].kind \in kinds <=> calls[x].kind \in kinds
  BY <1>1
<1>. QED BY <1>2 DEF FlagIs

\* Sending the request raises the flag.
LEMMA FlagRaised ==
    ASSUME NEW kinds, FlagIs(FALSE, calls, kinds), Typed,
           NEW k, NEW r, Writes1(k, r), r.kind \in kinds
    PROVE  FlagIs(TRUE, calls', kinds)
<1>1. /\ calls'[k] = r /\ k \in Slot
      /\ \A x \in Slot \ {k} : calls'[x] = calls[x]
  BY SlotWritten DEF Writes1
<1>2. \A x \in Slot \ {k} : calls'[x].kind \notin kinds
  BY <1>1 DEF FlagIs
<1>. QED BY <1>1, <1>2 DEF FlagIs

\* Ending it lowers the flag.
LEMMA FlagLowered ==
    ASSUME NEW kinds, NEW flag \in BOOLEAN, FlagIs(flag, calls, kinds), Typed,
           NEW k, NEW r, Writes1(k, r), r.kind \notin kinds, calls[k].kind \in kinds
    PROVE  FlagIs(FALSE, calls', kinds)
<1>1. /\ calls'[k] = r /\ k \in Slot
      /\ \A x \in Slot \ {k} : calls'[x] = calls[x]
  BY SlotWritten DEF Writes1
<1>2. \A x \in Slot \ {k} : calls'[x].kind \notin kinds
  BY <1>1 DEF FlagIs
<1>. QED BY <1>1, <1>2 DEF FlagIs

\* No flag is up.
LEMMA BusyInit == Init => Busy
BY NamesAssumption DEF Init, Busy, FlagIs, SignIn, Free, Kinds

\* The callbacks that raise or lower a flag are those that send or end its request.
LEMMA BusyNext == Inv /\ Busy /\ [Next]_vars => Busy'
<1>. SUFFICES ASSUME Inv, Typed, Busy, [Next]_vars
              PROVE  Busy'
  BY DEF Inv
<1>0. /\ tokenBusy \in BOOLEAN /\ taskBusy \in BOOLEAN
      /\ FlagIs(tokenBusy, calls, SignIn) /\ FlagIs(taskBusy, calls, {"submit"})
  BY DEF Typed, Busy
<1>k. None \notin Kinds /\ None \notin SignIn /\ None # "submit"
  BY NamesAssumption DEF Kinds, SignIn
\* A step that writes a slot and leaves both kinds of request as they were.
<1>a. ASSUME NEW k, NEW r, Writes1(k, r), UNCHANGED <<tokenBusy, taskBusy>>,
             r.kind \in SignIn <=> calls[k].kind \in SignIn,
             r.kind = "submit" <=> calls[k].kind = "submit"
      PROVE  Busy'
  <2>1. r.kind \in {"submit"} <=> calls[k].kind \in {"submit"}
    BY <1>a
  <2>. QED BY <1>0, <1>a, <2>1, FlagKept DEF Busy
<1>b. ASSUME UNCHANGED <<tokenBusy, taskBusy, calls>>
      PROVE  Busy'
  BY <1>0, <1>b DEF Busy
<1>c. ASSUME NEW k \in Slot, NEW kind \in Kinds, NEW j \in Job \cup {None}, Send(k, kind, j)
      PROVE  \E r \in CallRecs : Writes1(k, r) /\ r.kind = kind /\ calls[k].kind = None
  <2>1. PICK r : r = Call(kind, cookie, j)
    OBVIOUS
  <2>2. /\ Writes1(k, r) /\ calls[k].kind = None
        /\ r = [kind |-> kind, cookie |-> cookie, job |-> j, answer |-> "none", data |-> None]
    BY <1>c, <2>1, SendWrites
  <2>. QED BY <2>2 DEF Writes1
<1>d. ASSUME NEW k \in Slot, Done(k)
      PROVE  \E r \in CallRecs : Writes1(k, r) /\ r.kind = None
  BY <1>d, DoneWrites DEF Writes1
<1>e. ASSUME NEW k \in Slot, NEW a \in Answers, NEW d \in Data, Answered(k, a, d),
             UNCHANGED view
      PROVE  Busy'
  <2>1. PICK r \in CallRecs : Writes1(k, r) /\ r.kind = calls[k].kind
    BY <1>e, AnswerWrites
  <2>. QED BY <1>a, <1>e, <2>1 DEF view
<1>1. ASSUME NEW k \in Slot, RefreshTimer(k)
      PROVE  Busy'
  <2>1. PICK r \in CallRecs : Writes1(k, r) /\ r.kind = "refresh" /\ calls[k].kind = None
    BY <1>1, <1>c DEF RefreshTimer, Kinds
  <2>. QED BY <1>1, <1>a, <1>k, <2>1 DEF RefreshTimer, view, SignIn
<1>2. ASSUME NEW k \in Slot, PollTimer(k)
      PROVE  Busy'
  <2>1. job.id \in Job \cup {None}
    BY <1>2 DEF PollTimer, Running, Typed, Shown, RequestError
  <2>2. PICK r \in CallRecs : Writes1(k, r) /\ r.kind = "poll" /\ calls[k].kind = None
    BY <1>2, <1>c, <2>1 DEF PollTimer, Kinds
  <2>. QED BY <1>2, <1>a, <1>k, <2>2 DEF PollTimer, view, SignIn
<1>3. ASSUME NEW k \in Slot, Login(k)
      PROVE  Busy'
  <2>1. PICK r \in CallRecs : Writes1(k, r) /\ r.kind = "login" /\ calls[k].kind = None
    BY <1>3, <1>c DEF Login, Kinds
  <2>2. FlagIs(TRUE, calls', SignIn)
    <3>1. FlagIs(FALSE, calls, SignIn)
      BY <1>0, <1>3 DEF Login, FlagIs
    <3>. QED BY <2>1, <3>1, FlagRaised DEF SignIn
  <2>3. FlagIs(taskBusy, calls', {"submit"})
    <3>1. r.kind \notin {"submit"} /\ calls[k].kind \notin {"submit"}
      BY <1>k, <2>1
    <3>. QED BY <1>0, <2>1, <3>1, FlagKept
  <2>. QED BY <1>3, <2>2, <2>3 DEF Login, Busy
<1>4. ASSUME NEW k \in Slot, Logout(k)
      PROVE  Busy'
  <2>1. PICK r \in CallRecs : Writes1(k, r) /\ r.kind = "logout" /\ calls[k].kind = None
    BY <1>4, <1>c DEF Logout, Kinds
  <2>. QED BY <1>4, <1>a, <1>k, <2>1 DEF Logout, view, SignIn
<1>5. ASSUME NEW k \in Slot, SubmitTask(k)
      PROVE  Busy'
  <2>1. PICK r \in CallRecs : Writes1(k, r) /\ r.kind = "submit" /\ calls[k].kind = None
    BY <1>5, <1>c DEF SubmitTask, Kinds
  <2>2. FlagIs(TRUE, calls', {"submit"})
    <3>1. FlagIs(FALSE, calls, {"submit"})
      BY <1>0, <1>5 DEF SubmitTask, FlagIs
    <3>. QED BY <2>1, <3>1, FlagRaised
  <2>3. FlagIs(tokenBusy, calls', SignIn)
    <3>1. r.kind \notin SignIn /\ calls[k].kind \notin SignIn
      BY <1>k, <2>1 DEF SignIn
    <3>. QED BY <1>0, <2>1, <3>1, FlagKept
  <2>. QED BY <1>5, <2>2, <2>3 DEF SubmitTask, Busy
<1>6. ASSUME NEW k \in Slot, Serve(k)
      PROVE  Busy'
  <2>1. \E a \in Answers, d \in Data : Answered(k, a, d)
    <3>1. /\ {"ok", "denied", "error"} \subseteq Answers
          /\ None \in Data /\ version \in Data /\ Session \subseteq Data /\ Job \subseteq Data
      BY DEF Answers, Data, Typed
    <3>2. ASSUME Sees(calls[k].cookie, calls[k].job), calls[k].kind = "poll"
          PROVE  served[calls[k].job] \in Data
      BY <3>2 DEF Data, Typed, Inv, CallTrue
    <3>. QED BY <1>6, <3>1, <3>2 DEF Serve
  <2>. QED BY <1>6, <1>e, <2>1 DEF Serve
<1>7. ASSUME NEW k \in Slot, Fail(k)
      PROVE  Busy'
  <2>1. "error" \in Answers /\ "lost" \in Answers /\ None \in Data
    BY DEF Answers, Data
  <2>. QED BY <1>7, <1>e, <2>1 DEF Fail
<1>8. ASSUME NEW k \in Slot, Refresh(k)
      PROVE  Busy'
  <2>1. PICK r \in CallRecs : Writes1(k, r) /\ r.kind = None
    BY <1>8, <1>d DEF Refresh
  <2>. QED BY <1>8, <1>a, <1>k, <2>1 DEF Refresh, Arrives, SignIn
<1>9. ASSUME NEW k \in Slot, LoginAnswered(k)
      PROVE  Busy'
  <2>1. calls[k].kind = "login"
    BY <1>9 DEF LoginAnswered, Arrives
  <2>2. CASE calls[k].answer = "ok"
    <3>1. PICK r : r = Call("relogin", calls[k].data, None)
      OBVIOUS
    <3>2. r.kind = "relogin"
      BY <3>1 DEF Call, Free
    <3>3. calls' = [calls EXCEPT ![k] = r] /\ UNCHANGED <<tokenBusy, taskBusy>>
      BY <1>9, <2>2, <3>1 DEF LoginAnswered
    <3>4. \A x \in Slot : /\ calls'[x].kind \in SignIn <=> calls[x].kind \in SignIn
                          /\ calls'[x].kind = "submit" <=> calls[x].kind = "submit"
      BY <2>1, <3>2, <3>3 DEF Typed, SignIn
    <3>. QED BY <1>0, <3>3, <3>4 DEF Busy, FlagIs
  <2>3. CASE calls[k].answer # "ok"
    <3>1. PICK r \in CallRecs : Writes1(k, r) /\ r.kind = None
      BY <1>9, <1>d, <2>3 DEF LoginAnswered
    <3>2. FlagIs(FALSE, calls', SignIn)
      BY <1>0, <1>k, <2>1, <3>1, FlagLowered DEF SignIn
    <3>3. FlagIs(taskBusy, calls', {"submit"})
      <4>1. r.kind \notin {"submit"} /\ calls[k].kind \notin {"submit"}
        BY <1>k, <2>1, <3>1
      <4>. QED BY <1>0, <3>1, <4>1, FlagKept
    <3>. QED BY <1>9, <2>3, <3>2, <3>3 DEF LoginAnswered, Busy
  <2>. QED BY <2>2, <2>3
<1>10. ASSUME NEW k \in Slot, LoginDone(k)
       PROVE  Busy'
  <2>1. calls[k].kind = "relogin"
    BY <1>10 DEF LoginDone, Arrives
  <2>2. PICK r \in CallRecs : Writes1(k, r) /\ r.kind = None
    BY <1>10, <1>d DEF LoginDone
  <2>3. FlagIs(FALSE, calls', SignIn)
    BY <1>0, <1>k, <2>1, <2>2, FlagLowered DEF SignIn
  <2>4. FlagIs(taskBusy, calls', {"submit"})
    <3>1. r.kind \notin {"submit"} /\ calls[k].kind \notin {"submit"}
      BY <1>k, <2>1, <2>2
    <3>. QED BY <1>0, <2>2, <3>1, FlagKept
  <2>. QED BY <1>10, <2>3, <2>4 DEF LoginDone, Busy
<1>11. ASSUME NEW k \in Slot, LogoutAnswered(k)
       PROVE  Busy'
  <2>1. PICK r \in CallRecs : Writes1(k, r) /\ r.kind = None
    BY <1>11, <1>d DEF LogoutAnswered
  <2>. QED BY <1>11, <1>a, <1>k, <2>1 DEF LogoutAnswered, Arrives, SignIn
<1>12. ASSUME NEW k \in Slot, SubmitAnswered(k)
       PROVE  Busy'
  <2>1. calls[k].kind = "submit"
    BY <1>12 DEF SubmitAnswered, Arrives
  <2>2. PICK r \in CallRecs : Writes1(k, r) /\ r.kind = None
    BY <1>12, <1>d DEF SubmitAnswered
  <2>3. FlagIs(FALSE, calls', {"submit"})
    BY <1>0, <1>k, <2>1, <2>2, FlagLowered
  <2>4. FlagIs(tokenBusy, calls', SignIn)
    <3>1. r.kind \notin SignIn /\ calls[k].kind \notin SignIn
      BY <1>k, <2>1, <2>2 DEF SignIn
    <3>. QED BY <1>0, <2>2, <3>1, FlagKept
  <2>. QED BY <1>12, <2>3, <2>4 DEF SubmitAnswered, TaskSettles, Busy
<1>13. ASSUME NEW k \in Slot, PollAnswered(k)
       PROVE  Busy'
  <2>1. PICK r \in CallRecs : Writes1(k, r) /\ r.kind = None
    BY <1>13, <1>d DEF PollAnswered
  <2>. QED BY <1>13, <1>a, <1>k, <2>1 DEF PollAnswered, Arrives, SignIn
<1>14. ASSUME NEW s \in live, EndSession(s)
       PROVE  Busy'
  BY <1>14, <1>b DEF EndSession, view
<1>15. ASSUME NEW j \in Job, Settle(j) \/ Prune(j)
       PROVE  Busy'
  BY <1>15, <1>b DEF Settle, Prune, view
<1>16. CASE Change
  BY <1>16, <1>b DEF Change, view
<1>17. CASE UNCHANGED vars
  BY <1>17, <1>b DEF vars, view
<1>. QED BY <1>1, <1>2, <1>3, <1>4, <1>5, <1>6, <1>7, <1>8, <1>9, <1>10, <1>11, <1>12,
            <1>13, <1>14, <1>15, <1>16, <1>17 DEF Next, Deliver, Slot

\* A set without two different elements has at most one.
LEMMA AtMostOne ==
    ASSUME NEW S, \A x, y \in S : x = y
    PROVE  Cardinality(S) <= 1
<1>1. CASE S = {}
  BY <1>1, FS_EmptySet
<1>2. CASE S # {}
  <2>1. PICK x : S = {x}
    BY <1>2
  <2>. QED BY <2>1, FS_Singleton
<1>. QED BY <1>1, <1>2

\* A disabled button stands for exactly one request in flight, and an enabled one for
\* none (login, submitTask, their finally blocks), whatever else the tab awaits and
\* however its requests fail.
THEOREM FlagsAreRequests == Spec => []BusyIsInFlight
<1>1. Busy => BusyIsInFlight
  <2>. SUFFICES ASSUME Busy
                PROVE  BusyIsInFlight
    OBVIOUS
  <2>1. InFlight("login") \cup InFlight("relogin")
           = {k \in Slot : calls[k].kind \in SignIn}
    BY DEF InFlight, SignIn
  <2>2. InFlight("submit") = {k \in Slot : calls[k].kind \in {"submit"}}
    BY DEF InFlight
  <2>3. Cardinality(InFlight("login") \cup InFlight("relogin")) <= 1
    BY <2>1, AtMostOne DEF Busy, FlagIs
  <2>4. Cardinality(InFlight("submit")) <= 1
    BY <2>2, AtMostOne DEF Busy, FlagIs
  <2>. QED BY <2>1, <2>2, <2>3, <2>4 DEF Busy, FlagIs, BusyIsInFlight
<1>. QED BY <1>1, BusyInit, BusyNext, InvHolds, PTL DEF Spec
=============================================================================

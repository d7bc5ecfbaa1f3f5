----------------------------- MODULE Dashboard ------------------------------
(***************************************************************************)
(* The dashboard of src/fabric/src/App.tsx in one browser tab, against the *)
(* Worker.  JavaScript runs one callback at a time, but every callback     *)
(* awaits its request: two timers, the sign-in, sign-out and task buttons  *)
(* have requests in flight at once, nothing orders their answers, and an   *)
(* answer is applied when it comes, whatever happened since it was asked   *)
(* for.                                                                    *)
(*                                                                         *)
(* A request is a slot of calls.  It is sent with the cookie of that       *)
(* moment, served by the Worker, and answered: "ok", "denied" (401),       *)
(* "error" (any other status) or "lost" (fetch rejects, before or after    *)
(* the Worker acted).  What fetch of index.ts does is reduced to what the  *)
(* tab can tell: AccessStore and FabricRoom have the rest.                 *)
(*                                                                         *)
(* Left out: rendering, the filter, messages, and AccessPanel.             *)
(***************************************************************************)
EXTENDS Naturals, FiniteSets

CONSTANTS
    Reads, Polls, Writes,  \* slots: GET /api/fabric; GET /v1/tasks/:id; the others
    Session,        \* session cookies, each of a principal of its own
    Admins,         \* those of administrators
    Job,            \* job ids
    MaxVersion,     \* bound on changes of the inventory
    MaxActs,        \* bound on what the user does
    MaxFailures,    \* bound on "error" and "lost" answers
    None

Slot == Reads \cup Polls \cup Writes

ASSUME SlotsAssumption == Reads \cap (Polls \cup Writes) = {} /\ Polls \cap Writes = {}

\* What a request is for; "relogin" is the refresh that a login awaits.
Kinds == {"refresh", "poll", "login", "relogin", "logout", "submit"}

ASSUME NamesAssumption == /\ Admins \subseteq Session
                          /\ None \notin Session \cup Job \cup Nat \cup Kinds
                          /\ MaxVersion \in Nat /\ MaxActs \in Nat /\ MaxFailures \in Nat

VARIABLES
    fabric,     \* the inventory that is shown, by its version, or None
    state,      \* RequestState
    job,        \* the job that is shown, or None
    tokenBusy, taskBusy,
    cookie,     \* fabric_session in the browser's cookie jar, or None
    calls,      \* requests in flight
    live,       \* sessions the Worker accepts
    minted,     \* sessions it ever created
    served,     \* of each job: "none", "running", "settled" or "gone" (pruned)
    owner,      \* of each job: the session that submitted it, or None
    version,    \* of the inventory
    acts, failures  \* counters for the bounds

view == <<fabric, state, job, tokenBusy, taskBusy, cookie>>
worker == <<live, minted, served, owner, version>>
vars == <<view, calls, worker, acts, failures>>

Status == {"running", "settled"}
Shown == [id : Job, status : Status]

\* What submitTask shows when its request fails.
RequestError == [id |-> None, status |-> "settled"]

Free == [kind |-> None, cookie |-> None, job |-> None, answer |-> "none", data |-> None]
Call(kind, c, j) == [Free EXCEPT !.kind = kind, !.cookie = c, !.job = j]

InFlight(kind) == {k \in Slot : calls[k].kind = kind}
Running == job # None /\ job.status = "running"

-----------------------------------------------------------------------------
(* The tab sends.                                                          *)

Send(k, kind, j) ==
    /\ calls[k] = Free
    /\ calls' = [calls EXCEPT ![k] = Call(kind, cookie, j)]

\* The five-second interval, the mount, and the retry button.
RefreshTimer(k) ==
    /\ Send(k, "refresh", None)
    /\ UNCHANGED <<view, worker, acts, failures>>

\* The effect on job: an interval that exists while the job shown is running.
PollTimer(k) ==
    /\ Running
    /\ Send(k, "poll", job.id)
    /\ UNCHANGED <<view, worker, acts, failures>>

Acts == acts < MaxActs /\ acts' = acts + 1

\* login() up to its await; the form is there in state "auth" only.
Login(k) ==
    /\ Acts
    /\ state = "auth" /\ ~tokenBusy
    /\ tokenBusy' = TRUE
    /\ Send(k, "login", None)
    /\ UNCHANGED <<fabric, state, job, taskBusy, cookie, worker, failures>>

\* logout() up to its await.
Logout(k) ==
    /\ Acts
    /\ state = "ready"
    /\ Send(k, "logout", None)
    /\ UNCHANGED <<view, worker, failures>>

\* submitTask() up to its await; the form is there while an inventory is shown.
SubmitTask(k) ==
    /\ Acts
    /\ fabric # None /\ ~taskBusy
    /\ taskBusy' = TRUE
    /\ job' = None
    /\ Send(k, "submit", None)
    /\ UNCHANGED <<fabric, state, tokenBusy, cookie, worker, failures>>

-----------------------------------------------------------------------------
(* The Worker answers.                                                     *)

\* getTask: a job is there for its owner and for administrators, until it is pruned.
Sees(s, j) == served[j] # "gone" /\ (s \in Admins \/ owner[j] = s)

Answered(k, answer, data) ==
    calls' = [calls EXCEPT ![k].answer = answer, ![k].data = data]

\* The request's session decides; POST /api/session has its own credential.
Serve(k) ==
    LET c == calls[k]  authorized == c.cookie \in live IN
    /\ c.kind # None /\ c.answer = "none"
    /\ UNCHANGED <<view, acts, failures>>
    /\ \/ /\ ~authorized /\ c.kind # "login"
          /\ Answered(k, "denied", None)
          /\ UNCHANGED worker
       \/ /\ authorized /\ c.kind \in {"refresh", "relogin"}
          /\ Answered(k, "ok", version)
          /\ UNCHANGED worker
       \/ /\ authorized /\ c.kind = "poll"
          /\ IF Sees(c.cookie, c.job) THEN Answered(k, "ok", served[c.job])
                                     ELSE Answered(k, "error", None)
          /\ UNCHANGED worker
       \/ /\ authorized /\ c.kind = "logout"
          /\ live' = live \ {c.cookie}
          /\ Answered(k, "ok", None)
          /\ UNCHANGED <<minted, served, owner, version>>
       \/ /\ c.kind = "login"
          /\ \E s \in Session \ minted :
                /\ live' = live \cup {s}
                /\ minted' = minted \cup {s}
                /\ Answered(k, "ok", s)
          /\ UNCHANGED <<served, owner, version>>
       \/ /\ c.kind = "login"
          /\ Answered(k, "denied", None)
          /\ UNCHANGED worker
       \/ /\ authorized /\ c.kind = "submit"
          /\ \E j \in Job :
                /\ served[j] = "none"
                /\ served' = [served EXCEPT ![j] = "running"]
                /\ owner' = [owner EXCEPT ![j] = c.cookie]
                /\ Answered(k, "ok", j)
          /\ UNCHANGED <<live, minted, version>>
       \/ /\ authorized /\ c.kind = "submit"      \* no node satisfies the task
          /\ Answered(k, "error", None)
          /\ UNCHANGED worker

\* Before the Worker acted or after it.
Fail(k) ==
    /\ failures < MaxFailures
    /\ failures' = failures + 1
    /\ calls[k].kind # None
    /\ \/ calls[k].answer = "none" /\ Answered(k, "error", None)
       \/ calls[k].answer # "lost" /\ Answered(k, "lost", None)
    /\ UNCHANGED <<view, worker, acts>>

\* Sessions end by expiry or revocation, jobs settle, nodes report.
EndSession(s) ==
    /\ live' = live \ {s}
    /\ UNCHANGED <<view, calls, minted, served, owner, version, acts, failures>>

Settle(j) ==
    /\ served[j] = "running"
    /\ served' = [served EXCEPT ![j] = "settled"]
    /\ UNCHANGED <<view, calls, live, minted, owner, version, acts, failures>>

\* JOB_RETENTION after it settled.
Prune(j) ==
    /\ served[j] = "settled"
    /\ served' = [served EXCEPT ![j] = "gone"]
    /\ UNCHANGED <<view, calls, live, minted, owner, version, acts, failures>>

Change ==
    /\ version < MaxVersion
    /\ version' = version + 1
    /\ UNCHANGED <<view, calls, live, minted, served, owner, acts, failures>>

-----------------------------------------------------------------------------
(* The answers arrive.                                                     *)

Arrives(k, kinds) == calls[k].kind \in kinds /\ calls[k].answer # "none"
Done(k) == calls' = [calls EXCEPT ![k] = Free]

\* Faulty variant of Refreshed: a missing session is an error like any other.
RefreshedOrError(c) ==
    IF c.answer = "ok" THEN fabric' = c.data /\ state' = "ready"
    ELSE UNCHANGED fabric /\ state' = "error"

\* What refresh() sets when its request is answered.
Refreshed(c) ==
    CASE c.answer = "ok"     -> fabric' = c.data /\ state' = "ready"
      [] c.answer = "denied" -> fabric' = None /\ state' = "auth"
      [] OTHER               -> UNCHANGED fabric /\ state' = "error"

Refresh(k) ==
    /\ Arrives(k, {"refresh"})
    /\ Refreshed(calls[k])
    /\ Done(k)
    /\ UNCHANGED <<job, tokenBusy, taskBusy, cookie, worker, acts, failures>>

\* login() awaits its own refresh before it is done.
LoginAnswered(k) ==
    /\ Arrives(k, {"login"})
    /\ IF calls[k].answer = "ok"
       THEN /\ cookie' = calls[k].data
            /\ calls' = [calls EXCEPT ![k] = Call("relogin", calls[k].data, None)]
            /\ UNCHANGED tokenBusy
       ELSE /\ tokenBusy' = FALSE
            /\ Done(k)
            /\ UNCHANGED cookie
    /\ UNCHANGED <<fabric, state, job, taskBusy, worker, acts, failures>>

LoginDone(k) ==
    /\ Arrives(k, {"relogin"})
    /\ Refreshed(calls[k])
    /\ tokenBusy' = FALSE
    /\ Done(k)
    /\ UNCHANGED <<job, taskBusy, cookie, worker, acts, failures>>

\* logout() does not look at the status; a rejected fetch leaves it at once.
LogoutAnswered(k) ==
    /\ Arrives(k, {"logout"})
    /\ cookie' = IF calls[k].answer = "ok" THEN None ELSE cookie
    /\ IF calls[k].answer = "lost"
       THEN UNCHANGED <<fabric, state>>
       ELSE fabric' = None /\ state' = "auth"
    /\ Done(k)
    /\ UNCHANGED <<job, tokenBusy, taskBusy, worker, acts, failures>>

\* Faulty variant of TaskSettles: no finally, so only an accepted task ends the wait.
TaskAccepted(c) == taskBusy' = (c.answer # "ok")

\* The finally of submitTask.
TaskSettles(c) == taskBusy' = FALSE

SubmitAnswered(k) ==
    /\ Arrives(k, {"submit"})
    /\ job' = IF calls[k].answer = "ok" THEN [id |-> calls[k].data, status |-> "running"]
              ELSE RequestError
    /\ TaskSettles(calls[k])
    /\ Done(k)
    /\ UNCHANGED <<fabric, state, tokenBusy, cookie, worker, acts, failures>>

\* Faulty variant of Polled: the status alone is taken over.
PolledStatus(c) == IF Running /\ c.answer = "ok" THEN [job EXCEPT !.status = c.data] ELSE job

\* What setJob is given, whatever job is shown by now.
Polled(c) == IF c.answer = "ok" THEN [id |-> c.job, status |-> c.data] ELSE job

PollAnswered(k) ==
    /\ Arrives(k, {"poll"})
    /\ job' = Polled(calls[k])
    /\ Done(k)
    /\ UNCHANGED <<fabric, state, tokenBusy, taskBusy, cookie, worker, acts, failures>>

Deliver(k) == \/ Refresh(k) \/ LoginAnswered(k) \/ LoginDone(k)
              \/ LogoutAnswered(k) \/ SubmitAnswered(k) \/ PollAnswered(k)

-----------------------------------------------------------------------------
Init ==
    /\ fabric = None /\ state = "loading" /\ job = None
    /\ tokenBusy = FALSE /\ taskBusy = FALSE
    /\ minted \in {{}} \cup {{s} : s \in Session}   \* the tab may have a session already
    /\ live = minted
    /\ cookie = IF minted = {} THEN None ELSE CHOOSE s \in minted : TRUE
    /\ calls = [k \in Slot |-> Free]
    /\ served = [j \in Job |-> "none"] /\ owner = [j \in Job |-> None]
    /\ version = 0 /\ acts = 0 /\ failures = 0

Next ==
    \/ \E k \in Reads : RefreshTimer(k)
    \/ \E k \in Polls : PollTimer(k)
    \/ \E k \in Writes : Login(k) \/ Logout(k) \/ SubmitTask(k)
    \/ \E k \in Slot : Serve(k) \/ Fail(k) \/ Deliver(k)
    \/ \E s \in live : EndSession(s)
    \/ \E j \in Job : Settle(j) \/ Prune(j)
    \/ Change

\* The timers run, the network delivers, the Worker answers and settles its jobs;
\* nothing is assumed of the user, of failures or of sessions.
Fairness ==
    /\ \A k \in Reads : WF_vars(RefreshTimer(k))
    /\ \A k \in Polls : WF_vars(PollTimer(k))
    /\ \A k \in Slot : WF_vars(Serve(k)) /\ WF_vars(Deliver(k))
    /\ \A j \in Job : WF_vars(Settle(j))

Spec == Init /\ [][Next]_vars /\ Fairness

-----------------------------------------------------------------------------
(* Properties.                                                             *)

\* The busy flags are exactly the requests they stand for (login, submitTask): while one
\* is in flight its button is disabled, so there is at most one sign-in and one
\* submission at a time, through sign-outs, remounts of the forms and failures; and the
\* button never stays disabled without one.
BusyIsInFlight ==
    /\ tokenBusy <=> InFlight("login") \cup InFlight("relogin") # {}
    /\ taskBusy <=> InFlight("submit") # {}
    /\ Cardinality(InFlight("login") \cup InFlight("relogin")) <= 1
    /\ Cardinality(InFlight("submit")) <= 1

\* A job is shown settled only after the Worker settled it, and no task that was not
\* accepted is shown with an id: an old answer may be late but is never wrong (setJob).
ShownJobIsNotAhead ==
    /\ job \in Shown \cup {None, RequestError}
    /\ job # None /\ job.id # None =>
          /\ served[job.id] # "none"
          /\ job.status = "settled" => served[job.id] \in {"settled", "gone"}

\* When user, sessions and network come to rest, so does the tab, on what is true: signed
\* in it shows the current inventory, signed out the sign-in form and no inventory, and no
\* button stays disabled; although late answers may have restored an old inventory or an
\* ended session's view.  A job is shown "running" for good only where no poll can tell
\* better: nobody is signed in, or the session does not see the job.
Converges ==
    <>[](/\ ~tokenBusy /\ ~taskBusy
         /\ IF cookie \in live THEN state = "ready" /\ fabric = version
                              ELSE state = "auth" /\ fabric = None
         /\ Running /\ cookie \in live => ~Sees(cookie, job.id))
=============================================================================

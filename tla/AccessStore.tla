---------------------------- MODULE AccessStore -----------------------------
(***************************************************************************)
(* Fabric access tokens and dashboard sessions: the AccessStore of         *)
(* src/fabric/worker/access.ts with the request handlers of index.ts that  *)
(* use it.                                                                 *)
(*                                                                         *)
(* SHA-256 is asynchronous, and so is reading a body: a request is a call  *)
(* that runs in segments, and between two of its segments other requests   *)
(* run, the clock advances and tokens are revoked.  A segment is one       *)
(* action; what it keeps across the await is in the call's record.         *)
(*                                                                         *)
(*   pc           what the call awaits                                     *)
(*   "hashing"    the digest of its credential                             *)
(*   "matching"   the digest of the bootstrap token, to compare it with    *)
(*                the fingerprint of a bootstrap session                   *)
(*   "reading"    the body of a POST /api/tokens                           *)
(*   "digesting"  the digest of what it is about to write or delete        *)
(*                                                                         *)
(* Abstractions: a secret and its hash are one identity; labels, prefixes  *)
(* and last_used_at are left out; same-origin checks are left out.  A      *)
(* submitted task stands for every call that awaits and then acts in the   *)
(* name of its principal (createTask of index.ts).                         *)
(***************************************************************************)
EXTENDS Integers, FiniteSets

CONSTANTS
    Token,            \* ids of access_tokens rows
    Session,          \* session cookies
    Call,             \* requests in flight at once
    Secret,           \* values the bootstrap token may be configured to
    BootstrapAdmin,   \* the principal 'bootstrap-admin'
    None,             \* SQL NULL, no row, nobody
    MaxTokens,        \* MAX_ACTIVE_TOKENS
    MaxSessions,      \* MAX_ACTIVE_SESSIONS_PER_PRINCIPAL
    TokenLife,        \* the lifetimes POST /api/tokens may ask for
    SessionLife,      \* SESSION_LIFETIME_MS
    MaxTime           \* bound: the clock stops here

ASSUME LifetimesAssumption ==
    TokenLife \subseteq Nat \ {0} /\ SessionLife \in Nat \ {0} /\ MaxTime \in Nat
ASSUME CapsAssumption == MaxTokens \in Nat /\ MaxSessions \in Nat

Role == {"admin", "agent", "node"}
TokenRow == [role : Role, expires : Nat, revoked : BOOLEAN]

ASSUME NamesAssumption ==
    /\ None \notin Token \cup Session \cup Secret \cup {BootstrapAdmin} \cup Nat \cup TokenRow
    /\ BootstrapAdmin \notin Token

Principal == Token \cup {BootstrapAdmin}
Credential == Token \cup Session \cup Secret
Operation == {"login", "logout", "submit", "list", "issue", "revoke"}

VARIABLES
    now,        \* Date.now()
    bootstrap,  \* the configured bootstrap token of this process, or None
    tokens,     \* table access_tokens
    sessions,   \* table access_sessions
    minted,     \* session cookies handed out so far
    calls       \* requests in flight

vars == <<now, bootstrap, tokens, sessions, minted, calls>>

SessionRow == [principal : Principal, fingerprint : Secret \cup {None}, expires : Nat]
CallRow == [pc        : {"idle", "hashing", "matching", "reading", "digesting", "served"},
            op        : Operation \cup {None},
            cred      : Credential \cup {None},
            principal : Principal \cup {None},
            print     : Secret \cup {None},
            at        : Nat \cup {None}]

\* A call that is past its authentication as p.
As(p, op, pc, time) == [pc |-> pc, op |-> op, cred |-> None, principal |-> p,
                        print |-> None, at |-> time]

\* A call that still authenticates with cred.
With(cred, op, pc, print) == [pc |-> pc, op |-> op, cred |-> cred, principal |-> None,
                              print |-> print, at |-> None]

Idle == As(None, None, "idle", None)

-----------------------------------------------------------------------------
\* rowIsActive.
ActiveToken(t) == tokens[t] # None /\ ~tokens[t].revoked /\ tokens[t].expires > now

\* getPrincipal(p) is not null.
Authorized(p) == IF p = BootstrapAdmin THEN bootstrap # None ELSE ActiveToken(p)

RoleOf(p) == IF p = BootstrapAdmin THEN "admin" ELSE tokens[p].role

\* Faulty variant of Permitted: the role decides, revocation is not looked at.
PermittedByRole(p, op) ==
    CASE op \in {"issue", "revoke", "list"} -> RoleOf(p) = "admin"
      [] op = "submit" -> RoleOf(p) # "node"
      [] OTHER -> TRUE

\* requirePrincipal with the role that op asks for.
Permitted(p, op) ==
    /\ Authorized(p)
    /\ op \in {"issue", "revoke", "list"} => RoleOf(p) = "admin"
    /\ op = "submit" => RoleOf(p) # "node"

\* pruneSessions: expired sessions and those of inactive tokens go.
Pruned ==
    [s \in Session |->
        IF /\ sessions[s] # None /\ sessions[s].expires > now
           /\ sessions[s].principal = BootstrapAdmin \/ ActiveToken(sessions[s].principal)
        THEN sessions[s] ELSE None]

\* Rows the caps count, as of the time a call captured before its digest.
TokensActiveAt(time) ==
    {t \in Token : tokens[t] # None /\ ~tokens[t].revoked /\ tokens[t].expires > time}
SessionsActiveAt(p, time) ==
    {s \in Session : sessions[s] # None /\ sessions[s].principal = p /\ sessions[s].expires > time}

Without(s) == [sessions EXCEPT ![s] = None]

\* The call goes on awaiting, is refused, or is served.
Await(k, row) == calls' = [calls EXCEPT ![k] = row]
Refuse(k) == Await(k, Idle)
Served(k, p) == Await(k, As(p, calls[k].op, "served", None))

-----------------------------------------------------------------------------
Init ==
    /\ now = 0
    /\ bootstrap \in Secret
    /\ tokens = [t \in Token |-> None]
    /\ sessions = [s \in Session |-> None]
    /\ minted = {}
    /\ calls = [k \in Call |-> Idle]

\* A request arrives with a credential somebody was given at some time, and
\* awaits its digest.  A login carries a bearer token in its body; a cookie
\* never logs in.
Begin(k, op, cred) ==
    /\ calls[k].pc \in {"idle", "served"}
    /\ cred \in Secret \cup minted \cup {t \in Token : tokens[t] # None}
    /\ op = "login" => cred \notin Session
    /\ Await(k, With(cred, op, "hashing", None))
    /\ UNCHANGED <<now, bootstrap, tokens, sessions, minted>>

\* createSession up to its digest: prune, and keep the time.
StartSession(k, p) ==
    /\ sessions' = Pruned
    /\ Await(k, As(p, "login", "digesting", now))
    /\ UNCHANGED tokens

\* Faulty variant of Revoked: the column is cleared.
RevokedNull(row) == [row EXCEPT !.revoked = None]

Revoked(row) == [row EXCEPT !.revoked = TRUE]

\* revokeToken: the row is marked and the token's sessions go with it.
Revocable(t) == tokens[t] # None /\ ~tokens[t].revoked
Revoke(t) ==
    /\ Revocable(t)
    /\ tokens' = [tokens EXCEPT ![t] = Revoked(@)]
    /\ sessions' = [s \in Session |->
            IF sessions[s] # None /\ sessions[s].principal = t THEN None ELSE sessions[s]]

\* The session cookies a request may bring along: the one it authenticated
\* with, or any, next to a bearer token.
CookieOf(k) == IF calls[k].cred \in Session THEN {calls[k].cred} ELSE minted

\* What the handler of a call's op does right after authenticating principal
\* p, up to its next await or its end.  A logout deletes the session of its
\* cookie, not of its principal; next to a bearer token there may be no cookie.
Dispatch(k, p) ==
    LET op == calls[k].op IN
    \/ op = "login" /\ RoleOf(p) # "node" /\ StartSession(k, p)
    \/ /\ op = "logout"
       /\ \E s \in CookieOf(k) : Await(k, [As(p, op, "digesting", None) EXCEPT !.cred = s])
       /\ UNCHANGED <<tokens, sessions>>
    \/ /\ op = "submit"
       /\ Await(k, As(p, op, "digesting", None))
       /\ UNCHANGED <<tokens, sessions>>
    \/ /\ op = "issue" /\ Permitted(p, op)
       /\ Await(k, As(p, op, "reading", None))
       /\ UNCHANGED <<tokens, sessions>>
    \/ /\ op = "list" /\ Permitted(p, op)
       /\ Served(k, p)
       /\ sessions' = Pruned
       /\ UNCHANGED tokens
    \/ /\ op = "revoke" /\ Permitted(p, op)
       /\ \E t \in Token : Revoke(t)
       /\ Served(k, p)
    \/ /\ \/ op = "login" /\ RoleOf(p) = "node"
          \/ op \notin {"login", "logout", "submit"} /\ ~Permitted(p, op)
          \/ op = "revoke" /\ \E t \in Token : ~Revocable(t)
          \/ op = "logout" /\ calls[k].cred \notin Session
       /\ Refuse(k)
       /\ UNCHANGED <<tokens, sessions>>

\* authenticateBearer after its digest.
AuthenticateBearer(k) ==
    LET cred == calls[k].cred
        p    == IF cred \in Secret THEN BootstrapAdmin ELSE cred
    IN  /\ calls[k].pc = "hashing" /\ cred \notin Session
        /\ IF (cred \in Secret /\ cred = bootstrap) \/ (cred \in Token /\ ActiveToken(cred))
           THEN Dispatch(k, p)
           ELSE Refuse(k) /\ UNCHANGED <<tokens, sessions>>
        /\ UNCHANGED <<now, bootstrap, minted>>

\* authenticateSession after its digest.  A session that is expired or whose
\* principal is gone is deleted; a bootstrap session awaits another digest.
AuthenticateSession(k) ==
    LET cred == calls[k].cred
        row  == sessions[cred]
    IN  /\ calls[k].pc = "hashing" /\ cred \in Session
        /\ IF row = None
           THEN Refuse(k) /\ UNCHANGED <<tokens, sessions>>
           ELSE IF row.expires <= now \/ ~Authorized(row.principal)
           THEN Refuse(k) /\ sessions' = Without(cred) /\ UNCHANGED tokens
           ELSE IF row.principal = BootstrapAdmin
           THEN /\ Await(k, With(cred, calls[k].op, "matching", row.fingerprint))
                /\ UNCHANGED <<tokens, sessions>>
           ELSE Dispatch(k, row.principal)
        /\ UNCHANGED <<now, bootstrap, minted>>

\* Faulty variant of Matches: the fingerprint is not compared.
MatchesAny(k) == bootstrap # None

Matches(k) == calls[k].print = bootstrap

\* authenticateSession of a bootstrap session after the second digest: the
\* session is good for the bootstrap token it was made with.
MatchFingerprint(k) ==
    /\ calls[k].pc = "matching"
    /\ IF Matches(k)
       THEN Dispatch(k, BootstrapAdmin)
       ELSE Refuse(k) /\ sessions' = Without(calls[k].cred) /\ UNCHANGED tokens
    /\ UNCHANGED <<now, bootstrap, minted>>

\* POST /api/tokens has its body: createToken takes the time and digests, or
\* validateCreateToken refuses.
ReadBody(k) ==
    /\ calls[k].pc = "reading"
    /\ \/ Await(k, As(calls[k].principal, "issue", "digesting", now))
       \/ Refuse(k)
    /\ UNCHANGED <<now, bootstrap, tokens, sessions, minted>>

\* Faulty variant of BelowTokenCap: the count is not taken again.
AnyTokenCount(k) == TRUE

\* Counted in the segment that inserts.
BelowTokenCap(k) == Cardinality(TokensActiveAt(calls[k].at)) < MaxTokens

\* createToken after its digest: count, authorize, insert.
IssueToken(k, t, role, life) ==
    /\ calls[k].pc = "digesting" /\ calls[k].op = "issue"
    /\ BelowTokenCap(k)
    /\ Permitted(calls[k].principal, "issue")
    /\ tokens[t] = None
    /\ tokens' = [tokens EXCEPT ![t] = [role |-> role, expires |-> calls[k].at + life,
                                        revoked |-> FALSE]]
    /\ Served(k, calls[k].principal)
    /\ UNCHANGED <<now, bootstrap, sessions, minted>>

\* Faulty variant of SessionExpiry: the token's end is not looked at.
FullSessionLife(p, time) == time + SessionLife

\* The expiry of a session made for p: its own lifetime or its token's end.
SessionExpiry(p, time) ==
    IF p = BootstrapAdmin \/ time + SessionLife <= tokens[p].expires
    THEN time + SessionLife ELSE tokens[p].expires

\* Faulty variant of BelowSessionCap: the count is not taken again.
AnySessionCount(k) == TRUE

BelowSessionCap(k) ==
    Cardinality(SessionsActiveAt(calls[k].principal, calls[k].at)) < MaxSessions

\* createSession after its digests: authority, count and expiry are read
\* again in the segment that inserts.
InsertSession(k, s) ==
    LET p == calls[k].principal
    IN  /\ calls[k].pc = "digesting" /\ calls[k].op = "login"
        /\ Permitted(p, "login")
        /\ BelowSessionCap(k)
        /\ SessionExpiry(p, calls[k].at) > calls[k].at
        /\ s \notin minted
        /\ minted' = minted \cup {s}
        /\ sessions' = [sessions EXCEPT ![s] =
                [principal   |-> p,
                 fingerprint |-> IF p = BootstrapAdmin THEN bootstrap ELSE None,
                 expires     |-> SessionExpiry(p, calls[k].at)]]
        /\ Served(k, p)
        /\ UNCHANGED <<now, bootstrap, tokens>>

\* createTask after its digest: the principal is required again.
SubmitTask(k) ==
    /\ calls[k].pc = "digesting" /\ calls[k].op = "submit"
    /\ Permitted(calls[k].principal, "submit")
    /\ Served(k, calls[k].principal)
    /\ UNCHANGED <<now, bootstrap, tokens, sessions, minted>>

\* deleteSession after its digest, whoever the principal is by now.
DeleteSession(k) ==
    /\ calls[k].pc = "digesting" /\ calls[k].op = "logout"
    /\ sessions' = Without(calls[k].cred)
    /\ Refuse(k)
    /\ UNCHANGED <<now, bootstrap, tokens, minted>>

\* What a call may find missing in its last segment: authority, or room
\* under the cap.  (The lifetime it also tests is there whenever authority is.)
Abandon(k) ==
    LET p == calls[k].principal
    IN  /\ calls[k].pc = "digesting"
        /\ calls[k].op \in {"issue", "login", "submit"}
        /\ \/ ~Permitted(p, calls[k].op)
           \/ calls[k].op = "issue" /\ ~BelowTokenCap(k)
           \/ calls[k].op = "login" /\ ~BelowSessionCap(k)
        /\ Refuse(k)
        /\ UNCHANGED <<now, bootstrap, tokens, sessions, minted>>

\* The Worker is restarted, perhaps with another bootstrap token or none:
\* calls are lost and initialize prunes the sessions.
Restart(secret) ==
    /\ bootstrap' = secret
    /\ calls' = [k \in Call |-> Idle]
    /\ sessions' = Pruned
    /\ UNCHANGED <<now, tokens, minted>>

Tick ==
    /\ now < MaxTime
    /\ now' = now + 1
    /\ UNCHANGED <<bootstrap, tokens, sessions, minted, calls>>

Next ==
    \/ \E k \in Call, op \in Operation, cred \in Credential : Begin(k, op, cred)
    \/ \E k \in Call : AuthenticateBearer(k)
    \/ \E k \in Call : AuthenticateSession(k)
    \/ \E k \in Call : MatchFingerprint(k)
    \/ \E k \in Call : ReadBody(k)
    \/ \E k \in Call, t \in Token, role \in Role, life \in TokenLife :
            IssueToken(k, t, role, life)
    \/ \E k \in Call, s \in Session : InsertSession(k, s)
    \/ \E k \in Call : SubmitTask(k)
    \/ \E k \in Call : DeleteSession(k)
    \/ \E k \in Call : Abandon(k)
    \/ \E secret \in Secret \cup {None} : Restart(secret)
    \/ Tick

Spec == Init /\ [][Next]_vars

-----------------------------------------------------------------------------
(* Correctness.                                                            *)

TypeOK ==
    /\ now \in Nat
    /\ bootstrap \in Secret \cup {None}
    /\ tokens \in [Token -> TokenRow \cup {None}]
    /\ sessions \in [Session -> SessionRow \cup {None}]
    /\ minted \in SUBSET Session
    /\ calls \in [Call -> CallRow]

\* What a call has with it at each await; in particular a login under way
\* was never a node's.
CarriesWhatItNeeds(k) ==
    LET call == calls[k] IN
    /\ call.pc # "idle" => call.op \in Operation
    /\ call.pc = "hashing" => call.cred \in Credential
    /\ call.pc = "matching" => call.cred \in Session
    /\ call.pc \in {"reading", "digesting", "served"} => call.principal \in Principal
    /\ call.pc = "digesting" /\ call.op \in {"login", "issue"} =>
            call.at \in Nat /\ call.at <= now
    /\ call.pc = "digesting" /\ call.op = "logout" => call.cred \in Session
    /\ call.pc = "digesting" /\ call.op = "login" /\ call.principal \in Token =>
            tokens[call.principal] # None /\ tokens[call.principal].role # "node"
CallsCarryWhatTheyNeed == \A k \in Call : CarriesWhatItNeeds(k)

\* No session outlives or outranks the token it was made with: its token is
\* not revoked and not a node's, and ends no earlier.  A revocation while
\* createSession awaits its digests must not leave a session behind.
SessionsWithinToken ==
    \A s \in Session : sessions[s] # None /\ sessions[s].principal \in Token =>
        LET t == sessions[s].principal
        IN  /\ tokens[t] # None
            /\ ~tokens[t].revoked
            /\ tokens[t].role # "node"
            /\ sessions[s].expires <= tokens[t].expires

\* MAX_ACTIVE_TOKENS holds at every moment, although createToken calls that
\* race each other await between their arrival and their insert.
TokenCap == Cardinality(TokensActiveAt(now)) <= MaxTokens

\* MAX_ACTIVE_SESSIONS_PER_PRINCIPAL holds for logins that race each other.
SessionCap ==
    \A p \in Principal : Cardinality(SessionsActiveAt(p, now)) <= MaxSessions

\* If this step serves call k, its principal is active and has the role.
HasAuthority(k) ==
    calls'[k].pc = "served" /\ calls[k].pc # "served" =>
        LET p  == calls'[k].principal
            op == calls'[k].op
        IN  \/ p = BootstrapAdmin /\ bootstrap # None
            \/ /\ p \in Token /\ ActiveToken(p)
               /\ op \in {"issue", "revoke", "list"} => tokens[p].role = "admin"
               /\ tokens[p].role # "node"

\* A call is served only while its principal is active and has the role, in
\* the very segment that does the work, however long it awaited since it was
\* authenticated.
ServedWithAuthority == [][\A k \in Call : HasAuthority(k)]_vars

\* A bootstrap session is good only while the bootstrap token it was made
\* with is configured: after a rotation no call gets past the fingerprint
\* with it.
RotationEndsBootstrapSessions ==
    [][\A k \in Call :
        calls[k].pc = "matching" /\ calls'[k].pc \in {"reading", "digesting", "served"} =>
            LET row == sessions[calls[k].cred]
            IN  row # None => row.fingerprint = bootstrap]_vars
=============================================================================

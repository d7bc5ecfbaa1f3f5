------------------------- MODULE AccessStoreProofs --------------------------
(***************************************************************************)
(* Theorems about AccessStore, for any tokens, sessions and number of      *)
(* concurrent calls and any caps and lifetimes.                            *)
(***************************************************************************)
EXTENDS AccessStore, FiniteSetTheorems, TLAPS

\* The invariant: a session is made by a call that was authenticated earlier,
\* so what holds of sessions depends on what calls carry across their awaits.
StoreInv == TypeOK /\ CallsCarryWhatTheyNeed /\ SessionsWithinToken

-----------------------------------------------------------------------------
(* The rows that actions write.                                            *)

\* The row of a call past its authentication.
LEMMA AsType ==
    ASSUME NEW p \in Principal \cup {None}, NEW op \in Operation \cup {None},
           NEW pc \in {"idle", "reading", "digesting", "served"},
           NEW time \in Nat \cup {None}
    PROVE  As(p, op, pc, time) \in CallRow
BY DEF As, CallRow

\* The row of a call that still authenticates.
LEMMA WithType ==
    ASSUME NEW cred \in Credential, NEW op \in Operation,
           NEW pc \in {"hashing", "matching"}, NEW print \in Secret \cup {None}
    PROVE  With(cred, op, pc, print) \in CallRow
BY DEF With, CallRow

\* pruneSessions only deletes.
LEMMA PrunedRows == \A s \in Session : Pruned[s] \in {sessions[s], None}
BY DEF Pruned

-----------------------------------------------------------------------------
(* Frames: what a step of one call leaves intact.                          *)

\* A step of call k that keeps the time and every token's role.
LEMMA OtherCallsKeep ==
    ASSUME NEW k \in Call, StoreInv, now' = now,
           calls' \in [Call -> CallRow],
           \A i \in Call \ {k} : calls'[i] = calls[i],
           \A t \in Token : tokens[t] # None =>
                tokens'[t] # None /\ tokens'[t].role = tokens[t].role,
           CarriesWhatItNeeds(k)'
    PROVE  CallsCarryWhatTheyNeed'
BY DEF StoreInv, CallsCarryWhatTheyNeed, CarriesWhatItNeeds

\* A step that makes no session and revokes no token.
LEMMA SessionsKeep ==
    ASSUME StoreInv,
           \A s \in Session : sessions'[s] \in {sessions[s], None},
           \A t \in Token : tokens[t] # None => tokens'[t] = tokens[t]
    PROVE  SessionsWithinToken'
BY DEF StoreInv, SessionsWithinToken

\* The call of a step has a row whose needs are met.
LEMMA AsCarries ==
    ASSUME NEW k \in Call, NEW p \in Principal, NEW op \in Operation,
           NEW pc \in {"reading", "digesting", "served"}, NEW time \in Nat \cup {None},
           StoreInv, Await(k, As(p, op, pc, time)),
           pc = "digesting" /\ op \in {"login", "issue"} => time \in Nat /\ time <= now',
           pc = "digesting" => op # "logout",
           pc = "digesting" /\ op = "login" /\ p \in Token =>
                tokens'[p] # None /\ tokens'[p].role # "node"
    PROVE  /\ calls' \in [Call -> CallRow]
           /\ \A i \in Call \ {k} : calls'[i] = calls[i]
           /\ CarriesWhatItNeeds(k)'
<1>1. As(p, op, pc, time) \in CallRow
  BY AsType
<1>2. calls' = [calls EXCEPT ![k] = As(p, op, pc, time)]
  BY DEF Await
<1>3. calls'[k] = As(p, op, pc, time) /\ calls' \in [Call -> CallRow]
      /\ \A i \in Call \ {k} : calls'[i] = calls[i]
  BY <1>1, <1>2 DEF StoreInv, TypeOK
<1>. QED BY <1>3 DEF CarriesWhatItNeeds, As

\* A call that is turned away carries nothing.
LEMMA RefusedCarries ==
    ASSUME NEW k \in Call, StoreInv, Refuse(k)
    PROVE  /\ calls' \in [Call -> CallRow]
           /\ \A i \in Call \ {k} : calls'[i] = calls[i]
           /\ CarriesWhatItNeeds(k)'
<1>1. Idle \in CallRow
  BY AsType DEF Idle
<1>2. calls' = [calls EXCEPT ![k] = Idle]
  BY DEF Refuse, Await
<1>3. calls'[k] = Idle /\ calls' \in [Call -> CallRow]
      /\ \A i \in Call \ {k} : calls'[i] = calls[i]
  BY <1>1, <1>2 DEF StoreInv, TypeOK
<1>. QED BY <1>3 DEF CarriesWhatItNeeds, Idle, As

\* A call that awaits a digest carries its credential.
LEMMA WithCarries ==
    ASSUME NEW k \in Call, NEW cred \in Credential, NEW op \in Operation,
           NEW pc \in {"hashing", "matching"}, NEW print \in Secret \cup {None},
           pc = "matching" => cred \in Session,
           StoreInv, Await(k, With(cred, op, pc, print))
    PROVE  /\ calls' \in [Call -> CallRow]
           /\ \A i \in Call \ {k} : calls'[i] = calls[i]
           /\ CarriesWhatItNeeds(k)'
<1>1. With(cred, op, pc, print) \in CallRow
  BY WithType
<1>2. calls' = [calls EXCEPT ![k] = With(cred, op, pc, print)]
  BY DEF Await
<1>3. calls'[k] = With(cred, op, pc, print) /\ calls' \in [Call -> CallRow]
      /\ \A i \in Call \ {k} : calls'[i] = calls[i]
  BY <1>1, <1>2 DEF StoreInv, TypeOK
<1>. QED BY <1>3 DEF CarriesWhatItNeeds, With

\* A step of call k that leaves tokens alone and only deletes sessions.
LEMMA QuietStep ==
    ASSUME NEW k \in Call, StoreInv, UNCHANGED <<now, bootstrap, tokens, minted>>,
           sessions' \in [Session -> SessionRow \cup {None}],
           \A s \in Session : sessions'[s] \in {sessions[s], None},
           calls' \in [Call -> CallRow],
           \A i \in Call \ {k} : calls'[i] = calls[i],
           CarriesWhatItNeeds(k)'
    PROVE  StoreInv'
<1>1. TypeOK'
  BY DEF StoreInv, TypeOK
<1>2. CallsCarryWhatTheyNeed'
  BY OtherCallsKeep
<1>3. SessionsWithinToken'
  BY SessionsKeep
<1>. QED BY <1>1, <1>2, <1>3 DEF StoreInv

\* Pruning is a table of the old rows.
LEMMA PrunedType ==
    ASSUME TypeOK
    PROVE  Pruned \in [Session -> SessionRow \cup {None}]
BY DEF TypeOK, Pruned

\* Revoking t keeps types and roles and leaves no session of t.
LEMMA RevokeStep ==
    ASSUME NEW t \in Token, StoreInv, Revoke(t)
    PROVE  /\ tokens' \in [Token -> TokenRow \cup {None}]
           /\ sessions' \in [Session -> SessionRow \cup {None}]
           /\ \A u \in Token : tokens[u] # None =>
                 tokens'[u] # None /\ tokens'[u].role = tokens[u].role
           /\ SessionsWithinToken'
<1>1. tokens[t] \in TokenRow
  BY DEF Revoke, Revocable, StoreInv, TypeOK
<1>2. /\ Revoked(tokens[t]) \in TokenRow
      /\ Revoked(tokens[t]).role = tokens[t].role
  BY <1>1 DEF Revoked, TokenRow
<1>3. /\ tokens'[t] = Revoked(tokens[t])
      /\ \A u \in Token \ {t} : tokens'[u] = tokens[u]
      /\ tokens' \in [Token -> TokenRow \cup {None}]
  BY <1>2 DEF Revoke, StoreInv, TypeOK
<1>4. tokens'[t] # None
  BY <1>2, <1>3, NamesAssumption
<1>5. \A s \in Session :
        sessions'[s] # None => sessions'[s] = sessions[s] /\ sessions[s].principal # t
  BY DEF Revoke
<1>6. sessions' \in [Session -> SessionRow \cup {None}]
  BY DEF Revoke, StoreInv, TypeOK
<1>7. SessionsWithinToken'
  <2> SUFFICES ASSUME NEW s \in Session, sessions'[s] # None,
                      sessions'[s].principal \in Token
               PROVE  LET u == sessions'[s].principal
                      IN  /\ tokens'[u] # None
                          /\ ~tokens'[u].revoked
                          /\ tokens'[u].role # "node"
                          /\ sessions'[s].expires <= tokens'[u].expires
    BY DEF SessionsWithinToken
  <2>1. sessions'[s] = sessions[s] /\ tokens'[sessions[s].principal] = tokens[sessions[s].principal]
    BY <1>3, <1>5
  <2>. QED BY <2>1 DEF StoreInv, SessionsWithinToken
<1>. QED BY <1>2, <1>3, <1>4, <1>6, <1>7

-----------------------------------------------------------------------------
(* The steps.                                                              *)

\* What a handler does right after authentication keeps the invariant.
LEMMA DispatchStep ==
    ASSUME NEW k \in Call, NEW p \in Principal, StoreInv,
           calls[k].op \in Operation,
           p \in Token => tokens[p] # None,
           UNCHANGED <<now, bootstrap, minted>>, Dispatch(k, p)
    PROVE  StoreInv'
<1>. DEFINE op == calls[k].op
<1>. now \in Nat
  BY DEF StoreInv, TypeOK
<1>0. /\ Pruned \in [Session -> SessionRow \cup {None}]
      /\ \A s \in Session : Pruned[s] \in {sessions[s], None}
  BY PrunedType, PrunedRows DEF StoreInv
<1>1. CASE op = "login" /\ RoleOf(p) # "node" /\ StartSession(k, p)
  <2>1. /\ Await(k, As(p, "login", "digesting", now))
        /\ sessions' = Pruned /\ tokens' = tokens
    BY <1>1 DEF StartSession
  <2>2. p \in Token => tokens'[p] # None /\ tokens'[p].role # "node"
    BY <1>1, <2>1, NamesAssumption DEF RoleOf
  <2>3. /\ calls' \in [Call -> CallRow]
        /\ \A i \in Call \ {k} : calls'[i] = calls[i]
        /\ CarriesWhatItNeeds(k)'
    BY <2>1, <2>2, AsCarries DEF Operation
  <2>. QED BY <1>0, <2>1, <2>3, QuietStep
<1>2. CASE /\ op = "logout"
           /\ \E s \in CookieOf(k) : Await(k, [As(p, op, "digesting", None) EXCEPT !.cred = s])
           /\ UNCHANGED <<tokens, sessions>>
  <2>0. PICK s \in CookieOf(k) : Await(k, [As(p, op, "digesting", None) EXCEPT !.cred = s])
    BY <1>2
  <2>. DEFINE row == [As(p, op, "digesting", None) EXCEPT !.cred = s]
  <2>1. row = [pc |-> "digesting", op |-> op, cred |-> s, principal |-> p,
               print |-> None, at |-> None]
    BY DEF As
  <2>2. s \in Session /\ row \in CallRow
    <3>1. s \in Session
      BY DEF CookieOf, StoreInv, TypeOK
    <3>. QED BY <1>2, <2>1, <3>1 DEF CallRow, Credential
  <2>3. /\ calls'[k] = row /\ calls' \in [Call -> CallRow]
        /\ \A i \in Call \ {k} : calls'[i] = calls[i]
    BY <2>0, <2>2 DEF Await, StoreInv, TypeOK
  <2>4. CarriesWhatItNeeds(k)'
    BY <1>2, <2>1, <2>2, <2>3 DEF CarriesWhatItNeeds
  <2>5. sessions' \in [Session -> SessionRow \cup {None}]
    BY <1>2 DEF StoreInv, TypeOK
  <2>. QED BY <1>2, <2>3, <2>4, <2>5, QuietStep
<1>3. ASSUME NEW pc \in {"reading", "digesting", "served"}, op \notin {"login", "logout"},
             pc = "digesting" => op = "submit",
             Await(k, As(p, op, pc, None))
      PROVE  /\ calls' \in [Call -> CallRow]
             /\ \A i \in Call \ {k} : calls'[i] = calls[i]
             /\ CarriesWhatItNeeds(k)'
  BY <1>3, AsCarries
<1>4. CASE op \in {"submit", "issue", "list"} /\ UNCHANGED tokens
           /\ sessions' \in {sessions, Pruned}
           /\ (\/ op = "submit" /\ Await(k, As(p, op, "digesting", None))
               \/ Await(k, As(p, op, "reading", None))
               \/ Served(k, p))
  <2>1. /\ calls' \in [Call -> CallRow]
        /\ \A i \in Call \ {k} : calls'[i] = calls[i]
        /\ CarriesWhatItNeeds(k)'
    BY <1>3, <1>4 DEF Served
  <2>2. /\ sessions' \in [Session -> SessionRow \cup {None}]
        /\ \A s \in Session : sessions'[s] \in {sessions[s], None}
    BY <1>0, <1>4 DEF StoreInv, TypeOK
  <2>. QED BY <1>4, <2>1, <2>2, QuietStep
<1>5. CASE op = "revoke" /\ (\E t \in Token : Revoke(t)) /\ Served(k, p)
  <2>1. PICK t \in Token : Revoke(t)
    BY <1>5
  <2>2. /\ calls' \in [Call -> CallRow]
        /\ \A i \in Call \ {k} : calls'[i] = calls[i]
        /\ CarriesWhatItNeeds(k)'
    BY <1>3, <1>5 DEF Served
  <2>3. CallsCarryWhatTheyNeed'
    BY <2>1, <2>2, RevokeStep, OtherCallsKeep
  <2>4. TypeOK'
    BY <2>1, <2>2, RevokeStep DEF StoreInv, TypeOK
  <2>. QED BY <2>1, <2>3, <2>4, RevokeStep DEF StoreInv
<1>6. CASE Refuse(k) /\ UNCHANGED <<tokens, sessions>>
  <2>1. sessions' \in [Session -> SessionRow \cup {None}]
    BY <1>6 DEF StoreInv, TypeOK
  <2>. QED BY <1>6, <2>1, RefusedCarries, QuietStep
<1>. QED BY <1>1, <1>2, <1>4, <1>5, <1>6 DEF Dispatch

\* At first there are no rows and no calls.
LEMMA InitStoreInv == Init => StoreInv
<1>. SUFFICES ASSUME Init PROVE StoreInv
  OBVIOUS
<1>1. Idle \in CallRow
  BY AsType DEF Idle
<1>2. TypeOK
  BY <1>1 DEF Init, TypeOK
<1>3. CallsCarryWhatTheyNeed
  BY DEF Init, CallsCarryWhatTheyNeed, CarriesWhatItNeeds, Idle, As
<1>4. SessionsWithinToken
  BY DEF Init, SessionsWithinToken
<1>. QED BY <1>2, <1>3, <1>4 DEF StoreInv

\* A request arrives.
LEMMA BeginStep ==
    ASSUME NEW k \in Call, NEW op \in Operation, NEW cred \in Credential,
           StoreInv, Begin(k, op, cred)
    PROVE  StoreInv'
<1>1. /\ calls' \in [Call -> CallRow]
      /\ \A i \in Call \ {k} : calls'[i] = calls[i]
      /\ CarriesWhatItNeeds(k)'
  BY WithCarries DEF Begin
<1>2. sessions' \in [Session -> SessionRow \cup {None}]
  BY DEF Begin, StoreInv, TypeOK
<1>. QED BY <1>1, <1>2, QuietStep DEF Begin

\* Refusing call k, perhaps deleting the session it came with.
LEMMA RefuseStep ==
    ASSUME NEW k \in Call, NEW s, StoreInv, Refuse(k),
           sessions' \in {sessions, Without(s)},
           UNCHANGED <<now, bootstrap, tokens, minted>>
    PROVE  StoreInv'
<1>1. /\ sessions' \in [Session -> SessionRow \cup {None}]
      /\ \A i \in Session : sessions'[i] \in {sessions[i], None}
  BY DEF Without, StoreInv, TypeOK
<1>. QED BY <1>1, RefusedCarries, QuietStep

\* A bearer token is known or not, and dispatched or refused.
LEMMA AuthenticateBearerStep ==
    ASSUME NEW k \in Call, StoreInv, AuthenticateBearer(k)
    PROVE  StoreInv'
<1>. DEFINE cred == calls[k].cred
            p    == IF cred \in Secret THEN BootstrapAdmin ELSE cred
<1>1. /\ calls[k].op \in Operation
      /\ cred \in Token \cup Secret
  BY DEF StoreInv, CallsCarryWhatTheyNeed, CarriesWhatItNeeds, AuthenticateBearer, Credential
<1>2. CASE (cred \in Secret /\ cred = bootstrap) \/ (cred \in Token /\ ActiveToken(cred))
  <2>1. Dispatch(k, p) /\ UNCHANGED <<now, bootstrap, minted>>
    BY <1>2 DEF AuthenticateBearer
  <2>2. p \in Principal /\ (p \in Token => tokens[p] # None)
    BY <1>1, <1>2, NamesAssumption DEF Principal, ActiveToken
  <2>. QED BY <1>1, <2>1, <2>2, DispatchStep
<1>3. CASE ~((cred \in Secret /\ cred = bootstrap) \/ (cred \in Token /\ ActiveToken(cred)))
  BY <1>3, RefuseStep DEF AuthenticateBearer
<1>. QED BY <1>2, <1>3

\* A cookie is known or not; a bootstrap session awaits once more.
LEMMA AuthenticateSessionStep ==
    ASSUME NEW k \in Call, StoreInv, AuthenticateSession(k)
    PROVE  StoreInv'
<1>. DEFINE cred == calls[k].cred
            row  == sessions[cred]
<1>1. calls[k].op \in Operation /\ cred \in Session
  BY DEF StoreInv, CallsCarryWhatTheyNeed, CarriesWhatItNeeds, AuthenticateSession
<1>2. UNCHANGED <<now, bootstrap, minted>>
  BY DEF AuthenticateSession
<1>3. CASE Refuse(k) /\ sessions' \in {sessions, Without(cred)} /\ UNCHANGED tokens
  BY <1>2, <1>3, RefuseStep
<1>4. CASE /\ row # None
           /\ Await(k, With(cred, calls[k].op, "matching", row.fingerprint))
           /\ UNCHANGED <<tokens, sessions>>
  <2>1. row.fingerprint \in Secret \cup {None}
    BY <1>1, <1>4 DEF StoreInv, TypeOK, SessionRow
  <2>2. /\ calls' \in [Call -> CallRow]
        /\ \A i \in Call \ {k} : calls'[i] = calls[i]
        /\ CarriesWhatItNeeds(k)'
    BY <1>1, <1>4, <2>1, WithCarries DEF Credential
  <2>3. sessions' \in [Session -> SessionRow \cup {None}]
    BY <1>4 DEF StoreInv, TypeOK
  <2>. QED BY <1>2, <1>4, <2>2, <2>3, QuietStep
<1>5. CASE row # None /\ Authorized(row.principal) /\ row.principal # BootstrapAdmin
           /\ Dispatch(k, row.principal)
  <2>1. row.principal \in Principal /\ tokens[row.principal] # None
    BY <1>1, <1>5 DEF StoreInv, TypeOK, SessionRow, Authorized, ActiveToken
  <2>. QED BY <1>1, <1>2, <1>5, <2>1, DispatchStep
<1>. QED BY <1>3, <1>4, <1>5 DEF AuthenticateSession

\* The second digest matches, or the session is deleted.
LEMMA MatchFingerprintStep ==
    ASSUME NEW k \in Call, StoreInv, MatchFingerprint(k)
    PROVE  StoreInv'
<1>1. calls[k].op \in Operation /\ calls[k].cred \in Session
  BY DEF StoreInv, CallsCarryWhatTheyNeed, CarriesWhatItNeeds, MatchFingerprint
<1>2. CASE Dispatch(k, BootstrapAdmin)
  BY <1>1, <1>2, DispatchStep, NamesAssumption DEF MatchFingerprint, Principal
<1>3. CASE Refuse(k) /\ sessions' = Without(calls[k].cred) /\ UNCHANGED tokens
  BY <1>3, RefuseStep DEF MatchFingerprint
<1>. QED BY <1>2, <1>3 DEF MatchFingerprint

\* A body is read and the time taken.
LEMMA ReadBodyStep ==
    ASSUME NEW k \in Call, StoreInv, ReadBody(k)
    PROVE  StoreInv'
<1>1. calls[k].principal \in Principal /\ now \in Nat
  BY DEF StoreInv, TypeOK, CallsCarryWhatTheyNeed, CarriesWhatItNeeds, ReadBody
<1>2. CASE Await(k, As(calls[k].principal, "issue", "digesting", now))
  <2>1. /\ calls' \in [Call -> CallRow]
        /\ \A i \in Call \ {k} : calls'[i] = calls[i]
        /\ CarriesWhatItNeeds(k)'
    BY <1>1, <1>2, AsCarries DEF Operation, ReadBody
  <2>2. sessions' \in [Session -> SessionRow \cup {None}]
    BY DEF ReadBody, StoreInv, TypeOK
  <2>. QED BY <2>1, <2>2, QuietStep DEF ReadBody
<1>3. CASE Refuse(k)
  BY <1>3, RefuseStep DEF ReadBody
<1>. QED BY <1>2, <1>3 DEF ReadBody

\* A call that awaited its last digest has a principal and an op.
LEMMA DigestingCall ==
    ASSUME NEW k \in Call, StoreInv, calls[k].pc = "digesting"
    PROVE  /\ calls[k].principal \in Principal /\ calls[k].op \in Operation
           /\ calls[k].op \in {"login", "issue"} => calls[k].at \in Nat
           /\ calls[k].op = "login" /\ calls[k].principal \in Token =>
                tokens[calls[k].principal].role # "node"
BY DEF StoreInv, CallsCarryWhatTheyNeed, CarriesWhatItNeeds

\* Serving call k.
LEMMA ServedCarries ==
    ASSUME NEW k \in Call, NEW p \in Principal, calls[k].op \in Operation, StoreInv, Served(k, p)
    PROVE  /\ calls' \in [Call -> CallRow]
           /\ \A i \in Call \ {k} : calls'[i] = calls[i]
           /\ CarriesWhatItNeeds(k)'
BY AsCarries DEF Served

\* A token is inserted: no session is of a token that did not exist.
LEMMA IssueTokenStep ==
    ASSUME NEW k \in Call, NEW t \in Token, NEW role \in Role, NEW life \in TokenLife,
           StoreInv, IssueToken(k, t, role, life)
    PROVE  StoreInv'
<1>1. /\ calls' \in [Call -> CallRow]
      /\ \A i \in Call \ {k} : calls'[i] = calls[i]
      /\ CarriesWhatItNeeds(k)'
  BY DigestingCall, ServedCarries DEF IssueToken
<1>2. tokens[t] = None /\ \A u \in Token \ {t} : tokens'[u] = tokens[u]
  BY DEF IssueToken, StoreInv, TypeOK
<1>3. calls[k].at + life \in Nat
  BY DigestingCall, LifetimesAssumption DEF IssueToken
<1>4. tokens' \in [Token -> TokenRow \cup {None}]
  <2>. DEFINE row == [role |-> role, expires |-> calls[k].at + life, revoked |-> FALSE]
  <2>1. row \in TokenRow
    BY <1>3 DEF TokenRow
  <2>. QED BY <2>1 DEF IssueToken, StoreInv, TypeOK
<1>5. TypeOK'
  BY <1>1, <1>4 DEF IssueToken, StoreInv, TypeOK
<1>6. CallsCarryWhatTheyNeed'
  BY <1>1, <1>2, OtherCallsKeep DEF IssueToken
<1>7. SessionsWithinToken'
  BY <1>2, SessionsKeep DEF IssueToken
<1>. QED BY <1>5, <1>6, <1>7 DEF StoreInv

\* The one step that makes a session: what it reads again after the digest is
\* what the invariant asks of the new row.
LEMMA InsertSessionStep ==
    ASSUME NEW k \in Call, NEW s \in Session, StoreInv, InsertSession(k, s)
    PROVE  StoreInv'
<1>. DEFINE p    == calls[k].principal
            ends == SessionExpiry(p, calls[k].at)
            row  == [principal   |-> p,
                     fingerprint |-> IF p = BootstrapAdmin THEN bootstrap ELSE None,
                     expires     |-> ends]
<1>1. /\ calls' \in [Call -> CallRow]
      /\ \A i \in Call \ {k} : calls'[i] = calls[i]
      /\ CarriesWhatItNeeds(k)'
  BY DigestingCall, ServedCarries DEF InsertSession
<1>2. p \in Principal /\ calls[k].at \in Nat
      /\ (p \in Token => tokens[p] # None /\ ~tokens[p].revoked /\ tokens[p].role # "node")
  BY DigestingCall, NamesAssumption DEF InsertSession, Permitted, Authorized, ActiveToken
<1>3. p \in Token => tokens[p].expires \in Nat
  BY <1>2 DEF StoreInv, TypeOK, TokenRow
<1>4. ends \in Nat /\ (p \in Token => ends <= tokens[p].expires)
  BY <1>2, <1>3, LifetimesAssumption, NamesAssumption DEF SessionExpiry, Principal
<1>5. row \in SessionRow
  BY <1>2, <1>4 DEF SessionRow, StoreInv, TypeOK
<1>6. sessions' = [sessions EXCEPT ![s] = row] /\ tokens' = tokens
  BY DEF InsertSession
<1>7. /\ sessions'[s] = row /\ sessions' \in [Session -> SessionRow \cup {None}]
      /\ \A i \in Session \ {s} : sessions'[i] = sessions[i]
  BY <1>5, <1>6 DEF StoreInv, TypeOK
<1>8. TypeOK'
  BY <1>1, <1>7 DEF InsertSession, StoreInv, TypeOK
<1>9. CallsCarryWhatTheyNeed'
  BY <1>1, OtherCallsKeep DEF InsertSession
<1>10. SessionsWithinToken'
  BY <1>2, <1>4, <1>6, <1>7 DEF StoreInv, SessionsWithinToken
<1>. QED BY <1>8, <1>9, <1>10 DEF StoreInv

\* A task is handed on; no row changes.
LEMMA SubmitTaskStep ==
    ASSUME NEW k \in Call, StoreInv, SubmitTask(k)
    PROVE  StoreInv'
<1>1. /\ calls' \in [Call -> CallRow]
      /\ \A i \in Call \ {k} : calls'[i] = calls[i]
      /\ CarriesWhatItNeeds(k)'
  BY DigestingCall, ServedCarries DEF SubmitTask
<1>2. sessions' \in [Session -> SessionRow \cup {None}]
  BY DEF SubmitTask, StoreInv, TypeOK
<1>. QED BY <1>1, <1>2, QuietStep DEF SubmitTask

\* A restart loses the calls and prunes; the time stands still.
LEMMA RestartStep ==
    ASSUME NEW secret \in Secret \cup {None}, StoreInv, Restart(secret)
    PROVE  StoreInv'
<1>1. Idle \in CallRow
  BY AsType DEF Idle
<1>2. TypeOK'
  BY <1>1, PrunedType DEF Restart, StoreInv, TypeOK
<1>3. CallsCarryWhatTheyNeed'
  BY DEF Restart, CallsCarryWhatTheyNeed, CarriesWhatItNeeds, Idle, As
<1>4. SessionsWithinToken'
  BY PrunedRows, SessionsKeep DEF Restart
<1>. QED BY <1>2, <1>3, <1>4 DEF StoreInv

\* A session that expires, or whose token does, is no longer accepted but is
\* still within its token: the passing of time takes nothing from the invariant.
LEMMA TickStep ==
    ASSUME StoreInv, Tick
    PROVE  StoreInv'
<1>1. now \in Nat /\ now' = now + 1
  BY DEF StoreInv, TypeOK, Tick
<1>2. TypeOK'
  BY <1>1 DEF Tick, StoreInv, TypeOK
<1>3. CallsCarryWhatTheyNeed'
  <2>. SUFFICES ASSUME NEW k \in Call PROVE CarriesWhatItNeeds(k)'
    BY DEF CallsCarryWhatTheyNeed
  <2>1. CarriesWhatItNeeds(k) /\ calls' = calls /\ tokens' = tokens
    BY DEF StoreInv, CallsCarryWhatTheyNeed, Tick
  <2>. QED BY <1>1, <2>1 DEF CarriesWhatItNeeds
<1>4. SessionsWithinToken'
  BY SessionsKeep DEF Tick
<1>. QED BY <1>2, <1>3, <1>4 DEF StoreInv

\* One step per action.
LEMMA NextStoreInv == StoreInv /\ [Next]_vars => StoreInv'
<1>. SUFFICES ASSUME StoreInv, [Next]_vars PROVE StoreInv'
  OBVIOUS
<1>1. CASE \E k \in Call, op \in Operation, cred \in Credential : Begin(k, op, cred)
  BY <1>1, BeginStep
<1>2. CASE \E k \in Call : AuthenticateBearer(k)
  BY <1>2, AuthenticateBearerStep
<1>3. CASE \E k \in Call : AuthenticateSession(k)
  BY <1>3, AuthenticateSessionStep
<1>4. CASE \E k \in Call : MatchFingerprint(k)
  BY <1>4, MatchFingerprintStep
<1>5. CASE \E k \in Call : ReadBody(k)
  BY <1>5, ReadBodyStep
<1>6. CASE \E k \in Call, t \in Token, role \in Role, life \in TokenLife :
                IssueToken(k, t, role, life)
  BY <1>6, IssueTokenStep
<1>7. CASE \E k \in Call, s \in Session : InsertSession(k, s)
  BY <1>7, InsertSessionStep
<1>8. CASE \E k \in Call : SubmitTask(k)
  BY <1>8, SubmitTaskStep
<1>9. CASE \E k \in Call : DeleteSession(k)
  BY <1>9, RefuseStep DEF DeleteSession
<1>10. CASE \E k \in Call : Abandon(k)
  BY <1>10, RefuseStep DEF Abandon
<1>11. CASE \E secret \in Secret \cup {None} : Restart(secret)
  BY <1>11, RestartStep
<1>12. CASE Tick
  BY <1>12, TickStep
<1>13. CASE UNCHANGED vars
  BY <1>13 DEF vars, StoreInv, TypeOK, CallsCarryWhatTheyNeed, CarriesWhatItNeeds,
               SessionsWithinToken
<1>. QED BY <1>1, <1>2, <1>3, <1>4, <1>5, <1>6, <1>7, <1>8, <1>9, <1>10, <1>11, <1>12, <1>13
         DEF Next

\* StoreInv is invariant.
THEOREM StoreInvariant == Spec => []StoreInv
BY InitStoreInv, NextStoreInv, PTL DEF Spec

\* Every reachable state of the store is well typed.
THEOREM StoreTypeCorrect == Spec => []TypeOK
<1>1. StoreInv => TypeOK
  BY DEF StoreInv
<1>. QED BY <1>1, StoreInvariant, PTL

\* No session ever outlives or outranks the token it was made with, whatever
\* is revoked while createSession awaits its digests.
THEOREM SessionsNeverOutliveTokens == Spec => []SessionsWithinToken
<1>1. StoreInv => SessionsWithinToken
  BY DEF StoreInv
<1>. QED BY <1>1, StoreInvariant, PTL

-----------------------------------------------------------------------------
(* The caps.  However many ids there are, the rows of a table are finitely *)
(* many, since a step inserts at most one.                                 *)

Issued == {t \in Token : tokens[t] # None}
Opened == {s \in Session : sessions[s] # None}
CapInv == StoreInv /\ IsFiniteSet(Issued) /\ IsFiniteSet(Opened) /\ TokenCap /\ SessionCap

\* What a cap counts is finite, and less of it later.
LEMMA ActiveTokens ==
    ASSUME NEW S, IsFiniteSet(S), NEW T \in SUBSET S
    PROVE  IsFiniteSet(T) /\ Cardinality(T) \in Nat /\ Cardinality(S) \in Nat
           /\ Cardinality(T) <= Cardinality(S)
BY FS_Subset, FS_CardinalityType

\* A set with at most one element more than one below the cap is within it.
LEMMA OneMore ==
    ASSUME NEW S, IsFiniteSet(S), NEW x, NEW T \in SUBSET (S \cup {x}),
           NEW max \in Nat, Cardinality(S) < max
    PROVE  IsFiniteSet(T) /\ Cardinality(T) <= max
<1>1. /\ IsFiniteSet(S \cup {x}) /\ Cardinality(S) \in Nat
      /\ Cardinality(S \cup {x}) \in {Cardinality(S), Cardinality(S) + 1}
  BY FS_AddElement, FS_CardinalityType

<1>. QED BY <1>1, ActiveTokens

\* Rows of tokens and sessions that a step does not insert: it keeps them,
\* revokes them or deletes them.
TokensFade == \A t \in Token :
    tokens'[t] = tokens[t] \/ (tokens[t] # None /\ tokens'[t].revoked)
SessionsFade == \A s \in Session : sessions'[s] \in {sessions[s], None}

\* What a handler does right after authenticating inserts nothing.
LEMMA DispatchFades ==
    ASSUME NEW k \in Call, NEW p, TypeOK, Dispatch(k, p)
    PROVE  TokensFade /\ SessionsFade
<1>1. ASSUME NEW t \in Token, Revoke(t)
      PROVE  TokensFade /\ SessionsFade
  <2>1. tokens[t] # None /\ tokens' = [tokens EXCEPT ![t] = Revoked(@)]
    BY <1>1 DEF Revoke, Revocable
  <2>2. tokens[t] \in TokenRow
    BY <2>1 DEF TypeOK
  <2>3. Revoked(tokens[t]).revoked
    BY <2>2 DEF Revoked, TokenRow
  <2>4. TokensFade
    BY <2>1, <2>3 DEF TokensFade, TypeOK
  <2>5. SessionsFade
    BY <1>1 DEF Revoke, SessionsFade
  <2>. QED BY <2>4, <2>5
<1>2. CASE tokens' = tokens /\ sessions' \in {sessions, Pruned}
  BY <1>2, PrunedRows DEF TokensFade, SessionsFade
<1>. QED BY <1>1, <1>2 DEF Dispatch, StartSession

\* Only IssueToken adds a token and only InsertSession a session.
LEMMA StepsFade ==
    ASSUME StoreInv, [Next]_vars
    PROVE  /\ now' \in Nat /\ now <= now'
           /\ \/ TokensFade
              \/ \E k \in Call, t \in Token, role \in Role, life \in TokenLife :
                    IssueToken(k, t, role, life)
           /\ \/ SessionsFade
              \/ \E k \in Call, s \in Session : InsertSession(k, s)
<1>0. now \in Nat /\ TypeOK
  BY DEF StoreInv, TypeOK
<1>1. CASE (\E k \in Call : \E p : Dispatch(k, p)) /\ now' = now
  BY <1>0, <1>1, DispatchFades
<1>2. CASE tokens' = tokens /\ sessions' = sessions /\ (now' = now \/ Tick)
  BY <1>0, <1>2 DEF TokensFade, SessionsFade, Tick
<1>3. CASE tokens' = tokens /\ (\E s : sessions' = Without(s)) /\ now' = now
  BY <1>0, <1>3 DEF TokensFade, SessionsFade, Without, TypeOK
<1>4. CASE \E secret \in Secret \cup {None} : Restart(secret)
  BY <1>0, <1>4, PrunedRows DEF Restart, TokensFade, SessionsFade
<1>5. CASE \E k \in Call, t \in Token, role \in Role, life \in TokenLife :
                IssueToken(k, t, role, life)
  <2>1. SessionsFade /\ now' = now
    BY <1>5 DEF IssueToken, SessionsFade
  <2>. QED BY <1>0, <1>5, <2>1
<1>6. CASE \E k \in Call, s \in Session : InsertSession(k, s)
  <2>1. TokensFade /\ now' = now
    BY <1>6 DEF InsertSession, TokensFade
  <2>. QED BY <1>0, <1>6, <2>1
<1>7. CASE \E k \in Call : AuthenticateBearer(k)
  BY <1>1, <1>2, <1>7 DEF AuthenticateBearer
<1>8. CASE \E k \in Call : AuthenticateSession(k)
  BY <1>1, <1>2, <1>3, <1>8 DEF AuthenticateSession
<1>9. CASE \E k \in Call : MatchFingerprint(k)
  BY <1>1, <1>3, <1>9 DEF MatchFingerprint
<1>10. CASE \/ \E k \in Call, op \in Operation, cred \in Credential : Begin(k, op, cred)
            \/ \E k \in Call : ReadBody(k) \/ SubmitTask(k) \/ Abandon(k)
  BY <1>2, <1>10 DEF Begin, ReadBody, SubmitTask, Abandon
<1>11. CASE \E k \in Call : DeleteSession(k)
  BY <1>3, <1>11 DEF DeleteSession
<1>12. CASE Tick \/ UNCHANGED vars
  BY <1>2, <1>12 DEF Tick, vars
<1>. QED BY <1>4, <1>5, <1>6, <1>7, <1>8, <1>9, <1>10, <1>11, <1>12 DEF Next

\* Only IssueToken can add an active token, and it counts first.
LEMMA TokenCapStep ==
    ASSUME CapInv, [Next]_vars
    PROVE  IsFiniteSet(Issued)' /\ TokenCap'
<1>0. StoreInv /\ TypeOK /\ now \in Nat /\ now' \in Nat /\ now <= now' /\ MaxTokens \in Nat
  BY StepsFade, CapsAssumption DEF CapInv, StoreInv, TypeOK
<1>1. CASE TokensFade
  <2>1. Issued' \subseteq Issued
    BY <1>1 DEF Issued, TokensFade
  <2>2. TokensActiveAt(now)' \subseteq TokensActiveAt(now)
    <3>. SUFFICES ASSUME NEW t \in Token, tokens'[t] # None, ~tokens'[t].revoked,
                         tokens'[t].expires > now'
                  PROVE  t \in TokensActiveAt(now)
      BY DEF TokensActiveAt
    <3>1. tokens'[t] = tokens[t] /\ tokens[t].expires \in Nat
      BY <1>0, <1>1 DEF TokensFade, TypeOK, TokenRow
    <3>. QED BY <1>0, <3>1 DEF TokensActiveAt
  <2>3. IsFiniteSet(TokensActiveAt(now))
    BY ActiveTokens DEF CapInv, TokensActiveAt, Issued
  <2>4. Cardinality(TokensActiveAt(now)') <= MaxTokens
    BY <1>0, <2>2, <2>3, ActiveTokens DEF CapInv, TokenCap
  <2>. QED BY <2>1, <2>4, ActiveTokens DEF CapInv, TokenCap
<1>2. CASE \E k \in Call, t \in Token, role \in Role, life \in TokenLife :
                IssueToken(k, t, role, life)
  <2>1. PICK k \in Call, t \in Token, role \in Role, life \in TokenLife :
            IssueToken(k, t, role, life)
    BY <1>2
  <2>2. \A u \in Token \ {t} : tokens'[u] = tokens[u]
    BY <1>0, <2>1 DEF IssueToken, TypeOK
  <2>3. calls[k].at \in Nat /\ calls[k].at <= now /\ now' = now
    BY <1>0, <2>1 DEF IssueToken, StoreInv, CallsCarryWhatTheyNeed, CarriesWhatItNeeds
  <2>4. Issued' \subseteq Issued \cup {t}
    BY <2>2 DEF Issued
  <2>5. TokensActiveAt(now)' \subseteq TokensActiveAt(calls[k].at) \cup {t}
    <3>. SUFFICES ASSUME NEW u \in Token \ {t}, tokens'[u] # None, ~tokens'[u].revoked,
                         tokens'[u].expires > now'
                  PROVE  u \in TokensActiveAt(calls[k].at)
      BY DEF TokensActiveAt
    <3>1. tokens'[u] = tokens[u] /\ tokens[u].expires \in Nat
      BY <1>0, <2>2 DEF TypeOK, TokenRow
    <3>. QED BY <1>0, <2>3, <3>1 DEF TokensActiveAt
  <2>6. IsFiniteSet(TokensActiveAt(calls[k].at))
    BY ActiveTokens DEF CapInv, TokensActiveAt, Issued
  <2>7. Cardinality(TokensActiveAt(now)') <= MaxTokens
    BY <1>0, <2>1, <2>5, <2>6, OneMore DEF IssueToken, BelowTokenCap
  <2>8. IsFiniteSet(Issued')
    BY <2>4, FS_AddElement, FS_Subset DEF CapInv
  <2>. QED BY <2>7, <2>8 DEF TokenCap
<1>. QED BY <1>0, <1>1, <1>2, StepsFade

\* Only InsertSession can add a session, and it counts first.
LEMMA SessionCapStep ==
    ASSUME CapInv, [Next]_vars
    PROVE  IsFiniteSet(Opened)' /\ SessionCap'
<1>0. StoreInv /\ TypeOK /\ now \in Nat /\ now' \in Nat /\ now <= now' /\ MaxSessions \in Nat
  BY StepsFade, CapsAssumption DEF CapInv, StoreInv, TypeOK
<1>1. ASSUME NEW p \in Principal,
             \A s \in Session : sessions'[s] # None /\ sessions'[s].principal = p =>
                sessions'[s] = sessions[s]
      PROVE  Cardinality(SessionsActiveAt(p, now)') <= MaxSessions
  <2>1. SessionsActiveAt(p, now)' \subseteq SessionsActiveAt(p, now)
    <3>. SUFFICES ASSUME NEW s \in Session, sessions'[s] # None,
                         sessions'[s].principal = p, sessions'[s].expires > now'
                  PROVE  s \in SessionsActiveAt(p, now)
      BY DEF SessionsActiveAt
    <3>1. sessions'[s] = sessions[s] /\ sessions[s].expires \in Nat
      BY <1>0, <1>1 DEF TypeOK, SessionRow
    <3>. QED BY <1>0, <3>1 DEF SessionsActiveAt
  <2>2. IsFiniteSet(SessionsActiveAt(p, now))
    BY ActiveTokens DEF CapInv, SessionsActiveAt, Opened
  <2>. QED BY <1>0, <2>1, <2>2, ActiveTokens DEF CapInv, SessionCap
<1>2. CASE SessionsFade
  <2>1. Opened' \subseteq Opened
    BY <1>2 DEF Opened, SessionsFade
  <2>2. IsFiniteSet(Opened')
    BY <2>1, ActiveTokens DEF CapInv
  <2>3. \A p \in Principal : Cardinality(SessionsActiveAt(p, now)') <= MaxSessions
    BY <1>1, <1>2 DEF SessionsFade
  <2>. QED BY <2>2, <2>3 DEF SessionCap
<1>3. CASE \E k \in Call, s \in Session : InsertSession(k, s)
  <2>1. PICK k \in Call, s \in Session : InsertSession(k, s)
    BY <1>3
  <2>. DEFINE p == calls[k].principal
  <2>2. /\ \A i \in Session \ {s} : sessions'[i] = sessions[i]
        /\ sessions'[s].principal = p
    BY <1>0, <2>1 DEF InsertSession, TypeOK
  <2>3. calls[k].at \in Nat /\ calls[k].at <= now /\ now' = now
    BY <1>0, <2>1 DEF InsertSession, StoreInv, CallsCarryWhatTheyNeed, CarriesWhatItNeeds
  <2>4. Opened' \subseteq Opened \cup {s}
    BY <2>2 DEF Opened
  <2>5. IsFiniteSet(Opened')
    BY <2>4, FS_AddElement, FS_Subset DEF CapInv
  <2>6. SessionsActiveAt(p, now)' \subseteq SessionsActiveAt(p, calls[k].at) \cup {s}
    <3>. SUFFICES ASSUME NEW i \in Session \ {s}, sessions'[i] # None,
                         sessions'[i].principal = calls'[k].principal,
                         sessions'[i].expires > now'
                  PROVE  i \in SessionsActiveAt(p, calls[k].at)
      BY DEF SessionsActiveAt
    <3>1. sessions'[i] = sessions[i] /\ sessions[i].expires \in Nat
      BY <1>0, <2>2 DEF TypeOK, SessionRow
    <3>2. calls'[k].principal = p
      BY <1>0, <2>1 DEF InsertSession, Served, Await, As, TypeOK
    <3>. QED BY <1>0, <2>3, <3>1, <3>2 DEF SessionsActiveAt
  <2>7. ASSUME NEW q \in Principal, q = p
        PROVE  Cardinality(SessionsActiveAt(q, now)') <= MaxSessions
    <3>1. calls'[k].principal = p
      BY <1>0, <2>1 DEF InsertSession, Served, Await, As, TypeOK
    <3>2. IsFiniteSet(SessionsActiveAt(p, calls[k].at))
      BY ActiveTokens DEF CapInv, SessionsActiveAt, Opened
    <3>3. Cardinality(SessionsActiveAt(p, calls[k].at)) < MaxSessions
      BY <2>1 DEF InsertSession, BelowSessionCap
    <3>4. SessionsActiveAt(q, now)' \subseteq SessionsActiveAt(p, calls[k].at) \cup {s}
      BY <2>6, <2>7, <3>1 DEF SessionsActiveAt
    <3>. QED BY <1>0, <3>2, <3>3, <3>4, OneMore
  <2>8. ASSUME NEW q \in Principal, q # p
        PROVE  Cardinality(SessionsActiveAt(q, now)') <= MaxSessions
    BY <1>1, <2>2, <2>8
  <2>. QED BY <2>5, <2>7, <2>8 DEF SessionCap
<1>. QED BY <1>0, <1>2, <1>3, StepsFade

\* No row is no more than a cap.
LEMMA InitCapInv == Init => CapInv
<1>. SUFFICES ASSUME Init PROVE CapInv
  OBVIOUS
<1>1. Issued = {} /\ Opened = {}
  BY DEF Init, Issued, Opened
<1>2. TokensActiveAt(now) = {} /\ \A p \in Principal : SessionsActiveAt(p, now) = {}
  BY DEF Init, TokensActiveAt, SessionsActiveAt
<1>. QED BY <1>1, <1>2, InitStoreInv, FS_EmptySet, CapsAssumption
         DEF CapInv, TokenCap, SessionCap

\* The caps hold at every moment.
LEMMA CapInvariant == Spec => []CapInv
<1>1. CapInv /\ [Next]_vars => CapInv'
  BY NextStoreInv, TokenCapStep, SessionCapStep DEF CapInv
<1>. QED BY <1>1, InitCapInv, PTL DEF Spec

\* Racing createToken calls cannot overshoot MAX_ACTIVE_TOKENS: the count is
\* taken in the segment that inserts, as of a time that is not later.
THEOREM TokenCapHolds == Spec => []TokenCap
<1>1. CapInv => TokenCap
  BY DEF CapInv
<1>. QED BY <1>1, CapInvariant, PTL

\* Racing logins cannot overshoot MAX_ACTIVE_SESSIONS_PER_PRINCIPAL.
THEOREM SessionCapHolds == Spec => []SessionCap
<1>1. CapInv => SessionCap
  BY DEF CapInv
<1>. QED BY <1>1, CapInvariant, PTL

-----------------------------------------------------------------------------
(* Authority.                                                              *)

\* A call that is served with the permission its operation asks for.
LEMMA ServedStep ==
    ASSUME NEW k \in Call, NEW p \in Principal, TypeOK, Served(k, p),
           calls[k].op \in Operation \ {"logout"}, Permitted(p, calls[k].op),
           calls[k].op = "login" /\ p \in Token => tokens[p].role # "node"
    PROVE  \A i \in Call : HasAuthority(i)
<1>1. /\ calls'[k].principal = p /\ calls'[k].op = calls[k].op
      /\ \A i \in Call \ {k} : calls'[i] = calls[i]
  BY DEF Served, Await, As, TypeOK
<1>2. CASE p = BootstrapAdmin
  BY <1>1, <1>2 DEF HasAuthority, Permitted, Authorized
<1>3. CASE p # BootstrapAdmin
  <2>1. p \in Token /\ ActiveToken(p) /\ RoleOf(p) = tokens[p].role
    BY <1>3 DEF Permitted, Authorized, Principal, RoleOf
  <2>. QED BY <1>1, <2>1 DEF HasAuthority, Permitted, Operation
<1>. QED BY <1>2, <1>3

\* A call that goes on awaiting is not served.
LEMMA AwaitingStep ==
    ASSUME NEW k \in Call, NEW row, TypeOK, Await(k, row), row.pc # "served"
    PROVE  \A i \in Call : HasAuthority(i)
<1>1. /\ calls'[k] = row
      /\ \A i \in Call \ {k} : calls'[i] = calls[i]
  BY DEF Await, TypeOK
<1>. QED BY <1>1 DEF HasAuthority

\* A call that is refused is not served.
LEMMA RefusedStep ==
    ASSUME NEW k \in Call, TypeOK, Refuse(k)
    PROVE  \A i \in Call : HasAuthority(i)
<1>1. Idle.pc # "served"
  BY DEF Idle, As
<1>. QED BY <1>1, AwaitingStep DEF Refuse

\* What is served right after authenticating is permitted there.
LEMMA DispatchAuthority ==
    ASSUME NEW k \in Call, NEW p \in Principal, StoreInv,
           calls[k].op \in Operation, Dispatch(k, p)
    PROVE  \A i \in Call : HasAuthority(i)
<1>0. TypeOK
  BY DEF StoreInv
<1>1. CASE StartSession(k, p)
  <2>1. As(p, "login", "digesting", now).pc # "served"
    BY DEF As
  <2>. QED BY <1>0, <1>1, <2>1, AwaitingStep DEF StartSession
<1>2. ASSUME NEW s, Await(k, [As(p, calls[k].op, "digesting", None) EXCEPT !.cred = s])
      PROVE  \A i \in Call : HasAuthority(i)
  <2>1. [As(p, calls[k].op, "digesting", None) EXCEPT !.cred = s].pc # "served"
    BY DEF As
  <2>. QED BY <1>0, <1>2, <2>1, AwaitingStep
<1>3. ASSUME NEW pc \in {"digesting", "reading"}, Await(k, As(p, calls[k].op, pc, None))
      PROVE  \A i \in Call : HasAuthority(i)
  <2>1. As(p, calls[k].op, pc, None).pc # "served"
    BY DEF As
  <2>. QED BY <1>0, <1>3, <2>1, AwaitingStep
<1>4. CASE calls[k].op \in {"list", "revoke"} /\ Permitted(p, calls[k].op) /\ Served(k, p)
  BY <1>0, <1>4, ServedStep DEF Operation
<1>5. CASE Refuse(k)
  BY <1>0, <1>5, RefusedStep
<1>. QED BY <1>1, <1>2, <1>3, <1>4, <1>5 DEF Dispatch

\* One step per action; those not named serve nobody.
LEMMA NextAuthority ==
    ASSUME StoreInv, [Next]_vars
    PROVE  \A i \in Call : HasAuthority(i)
<1>0. TypeOK
  BY DEF StoreInv
<1>1. CASE UNCHANGED calls
  BY <1>1 DEF HasAuthority
<1>2. CASE \E k \in Call : Refuse(k)
  BY <1>0, <1>2, RefusedStep
<1>3. CASE \E k \in Call, op \in Operation, cred \in Credential : Begin(k, op, cred)
  <2>1. PICK k \in Call, op \in Operation, cred \in Credential : Begin(k, op, cred)
    BY <1>3
  <2>2. With(cred, op, "hashing", None).pc # "served"
    BY DEF With
  <2>. QED BY <1>0, <2>1, <2>2, AwaitingStep DEF Begin
<1>4. ASSUME NEW k \in Call, NEW p \in Principal, calls[k].pc \in {"hashing", "matching"},
             Dispatch(k, p)
      PROVE  \A i \in Call : HasAuthority(i)
  <2>1. calls[k].op \in Operation
    BY <1>4 DEF StoreInv, CallsCarryWhatTheyNeed, CarriesWhatItNeeds
  <2>. QED BY <1>4, <2>1, DispatchAuthority
<1>5. CASE \E k \in Call : AuthenticateBearer(k)
  <2>1. PICK k \in Call : AuthenticateBearer(k)
    BY <1>5
  <2>2. CASE Refuse(k)
    BY <1>2, <2>2
  <2>3. CASE calls[k].cred \in Secret /\ Dispatch(k, BootstrapAdmin)
    BY <1>4, <2>1, <2>3 DEF AuthenticateBearer, Principal
  <2>4. CASE calls[k].cred \in Token /\ Dispatch(k, calls[k].cred)
    BY <1>4, <2>1, <2>4 DEF AuthenticateBearer, Principal
  <2>. QED BY <2>1, <2>2, <2>3, <2>4 DEF AuthenticateBearer
<1>6. CASE \E k \in Call : AuthenticateSession(k)
  <2>1. PICK k \in Call : AuthenticateSession(k)
    BY <1>6
  <2>. DEFINE row == sessions[calls[k].cred]
  <2>2. CASE Refuse(k)
    BY <1>2, <2>2
  <2>3. CASE Await(k, With(calls[k].cred, calls[k].op, "matching", row.fingerprint))
    <3>1. With(calls[k].cred, calls[k].op, "matching", row.fingerprint).pc # "served"
      BY DEF With
    <3>. QED BY <1>0, <2>3, <3>1, AwaitingStep
  <2>4. CASE row # None /\ Dispatch(k, row.principal)
    <3>1. row.principal \in Principal
      BY <1>0, <2>1, <2>4 DEF AuthenticateSession, TypeOK, SessionRow
    <3>. QED BY <1>4, <2>1, <2>4, <3>1 DEF AuthenticateSession
  <2>. QED BY <2>1, <2>2, <2>3, <2>4 DEF AuthenticateSession
<1>7. CASE \E k \in Call : MatchFingerprint(k)
  BY <1>2, <1>4, <1>7 DEF MatchFingerprint, Principal
<1>8. CASE \E k \in Call : ReadBody(k)
  <2>1. PICK k \in Call : ReadBody(k)
    BY <1>8
  <2>2. As(calls[k].principal, "issue", "digesting", now).pc # "served"
    BY DEF As
  <2>. QED BY <1>0, <1>2, <2>1, <2>2, AwaitingStep DEF ReadBody
<1>9. ASSUME NEW k \in Call, calls[k].pc = "digesting", calls[k].op # "logout",
             Permitted(calls[k].principal, calls[k].op), Served(k, calls[k].principal)
      PROVE  \A i \in Call : HasAuthority(i)
  BY <1>0, <1>9, DigestingCall, ServedStep
<1>10. CASE \E k \in Call, t \in Token, role \in Role, life \in TokenLife :
                IssueToken(k, t, role, life)
  BY <1>9, <1>10 DEF IssueToken
<1>11. CASE \E k \in Call, s \in Session : InsertSession(k, s)
  BY <1>9, <1>11 DEF InsertSession
<1>12. CASE \E k \in Call : SubmitTask(k)
  BY <1>9, <1>12 DEF SubmitTask
<1>13. CASE \E k \in Call : DeleteSession(k) \/ Abandon(k)
  BY <1>2, <1>13 DEF DeleteSession, Abandon
<1>14. CASE \E secret \in Secret \cup {None} : Restart(secret)
  BY <1>14 DEF Restart, HasAuthority, Idle, As
<1>15. CASE Tick \/ UNCHANGED vars
  BY <1>1, <1>15 DEF Tick, vars
<1>. QED BY <1>3, <1>5, <1>6, <1>7, <1>8, <1>10, <1>11, <1>12, <1>13, <1>14, <1>15 DEF Next

\* However long a call awaited since it was authenticated, it does its work
\* only while its principal is active and has the role.
THEOREM CallsAreServedWithAuthority == Spec => ServedWithAuthority
<1>1. StoreInv /\ [Next]_vars => [\A k \in Call : HasAuthority(k)]_vars
  BY NextAuthority
<1>. QED BY <1>1, StoreInvariant, PTL DEF Spec, ServedWithAuthority

-----------------------------------------------------------------------------
(* Rotation of the bootstrap token.  The fingerprint that a call took from *)
(* its session before the second digest is still the session's after it,   *)
(* because a cookie is never handed out twice.                             *)

\* Call k holds the fingerprint of its session, should that still exist.
HoldsFingerprint(k) ==
    calls[k].pc = "matching" =>
        /\ calls[k].cred \in minted
        /\ sessions[calls[k].cred] # None =>
                calls[k].print = sessions[calls[k].cred].fingerprint

PrintInv ==
    /\ StoreInv
    /\ Opened \subseteq minted
    /\ \A k \in Call : HoldsFingerprint(k)

\* Calls reach the second digest from their session, and leave it for work
\* only if the bootstrap token has the fingerprint they hold.
MatchingMoves ==
    \A k \in Call :
        /\ calls'[k].pc = "matching" =>
                \/ calls'[k] = calls[k]
                \/ /\ calls'[k].cred \in Opened
                   /\ calls'[k].print = sessions[calls'[k].cred].fingerprint
        /\ calls[k].pc = "matching" =>
                \/ calls'[k] = calls[k]
                \/ calls'[k].pc = "idle"
                \/ calls[k].print = bootstrap

\* A step of one call that does not put it before its second digest.
LEMMA AwaitMoves ==
    ASSUME NEW k \in Call, NEW row, TypeOK, Await(k, row), row.pc # "matching",
           \/ calls[k].pc # "matching"
           \/ row.pc = "idle"
           \/ calls[k].print = bootstrap
    PROVE  MatchingMoves
<1>1. /\ calls'[k] = row
      /\ \A i \in Call \ {k} : calls'[i] = calls[i]
  BY DEF Await, TypeOK
<1>. QED BY <1>1 DEF MatchingMoves

\* A step that turns a call away.
LEMMA RefuseMoves ==
    ASSUME NEW k \in Call, TypeOK, Refuse(k)
    PROVE  MatchingMoves
<1>1. Idle.pc = "idle"
  BY DEF Idle, As
<1>. QED BY <1>1, AwaitMoves DEF Refuse

\* What a handler does right after authenticating.
LEMMA DispatchMoves ==
    ASSUME NEW k \in Call, NEW p, TypeOK, Dispatch(k, p),
           calls[k].pc = "hashing" \/ calls[k].print = bootstrap
    PROVE  MatchingMoves
<1>1. ASSUME NEW op, NEW pc \in {"reading", "digesting", "served"}, NEW time,
             Await(k, As(p, op, pc, time))
      PROVE  MatchingMoves
  <2>1. As(p, op, pc, time).pc # "matching"
    BY DEF As
  <2>. QED BY <1>1, <2>1, AwaitMoves
<1>2. ASSUME NEW s, Await(k, [As(p, calls[k].op, "digesting", None) EXCEPT !.cred = s])
      PROVE  MatchingMoves
  <2>1. [As(p, calls[k].op, "digesting", None) EXCEPT !.cred = s].pc # "matching"
    BY DEF As
  <2>. QED BY <1>2, <2>1, AwaitMoves
<1>3. CASE Refuse(k)
  BY <1>3, RefuseMoves
<1>. QED BY <1>1, <1>2, <1>3 DEF Dispatch, StartSession, Served

\* One step per action.
LEMMA NextMatching ==
    ASSUME StoreInv, [Next]_vars
    PROVE  MatchingMoves
<1>0. TypeOK
  BY DEF StoreInv
<1>1. CASE UNCHANGED calls
  BY <1>1 DEF MatchingMoves
<1>2. CASE \E k \in Call : Refuse(k)
  BY <1>0, <1>2, RefuseMoves
<1>3. CASE \E k \in Call, op \in Operation, cred \in Credential : Begin(k, op, cred)
  <2>1. PICK k \in Call, op \in Operation, cred \in Credential : Begin(k, op, cred)
    BY <1>3
  <2>2. With(cred, op, "hashing", None).pc # "matching"
    BY DEF With
  <2>. QED BY <1>0, <2>1, <2>2, AwaitMoves DEF Begin
<1>4. CASE \E k \in Call : AuthenticateBearer(k)
  BY <1>0, <1>2, <1>4, DispatchMoves DEF AuthenticateBearer
<1>5. CASE \E k \in Call : AuthenticateSession(k)
  <2>1. PICK k \in Call : AuthenticateSession(k)
    BY <1>5
  <2>2. CASE Refuse(k)
    BY <1>2, <2>2
  <2>3. CASE \E p : Dispatch(k, p)
    BY <1>0, <2>1, <2>3, DispatchMoves DEF AuthenticateSession
  <2>4. ASSUME NEW row, row = sessions[calls[k].cred], row # None,
               Await(k, With(calls[k].cred, calls[k].op, "matching", row.fingerprint))
        PROVE  MatchingMoves
    <3>1. /\ calls'[k].cred = calls[k].cred
          /\ calls'[k].print = row.fingerprint
          /\ \A i \in Call \ {k} : calls'[i] = calls[i]
      BY <1>0, <2>4 DEF Await, With, TypeOK
    <3>2. calls[k].pc = "hashing" /\ calls[k].cred \in Opened
      BY <2>1, <2>4 DEF AuthenticateSession, Opened
    <3>. QED BY <2>4, <3>1, <3>2 DEF MatchingMoves
  <2>. QED BY <2>1, <2>2, <2>3, <2>4 DEF AuthenticateSession
<1>6. CASE \E k \in Call : MatchFingerprint(k)
  BY <1>0, <1>2, <1>6, DispatchMoves DEF MatchFingerprint, Matches
<1>7. CASE \E k \in Call : ReadBody(k)
  <2>1. PICK k \in Call : ReadBody(k)
    BY <1>7
  <2>2. As(calls[k].principal, "issue", "digesting", now).pc # "matching"
    BY DEF As
  <2>. QED BY <1>0, <1>2, <2>1, <2>2, AwaitMoves DEF ReadBody
<1>8. ASSUME NEW k \in Call, calls[k].pc = "digesting", Served(k, calls[k].principal)
      PROVE  MatchingMoves
  <2>1. As(calls[k].principal, calls[k].op, "served", None).pc # "matching"
    BY DEF As
  <2>. QED BY <1>0, <1>8, <2>1, AwaitMoves DEF Served
<1>9. CASE \/ \E k \in Call, t \in Token, role \in Role, life \in TokenLife :
                IssueToken(k, t, role, life)
           \/ \E k \in Call, s \in Session : InsertSession(k, s)
           \/ \E k \in Call : SubmitTask(k)
  BY <1>8, <1>9 DEF IssueToken, InsertSession, SubmitTask
<1>10. CASE \E k \in Call : DeleteSession(k) \/ Abandon(k)
  BY <1>2, <1>10 DEF DeleteSession, Abandon
<1>11. CASE \E secret \in Secret \cup {None} : Restart(secret)
  BY <1>11 DEF Restart, MatchingMoves, Idle, As
<1>12. CASE Tick \/ UNCHANGED vars
  BY <1>1, <1>12 DEF Tick, vars
<1>. QED BY <1>3, <1>4, <1>5, <1>6, <1>7, <1>9, <1>10, <1>11, <1>12 DEF Next

\* Only InsertSession hands out a cookie.
LEMMA NextMinted ==
    ASSUME [Next]_vars
    PROVE  minted' = minted \/ \E k \in Call, s \in Session : InsertSession(k, s)
BY DEF Next, Begin, AuthenticateBearer, AuthenticateSession, MatchFingerprint, ReadBody,
       IssueToken, SubmitTask, DeleteSession, Abandon, Restart, Tick, vars

\* A call's fingerprint stays that of its session.
LEMMA NextPrintInv == PrintInv /\ [Next]_vars => PrintInv'
<1>. SUFFICES ASSUME PrintInv, [Next]_vars
              PROVE  PrintInv'
  OBVIOUS
<1>1. StoreInv /\ StoreInv' /\ TypeOK /\ MatchingMoves
  BY NextStoreInv, NextMatching DEF PrintInv, StoreInv
<1>2. \A k \in Call : calls'[k].pc = "matching" =>
         /\ calls'[k].cred \in minted
         /\ sessions[calls'[k].cred] # None =>
                calls'[k].print = sessions[calls'[k].cred].fingerprint
  BY <1>1 DEF MatchingMoves, PrintInv, HoldsFingerprint
<1>3. /\ minted \subseteq minted'
      /\ Opened' \subseteq minted'
      /\ \A s \in minted : sessions'[s] \in {sessions[s], None}
  <2>1. CASE \E k \in Call, s \in Session : InsertSession(k, s)
    <3>1. PICK k \in Call, s \in Session : InsertSession(k, s)
      BY <2>1
    <3>2. /\ minted' = minted \cup {s} /\ s \notin minted
          /\ \A r \in Session \ {s} : sessions'[r] = sessions[r]
      BY <1>1, <3>1 DEF InsertSession, TypeOK
    <3>3. minted \subseteq Session
      BY <1>1 DEF TypeOK
    <3>. QED BY <3>2, <3>3 DEF Opened, PrintInv
  <2>2. CASE SessionsFade /\ minted' = minted
    BY <1>1, <2>2 DEF SessionsFade, Opened, PrintInv, TypeOK
  <2>. QED BY <1>1, <2>1, <2>2, StepsFade, NextMinted
<1>4. \A k \in Call : HoldsFingerprint(k)'
  BY <1>2, <1>3 DEF HoldsFingerprint
<1>. QED BY <1>1, <1>3, <1>4 DEF PrintInv

\* After a rotation of the bootstrap token no call gets past the fingerprint
\* with a session made before (authenticateSession).
THEOREM RotationIsNoticed == Spec => RotationEndsBootstrapSessions
<1>1. Init => PrintInv
  BY InitStoreInv DEF Init, PrintInv, Opened, HoldsFingerprint, Idle, As
<1>2. ASSUME PrintInv, [Next]_vars, NEW k \in Call,
             calls[k].pc = "matching", calls'[k].pc \in {"reading", "digesting", "served"},
             sessions[calls[k].cred] # None
      PROVE  sessions[calls[k].cred].fingerprint = bootstrap
  <2>1. MatchingMoves
    BY <1>2, NextMatching DEF PrintInv
  <2>. QED BY <1>2, <2>1 DEF MatchingMoves, PrintInv, HoldsFingerprint
<1>3. PrintInv /\ [Next]_vars =>
        [\A k \in Call :
            calls[k].pc = "matching" /\ calls'[k].pc \in {"reading", "digesting", "served"} =>
                LET row == sessions[calls[k].cred]
                IN  row # None => row.fingerprint = bootstrap]_vars
  BY <1>2
<1>. QED BY <1>1, <1>3, NextPrintInv, PTL DEF Spec, RotationEndsBootstrapSessions
=============================================================================

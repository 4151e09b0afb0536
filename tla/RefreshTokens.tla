---------------------------- MODULE RefreshTokens ----------------------------
(***************************************************************************)
(* Sign-in, refresh-token rotation and sign-out: routers/auth.py,          *)
(* services/refresh.py, repositories/refresh_tokens.py and the two tables  *)
(* refresh_token_families and refresh_token_history.                       *)
(*                                                                         *)
(* A refresh runs in TWO transactions: the first only resolves the         *)
(* organisation of the presented token; the second, scoped to it, finds    *)
(* the family by its current hash, checks it, and writes the new hash.     *)
(* The database runs READ COMMITTED (db/session.py sets no isolation       *)
(* level): each statement sees what had committed when it started, an      *)
(* UPDATE waits for the row's lock, and nothing the transaction wrote is   *)
(* visible before it commits.  One action below is one statement, or the   *)
(* Python between two statements, of one request.                          *)
(*                                                                         *)
(* A raw token and its SHA-256 are the same model value here: nothing in   *)
(* the code tells two tokens apart but the equality of their hashes.       *)
(***************************************************************************)
EXTENDS Naturals, FiniteSets

CONSTANTS User, Org, Client, Request, Family, Token,
          OrgOf,           \* the organisation of a user (users.organization_id)
          RefreshTtl,      \* settings.refresh_token_ttl_seconds
          MaxTime,         \* bound: the clock stops here
          ResponsesCanBeLost, \* whether an answer may fail to reach its client
          NoToken, NoFamily, NoRow, NoOrg, NoClient,
          ForeignToken     \* a cookie no row of this database has ever held

ASSUME UserAssumption == OrgOf \in [User -> Org]
ASSUME ClockAssumption == RefreshTtl \in Nat \ {0} /\ MaxTime \in Nat
ASSUME SentinelAssumption ==
    /\ NoToken \notin Token /\ ForeignToken \notin Token
    /\ NoToken # ForeignToken
    /\ NoFamily \notin Family /\ NoOrg \notin Org /\ NoClient \notin Client
ASSUME LossAssumption == ResponsesCanBeLost \in BOOLEAN

(***************************************************************************)
(* A row of refresh_token_families; its id is the index in `family'.       *)
(***************************************************************************)
FamilyRow == [user : User, org : Org, currentHash : Token,
              revoked : BOOLEAN, expiresAt : Nat]

ASSUME RowAssumption == NoRow \notin FamilyRow

VARIABLES
    now,        \* the clock read by datetime.now(UTC)
    family,     \* committed rows of refresh_token_families
    history,    \* committed rows of refresh_token_history: hash -> family_id
    jar,        \* the plimsoll_refresh cookie each browser holds
    stage,      \* how far each request being served has come
    client,     \* the browser a request came from
    presented,  \* the cookie a refresh request carries
    scope,      \* app.current_org_id of the request's second transaction
    target,     \* the family the request's transaction reads or writes
    row,        \* the family row the request has read, or is inserting
    minted,     \* the new token the request's transaction has written
    loginAt,    \* observation only: when each family was opened
    exchanged   \* observation only: pairs <<old, new>> of committed rotations

database == <<family, history, loginAt, exchanged>>
session == <<client, presented, scope, target, row, minted>>
vars == <<now, jar, stage, database, session>>

(***************************************************************************)
(* Stages.  A request in Writing holds the lock of its family's row; one   *)
(* in Answered has ended its transaction and only its response is left.    *)
(***************************************************************************)
Writing == {"inserted", "rotated", "revoking"}
InTransaction == Writing \cup {"scoped", "found", "granting", "replaying"}
Refused == {"unknown", "unusable", "replayed", "failed"}
\* Variant: the response is sent before the transaction has committed.
AnsweredEarly == Refused \cup {"granted", "inserted", "rotated"}

Answered == Refused \cup {"granted"}
Stage == {"idle", "received"} \cup InTransaction \cup Answered

TypeOK ==
    /\ now \in 0 .. MaxTime
    /\ family \in [Family -> FamilyRow \cup {NoRow}]
    /\ history \in [Token -> Family \cup {NoFamily}]
    /\ jar \in [Client -> Token \cup {NoToken, ForeignToken}]
    /\ stage \in [Request -> Stage]
    /\ client \in [Request -> Client \cup {NoClient}]
    /\ presented \in [Request -> Token \cup {NoToken, ForeignToken}]
    /\ scope \in [Request -> Org \cup {NoOrg}]
    /\ target \in [Request -> Family \cup {NoFamily}]
    /\ row \in [Request -> FamilyRow \cup {NoRow}]
    /\ minted \in [Request -> Token \cup {NoToken}]
    /\ loginAt \in [Family -> Nat]
    /\ exchanged \subseteq Token \X Token

Init ==
    /\ now = 0
    /\ family = [f \in Family |-> NoRow]
    /\ history = [t \in Token |-> NoFamily]
    /\ jar \in [Client -> {NoToken, ForeignToken}]
    /\ stage = [r \in Request |-> "idle"]
    /\ client = [r \in Request |-> NoClient]
    /\ presented = [r \in Request |-> NoToken]
    /\ scope = [r \in Request |-> NoOrg]
    /\ target = [r \in Request |-> NoFamily]
    /\ row = [r \in Request |-> NoRow]
    /\ minted = [r \in Request |-> NoToken]
    /\ loginAt = [f \in Family |-> 0]
    /\ exchanged = {}

-----------------------------------------------------------------------------
(***************************************************************************)
(* What statements see and wait for.                                       *)
(***************************************************************************)

\* secrets.token_urlsafe(48) and uuid4(): values nobody else has drawn.
FreshTokens == {t \in Token : history[t] = NoFamily /\ \A r \in Request : minted[r] # t}
FreshFamilies == {f \in Family : family[f] = NoRow /\ \A r \in Request : target[r] # f}

\* Bound: the finite Token stands for an inexhaustible supply, so a request that
\* may need a new token is let in only while one is left for it.
TokenLeft ==
    Cardinality(FreshTokens) >
        Cardinality({q \in Request : stage[q] \in {"received", "scoped", "found", "granting"}})

\* Rows the tenant policy shows to a transaction scoped to organisation o.
Visible(o) == {f \in Family : family[f] # NoRow /\ family[f].org = o}

\* repositories.refresh_tokens.find_by_hash: the family whose LIVE token t is.
FindByHash(o, t) == {f \in Visible(o) : family[f].currentHash = t}

\* auth_org_for_refresh: the family of a token, live or already consumed.
FamilyOfToken(t) == IF t \in Token THEN history[t] ELSE NoFamily

\* No other transaction holds the row's lock: an UPDATE of it may proceed.
Unlocked(r, f) == \A q \in Request \ {r} : stage[q] \in Writing => target[q] # f

\* Variant: a row is still good at the very instant it expires.
UsableAtExpiry(fam, time) == ~fam.revoked /\ ~(fam.expiresAt < time)

\* rotate's checks of the row it found.
Usable(fam, time) == ~fam.revoked /\ ~(fam.expiresAt <= time)

\* The second transaction leaves no trace: its connection or its commit fails,
\* or an exception crosses `async with session_for_org`.
RollBack(r, why) ==
    /\ stage' = [stage EXCEPT ![r] = why]
    /\ UNCHANGED <<now, jar, database, session>>

-----------------------------------------------------------------------------
(***************************************************************************)
(* POST /auth/login, the password having been verified.  The family row    *)
(* and its first history row are written in the request's one transaction. *)
(***************************************************************************)
IssueFamily(r, c, u) ==
    /\ stage[r] = "idle"
    /\ TokenLeft
    /\ \E f \in FreshFamilies, t \in FreshTokens :
        /\ target' = [target EXCEPT ![r] = f]
        /\ minted' = [minted EXCEPT ![r] = t]
        /\ row' = [row EXCEPT ![r] =
                      [user |-> u, org |-> OrgOf[u], currentHash |-> t,
                       revoked |-> FALSE, expiresAt |-> now + RefreshTtl]]
    /\ stage' = [stage EXCEPT ![r] = "inserted"]
    /\ client' = [client EXCEPT ![r] = c]
    /\ scope' = [scope EXCEPT ![r] = OrgOf[u]]
    /\ UNCHANGED <<now, jar, database, presented>>

\* POST /auth/refresh arrives with whatever cookie the browser holds.
PresentCookie(r, c) ==
    /\ stage[r] = "idle"
    /\ TokenLeft
    /\ jar[c] # NoToken
    /\ stage' = [stage EXCEPT ![r] = "received"]
    /\ client' = [client EXCEPT ![r] = c]
    /\ presented' = [presented EXCEPT ![r] = jar[c]]
    /\ UNCHANGED <<now, jar, database, scope, target, row, minted>>

\* First transaction: the organisation is resolved, or the token is unknown.
ResolveOrganization(r) ==
    /\ stage[r] = "received"
    /\ FamilyOfToken(presented[r]) # NoFamily
    /\ stage' = [stage EXCEPT ![r] = "scoped"]
    /\ scope' = [scope EXCEPT ![r] = family[FamilyOfToken(presented[r])].org]
    /\ UNCHANGED <<now, jar, database, client, presented, target, row, minted>>

RejectUnknown(r) ==
    /\ stage[r] = "received"
    /\ FamilyOfToken(presented[r]) = NoFamily
    /\ stage' = [stage EXCEPT ![r] = "unknown"]
    /\ UNCHANGED <<now, jar, database, session>>

\* Second transaction, first statement: the row is read, not locked.
FindRow(r) ==
    /\ stage[r] = "scoped"
    /\ \E f \in FindByHash(scope[r], presented[r]) :
        /\ target' = [target EXCEPT ![r] = f]
        /\ row' = [row EXCEPT ![r] = family[f]]
    /\ stage' = [stage EXCEPT ![r] = "found"]
    /\ UNCHANGED <<now, jar, database, client, presented, scope, minted>>

FindNoRow(r) ==
    /\ stage[r] = "scoped"
    /\ FindByHash(scope[r], presented[r]) = {}
    /\ stage' = [stage EXCEPT ![r] = "replaying"]
    /\ UNCHANGED <<now, jar, database, session>>

\* The row as it was read decides, against the clock as it is now.
AcceptRow(r) ==
    /\ stage[r] = "found"
    /\ Usable(row[r], now)
    /\ stage' = [stage EXCEPT ![r] = "granting"]
    /\ UNCHANGED <<now, jar, database, session>>

RejectRow(r) ==
    /\ stage[r] = "found"
    /\ ~Usable(row[r], now)
    /\ RollBack(r, "unusable")

\* Variant: the UPDATE is given no new hash.
ReplaceHashByNone(r) ==
    /\ stage[r] = "granting"
    /\ Unlocked(r, target[r])
    /\ stage' = [stage EXCEPT ![r] = "rotated"]
    /\ UNCHANGED <<now, jar, database, session>>

\* UPDATE ... SET current_hash WHERE id, and the INSERT into history.  The
\* UPDATE names the row by id alone: whatever hash it holds by now is replaced.
ReplaceHash(r) ==
    /\ stage[r] = "granting"
    /\ Unlocked(r, target[r])
    /\ \E t \in FreshTokens : minted' = [minted EXCEPT ![r] = t]
    /\ stage' = [stage EXCEPT ![r] = "rotated"]
    /\ UNCHANGED <<now, jar, database, client, presented, scope, target, row>>

\* A consumed token: revoke_family_containing updates the family's row ...
RevokeFamily(r) ==
    /\ stage[r] = "replaying"
    /\ Unlocked(r, FamilyOfToken(presented[r]))
    /\ target' = [target EXCEPT ![r] = FamilyOfToken(presented[r])]
    /\ stage' = [stage EXCEPT ![r] = "revoking"]
    /\ UNCHANGED <<now, jar, database, client, presented, scope, row, minted>>

\* ... and RefreshRejected, turned into PlimsollError INSIDE the session's
\* `async with`, ends that transaction: session.begin() rolls it back.
RaiseReplay(r) ==
    /\ stage[r] = "revoking"
    /\ RollBack(r, "replayed")

-----------------------------------------------------------------------------
(***************************************************************************)
(* Ends of the writing transactions, and the response.                     *)
(***************************************************************************)
CommitLogin(r) ==
    /\ stage[r] = "inserted"
    /\ family' = [family EXCEPT ![target[r]] = row[r]]
    /\ history' = [history EXCEPT ![minted[r]] = target[r]]
    /\ loginAt' = [loginAt EXCEPT ![target[r]] = now]
    /\ stage' = [stage EXCEPT ![r] = "granted"]
    /\ UNCHANGED <<now, jar, exchanged, session>>

\* Variants: the new hash is not recorded in the history; the row keeps its old
\* hash; the row's expiry is renewed.
CommitUnrecorded(r) ==
    /\ stage[r] = "rotated"
    /\ family' = [family EXCEPT ![target[r]].currentHash = minted[r]]
    /\ exchanged' = exchanged \cup {<<presented[r], minted[r]>>}
    /\ stage' = [stage EXCEPT ![r] = "granted"]
    /\ UNCHANGED <<now, jar, history, loginAt, session>>

CommitKeepingHash(r) ==
    /\ stage[r] = "rotated"
    /\ history' = [history EXCEPT ![minted[r]] = target[r]]
    /\ exchanged' = exchanged \cup {<<presented[r], minted[r]>>}
    /\ stage' = [stage EXCEPT ![r] = "granted"]
    /\ UNCHANGED <<now, jar, family, loginAt, session>>

CommitRenewingExpiry(r) ==
    /\ stage[r] = "rotated"
    /\ family' = [family EXCEPT ![target[r]].currentHash = minted[r],
                                ![target[r]].expiresAt = now + RefreshTtl]
    /\ history' = [history EXCEPT ![minted[r]] = target[r]]
    /\ exchanged' = exchanged \cup {<<presented[r], minted[r]>>}
    /\ stage' = [stage EXCEPT ![r] = "granted"]
    /\ UNCHANGED <<now, jar, loginAt, session>>

CommitRotation(r) ==
    /\ stage[r] = "rotated"
    /\ family' = [family EXCEPT ![target[r]].currentHash = minted[r]]
    /\ history' = [history EXCEPT ![minted[r]] = target[r]]
    /\ exchanged' = exchanged \cup {<<presented[r], minted[r]>>}
    /\ stage' = [stage EXCEPT ![r] = "granted"]
    /\ UNCHANGED <<now, jar, loginAt, session>>

\* The process, the connection or the commit fails while the transaction is open.
AbortTransaction(r) ==
    /\ stage[r] \in InTransaction
    /\ RollBack(r, "failed")

\* The request is over and nothing of it is kept.
Forget(r) ==
    /\ stage' = [stage EXCEPT ![r] = "idle"]
    /\ client' = [client EXCEPT ![r] = NoClient]
    /\ presented' = [presented EXCEPT ![r] = NoToken]
    /\ scope' = [scope EXCEPT ![r] = NoOrg]
    /\ target' = [target EXCEPT ![r] = NoFamily]
    /\ row' = [row EXCEPT ![r] = NoRow]
    /\ minted' = [minted EXCEPT ![r] = NoToken]

\* The answer reaches the browser; only a granted request sets the cookie.
DeliverGrant(r) ==
    /\ stage[r] \in Answered \ Refused
    /\ jar' = [jar EXCEPT ![client[r]] = minted[r]]
    /\ Forget(r)
    /\ UNCHANGED <<now, database>>

DeliverRefusal(r) ==
    /\ stage[r] \in Refused
    /\ Forget(r)
    /\ UNCHANGED <<now, jar, database>>

LoseResponse(r) ==
    /\ ResponsesCanBeLost
    /\ stage[r] \in Answered
    /\ Forget(r)
    /\ UNCHANGED <<now, jar, database>>

\* POST /auth/logout deletes the cookie and touches no table.
Logout(c) ==
    /\ jar' = [jar EXCEPT ![c] = NoToken]
    /\ UNCHANGED <<now, stage, database, session>>

Tick ==
    /\ now < MaxTime
    /\ now' = now + 1
    /\ UNCHANGED <<jar, stage, database, session>>

-----------------------------------------------------------------------------
\* Statements that may wait for another request's row lock.
LockingStep(r) == ReplaceHash(r) \/ RevokeFamily(r)

\* What the server does for a request without waiting for anybody.
ServerStep(r) ==
    \/ ResolveOrganization(r) \/ RejectUnknown(r)
    \/ FindRow(r) \/ FindNoRow(r)
    \/ AcceptRow(r) \/ RejectRow(r)
    \/ RaiseReplay(r)
    \/ CommitLogin(r) \/ CommitRotation(r)

Next ==
    \/ \E r \in Request, c \in Client :
        \/ PresentCookie(r, c)
        \/ \E u \in User : IssueFamily(r, c, u)
    \/ \E r \in Request :
        \/ ServerStep(r)
        \/ LockingStep(r)
        \/ AbortTransaction(r)
        \/ DeliverGrant(r) \/ DeliverRefusal(r) \/ LoseResponse(r)
    \/ \E c \in Client : Logout(c)
    \/ Tick

Spec == Init /\ [][Next]_vars

(***************************************************************************)
(* The event loop runs every ready handler (weak fairness of its steps),   *)
(* and PostgreSQL grants a row's lock in order of arrival, so a statement  *)
(* that is again and again able to take it does (strong fairness).         *)
(* Nothing is assumed of browsers, of the network or of failures.          *)
(***************************************************************************)
FairSpec ==
    /\ Spec
    /\ \A r \in Request : WF_vars(ServerStep(r)) /\ SF_vars(LockingStep(r))

-----------------------------------------------------------------------------
(***************************************************************************)
(* Safety.                                                                 *)
(***************************************************************************)

\* Every live token is on record in the history, under the family it is live
\* in.  revoke_family_containing and auth_org_for_refresh find a family only
\* through that record once the token is consumed; without it a consumed token
\* is taken for an unknown one.  It also makes `.first()` in find_by_hash
\* unambiguous: two families never share a live token.
LiveTokenOnRecord ==
    \A f \in Family : family[f] # NoRow => history[family[f].currentHash] = f

\* A token once exchanged is never live again, in any family, whatever other
\* rotations of the same family commit after it.
ConsumedTokenStaysConsumed ==
    \A pair \in exchanged, f \in Family :
        family[f] # NoRow => family[f].currentHash # pair[1]

\* A rotation never moves a session to another family: the token handed back
\* belongs to the family, hence to the user and the organisation, of the token
\* that was presented.
LineageStaysInFamily ==
    \A pair \in exchanged :
        /\ history[pair[1]] # NoFamily
        /\ history[pair[1]] = history[pair[2]]

\* Every token, live or exchanged, is on record under the family it was issued in:
\* whichever of them is presented, the same session is found.
TokensKeepTheirFamily == LiveTokenOnRecord /\ LineageStaysInFamily

\* Of what a rotation read without a lock, this much is still true when it writes:
\* until its transaction ends, the family it found exists, still owns the presented
\* token and still expires when the row it read says, whatever other requests commit
\* between its statements.  Its current hash and its revocation may have changed.
ReadFamilyStands ==
    \A r \in Request :
        stage[r] \in {"found", "granting", "rotated"} =>
            /\ target[r] \in Family /\ family[target[r]] # NoRow
            /\ presented[r] \in Token /\ history[presented[r]] = target[r]
            /\ row[r] \in FamilyRow
            /\ row[r].expiresAt = family[target[r]].expiresAt

\* However often it is rotated, a session is accepted only within RefreshTtl
\* of the login that opened it: rotation does not extend it.
SessionEndsOnSchedule ==
    [][\A r \in Request :
          stage[r] = "found" /\ stage'[r] = "granting"
              => now < loginAt[target[r]] + RefreshTtl]_vars

\* A cookie this server handed out is never called unknown, whatever answers were
\* lost and whatever other requests were under way: login and refresh commit
\* before the response that carries the cookie is sent (db_session has function
\* scope), and no rotation takes a token off the record.
HandedOutTokenIsKnown ==
    \A r \in Request : stage[r] = "unknown" => presented[r] \notin Token

(***************************************************************************)
(* What the documents promise and the code does not do.                    *)
(***************************************************************************)

\* docs/architecture/05-security.md: reuse of a consumed refresh token revokes
\* the family.  When the replay is answered, the family is revoked.
ReplayRevokesFamily ==
    \A r \in Request :
        stage[r] = "replayed" => family[FamilyOfToken(presented[r])].revoked

\* Refresh tokens rotate on use: one token is exchanged at most once.
TokenExchangedOnce ==
    \A p, q \in exchanged : p[1] = q[1] => p[2] = q[2]

(***************************************************************************)
(* Liveness.                                                               *)
(***************************************************************************)

\* Every request is answered: waiting for a family's row never becomes a
\* deadlock, because a transaction locks one row and then only commits, rolls
\* back or fails.
RequestsAreAnswered ==
    \A r \in Request : stage[r] # "idle" ~> stage[r] \in Answered

=============================================================================

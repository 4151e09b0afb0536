------------------------------- MODULE Sessions -------------------------------
(***************************************************************************)
(* The transactions a request makes, on connections that are pooled:       *)
(* db/session.py and dependencies.py, the tenant policies of migration     *)
(* 0003, and the Git work that git/client.py does between two of them.     *)
(*                                                                         *)
(* A transaction sees the rows of the organisation its connection's        *)
(* app.current_org_id names.  The setting is local to the transaction, the *)
(* connection is not: it goes back to the pool for any request to take.    *)
(* The rows of an organisation are represented by the organisation.        *)
(***************************************************************************)
EXTENDS Naturals, Sequences

CONSTANTS Request,     \* each is served once: no request comes back
          Connection,  \* pool_size + max_overflow of the engine
          Org,
          NoConnection,
          Unset, Empty \* current_setting of a new connection, and of one used before

ASSUME ConnectionAssumption == NoConnection \notin Connection
ASSUME SettingAssumption == Unset \notin Org /\ Empty \notin Org /\ Unset # Empty

(***************************************************************************)
(* The steps of each kind of endpoint.                                     *)
(***************************************************************************)
\* One that depends on TenantSession.
ScopedSteps == <<"connect", "bind", "query", "end">>

\* Variant: the token family is written before the session is bound.
LoginBoundLate == <<"connect", "lookup", "query", "bind", "end">>

LoginSteps == <<"connect", "lookup", "bind", "query", "end">>

RefreshSteps == <<"connect", "lookup", "end", "connect", "bind", "query", "end">>

\* The readiness check of the database.
ProbeSteps == <<"connect", "end">>

\* Variant: the Git work is done inside the first transaction.
PinInside == <<"connect", "bind", "query", "resolve", "fetch", "query", "end">>

\* pin_version, verify_script_repo and validate_test.
PinSteps == <<"connect", "bind", "query", "end", "resolve", "fetch",
              "connect", "bind", "query", "end">>

Handlers == [scoped |-> ScopedSteps, login |-> LoginSteps, refresh |-> RefreshSteps,
             probe |-> ProbeSteps, git |-> PinSteps]

GitSteps == {"resolve", "fetch"}

VARIABLES
    kind,      \* which handler a request has
    orgOf,     \* the organisation of its token, or of the row its lookup finds
    at,        \* the step its handler has come to; 0: it has not arrived
    answer,    \* what it was answered
    holds,     \* the connection its transaction is on
    setting,   \* app.current_org_id on each connection
    shown      \* the rows its statements were shown, one set for each statement

sessionVars == <<kind, orgOf, at, answer, holds, setting, shown>>

SessionTypeOK ==
    /\ kind \in [Request -> DOMAIN Handlers]
    /\ orgOf \in [Request -> Org \cup {Unset}]
    /\ at \in [Request -> Nat]
    /\ answer \in [Request -> {"none", "ok", "refused", "error"}]
    /\ holds \in [Request -> Connection \cup {NoConnection}]
    /\ setting \in [Connection -> Org \cup {Unset, Empty}]
    /\ shown \in [Request -> SUBSET SUBSET Org]
    /\ \A r, q \in Request : holds[r] = holds[q] => r = q \/ holds[r] = NoConnection

SessionInit ==
    /\ kind = [r \in Request |-> "scoped"]
    /\ orgOf = [r \in Request |-> Unset]
    /\ at = [r \in Request |-> 0]
    /\ answer = [r \in Request |-> "none"]
    /\ holds = [r \in Request |-> NoConnection]
    /\ setting = [c \in Connection |-> Unset]
    /\ shown = [r \in Request |-> {}]

-----------------------------------------------------------------------------
StepOf(r) == IF at[r] = 0 \/ answer[r] # "none" THEN "none" ELSE Handlers[kind[r]][at[r]]

Advance(r) ==
    /\ at' = [at EXCEPT ![r] = @ + 1]
    /\ answer' = [answer EXCEPT ![r] = IF at[r] = Len(Handlers[kind[r]]) THEN "ok" ELSE @]

Answer(r, a) == answer' = [answer EXCEPT ![r] = a] /\ UNCHANGED at

Free == {c \in Connection : \A r \in Request : holds[r] # c}

\* NULLIF(current_setting('app.current_org_id', true), '')::uuid
Visible(c) == {o \in Org : setting[c] = o}

\* The transaction ends and its connection goes back; a setting that was local to
\* it is then empty, which it was not before it was ever set.
Release(r) ==
    /\ holds' = [holds EXCEPT ![r] = NoConnection]
    /\ setting' = [setting EXCEPT ![holds[r]] = IF @ = Unset THEN Unset ELSE Empty]

-----------------------------------------------------------------------------
\* A token names an existing organisation; a password or a refresh token may be
\* nobody's, which only the lookup finds out.
Arrive(r) ==
    /\ at[r] = 0
    /\ \E k \in DOMAIN Handlers, o \in Org \cup {Unset} :
         /\ k \in {"scoped", "git"} => o \in Org
         /\ k = "probe" => o = Unset
         /\ kind' = [kind EXCEPT ![r] = k]
         /\ orgOf' = [orgOf EXCEPT ![r] = o]
    /\ at' = [at EXCEPT ![r] = 1]
    /\ UNCHANGED <<answer, holds, setting, shown>>

\* Variant: a connection may be had that is in use.
ConnectAny(r) ==
    /\ StepOf(r) = "connect"
    /\ \E c \in Connection : holds' = [holds EXCEPT ![r] = c]
    /\ Advance(r)
    /\ UNCHANGED <<kind, orgOf, setting, shown>>

Connect(r) ==
    /\ StepOf(r) = "connect"
    /\ \E c \in Free : holds' = [holds EXCEPT ![r] = c]
    /\ Advance(r)
    /\ UNCHANGED <<kind, orgOf, setting, shown>>

\* The engine's pool_timeout.
GiveUp(r) ==
    /\ StepOf(r) = "connect" /\ Free = {}
    /\ Answer(r, "error")
    /\ UNCHANGED <<kind, orgOf, holds, setting, shown>>

\* auth_lookup_user and auth_org_for_refresh run as plimsoll_auth, past the policies.
Lookup(r) ==
    /\ StepOf(r) = "lookup"
    /\ IF orgOf[r] \in Org
       THEN Advance(r) /\ UNCHANGED <<holds, setting>>
       ELSE Answer(r, "refused") /\ Release(r)
    /\ UNCHANGED <<kind, orgOf, shown>>

\* set_config('app.current_org_id', :org, true)
Bind(r) ==
    /\ StepOf(r) = "bind"
    /\ setting' = [setting EXCEPT ![holds[r]] = orgOf[r]]
    /\ Advance(r)
    /\ UNCHANGED <<kind, orgOf, holds, shown>>

\* The statements of the handler, on tables that have the tenant policy.
Query(r) ==
    /\ StepOf(r) = "query"
    /\ shown' = [shown EXCEPT ![r] = @ \cup {Visible(holds[r])}]
    /\ Advance(r)
    /\ UNCHANGED <<kind, orgOf, holds, setting>>

CommitSession(r) ==
    /\ StepOf(r) = "end"
    /\ Release(r)
    /\ Advance(r)
    /\ UNCHANGED <<kind, orgOf, shown>>

\* A statement fails, or the handler raises: the transaction is rolled back.
Raise(r) ==
    /\ StepOf(r) # "none" /\ holds[r] # NoConnection
    /\ Release(r)
    /\ Answer(r, "error")
    /\ UNCHANGED <<kind, orgOf, shown>>

-----------------------------------------------------------------------------
\* A commit's id resolves to itself, without Git being asked.
GitAnswers(r) ==
    /\ StepOf(r) \in GitSteps
    /\ Advance(r)
    /\ UNCHANGED <<kind, orgOf, holds, setting, shown>>

\* The step at which a report of what failed is recorded.
Reporting(r) == CHOOSE i \in DOMAIN Handlers[kind[r]] :
                    /\ i > at[r] /\ Handlers[kind[r]][i] \notin GitSteps
                    /\ \A j \in at[r] .. i - 1 : Handlers[kind[r]][j] \in GitSteps

\* GitError, TIMEOUT_SECONDS among its reasons.  A pin is refused; verify and
\* validate_test report it.
GitFails(r) ==
    /\ StepOf(r) \in GitSteps
    /\ \/ Answer(r, "refused")
       \/ at' = [at EXCEPT ![r] = Reporting(r)] /\ UNCHANGED answer
    /\ UNCHANGED <<kind, orgOf, holds, setting, shown>>

GitWork(r) == GitAnswers(r) \/ GitFails(r)

Served(r) == Connect(r) \/ Lookup(r) \/ Bind(r) \/ Query(r) \/ CommitSession(r)

SessionNext == \E r \in Request : Arrive(r) \/ Served(r) \/ GiveUp(r) \/ Raise(r) \/ GitWork(r)

\* A statement that has been sent is executed, and a free connection given to one who
\* waits.  Nothing is assumed of Git, whose hosts are strangers, nor of its timeout.
SessionFairness == \A r \in Request : WF_sessionVars(Served(r))

SessionSpec == SessionInit /\ [][SessionNext]_sessionVars /\ SessionFairness

-----------------------------------------------------------------------------
\* Whoever used its connection before, and however that ended, a request's statements
\* are shown the rows of its own organisation: no others, and not none.
OwnRowsShown == \A r \in Request : shown[r] \subseteq {{orgOf[r]}}

\* "A transaction with no organisation set, so the policies expose nothing": a
\* connection another organisation's request has used exposes nothing either.
UnboundExposesNothing ==
    \A r \in Request : StepOf(r) \in {"lookup", "bind"} => Visible(holds[r]) = {}

\* Requests that share a connection do not share rows, before they are bound or after.
OrganisationsStayApart == OwnRowsShown /\ UnboundExposesNothing

\* "A transaction held open across a clone would hold a connection for as long as a
\* stranger's Git host takes to answer": none is, so whoever waits for a connection
\* gets one or is told, although Git never answers.
NobodyWaitsForGit ==
    \A r \in Request : StepOf(r) = "connect" ~> StepOf(r) # "connect"

=============================================================================

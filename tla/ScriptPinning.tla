---------------------------- MODULE ScriptPinning ----------------------------
(***************************************************************************)
(* Pinning a plan: POST /script-repos/{id}/versions, `pin_version' of      *)
(* routers/script_repos.py with services/script_versions.py.               *)
(*                                                                         *)
(* A pin is three parts with nothing held between them: a transaction that *)
(* reads the repository's row, Git work against a host whose branches move *)
(* meanwhile, and a transaction that looks for the version and inserts it. *)
(* Two pins of the same commit therefore race for the unique key           *)
(* (script_repo_id, commit_sha, plan_path), on which an INSERT waits for   *)
(* another transaction's uncommitted one.                                  *)
(*                                                                         *)
(* One repository is modelled: versions of different ones never meet.  A   *)
(* row's id is its place in `rows'.                                        *)
(***************************************************************************)
EXTENDS Naturals, Sequences

CONSTANTS Request,   \* pins under way at one time
          Ref,       \* branches and tags
          Commit,
          Path,      \* plan paths
          Plans,     \* the <<commit, path>> that hold a plan which parses
          Nothing

ASSUME PlansAssumption == Plans \subseteq Commit \X Path
ASSUME NothingAssumption == Nothing \notin Ref \cup Commit \cup (Commit \X Path)

VARIABLES
    setting,  \* the repository's row: plan_path and default_ref
    head,     \* on the Git host: the commit of each ref
    rows,     \* committed script_versions, oldest first
    audit,    \* committed audit rows: ids of the versions pinned
    stage,    \* how far each request has come
    ask,      \* the path and the ref a request has read
    sha,      \* the commit a request has resolved
    found,    \* what a request fetched: stands for checksum and metadata
    told      \* observation only: the ids clients were given for a plan

host == <<setting, head>>
stored == <<rows, audit>>
private == <<ask, sha, found>>
vars == <<host, stored, stage, private, told>>

\* "failed" is any refusal, "duplicate" the unhandled violation of the key.
Answered == {"pinned", "failed", "duplicate"}
Stage == {"idle", "read", "resolved", "fetched", "absent", "inserted"} \cup Answered

Asked == [path : Path, ref : Ref]
Row == [sha : Commit, path : Path, content : Commit \X Path]

TypeOK ==
    /\ setting \in Asked
    /\ head \in [Ref -> Commit \cup {Nothing}]
    /\ rows \in Seq(Row)
    /\ audit \in Seq(Nat)
    /\ stage \in [Request -> Stage]
    /\ ask \in [Request -> Asked]
    /\ sha \in [Request -> Commit \cup {Nothing}]
    /\ found \in [Request -> (Commit \X Path) \cup {Nothing}]
    /\ told \in [Commit \X Path -> SUBSET Nat]

Init ==
    /\ setting \in Asked
    /\ head \in [Ref -> Commit]
    /\ rows = <<>>
    /\ audit = <<>>
    /\ stage = [r \in Request |-> "idle"]
    /\ ask = [r \in Request |-> setting]
    /\ sha = [r \in Request |-> Nothing]
    /\ found = [r \in Request |-> Nothing]
    /\ told = [key \in Commit \X Path |-> {}]

-----------------------------------------------------------------------------
\* The version a request is about to look for, and the rows that have its key.
Key(r) == <<sha[r], ask[r].path>>
Matching(key) == {i \in DOMAIN rows : <<rows[i].sha, rows[i].path>> = key}

\* No transaction holds an uncommitted row with the request's key.
Unclaimed(r) == \A s \in Request \ {r} : stage[s] = "inserted" => Key(s) # Key(r)

\* Variant: the plan is fetched by the name of the ref instead of the commit.
FetchedByRef(r) == <<head[ask[r].ref], ask[r].path>>

\* What `fetch_plan' brings: the file at the path, in the commit resolved.
Fetched(r) == <<sha[r], ask[r].path>>

-----------------------------------------------------------------------------
(***************************************************************************)
(* The first transaction, and the Git work.  A body without a ref means    *)
(* the repository's default_ref, which is one of the refs.                 *)
(***************************************************************************)
ReadRepo(r) ==
    /\ stage[r] \in {"idle"} \cup Answered
    /\ \E ref \in Ref :
         ask' = [ask EXCEPT ![r] = [path |-> setting.path, ref |-> ref]]
    /\ stage' = [stage EXCEPT ![r] = "read"]
    /\ sha' = [sha EXCEPT ![r] = Nothing]
    /\ found' = [found EXCEPT ![r] = Nothing]
    /\ UNCHANGED <<host, stored, told>>

\* Variant: the commit is recorded without its plan being fetched.
ResolveOnly(r) ==
    /\ stage[r] = "read"
    /\ head[ask[r].ref] # Nothing
    /\ sha' = [sha EXCEPT ![r] = head[ask[r].ref]]
    /\ stage' = [stage EXCEPT ![r] = "fetched"]
    /\ UNCHANGED <<host, stored, ask, found, told>>

ResolveRef(r) ==
    /\ stage[r] = "read"
    /\ head[ask[r].ref] # Nothing
    /\ sha' = [sha EXCEPT ![r] = head[ask[r].ref]]
    /\ stage' = [stage EXCEPT ![r] = "resolved"]
    /\ UNCHANGED <<host, stored, ask, found, told>>

FetchPlan(r) ==
    /\ stage[r] = "resolved"
    /\ Fetched(r) \in Plans
    /\ found' = [found EXCEPT ![r] = Fetched(r)]
    /\ stage' = [stage EXCEPT ![r] = "fetched"]
    /\ UNCHANGED <<host, stored, ask, sha, told>>

\* REPO_UNREACHABLE or VALIDATION_FAILED: an unknown ref, a plan that is missing
\* or does not parse, or a host that does not answer.
RefuseCandidate(r) ==
    /\ stage[r] \in {"read", "resolved"}
    /\ stage' = [stage EXCEPT ![r] = "failed"]
    /\ UNCHANGED <<host, stored, private, told>>

(***************************************************************************)
(* The second transaction.                                                 *)
(***************************************************************************)
\* 200: the version is there already.  The row is returned, nothing is written.
FindVersion(r) ==
    /\ stage[r] = "fetched"
    /\ \E i \in Matching(Key(r)) : told' = [told EXCEPT ![Key(r)] = @ \cup {i}]
    /\ stage' = [stage EXCEPT ![r] = "pinned"]
    /\ UNCHANGED <<host, stored, private>>

MissVersion(r) ==
    /\ stage[r] = "fetched"
    /\ Matching(Key(r)) = {}
    /\ stage' = [stage EXCEPT ![r] = "absent"]
    /\ UNCHANGED <<host, stored, private, told>>

\* Variant: the key is checked against nothing.
InsertUnchecked(r) ==
    /\ stage[r] = "absent"
    /\ stage' = [stage EXCEPT ![r] = "inserted"]
    /\ UNCHANGED <<host, stored, private, told>>

InsertVersion(r) ==
    /\ stage[r] = "absent"
    /\ Unclaimed(r)
    /\ Matching(Key(r)) = {}
    /\ stage' = [stage EXCEPT ![r] = "inserted"]
    /\ UNCHANGED <<host, stored, private, told>>

\* IntegrityError: somebody else's INSERT of this version has been committed
\* since `by_commit' looked.  Nothing catches it.
InsertDuplicate(r) ==
    /\ stage[r] = "absent"
    /\ Matching(Key(r)) # {}
    /\ stage' = [stage EXCEPT ![r] = "duplicate"]
    /\ UNCHANGED <<host, stored, private, told>>

\* Variant: the audit row is left out.
CommitUnaudited(r) ==
    /\ stage[r] = "inserted"
    /\ rows' = Append(rows, [sha |-> sha[r], path |-> ask[r].path, content |-> found[r]])
    /\ told' = [told EXCEPT ![Key(r)] = @ \cup {Len(rows) + 1}]
    /\ stage' = [stage EXCEPT ![r] = "pinned"]
    /\ UNCHANGED <<host, audit, private>>

\* 201, with the audit row of the same transaction.
CommitPin(r) ==
    /\ stage[r] = "inserted"
    /\ rows' = Append(rows, [sha |-> sha[r], path |-> ask[r].path, content |-> found[r]])
    /\ audit' = Append(audit, Len(rows) + 1)
    /\ told' = [told EXCEPT ![Key(r)] = @ \cup {Len(rows) + 1}]
    /\ stage' = [stage EXCEPT ![r] = "pinned"]
    /\ UNCHANGED <<host, private>>

\* The second transaction fails and rolls back.
Abort(r) ==
    /\ stage[r] \in {"fetched", "absent", "inserted"}
    /\ stage' = [stage EXCEPT ![r] = "failed"]
    /\ UNCHANGED <<host, stored, private, told>>

(***************************************************************************)
(* What moves meanwhile.                                                   *)
(***************************************************************************)
EditRepo ==
    /\ setting' \in Asked
    /\ UNCHANGED <<head, stored, stage, private, told>>

Push ==
    /\ \E ref \in Ref, c \in Commit \cup {Nothing} : head' = [head EXCEPT ![ref] = c]
    /\ UNCHANGED <<setting, stored, stage, private, told>>

Pin(r) ==
    \/ ReadRepo(r) \/ ResolveRef(r) \/ FetchPlan(r) \/ RefuseCandidate(r)
    \/ FindVersion(r) \/ MissVersion(r)
    \/ InsertVersion(r) \/ InsertDuplicate(r) \/ CommitPin(r) \/ Abort(r)

Next == (\E r \in Request : Pin(r)) \/ EditRepo \/ Push

Spec == Init /\ [][Next]_vars

-----------------------------------------------------------------------------
\* However pins race, a commit's plan has one row (by_commit, then insert under
\* the unique key of migration 0002).
OneRowPerPlan ==
    \A i, j \in DOMAIN rows :
        rows[i].sha = rows[j].sha /\ rows[i].path = rows[j].path => i = j

\* A row's checksum and summary are those of the file at its own path in its own
\* commit, whatever the branch and the repository's settings did between the
\* resolution, the fetch and the insert.
RowDescribesItsCommit ==
    \A i \in DOMAIN rows :
        /\ rows[i].content = <<rows[i].sha, rows[i].path>>
        /\ rows[i].content \in Plans

\* services/script_versions.py: pinning the same thing twice "returns the row
\* that already exists" -- all clients that pinned a plan were given the same
\* row, and it is a row that describes that plan.
ClientsAgreeOnRow ==
    \A key \in Commit \X Path :
        \A i, j \in told[key] : i = j /\ i \in Matching(key)

\* A version is audited once, by the request that inserted it.
AuditTellsPins == audit = [i \in DOMAIN rows |-> i]

\* However many pins of a plan race, it is pinned once: one row and one record of it.
PlansArePinnedOnce == OneRowPerPlan /\ AuditTellsPins

\* services/script_versions.py: "Pinning is idempotent by construction", so a
\* request whose version somebody has just pinned is answered with that row.
PinningIsIdempotent == \A r \in Request : stage[r] # "duplicate"

=============================================================================

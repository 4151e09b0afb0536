----------------------------- MODULE TargetPolicy -----------------------------
(***************************************************************************)
(* The versions of an organisation's target policy: PUT and GET            *)
(* /target-policy, services/target_policy.py over                          *)
(* repositories/target_policy.py, and the version the seed offers.         *)
(*                                                                         *)
(* A PUT never changes a row.  One statement reads MAX(version) in its own *)
(* snapshot and inserts the row that follows it; the unique key            *)
(* (organization_id, version) is what keeps two PUTs that read the same    *)
(* maximum apart.  A validation (POST /tests/{id}/validate) reads the      *)
(* current policy in one transaction and reports on it after Git work, by  *)
(* when there may be a newer one.                                          *)
(***************************************************************************)
EXTENDS Allowlist, FiniteSets

CONSTANTS Request,
          Seeding,     \* runs of the seed, each in a transaction of its own
          Offered,     \* the lists a PUT can carry
          DemoList,    \* the list the seed inserts
          MaxVersion   \* bound: no PUT begins once this many versions exist

ASSUME RequestAssumption == Request \cap Seeding = {}
ASSUME OfferedAssumption == Offered \subseteq SUBSET Entry
ASSUME DemoAssumption == DemoList \in SUBSET Entry /\ ValidEntries(DemoList)
ASSUME BoundAssumption == MaxVersion \in Nat

VARIABLES
    policies,  \* committed rows in the order of their commits
    audit,     \* committed audit rows: the versions written
    stage,     \* how far each request has come
    body,      \* the allowlist a PUT carries
    number,    \* the version a PUT has computed
    shown      \* the policy each request was last given, as [version, allowlist]

stored == <<policies, audit>>
vars == <<stored, stage, body, number, shown>>

Process == Request \cup Seeding

\* `by' is the column created_by: the seed leaves it null.
Policy == [version : Nat, allowlist : SUBSET Entry, by : {"admin", "seed"}]
Stage == {"idle", "numbered", "inserted", "duplicate", "refused"}

\* Version 0 is how an organisation without a policy is reported.
Unconfigured == [version |-> 0, allowlist |-> {}, by |-> "admin"]

TypeOK ==
    /\ policies \in Seq(Policy)
    /\ audit \in Seq(Nat \ {0})
    /\ stage \in [Process -> Stage]
    /\ body \in [Process -> SUBSET Entry]
    /\ number \in [Process -> Nat]
    /\ shown \in [Request -> Policy]

Init ==
    /\ policies = <<>>
    /\ audit = <<>>
    /\ stage = [r \in Process |-> "idle"]
    /\ body = [r \in Process |-> {}]
    /\ number = [r \in Process |-> 0]
    /\ shown = [r \in Request |-> Unconfigured]

-----------------------------------------------------------------------------
Versions == {policies[i].version : i \in DOMAIN policies}

\* Variant: the next version is numbered by the rows there are, from zero.
NumberFromZero == Cardinality(Versions)

\* COALESCE(MAX(version), 0) + 1
NextVersion ==
    CHOOSE n \in 1 .. Len(policies) + 1 :
        /\ \A v \in Versions : v < n
        /\ n = 1 \/ n - 1 \in Versions

\* Variant: the oldest row.
OldestPolicy == IF policies = <<>> THEN Unconfigured ELSE policies[1]

\* ORDER BY version DESC LIMIT 1, and version 0 when there is no row.
CurrentPolicy ==
    IF policies = <<>> THEN Unconfigured
    ELSE policies[CHOOSE i \in DOMAIN policies : \A v \in Versions : v <= policies[i].version]

NumberFree(r) ==
    \A s \in Process \ {r} : stage[s] = "inserted" => number[s] # number[r]

Ready(r) == stage[r] \in {"idle", "duplicate", "refused"}

-----------------------------------------------------------------------------
GetPolicy(r) ==
    /\ Ready(r)
    /\ shown' = [shown EXCEPT ![r] = CurrentPolicy]
    /\ stage' = [stage EXCEPT ![r] = "idle"]
    /\ UNCHANGED <<stored, body, number>>

(***************************************************************************)
(* PUT: validate_entries first.  Then the INSERT computes the version from *)
(* its snapshot and meets the unique key, where it waits for another       *)
(* transaction's row of the same number.                                   *)
(***************************************************************************)
RefusePolicy(r) ==
    /\ Ready(r)
    /\ \E list \in Offered : ~ValidEntries(list)
    /\ stage' = [stage EXCEPT ![r] = "refused"]
    /\ UNCHANGED <<stored, body, number, shown>>

NumberPolicy(r) ==
    /\ Ready(r)
    /\ Len(policies) < MaxVersion
    /\ \E list \in Offered : ValidEntries(list) /\ body' = [body EXCEPT ![r] = list]
    /\ number' = [number EXCEPT ![r] = NextVersion]
    /\ stage' = [stage EXCEPT ![r] = "numbered"]
    /\ UNCHANGED <<stored, shown>>

\* Variant: the audit row is committed without the change (a transaction of its own).
AuditBeforehand(r) ==
    /\ stage[r] = "numbered"
    /\ NumberFree(r)
    /\ number[r] \notin Versions
    /\ audit' = IF r \in Request THEN Append(audit, number[r]) ELSE audit
    /\ stage' = [stage EXCEPT ![r] = "inserted"]
    /\ UNCHANGED <<policies, body, number, shown>>

InsertPolicy(r) ==
    /\ stage[r] = "numbered"
    /\ NumberFree(r)
    /\ number[r] \notin Versions
    /\ stage' = [stage EXCEPT ![r] = "inserted"]
    /\ UNCHANGED <<stored, body, number, shown>>

\* IntegrityError, which nothing catches: another PUT committed this version.
InsertDuplicate(r) ==
    /\ stage[r] = "numbered"
    /\ number[r] \in Versions
    /\ stage' = [stage EXCEPT ![r] = "duplicate"]
    /\ UNCHANGED <<stored, body, number, shown>>

Put(r) == [version |-> number[r], allowlist |-> body[r], by |-> "admin"]

\* Variant: the row of the version before is rewritten.
CommitInPlace(r) ==
    /\ stage[r] = "inserted"
    /\ policies' = IF policies = <<>> THEN <<Put(r)>>
                   ELSE [policies EXCEPT ![Len(policies)].allowlist = body[r]]
    /\ audit' = Append(audit, number[r])
    /\ shown' = [shown EXCEPT ![r] = Put(r)]
    /\ stage' = [stage EXCEPT ![r] = "idle"]
    /\ UNCHANGED <<body, number>>

CommitPolicy(r) ==
    /\ stage[r] = "inserted"
    /\ policies' = Append(policies, Put(r))
    /\ audit' = Append(audit, number[r])
    /\ shown' = [shown EXCEPT ![r] = Put(r)]
    /\ stage' = [stage EXCEPT ![r] = "idle"]
    /\ UNCHANGED <<body, number>>

Abort(r) ==
    /\ stage[r] \in {"numbered", "inserted"}
    /\ stage' = [stage EXCEPT ![r] = "idle"]
    /\ UNCHANGED <<stored, body, number, shown>>

(***************************************************************************)
(* The seed's INSERT of version 1, ON CONFLICT DO NOTHING: it waits at the *)
(* key like a PUT, but a version 1 that is there is left as it is.  The    *)
(* seed writes no audit row.                                               *)
(***************************************************************************)
OfferFirst(s) ==
    /\ stage[s] = "idle"
    /\ body' = [body EXCEPT ![s] = DemoList]
    /\ number' = [number EXCEPT ![s] = 1]
    /\ stage' = [stage EXCEPT ![s] = "numbered"]
    /\ UNCHANGED <<stored, shown>>

InsertNothing(s) ==
    /\ stage[s] = "numbered"
    /\ number[s] \in Versions
    /\ stage' = [stage EXCEPT ![s] = "idle"]
    /\ UNCHANGED <<stored, body, number, shown>>

CommitFirst(s) ==
    /\ stage[s] = "inserted"
    /\ policies' = Append(policies, [version |-> 1, allowlist |-> DemoList, by |-> "seed"])
    /\ stage' = [stage EXCEPT ![s] = "idle"]
    /\ UNCHANGED <<audit, body, number, shown>>

Next ==
    \/ \E r \in Request :
         \/ GetPolicy(r) \/ RefusePolicy(r) \/ NumberPolicy(r)
         \/ InsertPolicy(r) \/ InsertDuplicate(r) \/ CommitPolicy(r) \/ Abort(r)
    \/ \E s \in Seeding :
         OfferFirst(s) \/ InsertPolicy(s) \/ InsertNothing(s) \/ CommitFirst(s) \/ Abort(s)

Spec == Init /\ [][Next]_vars

-----------------------------------------------------------------------------
\* The versions are 1, 2, 3, ... in the order of their commits: none twice and
\* none left out, however PUTs and seeds interleave and fail.  "A historical run
\* can resolve what was permitted when it ran" by the number alone.
VersionsAreConsecutive ==
    \A i \in DOMAIN policies : policies[i].version = i

\* What a client was ever shown under a version is what the table still says of
\* that version: rows are immutable and a number is never reused.
ShownPoliciesStand ==
    \A r \in Request :
        shown[r].version # 0 => \E i \in DOMAIN policies : policies[i] = shown[r]

\* A number names one policy for ever: the one whoever was given the number was shown.
VersionsNamePolicies == VersionsAreConsecutive /\ ShownPoliciesStand

\* Every version somebody PUT has its audit row, in order, and an aborted PUT has
\* none; the seed's version has none either.
AuditTellsVersions ==
    /\ \A i, j \in DOMAIN audit : i < j => audit[i] < audit[j]
    /\ {audit[i] : i \in DOMAIN audit}
         = {n \in DOMAIN policies : policies[n].by = "admin"}

\* Every version there ever was keeps the blocked addresses blocked: "an entry
\* that would permit one is refused at write time rather than surprising a run".
PoliciesKeepBlocked ==
    \A i \in DOMAIN policies : KeepsBlocked(policies[i].allowlist)

\* A client is never shown an older policy than before: reads follow commits.
PolicyNeverGoesBack ==
    [][\A r \in Request : shown'[r].version >= shown[r].version]_vars

=============================================================================

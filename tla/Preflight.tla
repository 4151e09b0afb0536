------------------------------ MODULE Preflight ------------------------------
(***************************************************************************)
(* Preflight: POST /tests/{id}/validate -- `run' of services/preflight.py, *)
(* on the inputs routers/performance_tests.py has read in one transaction. *)
(*                                                                         *)
(* The checks come in two passes over the plans, both against Git hosts    *)
(* that anybody may push to meanwhile: first every ref is resolved, then   *)
(* every plan is fetched at its resolved commit.  What the first pass      *)
(* found is handed to the second in a dictionary keyed by the *name* of    *)
(* the script repository.                                                  *)
(*                                                                         *)
(* What Git does -- GitError -- and a plan that does not parse --          *)
(* PlanParseError -- are part of the report.  Any other exception ends the *)
(* request with 500 and no report (stage "error").                         *)
(*                                                                         *)
(* A host in a plan is a text, the name of a variable (${API_HOST}), or    *)
(* Mixed (api-${REGION}.example.com), which the platform cannot resolve.   *)
(***************************************************************************)
EXTENDS PlanTargets, Allowlist, FiniteSets, FiniteSetsExt

CONSTANTS Repo,
          RepoName,   \* script_repos.name, which is not unique
          NameOf,     \* of each repository
          Ref,        \* names of refs, and commits by their ids
          Commit,
          Holds,      \* which commits each repository holds
          Content,    \* plan files that parse: their elements and variables
          Broken,     \* one that does not
          Raising,    \* one with a port that int() refuses
          PlanAt,     \* the plan file each commit holds
          Variable,
          Mixed,
          Unresolved,
          PlanLists,  \* the documents to validate: sequences of plans
          AllowLists, \* the lists a policy can hold
          Asked,      \* the numbers of virtual users asked for
          Pools,      \* the pools as they are read, NoPool among them
          NoPool,
          MaxInt      \* the largest PostgreSQL integer

ASSUME NameAssumption == NameOf \in [Repo -> RepoName]
ASSUME HoldsAssumption == Holds \in [Repo -> SUBSET Commit]
ASSUME ContentAssumption ==
    /\ NamedHost = Text \cup Variable \cup {Mixed}
    /\ \A c \in Content : c.elements \in Seq(Element) /\ c.variables \subseteq Variable
    /\ Broken \notin Content /\ Raising \notin Content
    /\ PlanAt \in [Commit -> Content \cup {Broken, Raising}]
ASSUME InputAssumption ==
    /\ PlanLists \subseteq Seq([repo : Repo, ref : Ref, users : Nat]) \ {<<>>}
    /\ Asked \subseteq Nat
    /\ AllowLists \subseteq SUBSET Entry
    /\ MaxInt \in Nat
    /\ Pools \subseteq [generators : 1 .. MaxInt, usersEach : 1 .. MaxInt,
                        held : Nat, active : BOOLEAN] \cup {NoPool}

VARIABLES
    input,     \* what the transaction read
    healthy,   \* whether the API's machine and database stay in order meanwhile
    head,      \* on the Git hosts: the commit of each repository's named refs
    next,      \* the plan whose turn it is
    stage,     \* how far the request has come
    resolved,  \* repository name -> commit, the code's dictionary
    failed,    \* plans whose ref did not resolve
    summaries, \* what was fetched and parsed
    unparsed,  \* plans that could not be fetched or did not parse
    audit,     \* the codes in the audit row of the validation, once committed
    report,    \* status of each check, in the order reported
    pinned     \* observation only: the commit each plan's own ref resolved to

vars == <<input, healthy, head, next, stage, resolved, failed, summaries, unparsed,
          report, audit, pinned>>

Plan(i) == input.plans[i]
Plans == DOMAIN input.plans

\* A ref that is not a commit's id is asked of the host.
Named == Ref \ Commit

Codes == <<"TEST_STRUCTURE", "SCRIPT_REF", "PLAN_PARSES",
           "VARIABLES_PRESENT", "TARGET_ALLOWED", "CAPACITY">>
Status == {"PASS", "FAIL", "SKIPPED"}

TypeOK ==
    /\ healthy \in BOOLEAN
    /\ head \in [Repo \X Named -> Commit \cup {Unresolved}]
    /\ next \in 1 .. Len(input.plans) + 1
    /\ stage \in {"gathering", "resolving", "fetching", "reported", "answered", "error"}
    /\ resolved \in [RepoName -> Commit \cup {Unresolved}]
    /\ failed \subseteq Plans
    /\ summaries \subseteq [targets : SUBSET NamedHost, variables : SUBSET Variable]
    /\ unparsed \subseteq Plans
    /\ report \in UNION {[1 .. n -> Status] : n \in {0, Len(Codes)}}
    /\ audit \subseteq {Codes[i] : i \in DOMAIN Codes}
    /\ pinned \in [Plans -> Commit \cup {Unresolved}]

\* The stored variables are a partial function, an absent policy an empty list.
Init ==
    /\ input \in [plans : PlanLists, requested : Asked, pool : Pools,
                  allowlist : AllowLists,
                  variables : [Variable -> Text \cup {Unresolved}]]
    /\ healthy \in BOOLEAN
    /\ head \in {h \in [Repo \X Named -> Commit \cup {Unresolved}] :
                 \A p \in Repo, ref \in Named : h[<<p, ref>>] \in Holds[p] \cup {Unresolved}}
    /\ next = 1
    /\ stage = "gathering"
    /\ resolved = [n \in RepoName |-> Unresolved]
    /\ failed = {}
    /\ summaries = {}
    /\ unparsed = {}
    /\ report = <<>>
    /\ audit = {}
    /\ pinned = [i \in Plans |-> Unresolved]

-----------------------------------------------------------------------------
(***************************************************************************)
(* The checks, each from what has been gathered.                           *)
(***************************************************************************)
Passes(p) == IF p THEN "PASS" ELSE "FAIL"

UsersOf(plans) == MapThenSumSet(LAMBDA i : plans[i].users, DOMAIN plans)

Declared == UsersOf(input.plans)

StructureCheck == Passes(Plans # {} /\ Declared = input.requested)

RefCheck == Passes(failed = {})

ParseCheck == IF failed # {} THEN "SKIPPED" ELSE Passes(unparsed = {})

\* Variant: only refs that failed keep the plans from being judged.
BlockedByRefs == failed # {}

Blocked == failed # {} \/ unparsed # {}

Stored(v) == input.variables[v] # Unresolved

VariablesCheck ==
    IF Blocked THEN "SKIPPED"
    ELSE Passes(\A s \in summaries : \A v \in s.variables : Stored(v))

ResolveHost(t) ==
    IF t \in Text THEN t
    ELSE IF t \in Variable THEN input.variables[t]
    ELSE Unresolved

TargetsCheck ==
    LET targets == UNION {s.targets : s \in summaries}
    IN  IF Blocked THEN "SKIPPED"
        ELSE Passes(/\ targets # {}
                    /\ \A t \in targets : /\ ResolveHost(t) # Unresolved
                                          /\ MatchesAllowlist(ResolveHost(t), input.allowlist))

\* capacity: the product of two integer columns, for an active pool.
Supply(pool) == pool.generators * pool.usersEach

ActivePool == input.pool # NoPool /\ input.pool.active

\* committed_users: what the generators of unfinished runs hold.  Runs begun
\* before a pool was made smaller may hold more than it supplies.
FreeCapacity == Supply(input.pool) - input.pool.held

CapacityCheck == Passes(ActivePool /\ input.requested <= FreeCapacity)

-----------------------------------------------------------------------------
(***************************************************************************)
(* The first transaction.  The product is computed by the database, in the *)
(* width of the columns; past it the statement fails, which nothing        *)
(* catches.                                                                *)
(***************************************************************************)
Gather ==
    /\ stage = "gathering"
    /\ ActivePool => Supply(input.pool) <= MaxInt
    /\ stage' = "resolving"
    /\ UNCHANGED <<input, healthy, head, next, resolved, failed, summaries, unparsed, report, audit, pinned>>

GatherOverflow ==
    /\ stage = "gathering"
    /\ ActivePool /\ Supply(input.pool) > MaxInt
    /\ stage' = "error"
    /\ UNCHANGED <<input, healthy, head, next, resolved, failed, summaries, unparsed, report, audit, pinned>>

(***************************************************************************)
(* The first pass.  A commit resolves to itself, whether the repository    *)
(* has it or not.  Any other ref fails when the host does not know it or   *)
(* does not answer; the loop goes on.  An OSError of starting Git is not   *)
(* caught.                                                                 *)
(***************************************************************************)
Resolution(i) ==
    IF Plan(i).ref \in Commit THEN Plan(i).ref ELSE head[<<Plan(i).repo, Plan(i).ref>>]

ResolveRef ==
    /\ stage = "resolving" /\ next \in Plans
    /\ LET sha == Resolution(next)
       IN  /\ sha # Unresolved
           /\ resolved' = [resolved EXCEPT ![NameOf[Plan(next).repo]] = sha]
           /\ pinned' = [pinned EXCEPT ![next] = sha]
    /\ next' = next + 1
    /\ UNCHANGED <<input, healthy, head, stage, failed, summaries, unparsed, report, audit>>

FailRef ==
    /\ stage = "resolving" /\ next \in Plans
    /\ Plan(next).ref \in Named
    /\ failed' = failed \cup {next}
    /\ next' = next + 1
    /\ UNCHANGED <<input, healthy, head, stage, resolved, summaries, unparsed, report, audit, pinned>>

RaiseInResolve ==
    /\ stage = "resolving" /\ next \in Plans
    /\ Plan(next).ref \in Named /\ ~healthy
    /\ stage' = "error"
    /\ UNCHANGED <<input, healthy, head, next, resolved, failed, summaries, unparsed, report, audit, pinned>>

BeginFetching ==
    /\ stage = "resolving" /\ next \notin Plans
    /\ stage' = "fetching"
    /\ next' = 1
    /\ UNCHANGED <<input, healthy, head, resolved, failed, summaries, unparsed, report, audit, pinned>>

(***************************************************************************)
(* The second pass.                                                        *)
(***************************************************************************)
ShaOf(i) == resolved[NameOf[Plan(i).repo]]

\* A PlanSummary; or PlanParseError, or the ValueError of a port.
ParsePlan(file) ==
    IF file \in {Broken, Raising} THEN file
    ELSE [targets |-> Targets(file.elements), variables |-> file.variables]

\* Nothing was resolved under the plan's name.
SkipPlan ==
    /\ stage = "fetching" /\ next \in Plans
    /\ ShaOf(next) = Unresolved
    /\ next' = next + 1
    /\ UNCHANGED <<input, healthy, head, stage, resolved, failed, summaries, unparsed, report, audit, pinned>>

\* Variant: the ref is checked out instead of the commit resolved.
FetchHead ==
    /\ stage = "fetching" /\ next \in Plans
    /\ LET sha == Resolution(next)
       IN  /\ sha \in Holds[Plan(next).repo]
           /\ PlanAt[sha] \in Content
           /\ summaries' = summaries \cup {ParsePlan(PlanAt[sha])}
    /\ next' = next + 1
    /\ UNCHANGED <<input, healthy, head, stage, resolved, failed, unparsed, report, audit, pinned>>

\* Variant: what does not parse is kept.
FetchUnparsed ==
    /\ stage = "fetching" /\ next \in Plans
    /\ ShaOf(next) \in Holds[Plan(next).repo]
    /\ PlanAt[ShaOf(next)] # Raising
    /\ summaries' = summaries \cup {ParsePlan(PlanAt[ShaOf(next)])}
    /\ next' = next + 1
    /\ UNCHANGED <<input, healthy, head, stage, resolved, failed, unparsed, report, audit, pinned>>

FetchPlan ==
    /\ stage = "fetching" /\ next \in Plans
    /\ ShaOf(next) \in Holds[Plan(next).repo]
    /\ PlanAt[ShaOf(next)] \in Content
    /\ summaries' = summaries \cup {ParsePlan(PlanAt[ShaOf(next)])}
    /\ next' = next + 1
    /\ UNCHANGED <<input, healthy, head, stage, resolved, failed, unparsed, report, audit, pinned>>

\* parse_plan raises what nothing catches.
RaiseInFetch ==
    /\ stage = "fetching" /\ next \in Plans
    /\ ShaOf(next) \in Holds[Plan(next).repo]
    /\ PlanAt[ShaOf(next)] = Raising
    /\ stage' = "error"
    /\ UNCHANGED <<input, healthy, head, next, resolved, failed, summaries, unparsed, report, audit, pinned>>

\* Variant: nothing is expected to fail in the second pass.
RaiseOnFailure ==
    /\ stage = "fetching" /\ next \in Plans
    /\ ShaOf(next) # Unresolved
    /\ stage' = "error"
    /\ UNCHANGED <<input, healthy, head, next, resolved, failed, summaries, unparsed, report, audit, pinned>>

\* The commit is not there, the file is not, it does not parse, the host does
\* not answer, or Git cannot be started.
FailPlan ==
    /\ stage = "fetching" /\ next \in Plans
    /\ ShaOf(next) # Unresolved
    /\ unparsed' = unparsed \cup {next}
    /\ next' = next + 1
    /\ UNCHANGED <<input, healthy, head, stage, resolved, failed, summaries, report, audit, pinned>>

Report ==
    /\ stage = "fetching" /\ next \notin Plans
    /\ stage' = "reported"
    /\ report' = <<StructureCheck, RefCheck, ParseCheck,
                   VariablesCheck, TargetsCheck, CapacityCheck>>
    /\ UNCHANGED <<input, healthy, head, next, resolved, failed, summaries, unparsed, audit, pinned>>

\* The second transaction: the audit row names the codes that did not pass.
RecordValidation ==
    /\ stage = "reported"
    /\ audit' = {Codes[i] : i \in {j \in DOMAIN report : report[j] # "PASS"}}
    /\ stage' = "answered"
    /\ UNCHANGED <<input, healthy, head, next, resolved, failed, summaries, unparsed, report, pinned>>

\* It fails: the report is lost with it.
LoseReport ==
    /\ stage = "reported" /\ ~healthy
    /\ stage' = "error"
    /\ UNCHANGED <<input, healthy, head, next, resolved, failed, summaries, unparsed, report, audit, pinned>>

\* Somebody pushes to a repository or deletes a ref of it.
Push ==
    /\ stage \in {"resolving", "fetching"}
    /\ \E p \in Repo, ref \in Named : \E c \in Holds[p] \cup {Unresolved} :
         head' = [head EXCEPT ![<<p, ref>>] = c]
    /\ UNCHANGED <<input, healthy, next, stage, resolved, failed, summaries, unparsed, report, audit, pinned>>

Next ==
    \/ Gather \/ GatherOverflow
    \/ ResolveRef \/ FailRef \/ RaiseInResolve \/ BeginFetching
    \/ SkipPlan \/ FetchPlan \/ FailPlan \/ RaiseInFetch \/ Report
    \/ RecordValidation \/ LoseReport
    \/ Push

Spec == Init /\ [][Next]_vars

\* Each Git command ends within its timeout, so the request goes on.
FairSpec ==
    Spec /\ WF_vars(Gather \/ GatherOverflow
                    \/ ResolveRef \/ FailRef \/ RaiseInResolve \/ BeginFetching
                    \/ SkipPlan \/ FetchPlan \/ FailPlan \/ RaiseInFetch \/ Report
                    \/ RecordValidation \/ LoseReport)

-----------------------------------------------------------------------------
Outcome(code) == report[CHOOSE i \in DOMAIN Codes : Codes[i] = code]

Ok == report # <<>> /\ \A i \in DOMAIN report : report[i] = "PASS"

\* A host is permitted by what it is, or by what the organisation stores for it.
Permitted(h) ==
    \E e \in input.allowlist :
        \/ h \in Permits(e)
        \/ h \in Variable /\ input.variables[h] \in Permits(e)

Parses(i) == pinned[i] \in Holds[Plan(i).repo] /\ PlanAt[pinned[i]] \in Content

VariablesStored(i) == Parses(i) /\ \A v \in PlanAt[pinned[i]].variables : Stored(v)

HostsPermitted(i) == Parses(i) /\ \A h \in Reached(PlanAt[pinned[i]].elements) : Permitted(h)

\* A report that is ok vouches for every plan of the test, at the commit that the
\* plan's own ref named: it parses, its variables have values and every host that
\* JMeter would have it reach is permitted, and the pool holds all the users (design of slice 2, Preflight).
OkMeansRunnable ==
    Ok => /\ \A i \in Plans : VariablesStored(i) /\ HostsPermitted(i)
          /\ Declared = input.requested
          /\ ActivePool /\ input.requested + input.pool.held <= Supply(input.pool)

\* services/preflight.py, `blocked' and the two passes: what is read of some plans never
\* passes for all.  In a report that is not ok as well, a check of the plans passes only
\* when every plan of the test stands it, at the commit that the plan's own ref named.
PassesAreEarned ==
    report # <<>> =>
        /\ Outcome("SCRIPT_REF") = "PASS" => \A i \in Plans : pinned[i] # Unresolved
        /\ Outcome("PLAN_PARSES") = "PASS" => \A i \in Plans : Parses(i)
        /\ Outcome("VARIABLES_PRESENT") = "PASS" => \A i \in Plans : VariablesStored(i)
        /\ Outcome("TARGET_ALLOWED") = "PASS" => \A i \in Plans : HostsPermitted(i)

\* services/preflight.py: "Every check runs, and every result is reported.  Validation
\* that refuses to tell you the second problem until you fix the first is what v0.1's
\* definition of done rules out": what was found wrong with the plans that were read is
\* reported, whatever became of the others.
EveryResultReported ==
    report # <<>> =>
        /\ unparsed # {} => Outcome("PLAN_PARSES") = "FAIL"
        /\ (\E s \in summaries : \E v \in s.variables : ~Stored(v))
             => Outcome("VARIABLES_PRESENT") = "FAIL"
        /\ (\E s \in summaries : \E h \in s.targets : ~Permitted(h))
             => Outcome("TARGET_ALLOWED") = "FAIL"

\* The product of the pool's columns can be computed.
Countable == ActivePool => Supply(input.pool) <= MaxInt

\* No plan that is to be fetched makes parse_plan raise a ValueError.
Readable ==
    \A i \in Plans : ShaOf(i) \in Holds[Plan(i).repo] => PlanAt[ShaOf(i)] # Raising

\* validate_test: no failure of Git costs the request its report.  Whatever the hosts do
\* in either pass, it is answered, if the API's own machine and database are in order, the
\* pool's capacity can be computed and no plan has a port that int() refuses.
ReportIsMade == healthy /\ Countable /\ []Readable => <>(stage = "answered")

\* "200 whenever the test exists: the report is the answer", of a machine and a database
\* that are in order: no document, pool or plan file makes the request fail.
TestIsAnswered == healthy => stage # "error"

=============================================================================

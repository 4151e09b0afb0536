# Plimsoll: verification

Plimsoll is the control plane of a load-testing platform: a FastAPI service
over PostgreSQL that signs people in, keeps projects, script repositories,
generator pools, credentials, performance tests and a target policy, talks to
Git hosts, and says before a run whether a test may be started (preflight).
This directory holds TLA+ specifications of the parts of it whose correctness
depends on interleaving, failure and order; TLC configurations that check them
on small instances; and proofs, checked by TLAPS, of the most important
properties for every instance.

Paths below are relative to the repository; `P/` stands for
`apps/api/plimsoll_api/`. To repeat a run or a proof:

    tlc -workers 2 -config MCPoolPages.cfg MCPoolPages.tla
    tlapm RefreshTokensProofs.tla

`PROJECT.json` lists, for a machine, what the sections below say in words: the
components, the runs, for every property a plausible bug of the code that
breaks it, the source lines each definition translates, the findings, the
hazards and the theorems.

## 1. The system

Every request is a coroutine of one asyncio process and has one PostgreSQL
transaction (`P/db/session.py`, `session_for_org`), some have two with Git work
between them. Nothing sets an isolation level, so transactions run READ
COMMITTED: **each statement sees what had committed when the statement began**,
an UPDATE or DELETE waits for the row's lock and then looks at the row again,
an INSERT waits for uncommitted rows of its unique key. An exception rolls the
transaction back; `PlimsollError` becomes its code's HTTP status, any other
exception -- `IntegrityError` among them -- 500. The session dependency has
function scope (`P/dependencies.py:48-54`), so the commit comes before the
answer. No process keeps state between requests except the connection pool:
all shared state is rows, and all interaction between components is through
rows, foreign keys and unique keys, plus the Git hosts and the browser's
cookie.

| Component | State | Operations | Hard part |
| --- | --- | --- | --- |
| Sign-in and refresh (`P/routers/auth.py`, `P/services/refresh.py`) | token families, their history, the browser's cookie | login, refresh (two transactions), logout | races of rotations, rollback, lost answers, expiry |
| Test documents (`P/services/performance_tests.py`) | row, plans, SLA rules of a test | create, read, patch under an optimistic lock, archive | a document of three tables read by three statements |
| Pinned versions (`P/services/script_versions.py`) | `script_versions` | pin (transaction, Git work, transaction), list | look-then-insert across Git work |
| Credentials and repositories (`P/services/credentials.py`, `P/services/script_repos.py`) | credentials, repositories and the reference between them | create, refer, delete | look-then-write against a foreign key |
| Target policy (`P/services/target_policy.py`) | immutable numbered allowlists | put, get, accept or refuse a list, match a host | MAX + 1 from a snapshot; networks that contain or overlap each other |
| Preflight (`P/services/preflight.py`) | none of its own; one report | two passes over the plans at Git hosts, six checks | hosts that change between the passes, partial failure |
| Git client (`P/git/client.py`) | a workspace per operation | resolve a ref, fetch a plan | what a name resolves to; what a sparse checkout leaves out; time limits |
| Verify (`P/services/verify.py`, `P/plans/manifest.py`) | none; one report | resolve, check out, compare plan and manifest, record | a verdict about a tree of which only a part is there |
| Plan parsing (`P/plans/jmx.py`) | none | the hosts a plan reaches | defaults that come after what needs them |
| Projects, pools (`P/services/projects.py`, `P/services/pools.py`) | rows with a unique key | create, patch, rename (pools), archive | unique keys and row locks, lost updates, audit |
| Paging (`P/pagination.py`) | none: the cursor is the client's | a page after a position | rows become visible out of their order |
| Sessions (`P/db/session.py`, `P/dependencies.py`, migration 0003) | pooled connections and their tenant setting | transaction per request, bound to an organisation | what one request leaves on a connection; a pool that is exhausted |
| Seed (`P/seed.py`) | the demo organisation's rows | run once more | rows edited, renamed or removed in the meantime; two runs at once |
| Audit log (`P/services/audit.py`) | `audit_logs` | one record in the transaction of each change | change and record together or not at all |

What makes each component correct, in a sentence:

- *refresh*: a token is exchanged at most once, a consumed token never becomes
  live again, a session ends when login said it would, and a browser that keeps
  its cookie is not taken for an intruder;
- *test documents*: an accepted edit was made from the version it replaces, and
  whoever holds the current version holds the whole current document;
- *pinning*: one row for a commit and plan, describing that commit, the same
  row for everyone;
- *credentials*: no repository refers to a deleted credential, and every
  request ends;
- *target policy*: version numbers are consecutive and what was shown under a
  number stays true;
- *preflight*: `ok` vouches for every plan at the commit its ref named, no check
  of the plans passes that one of them does not stand, and no failure of Git
  costs a request its report;
- *verify*: the verdict is the one the commit deserves;
- *plan parsing*: no host a plan reaches is missing from its targets;
- *allowlist*: an accepted list leaves the blocked addresses blocked, and a
  host matches exactly when an entry stands for it;
- *paging*: a walk shows every row that was there, once;
- *sessions*: a request is shown its own organisation's rows, all of them,
  whoever used the connection before, and waits for no Git host;
- *seed*: the demo is there once and as a whole, and keeps people's edits;
- *lifecycle*: unique keys, no lost updates, an audit log that tells each life.

## 2. How the code is modelled

One module per component. Its actions are **statements**: the smallest step
between which another request can act. A transaction's writes are a state of
its request (`stage`) that others can *wait for* -- a row's lock, a reserved
key -- but not *see*; they reach the tables in the action named `Commit...`,
which also writes the audit record, because `audit.record` is in the same
transaction. `Abort` (any component) is the exception nobody planned: the
transaction rolls back. Guards are the code's conditions and early returns;
refusals that change nothing and depend on nothing (404 for an identifier that
does not exist, 422 for a malformed body) are not actions: a request so refused
leaves no trace. Identifiers are `uuid4` and never used twice. Contents,
names, commits and tokens are model values.

Variables marked *observation only* record what the code does not keep and no
guard reads (when a session began, what a client was told), so that a property
can speak of it. Definitions whose comment begins *Variant:* are not part of
any specification: each is a plausible bug in place of the definition that
follows it, and shows that the property it is paired with in `PROJECT.json`
can fail.

| Module | Models | State -> code | Actions -> code |
| --- | --- | --- | --- |
| `RefreshTokens` | sign-in, refresh, sign-out | `family`, `history`: the two tables; `jar`: cookies; `stage`, `scope`, `target`, `row`, `minted`: one request's progress, its `app.current_org_id` and local variables | `IssueFamily`..`CommitLogin`: login; `PresentCookie`, `ResolveOrganization`: the anonymous transaction; `FindRow`, `AcceptRow`/`RejectRow`, `ReplaceHash`, `RevokeFamily`, `RaiseReplay`, `CommitRotation`: the second; `Deliver...`, `LoseResponse`: the network; `Logout`; `Tick` |
| `TestDocuments` | one test, several editors | `doc`, `archived`, `audit`: the tables; `copy`: the document being assembled; `view`: what an editor was shown | `ReadRow`, `ReadPlans`, `ReadRules`: GET; `Submit`, `UpdateRow`/`Conflict`, `CommitUpdate`: PATCH; `ArchiveRow`/`AlreadyArchived`, `CommitArchive`: DELETE |
| `AtomicDocument` | what the above promises | `current`, `basis` | `Edit`: the whole document replaced by an edit of it |
| `ScriptPinning` | POST /script-repos/{id}/versions | `rows`, `audit`: tables; `setting`, `head`: the repository's row and the Git host; `told`: what clients were answered | `ReadRepo`; `ResolveRef`, `FetchPlan`, `RefuseCandidate`: Git; `FindVersion`/`MissVersion`, `InsertVersion`/`InsertDuplicate`, `CommitPin`; `EditRepo`, `Push`: others |
| `CredentialRefs` | credentials and the repositories that use them | `status`, `refers`, `deletions` | POST, DELETE of a credential; POST, PATCH of a repository, with the foreign key's locks |
| `TargetPolicy` | the versions of the policy | `policies`, `audit`; `shown`: what a client saw | `RefusePolicy` (validate_entries), `NumberPolicy` (the subquery), `InsertPolicy`/`InsertDuplicate` (the key), `CommitPolicy`; `GetPolicy`; the seed's `OfferFirst`, `InsertNothing`, `CommitFirst` |
| `Allowlist` | which lists are accepted and what they permit | an entry is a network, a path, or a text of labels | operators only: `ValidEntries`, `MatchesAllowlist`; `Permits` and `KeepsBlocked` say what they promise |
| `Seed` | `seed()` | `copies`, `edited`, `uses`: the committed rows, which of them people changed, the test's pool; `at`, `mine`, `stamp`: one run | `Begin`, `InsertMissing` (any of eleven statements), `StampPool`, `Commit`, `Fail`; `Edit`, `Remove`, `Rename`, `ChoosePool`: people |
| `KeysetPaging` | the list endpoints | `created`, `visible`, `deleted`: the table; `walk`: a client's cursor and what it was shown | `GetPage`; `BeginInsert`, `CommitInsert`, `AbortInsert`, `Delete`: others |
| `Sessions` | `session_for_org`, the endpoints' transactions, Git work between them | `setting`: `app.current_org_id` of each connection; `holds`; `at`: the step of a request's handler; `shown`: the rows its statements were shown | `Connect`/`GiveUp` (the pool), `Lookup`, `Bind`, `Query`, `CommitSession`, `Raise`; `GitAnswers`, `GitFails` |
| `Preflight` | POST /tests/{id}/validate | `input`: what the first transaction read; `healthy`: whether the API's own machine and database stay in order; `resolved`, `failed`, `summaries`, `unparsed`: the locals of `run`; `report`; `head`: the hosts | `Gather`/`GatherOverflow` (the first transaction), `ResolveRef`/`FailRef` (a commit's id resolves to itself), then `SkipPlan`/`FetchPlan`/`FailPlan`, `Report`, `RecordValidation`/`LoseReport`; `RaiseInResolve`, `RaiseInFetch`: exceptions the passes do not expect; `Push` |
| `PlanTargets` | the targets `parse_plan` lists | a plan is a sequence of elements | operators only: `Targets`; `Reached` is JMeter's side of it |
| `RefResolution` | what a name resolves to | `refs`: the host; `sha` | `ResolveCommit`, `ResolveName`/`RefuseName`, `CheckOut`/`FailCheckOut`; `Push` |
| `VerifyReport` | POST /script-repos/{id}/verify | `TreeOf`: the files of each commit; `path`: the repository's plan; `findings`, `audit` | `ResolveRef`, `MakeReport` (checkout, manifest, findings), `RaiseInReport` (a file that makes a parser raise what is not caught), `RecordVerification`/`LoseReport` |
| `ResourceLifecycle` | projects and pools | `status`, `row`, `records` | POST: `BeginCreate`, `InsertRow`/`CreateClash`, `CommitCreate`; PATCH: `BeginUpdate`, `ChangeNothing`/`LockRow`, `WriteColumns`/`RenameClash`, `CommitUpdate`; DELETE: `BeginArchive`, `ArchiveRow`/`ArchivedAlready`, `CommitArchive`; `DeadlockVictim`: PostgreSQL |

`TargetPolicy` and `Preflight` extend `Allowlist`: what the one accepts is what
the other matches hosts against. `Preflight` extends `PlanTargets`: what it stores of a fetched plan is what
`parse_plan` says of it, and what `ok` must vouch for is what JMeter reaches.
`VerifyReport` extends `RefResolution`: its first step is that module's
resolution, and its report is about the tree of what was resolved.
`TestDocuments` implements `AtomicDocument`.

Three runs follow two modules each: `MCTargetPolicySeed` (the seed among PUTs,
and the seed among people), `MCPoolPages` (pools, and pages of them) and
`MCVerifySessions` (one verify, and requests like it on pooled connections).
The two share no variable, so in place of their product each is followed while
the other is in an initial state: every behaviour of either is there. Both
type invariants are one property of such a run, `BothTypeOK`.

A property that a run names may be made of parts that are proved or explained
one by one: `TokensKeepTheirFamily`, `PlansArePinnedOnce`,
`VersionsNamePolicies`, `ReferencesResolve`, `DemoStandsOnce` and
`OrganisationsStayApart` are conjunctions of two invariants each.

`MC<module>` gives a module's constants their values for TLC; `<module>Proofs`
holds its theorems. Where a run follows two modules, one proof module extends
the module of that run and has the theorems of both and of their composition:
`TargetPolicyProofs` those of `Seed` too, `ResourceLifecycleProofs` those of
`KeysetPaging`, and `SessionsProofs` those of `RefResolution` and
`VerifyReport`. None of them uses a value the run gives to a constant.

## 3. What is checked

Runs that pass:

| Run | Instance | Shows |
| --- | --- | --- |
| `refresh_concurrent` | 2 users of 2 organisations, 2 browsers, 2 requests, 2 families, 4 tokens, term 2, clock to 2 | the tables agree with each other; a consumed token stays consumed; the family a rotation read without a lock still exists, owns the token and expires as read when it writes (its hash and its revocation may have changed: `refresh_race`); nothing is accepted after its term; a token that has been handed out is never answered as unknown, because the commit comes before the answer |
| `test_documents` | 2 editors, 2 contents, 3 versions | version = number of commits; the current version is whole; the audit log tells the history; **edits refine `AtomicDocument`** |
| `script_pinning` | 2 requests, 2 refs, 2 commits, 2 plans | one row per commit and plan, describing that commit, told to everyone, audited |
| `credential_refs` | 3 requests, 2 credentials of one name, 2 repositories | no dangling reference; names unique; every request is answered -- only a deletion can be kept waiting, by references to its credential written without pause |
| `target_policy` | 2 requests, 2 runs of the seed, 3 lists (empty, a network beside the blocked one with a suffix, a network around it), addresses of four bits, 3 versions; then 2 runs of the seed among people who may rename the pool, at most 2 rows of a name | consecutive, immutable versions that keep the blocked addresses blocked, never going back for a reader; a demo that is whole or absent, nothing of it twice, no edit undone or passed by with a second copy |
| `preflight` | 1 or 2 plans of 2 repositories; a pool that is missing, archived, large enough, too small, or held beyond what it has; hosts given as names and as addresses under lists of hosts and networks; 5 commits (a plan whose defaults come last, one with a variable for a host, one that does not parse, one whose host is put together from parts, one with a port that raises an exception); refs by the name of a branch and by a commit's id, of a commit the repository has or lacks; pushes at any time, Git failing at any step | `ok` means runnable: every host a plan reaches is permitted; no check of the plans passes that one of them does not stand; the request is answered with a report whatever Git does, where nothing else fails |
| `verify` | 3 full names, 5 given names, 4 commits, 1 tag; a directory of 7 plans, each with another fault or none, one of them making the parser raise an exception, under a manifest that lists some, one that lists others, one that does not parse and one that raises an exception | what is checked out is what the name means to Git, where names sort favourably; the verdict is the one the whole tree deserves, where plan, data and manifest share a directory. Then 2 requests of any of five kinds, of 2 organisations, on 1 connection: own rows and all of them, nothing exposed before the session is bound, no waiting for a Git host |
| `pools` | 2 requests, 2 pools, 2 columns of 2 values, at most 2 audit records before the last PATCH | unique names; the log tells each life; no patch undoes another. Then 4 rows inserted at 3 instants, deleted at any time, under limits 1 and 2 that may change between pages: nothing shown twice, nothing skipped |

Why the bounds suffice: the races are between two requests (a look and a write
of one, a commit of the other between them), so two requests show each of
them, and three are used where a lock can have two waiters; two values show
that something was mixed up; two commits, plans, pools or names show that the
wrong one was taken. The four trees of `verify` and its eight plan paths meet each finding
alone, so that no fault hides behind another. The seed may rename the pool
only (`Renamable`): with the repository a second kind of name would be free,
and two runs at once can then make it twice (section 5). `Sessions` has been
checked with three requests on the one connection, too (1.6 million states),
which needs three minutes by itself. Clocks and versions are bounded one step past the point
where the interesting boundary (expiry; a version that somebody else raised)
is reached. Symmetry is used for interchangeable names, never in a run with a
liveness property. `MCPreflight.cfg`,
`MCVerifySessions.cfg` and `MCPoolPages.cfg` switch off the deadlock check: a
report, an answer and a last page are the end of a request.

**Fairness.** `credential_refs` assumes strong fairness of each request's
statements, not of its arrival: PostgreSQL queues the waiters of a lock, so a
request whose statement is possible again and again runs it, and an asyncio
task that is ready is run. Key-share locks are granted beside each other, so a
DELETE can be passed by one reference after another; `RequestsAreAnswered`
says so in its premise. `preflight` assumes weak fairness of the one request:
each Git command ends, at the latest when `TIMEOUT_SECONDS`
(`P/git/client.py:22`) have passed. That every request ends so is not that it
ends well: `ReportIsMade` asks for the answer of 200, and its premises are what
the code does not provide for -- a machine on which Git cannot be started or a
database that fails (`healthy`), a capacity that cannot be computed
(`Countable`), a plan with a port that raises an exception (`Readable`). `verify` assumes weak fairness of each
request's statements and of a free connection being given to one who waits --
each request comes once, so nobody is overtaken for ever -- and nothing at all
of Git, not even that its timeout strikes: `NobodyWaitsForGit` holds without.

Runs that show a disagreement between the code and what the repository says of
it. Each checks one property, which quotes the text:

| Run | The text | What the code does |
| --- | --- | --- |
| `refresh_replay` | `docs/architecture/05-security.md:84-86`: reuse of a consumed token revokes the family | the revocation is rolled back with the exception that refuses the replay |
| `refresh_race` | the same: tokens rotate on use | two requests that both read the family before either commits exchange the same token |
| `preflight_two_refs` | design of slice 2: a target outside the allowlist fails `TARGET_ALLOWED` | of two plans of one repository only one commit is looked at |
| `verify_root` | `docs/architecture/07-script-repos.md:8`: a repository containing nothing but a `.jmx` works | the sparse checkout of `.` is empty, and the plan is reported missing |

**Further configurations**, which answer narrower questions and can be run in
the same way:

| Configuration | Module | What TLC answers |
| --- | --- | --- |
| `MCRefreshLiveness.cfg` | `MCRefreshTokens` | holds: everybody waiting for a family's row is answered |
| `MCPoolLiveness.cfg` | `MCResourceLifecycle` | holds: everybody is answered, pools that exchange their names included, given that PostgreSQL ends one of the transactions that wait for each other (`deadlock_timeout`) |
| `MCTestDocumentsRead.cfg` | `MCTestDocuments` | violated: a GET of three statements shows two versions mixed (`P/repositories/performance_tests.py:1-4`: "a reader never sees a test with half its plans") |
| `MCScriptPinningRace.cfg` | `MCScriptPinning` | violated: the second of two concurrent pins of a commit is answered 500 (`P/services/script_versions.py:1-5`: "idempotent by construction") |
| `MCCredentialAudit.cfg` | `MCCredentialRefs` | violated: two concurrent deletions write two records |
| `MCCredentialInUse.cfg` | `MCCredentialRefs` | violated: a reference committed after the look is answered 500, not `RESOURCE_IN_USE` |
| `MCPreflightEvery.cfg` | `MCPreflight` | violated: when a ref fails, what was found of the plans that were fetched -- one that does not parse, a variable without a value, a forbidden host -- is dropped and three checks are reported as skipped (`P/services/preflight.py:1-6`: "Every check runs, and every result is reported") |
| `MCPreflightWide.cfg` | `MCPreflight` | violated: for a pool whose capacity exceeds 32 bits validate_test answers 500, and, where no such pool is (`Pools <- MCPools`), for a plan with a port that is digits to `isdigit` and no number to `int` (`P/plans/jmx.py:54-55`), on a machine and a database that are in order (`P/routers/performance_tests.py:165`: "200 whenever the test exists: the report is the answer") |
| `MCSeedRepeat.cfg` | `MCTargetPolicySeed` | violated: a run over a whole demo gives the test the seeded pool again, whatever pool somebody chose (`P/seed.py:7-8`: "re-running the seed a no-op"; `apps/api/tests/integration/test_seed.py`, `test_seeding_twice_changes_nothing`) |
| `MCRefNested.cfg` | `MCRefResolution` | violated: `main` resolves to `feature/main` where there is one |
| `MCRefTag.cfg` | `MCRefResolution` | violated: an annotated tag pins the tag object (design of slice 2: "A ref pins to a commit SHA") |
| `MCVerifyAbove.cfg` | `MCVerifyReport` | violated: a manifest above the plan's directory is not checked out, so it is not applied (`docs/architecture/07-script-repos.md:38`: "Looked up in the plan's directory first, then upward to the repository root") |

A clash that nothing catches is also the answer, 500 where
`docs/architecture/06-api.md:56` has `CONFLICT`, to the later of two concurrent
PUTs of the policy (`InsertDuplicate` of `TargetPolicy`) and to renaming a pool to a
taken name (`RenameClash` of `ResourceLifecycle`); the models have those steps.

## 4. What is proved

TLAPS checks every step; nothing is assumed but the `ASSUME`s of the modules,
which say that sentinels are not members of the sets they stand beside, that
bounds are natural numbers, and that no file of a tree is a directory of
another. TLC evaluates them on every run. Every safety property of a passing run
is proved, for the specification of its own module; the type invariants of
the three runs that follow two modules are proved for what the run follows
(`BothTypesCorrect`). Some theorems have a hypothesis beyond that, which no line of
the code sees to: `NamesSortWell`, `AllLaidOut`, `RepoKeepsItsName`, `NamesDiffer`,
`DefaultsDoNotCompete`. Each is explained below and met by the instance of the run.
Without one of the first four the property fails: TLC finds a violation where names do not sort well,
where a plan or its manifest lies elsewhere, where the seed's repository may
be renamed (`Renamable = {"repo"}` in `MCTargetPolicySeed.cfg`: `DemoStandsOnce`
and `EditsSurvive` both), and where two plans are of one repository. Without the
fifth, what JMeter takes for a default and what `parse_plan` does are two things.

**`RefreshTokensProofs`**: `TypeCorrect`, `LiveTokensAreOnRecord`,
`ConsumedTokensStayConsumed`, `LineagesStayInFamily`, `TokensKeepFamily` (of
both together), `ReadsStayTrue` (of the family's existence, owner and expiry),
`SessionsEndOnSchedule`, `HandedOutTokensAreKnown`. The invariant `IInv` adds to these what makes them
inductive: a row being inserted has a fresh identifier, uncommitted tokens are
in nobody else's hands (`MintedIsUnused`), and every history row names a
family that exists. Without `MintedIsUnused` a commit could put another
request's token into a second family, and `LineageStaysInFamily` would break.
`SessionsEndOnSchedule` is an action property; it follows from `ReadsStayTrue`
(the expiry a request read is the family's) and `ExpiryWithinTtl`.
`HandedOutTokensAreKnown` rests on a second invariant, `CookiesAreOnRecord`: a
token in a browser's cookie, in an answer on its way or in a presented request
is in one of the tables -- which it is because no answer leaves before its
commit, and because rows of the history are never deleted.

**`TestDocumentsProofs`**: `TypeCorrect`, `VersionsNumberHistory`,
`CurrentVersionsAreWhole`, and `EditsImplementAtomicDocument`, the refinement:
every step of `TestDocuments` is an edit of `AtomicDocument` or leaves it
alone. The strengthening (`ReadsAreFresh`) says that a document being assembled
from three statements is right in every part read so far *unless* its version
is already old -- which is why the optimistic lock makes a torn read harmless
to a writer though not to a reader -- and that the holder of the row's lock
still holds the version it was granted against. `AuditTells`: every version
after the first has its record, in order, and the archiving is told once:
the row is changed only under its lock, and archived only while it is active
(`WHERE status <> 'ARCHIVED'`). An edit has no such condition: an archived test
may still be patched, and its versions go on.

**`ScriptPinningProofs`**: `TypeCorrect`, `PlansHaveOneRow`,
`RowsDescribeTheirCommits`, `ClientsAgree`, `PinsAreAudited`, `PlansPinnedOnce`. The strengthening:
whoever has inserted an uncommitted row is alone with its key (`KeysAreHeld`,
the unique index), and a candidate was fetched at the commit it names
(`CandidatesAreSound`).

**`TargetPolicyProofs`**: `TypeCorrect`, `Consecutive`, `ShownStand`,
`NumbersNamePolicies`, `AuditTells`, `KeepBlocked`, `NeverGoesBack`, and
`AcceptedListsKeepBlocked` about lists of any length. The strengthening
says that a number somebody has computed is at most one beyond the last
(`OpenFits`), that the number of an inserted row is not committed and nobody
else's (`InsertedIsFree`, the unique key) -- so the row that is committed next
is the next -- that the seed's number is 1 (`SeedOffersFirst`), and that every
list under way or committed was accepted (`PoliciesValid`). Blocks of addresses
are intervals (`Contains`), and `CommonAddressOverlaps` is why comparing the
ends of two intervals both ways finds every address they share.

Of the seed, `SeedTypeCorrect` and `DemosAreWhole` hold whatever people may rename. A
commit leaves all of the demo or none of it because a run that makes anything
people cannot take away makes everything (`FirstRunMakesAll`). That nothing is made twice
(`DemoStandsOnceAlways`) and nothing edited is undone or doubled
(`EditsAlwaysSurvive`) is proved under `RepoKeepsItsName`. Where a row has a
unique key, whoever holds it uncommitted is alone with it (`KeysAreHeld`). The
repository and the plans have none: what keeps a second run from them is that
only the first run finds them missing, and it holds the key of the organisation
(`FirstRunIsAlone`), for which the second waits. A repository that is renamed is
missing for every later run, two of them at once included. The demo's rules are in
neither property (section 5).

**`CredentialRefsProofs`**: `TypeCorrect` and `ReferencesAlwaysResolve`. The
foreign key is what makes it so, not the service's look: a reference written
and not committed holds its credential's row (`LinkedIsPresent`), so a row that
was let to be deleted is referred to by nobody, committed or under way
(`DeletingIsUnused`). That names are unique is the same argument about the names
of uncommitted rows (`NewIsOwn`).

**`ResourceLifecycleProofs`**: `TypeCorrect`, `KeysStayUnique`, `AuditTells`,
`KeyStays`, `ChangesAreNamed`, for pools and projects alike; `KeyStays`, that a
project's key is permanent, is proved only, no run follows it. The strengthening:
a key written and not committed is no other row's and nobody else has written
it (`ClaimIsOwn`, the unique index), and one request at most has changed a row
and not committed (`OneHolder`), so whoever archives it finds it active.

The same module proves of the pages of a list `WalkTypeCorrect`,
`WalksShowOnce` and `WalksSkipNothing`, for any number of rows and any limits.
`created_at` is the time a transaction *began*, so a row can become visible
before the cursor, where the walk will not look again; that is no row that was
visible when it began. The strengthening has three parts: what a walk has
shown is not behind its cursor (`ShownIsBefore`), so the rest cannot show it
again; what was there when it began is visible or deleted, never hidden
(`FirstIsKnown`); and a row that commits or disappears moves no other
(`WritesKeepWalk`). `NewestFacts` is what ORDER BY and LIMIT promise, `PageFacts` what
`page_of` makes of one row more than was asked for: the page that is shown ends at
the cursor, and nothing lies between it and the row that was left out.
`PagesAreDetermined`: whatever is visible, there is a page of any size, and only one,
so the order of (`created_at`, `id`) leaves nothing to the database's choice.

**`SessionsProofs`**: `TypeCorrect` and `StayApart`. A statement runs on a
connection nobody else has, within the transaction that set the organisation;
a connection goes back to the pool only after its transaction ended, and the
setting with it.

Of Git's refs, `RefTypeCorrect` and `PinsWhatIsMeant`: what is pinned, or
verified (`VerifiesWhatIsMeant`), is what the name meant to Git when it was
resolved, for any refs and any pushes -- under `NamesSortWell`, which says that the
ref a name means comes before every other that ends with it in the order in
which `ls-remote` lists them (`FirstIsMeant`). A branch `main` beside a branch
`feature/main` breaks it (`MCRefNested.cfg`), a branch beside a tag of the same name
does, and nothing in `resolve_ref` looks further than the first line.

Of a verify, `VerifyTypeCorrect` and `VerdictsAreOfTheCommit`: the verdict of the
report and of its audit row is what the whole tree deserves of the commit, for any
trees, plans and manifests that are `AllLaidOut`: the plan is not in the root, a manifest
that could apply lies beside it and lists the plan once, by its own path, and the
files of the tree that the plan reads and the manifest lists are in the plan's
directory or below. The argument goes through the sparse
checkout: the manifest found in it is the one found in the tree
(`ManifestIsBeside`), every file that is asked for is in both or in neither
(`CheckedOutFacts`), so each finding is made of one exactly if it is made
of the other (`EntryAgrees`, `VerdictAgrees`). `MCVerifyRoot.cfg` and `MCVerifyAbove.cfg` are
the layouts without which it fails.

**`PreflightProofs`**: `TypeCorrect`, which needs that what the loop of
`parse_plan` has kept of the defaults is a host the plan names: of the elements
that have come by there is a last (`SomeLatest`). `TargetsCoverReached`: in a plan of any length of which
one defaults element names a host, every host a request reaches is among the
targets, wherever that element stands; with two such elements the loop's "last
defaults seen" and JMeter's scopes can differ. `MatchingIsPermitting`: what
`matches_allowlist` finds of a host is what the entries stand for (`Permits`,
a prefix of the address's bits), for lists of any length; `BlockIsPrefix` is
the arithmetic between intervals and prefixes. `PassesEarned` and
`OkVouches` are stated where no two plans of the test are
of repositories of one name (`NamesDiffer`) and no two defaults of a plan
compete (`DefaultsDoNotCompete`), and rest on the same lemmas, one for each check of the plans: the run `preflight_two_refs` shows that
without the first it is false. The strengthening says that nothing is in
the report before its step (`NothingEarly`), that every ref that has been dealt
with is pinned or has failed (`SeenIsPinned`), and that the report is about
those commits (`ReportStands`).

Only model-checked: the properties about what must happen in the end --
`RequestsAreAnswered`, `ReportIsMade`, `NobodyWaitsForGit` and the liveness of the
further configurations -- because liveness under fairness is out of the prover's
reach. So are the library's induction theorems, which take an operator as a
parameter. Where a proof needs a number to be the least or the last of some, the
well-foundedness of the naturals (`WFMin`), which takes a set, does instead
(`SomeLeast`, `SomePage`, `OnePage`), and that of the subsets of a finite set
(`SomeNewest`); and `ORDER BY` is stated by what it promises of the answer
(`Newest`) instead of by a function that sorts.

## 5. Hazards

Where the code can go wrong in ways a test hardly reaches; `PROJECT.json` has
each at its line with the properties that would notice.

- *Look, then write.* Pinning looks for its row, deletion for references, a
  repository for its credential, a PUT for the greatest version; none of the
  looks holds a lock. The database's keys keep the tables right in each case
  (`PlansArePinnedOnce`, `ReferencesResolve`, `VersionsNamePolicies`,
  `KeysAreUnique`), the answers are another matter (section 3).
- *Read, then update by id.* `rotate` reads the family and updates it by id
  alone; a PATCH of a pool writes only the columns it names
  (`AuditNamesWhatChanged`), a PATCH of a test compares versions
  (`EditsAreAtomic`).
- *Several statements, several snapshots.* A document is assembled by three.
- *Writes undone by the exception that follows them.* The replay's revocation.
- *Two transactions with Git work between.* Pinning and preflight.
- *Lost answers, expiry, long chains of rotations.*
- *Waiting for each other.* Row locks, foreign keys, exchanged names.
- *A name that stands for something else*: a ref that is another ref's ending,
  a tag, two plans of one repository name.
- *Left on a pooled connection*: the setting of the request before
  (`OrganisationsStayApart`); *held across Git work*: a connection
  (`NobodyWaitsForGit`).
- *Order of creation is not order of visibility*: pages by cursor
  (`NothingSkipped`).
- *Run once more*: the seed, over what people made of its rows. What keeps two
  runs from inserting the same thing twice is a key or a row lock taken before;
  a name somebody can change gives neither. If the repository is renamed, two
  runs at once make it twice, and if the pool is renamed between a run's insert
  and its UPDATE, the rules can be doubled: `OneOfEach`, of which `DemoStandsOnce` is made, leaves the
  rules out.
- *Arithmetic of the database*: a capacity of more than 32 bits (section 3).
- *One of several fails*: one ref that fails keeps the other plans from passing
  (`PassesAreEarned`), and from being told what is wrong with them too
  (`MCPreflightEvery.cfg`).
- *Exceptions nobody expected*: each pass of preflight catches some and not
  others, and what it does not catch is an answer of 500 and no report
  (`ReportIsMade`, `MCPreflightWide.cfg`); verify is the same of a plan or
  manifest file (`RaiseInReport`).
- *A part taken for the whole*: a verdict from a sparse checkout
  (`VerdictIsOfTheCommit`).

## 6. What is not modelled, and why

- Roles and permissions, password hashing, encryption of secrets, token
  signatures: constant tables and library calls without state.
- Validation of request bodies by pydantic, formatting of answers, logging,
  configuration, the answers of the health checks: no state, no order (that the
  readiness check takes a connection is in `Sessions`).
- `P/db/models/runs.py`, `platform.py`: tables no code writes yet.
- `apps/worker`, `apps/agent`, `apps/web`, `packages/executor-sdk`: READMEs.
- A PATCH that names a column with the value null which the table forbids: it
  is an `IntegrityError` like the clashes above; contents here are never null.
- The seed's UPDATE of the demo test's configuration (`P/seed.py:165-173`), which
  does not raise its version, is no edit of `TestDocuments`: there, people edit.
- The temporary directory of Git work (`_workspace` in `P/git/client.py`): its
  `finally` removes it however the work ends, and nothing else looks at it.
- PostgreSQL, Git and the network are external: modelled as far as the code
  depends on them, from how it uses them (`Peeled`, `Meaning`, `Push`,
  `DeadlockVictim`, `LoseResponse`).

## 7. Plan

Done, in this order, the most important behaviour first: `RefreshTokens`,
`TestDocuments` with `AtomicDocument`, `ScriptPinning`, `CredentialRefs`,
`TargetPolicy`, `Preflight` with `PlanTargets`, `RefResolution`,
`ResourceLifecycle`, `VerifyReport`; then `Allowlist`, the capacity of pools,
`Seed`, `KeysetPaging` and `Sessions`; then the proofs, last those about
`KeysetPaging`, `Seed`, `RefResolution`, `VerifyReport` and the types of
`Preflight`.

Next:

1. `AtomicSession`, the abstract specification of sign-in (one live token per
   session, exchanged or ended), and how far `RefreshTokens` implements it.
2. Cancellation of a request during Git work, which leaves the subprocess of
   `P/git/client.py:98` to itself.

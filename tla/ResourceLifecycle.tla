-------------------------- MODULE ResourceLifecycle --------------------------
(***************************************************************************)
(* The life of a project and of a generator pool: services/projects.py and *)
(* services/pools.py over their repositories.  Both are created under a    *)
(* unique key (a project's project_key, a pool's name), patched column by  *)
(* column and archived, never deleted.  They differ in one thing: a pool   *)
(* can be renamed, a project's key cannot be edited.                       *)
(*                                                                         *)
(* Requests interleave between their statements.  An UPDATE locks its row, *)
(* and a new key waits for every uncommitted transaction that wrote a row  *)
(* of that key: two pools that exchange their names wait for each other.   *)
(***************************************************************************)
EXTENDS Naturals, Sequences, SequencesExt

CONSTANTS Request,
          Resource,       \* identifiers, never used twice (uuid4)
          Column, Value,
          KeyColumn,      \* the column the unique key is on
          KeyIsEditable,  \* pools: TRUE; projects: FALSE
          NoResource,
          MaxRecords      \* bound on the audit records of one resource

ASSUME ColumnsAssumption == KeyColumn \in Column
ASSUME EditableAssumption == KeyIsEditable \in BOOLEAN
ASSUME NothingAssumption == NoResource \notin Resource

VARIABLES
    status,   \* of each resource: "unborn", "active" or "archived"
    row,      \* its committed columns; an unborn resource has none
    records,  \* its committed audit records, oldest first
    stage,    \* how far each request has come
    about,    \* the resource of each request
    change,   \* the columns the request gives, and their values
    current   \* the row `require' found

stored == <<status, row, records>>
vars == <<stored, stage, about, change, current>>

NoColumns == [c \in {} |-> c]
Row == [Column -> Value]
Change == UNION {[S -> Value] : S \in SUBSET Column}
Record == [action : {"created", "updated", "deleted"}, fields : SUBSET Column]

Stage == {"idle",
          "inserting", "inserted",             \* POST
          "looked", "row_locked", "written",   \* PATCH
          "archiving", "archived",             \* DELETE
          "conflict", "error"}                 \* 409 and 500

TypeOK ==
    /\ status \in [Resource -> {"unborn", "active", "archived"}]
    /\ row \in [Resource -> Row \cup {NoColumns}]
    /\ records \in [Resource -> Seq(Record)]
    /\ stage \in [Request -> Stage]
    /\ about \in [Request -> Resource \cup {NoResource}]
    /\ change \in [Request -> Change]
    /\ current \in [Request -> Row \cup {NoColumns}]
    /\ \A x \in Resource : status[x] = "unborn" <=> row[x] = NoColumns
    /\ \A r \in Request :
         /\ stage[r] \notin {"idle", "conflict", "error"} => about[r] \in Resource
         /\ stage[r] \in {"looked", "row_locked", "written"} => current[r] \in Row

Init ==
    /\ status = [x \in Resource |-> "unborn"]
    /\ row = [x \in Resource |-> NoColumns]
    /\ records = [x \in Resource |-> <<>>]
    /\ stage = [r \in Request |-> "idle"]
    /\ about = [r \in Request |-> NoResource]
    /\ change = [r \in Request |-> NoColumns]
    /\ current = [r \in Request |-> NoColumns]

-----------------------------------------------------------------------------
Existing == {x \in Resource : status[x] # "unborn"}
Ready(r) == stage[r] \in {"idle", "conflict", "error"}
Goto(r, st) == stage' = [stage EXCEPT ![r] = st]
Step(r, st) == Goto(r, st) /\ UNCHANGED <<stored, about, change, current>>

\* A request that has been answered leaves nothing behind but its answer.
Answer(r, st) ==
    /\ Goto(r, st)
    /\ about' = [about EXCEPT ![r] = NoResource]
    /\ change' = [change EXCEPT ![r] = NoColumns]
    /\ current' = [current EXCEPT ![r] = NoColumns]

Fail(r, st) == Answer(r, st) /\ UNCHANGED stored

\* The requests whose transaction holds the row of x.
Holders(x) ==
    {s \in Request : stage[s] \in {"row_locked", "written", "archived"} /\ about[s] = x}

\* The keys whose index entries an uncommitted transaction has touched.
UnsettledKeys(s) ==
    (IF stage[s] = "inserted" \/ (stage[s] = "written" /\ KeyColumn \in DOMAIN change[s])
     THEN {change[s][KeyColumn]} ELSE {})
    \cup {row[x][KeyColumn] : x \in {y \in Existing : s \in Holders(y)}}

KeySettled(r, k) == \A s \in Request \ {r} : k \notin UnsettledKeys(s)
\* An archived row keeps its key.
KeyTaken(r, k) == \E x \in Existing \ {about[r]} : row[x][KeyColumn] = k

\* The row with the columns a PATCH names replaced.
Patched(old, ch) == [c \in Column |-> IF c \in DOMAIN ch THEN ch[c] ELSE old[c]]

\* audit.record, in the transaction of the change it tells of.
Audited(x, action, fields) ==
    records' = [records EXCEPT ![x] = Append(@, [action |-> action, fields |-> fields])]

-----------------------------------------------------------------------------
(***************************************************************************)
(* POST: the INSERT finds out about a taken key, and `create' catches it.  *)
(***************************************************************************)
BeginCreate(r) ==
    /\ Ready(r)
    /\ \E x \in Resource \ Existing :
         /\ \A s \in Request \ {r} : about[s] # x
         /\ about' = [about EXCEPT ![r] = x]
    /\ \E new \in Row : change' = [change EXCEPT ![r] = new]
    /\ current' = [current EXCEPT ![r] = NoColumns]
    /\ Goto(r, "inserting")
    /\ UNCHANGED stored

InsertRow(r) ==
    /\ stage[r] = "inserting"
    /\ KeySettled(r, change[r][KeyColumn])
    /\ ~KeyTaken(r, change[r][KeyColumn])
    /\ Step(r, "inserted")

CreateClash(r) ==
    /\ stage[r] = "inserting"
    /\ KeySettled(r, change[r][KeyColumn])
    /\ KeyTaken(r, change[r][KeyColumn])
    /\ Fail(r, "conflict")

CommitCreate(r) ==
    /\ stage[r] = "inserted"
    /\ status' = [status EXCEPT ![about[r]] = "active"]
    /\ row' = [row EXCEPT ![about[r]] = change[r]]
    /\ Audited(about[r], "created", {})
    /\ Answer(r, "idle")

(***************************************************************************)
(* PATCH.  `require' is a plain SELECT; archived resources are found too.  *)
(***************************************************************************)
Find(r, x, ch, st) ==
    /\ Ready(r)
    /\ about' = [about EXCEPT ![r] = x]
    /\ change' = [change EXCEPT ![r] = ch]
    /\ current' = [current EXCEPT ![r] = row[x]]
    /\ Goto(r, st)
    /\ UNCHANGED stored

\* Variant: `require' is left out.
BeginUpdateUnfound(r) ==
    \E x \in Resource, ch \in Change : Find(r, x, ch, "looked")

\* Only the service's UPDATABLE columns are passed on.
BeginUpdate(r) ==
    \E x \in Existing, ch \in Change :
        /\ KeyIsEditable \/ KeyColumn \notin DOMAIN ch
        /\ Len(records[x]) < MaxRecords
        /\ Find(r, x, ch, "looked")

\* Nothing to change: the row is answered as it was found, with no record.
ChangeNothing(r) ==
    /\ stage[r] = "looked"
    /\ DOMAIN change[r] = {}
    /\ Fail(r, "idle")

LockRow(r) ==
    /\ stage[r] = "looked"
    /\ DOMAIN change[r] # {}
    /\ Holders(about[r]) = {}
    /\ Step(r, "row_locked")

\* The new index entry of a PATCH: none when the key stays as it is.
NewKeys(r) ==
    {change[r][c] : c \in DOMAIN change[r] \cap {KeyColumn}} \ {row[about[r]][KeyColumn]}

\* Variant: nobody else's new key is waited for.
WriteUnkeyed(r) ==
    /\ stage[r] = "row_locked"
    /\ \A k \in NewKeys(r) : ~KeyTaken(r, k)
    /\ Step(r, "written")

WriteColumns(r) ==
    /\ stage[r] = "row_locked"
    /\ \A k \in NewKeys(r) : KeySettled(r, k) /\ ~KeyTaken(r, k)
    /\ Step(r, "written")

\* IntegrityError, which `update' does not catch as `create' does.
RenameClash(r) ==
    /\ stage[r] = "row_locked"
    /\ \E k \in NewKeys(r) : KeySettled(r, k) /\ KeyTaken(r, k)
    /\ Fail(r, "error")

\* Variant: the row that was found is written back whole.
CommitWholeRow(r) ==
    /\ stage[r] = "written"
    /\ row' = [row EXCEPT ![about[r]] = Patched(current[r], change[r])]
    /\ Audited(about[r], "updated", DOMAIN change[r])
    /\ Answer(r, "idle")
    /\ UNCHANGED status

CommitUpdate(r) ==
    /\ stage[r] = "written"
    /\ row' = [row EXCEPT ![about[r]] = Patched(@, change[r])]
    /\ Audited(about[r], "updated", DOMAIN change[r])
    /\ Answer(r, "idle")
    /\ UNCHANGED status

(***************************************************************************)
(* DELETE: an UPDATE of the status WHERE it is not ARCHIVED yet.           *)
(***************************************************************************)
BeginArchive(r) == \E x \in Existing : Find(r, x, NoColumns, "archiving")

\* Variant: the status is looked at when the resource is found, not by the UPDATE.
ArchiveAgain(r) ==
    /\ stage[r] = "archiving"
    /\ Holders(about[r]) = {}
    /\ Step(r, "archived")

\* The condition is evaluated again on the row a wait ended with.
ArchiveRow(r) ==
    /\ stage[r] = "archiving"
    /\ Holders(about[r]) = {}
    /\ status[about[r]] = "active"
    /\ Step(r, "archived")

\* A repeated DELETE changes and records nothing.
ArchivedAlready(r) ==
    /\ stage[r] = "archiving"
    /\ status[about[r]] = "archived"
    /\ Fail(r, "idle")

CommitArchive(r) ==
    /\ stage[r] = "archived"
    /\ status' = [status EXCEPT ![about[r]] = "archived"]
    /\ Audited(about[r], "deleted", {})
    /\ Answer(r, "idle")
    /\ UNCHANGED row

(***************************************************************************)
(* Failures.                                                               *)
(***************************************************************************)
\* r holds a row and waits for a key that s has not settled.
WaitsFor(r, s) ==
    /\ stage[r] = "row_locked"
    /\ s # r
    /\ \E k \in NewKeys(r) : k \in UnsettledKeys(s)

\* PostgreSQL ends one of the transactions that wait for each other in a circle.
DeadlockVictim(r) ==
    \E circle \in SUBSET Request :
        /\ r \in circle
        /\ \A s \in circle :
             (\E t \in circle : WaitsFor(s, t)) /\ (\E t \in circle : WaitsFor(t, s))
        /\ Fail(r, "error")

\* A request fails for another reason, and its transaction rolls back.
Abort(r) == ~Ready(r) /\ Fail(r, "idle")

-----------------------------------------------------------------------------
Begin(r) == BeginCreate(r) \/ BeginUpdate(r) \/ BeginArchive(r)

Continue(r) ==
    \/ InsertRow(r) \/ CreateClash(r) \/ CommitCreate(r)
    \/ ChangeNothing(r) \/ LockRow(r) \/ WriteColumns(r) \/ RenameClash(r) \/ CommitUpdate(r)
    \/ ArchiveRow(r) \/ ArchivedAlready(r) \/ CommitArchive(r)
    \/ DeadlockVictim(r)

Next == \E r \in Request : Begin(r) \/ Continue(r) \/ Abort(r)

Spec == Init /\ [][Next]_vars

\* PostgreSQL serves the waiters of a lock in their order and looks for cycles
\* among them, so a request that can go on again and again does go on.
FairSpec == Spec /\ \A r \in Request : SF_vars(Continue(r))

-----------------------------------------------------------------------------
\* No two rows of an organisation share a key, archived ones included, however
\* creations and renames interleave: a name still finds one pool.
KeysAreUnique ==
    \A x, y \in Existing : row[x][KeyColumn] = row[y][KeyColumn] => x = y

\* A project's key never changes, so a link that names it stays good: UPDATABLE
\* leaves project_key out.
KeyIsPermanent ==
    [][\A x \in Existing : KeyIsEditable \/ row'[x][KeyColumn] = row[x][KeyColumn]]_vars

\* The audit log tells each resource's life: it begins with its creation, which
\* is told once, and its archiving is told exactly once however many DELETEs
\* raced for it (services/projects.py: "writes no second audit row").
AuditTellsLifecycle ==
    \A x \in Resource :
        LET Told(action) == {i \in DOMAIN records[x] : records[x][i].action = action}
        IN  /\ status[x] = "unborn" <=> records[x] = <<>>
            /\ Told("created") = (IF status[x] = "unborn" THEN {} ELSE {1})
            /\ status[x] = "archived" <=> Told("deleted") # {}
            /\ \A i, j \in Told("deleted") : i = j

\* Two PATCHes of different columns both last: a column changes only in a step
\* whose audit record names it, never as the side effect of another's PATCH.
AuditNamesWhatChanged ==
    [][\A x \in Existing :
         row'[x] # row[x] =>
            /\ Len(records'[x]) = Len(records[x]) + 1
            /\ \A c \in Column :
                 row'[x][c] # row[x][c] => c \in Last(records'[x]).fields]_vars

\* Requests that wait for each other's rows and keys are all answered, pools that
\* exchange their names included.
RequestsAreAnswered == \A r \in Request : ~Ready(r) ~> Ready(r)

=============================================================================

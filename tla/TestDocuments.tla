---------------------------- MODULE TestDocuments ----------------------------
(***************************************************************************)
(* One performance test edited by several people at once:                  *)
(* services/performance_tests.py over repositories/performance_tests.py.   *)
(*                                                                         *)
(* The test is one document kept in three tables.  A reader assembles it   *)
(* with three statements -- the row, its plans, its SLA rules -- and under *)
(* READ COMMITTED each of them sees the latest commit.  A writer replaces  *)
(* the parts in one transaction, guarded by the version its author read.   *)
(*                                                                         *)
(* An editor here is a person with one request under way at a time, whose  *)
(* edits carry the version of the document last shown to them.  Contents   *)
(* are opaque values; the reference check of services/performance_tests.py *)
(* passes, because pools and repositories are archived and never deleted.  *)
(***************************************************************************)
EXTENDS Naturals, Sequences

CONSTANTS Editor,
          Content,     \* possible contents of each part
          Keep,        \* the part is absent from a PATCH body: left alone
          NoDoc,
          MaxVersion   \* bound: no edit is submitted beyond this version

ASSUME KeepAssumption == Keep \notin Content
ASSUME BoundAssumption == MaxVersion \in Nat \ {0}

Document == [version : Nat, config : Content, plans : Content, rules : Content]
Patch == [config : Content \cup {Keep}, plans : Content \cup {Keep}, rules : Content \cup {Keep}]

ASSUME NoDocAssumption == NoDoc \notin Document

VARIABLES
    doc,       \* the committed row, plans and rules
    archived,  \* the committed status is ARCHIVED
    audit,     \* committed audit rows of the test, oldest first
    log,       \* observation only: the document committed as each version
    basis,     \* observation only: what the last accepted edit was made from
    stage,     \* how far each editor's request has come
    copy,      \* the document the request is assembling, or answers with
    view,      \* the document each editor has in hand
    body       \* the PATCH body of the request

stored == <<doc, archived, audit, log, basis>>
vars == <<stored, stage, copy, view, body>>

Writing == {"updated", "archiving"}
Stage == Writing \cup {"idle", "row_read", "plans_read", "submitted", "deleting"}

Entry == [action : {"test.updated", "test.deleted"}, version : Nat]

TypeOK ==
    /\ doc \in Document
    /\ archived \in BOOLEAN
    /\ audit \in Seq(Entry)
    /\ log \in Seq(Document)
    /\ basis \in Document \cup {NoDoc}
    /\ stage \in [Editor -> Stage]
    /\ copy \in [Editor -> Document \cup {NoDoc}]
    /\ view \in [Editor -> Document \cup {NoDoc}]
    /\ body \in [Editor -> Patch]

NoChange == [config |-> Keep, plans |-> Keep, rules |-> Keep]

Init ==
    /\ \E c \in Content :
         doc = [version |-> 1, config |-> c, plans |-> c, rules |-> c]
    /\ archived = FALSE
    /\ audit = <<>>
    /\ log = <<doc>>
    /\ basis = NoDoc
    /\ stage = [e \in Editor |-> "idle"]
    /\ copy = [e \in Editor |-> NoDoc]
    /\ view = [e \in Editor |-> NoDoc]
    /\ body = [e \in Editor |-> NoChange]

-----------------------------------------------------------------------------
\* No other transaction holds the lock of the test's row.
Unlocked(e) == \A f \in Editor \ {e} : stage[f] \notin Writing

\* Variant: an absent part is written as well.
ReplacedAlways(new, old) == new

\* A part after a PATCH: what the body carries, or what is stored.
Replaced(new, old) == IF new = Keep THEN old ELSE new

\* Variant: the version is not raised.
PatchedInPlace(e) ==
    [version |-> doc.version,
     config |-> Replaced(body[e].config, doc.config),
     plans |-> Replaced(body[e].plans, doc.plans),
     rules |-> Replaced(body[e].rules, doc.rules)]

\* The whole document after the PATCH of editor e, within e's transaction.
Patched(e) ==
    [version |-> doc.version + 1,
     config |-> Replaced(body[e].config, doc.config),
     plans |-> Replaced(body[e].plans, doc.plans),
     rules |-> Replaced(body[e].rules, doc.rules)]

-----------------------------------------------------------------------------
(***************************************************************************)
(* GET /tests/{id}: three statements, each seeing the latest commit.       *)
(***************************************************************************)
ReadRow(e) ==
    /\ stage[e] = "idle"
    /\ stage' = [stage EXCEPT ![e] = "row_read"]
    /\ copy' = [copy EXCEPT ![e] = doc]
    /\ UNCHANGED <<stored, view, body>>

ReadPlans(e) ==
    /\ stage[e] = "row_read"
    /\ stage' = [stage EXCEPT ![e] = "plans_read"]
    /\ copy' = [copy EXCEPT ![e].plans = doc.plans]
    /\ UNCHANGED <<stored, view, body>>

\* Variant: the row is read after its parts.
ReadRowLast(e) ==
    /\ stage[e] = "plans_read"
    /\ stage' = [stage EXCEPT ![e] = "idle"]
    /\ view' = [view EXCEPT ![e] = [doc EXCEPT !.plans = copy[e].plans]]
    /\ copy' = [copy EXCEPT ![e] = NoDoc]
    /\ UNCHANGED <<stored, body>>

ReadRules(e) ==
    /\ stage[e] = "plans_read"
    /\ stage' = [stage EXCEPT ![e] = "idle"]
    /\ view' = [view EXCEPT ![e] = [copy[e] EXCEPT !.rules = doc.rules]]
    /\ copy' = [copy EXCEPT ![e] = NoDoc]
    /\ UNCHANGED <<stored, body>>

(***************************************************************************)
(* PATCH /tests/{id}.  Reading the current document first decides nothing: *)
(* the test always exists and every reference resolves.                    *)
(***************************************************************************)
Submit(e) ==
    /\ stage[e] = "idle"
    /\ view[e] # NoDoc
    /\ doc.version < MaxVersion
    /\ \E p \in Patch : body' = [body EXCEPT ![e] = p]
    /\ stage' = [stage EXCEPT ![e] = "submitted"]
    /\ UNCHANGED <<stored, copy, view>>

\* Variant: the version is not compared.
UpdateAnyVersion(e) ==
    /\ stage[e] = "submitted"
    /\ Unlocked(e)
    /\ stage' = [stage EXCEPT ![e] = "updated"]
    /\ UNCHANGED <<stored, copy, view, body>>

\* UPDATE ... WHERE id AND version: waits for the row's lock, then compares
\* against the version committed by then.
UpdateRow(e) ==
    /\ stage[e] = "submitted"
    /\ Unlocked(e)
    /\ doc.version = view[e].version
    /\ stage' = [stage EXCEPT ![e] = "updated"]
    /\ UNCHANGED <<stored, copy, view, body>>

Conflict(e) ==
    /\ stage[e] = "submitted"
    /\ Unlocked(e)
    /\ doc.version # view[e].version
    /\ stage' = [stage EXCEPT ![e] = "idle"]
    /\ body' = [body EXCEPT ![e] = NoChange]
    /\ UNCHANGED <<stored, copy, view>>

\* Plans, rules and the audit row follow in the same transaction; the answer is
\* read back inside it.  The answer may not reach its editor.
CommitUpdate(e) ==
    /\ stage[e] = "updated"
    /\ doc' = Patched(e)
    /\ log' = Append(log, Patched(e))
    /\ basis' = view[e]
    /\ audit' = Append(audit, [action |-> "test.updated", version |-> doc.version + 1])
    /\ view' \in {[view EXCEPT ![e] = Patched(e)], view}
    /\ stage' = [stage EXCEPT ![e] = "idle"]
    /\ body' = [body EXCEPT ![e] = NoChange]
    /\ UNCHANGED <<archived, copy>>

(***************************************************************************)
(* DELETE /tests/{id}: the status moves at most once, and only the request *)
(* that moved it writes an audit row.  The version does not move.          *)
(***************************************************************************)
BeginDelete(e) ==
    /\ stage[e] = "idle"
    /\ stage' = [stage EXCEPT ![e] = "deleting"]
    /\ UNCHANGED <<stored, copy, view, body>>

\* Variant: the status is not part of the UPDATE's condition.
ArchiveAgain(e) ==
    /\ stage[e] = "deleting"
    /\ Unlocked(e)
    /\ stage' = [stage EXCEPT ![e] = "archiving"]
    /\ UNCHANGED <<stored, copy, view, body>>

ArchiveRow(e) ==
    /\ stage[e] = "deleting"
    /\ Unlocked(e)
    /\ ~archived
    /\ stage' = [stage EXCEPT ![e] = "archiving"]
    /\ UNCHANGED <<stored, copy, view, body>>

AlreadyArchived(e) ==
    /\ stage[e] = "deleting"
    /\ Unlocked(e)
    /\ archived
    /\ stage' = [stage EXCEPT ![e] = "idle"]
    /\ UNCHANGED <<stored, copy, view, body>>

CommitArchive(e) ==
    /\ stage[e] = "archiving"
    /\ archived' = TRUE
    /\ audit' = Append(audit, [action |-> "test.deleted", version |-> doc.version])
    /\ stage' = [stage EXCEPT ![e] = "idle"]
    /\ UNCHANGED <<doc, log, basis, copy, view, body>>

\* The request fails: its transaction rolls back and nothing of it is kept.
Abort(e) ==
    /\ stage[e] # "idle"
    /\ stage' = [stage EXCEPT ![e] = "idle"]
    /\ copy' = [copy EXCEPT ![e] = NoDoc]
    /\ body' = [body EXCEPT ![e] = NoChange]
    /\ UNCHANGED <<stored, view>>

Next ==
    \E e \in Editor :
        \/ ReadRow(e) \/ ReadPlans(e) \/ ReadRules(e)
        \/ Submit(e) \/ UpdateRow(e) \/ Conflict(e) \/ CommitUpdate(e)
        \/ BeginDelete(e) \/ ArchiveRow(e) \/ AlreadyArchived(e) \/ CommitArchive(e)
        \/ Abort(e)

Spec == Init /\ [][Next]_vars

-----------------------------------------------------------------------------
\* The version is the number of the document in the test's history: no edit is
\* lost from it and none is counted twice (version = version + 1, under the lock).
VersionNumbersHistory ==
    /\ Len(log) > 0
    /\ doc = log[Len(log)]
    /\ \A v \in 1 .. Len(log) : log[v].version = v

\* A document assembled across other people's commits may mix two versions, but
\* then its version is already stale: a document in hand under the current
\* version is the current document, part by part.  This is why the guard on
\* `version' alone is enough (the row is read before its parts).
CurrentVersionIsWhole ==
    \A e \in Editor :
        view[e] # NoDoc /\ view[e].version = doc.version => view[e] = doc

\* Archiving is audited once, however many requests race to do it, and never
\* without having happened; every version after the first has its audit row, and
\* they stand in the order of the versions.
AuditTellsHistory ==
    LET Told(action) == {i \in DOMAIN audit : audit[i].action = action}
    IN  /\ archived <=> Told("test.deleted") # {}
        /\ \A i, j \in Told("test.deleted") : i = j
        /\ {audit[i].version : i \in Told("test.updated")} = 2 .. Len(log)
        /\ \A i, j \in Told("test.updated") : i < j => audit[i].version < audit[j].version

\* Every accepted edit replaced exactly the document its author had in hand,
\* all three parts of it: no edit is lost under another and none is applied to
\* a document nobody saw.
Atomic == INSTANCE AtomicDocument WITH current <- doc
EditsAreAtomic == Atomic!Spec

\* repositories/performance_tests.py: "a reader never sees a test with half its
\* plans", and "A test is one document": what a reader is shown is a document
\* that was committed.
ReaderSeesOneDocument ==
    \A e \in Editor :
        view[e] # NoDoc => view[e] = log[view[e].version]

=============================================================================

---------------------------- MODULE CredentialRefs ----------------------------
(***************************************************************************)
(* Credentials and the script repositories that refer to them:             *)
(* services/credentials.py and the writes of services/script_repos.py,     *)
(* over the foreign key script_repos.credential_id and the unique key      *)
(* credentials(organization_id, name) of migration 0002.                   *)
(*                                                                         *)
(* Both sides look before they write: a repository's author checks that    *)
(* the credential exists, a deletion checks that nothing refers to it.     *)
(* Neither look holds a lock, so it is the foreign key that decides:       *)
(* writing a reference takes a KEY SHARE lock on the credential's row,     *)
(* which a DELETE of that row waits for, and the other way round.          *)
(*                                                                         *)
(* A repository that does not exist yet refers to nothing, which is what   *)
(* NoCredential stands for too: creating one is a write like any other.    *)
(***************************************************************************)
EXTENDS Naturals, FiniteSets

CONSTANTS Request,     \* requests under way at one time
          Credential,  \* identifiers, never used twice (uuid4)
          Name,
          NameOf,      \* the name each credential is created under
          Repo,
          NoCredential,
          NoRepo

ASSUME NamesAssumption == NameOf \in [Credential -> Name]
ASSUME NothingAssumption == NoCredential \notin Credential /\ NoRepo \notin Repo

VARIABLES
    status,     \* of each credential: "unborn", "present" or "deleted"
    refers,     \* the committed credential_id of each repository
    deletions,  \* committed audit rows "credential.deleted", per credential
    stage,      \* how far each request has come
    cred,       \* the credential a request is about
    repo        \* the repository a request writes

stored == <<status, refers, deletions>>
vars == <<stored, stage, cred, repo>>

Stage == {"idle",
          "naming", "created",                \* POST /credentials
          "checked", "row_locked", "linked",  \* POST, PATCH of a repository
          "found", "unused", "deleting",      \* DELETE /credentials/{id}
          "error"}                            \* answered 500

TypeOK ==
    /\ status \in [Credential -> {"unborn", "present", "deleted"}]
    /\ refers \in [Repo -> Credential \cup {NoCredential}]
    /\ deletions \in [Credential -> Nat]
    /\ stage \in [Request -> Stage]
    /\ cred \in [Request -> Credential \cup {NoCredential}]
    /\ repo \in [Request -> Repo \cup {NoRepo}]
    /\ \A r \in Request :
          /\ stage[r] \in {"checked", "row_locked", "linked"} => repo[r] \in Repo
          /\ stage[r] \in {"naming", "created", "found", "unused", "deleting"} =>
                 cred[r] \in Credential

Init ==
    /\ status = [c \in Credential |-> "unborn"]
    /\ refers = [p \in Repo |-> NoCredential]
    /\ deletions = [c \in Credential |-> 0]
    /\ stage = [r \in Request |-> "idle"]
    /\ cred = [r \in Request |-> NoCredential]
    /\ repo = [r \in Request |-> NoRepo]

-----------------------------------------------------------------------------
Present == {c \in Credential : status[c] = "present"}
Users(c) == {p \in Repo : refers[p] = c}

\* What the other requests hold: rows written and not yet committed.
Others(r, st) == {s \in Request \ {r} : stage[s] = st}

\* Variant: a deletion's look shares the credential's row until it commits.
SharedSinceFound(r, c) ==
    \E s \in Request \ {r} :
        stage[s] \in {"found", "unused", "deleting"} /\ cred[s] = c /\ c \in Present

\* A transaction has deleted the credential's row and not ended yet.
BeingDeleted(r, c) == \E s \in Others(r, "deleting") : cred[s] = c /\ c \in Present

\* No uncommitted reference holds the credential's row.
KeyFree(r, c) == \A s \in Others(r, "linked") : cred[s] # c

Ready(r) == stage[r] \in {"idle", "error"}

Goto(r, st) == stage' = [stage EXCEPT ![r] = st]

\* A request that has been answered leaves nothing behind but its answer.
Answer(r, st) ==
    /\ Goto(r, st)
    /\ cred' = [cred EXCEPT ![r] = NoCredential]
    /\ repo' = [repo EXCEPT ![r] = NoRepo]

-----------------------------------------------------------------------------
(***************************************************************************)
(* POST /credentials.  An INSERT waits for uncommitted rows of its name,   *)
(* inserted or deleted, and the violated key is caught: 409 CONFLICT.      *)
(***************************************************************************)
BeginCreate(r) ==
    /\ Ready(r)
    /\ \E c \in Credential :
         /\ status[c] = "unborn"
         /\ \A s \in Request \ {r} : cred[s] # c
         /\ cred' = [cred EXCEPT ![r] = c]
    /\ repo' = [repo EXCEPT ![r] = NoRepo]
    /\ Goto(r, "naming")
    /\ UNCHANGED stored

NameSettled(r) ==
    /\ \A s \in Others(r, "created") : NameOf[cred[s]] # NameOf[cred[r]]
    /\ \A c \in Credential : NameOf[c] = NameOf[cred[r]] => ~BeingDeleted(r, c)

NameTaken(r) == \E c \in Present : NameOf[c] = NameOf[cred[r]]

InsertCredential(r) ==
    /\ stage[r] = "naming"
    /\ NameSettled(r)
    /\ ~NameTaken(r)
    /\ Goto(r, "created")
    /\ UNCHANGED <<stored, cred, repo>>

NameConflict(r) ==
    /\ stage[r] = "naming"
    /\ NameSettled(r)
    /\ NameTaken(r)
    /\ Answer(r, "idle")
    /\ UNCHANGED stored

CommitCredential(r) ==
    /\ stage[r] = "created"
    /\ status' = [status EXCEPT ![cred[r]] = "present"]
    /\ Answer(r, "idle")
    /\ UNCHANGED <<refers, deletions>>

(***************************************************************************)
(* POST and PATCH of a script repository.                                  *)
(***************************************************************************)
\* Variant: the repository need not exist.
CheckCredentialOnly(r) ==
    /\ Ready(r)
    /\ \E p \in Repo \cup {NoRepo}, c \in Present \cup {NoCredential} :
         /\ repo' = [repo EXCEPT ![r] = p]
         /\ cred' = [cred EXCEPT ![r] = c]
    /\ Goto(r, "checked")
    /\ UNCHANGED stored

\* "No such credential." is answered to any other identifier.
CheckCredential(r) ==
    /\ Ready(r)
    /\ \E p \in Repo, c \in Present \cup {NoCredential} :
         /\ repo' = [repo EXCEPT ![r] = p]
         /\ cred' = [cred EXCEPT ![r] = c]
    /\ Goto(r, "checked")
    /\ UNCHANGED stored

\* INSERT or UPDATE of the repository's row.
WriteRepo(r) ==
    /\ stage[r] = "checked"
    /\ \A s \in Others(r, "row_locked") \cup Others(r, "linked") : repo[s] # repo[r]
    /\ Goto(r, "row_locked")
    /\ UNCHANGED <<stored, cred, repo>>

\* Variant: the foreign key is not there.
LinkAnyCredential(r) ==
    /\ stage[r] = "row_locked"
    /\ Goto(r, "linked")
    /\ UNCHANGED <<stored, cred, repo>>

\* The foreign key's trigger: the credential's row must be there and is locked
\* against deletion until the transaction ends.
LinkCredential(r) ==
    /\ stage[r] = "row_locked"
    /\ ~BeingDeleted(r, cred[r])
    /\ cred[r] \in Present \cup {NoCredential}
    /\ Goto(r, "linked")
    /\ UNCHANGED <<stored, cred, repo>>

\* IntegrityError: the credential went away after it was checked.
LinkMissing(r) ==
    /\ stage[r] = "row_locked"
    /\ cred[r] \in Credential \ Present
    /\ Answer(r, "error")
    /\ UNCHANGED stored

CommitRepo(r) ==
    /\ stage[r] = "linked"
    /\ refers' = [refers EXCEPT ![repo[r]] = cred[r]]
    /\ Answer(r, "idle")
    /\ UNCHANGED <<status, deletions>>

(***************************************************************************)
(* DELETE /credentials/{id}.                                               *)
(***************************************************************************)
\* 404 is answered to any other identifier.
FindCredential(r) ==
    /\ Ready(r)
    /\ \E c \in Present : cred' = [cred EXCEPT ![r] = c]
    /\ repo' = [repo EXCEPT ![r] = NoRepo]
    /\ Goto(r, "found")
    /\ UNCHANGED stored

FindNoUse(r) ==
    /\ stage[r] = "found"
    /\ Users(cred[r]) = {}
    /\ Goto(r, "unused")
    /\ UNCHANGED <<stored, cred, repo>>

\* 409 RESOURCE_IN_USE.
RefuseInUse(r) ==
    /\ stage[r] = "found"
    /\ Users(cred[r]) # {}
    /\ Answer(r, "idle")
    /\ UNCHANGED stored

\* DELETE waits for references being written and for another deletion.  When
\* the row has gone meanwhile it deletes nothing, which `delete' does not look
\* at: the audit row is written all the same.
DeleteRow(r) ==
    /\ stage[r] = "unused"
    /\ KeyFree(r, cred[r])
    /\ ~BeingDeleted(r, cred[r])
    /\ Users(cred[r]) = {}
    /\ Goto(r, "deleting")
    /\ UNCHANGED <<stored, cred, repo>>

\* IntegrityError: a reference was committed after `referencing_repos' looked.
DeleteReferenced(r) ==
    /\ stage[r] = "unused"
    /\ KeyFree(r, cred[r])
    /\ Users(cred[r]) # {}
    /\ Answer(r, "error")
    /\ UNCHANGED stored

CommitDelete(r) ==
    /\ stage[r] = "deleting"
    /\ status' = [status EXCEPT ![cred[r]] = "deleted"]
    /\ deletions' = [deletions EXCEPT ![cred[r]] = @ + 1]
    /\ Answer(r, "idle")
    /\ UNCHANGED refers

\* A request fails for another reason, and its transaction rolls back.
Abort(r) ==
    /\ ~Ready(r)
    /\ Answer(r, "idle")
    /\ UNCHANGED stored

-----------------------------------------------------------------------------
Create(r) ==
    BeginCreate(r) \/ InsertCredential(r) \/ NameConflict(r) \/ CommitCredential(r)

Write(r) ==
    CheckCredential(r) \/ WriteRepo(r) \/ LinkCredential(r) \/ LinkMissing(r) \/ CommitRepo(r)

Delete(r) ==
    \/ FindCredential(r) \/ FindNoUse(r) \/ RefuseInUse(r)
    \/ DeleteRow(r) \/ DeleteReferenced(r) \/ CommitDelete(r)

Next == \E r \in Request : Create(r) \/ Write(r) \/ Delete(r) \/ Abort(r)

Spec == Init /\ [][Next]_vars

\* The statements of a request that has begun; its beginning is a client's whim.
Continue(r) ==
    \/ InsertCredential(r) \/ NameConflict(r) \/ CommitCredential(r)
    \/ WriteRepo(r) \/ LinkCredential(r) \/ LinkMissing(r) \/ CommitRepo(r)
    \/ FindNoUse(r) \/ RefuseInUse(r) \/ DeleteRow(r) \/ DeleteReferenced(r) \/ CommitDelete(r)

\* PostgreSQL serves the waiters of a lock in their order, so a request that can
\* go on again and again does go on.
FairSpec == Spec /\ \A r \in Request : SF_vars(Continue(r))

-----------------------------------------------------------------------------
\* No repository refers to a credential that was deleted or never committed,
\* whatever happened between the looks and the writes (the foreign key, and the
\* lock that writing a reference takes).
NoDanglingReference == \A p \in Repo : refers[p] \in Present \cup {NoCredential}

\* `secret_named' takes the first row of a name: there is never a second one.
NamesAreUnique ==
    \A c, d \in Present : NameOf[c] = NameOf[d] => c = d

\* A repository's reference, and a name, each lead to one credential that is there.
ReferencesResolve == NoDanglingReference /\ NamesAreUnique

\* Requests that wait for each other's rows -- a repository's, a credential's, a
\* name's -- are all answered: the order in which they take them has no cycle.
\* Only a deletion can be kept waiting for ever, and only by references to its
\* credential that are written without a pause, since KEY SHARE locks are shared.
RequestsAreAnswered ==
    \A r \in Request :
        []<>(stage[r] = "unused" => KeyFree(r, cred[r])) => (~Ready(r) ~> Ready(r))

\* design of slice 2: "the audit log is a record of state change".  A credential
\* is deleted once.
DeletionAuditedOnce == \A c \in Credential : deletions[c] <= 1

\* design of slice 2: "a referenced one is refused with a new error code,
\* `RESOURCE_IN_USE' (409)", and not with an unhandled error.
ReferencedIsRefused ==
    [][\A r \in Request : stage[r] = "unused" => stage'[r] # "error"]_vars

=============================================================================

------------------------- MODULE CredentialRefsProofs -------------------------
(***************************************************************************)
(* Proofs about CredentialRefs: what the foreign key and the unique key    *)
(* keep right, for any number of requests, credentials and repositories.   *)
(***************************************************************************)
EXTENDS CredentialRefs, TLAPS

\* A credential that is being created is its creator's alone, and its name free.
NewIsOwn(r) ==
    /\ stage[r] \in {"naming", "created"} =>
         status[cred[r]] = "unborn" /\ \A s \in Request \ {r} : cred[s] # cred[r]
    /\ stage[r] = "created" =>
         /\ \A c \in Present : NameOf[c] # NameOf[cred[r]]
         /\ \A s \in Others(r, "created") : NameOf[cred[s]] # NameOf[cred[r]]

\* A reference that has been written, and not committed yet, is to a credential that is
\* there.
LinkedIsPresent(r) == stage[r] = "linked" => cred[r] \in Present \cup {NoCredential}

\* A row that has been deleted, and not committed yet, is referred to by nobody.
DeletingIsUnused(r) ==
    stage[r] = "deleting" => Users(cred[r]) = {} /\ KeyFree(r, cred[r])

IInv ==
    /\ TypeOK
    /\ NoDanglingReference
    /\ NamesAreUnique
    /\ \A r \in Request : NewIsOwn(r) /\ LinkedIsPresent(r) /\ DeletingIsUnused(r)

LEMMA InitIInv == Init => IInv
<1> SUFFICES ASSUME Init PROVE IInv
  OBVIOUS
<1>1. TypeOK
  BY DEF Init, TypeOK, Stage
<1>2. NoDanglingReference /\ NamesAreUnique
  BY DEF Init, NoDanglingReference, NamesAreUnique, Present
<1>3. \A r \in Request : NewIsOwn(r) /\ LinkedIsPresent(r) /\ DeletingIsUnused(r)
  BY DEF Init, NewIsOwn, LinkedIsPresent, DeletingIsUnused
<1> QED BY <1>1, <1>2, <1>3 DEF IInv

\* An answer forgets what the request was about.
LEMMA AnswerKeeps ==
    ASSUME IInv, NEW r \in Request, NEW st \in {"idle", "error"}, Answer(r, st)
    PROVE  /\ stage' \in [Request -> Stage]
           /\ cred' \in [Request -> Credential \cup {NoCredential}]
           /\ repo' \in [Request -> Repo \cup {NoRepo}]
           /\ stage'[r] = st /\ cred'[r] = NoCredential
           /\ \A s \in Request \ {r} :
                stage'[s] = stage[s] /\ cred'[s] = cred[s] /\ repo'[s] = repo[s]
  BY DEF IInv, TypeOK, Answer, Goto, Stage

LEMMA AnswerOnlyKeeps ==
    ASSUME IInv, NEW r \in Request, NEW st \in {"idle", "error"}, Answer(r, st), UNCHANGED stored
    PROVE  IInv'
<1>1. TypeOK'
  BY AnswerKeeps DEF IInv, TypeOK, stored
<1>2. NoDanglingReference' /\ NamesAreUnique'
  BY DEF IInv, NoDanglingReference, NamesAreUnique, Present, stored
<1>3. ASSUME NEW q \in Request
      PROVE  (NewIsOwn(q) /\ LinkedIsPresent(q) /\ DeletingIsUnused(q))'
  <2>1. CASE q = r
    BY <2>1, AnswerKeeps DEF NewIsOwn, LinkedIsPresent, DeletingIsUnused
  <2>2. CASE q # r
    BY <2>2, AnswerKeeps, NothingAssumption
    DEF IInv, TypeOK, stored, NewIsOwn, LinkedIsPresent, DeletingIsUnused, Present, Users, KeyFree, Others
  <2> QED BY <2>1, <2>2
<1> QED BY <1>1, <1>2, <1>3 DEF IInv

-----------------------------------------------------------------------------
LEMMA BeginCreateKeeps ==
    ASSUME IInv, NEW r \in Request, BeginCreate(r)
    PROVE  IInv'
<1>1. PICK c \in Credential :
        status[c] = "unborn" /\ (\A s \in Request \ {r} : cred[s] # c) /\ cred' = [cred EXCEPT ![r] = c]
  BY DEF BeginCreate
<1>2. /\ stage' = [stage EXCEPT ![r] = "naming"] /\ repo' = [repo EXCEPT ![r] = NoRepo]
      /\ status' = status /\ refers' = refers /\ deletions' = deletions
      /\ stage[r] \in {"idle", "error"}
  BY DEF BeginCreate, Goto, stored, Ready
<1>3. TypeOK'
  BY <1>1, <1>2 DEF IInv, TypeOK, Stage
<1>4. NoDanglingReference' /\ NamesAreUnique'
  BY <1>2 DEF IInv, NoDanglingReference, NamesAreUnique, Present
<1>5. /\ stage'[r] = "naming" /\ cred'[r] = c
      /\ \A s \in Request \ {r} : stage'[s] = stage[s] /\ cred'[s] = cred[s]
  BY <1>1, <1>2 DEF IInv, TypeOK
<1>6. ASSUME NEW q \in Request
      PROVE  (NewIsOwn(q) /\ LinkedIsPresent(q) /\ DeletingIsUnused(q))'
  <2>1. CASE q = r
    BY <1>1, <1>2, <1>5, <2>1 DEF NewIsOwn, LinkedIsPresent, DeletingIsUnused
  <2>2. CASE q # r
    <3>1. NewIsOwn(q)'
      BY <1>1, <1>2, <1>5, <2>2 DEF IInv, NewIsOwn, Present, Others
    <3>2. LinkedIsPresent(q)' /\ DeletingIsUnused(q)'
      BY <1>2, <1>5, <2>2 DEF IInv, LinkedIsPresent, DeletingIsUnused, Present, Users, KeyFree, Others
    <3> QED BY <3>1, <3>2
  <2> QED BY <2>1, <2>2
<1> QED BY <1>3, <1>4, <1>6 DEF IInv

\* Somebody looks at what has been committed, and remembers it.
LEMMA LookKeeps ==
    ASSUME IInv, NEW r \in Request, Ready(r), UNCHANGED stored,
           NEW st \in {"checked", "found"}, Goto(r, st),
           NEW c \in Present \cup {NoCredential}, cred' = [cred EXCEPT ![r] = c],
           NEW p \in Repo \cup {NoRepo}, repo' = [repo EXCEPT ![r] = p],
           st = "checked" => p \in Repo, st = "found" => c \in Present
    PROVE  IInv'
<1>1. /\ stage' = [stage EXCEPT ![r] = st]
      /\ status' = status /\ refers' = refers /\ deletions' = deletions
      /\ c \in Credential \cup {NoCredential} /\ (st = "found" => c \in Credential)
  BY DEF Goto, stored, Present
<1>2. /\ stage'[r] = st /\ cred'[r] = c /\ repo'[r] = p
      /\ \A s \in Request \ {r} : stage'[s] = stage[s] /\ cred'[s] = cred[s] /\ repo'[s] = repo[s]
  BY <1>1 DEF IInv, TypeOK
<1>3. TypeOK'
  BY <1>1, <1>2 DEF IInv, TypeOK, Stage
<1>4. NoDanglingReference' /\ NamesAreUnique'
  BY <1>1 DEF IInv, NoDanglingReference, NamesAreUnique, Present
<1>5. ASSUME NEW q \in Request
      PROVE  (NewIsOwn(q) /\ LinkedIsPresent(q) /\ DeletingIsUnused(q))'
  <2>1. CASE q = r
    BY <1>2, <2>1 DEF NewIsOwn, LinkedIsPresent, DeletingIsUnused
  <2>2. CASE q # r
    <3>1. stage[q] \in {"naming", "created"} => cred[q] # c
      BY NothingAssumption DEF IInv, TypeOK, NewIsOwn, Present
    <3>2. NewIsOwn(q)'
      BY <1>1, <1>2, <2>2, <3>1 DEF IInv, NewIsOwn, Present, Others
    <3>3. LinkedIsPresent(q)' /\ DeletingIsUnused(q)'
      BY <1>1, <1>2, <2>2 DEF IInv, LinkedIsPresent, DeletingIsUnused, Present, Users, KeyFree, Others
    <3> QED BY <3>2, <3>3
  <2> QED BY <2>1, <2>2
<1> QED BY <1>3, <1>4, <1>5 DEF IInv

\* A statement of a transaction: nobody sees it, and others' rows are as they were.
LEMMA StatementKeeps ==
    ASSUME IInv, NEW r \in Request, UNCHANGED <<stored, cred, repo>>,
           InsertCredential(r) \/ WriteRepo(r) \/ LinkCredential(r) \/ FindNoUse(r) \/ DeleteRow(r)
    PROVE  IInv'
<1>1. /\ status' = status /\ refers' = refers /\ deletions' = deletions
      /\ cred' = cred /\ repo' = repo
  BY DEF stored
<1>2. PICK st \in {"created", "row_locked", "linked", "unused", "deleting"} :
        /\ stage' = [stage EXCEPT ![r] = st]
        /\ st = "created" => InsertCredential(r)
        /\ st = "row_locked" => WriteRepo(r)
        /\ st = "linked" => LinkCredential(r)
        /\ st = "unused" => FindNoUse(r)
        /\ st = "deleting" => DeleteRow(r)
  BY DEF InsertCredential, WriteRepo, LinkCredential, FindNoUse, DeleteRow, Goto
<1>3. stage'[r] = st /\ \A s \in Request \ {r} : stage'[s] = stage[s]
  BY <1>2 DEF IInv, TypeOK
<1>4. TypeOK'
  BY <1>1, <1>2, <1>3
  DEF IInv, TypeOK, Stage, InsertCredential, WriteRepo, LinkCredential, FindNoUse, DeleteRow
<1>5. NoDanglingReference' /\ NamesAreUnique'
  BY <1>1 DEF IInv, NoDanglingReference, NamesAreUnique, Present
<1>6. ASSUME NEW q \in Request PROVE NewIsOwn(q)'
  <2>1. stage'[q] \in {"naming", "created"} =>
          status[cred[q]] = "unborn" /\ \A s \in Request \ {q} : cred[s] # cred[q]
    <3>1. stage'[q] \in {"naming", "created"} => stage[q] \in {"naming", "created"}
      BY <1>2, <1>3 DEF InsertCredential
    <3> QED BY <3>1 DEF IInv, NewIsOwn
  <2>2. CASE stage'[q] = "created"
    <3>1. CASE st = "created"
      <4>1. /\ \A c \in Present : NameOf[c] # NameOf[cred[r]]
            /\ \A s \in Others(r, "created") : NameOf[cred[s]] # NameOf[cred[r]]
        BY <1>2, <3>1 DEF InsertCredential, NameSettled, NameTaken
      <4>2. CASE q = r
        BY <1>1, <1>3, <2>1, <4>1, <4>2 DEF NewIsOwn, Present, Others
      <4>3. CASE q # r
        BY <1>1, <1>3, <2>1, <2>2, <4>1, <4>3 DEF IInv, NewIsOwn, Present, Others
      <4> QED BY <4>2, <4>3
    <3>2. CASE st # "created"
      BY <1>1, <1>3, <2>1, <2>2, <3>2 DEF IInv, NewIsOwn, Present, Others
    <3> QED BY <3>1, <3>2
  <2>3. CASE stage'[q] # "created"
    BY <1>1, <2>1, <2>3 DEF NewIsOwn
  <2> QED BY <2>2, <2>3
<1>7. ASSUME NEW q \in Request PROVE LinkedIsPresent(q)'
  BY <1>1, <1>2, <1>3 DEF IInv, LinkedIsPresent, LinkCredential, Present
<1>8. ASSUME NEW q \in Request PROVE DeletingIsUnused(q)'
  <2>1. CASE stage'[q] = "deleting"
    <3>1. Users(cred[q]) = {} /\ KeyFree(q, cred[q])
      BY <1>2, <1>3, <2>1 DEF IInv, DeletingIsUnused, DeleteRow
    <3>2. ASSUME NEW s \in Request \ {q}, stage'[s] = "linked" PROVE cred[s] # cred[q]
      <4>1. CASE s = r
        <5>1. ~BeingDeleted(r, cred[r]) /\ cred[r] \in Present \cup {NoCredential}
          BY <1>2, <1>3, <3>2, <4>1 DEF LinkCredential
        <5>2. stage[q] = "deleting" /\ cred[q] \in Credential
          BY <1>3, <2>1, <3>2, <4>1 DEF IInv, TypeOK
        <5> QED BY <3>2, <4>1, <5>1, <5>2, NothingAssumption DEF BeingDeleted, Others
      <4>2. CASE s # r
        BY <1>3, <3>1, <3>2, <4>2 DEF KeyFree, Others
      <4> QED BY <4>1, <4>2
    <3> QED BY <1>1, <3>1, <3>2 DEF DeletingIsUnused, Users, KeyFree, Others
  <2>2. CASE stage'[q] # "deleting"
    BY <2>2 DEF DeletingIsUnused
  <2> QED BY <2>1, <2>2
<1> QED BY <1>4, <1>5, <1>6, <1>7, <1>8 DEF IInv

-----------------------------------------------------------------------------
LEMMA CommitCredentialKeeps ==
    ASSUME IInv, NEW r \in Request, CommitCredential(r)
    PROVE  IInv'
<1> DEFINE c == cred[r]
<1>1. /\ stage[r] = "created" /\ c \in Credential
      /\ status' = [status EXCEPT ![c] = "present"] /\ refers' = refers /\ deletions' = deletions
      /\ Answer(r, "idle")
  BY DEF CommitCredential, IInv, TypeOK
<1>2. Present' = Present \cup {c}
  BY <1>1 DEF IInv, TypeOK, Present
<1>3. /\ \A d \in Present : NameOf[d] # NameOf[c]
      /\ \A s \in Others(r, "created") : NameOf[cred[s]] # NameOf[c]
      /\ \A s \in Request \ {r} : cred[s] # c
  BY <1>1 DEF IInv, NewIsOwn
<1>4. TypeOK'
  BY <1>1, AnswerKeeps DEF IInv, TypeOK
<1>5. NoDanglingReference' /\ NamesAreUnique'
  BY <1>1, <1>2, <1>3 DEF IInv, NoDanglingReference, NamesAreUnique
<1>6. ASSUME NEW q \in Request
      PROVE  (NewIsOwn(q) /\ LinkedIsPresent(q) /\ DeletingIsUnused(q))'
  <2>1. CASE q = r
    BY <1>1, <2>1, AnswerKeeps DEF NewIsOwn, LinkedIsPresent, DeletingIsUnused
  <2>2. CASE q # r
    <3>1. stage'[q] = stage[q] /\ cred'[q] = cred[q] /\ cred'[r] = NoCredential
      BY <1>1, <2>2, AnswerKeeps
    <3>2. stage[q] \in {"naming", "created"} =>
            status'[cred[q]] = "unborn" /\ \A s \in Request \ {q} : cred'[s] # cred[q]
      BY <1>1, <1>3, <2>2, AnswerKeeps, NothingAssumption DEF IInv, TypeOK, NewIsOwn
    <3>3. stage[q] = "created" =>
            /\ \A d \in Present' : NameOf[d] # NameOf[cred[q]]
            /\ \A s \in Request \ {q} : stage'[s] = "created" => NameOf[cred'[s]] # NameOf[cred[q]]
      BY <1>1, <1>2, <1>3, <2>2, AnswerKeeps DEF IInv, NewIsOwn, Others
    <3>4. NewIsOwn(q)'
      BY <3>1, <3>2, <3>3 DEF NewIsOwn, Others
    <3>5. LinkedIsPresent(q)' /\ DeletingIsUnused(q)'
      BY <1>1, <1>2, <2>2, AnswerKeeps DEF IInv, LinkedIsPresent, DeletingIsUnused, Users, KeyFree, Others
    <3> QED BY <3>4, <3>5
  <2> QED BY <2>1, <2>2
<1> QED BY <1>4, <1>5, <1>6 DEF IInv

\* A reference is committed to a credential that nobody is deleting.
LEMMA CommitRepoKeeps ==
    ASSUME IInv, NEW r \in Request, CommitRepo(r)
    PROVE  IInv'
<1>1. /\ stage[r] = "linked" /\ repo[r] \in Repo /\ cred[r] \in Present \cup {NoCredential}
      /\ refers' = [refers EXCEPT ![repo[r]] = cred[r]] /\ status' = status /\ deletions' = deletions
      /\ Answer(r, "idle")
  BY DEF CommitRepo, IInv, TypeOK, LinkedIsPresent
<1>2. /\ refers' \in [Repo -> Credential \cup {NoCredential}] /\ Present' = Present
      /\ refers'[repo[r]] = cred[r] /\ \A p \in Repo \ {repo[r]} : refers'[p] = refers[p]
  BY <1>1 DEF IInv, TypeOK, Present
<1>3. TypeOK'
  BY <1>1, <1>2, AnswerKeeps DEF IInv, TypeOK
<1>4. NoDanglingReference' /\ NamesAreUnique'
  BY <1>1, <1>2 DEF IInv, NoDanglingReference, NamesAreUnique
<1>5. ASSUME NEW q \in Request
      PROVE  (NewIsOwn(q) /\ LinkedIsPresent(q) /\ DeletingIsUnused(q))'
  <2>1. CASE q = r
    BY <1>1, <2>1, AnswerKeeps DEF NewIsOwn, LinkedIsPresent, DeletingIsUnused
  <2>2. CASE q # r
    <3>1. NewIsOwn(q)' /\ LinkedIsPresent(q)'
      BY <1>1, <1>2, <2>2, AnswerKeeps, NothingAssumption
      DEF IInv, TypeOK, NewIsOwn, LinkedIsPresent, Others
    <3>2. CASE stage[q] = "deleting"
      <4>1. cred[r] # cred[q] /\ Users(cred[q]) = {}
        BY <1>1, <2>2, <3>2 DEF IInv, DeletingIsUnused, KeyFree, Others
      <4>2. \A p \in Repo : refers'[p] # cred[q]
        BY <1>2, <4>1 DEF Users
      <4>3. \A s \in Request \ {q} : stage'[s] = "linked" => cred'[s] # cred[q]
        BY <1>1, <2>2, <3>2, AnswerKeeps DEF IInv, DeletingIsUnused, KeyFree, Others
      <4> QED BY <1>1, <2>2, <3>1, <4>2, <4>3, AnswerKeeps DEF DeletingIsUnused, Users, KeyFree, Others
    <3>3. CASE stage[q] # "deleting"
      BY <1>1, <2>2, <3>1, <3>3, AnswerKeeps DEF DeletingIsUnused
    <3> QED BY <3>2, <3>3
  <2> QED BY <2>1, <2>2
<1> QED BY <1>3, <1>4, <1>5 DEF IInv

\* A credential goes when nobody refers to it, and nobody is about to.
LEMMA CommitDeleteKeeps ==
    ASSUME IInv, NEW r \in Request, CommitDelete(r)
    PROVE  IInv'
<1> DEFINE c == cred[r]
<1>1. /\ stage[r] = "deleting" /\ c \in Credential
      /\ status' = [status EXCEPT ![c] = "deleted"] /\ refers' = refers
      /\ deletions' = [deletions EXCEPT ![c] = @ + 1]
      /\ Answer(r, "idle")
  BY DEF CommitDelete, IInv, TypeOK
<1>2. Present' = Present \ {c}
  BY <1>1 DEF IInv, TypeOK, Present
<1>3. /\ \A p \in Repo : refers[p] # c
      /\ \A s \in Request \ {r} : stage[s] = "linked" => cred[s] # c
  BY <1>1 DEF IInv, DeletingIsUnused, Users, KeyFree, Others
<1>4. TypeOK'
  BY <1>1, AnswerKeeps DEF IInv, TypeOK
<1>5. NoDanglingReference' /\ NamesAreUnique'
  BY <1>1, <1>2, <1>3 DEF IInv, NoDanglingReference, NamesAreUnique
<1>6. ASSUME NEW q \in Request
      PROVE  (NewIsOwn(q) /\ LinkedIsPresent(q) /\ DeletingIsUnused(q))'
  <2>1. CASE q = r
    BY <1>1, <2>1, AnswerKeeps DEF NewIsOwn, LinkedIsPresent, DeletingIsUnused
  <2>2. CASE q # r
    <3>1. stage'[q] = stage[q] /\ cred'[q] = cred[q] /\ cred'[r] = NoCredential
      BY <1>1, <2>2, AnswerKeeps
    <3>2. stage[q] \in {"naming", "created"} =>
            status'[cred[q]] = "unborn" /\ \A s \in Request \ {q} : cred'[s] # cred[q]
      BY <1>1, <2>2, AnswerKeeps, NothingAssumption DEF IInv, TypeOK, NewIsOwn
    <3>3. stage[q] = "created" =>
            /\ \A d \in Present' : NameOf[d] # NameOf[cred[q]]
            /\ \A s \in Request \ {q} : stage'[s] = "created" => NameOf[cred'[s]] # NameOf[cred[q]]
      BY <1>1, <1>2, <2>2, AnswerKeeps DEF IInv, NewIsOwn, Others
    <3>4. NewIsOwn(q)'
      BY <3>1, <3>2, <3>3 DEF NewIsOwn, Others
    <3>5. LinkedIsPresent(q)' /\ DeletingIsUnused(q)'
      BY <1>1, <1>2, <1>3, <2>2, AnswerKeeps
      DEF IInv, LinkedIsPresent, DeletingIsUnused, Users, KeyFree, Others
    <3> QED BY <3>4, <3>5
  <2> QED BY <2>1, <2>2
<1> QED BY <1>4, <1>5, <1>6 DEF IInv

-----------------------------------------------------------------------------
LEMMA Inductive == Spec => []IInv
<1>1. IInv /\ [Next]_vars => IInv'
  <2> SUFFICES ASSUME IInv, [Next]_vars PROVE IInv'
    OBVIOUS
  <2>1. ASSUME NEW r \in Request, Create(r) PROVE IInv'
    BY <2>1, BeginCreateKeeps, StatementKeeps, AnswerOnlyKeeps, CommitCredentialKeeps
    DEF Create, NameConflict, InsertCredential, stored
  <2>2. ASSUME NEW r \in Request, CheckCredential(r) PROVE IInv'
    BY <2>2, LookKeeps DEF CheckCredential
  <2>3. ASSUME NEW r \in Request, Write(r) PROVE IInv'
    BY <2>2, <2>3, StatementKeeps, AnswerOnlyKeeps, CommitRepoKeeps
    DEF Write, WriteRepo, LinkCredential, LinkMissing, stored
  <2>4. ASSUME NEW r \in Request, FindCredential(r) PROVE IInv'
    BY <2>4, LookKeeps DEF FindCredential
  <2>5. ASSUME NEW r \in Request, Delete(r) PROVE IInv'
    BY <2>4, <2>5, StatementKeeps, AnswerOnlyKeeps, CommitDeleteKeeps
    DEF Delete, FindNoUse, RefuseInUse, DeleteRow, DeleteReferenced, stored
  <2>6. ASSUME NEW r \in Request, Abort(r) PROVE IInv'
    BY <2>6, AnswerOnlyKeeps DEF Abort
  <2>7. CASE UNCHANGED vars
    BY <2>7
    DEF vars, stored, IInv, TypeOK, NoDanglingReference, NamesAreUnique, NewIsOwn, LinkedIsPresent,
        DeletingIsUnused, Present, Users, KeyFree, Others
  <2> QED BY <2>1, <2>3, <2>5, <2>6, <2>7 DEF Next
<1> QED BY InitIInv, <1>1, PTL DEF Spec

\* Type correctness; a request's row and credential are there when it needs them.
THEOREM TypeCorrect == Spec => []TypeOK
<1>1. IInv => TypeOK
  BY DEF IInv
<1> QED BY <1>1, Inductive, PTL

\* A reference leads to a credential and a name to one only, although no look of the
\* services holds a lock: the keys of migration 0002 decide.
THEOREM ReferencesAlwaysResolve == Spec => []ReferencesResolve
<1>1. IInv => ReferencesResolve
  BY DEF IInv, ReferencesResolve
<1> QED BY <1>1, Inductive, PTL

=============================================================================

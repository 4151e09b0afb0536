----------------------- MODULE ResourceLifecycleProofs -----------------------
(***************************************************************************)
(* Proofs about ResourceLifecycle, for any number of requests, resources,  *)
(* columns and values, and whether or not the key can be edited; about     *)
(* KeysetPaging, for any rows and any limits of the pages; and about the   *)
(* specification the runs check of both.                                   *)
(***************************************************************************)
EXTENDS MCPoolPages, FiniteSetTheorems, WellFoundedInduction, TLAPS

Holding == {"row_locked", "written", "archived"}
Patching == {"looked", "row_locked", "written"}

\* A resource being created is its creator's alone, and not there for anybody yet.
NewIsOwn(r) ==
    stage[r] \in {"inserting", "inserted"} =>
        /\ status[about[r]] = "unborn"
        /\ change[r] \in Row
        /\ \A s \in Request \ {r} : about[s] # about[r]

\* A resource that was found is there: none is ever deleted.
FoundExists(r) ==
    stage[r] \in Patching \cup {"archiving", "archived"} => about[r] \in Existing

\* Whoever has set the status, and not committed yet, set it on an active resource.
ArchivesActive(r) == stage[r] = "archived" => status[about[r]] = "active"

\* A PATCH names the key column only where the key can be edited.
KeepsKey(r) ==
    stage[r] \in Patching /\ ~KeyIsEditable => KeyColumn \notin DOMAIN change[r]

\* The key that r's uncommitted transaction has written to a row.
Claims(r) ==
    {k \in Value :
        /\ stage[r] = "inserted" \/ (stage[r] = "written" /\ KeyColumn \in DOMAIN change[r])
        /\ k = change[r][KeyColumn]}

\* It is no other row's, and nobody else has written it either.
ClaimIsOwn(r) ==
    \A k \in Claims(r) :
        /\ \A x \in Existing \ {about[r]} : row[x][KeyColumn] # k
        /\ \A s \in Request \ {r} : k \notin Claims(s)

Sound(r) ==
    NewIsOwn(r) /\ FoundExists(r) /\ ArchivesActive(r) /\ KeepsKey(r) /\ ClaimIsOwn(r)

\* A row's lock is one transaction's.
OneHolder ==
    \A r, s \in Request :
        stage[r] \in Holding /\ stage[s] \in Holding /\ about[r] = about[s] => r = s

IInv ==
    /\ TypeOK
    /\ KeysAreUnique
    /\ AuditTellsLifecycle
    /\ OneHolder
    /\ \A r \in Request : Sound(r)

-----------------------------------------------------------------------------
LEMMA NoColumnsIsNoRow == NoColumns \notin Row /\ NoColumns \in Change
<1>1. ASSUME NoColumns \in Row PROVE FALSE
  <2>1. DOMAIN NoColumns = Column /\ DOMAIN NoColumns = {}
    BY <1>1 DEF Row, NoColumns
  <2> QED BY <2>1, ColumnsAssumption
<1>2. NoColumns \in [{} -> Value] /\ {} \in SUBSET Column
  BY DEF NoColumns
<1> QED BY <1>1, <1>2 DEF Change

LEMMA RowIsChange == Row \subseteq Change
  BY DEF Row, Change

\* A row that exists has all its columns.
LEMMA ExistingHasRow == ASSUME TypeOK, NEW x \in Existing PROVE x \in Resource /\ row[x] \in Row
  BY DEF TypeOK, Existing

\* What a PATCH leaves of a row is a row.
LEMMA PatchedIsRow ==
    ASSUME NEW old \in Row, NEW ch \in Change
    PROVE  /\ Patched(old, ch) \in Row
           /\ \A c \in Column : Patched(old, ch)[c] = (IF c \in DOMAIN ch THEN ch[c] ELSE old[c])
<1>1. PICK S \in SUBSET Column : ch \in [S -> Value]
  BY DEF Change
<1>2. \A c \in Column : (IF c \in DOMAIN ch THEN ch[c] ELSE old[c]) \in Value
  BY <1>1 DEF Row
<1> QED BY <1>2 DEF Patched, Row

\* The keys of a request's claims are keys that are not settled.
LEMMA ClaimsAreUnsettled ==
    ASSUME NEW s \in Request PROVE Claims(s) \subseteq UnsettledKeys(s)
  BY DEF Claims, UnsettledKeys

LEMMA InitIInv == Init => IInv
<1> SUFFICES ASSUME Init PROVE IInv
  OBVIOUS
<1>1. TypeOK
  BY NoColumnsIsNoRow DEF Init, TypeOK, Stage
<1>2. KeysAreUnique /\ OneHolder
  BY DEF Init, KeysAreUnique, Existing, OneHolder, Holding
<1>3. AuditTellsLifecycle
  BY DEF Init, AuditTellsLifecycle
<1>4. \A r \in Request : Sound(r)
  BY DEF Init, Sound, NewIsOwn, FoundExists, ArchivesActive, KeepsKey, ClaimIsOwn, Claims, Patching
<1> QED BY <1>1, <1>2, <1>3, <1>4 DEF IInv

-----------------------------------------------------------------------------
\* An answer forgets what the request was about, and nothing of the others.
LEMMA AnswerKeeps ==
    ASSUME IInv, NEW r \in Request, NEW st \in {"idle", "conflict", "error"}, Answer(r, st)
    PROVE  /\ stage' \in [Request -> Stage]
           /\ about' \in [Request -> Resource \cup {NoResource}]
           /\ change' \in [Request -> Change]
           /\ current' \in [Request -> Row \cup {NoColumns}]
           /\ stage'[r] = st /\ about'[r] = NoResource /\ Claims(r)' = {}
           /\ \A s \in Request \ {r} :
                /\ stage'[s] = stage[s] /\ about'[s] = about[s]
                /\ change'[s] = change[s] /\ current'[s] = current[s]
                /\ Claims(s)' = Claims(s)
<1>1. /\ stage' = [stage EXCEPT ![r] = st] /\ about' = [about EXCEPT ![r] = NoResource]
      /\ change' = [change EXCEPT ![r] = NoColumns]
      /\ current' = [current EXCEPT ![r] = NoColumns]
  BY DEF Answer, Goto
<1>2. /\ stage' \in [Request -> Stage]
      /\ about' \in [Request -> Resource \cup {NoResource}]
      /\ change' \in [Request -> Change]
      /\ current' \in [Request -> Row \cup {NoColumns}]
  BY <1>1, NoColumnsIsNoRow DEF IInv, TypeOK, Stage
<1>3. /\ stage'[r] = st /\ about'[r] = NoResource
      /\ \A s \in Request \ {r} :
           /\ stage'[s] = stage[s] /\ about'[s] = about[s]
           /\ change'[s] = change[s] /\ current'[s] = current[s]
  BY <1>1 DEF IInv, TypeOK
<1>4. Claims(r)' = {}
  BY <1>3 DEF Claims
<1>5. ASSUME NEW s \in Request \ {r} PROVE Claims(s)' = Claims(s)
  BY <1>3 DEF Claims
<1> QED BY <1>2, <1>3, <1>4, <1>5

\* Type correctness after an answer is a matter of the tables alone.
LEMMA AnswerTypes ==
    ASSUME IInv, NEW r \in Request, NEW st \in {"idle", "conflict", "error"}, Answer(r, st),
           status' \in [Resource -> {"unborn", "active", "archived"}],
           row' \in [Resource -> Row \cup {NoColumns}],
           records' \in [Resource -> Seq(Record)],
           \A x \in Resource : status'[x] = "unborn" <=> row'[x] = NoColumns
    PROVE  TypeOK'
<1>1. ASSUME NEW s \in Request
      PROVE  /\ stage'[s] \notin {"idle", "conflict", "error"} => about'[s] \in Resource
             /\ stage'[s] \in {"looked", "row_locked", "written"} => current'[s] \in Row
  <2>1. CASE s = r
    BY <2>1, AnswerKeeps
  <2>2. CASE s # r
    BY <2>2, AnswerKeeps DEF IInv, TypeOK
  <2> QED BY <2>1, <2>2
<1> QED BY <1>1, AnswerKeeps DEF TypeOK

\* The others' soundness, when no row they are about has changed and no row has a key
\* of theirs.
LEMMA AnswerSound ==
    ASSUME IInv, NEW r \in Request, NEW st \in {"idle", "conflict", "error"}, Answer(r, st),
           Existing \subseteq Existing',
           \A s \in Request \ {r} :
             /\ stage[s] \in {"inserting", "inserted"} => status'[about[s]] = status[about[s]]
             /\ stage[s] = "archived" => status'[about[s]] = status[about[s]]
             /\ \A k \in Claims(s) : \A x \in Existing' \ {about[s]} : row'[x][KeyColumn] # k
    PROVE  OneHolder' /\ \A s \in Request : Sound(s)'
<1>1. OneHolder'
  BY AnswerKeeps DEF IInv, OneHolder, Holding
<1>2. ASSUME NEW s \in Request PROVE Sound(s)'
  <2>1. CASE s = r
    BY <2>1, AnswerKeeps
    DEF Sound, NewIsOwn, FoundExists, ArchivesActive, KeepsKey, ClaimIsOwn, Patching
  <2>2. CASE s # r
    <3> USE <2>2
    <3>1. Sound(s)
      BY DEF IInv
    <3>2. NewIsOwn(s)'
      <4>1. SUFFICES ASSUME stage[s] \in {"inserting", "inserted"} PROVE NewIsOwn(s)'
        BY AnswerKeeps DEF NewIsOwn
      <4>2. about[s] \in Resource
        BY <4>1 DEF IInv, TypeOK
      <4>3. \A q \in Request \ {s} : about'[q] # about[s]
        BY <3>1, <4>1, <4>2, AnswerKeeps, NothingAssumption DEF Sound, NewIsOwn
      <4> QED BY <3>1, <4>1, <4>3, AnswerKeeps DEF Sound, NewIsOwn
    <3>3. FoundExists(s)' /\ ArchivesActive(s)' /\ KeepsKey(s)'
      BY <3>1, AnswerKeeps DEF Sound, FoundExists, ArchivesActive, KeepsKey
    <3>4. ClaimIsOwn(s)'
      BY <3>1, AnswerKeeps DEF Sound, ClaimIsOwn
    <3> QED BY <3>2, <3>3, <3>4 DEF Sound
  <2> QED BY <2>1, <2>2
<1> QED BY <1>1, <1>2

\* A refusal, a repetition or a rollback changes nothing that is stored.
LEMMA FailKeeps ==
    ASSUME IInv, NEW r \in Request, NEW st \in {"idle", "conflict", "error"}, Fail(r, st)
    PROVE  IInv'
<1>1. Answer(r, st) /\ status' = status /\ row' = row /\ records' = records
  BY DEF Fail, stored
<1>2. Existing' = Existing
  BY <1>1 DEF Existing
<1>3. TypeOK'
  BY <1>1, AnswerTypes DEF IInv, TypeOK
<1>4. KeysAreUnique' /\ AuditTellsLifecycle'
  BY <1>1, <1>2 DEF IInv, KeysAreUnique, AuditTellsLifecycle
<1>5. OneHolder' /\ \A s \in Request : Sound(s)'
  BY <1>1, <1>2, AnswerSound DEF IInv, Sound, ClaimIsOwn
<1> QED BY <1>3, <1>4, <1>5 DEF IInv

-----------------------------------------------------------------------------
\* The identifier of a new resource is nobody else's.
LEMMA BeginCreateKeeps ==
    ASSUME IInv, NEW r \in Request, BeginCreate(r)
    PROVE  IInv'
<1>1. PICK x \in Resource \ Existing :
        (\A s \in Request \ {r} : about[s] # x) /\ about' = [about EXCEPT ![r] = x]
  BY DEF BeginCreate
<1>2. PICK new \in Row : change' = [change EXCEPT ![r] = new]
  BY DEF BeginCreate
<1>3. /\ stage' = [stage EXCEPT ![r] = "inserting"] /\ current' = [current EXCEPT ![r] = NoColumns]
      /\ status' = status /\ row' = row /\ records' = records
  BY DEF BeginCreate, Goto, stored
<1>4. /\ stage'[r] = "inserting" /\ about'[r] = x /\ change'[r] = new
      /\ \A s \in Request \ {r} :
           /\ stage'[s] = stage[s] /\ about'[s] = about[s]
           /\ change'[s] = change[s] /\ current'[s] = current[s]
  BY <1>1, <1>2, <1>3 DEF IInv, TypeOK
<1>5. TypeOK'
  <2>1. /\ stage' \in [Request -> Stage] /\ about' \in [Request -> Resource \cup {NoResource}]
        /\ change' \in [Request -> Change] /\ current' \in [Request -> Row \cup {NoColumns}]
    BY <1>1, <1>2, <1>3, RowIsChange DEF IInv, TypeOK, Stage
  <2>2. ASSUME NEW s \in Request
        PROVE  /\ stage'[s] \notin {"idle", "conflict", "error"} => about'[s] \in Resource
               /\ stage'[s] \in {"looked", "row_locked", "written"} => current'[s] \in Row
    BY <1>4 DEF IInv, TypeOK
  <2> QED BY <1>3, <2>1, <2>2 DEF IInv, TypeOK
<1>6. KeysAreUnique' /\ AuditTellsLifecycle' /\ Existing' = Existing
  BY <1>3 DEF IInv, KeysAreUnique, AuditTellsLifecycle, Existing
<1>7. OneHolder'
  BY <1>4 DEF IInv, OneHolder, Holding
<1>8. Claims(r)' = {} /\ \A s \in Request \ {r} : Claims(s)' = Claims(s)
  BY <1>4 DEF Claims
<1>9. ASSUME NEW s \in Request PROVE Sound(s)'
  <2>1. CASE s = r
    <3>1. NewIsOwn(r)'
      BY <1>1, <1>3, <1>4 DEF NewIsOwn, Existing
    <3> QED BY <1>4, <1>8, <2>1, <3>1
        DEF Sound, FoundExists, ArchivesActive, KeepsKey, ClaimIsOwn, Patching
  <2>2. CASE s # r
    <3>1. Sound(s) /\ about[s] # x
      BY <1>1, <2>2 DEF IInv
    <3>2. NewIsOwn(s)'
      BY <1>3, <1>4, <2>2, <3>1 DEF Sound, NewIsOwn
    <3>3. FoundExists(s)' /\ ArchivesActive(s)' /\ KeepsKey(s)'
      BY <1>3, <1>4, <1>6, <2>2, <3>1 DEF Sound, FoundExists, ArchivesActive, KeepsKey
    <3>4. ClaimIsOwn(s)'
      BY <1>3, <1>4, <1>6, <1>8, <2>2, <3>1 DEF Sound, ClaimIsOwn
    <3> QED BY <3>2, <3>3, <3>4 DEF Sound
  <2> QED BY <2>1, <2>2
<1> QED BY <1>5, <1>6, <1>7, <1>9 DEF IInv

\* A row that is found is nobody's new one.
LEMMA FindKeeps ==
    ASSUME IInv, NEW r \in Request, NEW x \in Existing, NEW ch \in Change,
           NEW st \in {"looked", "archiving"}, Find(r, x, ch, st),
           st = "looked" => KeyIsEditable \/ KeyColumn \notin DOMAIN ch
    PROVE  IInv'
<1>1. /\ stage' = [stage EXCEPT ![r] = st] /\ about' = [about EXCEPT ![r] = x]
      /\ change' = [change EXCEPT ![r] = ch] /\ current' = [current EXCEPT ![r] = row[x]]
      /\ status' = status /\ row' = row /\ records' = records
  BY DEF Find, Goto, stored
<1>2. /\ stage'[r] = st /\ about'[r] = x /\ change'[r] = ch /\ current'[r] = row[x]
      /\ \A s \in Request \ {r} :
           /\ stage'[s] = stage[s] /\ about'[s] = about[s]
           /\ change'[s] = change[s] /\ current'[s] = current[s]
  BY <1>1 DEF IInv, TypeOK
<1>3. x \in Resource /\ row[x] \in Row /\ status[x] # "unborn"
  BY ExistingHasRow DEF IInv, Existing
<1>4. TypeOK'
  <2>1. /\ stage' \in [Request -> Stage] /\ about' \in [Request -> Resource \cup {NoResource}]
        /\ change' \in [Request -> Change] /\ current' \in [Request -> Row \cup {NoColumns}]
    BY <1>1, <1>3 DEF IInv, TypeOK, Stage
  <2>2. ASSUME NEW s \in Request
        PROVE  /\ stage'[s] \notin {"idle", "conflict", "error"} => about'[s] \in Resource
               /\ stage'[s] \in {"looked", "row_locked", "written"} => current'[s] \in Row
    BY <1>2, <1>3 DEF IInv, TypeOK
  <2> QED BY <1>1, <2>1, <2>2 DEF IInv, TypeOK
<1>5. KeysAreUnique' /\ AuditTellsLifecycle' /\ Existing' = Existing
  BY <1>1 DEF IInv, KeysAreUnique, AuditTellsLifecycle, Existing
<1>6. OneHolder'
  BY <1>2 DEF IInv, OneHolder, Holding
<1>7. Claims(r)' = {} /\ \A s \in Request \ {r} : Claims(s)' = Claims(s)
  BY <1>2 DEF Claims
<1>8. ASSUME NEW s \in Request PROVE Sound(s)'
  <2>1. CASE s = r
    BY <1>2, <1>5, <1>7, <2>1
    DEF Sound, NewIsOwn, FoundExists, ArchivesActive, KeepsKey, ClaimIsOwn, Patching
  <2>2. CASE s # r
    <3>1. Sound(s)
      BY DEF IInv
    <3>2. NewIsOwn(s)'
      BY <1>1, <1>2, <1>3, <2>2, <3>1 DEF Sound, NewIsOwn
    <3>3. FoundExists(s)' /\ ArchivesActive(s)' /\ KeepsKey(s)'
      BY <1>1, <1>2, <1>5, <2>2, <3>1 DEF Sound, FoundExists, ArchivesActive, KeepsKey
    <3>4. ClaimIsOwn(s)'
      BY <1>1, <1>2, <1>5, <1>7, <2>2, <3>1 DEF Sound, ClaimIsOwn
    <3> QED BY <3>2, <3>3, <3>4 DEF Sound
  <2> QED BY <2>1, <2>2
<1> QED BY <1>4, <1>5, <1>6, <1>8 DEF IInv

\* A statement that waits for locks: a row's for a holder, a key's for a claim.
LEMMA StatementKeeps ==
    ASSUME IInv, NEW r \in Request,
           InsertRow(r) \/ LockRow(r) \/ WriteColumns(r) \/ ArchiveRow(r)
    PROVE  IInv'
<1>1. PICK st \in {"inserted", "row_locked", "written", "archived"} :
        /\ Step(r, st)
        /\ st = "inserted" => InsertRow(r)
        /\ st = "row_locked" => LockRow(r)
        /\ st = "written" => WriteColumns(r)
        /\ st = "archived" => ArchiveRow(r)
  BY DEF InsertRow, LockRow, WriteColumns, ArchiveRow
<1>2. /\ stage' = [stage EXCEPT ![r] = st] /\ about' = about /\ change' = change
      /\ current' = current /\ status' = status /\ row' = row /\ records' = records
  BY <1>1 DEF Step, Goto, stored
<1>3. stage'[r] = st /\ \A s \in Request \ {r} : stage'[s] = stage[s]
  BY <1>2 DEF IInv, TypeOK
<1>4. /\ st = "inserted" => stage[r] = "inserting"
      /\ st = "row_locked" => stage[r] = "looked"
      /\ st = "written" => stage[r] = "row_locked"
      /\ st = "archived" => stage[r] = "archiving" /\ status[about[r]] = "active"
  BY <1>1 DEF InsertRow, LockRow, WriteColumns, ArchiveRow
<1>5. TypeOK'
  BY <1>2, <1>3, <1>4 DEF IInv, TypeOK, Stage
<1>6. KeysAreUnique' /\ AuditTellsLifecycle' /\ Existing' = Existing
  BY <1>2 DEF IInv, KeysAreUnique, AuditTellsLifecycle, Existing
<1>7. OneHolder'
  <2>1. ASSUME NEW s \in Request \ {r}, stage[s] \in Holding, stage'[r] \in Holding
        PROVE  about[s] # about[r]
    <3>1. CASE st \in {"row_locked", "archived"}
      <4>1. Holders(about[r]) = {}
        BY <1>1, <3>1 DEF LockRow, ArchiveRow
      <4> QED BY <2>1, <4>1 DEF Holders, Holding
    <3>2. CASE st = "written"
      BY <1>4, <2>1, <3>2 DEF IInv, OneHolder, Holding
    <3> QED BY <1>3, <2>1, <3>1, <3>2 DEF Holding
  <2> QED BY <1>2, <1>3, <2>1 DEF IInv, OneHolder
<1>8. \A s \in Request \ {r} : Claims(s)' = Claims(s)
  BY <1>2, <1>3 DEF Claims
<1>9. ASSUME NEW k \in Claims(r)'
      PROVE  /\ \A x \in Existing \ {about[r]} : row[x][KeyColumn] # k
             /\ \A s \in Request \ {r} : k \notin Claims(s)
  <2>1. st \in {"inserted", "written"} /\ k = change[r][KeyColumn]
        /\ (st = "written" => KeyColumn \in DOMAIN change[r])
    BY <1>2, <1>3 DEF Claims
  <2>2. CASE st = "inserted" \/ k \in NewKeys(r)
    <3>1. KeySettled(r, k) /\ ~KeyTaken(r, k)
      BY <1>1, <2>1, <2>2 DEF InsertRow, WriteColumns
    <3> QED BY <3>1, ClaimsAreUnsettled DEF KeySettled, KeyTaken
  \* The key stays as it is: it is the row's, and no other's.
  <2>3. CASE st = "written" /\ k \notin NewKeys(r)
    <3>1. k = row[about[r]][KeyColumn] /\ about[r] \in Existing
      <4>1. k = row[about[r]][KeyColumn]
        BY <2>1, <2>3 DEF NewKeys
      <4>2. about[r] \in Existing
        BY <1>4, <2>3 DEF IInv, Sound, FoundExists, Patching
      <4> QED BY <4>1, <4>2
    <3>2. \A x \in Existing \ {about[r]} : row[x][KeyColumn] # k
      BY <3>1 DEF IInv, KeysAreUnique
    <3>3. ASSUME NEW s \in Request \ {r}, k \in Claims(s) PROVE FALSE
      <4>1. about[r] # about[s]
        <5>1. CASE stage[s] = "inserted"
          BY <5>1 DEF IInv, Sound, NewIsOwn
        <5>2. CASE stage[s] = "written"
          BY <1>4, <2>3, <5>2 DEF IInv, OneHolder, Holding
        <5> QED BY <3>3, <5>1, <5>2 DEF Claims
      <4>2. row[about[r]][KeyColumn] # k
        BY <3>1, <3>3, <4>1 DEF IInv, Sound, ClaimIsOwn
      <4> QED BY <3>1, <4>2
    <3> QED BY <3>2, <3>3
  <2> QED BY <2>1, <2>2, <2>3
<1>10. ASSUME NEW s \in Request PROVE Sound(s)'
  <2>1. Sound(s)
    BY DEF IInv
  <2>2. NewIsOwn(s)' /\ FoundExists(s)' /\ ArchivesActive(s)' /\ KeepsKey(s)'
    <3>1. CASE s = r
      BY <1>2, <1>3, <1>4, <1>6, <2>1, <3>1
      DEF Sound, NewIsOwn, FoundExists, ArchivesActive, KeepsKey, Patching
    <3>2. CASE s # r
      BY <1>2, <1>3, <1>6, <2>1, <3>2
      DEF Sound, NewIsOwn, FoundExists, ArchivesActive, KeepsKey
    <3> QED BY <3>1, <3>2
  <2>3. ClaimIsOwn(s)'
    <3>1. CASE s = r
      BY <1>2, <1>6, <1>8, <1>9, <3>1 DEF ClaimIsOwn
    <3>2. CASE s # r
      BY <1>2, <1>6, <1>8, <1>9, <2>1, <3>2 DEF Sound, ClaimIsOwn
    <3> QED BY <3>1, <3>2
  <2> QED BY <2>2, <2>3 DEF Sound
<1> QED BY <1>5, <1>6, <1>7, <1>10 DEF IInv

-----------------------------------------------------------------------------
\* One more element at the end of a sequence.
LEMMA AppendFacts ==
    ASSUME NEW S, NEW seq \in Seq(S), NEW e \in S
    PROVE  /\ Append(seq, e) \in Seq(S) /\ Append(seq, e) # <<>>
           /\ Len(seq) \in Nat /\ DOMAIN seq = 1 .. Len(seq)
           /\ DOMAIN Append(seq, e) = 1 .. Len(seq) + 1
           /\ \A i \in 1 .. Len(seq) : Append(seq, e)[i] = seq[i]
           /\ Append(seq, e)[Len(seq) + 1] = e
  OBVIOUS

\* One more record of x says what it says, and nothing of the others.
LEMMA OneMoreRecord ==
    ASSUME TypeOK, NEW x \in Resource, NEW new \in Record,
           records' = [records EXCEPT ![x] = Append(records[x], new)]
    PROVE  /\ records' \in [Resource -> Seq(Record)]
           /\ Len(records[x]) \in Nat
           /\ DOMAIN records[x] = 1 .. Len(records[x])
           /\ DOMAIN records'[x] = 1 .. Len(records[x]) + 1
           /\ \A i \in DOMAIN records[x] : records'[x][i] = records[x][i]
           /\ records'[x][Len(records[x]) + 1] = new
           /\ records'[x] # <<>>
           /\ \A y \in Resource \ {x} : records'[y] = records[y]
<1>1. records \in [Resource -> Seq(Record)] /\ records[x] \in Seq(Record)
  BY DEF TypeOK
<1>2. records'[x] = Append(records[x], new) /\ \A y \in Resource \ {x} : records'[y] = records[y]
  BY <1>1
<1>3. Append(records[x], new) \in Seq(Record)
  BY <1>1, AppendFacts
<1>4. records' \in [Resource -> Seq(Record)]
  BY <1>1, <1>3
<1> QED BY <1>1, <1>2, <1>4, AppendFacts

\* audit.record writes such a record.
LEMMA AuditedRecords ==
    ASSUME TypeOK, NEW x \in Resource, NEW action \in {"created", "updated", "deleted"},
           NEW fields \in SUBSET Column, Audited(x, action, fields)
    PROVE  \E new \in Record :
              /\ new.action = action /\ new.fields = fields
              /\ records' = [records EXCEPT ![x] = Append(records[x], new)]
<1>1. [action |-> action, fields |-> fields] \in Record
  BY DEF Record
<1> QED BY <1>1 DEF Audited

LEMMA CommitCreateKeeps ==
    ASSUME IInv, NEW r \in Request, CommitCreate(r)
    PROVE  IInv'
<1> DEFINE x == about[r]
           k == change[r][KeyColumn]
<1>1. /\ stage[r] = "inserted"
      /\ status' = [status EXCEPT ![x] = "active"] /\ row' = [row EXCEPT ![x] = change[r]]
      /\ Audited(x, "created", {}) /\ Answer(r, "idle")
  BY DEF CommitCreate
<1>2. /\ x \in Resource /\ status[x] = "unborn" /\ change[r] \in Row /\ k \in Claims(r)
      /\ \A s \in Request \ {r} : about[s] # x
  <2>1. NewIsOwn(r) /\ x \in Resource
    BY <1>1 DEF IInv, Sound, TypeOK
  <2>2. k \in Value
    BY <1>1, <2>1, ColumnsAssumption DEF NewIsOwn, Row
  <2> QED BY <1>1, <2>1, <2>2 DEF NewIsOwn, Claims
<1>11. PICK new \in Record :
         /\ new.action = "created"
         /\ records' = [records EXCEPT ![x] = Append(records[x], new)]
  <2>1. {} \in SUBSET Column /\ x \in Resource /\ TypeOK
    BY <1>2 DEF IInv
  <2> QED BY <1>1, <2>1, AuditedRecords
<1>3. /\ status'[x] = "active" /\ row'[x] = change[r]
      /\ \A y \in Resource \ {x} : status'[y] = status[y] /\ row'[y] = row[y]
  BY <1>1, <1>2 DEF IInv, TypeOK
<1>4. Existing' = Existing \cup {x} /\ x \notin Existing /\ Existing \subseteq Resource
  BY <1>2, <1>3 DEF Existing
<1>5. TypeOK'
  <2>1. /\ status' \in [Resource -> {"unborn", "active", "archived"}]
        /\ row' \in [Resource -> Row \cup {NoColumns}]
        /\ records' \in [Resource -> Seq(Record)]
    BY <1>1, <1>2, <1>11, OneMoreRecord DEF IInv, TypeOK
  <2>2. \A y \in Resource : status'[y] = "unborn" <=> row'[y] = NoColumns
    BY <1>2, <1>3, NoColumnsIsNoRow DEF IInv, TypeOK
  <2> QED BY <1>1, <2>1, <2>2, AnswerTypes
<1>6. \A y \in Existing : row'[y] = row[y] /\ row[y][KeyColumn] # k
  BY <1>2, <1>3, <1>4 DEF IInv, Sound, ClaimIsOwn
<1>7. KeysAreUnique'
  BY <1>3, <1>4, <1>6 DEF IInv, KeysAreUnique
<1>8. AuditTellsLifecycle'
  <2>1. records[x] = <<>>
    BY <1>2 DEF IInv, AuditTellsLifecycle
  <2>2. /\ records'[x] # <<>> /\ DOMAIN records'[x] = 1 .. 1 /\ records'[x][1].action = "created"
        /\ \A y \in Resource \ {x} : records'[y] = records[y]
    <3>1. Len(records[x]) = 0
      BY <2>1
    <3>2. /\ DOMAIN records'[x] = 1 .. Len(records[x]) + 1
          /\ records'[x][Len(records[x]) + 1] = new /\ records'[x] # <<>>
          /\ \A y \in Resource \ {x} : records'[y] = records[y]
      BY <1>2, <1>11, OneMoreRecord DEF IInv
    <3>3. Len(records[x]) + 1 = 1
      BY <3>1
    <3> QED BY <1>11, <3>2, <3>3
  <2>3. ASSUME NEW y \in Resource \ {x}
        PROVE  status'[y] = status[y] /\ records'[y] = records[y]
    BY <1>3, <2>2
  <2> QED BY <1>3, <2>2, <2>3 DEF IInv, AuditTellsLifecycle
<1>9. ASSUME NEW s \in Request \ {r}
      PROVE  /\ stage[s] \in {"inserting", "inserted", "archived"} => status'[about[s]] = status[about[s]]
             /\ \A c \in Claims(s) : \A y \in Existing' \ {about[s]} : row'[y][KeyColumn] # c
  <2>1. stage[s] \in {"inserting", "inserted", "archived"} => status'[about[s]] = status[about[s]]
    BY <1>2, <1>3 DEF IInv, TypeOK
  <2>2. ASSUME NEW c \in Claims(s), NEW y \in Existing' \ {about[s]} PROVE row'[y][KeyColumn] # c
    BY <1>2, <1>3, <1>4, <1>6 DEF IInv, Sound, ClaimIsOwn
  <2> QED BY <2>1, <2>2
<1>10. OneHolder' /\ \A s \in Request : Sound(s)'
  BY <1>1, <1>4, <1>9, AnswerSound
<1> QED BY <1>5, <1>7, <1>8, <1>10 DEF IInv

LEMMA CommitUpdateKeeps ==
    ASSUME IInv, NEW r \in Request, CommitUpdate(r)
    PROVE  IInv'
<1> DEFINE x == about[r]
           k == row'[x][KeyColumn]
<1>1. /\ stage[r] = "written" /\ x \in Existing /\ x \in Resource /\ row[x] \in Row
      /\ change[r] \in Change /\ DOMAIN change[r] \in SUBSET Column
      /\ row' = [row EXCEPT ![x] = Patched(row[x], change[r])] /\ status' = status
      /\ Audited(x, "updated", DOMAIN change[r]) /\ Answer(r, "idle")
  BY ExistingHasRow DEF CommitUpdate, IInv, TypeOK, Sound, FoundExists, Patching, Change
<1>11. PICK new \in Record :
         /\ new.action = "updated"
         /\ records' = [records EXCEPT ![x] = Append(records[x], new)]
  <2>1. DOMAIN change[r] \in SUBSET Column /\ TypeOK
    BY <1>1 DEF IInv
  <2> QED BY <1>1, <2>1, AuditedRecords
<1>2. /\ row'[x] = Patched(row[x], change[r]) /\ row'[x] \in Row
      /\ \A y \in Resource \ {x} : row'[y] = row[y]
  BY <1>1, PatchedIsRow DEF IInv, TypeOK
<1>3. k = row[x][KeyColumn] \/ k \in Claims(r)
  <2>1. k \in Value /\ k = (IF KeyColumn \in DOMAIN change[r] THEN change[r][KeyColumn]
                                                            ELSE row[x][KeyColumn])
    BY <1>1, <1>2, PatchedIsRow, ColumnsAssumption DEF Row
  <2> QED BY <1>1, <2>1 DEF Claims
<1>4. Existing' = Existing /\ Existing \subseteq Resource
  BY <1>1 DEF Existing
<1>5. TypeOK'
  <2>1. /\ row' \in [Resource -> Row \cup {NoColumns}]
        /\ records' \in [Resource -> Seq(Record)]
    BY <1>1, <1>2, <1>11, OneMoreRecord DEF IInv, TypeOK
  <2>2. \A y \in Resource : status'[y] = "unborn" <=> row'[y] = NoColumns
    BY <1>1, <1>2, NoColumnsIsNoRow DEF IInv, TypeOK, Existing
  <2> QED BY <1>1, <2>1, <2>2, AnswerTypes DEF IInv, TypeOK
<1>6. \A y \in Existing \ {x} : row'[y] = row[y] /\ row[y][KeyColumn] # k
  BY <1>1, <1>2, <1>3, <1>4 DEF IInv, Sound, ClaimIsOwn, KeysAreUnique
<1>7. KeysAreUnique'
  BY <1>4, <1>6 DEF IInv, KeysAreUnique
<1>8. AuditTellsLifecycle'
  <2>1. /\ DOMAIN records[x] = 1 .. Len(records[x]) /\ Len(records[x]) \in Nat
        /\ DOMAIN records'[x] = 1 .. Len(records[x]) + 1
        /\ \A i \in DOMAIN records[x] : records'[x][i] = records[x][i]
        /\ records'[x][Len(records[x]) + 1].action = "updated"
        /\ records'[x] # <<>>
        /\ \A y \in Resource \ {x} : records'[y] = records[y]
    BY <1>1, <1>11, OneMoreRecord DEF IInv
  <2>2. /\ {i \in DOMAIN records'[x] : records'[x][i].action = "created"}
             = {i \in DOMAIN records[x] : records[x][i].action = "created"}
        /\ {i \in DOMAIN records'[x] : records'[x][i].action = "deleted"}
             = {i \in DOMAIN records[x] : records[x][i].action = "deleted"}
    BY <2>1
  <2>3. status[x] # "unborn"
    BY <1>1 DEF Existing
  <2>4. ASSUME NEW y \in Resource
        PROVE  LET Told(action) == {i \in DOMAIN records'[y] : records'[y][i].action = action}
               IN  /\ status[y] = "unborn" <=> records'[y] = <<>>
                   /\ Told("created") = (IF status[y] = "unborn" THEN {} ELSE {1})
                   /\ status[y] = "archived" <=> Told("deleted") # {}
                   /\ \A i, j \in Told("deleted") : i = j
    <3>1. CASE y = x
      <4>1. /\ {i \in DOMAIN records[x] : records[x][i].action = "created"} = {1}
            /\ status[x] = "archived"
                 <=> {i \in DOMAIN records[x] : records[x][i].action = "deleted"} # {}
            /\ \A i, j \in {i \in DOMAIN records[x] : records[x][i].action = "deleted"} : i = j
        BY <1>1, <2>3 DEF IInv, AuditTellsLifecycle
      <4>2. /\ {i \in DOMAIN records'[x] : records'[x][i].action = "created"} = {1}
            /\ status[x] = "archived"
                 <=> {i \in DOMAIN records'[x] : records'[x][i].action = "deleted"} # {}
            /\ \A i, j \in {i \in DOMAIN records'[x] : records'[x][i].action = "deleted"} : i = j
        BY <2>2, <4>1, Zenon
      <4>3. records'[x] # <<>>
        BY <2>1
      <4> QED BY <2>3, <3>1, <4>2, <4>3, Zenon
    <3>2. CASE y # x
      BY <2>1, <3>2 DEF IInv, AuditTellsLifecycle
    <3> QED BY <3>1, <3>2
  <2> QED BY <1>1, <2>4 DEF AuditTellsLifecycle
<1>9. ASSUME NEW s \in Request \ {r}, NEW c \in Claims(s), NEW y \in Existing' \ {about[s]}
      PROVE  row'[y][KeyColumn] # c
  BY <1>1, <1>2, <1>3, <1>4 DEF IInv, Sound, ClaimIsOwn
<1>10. OneHolder' /\ \A s \in Request : Sound(s)'
  BY <1>1, <1>4, <1>9, AnswerSound
<1> QED BY <1>5, <1>7, <1>8, <1>10 DEF IInv

LEMMA CommitArchiveKeeps ==
    ASSUME IInv, NEW r \in Request, CommitArchive(r)
    PROVE  IInv'
<1> DEFINE x == about[r]
<1>1. /\ stage[r] = "archived" /\ x \in Existing /\ x \in Resource /\ status[x] = "active"
      /\ status' = [status EXCEPT ![x] = "archived"] /\ row' = row
      /\ Audited(x, "deleted", {}) /\ Answer(r, "idle")
  BY ExistingHasRow DEF CommitArchive, IInv, Sound, FoundExists, ArchivesActive
<1>11. PICK new \in Record :
         /\ new.action = "deleted"
         /\ records' = [records EXCEPT ![x] = Append(records[x], new)]
  <2>1. {} \in SUBSET Column /\ TypeOK
    BY <1>1 DEF IInv
  <2> QED BY <1>1, <2>1, AuditedRecords
<1>2. status'[x] = "archived" /\ \A y \in Resource \ {x} : status'[y] = status[y]
  BY <1>1 DEF IInv, TypeOK
<1>3. Existing' = Existing
  BY <1>1, <1>2 DEF Existing
<1>4. TypeOK'
  <2>1. /\ status' \in [Resource -> {"unborn", "active", "archived"}]
        /\ records' \in [Resource -> Seq(Record)]
    BY <1>1, <1>11, OneMoreRecord DEF IInv, TypeOK
  <2>2. \A y \in Resource : status'[y] = "unborn" <=> row'[y] = NoColumns
    BY <1>1, <1>2 DEF IInv, TypeOK
  <2> QED BY <1>1, <2>1, <2>2, AnswerTypes DEF IInv, TypeOK
<1>5. KeysAreUnique'
  BY <1>1, <1>3 DEF IInv, KeysAreUnique
<1>6. AuditTellsLifecycle'
  <2>1. /\ DOMAIN records[x] = 1 .. Len(records[x]) /\ Len(records[x]) \in Nat
        /\ DOMAIN records'[x] = 1 .. Len(records[x]) + 1
        /\ \A i \in DOMAIN records[x] : records'[x][i] = records[x][i]
        /\ records'[x][Len(records[x]) + 1].action = "deleted"
        /\ records'[x] # <<>>
        /\ \A y \in Resource \ {x} : records'[y] = records[y]
    BY <1>1, <1>11, OneMoreRecord DEF IInv
  <2>2. /\ {i \in DOMAIN records[x] : records[x][i].action = "created"} = {1}
        /\ {i \in DOMAIN records[x] : records[x][i].action = "deleted"} = {}
    BY <1>1 DEF IInv, AuditTellsLifecycle
  <2>3. /\ {i \in DOMAIN records'[x] : records'[x][i].action = "created"} = {1}
        /\ {i \in DOMAIN records'[x] : records'[x][i].action = "deleted"} = {Len(records[x]) + 1}
    <3> DEFINE n == Len(records[x])
    <3>1. /\ DOMAIN records'[x] = DOMAIN records[x] \cup {n + 1} /\ n + 1 \notin DOMAIN records[x]
      BY <2>1
    <3>2. records'[x][n + 1].action # "created"
      BY <2>1
    <3> HIDE DEF n
    <3> QED BY <2>1, <2>2, <3>1, <3>2 DEF n
  <2> QED BY <1>2, <2>1, <2>3 DEF IInv, AuditTellsLifecycle
\* Nobody else is archiving x: its row's lock is r's.
<1>7. ASSUME NEW s \in Request \ {r}
      PROVE  /\ stage[s] \in {"inserting", "inserted"} => status'[about[s]] = status[about[s]]
             /\ stage[s] = "archived" => status'[about[s]] = status[about[s]]
             /\ \A c \in Claims(s) : \A y \in Existing' \ {about[s]} : row'[y][KeyColumn] # c
  <2>1. stage[s] \in {"inserting", "inserted", "archived"} => about[s] \in Resource /\ about[s] # x
    BY <1>1 DEF IInv, TypeOK, Sound, NewIsOwn, OneHolder, Holding
  <2>2. \A c \in Claims(s) : \A y \in Existing' \ {about[s]} : row'[y][KeyColumn] # c
    BY <1>1, <1>3 DEF IInv, Sound, ClaimIsOwn
  <2> QED BY <1>2, <2>1, <2>2
<1>8. OneHolder' /\ \A s \in Request : Sound(s)'
  BY <1>1, <1>3, <1>7, AnswerSound
<1> QED BY <1>4, <1>5, <1>6, <1>8 DEF IInv

-----------------------------------------------------------------------------
LEMMA StepKeeps ==
    ASSUME IInv, NEW r \in Request, Begin(r) \/ Continue(r) \/ Abort(r)
    PROVE  IInv'
<1>1. CASE Begin(r)
  <2>1. CASE BeginCreate(r)
    BY <2>1, BeginCreateKeeps
  <2>2. CASE BeginUpdate(r)
    BY <2>2, FindKeeps DEF BeginUpdate
  <2>3. CASE BeginArchive(r)
    BY <2>3, FindKeeps, NoColumnsIsNoRow DEF BeginArchive
  <2> QED BY <1>1, <2>1, <2>2, <2>3 DEF Begin
<1>2. CASE InsertRow(r) \/ LockRow(r) \/ WriteColumns(r) \/ ArchiveRow(r)
  BY <1>2, StatementKeeps
<1>3. CASE CommitCreate(r) \/ CommitUpdate(r) \/ CommitArchive(r)
  BY <1>3, CommitCreateKeeps, CommitUpdateKeeps, CommitArchiveKeeps
<1>4. CASE \/ CreateClash(r) \/ ChangeNothing(r) \/ RenameClash(r) \/ ArchivedAlready(r)
           \/ DeadlockVictim(r) \/ Abort(r)
  <2>1. \E st \in {"idle", "conflict", "error"} : Fail(r, st)
    BY <1>4
    DEF CreateClash, ChangeNothing, RenameClash, ArchivedAlready, DeadlockVictim, Abort
  <2> QED BY <2>1, FailKeeps
<1> QED BY <1>1, <1>2, <1>3, <1>4 DEF Continue

LEMMA NextIInv == ASSUME IInv, [Next]_vars PROVE IInv'
<1>1. CASE Next
  BY <1>1, StepKeeps DEF Next
<1>2. CASE UNCHANGED vars
  BY <1>2
  DEF vars, stored, IInv, TypeOK, KeysAreUnique, AuditTellsLifecycle, OneHolder, Sound,
      NewIsOwn, FoundExists, ArchivesActive, KeepsKey, ClaimIsOwn, Claims, Existing
<1> QED BY <1>1, <1>2

LEMMA Inductive == Spec => []IInv
<1>1. IInv /\ [Next]_vars => IInv'
  BY NextIInv
<1> QED BY InitIInv, <1>1, PTL DEF Spec

\* Type correctness; a resource has columns exactly when it has been created.
THEOREM TypeCorrect == Spec => []TypeOK
<1>1. IInv => TypeOK
  BY DEF IInv
<1> QED BY <1>1, Inductive, PTL

\* A key finds one row, however many creations and renames run side by side: the
\* unique index makes a new key wait for every transaction that has written it.
THEOREM KeysStayUnique == Spec => []KeysAreUnique
<1>1. IInv => KeysAreUnique
  BY DEF IInv
<1> QED BY <1>1, Inductive, PTL

\* One record of the creation, first; one of the archiving, exactly when it happened.
THEOREM AuditTells == Spec => []AuditTellsLifecycle
<1>1. IInv => AuditTellsLifecycle
  BY DEF IInv
<1> QED BY <1>1, Inductive, PTL

\* A row that exists changes in the commit of a PATCH only.
LEMMA OnlyPatchesChangeRows ==
    ASSUME IInv, [Next]_vars, NEW x \in Existing, row'[x] # row[x]
    PROVE  \E r \in Request : CommitUpdate(r) /\ about[r] = x
<1>1. row' # row
  OBVIOUS
<1>2. PICK r \in Request : CommitCreate(r) \/ CommitUpdate(r)
  BY <1>1
  DEF Next, vars, stored, Begin, Continue, Abort, BeginCreate, BeginUpdate, BeginArchive, Find,
      InsertRow, CreateClash, ChangeNothing, LockRow, WriteColumns, RenameClash, ArchiveRow,
      ArchivedAlready, CommitArchive, DeadlockVictim, Fail, Step
<1>3. x \in Resource /\ status[x] # "unborn"
  BY DEF Existing
<1>4. CASE CommitCreate(r)
  <2>1. about[r] # x
    BY <1>3, <1>4 DEF CommitCreate, IInv, Sound, NewIsOwn
  <2> QED BY <1>3, <1>4, <2>1 DEF CommitCreate, IInv, TypeOK
<1>5. CASE CommitUpdate(r)
  BY <1>3, <1>5 DEF CommitUpdate, IInv, TypeOK
<1> QED BY <1>2, <1>4, <1>5

\* A project's key is what it was created with: no PATCH under way names it.
THEOREM KeyStays == Spec => KeyIsPermanent
<1>1. IInv /\ [Next]_vars =>
        [\A x \in Existing : KeyIsEditable \/ row'[x][KeyColumn] = row[x][KeyColumn]]_vars
  <2> SUFFICES ASSUME IInv, [Next]_vars, NEW x \in Existing, ~KeyIsEditable,
                      row'[x] # row[x]
               PROVE  row'[x][KeyColumn] = row[x][KeyColumn]
    OBVIOUS
  <2>1. PICK r \in Request : CommitUpdate(r) /\ about[r] = x
    BY OnlyPatchesChangeRows
  <2>2. /\ KeyColumn \notin DOMAIN change[r] /\ change[r] \in Change
        /\ x \in Resource /\ row[x] \in Row
    BY <2>1, ExistingHasRow DEF CommitUpdate, IInv, TypeOK, Sound, KeepsKey, Patching
  <2>3. row'[x] = Patched(row[x], change[r])
    BY <2>1, <2>2 DEF CommitUpdate, IInv, TypeOK
  <2> QED BY <2>2, <2>3, PatchedIsRow, ColumnsAssumption
<1> QED BY <1>1, Inductive, PTL DEF Spec, KeyIsPermanent

\* What changes in a row is in the record of the same transaction: a PATCH writes the
\* columns it names and leaves what others have written since it read the row.
THEOREM ChangesAreNamed == Spec => AuditNamesWhatChanged
<1>1. IInv /\ [Next]_vars =>
        [\A x \in Existing :
           row'[x] # row[x] =>
              /\ Len(records'[x]) = Len(records[x]) + 1
              /\ \A c \in Column :
                   row'[x][c] # row[x][c] => c \in Last(records'[x]).fields]_vars
  <2> SUFFICES ASSUME IInv, [Next]_vars, NEW x \in Existing, row'[x] # row[x]
               PROVE  /\ Len(records'[x]) = Len(records[x]) + 1
                      /\ \A c \in Column :
                           row'[x][c] # row[x][c] => c \in Last(records'[x]).fields
    OBVIOUS
  <2>1. PICK r \in Request : CommitUpdate(r) /\ about[r] = x
    BY OnlyPatchesChangeRows
  <2>2. /\ x \in Resource /\ row[x] \in Row /\ TypeOK
        /\ change[r] \in Change /\ DOMAIN change[r] \in SUBSET Column
    BY ExistingHasRow DEF IInv, TypeOK, Change
  <2>3. row'[x] = Patched(row[x], change[r]) /\ Audited(x, "updated", DOMAIN change[r])
    BY <2>1, <2>2 DEF CommitUpdate, TypeOK
  <2>4. PICK new \in Record :
          /\ new.fields = DOMAIN change[r]
          /\ records' = [records EXCEPT ![x] = Append(records[x], new)]
    BY <2>2, <2>3, AuditedRecords
  <2>5. /\ records'[x] \in Seq(Record) /\ Len(records[x]) \in Nat
        /\ DOMAIN records'[x] = 1 .. Len(records[x]) + 1
        /\ records'[x][Len(records[x]) + 1] = new
    BY <2>2, <2>4, OneMoreRecord
  <2>6. Len(records'[x]) = Len(records[x]) + 1
    BY <2>5
  <2>7. Last(records'[x]).fields = DOMAIN change[r]
    BY <2>4, <2>5, <2>6 DEF Last
  <2> QED BY <2>2, <2>3, <2>6, <2>7, PatchedIsRow
<1> QED BY <1>1, Inductive, PTL DEF Spec, AuditNamesWhatChanged

-----------------------------------------------------------------------------
(***************************************************************************)
(* The pages of a list.                                                    *)
(***************************************************************************)

\* Positions are in one line.
LEMMA LessIsTotal ==
    ASSUME NEW p \in Nat \X Id, NEW q \in Nat \X Id, NEW r \in Nat \X Id
    PROVE  /\ ~Less(p, p)
           /\ Less(p, q) => ~Less(q, p)
           /\ Less(p, q) /\ Less(q, r) => Less(p, r)
           /\ Less(p, q) /\ ~Less(r, q) => Less(p, r)
<1>1. p[1] \in Nat /\ p[2] \in Nat /\ q[1] \in Nat /\ q[2] \in Nat /\ r[1] \in Nat /\ r[2] \in Nat
  BY IdAssumption
<1>2. p = q <=> p[1] = q[1] /\ p[2] = q[2]
  OBVIOUS
<1> QED BY <1>1 DEF Less

\* What a client was shown are rows that were there, and may be deleted since; what is
\* behind the cursor has not been shown.
ShownIsBefore ==
    /\ walk.stage = "off" => walk.shown = <<>>
    /\ \A k \in DOMAIN walk.shown : walk.shown[k] \in visible \cup deleted
    /\ walk.stage = "going" =>
          \A k \in DOMAIN walk.shown : ~Less(Position(walk.shown[k]), walk.cursor)

\* No row that was there when the walk began is out of sight for another reason than
\* its deletion.
FirstIsKnown == walk.first \subseteq visible \cup deleted

WalkInv == WalkTypeOK /\ ShownIsBefore /\ FirstIsKnown /\ NothingShownTwice /\ NothingSkipped

LEMMA WalkInitInv == ASSUME WalkInit PROVE WalkInv
<1>1. WalkTypeOK
  BY TimeAssumption DEF WalkInit, WalkTypeOK, Walk
<1> QED
  BY <1>1 DEF WalkInit, WalkInv, ShownIsBefore, FirstIsKnown, NothingShownTwice, NothingSkipped

\* Rows that have been committed keep their position, so a walk stands still while
\* others write.
LEMMA WritesKeepWalk ==
    ASSUME WalkInv, WalkTypeOK', walk' = walk,
           visible \cup deleted \subseteq visible' \cup deleted', deleted \subseteq deleted',
           \A i \in visible \cup deleted : created'[i] = created[i]
    PROVE  WalkInv'
<1>1. walk.first \ deleted' \subseteq visible \cup deleted
  BY DEF WalkInv, FirstIsKnown
<1>2. ShownIsBefore'
  BY DEF WalkInv, ShownIsBefore, Position
<1>3. FirstIsKnown' /\ NothingShownTwice'
  BY DEF WalkInv, FirstIsKnown, NothingShownTwice
<1>4. NothingSkipped'
  BY <1>1 DEF WalkInv, NothingSkipped, Position
<1> QED BY <1>2, <1>3, <1>4 DEF WalkInv

LEMMA WritersKeep ==
    ASSUME WalkInv,
           Tick \/ \E i \in Id : BeginInsert(i) \/ CommitInsert(i) \/ AbortInsert(i) \/ Delete(i)
    PROVE  WalkInv'
<1>1. CASE Tick
  <2>1. WalkTypeOK'
    BY <1>1, TimeAssumption DEF Tick, WalkInv, WalkTypeOK
  <2> QED BY <1>1, <2>1, WritesKeepWalk DEF Tick
<1>2. ASSUME NEW i \in Id, BeginInsert(i) PROVE WalkInv'
  <2>1. i \notin visible \cup deleted
    BY <1>2 DEF BeginInsert, WalkInv, WalkTypeOK
  <2>2. WalkTypeOK'
    BY <1>2, <2>1 DEF BeginInsert, WalkInv, WalkTypeOK
  <2>3. \A j \in visible \cup deleted : created'[j] = created[j]
    BY <1>2, <2>1 DEF BeginInsert, WalkInv, WalkTypeOK
  <2> QED BY <1>2, <2>2, <2>3, WritesKeepWalk DEF BeginInsert
<1>3. ASSUME NEW i \in Id, CommitInsert(i) PROVE WalkInv'
  <2>1. WalkTypeOK'
    BY <1>3 DEF CommitInsert, WalkInv, WalkTypeOK
  <2> QED BY <1>3, <2>1, WritesKeepWalk DEF CommitInsert
<1>4. ASSUME NEW i \in Id, AbortInsert(i) PROVE WalkInv'
  <2>0. clock \in 1 .. MaxTime /\ created \in [Id -> 0 .. MaxTime] /\ i \notin visible \cup deleted
        /\ visible \cup deleted \subseteq {j \in Id : created[j] # 0} /\ 0 \in 0 .. MaxTime
    BY <1>4, TimeAssumption DEF AbortInsert, WalkInv, WalkTypeOK
  <2>1. WalkTypeOK'
    BY <1>4, <2>0 DEF AbortInsert, WalkInv, WalkTypeOK
  <2>2. \A j \in visible \cup deleted : created'[j] = created[j]
    BY <1>4 DEF AbortInsert, WalkInv, WalkTypeOK
  <2> QED BY <1>4, <2>1, <2>2, WritesKeepWalk DEF AbortInsert
<1>5. ASSUME NEW i \in Id, Delete(i) PROVE WalkInv'
  <2>1. WalkTypeOK'
    BY <1>5 DEF Delete, WalkInv, WalkTypeOK
  <2> QED BY <1>5, <2>1, WritesKeepWalk DEF Delete
<1> QED BY <1>1, <1>2, <1>3, <1>4, <1>5

-----------------------------------------------------------------------------
\* What a page is made of, and where its cursor stands.
LEMMA PageFacts ==
    ASSUME NEW rows \in Seq(Id), NEW limit \in Nat \ {0}
    PROVE  /\ PageOf(rows, limit).items \in Seq(Id)
           /\ Len(PageOf(rows, limit).items) = (IF Len(rows) < limit THEN Len(rows) ELSE limit)
           /\ DOMAIN PageOf(rows, limit).items = 1 .. Len(PageOf(rows, limit).items)
           /\ \A k \in 1 .. Len(PageOf(rows, limit).items) : PageOf(rows, limit).items[k] = rows[k]
           /\ PageOf(rows, limit).cursor =
                (IF Len(rows) > limit THEN Position(rows[limit]) ELSE <<>>)
<1> DEFINE n == IF Len(rows) < limit THEN Len(rows) ELSE limit
<1> DEFINE items == SubSeq(rows, 1, n)
<1>1. n \in Nat /\ n <= Len(rows)
  OBVIOUS
<1>2. items \in Seq(Id) /\ Len(items) = n /\ DOMAIN items = 1 .. n /\ \A k \in 1 .. n : items[k] = rows[k]
  BY <1>1
<1>3. Len(rows) > limit => Last(items) = rows[limit]
  BY <1>1, <1>2 DEF Last
<1> QED BY <1>2, <1>3 DEF PageOf

\* A page of at most n rows, as a sequence.
IsPage(page, rows, n) ==
    /\ Len(page) \in Nat /\ Len(page) <= n /\ DOMAIN page = 1 .. Len(page)
    /\ \A k \in DOMAIN page : page[k] \in rows
    /\ \A i, j \in DOMAIN page : i < j => Less(Position(page[j]), Position(page[i]))
    /\ \A r \in rows :
         \/ \E i \in DOMAIN page : page[i] = r
         \/ Len(page) = n /\ \A i \in DOMAIN page : Less(Position(r), Position(page[i]))

LEMMA NewestFacts ==
    ASSUME NEW rows \in SUBSET Id, NEW n \in Nat, NEW page \in Newest(rows, n)
    PROVE  page \in Seq(Id) /\ IsPage(page, rows, n)
<1>1. PICK m \in 0 .. n : page \in [1 .. m -> rows]
  BY DEF Newest, BoundedSeq, SeqOf
<1>2. page \in Seq(Id) /\ Len(page) = m /\ DOMAIN page = 1 .. m
  BY <1>1
<1> QED BY <1>1, <1>2 DEF Newest, IsPage

LEMMA GetPageKeeps ==
    ASSUME WalkInv, GetPage
    PROVE  WalkInv'
<1> DEFINE behind == {i \in visible : After(i)}
<1>0. PICK limit \in Limits : \E rows \in Newest(behind, limit + 1) :
         walk' = [stage |-> IF PageOf(rows, limit).cursor = <<>> THEN "over" ELSE "going",
                  shown |-> walk.shown \o PageOf(rows, limit).items,
                  cursor |-> PageOf(rows, limit).cursor,
                  first |-> IF walk.stage = "off" THEN visible ELSE walk.first]
  BY DEF GetPage
<1>1. PICK rows \in Newest(behind, limit + 1) :
         walk' = [stage |-> IF PageOf(rows, limit).cursor = <<>> THEN "over" ELSE "going",
                  shown |-> walk.shown \o PageOf(rows, limit).items,
                  cursor |-> PageOf(rows, limit).cursor,
                  first |-> IF walk.stage = "off" THEN visible ELSE walk.first]
  BY <1>0
<1> DEFINE items == PageOf(rows, limit).items
           old == walk.shown
           N == Len(rows)
<1>2. limit \in Nat /\ limit > 0 /\ limit + 1 \in Nat
  BY LimitAssumption
<1>3. /\ visible \subseteq Id /\ deleted \subseteq Id
      /\ \A i \in visible \cup deleted : Position(i) \in Nat \X Id
  BY DEF WalkInv, WalkTypeOK, Position
<1>4. behind \in SUBSET Id /\ behind \subseteq visible
  BY <1>3
<1>5. /\ rows \in Seq(Id) /\ N \in Nat /\ N <= limit + 1 /\ DOMAIN rows = 1 .. N
      /\ \A k \in 1 .. N : rows[k] \in behind
      /\ \A i, j \in 1 .. N : i < j => Less(Position(rows[j]), Position(rows[i]))
      /\ \A r \in behind :
            \/ \E i \in 1 .. N : rows[i] = r
            \/ N = limit + 1 /\ \A i \in 1 .. N : Less(Position(r), Position(rows[i]))
  <2> HIDE DEF behind
  <2>1. rows \in Seq(Id) /\ IsPage(rows, behind, limit + 1)
    BY <1>2, <1>4, NewestFacts, Zenon
  <2>2. N \in Nat /\ N <= limit + 1 /\ DOMAIN rows = 1 .. N
    BY <2>1, Zenon DEF IsPage
  <2>3. /\ \A k \in 1 .. N : rows[k] \in behind
        /\ \A i, j \in 1 .. N : i < j => Less(Position(rows[j]), Position(rows[i]))
        /\ \A r \in behind :
              \/ \E i \in 1 .. N : rows[i] = r
              \/ N = limit + 1 /\ \A i \in 1 .. N : Less(Position(r), Position(rows[i]))
    BY <2>1, <2>2, Zenon DEF IsPage
  <2> QED BY <2>1, <2>2, <2>3, Zenon
<1>6. /\ items \in Seq(Id) /\ Len(items) \in Nat
      /\ Len(items) = (IF N < limit THEN N ELSE limit)
      /\ \A k \in 1 .. Len(items) : items[k] = rows[k]
  <2>1. limit \in Nat \ {0}
    BY LimitAssumption
  <2>2. /\ items \in Seq(Id)
        /\ Len(items) = (IF N < limit THEN N ELSE limit)
        /\ \A k \in 1 .. Len(items) : items[k] = rows[k]
    BY <1>5, <2>1, PageFacts, Zenon
  <2> QED BY <1>2, <1>5, <2>2
<1>7. PageOf(rows, limit).cursor = (IF N > limit THEN Position(rows[limit]) ELSE <<>>)
  <2>1. limit \in Nat \ {0} /\ rows \in Seq(Id)
    BY <1>5, LimitAssumption
  <2> HIDE DEF behind, items, old
  <2> QED BY <2>1, PageFacts, Zenon
<1>8. /\ old \in Seq(Id) /\ Len(old) \in Nat /\ DOMAIN old = 1 .. Len(old)
      /\ walk.stage \in {"off", "going", "over"} /\ walk.first \subseteq Id
      /\ walk.cursor \in (Nat \X Id) \cup {<<>>}
      /\ walk.stage = "going" <=> walk.cursor # <<>>
  BY DEF WalkInv, WalkTypeOK, Walk
<1>9. /\ UNCHANGED <<clock, created, visible, deleted>>
      /\ walk.stage # "over"
  BY DEF GetPage
<1>10. /\ walk'.shown = old \o items
       /\ walk'.first = IF walk.stage = "off" THEN visible ELSE walk.first
       /\ walk'.cursor = IF N > limit THEN Position(rows[limit]) ELSE <<>>
       /\ walk'.stage = IF walk'.cursor = <<>> THEN "over" ELSE "going"
  BY <1>1, <1>7
<1>11. DOMAIN walk' = {"stage", "shown", "cursor", "first"}
       /\ walk' = [stage |-> walk'.stage, shown |-> walk'.shown, cursor |-> walk'.cursor, first |-> walk'.first]
  BY <1>1
<1> HIDE DEF items, N
<1>12. \A j \in 1 .. N : Position(rows[j]) \in Nat \X Id /\ rows[j] \in visible
  BY <1>3, <1>4, <1>5
<1>13. N > limit => N = limit + 1 /\ limit \in 1 .. N
  BY <1>2, <1>5
<1>14. N > limit => walk'.stage = "going" /\ walk'.cursor = Position(rows[limit])
                    /\ walk'.cursor \in Nat \X Id
  <2>1. \A p \in Nat \X Id : p # <<>>
    OBVIOUS
  <2> QED BY <1>10, <1>12, <1>13, <2>1
<1>15. ~(N > limit) => walk'.stage = "over" /\ walk'.cursor = <<>>
  BY <1>10
<1>16. \A k \in 1 .. Len(items) : k \in 1 .. N /\ items[k] = rows[k]
  BY <1>2, <1>5, <1>6
<1>17. walk'.shown \in Seq(Id) /\ DOMAIN walk'.shown = 1 .. Len(old) + Len(items)
  BY <1>6, <1>8, <1>10
<1>18. \A k \in 1 .. Len(old) : k \in DOMAIN walk'.shown /\ walk'.shown[k] = old[k]
  BY <1>6, <1>8, <1>10
<1>19. \A k \in DOMAIN walk'.shown \ 1 .. Len(old) :
          k - Len(old) \in 1 .. Len(items) /\ walk'.shown[k] = rows[k - Len(old)]
  <2>1. \A k \in DOMAIN walk'.shown \ 1 .. Len(old) :
          k - Len(old) \in 1 .. Len(items) /\ walk'.shown[k] = items[k - Len(old)]
    BY <1>6, <1>8, <1>10
  <2> QED BY <1>16, <2>1
<1>20. \A k \in 1 .. Len(items) :
          Len(old) + k \in DOMAIN walk'.shown /\ walk'.shown[Len(old) + k] = rows[k]
  <2>1. \A k \in 1 .. Len(items) :
          Len(old) + k \in DOMAIN walk'.shown /\ walk'.shown[Len(old) + k] = items[k]
    BY <1>6, <1>8, <1>10
  <2> QED BY <1>16, <2>1
<1>21. WalkTypeOK'
  <2>1. walk'.stage \in {"off", "going", "over"} /\ walk'.first \subseteq Id
    BY <1>3, <1>8, <1>10
  <2>2. walk'.cursor \in (Nat \X Id) \cup {<<>>} /\ (walk'.stage = "going" <=> walk'.cursor # <<>>)
    BY <1>10, <1>14, <1>15
  <2>3. walk' \in Walk
    BY <1>11, <1>17, <2>1, <2>2 DEF Walk
  <2> QED BY <1>9, <2>2, <2>3 DEF WalkInv, WalkTypeOK
\* The new rows lie behind those that were shown before.
<1>22. \A k \in 1 .. Len(old), j \in 1 .. N :
          /\ Position(old[k]) \in Nat \X Id
          /\ Less(Position(rows[j]), Position(old[k]))
  <2> SUFFICES ASSUME NEW k \in 1 .. Len(old), NEW j \in 1 .. N
               PROVE  /\ Position(old[k]) \in Nat \X Id
                      /\ Less(Position(rows[j]), Position(old[k]))
    OBVIOUS
  <2>1. walk.stage = "going"
    BY <1>8, <1>9 DEF WalkInv, ShownIsBefore
  <2>2. Position(old[k]) \in Nat \X Id /\ ~Less(Position(old[k]), walk.cursor)
    BY <1>3, <1>8, <2>1 DEF WalkInv, ShownIsBefore
  <2>3. Less(Position(rows[j]), walk.cursor)
    BY <1>5, <1>8, <2>1 DEF After
  <2>4. Position(rows[j]) \in Nat \X Id /\ walk.cursor \in Nat \X Id
    BY <1>8, <1>12, <2>1
  <2> QED BY <2>2, <2>3, <2>4, LessIsTotal
<1> HIDE DEF behind
<1>23. ShownIsBefore'
  <2>1. ASSUME NEW k \in DOMAIN walk'.shown PROVE walk'.shown[k] \in visible \cup deleted
    <3>1. CASE k \in 1 .. Len(old)
      BY <1>8, <1>18, <3>1 DEF WalkInv, ShownIsBefore
    <3>2. CASE k \notin 1 .. Len(old)
      BY <1>12, <1>16, <1>19, <3>2
    <3> QED BY <3>1, <3>2
  <2>2. ASSUME walk'.stage = "going", NEW k \in DOMAIN walk'.shown
        PROVE  ~Less(Position(walk'.shown[k]), walk'.cursor)
    <3>1. N > limit
      BY <1>15, <2>2
    <3>2. CASE k \in 1 .. Len(old)
      BY <1>12, <1>13, <1>14, <1>18, <1>22, <3>1, <3>2, LessIsTotal
    <3>3. CASE k \notin 1 .. Len(old)
      <4> DEFINE j == k - Len(old)
      <4>1. j \in 1 .. limit /\ j \in 1 .. N /\ walk'.shown[k] = rows[j]
        BY <1>2, <1>6, <1>16, <1>19, <3>1, <3>3
      <4> HIDE DEF j
      <4>2. j = limit \/ Less(Position(rows[limit]), Position(rows[j]))
        BY <1>2, <1>5, <1>13, <3>1, <4>1
      <4> QED BY <1>12, <1>13, <1>14, <3>1, <4>1, <4>2, LessIsTotal
    <3> QED BY <3>2, <3>3
  <2>3. \A i : Position(i)' = Position(i)
    BY <1>9 DEF Position
  <2>4. walk'.stage # "off"
    BY <1>14, <1>15
  <2> QED BY <1>9, <2>1, <2>2, <2>3, <2>4 DEF ShownIsBefore
<1>24. FirstIsKnown'
  BY <1>9, <1>10 DEF WalkInv, FirstIsKnown
<1>25. NothingShownTwice'
  <2>1. ASSUME NEW i \in DOMAIN walk'.shown, NEW j \in DOMAIN walk'.shown, i < j
        PROVE  walk'.shown[i] # walk'.shown[j]
    <3>1. CASE j \in 1 .. Len(old)
      <4>1. i \in 1 .. Len(old)
        BY <1>8, <1>17, <2>1, <3>1
      <4> QED BY <1>8, <1>18, <2>1, <3>1, <4>1 DEF WalkInv, NothingShownTwice
    <3>2. CASE j \notin 1 .. Len(old) /\ i \in 1 .. Len(old)
      <4>1. j - Len(old) \in 1 .. N /\ walk'.shown[j] = rows[j - Len(old)]
        BY <1>16, <1>19, <3>2
      <4> QED BY <1>12, <1>18, <1>22, <3>2, <4>1, LessIsTotal
    <3>3. CASE j \notin 1 .. Len(old) /\ i \notin 1 .. Len(old)
      <4>1. /\ j - Len(old) \in 1 .. N /\ walk'.shown[j] = rows[j - Len(old)]
            /\ i - Len(old) \in 1 .. N /\ walk'.shown[i] = rows[i - Len(old)]
        BY <1>16, <1>19, <3>3
      <4>2. i - Len(old) < j - Len(old)
        BY <1>8, <1>17, <2>1
      <4>3. Less(Position(rows[j - Len(old)]), Position(rows[i - Len(old)]))
        BY <1>5, <4>1, <4>2
      <4> QED BY <1>12, <4>1, <4>3, LessIsTotal
    <3> QED BY <3>1, <3>2, <3>3
  <2>2. \A i, j \in DOMAIN walk'.shown : i \in Int /\ j \in Int
    BY <1>17
  <2>3. \A i, j \in DOMAIN walk'.shown : i # j => i < j \/ j < i
    BY <2>2
  <2> QED BY <2>1, <2>3 DEF NothingShownTwice
<1>26. NothingSkipped'
  <2>1. ASSUME NEW i \in walk'.first \ deleted
        PROVE  \/ \E k \in DOMAIN walk'.shown : walk'.shown[k] = i
               \/ walk'.stage = "going" /\ Less(Position(i), walk'.cursor)
    <3>1. i \in visible
      BY <1>10, <2>1 DEF WalkInv, FirstIsKnown
    <3>2. CASE \E k \in 1 .. Len(old) : old[k] = i
      BY <1>18, <3>2
    <3>3. CASE ~ \E k \in 1 .. Len(old) : old[k] = i
      <4>1. i \in behind
        BY <1>8, <1>9, <1>10, <2>1, <3>1, <3>3 DEF behind, After, WalkInv, NothingSkipped
      <4>2. ASSUME NEW m \in 1 .. N, rows[m] = i
            PROVE  \/ \E k \in DOMAIN walk'.shown : walk'.shown[k] = i
                   \/ walk'.stage = "going" /\ Less(Position(i), walk'.cursor)
        <5>1. CASE m <= limit
          <6>1. m \in 1 .. Len(items)
            BY <1>2, <1>5, <1>6, <4>2, <5>1
          <6> QED BY <1>20, <4>2, <6>1
        <5>2. CASE ~(m <= limit)
          <6>1. N > limit /\ limit < m
            BY <1>2, <1>5, <4>2, <5>2
          <6> QED BY <1>5, <1>13, <1>14, <4>2, <6>1
        <5> QED BY <5>1, <5>2
      <4>3. CASE ~ \E m \in 1 .. N : rows[m] = i
        <5>1. N = limit + 1 /\ \A m \in 1 .. N : Less(Position(i), Position(rows[m]))
          BY <1>5, <4>1, <4>3
        <5>2. N > limit
          BY <1>2, <5>1
        <5> QED BY <1>13, <1>14, <5>1, <5>2
      <4> QED BY <4>2, <4>3
    <3> QED BY <3>2, <3>3
  <2>2. \A i : Position(i)' = Position(i)
    BY <1>9 DEF Position
  <2> QED BY <1>9, <2>1, <2>2 DEF NothingSkipped
<1> QED BY <1>21, <1>23, <1>24, <1>25, <1>26 DEF WalkInv

-----------------------------------------------------------------------------
LEMMA WalkStepKeeps == ASSUME WalkInv, [WalkNext]_walkVars PROVE WalkInv'
<1>1. CASE UNCHANGED walkVars
  BY <1>1 DEF walkVars, WalkInv, WalkTypeOK, ShownIsBefore, FirstIsKnown, NothingShownTwice,
              NothingSkipped, Position
<1> QED BY <1>1, GetPageKeeps, WritersKeep DEF WalkNext

LEMMA WalkSpecInv == WalkSpec => []WalkInv
<1>1. WalkInit => WalkInv
  BY WalkInitInv
<1>2. WalkInv /\ [WalkNext]_walkVars => WalkInv'
  BY WalkStepKeeps
<1> QED BY <1>1, <1>2, PTL DEF WalkSpec

\* Walks, pages and rows are well typed in every reachable state, for any identifiers,
\* limits and clock.
THEOREM WalkTypeCorrect == WalkSpec => []WalkTypeOK
<1>1. WalkInv => WalkTypeOK
  BY DEF WalkInv
<1> QED BY <1>1, WalkSpecInv, PTL

\* However many rows are inserted and deleted between its pages, and whatever limits it
\* asks for, a walk shows no row twice.
THEOREM WalksShowOnce == WalkSpec => []NothingShownTwice
<1>1. WalkInv => NothingShownTwice
  BY DEF WalkInv
<1> QED BY <1>1, WalkSpecInv, PTL

\* And it shows every row that was there when it began and still is.
THEOREM WalksSkipNothing == WalkSpec => []NothingSkipped
<1>1. WalkInv => NothingSkipped
  BY DEF WalkInv
<1> QED BY <1>1, WalkSpecInv, PTL

-----------------------------------------------------------------------------
(***************************************************************************)
(* That there is a page, and one only.                                     *)
(***************************************************************************)
\* Of the rows of a table one is the newest.
IsNewest(r, rows) == r \in rows /\ \A q \in rows \ {r} : Less(Position(q), Position(r))

LEMMA SomeNewest ==
    ASSUME NEW rows \in SUBSET Id, IsFiniteSet(rows), rows # {},
           \A i \in rows : created[i] \in Nat
    PROVE  \E r \in rows : IsNewest(r, rows)
<1> DEFINE Sets == FiniteSubsetsOf(rows)
           Without == {S \in Sets : S # {} /\ \A r \in S : ~IsNewest(r, S)}
           R == StrictSubsetOrdering(rows)
<1>1. IsWellFoundedOn(R, Sets)
  BY FS_StrictSubsetOrderingWellFounded
<1>2. rows \in Sets
  BY DEF FiniteSubsetsOf
<1>3. ASSUME Without # {} PROVE FALSE
  <2>1. PICK S \in Without : \A T \in Without : ~(<<T, S>> \in R)
    <3> HIDE DEF R
    <3>1. Without \subseteq Sets
      OBVIOUS
    <3> QED BY <1>1, <1>3, <3>1, WFMin
  <2>2. S \subseteq rows /\ IsFiniteSet(S) /\ S # {}
    BY DEF FiniteSubsetsOf
  <2>3. PICK x \in S : TRUE
    BY <2>2
  <2> DEFINE T == S \ {x}
  <2>4. T \in Sets /\ <<T, S>> \in R
    <3>1. IsFiniteSet(T)
      BY <2>2, FS_RemoveElement
    <3> QED BY <2>2, <2>3, <3>1 DEF FiniteSubsetsOf, StrictSubsetOrdering
  <2>5. ~(T \in Without)
    BY <2>1, <2>4
  <2>6. CASE T = {}
    <3>1. IsNewest(x, S)
      BY <2>3, <2>6 DEF IsNewest
    <3> QED BY <3>1
  <2>7. CASE T # {}
    <3>1. PICK r \in T : IsNewest(r, T)
      BY <2>4, <2>5, <2>7
    <3>2. \A i \in rows : Position(i) \in Nat \X Id
      BY DEF Position
    <3>3. r # x /\ r \in S /\ x \in rows /\ r \in rows /\ Position(x) # Position(r)
      BY <2>2, <3>1 DEF Position
    <3>4. CASE Less(Position(x), Position(r))
      <4>1. IsNewest(r, S)
        BY <3>1, <3>3, <3>4 DEF IsNewest
      <4> QED BY <4>1, <3>3
    <3>5. CASE Less(Position(r), Position(x))
      <4>1. ASSUME NEW q \in S \ {x} PROVE Less(Position(q), Position(x))
        <5>1. CASE q = r
          BY <3>5, <5>1
        <5>2. CASE q # r
          <6>1. Less(Position(q), Position(r)) /\ q \in rows
            BY <2>2, <3>1, <5>2 DEF IsNewest
          <6> QED BY <3>2, <3>3, <3>5, <6>1, LessIsTotal
        <5> QED BY <5>1, <5>2
      <4>2. IsNewest(x, S)
        BY <2>3, <4>1 DEF IsNewest
      <4> QED BY <4>2
    <3>6. Less(Position(x), Position(r)) \/ Less(Position(r), Position(x))
      <4>1. created[x] \in Nat /\ created[r] \in Nat /\ x \in Nat /\ r \in Nat
        BY <3>3, IdAssumption
      <4> QED BY <3>3, <4>1 DEF Less, Position
    <3> QED BY <3>4, <3>5, <3>6
  <2> QED BY <2>6, <2>7
<1>4. ~(rows \in Without)
  BY <1>3
<1> QED BY <1>2, <1>4

\* What a page of n rows leaves out, if anything, is behind all of it; the newest of what is
\* left out makes it a page of n + 1.
LEMMA OneMoreRow ==
    ASSUME NEW rows \in SUBSET Id, IsFiniteSet(rows), \A i \in rows : created[i] \in Nat,
           NEW n \in Nat, Newest(rows, n) # {}
    PROVE  Newest(rows, n + 1) # {}
<1>1. PICK page \in Newest(rows, n) : TRUE
  OBVIOUS
<1>2. PICK m \in 0 .. n : page \in [1 .. m -> rows]
  BY <1>1 DEF Newest, BoundedSeq, SeqOf
<1>3. /\ Len(page) = m /\ DOMAIN page = 1 .. m
      /\ \A i, j \in 1 .. m : i < j => Less(Position(page[j]), Position(page[i]))
      /\ \A r \in rows :
            \/ \E i \in 1 .. m : page[i] = r
            \/ m = n /\ \A i \in 1 .. m : Less(Position(r), Position(page[i]))
  <2>1. page \in Seq(rows) /\ Len(page) = m /\ DOMAIN page = 1 .. m
    BY <1>2
  <2> QED BY <2>1, <1>1 DEF Newest
<1> DEFINE left == {r \in rows : \A i \in 1 .. m : page[i] # r}
<1>4. CASE left = {}
  <2>1. page \in BoundedSeq(rows, n + 1)
    <3>1. m \in 0 .. n + 1
      OBVIOUS
    <3> QED BY <1>2, <3>1 DEF BoundedSeq, SeqOf
  <2>2. \A r \in rows : \E i \in 1 .. m : page[i] = r
    BY <1>4
  <2>3. page \in Newest(rows, n + 1)
    BY <1>3, <2>1, <2>2 DEF Newest
  <2> QED BY <2>3
<1>5. CASE left # {}
  <2>1. m = n
    BY <1>3, <1>5
  <2>2. IsFiniteSet(left) /\ left \in SUBSET Id /\ left \subseteq rows
    BY FS_Subset
  <2>3. PICK r \in left : IsNewest(r, left)
    BY <1>5, <2>2, SomeNewest
  <2> DEFINE longer == [i \in 1 .. n + 1 |-> IF i = n + 1 THEN r ELSE page[i]]
  <2>4. longer \in BoundedSeq(rows, n + 1) /\ longer \in Seq(rows) /\ Len(longer) = n + 1
        /\ DOMAIN longer = 1 .. n + 1
    <3>1. longer \in [1 .. n + 1 -> rows]
      BY <1>2, <2>1
    <3>2. n + 1 \in 0 .. n + 1 /\ n + 1 \in Nat
      OBVIOUS
    <3>3. longer \in BoundedSeq(rows, n + 1)
      BY <3>1, <3>2 DEF BoundedSeq, SeqOf
    <3> QED BY <3>1, <3>2, <3>3
  <2>5. longer[n + 1] = r /\ \A i \in 1 .. n : longer[i] = page[i]
    OBVIOUS
  <2> HIDE DEF longer
  <2>6. \A i \in 1 .. n : Less(Position(r), Position(page[i]))
    BY <1>3, <2>1, <2>3
  <2>7. ASSUME NEW i \in 1 .. n + 1, NEW j \in 1 .. n + 1, i < j
        PROVE  Less(Position(longer[j]), Position(longer[i]))
    <3>1. i \in 1 .. n
      BY <2>7
    <3>2. CASE j = n + 1
      BY <2>5, <2>6, <3>1, <3>2
    <3>3. CASE j # n + 1
      <4>1. j \in 1 .. n
        BY <3>3
      <4> QED BY <1>3, <2>1, <2>5, <2>7, <3>1, <4>1
    <3> QED BY <3>2, <3>3
  <2>8. ASSUME NEW q \in rows
        PROVE  \/ \E i \in 1 .. n + 1 : longer[i] = q
               \/ \A i \in 1 .. n + 1 : Less(Position(q), Position(longer[i]))
    <3>1. CASE \E i \in 1 .. n : page[i] = q
      <4>1. PICK i \in 1 .. n : page[i] = q
        BY <3>1
      <4>2. i \in 1 .. n + 1
        OBVIOUS
      <4> QED BY <2>5, <4>1, <4>2
    <3>2. CASE q = r
      <4>1. n + 1 \in 1 .. n + 1
        OBVIOUS
      <4> QED BY <2>5, <3>2, <4>1
    <3>3. CASE q # r /\ \A i \in 1 .. n : page[i] # q
      <4>1. q \in left \ {r}
        BY <2>1, <3>3
      <4>2. Less(Position(q), Position(r))
        BY <2>3, <4>1 DEF IsNewest
      <4>3. \A i \in 1 .. n : Less(Position(q), Position(page[i]))
        BY <1>3, <2>1, <3>3
      <4>4. \A i \in 1 .. n + 1 : i = n + 1 \/ i \in 1 .. n
        OBVIOUS
      <4> QED BY <2>5, <4>2, <4>3, <4>4
    <3> QED BY <3>1, <3>2, <3>3
  <2>9. longer \in Newest(rows, n + 1)
    BY <2>4, <2>7, <2>8, Zenon DEF Newest
  <2> QED BY <2>9
<1> QED BY <1>4, <1>5

LEMMA SomePage ==
    ASSUME NEW rows \in SUBSET Id, IsFiniteSet(rows), \A i \in rows : created[i] \in Nat
    PROVE  \A n \in Nat : Newest(rows, n) # {}
<1> DEFINE Without == {n \in Nat : Newest(rows, n) = {}}
           R == OpToRel(<, Nat)
<1>1. IsWellFoundedOn(R, Nat)
  BY NatLessThanWellFounded
<1>2. \A k \in Nat : <<k, k + 1>> \in R
  BY DEF OpToRel
<1>3. ASSUME Without # {} PROVE FALSE
  <2>1. PICK n \in Without : \A k \in Without : ~(<<k, n>> \in R)
    <3> HIDE DEF R
    <3>1. Without \subseteq Nat
      OBVIOUS
    <3> QED BY <1>1, <1>3, <3>1, WFMin
  <2>2. n # 0
    <3>1. <<>> \in BoundedSeq(rows, 0)
      <4>1. <<>> \in [1 .. 0 -> rows] /\ 0 \in 0 .. 0
        OBVIOUS
      <4> QED BY <4>1 DEF BoundedSeq, SeqOf
    <3>2. <<>> \in Newest(rows, 0)
      BY <3>1 DEF Newest
    <3> QED BY <3>2
  <2>3. n - 1 \in Nat /\ (n - 1) + 1 = n
    BY <2>2
  <2>4. ~(n - 1 \in Without)
    BY <1>2, <2>1, <2>3
  <2>5. Newest(rows, n - 1) # {}
    BY <2>3, <2>4
  <2>6. Newest(rows, (n - 1) + 1) # {}
    BY <2>3, <2>5, OneMoreRow
  <2> QED BY <2>3, <2>6
<1> QED BY <1>3
\* No two pages of the same rows differ: where one had a row that is behind the other's,
\* it would have left that one out.
LEMMA NoneBehind ==
    ASSUME NEW rows \in SUBSET Id, \A i \in rows : created[i] \in Nat, NEW n \in Nat,
           NEW p \in Seq(Id), IsPage(p, rows, n), NEW q \in Seq(Id), IsPage(q, rows, n),
           NEW k \in DOMAIN p, k \in DOMAIN q, \A j \in 1 .. k - 1 : p[j] = q[j]
    PROVE  ~Less(Position(p[k]), Position(q[k]))
<1> SUFFICES ASSUME Less(Position(p[k]), Position(q[k])) PROVE FALSE
  OBVIOUS
<1>1. \A i \in rows : Position(i) \in Nat \X Id
  BY DEF Position
<1>2. p[k] \in rows /\ q[k] \in rows /\ k \in Nat /\ DOMAIN p \subseteq Nat \ {0}
  <2>1. DOMAIN p = 1 .. Len(p) /\ Len(p) \in Nat
    BY DEF IsPage
  <2>2. p[k] \in rows /\ q[k] \in rows
    BY DEF IsPage
  <2> QED BY <2>1, <2>2
<1>3. ~Less(Position(q[k]), Position(p[k])) /\ ~Less(Position(q[k]), Position(q[k]))
  BY <1>1, <1>2, LessIsTotal
<1>4. PICK i \in DOMAIN p : p[i] = q[k]
  BY <1>2, <1>3 DEF IsPage
<1>5. CASE i < k
  <2>1. i \in 1 .. k - 1
    BY <1>2, <1>5
  <2>2. q[i] = q[k] /\ i \in DOMAIN q
    <3>1. DOMAIN q = 1 .. Len(q) /\ Len(q) \in Nat
      BY DEF IsPage
    <3> QED BY <1>2, <1>4, <2>1, <3>1
  <2>3. Less(Position(q[k]), Position(q[i]))
    BY <1>5, <2>2 DEF IsPage
  <2> QED BY <1>3, <2>2, <2>3
<1>6. CASE i > k
  <2>1. Less(Position(p[i]), Position(p[k]))
    BY <1>2, <1>6 DEF IsPage
  <2> QED BY <1>3, <1>4, <2>1
<1>7. CASE i = k
  BY <1>3, <1>4, <1>7
<1> QED BY <1>2, <1>5, <1>6, <1>7

LEMMA NoneShorter ==
    ASSUME NEW rows \in SUBSET Id, \A i \in rows : created[i] \in Nat, NEW n \in Nat,
           NEW p \in Seq(Id), IsPage(p, rows, n), NEW q \in Seq(Id), IsPage(q, rows, n),
           \A k \in DOMAIN p \cap DOMAIN q : p[k] = q[k]
    PROVE  Len(p) >= Len(q)
<1> SUFFICES ASSUME Len(p) < Len(q) PROVE FALSE
  <2>1. Len(p) \in Nat /\ Len(q) \in Nat
    BY DEF IsPage
  <2> QED BY <2>1
<1> DEFINE k == Len(p) + 1
<1>1. /\ Len(p) \in Nat /\ Len(q) \in Nat /\ Len(q) <= n
      /\ DOMAIN p = 1 .. Len(p) /\ DOMAIN q = 1 .. Len(q)
  BY DEF IsPage
<1>2. k \in DOMAIN q /\ Len(p) # n /\ k \in Nat /\ \A i \in DOMAIN p : i < k /\ i \in DOMAIN q
  <2>1. \A a, b \in Nat : a < b /\ b <= n => a + 1 \in 1 .. b /\ a # n /\ a + 1 \in Nat
                 /\ \A i \in 1 .. a : i < a + 1 /\ i \in 1 .. b
    OBVIOUS
  <2> QED BY <1>1, <2>1, Zenon
<1>3. q[k] \in rows
  BY <1>2 DEF IsPage
<1>4. PICK i \in DOMAIN p : p[i] = q[k]
  BY <1>2, <1>3 DEF IsPage
<1>5. q[i] = q[k]
  BY <1>2, <1>4
<1>6. Less(Position(q[k]), Position(q[i]))
  BY <1>2 DEF IsPage
<1>7. Position(q[k]) \in Nat \X Id
  BY <1>3 DEF Position
<1> QED BY <1>5, <1>6, <1>7, LessIsTotal

LEMMA OnePage ==
    ASSUME NEW rows \in SUBSET Id, \A i \in rows : created[i] \in Nat, NEW n \in Nat,
           NEW p \in Newest(rows, n), NEW q \in Newest(rows, n)
    PROVE  p = q
<1> DEFINE Differ == {k \in DOMAIN p \cap DOMAIN q : p[k] # q[k]}
           R == OpToRel(<, Nat)
<1>1. /\ Len(p) \in Nat /\ Len(q) \in Nat /\ p \in Seq(Id) /\ q \in Seq(Id)
      /\ DOMAIN p = 1 .. Len(p) /\ DOMAIN q = 1 .. Len(q)
      /\ IsPage(p, rows, n) /\ IsPage(q, rows, n)
  BY NewestFacts DEF IsPage
<1>2. IsWellFoundedOn(R, Nat) /\ \A j, k \in Nat : j < k => <<j, k>> \in R
  BY NatLessThanWellFounded DEF OpToRel
<1>3. ASSUME Differ # {} PROVE FALSE
  <2>1. PICK k \in Differ : \A j \in Differ : ~(<<j, k>> \in R)
    <3> HIDE DEF R
    <3>1. Differ \subseteq Nat
      BY <1>1
    <3> HIDE DEF Differ
    <3>2. IsWellFoundedOn(R, Nat)
      BY <1>2
    <3> QED BY <1>3, <3>1, <3>2, WFMin, Zenon
  <2>2. k \in DOMAIN p /\ k \in DOMAIN q /\ p[k] # q[k] /\ k \in Nat
    BY <1>1
  <2>3. ASSUME NEW j \in 1 .. k - 1 PROVE p[j] = q[j]
    <3>1. j \in DOMAIN p \cap DOMAIN q /\ j < k /\ j \in Nat
      BY <1>1, <2>2
    <3>2. <<j, k>> \in R
      BY <1>2, <2>2, <3>1
    <3> QED BY <2>1, <3>1, <3>2
  <2>4. ~Less(Position(p[k]), Position(q[k]))
    BY <1>1, <2>2, <2>3, NoneBehind
  <2>5. ~Less(Position(q[k]), Position(p[k]))
    <3>1. \A j \in 1 .. k - 1 : q[j] = p[j]
      BY <2>3
    <3> QED BY <1>1, <2>2, <3>1, NoneBehind
  <2>6. p[k] \in rows /\ q[k] \in rows
    BY <1>1, <2>2 DEF IsPage
  <2>7. created[p[k]] \in Nat /\ created[q[k]] \in Nat /\ p[k] \in Nat /\ q[k] \in Nat
    BY <2>6, IdAssumption
  <2> QED BY <2>2, <2>4, <2>5, <2>7 DEF Less, Position
<1> HIDE DEF R
<1>4. \A k \in DOMAIN p \cap DOMAIN q : p[k] = q[k]
  BY <1>3
<1>5. Len(p) >= Len(q)
  BY <1>1, <1>4, NoneShorter
<1>6. Len(q) >= Len(p)
  <2>1. \A k \in DOMAIN q \cap DOMAIN p : q[k] = p[k]
    BY <1>4
  <2> QED BY <1>1, <2>1, NoneShorter
<1>7. Len(p) = Len(q)
  <2>1. \A a, b \in Nat : a >= b /\ b >= a => a = b
    OBVIOUS
  <2> QED BY <1>1, <1>5, <1>6, <2>1, Zenon
<1> QED BY <1>1, <1>4, <1>7
\* What a client can page through is always finitely many rows.
VisibleIsFinite == IsFiniteSet(visible)

LEMMA FinitelyManyVisible == WalkSpec => []VisibleIsFinite
<1>1. WalkInit => VisibleIsFinite
  BY FS_EmptySet DEF WalkInit, VisibleIsFinite
<1>2. VisibleIsFinite /\ [WalkNext]_walkVars => VisibleIsFinite'
  <2> SUFFICES ASSUME IsFiniteSet(visible), [WalkNext]_walkVars PROVE IsFiniteSet(visible')
    BY DEF VisibleIsFinite
  <2>1. CASE visible' = visible
    BY <2>1
  <2>2. CASE \E i \in Id : visible' = visible \cup {i}
    BY <2>2, FS_AddElement
  <2>3. CASE \E i \in Id : visible' = visible \ {i}
    BY <2>3, FS_RemoveElement
  <2> QED
    BY <2>1, <2>2, <2>3
       DEF WalkNext, walkVars, Tick, GetPage, BeginInsert, CommitInsert, AbortInsert, Delete
<1> QED BY <1>1, <1>2, PTL DEF WalkSpec

\* Of the rows behind a cursor, one sequence is the page of n.
EveryPageIsOne == \A n \in Nat : \E page : Newest({i \in visible : After(i)}, n) = {page}

\* ORDER BY created_at DESC, id DESC LIMIT n always has an answer, and only one: a client
\* who asks for a page gets it, and the order of (created_at, id) leaves nothing of it to
\* the database's choice.
THEOREM PagesAreDetermined == WalkSpec => []EveryPageIsOne
<1>1. WalkInv /\ VisibleIsFinite => EveryPageIsOne
  <2> SUFFICES ASSUME WalkInv, IsFiniteSet(visible), NEW n \in Nat
               PROVE  \E page : Newest({i \in visible : After(i)}, n) = {page}
    BY DEF VisibleIsFinite, EveryPageIsOne
  <2> DEFINE rows == {i \in visible : After(i)}
  <2>1. rows \in SUBSET Id /\ \A i \in rows : created[i] \in Nat
    BY DEF WalkInv, WalkTypeOK
  <2>2. IsFiniteSet(rows)
    BY FS_Subset
  <2> HIDE DEF rows
  <2>3. PICK page \in Newest(rows, n) : TRUE
    BY <2>1, <2>2, SomePage
  <2>4. \A other \in Newest(rows, n) : other = page
    BY <2>1, OnePage
  <2>5. Newest(rows, n) = {page}
    BY <2>3, <2>4
  <2> QED BY <2>5 DEF rows
<1> QED BY <1>1, FinitelyManyVisible, WalkSpecInv, PTL

-----------------------------------------------------------------------------
\* Pools stay typed while lists are walked and walks while pools change.
THEOREM BothTypesCorrect == BothSpec => []BothTypeOK
<1> DEFINE BothInv == IInv /\ WalkInv
<1>1. BothInit => BothInv
  BY InitIInv, WalkInitInv DEF BothInit
<1>2. BothInv /\ [BothNext]_<<vars, walkVars>> => BothInv'
  <2> SUFFICES ASSUME BothInv, [BothNext]_<<vars, walkVars>> PROVE BothInv'
    OBVIOUS
  <2>1. [Next]_vars /\ [WalkNext]_walkVars
    BY DEF BothNext
  <2> QED BY <2>1, NextIInv, WalkStepKeeps
<1>3. BothInv => BothTypeOK
  BY DEF IInv, WalkInv, BothTypeOK
<1> QED BY <1>1, <1>2, <1>3, PTL DEF BothSpec

=============================================================================

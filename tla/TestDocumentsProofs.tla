------------------------- MODULE TestDocumentsProofs -------------------------
(***************************************************************************)
(* Theorems about TestDocuments, for every set of editors and contents and *)
(* any number of versions.                                                 *)
(***************************************************************************)
EXTENDS TestDocuments, TLAPS

USE KeepAssumption, NoDocAssumption, BoundAssumption

(***************************************************************************)
(* The strengthening.  A document being assembled is either already out of *)
(* date, and says so by its version, or right in every part read so far;   *)
(* and the request that holds the row's lock still holds the version it    *)
(* was granted against.                                                    *)
(***************************************************************************)
Fresh(d, parts) ==
    /\ d \in Document
    /\ d.version <= doc.version
    /\ d.version = doc.version =>
         /\ d.config = doc.config
         /\ "plans" \in parts => d.plans = doc.plans
         /\ "rules" \in parts => d.rules = doc.rules

ReadsAreFresh ==
    \A e \in Editor :
        /\ stage[e] = "row_read" => Fresh(copy[e], {})
        /\ stage[e] = "plans_read" => Fresh(copy[e], {"plans"})
        /\ view[e] # NoDoc => Fresh(view[e], {"plans", "rules"})

OneWriter ==
    \A e, f \in Editor : stage[e] \in Writing /\ stage[f] \in Writing => e = f

GrantStands ==
    \A e \in Editor :
        /\ stage[e] \in {"submitted", "updated"} => view[e] # NoDoc
        /\ stage[e] = "updated" => view[e].version = doc.version

IInv ==
    /\ TypeOK
    /\ VersionNumbersHistory
    /\ ReadsAreFresh
    /\ OneWriter
    /\ GrantStands

-----------------------------------------------------------------------------
\* A first document, nobody holding it.
LEMMA InitIInv == Init => IInv
<1> SUFFICES ASSUME Init PROVE IInv
  OBVIOUS
<1>1. doc \in Document /\ doc.version = 1
  BY DEF Init, Document
<1>2. TypeOK
  <2>1. NoChange \in Patch
    BY DEF NoChange, Patch
  <2>2. audit \in Seq(Entry) /\ log \in Seq(Document)
    BY <1>1 DEF Init
  <2>3. QED
    BY <1>1, <2>1, <2>2 DEF Init, TypeOK, Stage
<1>3. VersionNumbersHistory
  BY <1>1 DEF Init, VersionNumbersHistory
<1>4. QED
  BY <1>2, <1>3 DEF Init, IInv, ReadsAreFresh, OneWriter, GrantStands, Writing

\* Steps that commit nothing: the stored document stands still, so only what
\* the stepping editor holds has to be looked at.
LEMMA ReadStepKeepsIInv ==
  ASSUME IInv, NEW e \in Editor, ReadRow(e) \/ ReadPlans(e) \/ ReadRules(e)
  PROVE  IInv'
<1>1. doc \in Document
  BY DEF IInv, TypeOK
<1>2. CASE ReadRow(e)
  <2>1. Fresh(doc, {})
    BY <1>1 DEF Fresh, Document
  <2>2. TypeOK'
    BY <1>1, <1>2 DEF IInv, TypeOK, ReadRow, stored, Stage
  <2>3. ReadsAreFresh'
    BY <1>2, <2>1 DEF IInv, TypeOK, ReadRow, stored, ReadsAreFresh, Fresh
  <2>4. QED
    BY <1>2, <2>2, <2>3 DEF IInv, TypeOK, ReadRow, stored, VersionNumbersHistory,
                            OneWriter, GrantStands, Writing
<1>3. CASE ReadPlans(e)
  <2> DEFINE new == [copy[e] EXCEPT !.plans = doc.plans]
  <2>1. Fresh(copy[e], {})
    BY <1>3 DEF ReadPlans, IInv, ReadsAreFresh
  <2>2. new \in Document /\ Fresh(new, {"plans"})
    BY <1>1, <2>1 DEF Fresh, Document
  <2>3. copy' = [copy EXCEPT ![e] = new]
    BY <1>3 DEF ReadPlans
  <2> HIDE DEF new
  <2>4. TypeOK'
    BY <1>3, <2>2, <2>3 DEF IInv, TypeOK, ReadPlans, stored, Stage
  <2>5. ReadsAreFresh'
    <3>1. /\ doc' = doc /\ view' = view /\ stage' = [stage EXCEPT ![e] = "plans_read"]
          /\ ReadsAreFresh /\ \A d, parts : Fresh(d, parts)' <=> Fresh(d, parts)
      BY <1>3 DEF ReadPlans, stored, IInv, Fresh
    <3>2. \A f \in Editor \ {e} : stage'[f] = stage[f] /\ copy'[f] = copy[f]
      BY <2>3, <3>1 DEF IInv, TypeOK
    <3>3. stage'[e] = "plans_read" /\ copy'[e] = new
      BY <2>3, <3>1 DEF IInv, TypeOK
    <3> QED BY <2>2, <3>1, <3>2, <3>3 DEF ReadsAreFresh
  <2>6. QED
    BY <1>3, <2>4, <2>5 DEF IInv, TypeOK, ReadPlans, stored, VersionNumbersHistory,
                            OneWriter, GrantStands, Writing
<1>4. CASE ReadRules(e)
  <2> DEFINE new == [copy[e] EXCEPT !.rules = doc.rules]
  <2>1. Fresh(copy[e], {"plans"})
    BY <1>4 DEF ReadRules, IInv, ReadsAreFresh
  <2>2. new \in Document /\ Fresh(new, {"plans", "rules"})
    BY <1>1, <2>1 DEF Fresh, Document
  <2>3. view' = [view EXCEPT ![e] = new]
    BY <1>4 DEF ReadRules
  <2> HIDE DEF new
  <2>4. TypeOK'
    BY <1>4, <2>2, <2>3 DEF IInv, TypeOK, ReadRules, stored, Stage
  <2>5. ReadsAreFresh'
    BY <1>4, <2>2, <2>3 DEF IInv, TypeOK, ReadRules, stored, ReadsAreFresh, Fresh
  <2>6. QED
    BY <1>4, <2>2, <2>3, <2>4, <2>5
       DEF IInv, TypeOK, ReadRules, stored, VersionNumbersHistory, OneWriter,
           GrantStands, Writing
<1>5. QED
  BY <1>2, <1>3, <1>4

\* The steps by which a PATCH or a DELETE arrives, is refused or takes the row's
\* lock commit nothing.
LEMMA RequestStepKeepsIInv ==
  ASSUME IInv, NEW e \in Editor,
         \/ Submit(e) \/ UpdateRow(e) \/ Conflict(e)
         \/ BeginDelete(e) \/ ArchiveRow(e) \/ AlreadyArchived(e) \/ Abort(e)
  PROVE  IInv'
<1>1. /\ UNCHANGED <<doc, log, basis, archived, audit, view>>
      /\ \E s \in Stage \ {"row_read", "plans_read"} : stage' = [stage EXCEPT ![e] = s]
      /\ copy' = copy \/ copy' = [copy EXCEPT ![e] = NoDoc]
  BY DEF Submit, UpdateRow, Conflict, BeginDelete, ArchiveRow, AlreadyArchived, Abort,
         stored, Stage, Writing
<1>2. body' \in [Editor -> Patch]
  BY DEF Submit, UpdateRow, Conflict, BeginDelete, ArchiveRow, AlreadyArchived, Abort,
         IInv, TypeOK, Patch, NoChange
<1>3. TypeOK'
  BY <1>1, <1>2 DEF IInv, TypeOK
<1>4. VersionNumbersHistory' /\ ReadsAreFresh'
  BY <1>1 DEF IInv, TypeOK, VersionNumbersHistory, ReadsAreFresh, Fresh
<1>5. OneWriter'
  BY DEF Submit, UpdateRow, Conflict, BeginDelete, ArchiveRow, AlreadyArchived, Abort,
         IInv, TypeOK, OneWriter, Unlocked, Writing
<1>6. GrantStands'
  BY DEF Submit, UpdateRow, Conflict, BeginDelete, ArchiveRow, AlreadyArchived, Abort,
         IInv, TypeOK, GrantStands, stored
<1>7. QED
  BY <1>3, <1>4, <1>5, <1>6 DEF IInv

\* Archiving moves neither version nor parts of the document.
LEMMA CommitArchiveKeepsIInv ==
  ASSUME IInv, NEW e \in Editor, CommitArchive(e)
  PROVE  IInv'
<1>1. [action |-> "test.deleted", version |-> doc.version] \in Entry
  BY DEF IInv, TypeOK, Document, Entry
<1>2. TypeOK'
  BY <1>1 DEF IInv, TypeOK, CommitArchive, Stage
<1>3. QED
  BY <1>2 DEF IInv, TypeOK, CommitArchive, VersionNumbersHistory, ReadsAreFresh, Fresh,
              OneWriter, GrantStands, Writing

\* The document of update_document and the replacements after it is a document,
\* and the next version.
LEMMA PatchedIsNext ==
  ASSUME IInv, NEW e \in Editor
  PROVE  Patched(e) \in Document /\ Patched(e).version = doc.version + 1
<1>1. doc \in Document /\ body[e] \in Patch
  BY DEF IInv, TypeOK
<1>2. /\ Replaced(body[e].config, doc.config) \in Content
      /\ Replaced(body[e].plans, doc.plans) \in Content
      /\ Replaced(body[e].rules, doc.rules) \in Content
  BY <1>1 DEF Replaced, Patch, Document
<1>3. QED
  BY <1>1, <1>2 DEF Patched, Document

\* Committing an edit extends the history by the document its author's version
\* was followed by.
LEMMA CommitUpdateKeepsIInv ==
  ASSUME IInv, NEW e \in Editor, CommitUpdate(e)
  PROVE  IInv'
<1> DEFINE new == Patched(e)
<1>1. new \in Document /\ new.version = doc.version + 1
  BY PatchedIsNext
<1>2. /\ doc' = new /\ log' = Append(log, new)
      /\ view' = [view EXCEPT ![e] = new] \/ view' = view
      /\ stage' = [stage EXCEPT ![e] = "idle"]
      /\ basis' = view[e]
      /\ UNCHANGED <<archived, copy>>
  BY DEF CommitUpdate
<1> HIDE DEF new
<1>3. [action |-> "test.updated", version |-> doc.version + 1] \in Entry
  BY DEF IInv, TypeOK, Document, Entry
<1>4. body' \in [Editor -> Patch]
  BY DEF CommitUpdate, IInv, TypeOK, Patch, NoChange
<1>5. audit' \in Seq(Entry)
  BY <1>3 DEF CommitUpdate, IInv, TypeOK
<1>6. TypeOK'
  <2>1. log' \in Seq(Document)
    BY <1>1, <1>2 DEF IInv, TypeOK
  <2>2. view' \in [Editor -> Document \cup {NoDoc}]
    BY <1>1, <1>2 DEF IInv, TypeOK
  <2>3. QED
    BY <1>1, <1>2, <1>4, <1>5, <2>1, <2>2 DEF IInv, TypeOK, Stage
<1>7. VersionNumbersHistory'
  <2>1. Len(log) \in Nat /\ Len(log) > 0
    BY DEF IInv, TypeOK, VersionNumbersHistory
  <2>2. Len(log) \in 1 .. Len(log) /\ doc.version = Len(log)
    BY <2>1 DEF IInv, VersionNumbersHistory
  <2>3. QED
    BY <1>1, <1>2, <2>1, <2>2 DEF IInv, TypeOK, VersionNumbersHistory
<1>8. ReadsAreFresh'
  <2>1. doc.version \in Nat
    BY DEF IInv, TypeOK, Document
  <2>2. QED
    BY <1>1, <1>2, <2>1 DEF IInv, TypeOK, ReadsAreFresh, Fresh, Document
<1>9. OneWriter' /\ GrantStands'
  BY <1>1, <1>2 DEF IInv, TypeOK, OneWriter, GrantStands, CommitUpdate, Writing
<1>10. QED
  BY <1>6, <1>7, <1>8, <1>9 DEF IInv

\* Every step keeps the invariant.
LEMMA NextKeepsIInv == IInv /\ [Next]_vars => IInv'
<1> SUFFICES ASSUME IInv, [Next]_vars PROVE IInv'
  OBVIOUS
<1>1. CASE UNCHANGED vars
  BY <1>1 DEF vars, stored, IInv, TypeOK, VersionNumbersHistory, ReadsAreFresh, Fresh,
              OneWriter, GrantStands
<1>2. CASE Next
  BY <1>2, ReadStepKeepsIInv, RequestStepKeepsIInv, CommitArchiveKeepsIInv,
     CommitUpdateKeepsIInv DEF Next
<1>3. QED
  BY <1>1, <1>2

\* What ReadsAreFresh says of a document in hand under the current version.
LEMMA WholeIfCurrent == IInv => CurrentVersionIsWhole
<1> SUFFICES ASSUME IInv, NEW e \in Editor, view[e] # NoDoc, view[e].version = doc.version
             PROVE  view[e] = doc
  BY DEF CurrentVersionIsWhole
<1>1. Fresh(view[e], {"plans", "rules"}) /\ doc \in Document
  BY DEF IInv, ReadsAreFresh, TypeOK
<1>2. /\ view[e] \in Document
      /\ view[e].config = doc.config /\ view[e].plans = doc.plans /\ view[e].rules = doc.rules
  BY <1>1 DEF Fresh
<1> QED BY <1>1, <1>2 DEF Document

\* The inductive invariant holds of every reachable state.
LEMMA SpecIInv == Spec => []IInv
  BY InitIInv, NextKeepsIInv, PTL DEF Spec

-----------------------------------------------------------------------------
(***************************************************************************)
(* The audit log.  Whoever is archiving found the test not archived yet,   *)
(* and holds the row's lock, so it still is not.                           *)
(***************************************************************************)
ArchivesOnce == \A e \in Editor : stage[e] = "archiving" => ~archived

Told(action) == {i \in DOMAIN audit : audit[i].action = action}

AuditInv ==
    /\ ArchivesOnce
    /\ archived <=> Told("test.deleted") # {}
    /\ \A i, j \in Told("test.deleted") : i = j
    /\ {audit[i].version : i \in Told("test.updated")} = 2 .. Len(log)
    /\ \A i, j \in Told("test.updated") : i < j => audit[i].version < audit[j].version

\* One more element at the end of a sequence.
LEMMA AppendFacts ==
  ASSUME NEW S, NEW seq \in Seq(S), NEW x \in S
  PROVE  /\ Len(seq) \in Nat /\ DOMAIN seq = 1 .. Len(seq)
         /\ Len(Append(seq, x)) = Len(seq) + 1
         /\ DOMAIN Append(seq, x) = 1 .. Len(seq) + 1
         /\ \A i \in 1 .. Len(seq) : Append(seq, x)[i] = seq[i]
         /\ Append(seq, x)[Len(seq) + 1] = x
  OBVIOUS

LEMMA InitAuditInv == Init => AuditInv
<1> SUFFICES ASSUME Init PROVE AuditInv
  OBVIOUS
<1>1. Told("test.deleted") = {} /\ Told("test.updated") = {}
  BY DEF Init, Told
<1>2. Len(log) = 1
  BY DEF Init
<1>3. 2 .. Len(log) = {}
  BY <1>2
<1>4. {audit[i].version : i \in Told("test.updated")} = {}
  BY <1>1
<1>5. ArchivesOnce /\ archived = FALSE
  BY DEF Init, ArchivesOnce
<1> QED BY <1>1, <1>3, <1>4, <1>5 DEF AuditInv

\* The update's record tells of the version after the last.
LEMMA CommitUpdateKeepsAudit ==
  ASSUME IInv, AuditInv, NEW e \in Editor, CommitUpdate(e)
  PROVE  AuditInv'
<1> DEFINE n == Len(audit)
           entry == [action |-> "test.updated", version |-> doc.version + 1]
<1>1. doc.version = Len(log) /\ Len(log) \in Nat /\ Len(log) > 0
  <2>1. Len(log) \in Nat /\ Len(log) > 0
    BY DEF IInv, TypeOK, VersionNumbersHistory
  <2>2. Len(log) \in 1 .. Len(log)
    BY <2>1
  <2> QED BY <2>1, <2>2 DEF IInv, VersionNumbersHistory
<1>2. entry \in Entry /\ audit \in Seq(Entry) /\ audit' = Append(audit, entry)
  BY <1>1 DEF IInv, TypeOK, Entry, CommitUpdate
<1>3. /\ n \in Nat /\ DOMAIN audit = 1 .. n /\ DOMAIN audit' = 1 .. n + 1
      /\ \A i \in 1 .. n : audit'[i] = audit[i]
      /\ audit'[n + 1] = entry
  BY <1>2, AppendFacts
<1>4. /\ Told("test.deleted")' = Told("test.deleted")
      /\ Told("test.updated")' = Told("test.updated") \cup {n + 1}
      /\ Told("test.updated") \subseteq 1 .. n
  BY <1>3 DEF Told
<1>5. Len(log') = Len(log) + 1
  <2>1. log \in Seq(Document) /\ Patched(e) \in Document
    BY PatchedIsNext DEF IInv, TypeOK
  <2> QED BY <2>1, AppendFacts DEF CommitUpdate
<1>6. audit'[n + 1].version = Len(log) + 1
      /\ \A i \in Told("test.updated") : audit'[i].version = audit[i].version
  BY <1>1, <1>3, <1>4
<1>7. \A i \in Told("test.updated") : audit[i].version \in 2 .. Len(log)
  BY DEF AuditInv
<1>8. {audit'[i].version : i \in Told("test.updated")'} = 2 .. Len(log')
  <2>1. {audit'[i].version : i \in Told("test.updated")'} = (2 .. Len(log)) \cup {Len(log) + 1}
    BY <1>4, <1>6 DEF AuditInv
  <2>2. (2 .. Len(log)) \cup {Len(log) + 1} = 2 .. Len(log')
    BY <1>1, <1>5
  <2> QED BY <2>1, <2>2
<1>9. ASSUME NEW i \in Told("test.updated")', NEW j \in Told("test.updated")', i < j
      PROVE  audit'[i].version < audit'[j].version
  <2>1. i \in Told("test.updated") /\ (j \in Told("test.updated") \/ j = n + 1)
    BY <1>3, <1>4, <1>9
  <2>2. CASE j \in Told("test.updated")
    BY <1>6, <1>9, <2>1, <2>2 DEF AuditInv
  <2>3. CASE j = n + 1
    BY <1>1, <1>6, <1>7, <2>1, <2>3
  <2> QED BY <2>1, <2>2, <2>3
<1>10. ArchivesOnce' /\ archived' = archived
  BY DEF IInv, TypeOK, AuditInv, ArchivesOnce, CommitUpdate
<1> QED BY <1>4, <1>8, <1>9, <1>10 DEF AuditInv

\* The archiving's record is the first of its kind.
LEMMA CommitArchiveKeepsAudit ==
  ASSUME IInv, AuditInv, NEW e \in Editor, CommitArchive(e)
  PROVE  AuditInv'
<1> DEFINE n == Len(audit)
           entry == [action |-> "test.deleted", version |-> doc.version]
<1>1. /\ entry \in Entry /\ audit \in Seq(Entry) /\ audit' = Append(audit, entry)
      /\ archived' = TRUE /\ log' = log
  BY DEF IInv, TypeOK, Document, Entry, CommitArchive
<1>2. /\ n \in Nat /\ DOMAIN audit = 1 .. n /\ DOMAIN audit' = 1 .. n + 1
      /\ \A i \in 1 .. n : audit'[i] = audit[i]
      /\ audit'[n + 1] = entry
  BY <1>1, AppendFacts
<1>3. Told("test.deleted") = {}
  BY DEF AuditInv, ArchivesOnce, CommitArchive
<1>4. Told("test.deleted")' = {n + 1} /\ Told("test.updated")' = Told("test.updated")
  BY <1>2, <1>3 DEF Told
<1>5. \A i \in Told("test.updated") : audit'[i].version = audit[i].version
  BY <1>2 DEF Told
<1>6. {audit'[i].version : i \in Told("test.updated")'} = 2 .. Len(log')
  <2>1. {audit[i].version : i \in Told("test.updated")} = 2 .. Len(log) /\ log' = log
    BY <1>1 DEF AuditInv
  <2>2. {audit'[i].version : i \in Told("test.updated")'}
          = {audit[i].version : i \in Told("test.updated")}
    BY <1>4, <1>5
  <2> QED BY <2>1, <2>2
\* Nobody else holds the row's lock.
<1>7. ArchivesOnce'
  BY DEF IInv, TypeOK, OneWriter, Writing, ArchivesOnce, CommitArchive
<1> QED BY <1>1, <1>4, <1>5, <1>6, <1>7 DEF AuditInv

LEMMA SpecAuditInv == Spec => []AuditInv
<1>1. IInv /\ AuditInv /\ [Next]_vars => AuditInv'
  <2> SUFFICES ASSUME IInv, AuditInv, [Next]_vars PROVE AuditInv'
    OBVIOUS
  <2>1. ASSUME UNCHANGED <<archived, audit, log>>, ArchivesOnce' PROVE AuditInv'
    BY <2>1 DEF AuditInv, Told
  <2>2. ASSUME NEW e \in Editor,
               \/ ReadRow(e) \/ ReadPlans(e) \/ ReadRules(e) \/ Submit(e) \/ UpdateRow(e)
               \/ Conflict(e) \/ BeginDelete(e) \/ ArchiveRow(e) \/ AlreadyArchived(e) \/ Abort(e)
        PROVE  UNCHANGED <<archived, audit, log>> /\ ArchivesOnce'
    BY <2>2 DEF ReadRow, ReadPlans, ReadRules, Submit, UpdateRow, Conflict, BeginDelete, ArchiveRow,
                AlreadyArchived, Abort, stored, IInv, TypeOK, AuditInv, ArchivesOnce
  <2>3. CASE UNCHANGED vars
    BY <2>1, <2>3 DEF vars, stored, AuditInv, ArchivesOnce
  <2> QED BY <2>1, <2>2, <2>3, CommitUpdateKeepsAudit, CommitArchiveKeepsAudit DEF Next
<1> QED BY InitAuditInv, <1>1, SpecIInv, PTL DEF Spec

-----------------------------------------------------------------------------
\* Rows, versions and request state keep their types.
THEOREM TypeCorrect == Spec => []TypeOK
<1>1. IInv => TypeOK
  BY DEF IInv
<1>2. QED
  BY <1>1, SpecIInv, PTL

\* The version counts the edits, and the history has one document per version.
THEOREM VersionsNumberHistory == Spec => []VersionNumbersHistory
<1>1. IInv => VersionNumbersHistory
  BY DEF IInv
<1>2. QED
  BY <1>1, SpecIInv, PTL

\* Every version and the archiving have one audit row each, written in the
\* transaction that made them, so a race for the archiving writes no second.
THEOREM AuditTells == Spec => []AuditTellsHistory
<1>1. AuditInv => AuditTellsHistory
  BY DEF AuditInv, Told, AuditTellsHistory
<1>2. QED
  BY <1>1, SpecAuditInv, PTL

\* A document read across commits under READ COMMITTED is whole, or its version
\* is out of date (`require' reads the row before the parts).
THEOREM CurrentVersionsAreWhole == Spec => []CurrentVersionIsWhole
  BY WholeIfCurrent, SpecIInv, PTL

\* The three tables under the version guard implement one atomic document: every
\* accepted edit replaced exactly the document its author had in hand.
THEOREM EditsImplementAtomicDocument == Spec => EditsAreAtomic
<1>1. Init => Atomic!Init
  BY DEF Init, Atomic!Init, Document
<1>2. ASSUME IInv, [Next]_vars PROVE [Atomic!Next]_<<doc, basis>>
  <2>1. ASSUME NEW e \in Editor, CommitUpdate(e) PROVE Atomic!Edit
    <3>1. Patched(e) \in Document /\ Patched(e).version = doc.version + 1
      BY <1>2, PatchedIsNext
    <3>2. view[e] # NoDoc /\ view[e].version = doc.version
      BY <1>2, <2>1 DEF CommitUpdate, IInv, GrantStands
    <3>3. view[e] = doc
      BY <1>2, <3>2, WholeIfCurrent DEF CurrentVersionIsWhole
    <3>4. QED
      BY <2>1, <3>1, <3>3 DEF CommitUpdate, Atomic!Edit
  <2>2. ASSUME NEW e \in Editor,
               \/ ReadRow(e) \/ ReadPlans(e) \/ ReadRules(e) \/ Submit(e) \/ UpdateRow(e)
               \/ Conflict(e) \/ BeginDelete(e) \/ ArchiveRow(e) \/ AlreadyArchived(e)
               \/ CommitArchive(e) \/ Abort(e)
        PROVE  UNCHANGED <<doc, basis>>
    BY <2>2 DEF ReadRow, ReadPlans, ReadRules, Submit, UpdateRow, Conflict, BeginDelete,
                ArchiveRow, AlreadyArchived, CommitArchive, Abort, stored
  <2>3. CASE UNCHANGED vars
    BY <2>3 DEF vars, stored
  <2>4. QED
    BY <1>2, <2>1, <2>2, <2>3 DEF Next, Atomic!Next
<1>3. QED
  BY <1>1, <1>2, SpecIInv, PTL DEF Spec, EditsAreAtomic, Atomic!Spec

=============================================================================

------------------------- MODULE ScriptPinningProofs -------------------------
(***************************************************************************)
(* Theorems about pinning, for any number of concurrent pins, refs,        *)
(* commits and paths.                                                      *)
(*                                                                         *)
(* The uniqueness of rows is not inductive by itself: a request between    *)
(* its INSERT and its commit is about to add a row, and only the key it    *)
(* holds keeps others from adding the same one (KeysAreHeld).  What a row  *)
(* describes rests on what its request fetched (CandidatesAreSound).       *)
(***************************************************************************)
EXTENDS ScriptPinning, TLAPS

\* A request past its Git work holds a plan of the commit it resolved.
CandidatesAreSound ==
    \A r \in Request :
        /\ stage[r] = "resolved" => sha[r] \in Commit
        /\ stage[r] \in {"fetched", "absent", "inserted"} =>
               sha[r] \in Commit /\ found[r] = Key(r) /\ Key(r) \in Plans

\* An uncommitted row's key belongs to its request alone.
KeysAreHeld ==
    \A r \in Request : stage[r] = "inserted" =>
        /\ Matching(Key(r)) = {}
        /\ \A s \in Request \ {r} : stage[s] = "inserted" => Key(s) # Key(r)

IInv == TypeOK /\ CandidatesAreSound /\ KeysAreHeld /\ OneRowPerPlan
        /\ RowDescribesItsCommit /\ ClientsAgreeOnRow /\ AuditTellsPins

-----------------------------------------------------------------------------
\* The empty registry has every property (migration 0002 creates no rows).
LEMMA InitIInv == Init => IInv
<1> SUFFICES ASSUME Init PROVE IInv
    OBVIOUS
<1>1. TypeOK
    BY DEF Init, TypeOK, Stage, Answered, Asked
<1>2. CandidatesAreSound /\ KeysAreHeld
    BY DEF Init, CandidatesAreSound, KeysAreHeld
<1>3. OneRowPerPlan /\ RowDescribesItsCommit /\ ClientsAgreeOnRow
    BY DEF Init, OneRowPerPlan, RowDescribesItsCommit, ClientsAgreeOnRow
<1>4. AuditTellsPins
    BY DEF Init, AuditTellsPins
<1> QED BY <1>1, <1>2, <1>3, <1>4 DEF IInv

\* Reading, resolving, fetching and every failure leave the tables alone: the
\* part of the invariant that is about them, and about requests other than r,
\* stands.
LEMMA GitStepKeepsIInv ==
    ASSUME IInv, NEW r \in Request,
           ReadRepo(r) \/ ResolveRef(r) \/ FetchPlan(r) \/ RefuseCandidate(r)
    PROVE  IInv'
<1>1. TypeOK' /\ CandidatesAreSound'
    <2>1. CASE ReadRepo(r)
        BY <2>1 DEF IInv, TypeOK, CandidatesAreSound, Key, ReadRepo, Stage, Answered, Asked,
                    host, stored
    <2>2. CASE ResolveRef(r)
        <3>1. head[ask[r].ref] \in Commit
            BY <2>2 DEF IInv, TypeOK, Asked, ResolveRef
        <3> QED BY <2>2, <3>1 DEF IInv, TypeOK, CandidatesAreSound, Key, ResolveRef, Stage,
                                  Answered, host, stored
    <2>3. CASE FetchPlan(r)
        <3>1. sha[r] \in Commit /\ Key(r) \in Plans /\ Key(r) \in Commit \X Path
            BY <2>3, PlansAssumption DEF IInv, CandidatesAreSound, FetchPlan, Fetched, Key
        <3>2. /\ found' = [found EXCEPT ![r] = Key(r)]
              /\ stage' = [stage EXCEPT ![r] = "fetched"]
              /\ UNCHANGED <<host, stored, ask, sha, told>>
            BY <2>3 DEF FetchPlan, Fetched, Key
        <3>3. TypeOK'
            BY <3>1, <3>2 DEF IInv, TypeOK, Stage, Answered, host, stored
        <3>4. \A s \in Request : Key(s)' = Key(s)
            BY <3>2 DEF Key
        <3>5. CandidatesAreSound'
            BY <3>1, <3>2, <3>4 DEF IInv, TypeOK, CandidatesAreSound
        <3> QED BY <3>3, <3>5
    <2>4. CASE RefuseCandidate(r)
        BY <2>4 DEF IInv, TypeOK, CandidatesAreSound, Key, RefuseCandidate, Stage, Answered,
                    host, stored, private
    <2> QED BY <2>1, <2>2, <2>3, <2>4
<1>2. /\ UNCHANGED <<rows, audit, told>>
      /\ stage'[r] # "inserted"
      /\ \A s \in Request \ {r} :
            stage'[s] = stage[s] /\ ask'[s] = ask[s] /\ sha'[s] = sha[s]
    BY DEF IInv, TypeOK, ReadRepo, ResolveRef, FetchPlan, RefuseCandidate, stored, private
<1>3. \A key : Matching(key)' = Matching(key)
    BY <1>2 DEF Matching
<1>4. KeysAreHeld'
    <2>1. \A s \in Request \ {r} : Key(s)' = Key(s)
        BY <1>2 DEF Key
    <2>2. \A s \in Request : stage'[s] = "inserted" => s \in Request \ {r}
        BY <1>2
    <2>3. \A s \in Request : stage'[s] = "inserted" => Matching(Key(s))' = {}
        BY <1>2, <1>3, <2>1, <2>2 DEF IInv, KeysAreHeld, Matching
    <2>4. \A s \in Request, t \in Request :
              s # t /\ stage'[s] = "inserted" /\ stage'[t] = "inserted" => Key(t)' # Key(s)'
        BY <1>2, <2>1, <2>2 DEF IInv, KeysAreHeld
    <2> QED BY <2>3, <2>4 DEF KeysAreHeld
<1>5. (OneRowPerPlan /\ RowDescribesItsCommit /\ ClientsAgreeOnRow /\ AuditTellsPins)'
    BY <1>2, <1>3 DEF IInv, OneRowPerPlan, RowDescribesItsCommit, ClientsAgreeOnRow, AuditTellsPins
<1> QED BY <1>1, <1>4, <1>5 DEF IInv

\* A version that is found is handed out as it is.
LEMMA FindVersionKeepsIInv ==
    ASSUME IInv, NEW r \in Request, FindVersion(r)
    PROVE  IInv'
<1>1. PICK i \in Matching(Key(r)) : told' = [told EXCEPT ![Key(r)] = @ \cup {i}]
    BY DEF FindVersion
<1>2. i \in Nat
    BY <1>1 DEF Matching, IInv, TypeOK
<1>3. Key(r) \in Commit \X Path
    BY PlansAssumption DEF IInv, CandidatesAreSound, FindVersion
<1>4. UNCHANGED <<host, stored, private>>
    BY DEF FindVersion
<1>5. TypeOK'
    BY <1>1, <1>2, <1>3, <1>4
    DEF IInv, TypeOK, FindVersion, Stage, Answered, host, stored, private
<1>6. CandidatesAreSound' /\ KeysAreHeld'
    BY <1>4 DEF IInv, TypeOK, CandidatesAreSound, KeysAreHeld, Key, Matching, FindVersion,
                host, stored, private
<1>7. (OneRowPerPlan /\ RowDescribesItsCommit /\ AuditTellsPins)'
    BY <1>4 DEF IInv, OneRowPerPlan, RowDescribesItsCommit, AuditTellsPins, stored
<1>8. ClientsAgreeOnRow'
    <2>1. SUFFICES ASSUME NEW key \in Commit \X Path, NEW j \in told'[key], NEW k \in told'[key]
                   PROVE  j = k /\ j \in Matching(key)
        BY <1>4 DEF ClientsAgreeOnRow, Matching, stored
    <2>2. CASE key # Key(r)
        BY <1>1, <1>3, <2>1, <2>2 DEF IInv, TypeOK, ClientsAgreeOnRow
    <2>3. CASE key = Key(r)
        <3>1. \A n \in told[key] : n \in Matching(key)
            BY DEF IInv, ClientsAgreeOnRow
        <3>2. j \in Matching(key) /\ k \in Matching(key)
            BY <1>1, <1>3, <2>1, <2>3, <3>1 DEF IInv, TypeOK
        <3>3. j = k
            BY <3>2 DEF Matching, IInv, OneRowPerPlan
        <3> QED BY <3>2, <3>3
    <2> QED BY <2>2, <2>3
<1> QED BY <1>5, <1>6, <1>7, <1>8 DEF IInv

\* Looking, inserting and failing in the second transaction commit nothing.
LEMMA UncommittedStepKeepsIInv ==
    ASSUME IInv, NEW r \in Request,
           MissVersion(r) \/ InsertVersion(r) \/ InsertDuplicate(r) \/ Abort(r)
    PROVE  IInv'
<1>1. UNCHANGED <<host, stored, private, told>>
    BY DEF MissVersion, InsertVersion, InsertDuplicate, Abort
<1>2. TypeOK' /\ CandidatesAreSound'
    BY <1>1 DEF IInv, TypeOK, CandidatesAreSound, Key, MissVersion, InsertVersion,
                InsertDuplicate, Abort, Stage, Answered, host, stored, private
<1>3. KeysAreHeld'
    <2>1. CASE InsertVersion(r)
        BY <1>1, <2>1 DEF IInv, TypeOK, KeysAreHeld, Key, Matching, Unclaimed, InsertVersion,
                          stored, private
    <2>2. CASE MissVersion(r) \/ InsertDuplicate(r) \/ Abort(r)
        BY <1>1, <2>2 DEF IInv, TypeOK, KeysAreHeld, Key, Matching, MissVersion,
                          InsertDuplicate, Abort, stored, private
    <2> QED BY <2>1, <2>2
<1>4. (OneRowPerPlan /\ RowDescribesItsCommit /\ ClientsAgreeOnRow /\ AuditTellsPins)'
    BY <1>1 DEF IInv, OneRowPerPlan, RowDescribesItsCommit, ClientsAgreeOnRow, AuditTellsPins,
                Matching, stored
<1> QED BY <1>2, <1>3, <1>4 DEF IInv

\* The commit adds the one row its request holds the key of.
LEMMA CommitPinKeepsIInv ==
    ASSUME IInv, NEW r \in Request, CommitPin(r)
    PROVE  IInv'
<1> DEFINE new == [sha |-> sha[r], path |-> ask[r].path, content |-> found[r]]
           n == Len(rows) + 1
<1>1. /\ rows' = Append(rows, new)
      /\ audit' = Append(audit, n)
      /\ told' = [told EXCEPT ![Key(r)] = @ \cup {n}]
      /\ stage' = [stage EXCEPT ![r] = "pinned"]
      /\ UNCHANGED <<host, private>>
    BY DEF CommitPin
<1>2. /\ sha[r] \in Commit /\ found[r] = Key(r) /\ Key(r) \in Plans
      /\ Key(r) \in Commit \X Path /\ Matching(Key(r)) = {}
    BY PlansAssumption DEF IInv, CandidatesAreSound, KeysAreHeld, CommitPin
<1>3. new \in Row
    BY <1>2 DEF IInv, TypeOK, Row, Asked
<1>4. TypeOK'
    BY <1>1, <1>2, <1>3 DEF IInv, TypeOK, Stage, Answered, host, private
<1>5. CandidatesAreSound'
    BY <1>1 DEF IInv, TypeOK, CandidatesAreSound, Key, private
<1>6. /\ DOMAIN rows' = 1 .. n /\ rows'[n] = new
      /\ DOMAIN rows = 1 .. Len(rows) /\ Len(rows) \in Nat
      /\ \A i \in 1 .. Len(rows) : rows'[i] = rows[i]
    BY <1>1, <1>3 DEF IInv, TypeOK
<1>7. \A key : Matching(key)' = IF key = Key(r) THEN {n} ELSE Matching(key)
    <2>1. <<new.sha, new.path>> = Key(r)
        BY DEF Key
    <2> QED BY <1>2, <1>6, <2>1 DEF Matching
<1>8. KeysAreHeld'
    <2> SUFFICES ASSUME NEW s \in Request, stage'[s] = "inserted"
                 PROVE  /\ Matching(Key(s))' = {}
                        /\ \A t \in Request \ {s} : stage'[t] = "inserted" => Key(t)' # Key(s)'
        BY DEF KeysAreHeld
    <2>1. s # r /\ stage[s] = "inserted" /\ stage[r] = "inserted"
        BY <1>1 DEF IInv, TypeOK, CommitPin
    <2>2. Key(s)' = Key(s) /\ Key(s) # Key(r) /\ Matching(Key(s)) = {}
        BY <1>1, <2>1 DEF IInv, KeysAreHeld, Key, private
    <2>3. Matching(Key(s))' = {}
        BY <1>7, <2>2
    <2>4. ASSUME NEW t \in Request \ {s}, stage'[t] = "inserted" PROVE Key(t)' # Key(s)'
        BY <1>1, <2>1, <2>4 DEF IInv, TypeOK, KeysAreHeld, Key, private
    <2> QED BY <2>3, <2>4
<1>9. OneRowPerPlan'
    <2> SUFFICES ASSUME NEW i \in 1 .. n, NEW j \in 1 .. n,
                        rows'[i].sha = rows'[j].sha, rows'[i].path = rows'[j].path
                 PROVE  i = j
        BY <1>6 DEF OneRowPerPlan
    <2>1. \A k \in 1 .. Len(rows) : <<rows[k].sha, rows[k].path>> # <<sha[r], ask[r].path>>
        BY <1>2, <1>6 DEF Matching, Key
    <2>2. CASE i = n /\ j # n
        BY <1>6, <2>1, <2>2
    <2>3. CASE i # n /\ j = n
        BY <1>6, <2>1, <2>3
    <2>4. CASE i # n /\ j # n
        BY <1>6, <2>4 DEF IInv, OneRowPerPlan
    <2> QED BY <2>2, <2>3, <2>4
<1>10. RowDescribesItsCommit'
    BY <1>2, <1>6 DEF IInv, RowDescribesItsCommit, Key
<1>11. ClientsAgreeOnRow'
    <2> SUFFICES ASSUME NEW key \in Commit \X Path, NEW i \in told'[key], NEW j \in told'[key]
                 PROVE  i = j /\ i \in Matching(key)'
        BY DEF ClientsAgreeOnRow, Matching
    <2>1. CASE key = Key(r)
        <3>1. told[key] = {}
            BY <1>2, <2>1 DEF IInv, TypeOK, ClientsAgreeOnRow
        <3> QED BY <1>1, <1>2, <1>7, <2>1, <3>1 DEF IInv, TypeOK
    <2>2. CASE key # Key(r)
        BY <1>1, <1>2, <1>7, <2>2 DEF IInv, TypeOK, ClientsAgreeOnRow
    <2> QED BY <2>1, <2>2
<1>12. AuditTellsPins'
    <2>1. audit = [i \in 1 .. Len(rows) |-> i]
        BY <1>6 DEF IInv, AuditTellsPins
    <2>2. Len(audit) = Len(rows)
        BY <1>6, <2>1 DEF IInv, TypeOK
    <2>3. audit' = [i \in 1 .. n |-> i]
        BY <1>1, <1>6, <2>1, <2>2 DEF IInv, TypeOK
    <2> QED BY <1>6, <2>3 DEF AuditTellsPins
<1> QED BY <1>4, <1>5, <1>8, <1>9, <1>10, <1>11, <1>12 DEF IInv

\* Edits of the repository and pushes to its host touch nothing that was pinned.
LEMMA HostStepKeepsIInv ==
    ASSUME IInv, EditRepo \/ Push
    PROVE  IInv'
<1>1. UNCHANGED <<stored, stage, private, told>>
    BY DEF EditRepo, Push
<1>2. TypeOK'
    BY <1>1 DEF IInv, TypeOK, EditRepo, Push, stored, private
<1>3. (CandidatesAreSound /\ KeysAreHeld)'
    BY <1>1 DEF IInv, CandidatesAreSound, KeysAreHeld, Key, Matching, stored, private
<1>4. (OneRowPerPlan /\ RowDescribesItsCommit /\ ClientsAgreeOnRow /\ AuditTellsPins)'
    BY <1>1 DEF IInv, OneRowPerPlan, RowDescribesItsCommit, ClientsAgreeOnRow, AuditTellsPins,
                Matching, stored
<1> QED BY <1>2, <1>3, <1>4 DEF IInv

\* A step that changes no variable keeps every property.
LEMMA StutterKeepsIInv ==
    ASSUME IInv, UNCHANGED vars
    PROVE  IInv'
BY DEF IInv, TypeOK, CandidatesAreSound, KeysAreHeld, OneRowPerPlan, RowDescribesItsCommit,
       ClientsAgreeOnRow, AuditTellsPins, Key, Matching, vars, host, stored, private

\* IInv holds throughout every run of the pinning endpoint.
THEOREM SpecIInv == Spec => []IInv
<1>1. IInv /\ [Next]_vars => IInv'
    BY GitStepKeepsIInv, FindVersionKeepsIInv, UncommittedStepKeepsIInv, CommitPinKeepsIInv,
       HostStepKeepsIInv, StutterKeepsIInv
    DEF Next, Pin
<1> QED BY InitIInv, <1>1, PTL DEF Spec

-----------------------------------------------------------------------------
\* Every reachable state of the pinning endpoint is well typed.
THEOREM TypeCorrect == Spec => []TypeOK
<1>1. IInv => TypeOK
    BY DEF IInv
<1> QED BY SpecIInv, <1>1, PTL

\* However many pins race, a commit's plan never gets a second row.
THEOREM PlansHaveOneRow == Spec => []OneRowPerPlan
<1>1. IInv => OneRowPerPlan
    BY DEF IInv
<1> QED BY SpecIInv, <1>1, PTL

\* Whatever moves during the Git work, a row describes its own commit's plan.
THEOREM RowsDescribeTheirCommits == Spec => []RowDescribesItsCommit
<1>1. IInv => RowDescribesItsCommit
    BY DEF IInv
<1> QED BY SpecIInv, <1>1, PTL

\* All clients given a version of a plan were given the same row.
THEOREM ClientsAgree == Spec => []ClientsAgreeOnRow
<1>1. IInv => ClientsAgreeOnRow
    BY DEF IInv
<1> QED BY SpecIInv, <1>1, PTL

\* The audit log names every pinned version once, in order.
THEOREM PinsAreAudited == Spec => []AuditTellsPins
<1>1. IInv => AuditTellsPins
    BY DEF IInv
<1> QED BY SpecIInv, <1>1, PTL

\* A plan at a commit has one row and one audit record, whoever pinned it meanwhile.
THEOREM PlansPinnedOnce == Spec => []PlansArePinnedOnce
<1>1. IInv => PlansArePinnedOnce
    BY DEF IInv, PlansArePinnedOnce
<1> QED BY SpecIInv, <1>1, PTL

=============================================================================

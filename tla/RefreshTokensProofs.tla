------------------------ MODULE RefreshTokensProofs ------------------------
(***************************************************************************)
(* Theorems about RefreshTokens, for every set of users, browsers,         *)
(* concurrent requests, families and tokens.                               *)
(***************************************************************************)
EXTENDS RefreshTokens, TLAPS

(***************************************************************************)
(* The strengthening.  Besides ReadFamilyStands, what a request has written *)
(* and not committed must still be nobody else's when it commits: the row  *)
(* it inserts has a fresh id, the token it minted is in no history row and *)
(* in no other request's hands.                                            *)
(***************************************************************************)
InsertedRowIsNew ==
    \A r \in Request :
        stage[r] = "inserted" =>
            /\ target[r] \in Family /\ family[target[r]] = NoRow
            /\ row[r] \in FamilyRow /\ row[r].currentHash = minted[r]
            /\ row[r].expiresAt <= now + RefreshTtl

InsertsAreApart ==
    \A q, r \in Request :
        stage[q] = "inserted" /\ stage[r] = "inserted" /\ target[q] = target[r] => q = r

MintedIsUnused ==
    /\ \A r \in Request :
         stage[r] \in {"inserted", "rotated"} =>
             minted[r] \in Token /\ history[minted[r]] = NoFamily
    /\ \A q, r \in Request : minted[q] = minted[r] => q = r \/ minted[r] = NoToken

HistoryNamesFamilies ==
    \A t \in Token : history[t] # NoFamily => family[history[t]] # NoRow

ExpiryWithinTtl ==
    \A f \in Family : family[f] # NoRow => family[f].expiresAt <= loginAt[f] + RefreshTtl

IInv ==
    /\ TypeOK
    /\ LiveTokenOnRecord
    /\ ConsumedTokenStaysConsumed
    /\ LineageStaysInFamily
    /\ ReadFamilyStands
    /\ InsertedRowIsNew
    /\ InsertsAreApart
    /\ MintedIsUnused
    /\ ExpiryWithinTtl
    /\ HistoryNamesFamilies

-----------------------------------------------------------------------------
USE UserAssumption, ClockAssumption, SentinelAssumption, RowAssumption

\* The empty database satisfies the invariant.
LEMMA InitIInv == Init => IInv
  BY DEF Init, IInv, TypeOK, LiveTokenOnRecord, ConsumedTokenStaysConsumed,
         LineageStaysInFamily, ReadFamilyStands, InsertedRowIsNew, InsertsAreApart,
         MintedIsUnused, ExpiryWithinTtl, HistoryNamesFamilies, Stage, Answered, Refused, InTransaction, Writing

\* A step that only moves a request's stage to one where the invariant asks
\* nothing more of it keeps the invariant.
LEMMA StageOnly ==
  ASSUME IInv, NEW r \in Request, NEW s \in Stage \ {"found", "inserted", "rotated"},
         s = "granting" => stage[r] = "found",
         stage' = [stage EXCEPT ![r] = s],
         UNCHANGED <<now, jar, database, session>>
  PROVE  IInv'
  BY DEF IInv, TypeOK, LiveTokenOnRecord, ConsumedTokenStaysConsumed,
         LineageStaysInFamily, ReadFamilyStands, InsertedRowIsNew, InsertsAreApart,
         MintedIsUnused, ExpiryWithinTtl, HistoryNamesFamilies, database, session

\* Ending a request, whatever becomes of the cookie, keeps the invariant.
LEMMA ForgetKeepsIInv ==
  ASSUME IInv, NEW r \in Request, Forget(r), UNCHANGED <<now, database>>,
         jar' \in [Client -> Token \cup {NoToken, ForeignToken}]
  PROVE  IInv'
  BY DEF IInv, TypeOK, LiveTokenOnRecord, ConsumedTokenStaysConsumed,
         LineageStaysInFamily, ReadFamilyStands, InsertedRowIsNew, InsertsAreApart,
         MintedIsUnused, ExpiryWithinTtl, HistoryNamesFamilies, database, Forget, Stage

\* A request that has read nothing yet may learn its client, cookie and scope.
LEMMA ArrivalKeepsIInv ==
  ASSUME IInv, NEW r \in Request, NEW s \in {"received", "scoped"},
         stage' = [stage EXCEPT ![r] = s],
         client' \in [Request -> Client \cup {NoClient}],
         presented' \in [Request -> Token \cup {NoToken, ForeignToken}],
         \A q \in Request \ {r} : presented'[q] = presented[q],
         scope' \in [Request -> Org \cup {NoOrg}],
         UNCHANGED <<now, jar, database, target, row, minted>>
  PROVE  IInv'
<1>1. TypeOK'
  BY DEF IInv, TypeOK, database, Stage, InTransaction
<1>2. ReadFamilyStands'
  BY DEF IInv, TypeOK, ReadFamilyStands, database
<1>3. QED
  BY <1>1, <1>2 DEF IInv, TypeOK, LiveTokenOnRecord, ConsumedTokenStaysConsumed,
         LineageStaysInFamily, InsertedRowIsNew, InsertsAreApart,
         MintedIsUnused, ExpiryWithinTtl, HistoryNamesFamilies, database

\* A login's family has an identifier and a token nobody has used: the INSERTs of
\* services/refresh.py issue_family cannot disturb another family.
LEMMA IssueFamilyKeepsIInv ==
  ASSUME IInv, NEW r \in Request, NEW c \in Client, NEW u \in User, IssueFamily(r, c, u)
  PROVE  IInv'
<1>1. PICK f \in FreshFamilies, t \in FreshTokens :
        /\ target' = [target EXCEPT ![r] = f]
        /\ minted' = [minted EXCEPT ![r] = t]
        /\ row' = [row EXCEPT ![r] =
                      [user |-> u, org |-> OrgOf[u], currentHash |-> t,
                       revoked |-> FALSE, expiresAt |-> now + RefreshTtl]]
  BY DEF IssueFamily
<1> DEFINE new == [user |-> u, org |-> OrgOf[u], currentHash |-> t,
                   revoked |-> FALSE, expiresAt |-> now + RefreshTtl]
<1>2. /\ new \in FamilyRow /\ new.currentHash = t /\ new.expiresAt = now + RefreshTtl
  BY <1>1 DEF IInv, TypeOK, FamilyRow, FreshTokens
<1>3. TypeOK'
  BY <1>1, <1>2 DEF IInv, TypeOK, IssueFamily, database, FreshFamilies, FreshTokens,
                    Stage, InTransaction, Writing
<1>4. LiveTokenOnRecord' /\ ConsumedTokenStaysConsumed' /\ LineageStaysInFamily'
      /\ ExpiryWithinTtl' /\ HistoryNamesFamilies'
  BY DEF IInv, IssueFamily, database, LiveTokenOnRecord, ConsumedTokenStaysConsumed,
         LineageStaysInFamily, ExpiryWithinTtl, HistoryNamesFamilies
<1>5. ReadFamilyStands'
  BY <1>1 DEF IInv, TypeOK, IssueFamily, database, ReadFamilyStands
<1>6. InsertedRowIsNew' /\ InsertsAreApart'
  BY <1>1, <1>2 DEF IInv, TypeOK, IssueFamily, database, InsertedRowIsNew,
                    InsertsAreApart, FreshFamilies
<1>7. MintedIsUnused'
  BY <1>1 DEF IInv, TypeOK, IssueFamily, database, MintedIsUnused, FreshTokens
<1>8. QED
  BY <1>3, <1>4, <1>5, <1>6, <1>7 DEF IInv

\* The row a rotation reads under its organisation is the family its token is on
\* record for (find_by_hash through the history).
LEMMA FindRowKeepsIInv ==
  ASSUME IInv, NEW r \in Request, FindRow(r)
  PROVE  IInv'
<1>1. PICK f \in FindByHash(scope[r], presented[r]) :
        /\ target' = [target EXCEPT ![r] = f]
        /\ row' = [row EXCEPT ![r] = family[f]]
  BY DEF FindRow
<1>2. /\ f \in Family /\ family[f] # NoRow /\ family[f] \in FamilyRow
      /\ presented[r] = family[f].currentHash /\ presented[r] \in Token
      /\ history[presented[r]] = f
  BY <1>1 DEF FindByHash, Visible, IInv, TypeOK, LiveTokenOnRecord, FamilyRow
<1>3. TypeOK'
  BY <1>1, <1>2 DEF IInv, TypeOK, FindRow, database, Stage, InTransaction
<1>4. LiveTokenOnRecord' /\ ConsumedTokenStaysConsumed' /\ LineageStaysInFamily'
      /\ ExpiryWithinTtl' /\ HistoryNamesFamilies'
  BY DEF IInv, FindRow, database, LiveTokenOnRecord, ConsumedTokenStaysConsumed,
         LineageStaysInFamily, ExpiryWithinTtl, HistoryNamesFamilies
<1>5. ReadFamilyStands'
  BY <1>1, <1>2 DEF IInv, TypeOK, FindRow, database, ReadFamilyStands
<1>6. InsertedRowIsNew' /\ InsertsAreApart' /\ MintedIsUnused'
  BY <1>1 DEF IInv, TypeOK, FindRow, database, InsertedRowIsNew, InsertsAreApart,
              MintedIsUnused
<1>7. QED
  BY <1>3, <1>4, <1>5, <1>6 DEF IInv

\* The UPDATE that replaces a hash is uncommitted: it reserves a fresh token and
\* changes no committed row.
LEMMA ReplaceHashKeepsIInv ==
  ASSUME IInv, NEW r \in Request, ReplaceHash(r)
  PROVE  IInv'
<1>1. PICK t \in FreshTokens : minted' = [minted EXCEPT ![r] = t]
  BY DEF ReplaceHash
<1>2. TypeOK'
  BY <1>1 DEF IInv, TypeOK, ReplaceHash, database, FreshTokens, Stage, InTransaction, Writing
<1>3. LiveTokenOnRecord' /\ ConsumedTokenStaysConsumed' /\ LineageStaysInFamily'
      /\ ExpiryWithinTtl' /\ HistoryNamesFamilies'
  BY DEF IInv, ReplaceHash, database, LiveTokenOnRecord, ConsumedTokenStaysConsumed,
         LineageStaysInFamily, ExpiryWithinTtl, HistoryNamesFamilies
<1>4. ReadFamilyStands' /\ InsertedRowIsNew' /\ InsertsAreApart'
  BY <1>1 DEF IInv, TypeOK, ReplaceHash, database, ReadFamilyStands, InsertedRowIsNew,
              InsertsAreApart
<1>5. MintedIsUnused'
  BY <1>1 DEF IInv, TypeOK, ReplaceHash, database, MintedIsUnused, FreshTokens
<1>6. QED
  BY <1>2, <1>3, <1>4, <1>5 DEF IInv

\* The UPDATE of revoke_family_containing is uncommitted as well.
LEMMA RevokeFamilyKeepsIInv ==
  ASSUME IInv, NEW r \in Request, RevokeFamily(r)
  PROVE  IInv'
<1>1. FamilyOfToken(presented[r]) \in Family \cup {NoFamily}
  BY DEF FamilyOfToken, IInv, TypeOK
<1>2. TypeOK'
  BY <1>1 DEF IInv, TypeOK, RevokeFamily, database, Stage, InTransaction, Writing
<1>3. QED
  BY <1>2 DEF IInv, TypeOK, RevokeFamily, database, LiveTokenOnRecord,
              ConsumedTokenStaysConsumed, LineageStaysInFamily, ReadFamilyStands,
              InsertedRowIsNew, InsertsAreApart, MintedIsUnused, ExpiryWithinTtl, HistoryNamesFamilies

\* Committing a login adds a family with its one token on record.
LEMMA CommitLoginKeepsIInv ==
  ASSUME IInv, NEW r \in Request, CommitLogin(r)
  PROVE  IInv'
<1> DEFINE f == target[r]
           t == minted[r]
<1>1. /\ f \in Family /\ family[f] = NoRow /\ row[r] \in FamilyRow
      /\ row[r].currentHash = t /\ t \in Token /\ history[t] = NoFamily
      /\ row[r].expiresAt <= now + RefreshTtl
  BY DEF CommitLogin, IInv, InsertedRowIsNew, MintedIsUnused
<1>2. /\ family' = [family EXCEPT ![f] = row[r]]
      /\ history' = [history EXCEPT ![t] = f]
      /\ loginAt' = [loginAt EXCEPT ![f] = now]
      /\ stage' = [stage EXCEPT ![r] = "granted"]
      /\ UNCHANGED <<now, jar, exchanged, session>>
  BY DEF CommitLogin
<1> HIDE DEF f, t
<1>3. TypeOK'
  BY <1>1, <1>2 DEF IInv, TypeOK, session, Stage, Answered
<1>4. /\ LiveTokenOnRecord' /\ LineageStaysInFamily'
      /\ ExpiryWithinTtl' /\ HistoryNamesFamilies'
  BY <1>1, <1>2 DEF IInv, TypeOK, LiveTokenOnRecord, LineageStaysInFamily,
                    ExpiryWithinTtl, HistoryNamesFamilies, session, FamilyRow
<1>5. ConsumedTokenStaysConsumed'
  BY <1>1, <1>2 DEF IInv, TypeOK, ConsumedTokenStaysConsumed, LineageStaysInFamily
<1>6. ReadFamilyStands'
  BY <1>1, <1>2 DEF IInv, TypeOK, ReadFamilyStands, session
<1>7. InsertedRowIsNew' /\ InsertsAreApart' /\ MintedIsUnused'
  BY <1>1, <1>2 DEF IInv, TypeOK, InsertedRowIsNew, InsertsAreApart, MintedIsUnused,
                    session, CommitLogin, f, t
<1>8. QED
  BY <1>3, <1>4, <1>5, <1>6, <1>7 DEF IInv

\* Committing a rotation makes the new token live, puts it on record under the
\* family and leaves the old one there: replace_hash writes both in one
\* transaction.
LEMMA CommitRotationKeepsIInv ==
  ASSUME IInv, NEW r \in Request, CommitRotation(r)
  PROVE  IInv'
<1> DEFINE f == target[r]
           t == minted[r]
           old == presented[r]
<1>1. /\ f \in Family /\ family[f] # NoRow /\ family[f] \in FamilyRow
      /\ t \in Token /\ history[t] = NoFamily
      /\ old \in Token /\ history[old] = f
  BY DEF CommitRotation, IInv, TypeOK, ReadFamilyStands, MintedIsUnused
<1>2. /\ family' = [family EXCEPT ![f] = [family[f] EXCEPT !.currentHash = t]]
      /\ history' = [history EXCEPT ![t] = f]
      /\ exchanged' = exchanged \cup {<<old, t>>}
      /\ stage' = [stage EXCEPT ![r] = "granted"]
      /\ UNCHANGED <<now, jar, loginAt, session>>
  BY DEF CommitRotation
<1> DEFINE new == [family[f] EXCEPT !.currentHash = t]
<1>3. /\ new \in FamilyRow /\ new # NoRow /\ new.currentHash = t
      /\ new.expiresAt = family[f].expiresAt
  BY <1>1 DEF FamilyRow
<1> HIDE DEF f, t, old, new
<1>4. family' = [family EXCEPT ![f] = new]
  BY <1>2 DEF new
<1>5. TypeOK'
  BY <1>1, <1>2, <1>3, <1>4 DEF IInv, TypeOK, session, Stage, Answered
<1>6. LiveTokenOnRecord' /\ ExpiryWithinTtl' /\ HistoryNamesFamilies'
  BY <1>1, <1>2, <1>3, <1>4 DEF IInv, TypeOK, LiveTokenOnRecord, ExpiryWithinTtl,
                                  HistoryNamesFamilies, FamilyRow
<1>7. LineageStaysInFamily'
  BY <1>1, <1>2 DEF IInv, TypeOK, LineageStaysInFamily
<1>8. ConsumedTokenStaysConsumed'
  BY <1>1, <1>2, <1>3, <1>4 DEF IInv, TypeOK, ConsumedTokenStaysConsumed,
     LineageStaysInFamily, LiveTokenOnRecord
<1>9. ReadFamilyStands'
  BY <1>1, <1>2, <1>3, <1>4 DEF IInv, TypeOK, ReadFamilyStands, session
<1>10. InsertedRowIsNew' /\ InsertsAreApart' /\ MintedIsUnused'
  BY <1>1, <1>2, <1>4 DEF IInv, TypeOK, InsertedRowIsNew, InsertsAreApart,
                          MintedIsUnused, session, CommitRotation, f, t
<1>11. QED
  BY <1>5, <1>6, <1>7, <1>8, <1>9, <1>10 DEF IInv

\* Every step of the system keeps the invariant.
LEMMA NextKeepsIInv == IInv /\ [Next]_vars => IInv'
<1> SUFFICES ASSUME IInv, [Next]_vars PROVE IInv'
  OBVIOUS
<1>1. ASSUME NEW r \in Request, NEW c \in Client, PresentCookie(r, c) PROVE IInv'
  BY <1>1, ArrivalKeepsIInv DEF PresentCookie, IInv, TypeOK
<1>2. ASSUME NEW r \in Request, NEW c \in Client, NEW u \in User, IssueFamily(r, c, u)
      PROVE  IInv'
  BY <1>2, IssueFamilyKeepsIInv
<1>3. ASSUME NEW r \in Request, ServerStep(r) PROVE IInv'
  <2>1. CASE ResolveOrganization(r)
    <3>1. scope' \in [Request -> Org \cup {NoOrg}]
      <4>1. FamilyOfToken(presented[r]) \in Family
        BY <2>1 DEF ResolveOrganization, FamilyOfToken, IInv, TypeOK
      <4>2. family[FamilyOfToken(presented[r])] \in FamilyRow
        BY <2>1, <4>1 DEF ResolveOrganization, FamilyOfToken, IInv, TypeOK, HistoryNamesFamilies
      <4>3. family[FamilyOfToken(presented[r])].org \in Org
        BY <4>2 DEF FamilyRow
      <4>4. QED
        BY <2>1, <4>3 DEF ResolveOrganization, IInv, TypeOK
    <3>2. QED
      BY <2>1, <3>1, ArrivalKeepsIInv DEF ResolveOrganization, IInv, TypeOK
  <2>2. CASE RejectUnknown(r)
    BY <2>2, StageOnly DEF RejectUnknown, Stage, Answered, Refused
  <2>3. CASE FindRow(r)
    BY <2>3, FindRowKeepsIInv
  <2>4. CASE FindNoRow(r)
    BY <2>4, StageOnly DEF FindNoRow, Stage, InTransaction
  <2>5. CASE AcceptRow(r)
    BY <2>5, StageOnly DEF AcceptRow, Stage, InTransaction
  <2>6. CASE RejectRow(r)
    BY <2>6, StageOnly DEF RejectRow, RollBack, Stage, Answered, Refused
  <2>7. CASE RaiseReplay(r)
    BY <2>7, StageOnly DEF RaiseReplay, RollBack, Stage, Answered, Refused
  <2>8. CASE CommitLogin(r)
    BY <2>8, CommitLoginKeepsIInv
  <2>9. CASE CommitRotation(r)
    BY <2>9, CommitRotationKeepsIInv
  <2>10. QED
    BY <1>3, <2>1, <2>2, <2>3, <2>4, <2>5, <2>6, <2>7, <2>8, <2>9 DEF ServerStep
<1>4. ASSUME NEW r \in Request, LockingStep(r) PROVE IInv'
  BY <1>4, ReplaceHashKeepsIInv, RevokeFamilyKeepsIInv DEF LockingStep
<1>5. ASSUME NEW r \in Request, AbortTransaction(r) PROVE IInv'
  BY <1>5, StageOnly DEF AbortTransaction, RollBack, Stage, Answered, Refused
<1>6. ASSUME NEW r \in Request, DeliverGrant(r) PROVE IInv'
  <2>1. jar' \in [Client -> Token \cup {NoToken, ForeignToken}]
    BY <1>6 DEF DeliverGrant, IInv, TypeOK
  <2>2. QED
    BY <1>6, <2>1, ForgetKeepsIInv DEF DeliverGrant
<1>7. ASSUME NEW r \in Request, DeliverRefusal(r) \/ LoseResponse(r) PROVE IInv'
  BY <1>7, ForgetKeepsIInv DEF DeliverRefusal, LoseResponse, IInv, TypeOK
<1>8. ASSUME NEW c \in Client, Logout(c) PROVE IInv'
  BY <1>8 DEF Logout, IInv, TypeOK, LiveTokenOnRecord, ConsumedTokenStaysConsumed,
         LineageStaysInFamily, ReadFamilyStands, InsertedRowIsNew, InsertsAreApart,
         MintedIsUnused, ExpiryWithinTtl, HistoryNamesFamilies, database, session
<1>9. CASE Tick
  BY <1>9 DEF Tick, IInv, TypeOK, LiveTokenOnRecord, ConsumedTokenStaysConsumed,
         LineageStaysInFamily, ReadFamilyStands, InsertedRowIsNew, InsertsAreApart,
         MintedIsUnused, ExpiryWithinTtl, HistoryNamesFamilies, database, session, FamilyRow
<1>10. CASE UNCHANGED vars
  BY <1>10 DEF vars, IInv, TypeOK, LiveTokenOnRecord, ConsumedTokenStaysConsumed,
         LineageStaysInFamily, ReadFamilyStands, InsertedRowIsNew, InsertsAreApart,
         MintedIsUnused, ExpiryWithinTtl, HistoryNamesFamilies, database, session
<1>11. QED
  BY <1>1, <1>2, <1>3, <1>4, <1>5, <1>6, <1>7, <1>8, <1>9, <1>10 DEF Next

-----------------------------------------------------------------------------
\* The inductive invariant holds in every reachable state.
LEMMA SpecIInv == Spec => []IInv
<1>1. Init => IInv
  BY InitIInv
<1>2. IInv /\ [Next]_vars => IInv'
  BY NextKeepsIInv
<1>3. QED
  BY <1>1, <1>2, PTL DEF Spec

\* Rows, hashes and request state keep their types, at any interleaving of any
\* number of sign-ins and refreshes.
THEOREM TypeCorrect == Spec => []TypeOK
<1>1. IInv => TypeOK
  BY DEF IInv
<1>2. QED
  BY <1>1, SpecIInv, PTL

\* A live token is always on record under its own family, so a later replay of
\* it can be told from a token never issued (record_history beside replace_hash).
THEOREM LiveTokensAreOnRecord == Spec => []LiveTokenOnRecord
<1>1. IInv => LiveTokenOnRecord
  BY DEF IInv
<1>2. QED
  BY <1>1, SpecIInv, PTL

\* A token once exchanged never becomes live again, even though replace_hash
\* overwrites whatever another rotation committed meanwhile.
THEOREM ConsumedTokensStayConsumed == Spec => []ConsumedTokenStaysConsumed
<1>1. IInv => ConsumedTokenStaysConsumed
  BY DEF IInv
<1>2. QED
  BY <1>1, SpecIInv, PTL

\* A rotation answers with a token of the family that was presented.
THEOREM LineagesStayInFamily == Spec => []LineageStaysInFamily
<1>1. IInv => LineageStaysInFamily
  BY DEF IInv
<1>2. QED
  BY <1>1, SpecIInv, PTL

\* Whichever token of a session is presented, the record leads to that session.
THEOREM TokensKeepFamily == Spec => []TokensKeepTheirFamily
<1>1. IInv => TokensKeepTheirFamily
  BY DEF IInv, TokensKeepTheirFamily
<1>2. QED
  BY <1>1, SpecIInv, PTL

\* The family a rotation read without locking exists, owns the token and expires as
\* read when it writes; its hash and its revocation are not spoken of.
THEOREM ReadsStayTrue == Spec => []ReadFamilyStands
<1>1. IInv => ReadFamilyStands
  BY DEF IInv
<1>2. QED
  BY <1>1, SpecIInv, PTL

\* No rotation is accepted more than RefreshTtl after the session's login.
THEOREM SessionsEndOnSchedule == Spec => SessionEndsOnSchedule
<1> DEFINE OnTime == \A r \in Request :
                       stage[r] = "found" /\ stage'[r] = "granting"
                         => now < loginAt[target[r]] + RefreshTtl
<1>1. ASSUME IInv, [Next]_vars PROVE [OnTime]_vars
  <2>1. ASSUME NEW r \in Request, stage[r] = "found", stage'[r] = "granting"
        PROVE  AcceptRow(r)
    <3>0. stage \in [Request -> Stage]
      BY <1>1 DEF IInv, TypeOK
    <3>1. CASE UNCHANGED stage
      BY <2>1, <3>1
    <3>2. CASE \E q \in Request, c \in Client :
                 PresentCookie(q, c) \/ \E u \in User : IssueFamily(q, c, u)
      BY <2>1, <3>0, <3>2 DEF PresentCookie, IssueFamily
    <3>3. CASE \E q \in Request : ServerStep(q)
      BY <2>1, <3>0, <3>3
         DEF ServerStep, ResolveOrganization, RejectUnknown, FindRow, FindNoRow, AcceptRow,
             RejectRow, RaiseReplay, CommitLogin, CommitRotation, RollBack
    <3>4. CASE \E q \in Request : LockingStep(q) \/ AbortTransaction(q)
      BY <2>1, <3>0, <3>4 DEF LockingStep, ReplaceHash, RevokeFamily, AbortTransaction, RollBack
    <3>5. CASE \E q \in Request : DeliverGrant(q) \/ DeliverRefusal(q) \/ LoseResponse(q)
      BY <2>1, <3>0, <3>5 DEF DeliverGrant, DeliverRefusal, LoseResponse, Forget
    <3> QED
      BY <1>1, <3>1, <3>2, <3>3, <3>4, <3>5 DEF Next, Logout, Tick, vars
  <2>2. ASSUME NEW r \in Request, stage[r] = "found", AcceptRow(r)
        PROVE  now < loginAt[target[r]] + RefreshTtl
    <3>1. /\ target[r] \in Family /\ family[target[r]] # NoRow /\ row[r] \in FamilyRow
          /\ row[r].expiresAt = family[target[r]].expiresAt
          /\ family[target[r]].expiresAt <= loginAt[target[r]] + RefreshTtl
      BY <1>1, <2>2 DEF IInv, ReadFamilyStands, ExpiryWithinTtl
    <3>2. ~(row[r].expiresAt <= now)
      BY <2>2 DEF AcceptRow, Usable
    <3>3. now \in Nat /\ loginAt[target[r]] \in Nat /\ row[r].expiresAt \in Nat
      BY <1>1, <3>1 DEF IInv, TypeOK, FamilyRow
    <3>4. QED
      BY <3>1, <3>2, <3>3
  <2>3. QED
    BY <2>1, <2>2
<1>2. QED
  BY <1>1, SpecIInv, PTL DEF Spec, SessionEndsOnSchedule

-----------------------------------------------------------------------------
\* Cookies come from commits: a token in a browser's jar, in a request or in an
\* answer on its way is on record.
CookiesAreOnRecord ==
    /\ \A c \in Client : jar[c] \in Token => history[jar[c]] # NoFamily
    /\ \A r \in Request : presented[r] \in Token => history[presented[r]] # NoFamily
    /\ \A r \in Request : stage[r] = "granted" => history[minted[r]] # NoFamily
    /\ HandedOutTokenIsKnown

\* Two requests commit nothing into each other's records: once a token is on
\* record it stays there, so only the step that moves a cookie matters.
LEMMA NextKeepsCookies ==
  ASSUME IInv, CookiesAreOnRecord, [Next]_vars
  PROVE  CookiesAreOnRecord'
<1>1. CASE UNCHANGED vars
  BY <1>1 DEF CookiesAreOnRecord, HandedOutTokenIsKnown, vars, database, session
<1>2. ASSUME NEW r \in Request, NEW c \in Client, PresentCookie(r, c)
      PROVE  CookiesAreOnRecord'
  BY <1>2 DEF CookiesAreOnRecord, HandedOutTokenIsKnown, PresentCookie, IInv, TypeOK, database
<1>3. ASSUME NEW r \in Request, NEW c \in Client, NEW u \in User, IssueFamily(r, c, u)
      PROVE  CookiesAreOnRecord'
  BY <1>3 DEF CookiesAreOnRecord, HandedOutTokenIsKnown, IssueFamily, IInv, TypeOK, database
<1>4. ASSUME NEW r \in Request, ResolveOrganization(r) \/ RejectUnknown(r)
      PROVE  CookiesAreOnRecord'
  BY <1>4 DEF CookiesAreOnRecord, HandedOutTokenIsKnown, ResolveOrganization, RejectUnknown,
              FamilyOfToken, IInv, TypeOK, database, session
<1>5. ASSUME NEW r \in Request,
             FindRow(r) \/ FindNoRow(r) \/ AcceptRow(r) \/ RejectRow(r) \/ RaiseReplay(r)
               \/ RevokeFamily(r) \/ AbortTransaction(r)
      PROVE  CookiesAreOnRecord'
  BY <1>5 DEF CookiesAreOnRecord, HandedOutTokenIsKnown, FindRow, FindNoRow, AcceptRow,
              RejectRow, RaiseReplay, RevokeFamily, AbortTransaction, RollBack, IInv, TypeOK,
              database, session
<1>6. ASSUME NEW r \in Request, ReplaceHash(r)
      PROVE  CookiesAreOnRecord'
  BY <1>6 DEF CookiesAreOnRecord, HandedOutTokenIsKnown, ReplaceHash, IInv, TypeOK, database
<1>7. ASSUME NEW r \in Request, CommitLogin(r) \/ CommitRotation(r)
      PROVE  CookiesAreOnRecord'
  <2>1. /\ minted[r] \in Token /\ target[r] \in Family
        /\ history' = [history EXCEPT ![minted[r]] = target[r]]
        /\ stage' = [stage EXCEPT ![r] = "granted"]
        /\ UNCHANGED <<jar, session>>
    BY <1>7 DEF CommitLogin, CommitRotation, IInv, MintedIsUnused, InsertedRowIsNew,
                ReadFamilyStands
  <2>2. \A t \in Token : history[t] # NoFamily => history'[t] # NoFamily
    BY <2>1 DEF IInv, TypeOK
  <2>3. QED
    BY <2>1, <2>2 DEF CookiesAreOnRecord, HandedOutTokenIsKnown, IInv, TypeOK, session
<1>8. ASSUME NEW r \in Request, DeliverGrant(r) \/ DeliverRefusal(r) \/ LoseResponse(r)
      PROVE  CookiesAreOnRecord'
  BY <1>8 DEF CookiesAreOnRecord, HandedOutTokenIsKnown, DeliverGrant, DeliverRefusal,
              LoseResponse, Forget, Answered, Refused, IInv, TypeOK, database
<1>9. ASSUME NEW c \in Client, Logout(c)
      PROVE  CookiesAreOnRecord'
  BY <1>9 DEF CookiesAreOnRecord, HandedOutTokenIsKnown, Logout, IInv, TypeOK, database, session
<1>10. CASE Tick
  BY <1>10 DEF CookiesAreOnRecord, HandedOutTokenIsKnown, Tick, database, session
<1>11. QED
  BY <1>1, <1>2, <1>3, <1>4, <1>5, <1>6, <1>7, <1>8, <1>9, <1>10
     DEF Next, ServerStep, LockingStep

\* A browser that kept the cookie it was given is never told that its token is
\* unknown: the commit comes before the answer.
THEOREM HandedOutTokensAreKnown == Spec => []HandedOutTokenIsKnown
<1>1. Init => CookiesAreOnRecord
  BY DEF Init, CookiesAreOnRecord, HandedOutTokenIsKnown
<1>2. CookiesAreOnRecord => HandedOutTokenIsKnown
  BY DEF CookiesAreOnRecord
<1>3. QED
  BY <1>1, <1>2, NextKeepsCookies, SpecIInv, PTL DEF Spec

=============================================================================

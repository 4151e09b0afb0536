-------------------------- MODULE TargetPolicyProofs --------------------------
(***************************************************************************)
(* Theorems about Allowlist and TargetPolicy, for any lists, any networks  *)
(* and any number of requests and seeds; about Seed, for any number of its *)
(* runs at once; and about the specification the runs check of both.       *)
(***************************************************************************)
EXTENDS MCTargetPolicySeed, TLAPS

-----------------------------------------------------------------------------
(***************************************************************************)
(* The allowlist.                                                          *)
(***************************************************************************)
\* ip_network.overlaps: two networks with an address in common overlap, because
\* the greater of their lowest addresses is in both.
LEMMA CommonAddressOverlaps ==
    ASSUME NEW m \in Network, NEW n \in Network, NEW a \in Address,
           Contains(m, a), Contains(n, a)
    PROVE  Overlaps(m, n)
<1> DEFINE lm == Lowest(m)
           ln == Lowest(n)
<1>1. /\ m.number \in Nat /\ m.size \in Nat \ {0}
      /\ n.number \in Nat /\ n.size \in Nat \ {0}
  BY SizeAssumption DEF Network
<1>2. lm \in Int /\ ln \in Int /\ a.number \in Int
  BY <1>1 DEF Lowest, Address
<1>3. /\ m.family = n.family
      /\ lm <= a.number /\ a.number <= lm + m.size - 1
      /\ ln <= a.number /\ a.number <= ln + n.size - 1
  BY DEF Contains, Highest
<1> HIDE DEF lm, ln
<1>4. CASE lm <= ln
  <2>1. lm <= ln /\ ln <= lm + m.size - 1
    BY <1>1, <1>2, <1>3, <1>4
  <2>2. Contains(m, Bound(n, Lowest(n)))
    BY <2>1, <1>3 DEF Contains, Highest, Bound, lm, ln
  <2> QED BY <2>2 DEF Overlaps
<1>5. CASE ln <= lm
  <2>1. ln <= lm /\ lm <= ln + n.size - 1
    BY <1>1, <1>2, <1>3, <1>5
  <2>2. Contains(n, Bound(m, Lowest(m)))
    BY <2>1, <1>3 DEF Contains, Highest, Bound, lm, ln
  <2> QED BY <2>2 DEF Overlaps
<1> QED BY <1>2, <1>4, <1>5

\* validate_entries: a list it accepts keeps the blocked addresses blocked, whatever
\* its networks are and however their addresses are masked.
THEOREM AcceptedListsKeepBlocked ==
    ASSUME NEW list \in SUBSET Entry, ValidEntries(list)
    PROVE  KeepsBlocked(list)
<1> SUFFICES ASSUME NEW host \in Text,
                    IsAddress(host), BlockedAddress(AddressOf[host]),
                    NEW e \in list, EntryMatches(host, e)
             PROVE  e.kind = "suffix" /\ e.text # host
  BY DEF KeepsBlocked
<1>1. e \in Entry /\ ValidEntry(e)
  BY DEF ValidEntries
<1>2. AddressOf[host] \in Address
  BY AddressAssumption DEF IsAddress
<1>3. CASE e.kind = "network"
  <2>1. e.network \in Network /\ ValidNetwork(e.network)
    BY <1>1, <1>3 DEF Entry, ValidEntry
  <2>2. PICK b \in BlockedNetwork : Contains(b, AddressOf[host])
    BY DEF BlockedAddress
  <2>3. Overlaps(e.network, b)
    BY <1>2, <1>3, <2>1, <2>2, CommonAddressOverlaps, BlockedAssumption DEF EntryMatches
  <2> QED BY <2>1, <2>3 DEF ValidNetwork
<1>4. CASE e.kind \in {"host", "suffix"}
  <2>1. ValidText(e.text)
    BY <1>1, <1>4 DEF ValidEntry
  <2>2. e.text # host
    BY <2>1 DEF ValidText
  <2> QED BY <1>4, <2>2 DEF EntryMatches
<1> QED BY <1>1, <1>3, <1>4 DEF ValidEntry

-----------------------------------------------------------------------------
(***************************************************************************)
(* The numbering.                                                          *)
(***************************************************************************)
\* Consecutive versions are the numbers up to their count.
LEMMA VersionsAre ==
    ASSUME policies \in Seq(Policy), VersionsAreConsecutive
    PROVE  Versions = 1 .. Len(policies)
<1>1. DOMAIN policies = 1 .. Len(policies)
  OBVIOUS
<1> QED BY <1>1 DEF Versions, VersionsAreConsecutive

\* COALESCE(MAX(version), 0) + 1 is the first number that no row has.
LEMMA NextVersionIs ==
    ASSUME policies \in Seq(Policy), VersionsAreConsecutive
    PROVE  NextVersion = Len(policies) + 1
<1> DEFINE P(n) == /\ \A v \in Versions : v < n
                   /\ n = 1 \/ n - 1 \in Versions
<1>1. Len(policies) \in Nat
  OBVIOUS
<1>2. P(Len(policies) + 1)
  BY <1>1, VersionsAre
<1>3. \A n \in 1 .. Len(policies) + 1 : P(n) => n = Len(policies) + 1
  <2> SUFFICES ASSUME NEW n \in 1 .. Len(policies) + 1, P(n), n # Len(policies) + 1
               PROVE  FALSE
    OBVIOUS
  <2>1. n \in Versions
    BY <1>1, VersionsAre
  <2> QED BY <2>1
<1>4. NextVersion = CHOOSE n \in 1 .. Len(policies) + 1 : P(n)
  BY DEF NextVersion
<1> HIDE DEF P
<1>5. Len(policies) + 1 \in 1 .. Len(policies) + 1
  BY <1>1
<1> QED BY <1>2, <1>3, <1>4, <1>5

\* ORDER BY version DESC LIMIT 1 is the row committed last.
LEMMA CurrentPolicyIs ==
    ASSUME policies \in Seq(Policy), VersionsAreConsecutive, policies # <<>>
    PROVE  /\ Len(policies) \in DOMAIN policies
           /\ CurrentPolicy = policies[Len(policies)]
<1> DEFINE P(i) == \A v \in Versions : v <= policies[i].version
<1>1. /\ Len(policies) \in Nat \ {0}
      /\ DOMAIN policies = 1 .. Len(policies)
  OBVIOUS
<1>2. \A i \in DOMAIN policies : policies[i].version = i
  BY DEF VersionsAreConsecutive
<1>3. P(Len(policies)) /\ Len(policies) \in DOMAIN policies
  BY <1>1, <1>2, VersionsAre
<1>4. \A i \in DOMAIN policies : P(i) => i = Len(policies)
  <2> SUFFICES ASSUME NEW i \in DOMAIN policies, P(i)
               PROVE  i = Len(policies)
    OBVIOUS
  <2>1. Len(policies) <= i
    BY <1>1, <1>2, VersionsAre
  <2> QED BY <1>1, <2>1
<1>5. CurrentPolicy = policies[CHOOSE i \in DOMAIN policies : P(i)]
  BY DEF CurrentPolicy
<1> HIDE DEF P
<1> QED BY <1>3, <1>4, <1>5

-----------------------------------------------------------------------------
(***************************************************************************)
(* The inductive invariant: what a transaction holds fits the rows that    *)
(* are committed, whoever else commits first.                              *)
(***************************************************************************)
Open(r) == stage[r] \in {"numbered", "inserted"}

\* An open transaction's number is at most the next one, and its list is valid.
OpenFits(r) ==
    Open(r) => /\ number[r] \in 1 .. Len(policies) + 1
               /\ body[r] \in SUBSET Entry /\ ValidEntries(body[r])

\* A row that was let past the unique key has a number nobody else has.
InsertedIsFree(r) ==
    stage[r] = "inserted" =>
        /\ number[r] \notin 1 .. Len(policies)
        /\ NumberFree(r)

SeedOffersFirst(s) == Open(s) => number[s] = 1 /\ body[s] = DemoList

PoliciesValid == \A i \in DOMAIN policies : ValidEntries(policies[i].allowlist)

IInv ==
    /\ TypeOK
    /\ VersionsAreConsecutive
    /\ \A r \in Process : OpenFits(r) /\ InsertedIsFree(r)
    /\ \A s \in Seeding : SeedOffersFirst(s)
    /\ PoliciesValid
    /\ ShownPoliciesStand
    /\ AuditTellsVersions

LEMMA InitIInv == Init => IInv
<1> SUFFICES ASSUME Init PROVE IInv
  OBVIOUS
<1>1. TypeOK
  BY DEF Init, TypeOK, Policy, Stage, Unconfigured
<1>2. \A r \in Process : ~Open(r) /\ stage[r] # "inserted"
  BY DEF Init, Open
<1>3. VersionsAreConsecutive /\ PoliciesValid
  BY DEF Init, VersionsAreConsecutive, PoliciesValid
<1>4. ShownPoliciesStand
  BY DEF Init, ShownPoliciesStand, Unconfigured
<1>5. AuditTellsVersions
  BY DEF Init, AuditTellsVersions
<1> QED
  BY <1>1, <1>2, <1>3, <1>4, <1>5 DEF IInv, OpenFits, InsertedIsFree, SeedOffersFirst, Process

\* What a step that leaves the committed rows alone must show of the process it is a
\* step of.
LEMMA UnstoredStep ==
    ASSUME IInv, TypeOK', UNCHANGED stored, NEW p \in Process,
           \A q \in Process \ {p} : /\ stage'[q] = stage[q]
                                    /\ number'[q] = number[q] /\ body'[q] = body[q],
           OpenFits(p)', InsertedIsFree(p)', p \in Seeding => SeedOffersFirst(p)',
           ShownPoliciesStand'
    PROVE  IInv'
<1>1. /\ policies' = policies /\ audit' = audit
      /\ VersionsAreConsecutive' /\ PoliciesValid' /\ AuditTellsVersions'
  BY DEF stored, IInv, VersionsAreConsecutive, PoliciesValid, AuditTellsVersions
<1>2. \A r \in Process : OpenFits(r)'
  BY <1>1 DEF IInv, OpenFits, Open
<1>3. \A s \in Seeding : SeedOffersFirst(s)'
  BY DEF IInv, SeedOffersFirst, Open, Process
<1>4. \A r \in Process : InsertedIsFree(r)'
  <2> SUFFICES ASSUME NEW r \in Process \ {p}, stage'[r] = "inserted"
               PROVE  number'[r] \notin 1 .. Len(policies) /\ NumberFree(r)'
    BY <1>1 DEF InsertedIsFree
  <2>1. number[r] \notin 1 .. Len(policies) /\ NumberFree(r)
    BY DEF IInv, InsertedIsFree
  <2>2. stage'[p] = "inserted" => number'[p] # number'[r]
    BY DEF InsertedIsFree, NumberFree
  <2> QED BY <2>1, <2>2 DEF NumberFree
<1> QED BY <1>1, <1>2, <1>3, <1>4 DEF IInv

\* What a step that commits a row must show.
LEMMA CommitStep ==
    ASSUME IInv, NEW p \in Process, stage[p] = "inserted",
           NEW row \in Policy, row.version = number[p], row.allowlist = body[p],
           policies' = Append(policies, row),
           stage' = [stage EXCEPT ![p] = "idle"], UNCHANGED <<body, number>>,
           shown' \in [Request -> Policy],
           \A r \in Request : shown'[r] = shown[r] \/ shown'[r] = row,
           \/ row.by = "admin" /\ audit' = Append(audit, number[p])
           \/ row.by = "seed" /\ audit' = audit
    PROVE  IInv'
<1> DEFINE n == Len(policies)
<1>1. /\ policies \in Seq(Policy) /\ n \in Nat
      /\ audit \in Seq(Nat \ {0})
      /\ stage \in [Process -> Stage] /\ number \in [Process -> Nat]
  BY DEF IInv, TypeOK
<1>2. number[p] = n + 1
  BY <1>1 DEF IInv, OpenFits, InsertedIsFree, Open
<1>3. /\ policies' \in Seq(Policy) /\ Len(policies') = n + 1
      /\ DOMAIN policies' = 1 .. n + 1 /\ DOMAIN policies = 1 .. n
      /\ \A i \in 1 .. n : policies'[i] = policies[i]
      /\ policies'[n + 1] = row
  BY <1>1
<1>4. TypeOK'
  <2> number[p] \in Nat \ {0}
    BY <1>1, <1>2
  <2>1. audit' \in Seq(Nat \ {0})
    <3>1. Append(audit, number[p]) \in Seq(Nat \ {0})
      BY <1>1
    <3> QED BY <1>1, <3>1
  <2>2. stage' \in [Process -> Stage]
    BY <1>1 DEF Stage
  <2> QED BY <1>3, <2>1, <2>2 DEF IInv, TypeOK
<1>5. VersionsAreConsecutive'
  BY <1>1, <1>2, <1>3 DEF IInv, VersionsAreConsecutive
<1>6. ASSUME NEW r \in Process PROVE OpenFits(r)' /\ InsertedIsFree(r)'
  <2>1. CASE r = p
    BY <1>1, <2>1 DEF OpenFits, InsertedIsFree, Open
  <2>2. CASE r # p
    <3>1. stage'[r] = stage[r]
      BY <1>1, <2>2
    <3>2. stage[r] = "inserted" => FALSE
      <4> SUFFICES ASSUME stage[r] = "inserted" PROVE FALSE
        OBVIOUS
      <4>1. number[r] = n + 1
        BY <1>1 DEF IInv, OpenFits, InsertedIsFree, Open
      <4> QED BY <1>2, <2>2, <4>1 DEF IInv, InsertedIsFree, NumberFree
    <3>3. Open(r) => number[r] \in 1 .. n + 1 + 1 /\ body[r] \in SUBSET Entry /\ ValidEntries(body[r])
      BY <1>1 DEF IInv, OpenFits
    <3> QED BY <1>3, <3>1, <3>2, <3>3 DEF OpenFits, InsertedIsFree, Open
  <2> QED BY <2>1, <2>2
<1>7. \A s \in Seeding : SeedOffersFirst(s)'
  BY <1>1 DEF IInv, SeedOffersFirst, Open, Process
<1>8. PoliciesValid'
  <2>1. ValidEntries(row.allowlist)
    BY DEF IInv, OpenFits, Open
  <2> QED BY <1>1, <1>3, <2>1 DEF IInv, PoliciesValid
<1>9. ShownPoliciesStand'
  <2> SUFFICES ASSUME NEW r \in Request, shown'[r].version # 0
               PROVE  \E i \in DOMAIN policies' : policies'[i] = shown'[r]
    BY DEF ShownPoliciesStand
  <2>1. CASE shown'[r] = row
    <3>1. n + 1 \in DOMAIN policies' /\ policies'[n + 1] = shown'[r]
      BY <1>1, <1>3, <2>1
    <3> QED BY <3>1
  <2>2. CASE shown'[r] = shown[r]
    <3>1. PICK i \in DOMAIN policies : policies[i] = shown[r]
      BY <2>2 DEF IInv, ShownPoliciesStand
    <3> QED BY <1>1, <1>3, <2>2, <3>1
  <2> QED BY <2>1, <2>2
<1>10. AuditTellsVersions'
  <2>1. /\ \A i, j \in DOMAIN audit : i < j => audit[i] < audit[j]
        /\ {audit[i] : i \in DOMAIN audit} = {k \in 1 .. n : policies[k].by = "admin"}
    BY <1>3 DEF IInv, AuditTellsVersions
  <2>2. CASE row.by = "admin" /\ audit' = Append(audit, n + 1)
    <3>1. /\ DOMAIN audit = 1 .. Len(audit) /\ Len(audit) \in Nat
          /\ DOMAIN audit' = 1 .. Len(audit) + 1
          /\ \A i \in DOMAIN audit : audit'[i] = audit[i]
          /\ audit'[Len(audit) + 1] = n + 1
      BY <1>1, <2>2
    <3>2. \A i \in DOMAIN audit : audit[i] \in 1 .. n
      BY <2>1
    <3>3. \A i, j \in DOMAIN audit' : i < j => audit'[i] < audit'[j]
      BY <1>1, <2>1, <3>1, <3>2
    <3>4. {audit'[i] : i \in DOMAIN audit'} = {audit[i] : i \in DOMAIN audit} \cup {n + 1}
      BY <3>1
    <3>5. {k \in 1 .. n + 1 : policies'[k].by = "admin"}
            = {k \in 1 .. n : policies[k].by = "admin"} \cup {n + 1}
      BY <1>1, <1>3, <2>2
    <3> QED BY <1>3, <2>1, <3>3, <3>4, <3>5 DEF AuditTellsVersions
  <2>3. CASE row.by = "seed" /\ audit' = audit
    <3>1. {k \in 1 .. n + 1 : policies'[k].by = "admin"}
            = {k \in 1 .. n : policies[k].by = "admin"}
      BY <1>1, <1>3, <2>3
    <3> QED BY <1>3, <2>1, <2>3, <3>1 DEF AuditTellsVersions
  <2> QED BY <1>2, <2>2, <2>3
<1> QED BY <1>4, <1>5, <1>6, <1>7, <1>8, <1>9, <1>10 DEF IInv

LEMMA NextIInv == IInv /\ [Next]_vars => IInv'
<1> SUFFICES ASSUME IInv, [Next]_vars
             PROVE  IInv'
  OBVIOUS
<1>1. /\ policies \in Seq(Policy) /\ Len(policies) \in Nat
      /\ audit \in Seq(Nat \ {0})
      /\ stage \in [Process -> Stage] /\ body \in [Process -> SUBSET Entry]
      /\ number \in [Process -> Nat] /\ shown \in [Request -> Policy]
      /\ TypeOK /\ VersionsAreConsecutive /\ ShownPoliciesStand
  BY DEF IInv, TypeOK
<1>2. Versions = 1 .. Len(policies)
  BY <1>1, VersionsAre
<1>3. Request \subseteq Process /\ Seeding \subseteq Process
  BY DEF Process
<1>4. ASSUME NEW r \in Request, GetPolicy(r)
      PROVE  IInv'
  <2>1. CurrentPolicy \in Policy
    <3>1. CASE policies = <<>>
      BY <3>1 DEF CurrentPolicy, Unconfigured, Policy
    <3>2. CASE policies # <<>>
      BY <1>1, <3>2, CurrentPolicyIs
    <3> QED BY <3>1, <3>2
  <2>2. TypeOK'
    BY <1>1, <1>3, <1>4, <2>1 DEF GetPolicy, TypeOK, stored, Stage
  <2>3. ShownPoliciesStand'
    <3>1. ASSUME CurrentPolicy.version # 0
          PROVE  \E i \in DOMAIN policies : policies[i] = CurrentPolicy
      <4>1. policies # <<>>
        BY <3>1 DEF CurrentPolicy, Unconfigured
      <4> QED BY <1>1, <4>1, CurrentPolicyIs
    <3> QED BY <1>1, <1>4, <3>1 DEF GetPolicy, ShownPoliciesStand, stored
  <2>4. ~Open(r)'
    BY <1>1, <1>3, <1>4 DEF GetPolicy, Open
  <2>5. OpenFits(r)' /\ InsertedIsFree(r)'
    BY <2>4 DEF OpenFits, InsertedIsFree, Open
  <2>6. \A q \in Process \ {r} : /\ stage'[q] = stage[q]
                                 /\ number'[q] = number[q] /\ body'[q] = body[q]
    BY <1>1, <1>3, <1>4 DEF GetPolicy
  <2>7. UNCHANGED stored
    BY <1>4 DEF GetPolicy
  <2>8. r \notin Seeding
    BY RequestAssumption
  <2> QED BY <1>3, <2>2, <2>3, <2>5, <2>6, <2>7, <2>8, UnstoredStep
<1>5. ASSUME NEW p \in Process,
             \/ RefusePolicy(p) \/ InsertDuplicate(p) \/ InsertNothing(p) \/ Abort(p)
      PROVE  IInv'
  <2>1. /\ \E st \in {"refused", "duplicate", "idle"} : stage' = [stage EXCEPT ![p] = st]
        /\ UNCHANGED <<stored, body, number, shown>>
    BY <1>5 DEF RefusePolicy, InsertDuplicate, InsertNothing, Abort
  <2>2. TypeOK' /\ ShownPoliciesStand'
    BY <1>1, <2>1 DEF TypeOK, stored, Stage, ShownPoliciesStand
  <2>3. ~Open(p)' /\ stage'[p] # "inserted"
    BY <1>1, <2>1 DEF Open
  <2>4. \A q \in Process \ {p} : /\ stage'[q] = stage[q]
                                 /\ number'[q] = number[q] /\ body'[q] = body[q]
    BY <1>1, <2>1
  <2> QED
    BY <2>1, <2>2, <2>3, <2>4, UnstoredStep DEF OpenFits, InsertedIsFree, SeedOffersFirst
<1>6. ASSUME NEW p \in Process,
             NEW list \in SUBSET Entry, ValidEntries(list),
             NEW n \in 1 .. Len(policies) + 1, p \in Seeding => n = 1 /\ list = DemoList,
             body' = [body EXCEPT ![p] = list], number' = [number EXCEPT ![p] = n],
             stage' = [stage EXCEPT ![p] = "numbered"], UNCHANGED <<stored, shown>>
      PROVE  IInv'
  <2>1. /\ stage'[p] = "numbered" /\ body'[p] = list /\ number'[p] = n
        /\ \A q \in Process \ {p} : /\ stage'[q] = stage[q]
                                    /\ number'[q] = number[q] /\ body'[q] = body[q]
    BY <1>1, <1>6
  <2>2. policies' = policies
    BY <1>6 DEF stored
  <2>3. TypeOK' /\ ShownPoliciesStand'
    BY <1>1, <1>6 DEF TypeOK, stored, Stage, ShownPoliciesStand
  <2>4. OpenFits(p)' /\ InsertedIsFree(p)' /\ (p \in Seeding => SeedOffersFirst(p)')
    BY <1>6, <2>1, <2>2 DEF OpenFits, InsertedIsFree, SeedOffersFirst
  <2> QED BY <1>6, <2>1, <2>3, <2>4, UnstoredStep
<1>7. ASSUME NEW r \in Request, NumberPolicy(r)
      PROVE  IInv'
  <2>1. PICK list \in Offered : ValidEntries(list) /\ body' = [body EXCEPT ![r] = list]
    BY <1>7 DEF NumberPolicy
  <2>2. NextVersion \in 1 .. Len(policies) + 1
    BY <1>1, NextVersionIs
  <2>3. list \in SUBSET Entry /\ r \notin Seeding /\ r \in Process
    BY OfferedAssumption, RequestAssumption, <1>3
  <2> QED BY <1>6, <1>7, <2>1, <2>2, <2>3 DEF NumberPolicy
<1>8. ASSUME NEW s \in Seeding, OfferFirst(s)
      PROVE  IInv'
  <2>1. 1 \in 1 .. Len(policies) + 1
    BY <1>1
  <2> QED BY <1>3, <1>6, <1>8, <2>1, DemoAssumption DEF OfferFirst
<1>9. ASSUME NEW p \in Process, InsertPolicy(p)
      PROVE  IInv'
  <2>1. /\ stage'[p] = "inserted"
        /\ UNCHANGED <<stored, body, number, shown>>
        /\ \A q \in Process \ {p} : /\ stage'[q] = stage[q]
                                    /\ number'[q] = number[q] /\ body'[q] = body[q]
    BY <1>1, <1>9 DEF InsertPolicy
  <2>2. TypeOK' /\ ShownPoliciesStand'
    BY <1>1, <1>9 DEF InsertPolicy, TypeOK, stored, Stage, ShownPoliciesStand
  <2>3. OpenFits(p)'
    BY <1>9, <2>1 DEF InsertPolicy, IInv, OpenFits, Open, stored
  <2>4. InsertedIsFree(p)'
    BY <1>2, <1>9, <2>1 DEF InsertPolicy, InsertedIsFree, NumberFree, stored
  <2>5. p \in Seeding => SeedOffersFirst(p)'
    BY <1>9, <2>1 DEF InsertPolicy, IInv, SeedOffersFirst, Open
  <2> QED BY <2>1, <2>2, <2>3, <2>4, <2>5, UnstoredStep
<1>10. ASSUME NEW r \in Request, CommitPolicy(r)
       PROVE  IInv'
  <2>1. body[r] \in SUBSET Entry /\ number[r] \in Nat
    BY <1>1, <1>3
  <2>2. Put(r) \in Policy /\ Put(r).version = number[r] /\ Put(r).allowlist = body[r]
        /\ Put(r).by = "admin"
    BY <2>1 DEF Put, Policy
  <2>3. shown' \in [Request -> Policy] /\ \A q \in Request : shown'[q] = shown[q] \/ shown'[q] = Put(r)
    BY <1>1, <1>10, <2>2 DEF CommitPolicy
  <2> QED BY <1>3, <1>10, <2>2, <2>3, CommitStep DEF CommitPolicy
<1>11. ASSUME NEW s \in Seeding, CommitFirst(s)
       PROVE  IInv'
  <2> DEFINE row == [version |-> 1, allowlist |-> DemoList, by |-> "seed"]
  <2>1. row \in Policy /\ row.version = number[s] /\ row.allowlist = body[s] /\ row.by = "seed"
    BY <1>11, DemoAssumption DEF CommitFirst, IInv, SeedOffersFirst, Open, Policy
  <2>2. /\ policies' = Append(policies, row) /\ stage[s] = "inserted"
        /\ stage' = [stage EXCEPT ![s] = "idle"] /\ UNCHANGED <<audit, body, number, shown>>
    BY <1>11 DEF CommitFirst
  <2> HIDE DEF row
  <2> QED BY <1>1, <1>3, <2>1, <2>2, CommitStep
<1>12. CASE UNCHANGED vars
  BY <1>12 DEF vars, stored, IInv, TypeOK, VersionsAreConsecutive, OpenFits, InsertedIsFree,
               NumberFree, SeedOffersFirst, Open, PoliciesValid, ShownPoliciesStand,
               AuditTellsVersions
<1> QED
  BY <1>3, <1>4, <1>5, <1>7, <1>8, <1>9, <1>10, <1>11, <1>12 DEF Next

LEMMA Inductive == Spec => []IInv
<1>1. Init => IInv
  BY InitIInv
<1>2. IInv /\ [Next]_vars => IInv'
  BY NextIInv
<1> QED BY <1>1, <1>2, PTL DEF Spec

-----------------------------------------------------------------------------
(***************************************************************************)
(* The theorems.                                                           *)
(***************************************************************************)
\* The variables keep their types: NextVersion always has a number to choose.
THEOREM TypeCorrect == Spec => []TypeOK
<1>1. IInv => TypeOK
  BY DEF IInv
<1> QED BY <1>1, Inductive, PTL

\* A version's number is its place in the history, whatever PUTs and seeds race.
THEOREM Consecutive == Spec => []VersionsAreConsecutive
<1>1. IInv => VersionsAreConsecutive
  BY DEF IInv
<1> QED BY <1>1, Inductive, PTL

\* What a client was shown under a version stays true of it.
THEOREM ShownStand == Spec => []ShownPoliciesStand
<1>1. IInv => ShownPoliciesStand
  BY DEF IInv
<1> QED BY <1>1, Inductive, PTL

\* A version number names one policy for ever, however many PUTs compute the next.
THEOREM NumbersNamePolicies == Spec => []VersionsNamePolicies
<1>1. IInv => VersionsNamePolicies
  BY DEF IInv, VersionsNamePolicies
<1> QED BY <1>1, Inductive, PTL

\* The audit log names exactly the versions that were PUT, in order.
THEOREM AuditTells == Spec => []AuditTellsVersions
<1>1. IInv => AuditTellsVersions
  BY DEF IInv
<1> QED BY <1>1, Inductive, PTL

\* No version that was ever stored permits a blocked address by a network or by
\* writing it out.
THEOREM KeepBlocked == Spec => []PoliciesKeepBlocked
<1>1. IInv => PoliciesKeepBlocked
  <2> SUFFICES ASSUME IInv, NEW i \in DOMAIN policies
               PROVE  KeepsBlocked(policies[i].allowlist)
    BY DEF PoliciesKeepBlocked
  <2>1. policies[i] \in Policy /\ ValidEntries(policies[i].allowlist)
    BY DEF IInv, TypeOK, PoliciesValid
  <2>2. policies[i].allowlist \in SUBSET Entry
    BY <2>1 DEF Policy
  <2> QED BY <2>1, <2>2, AcceptedListsKeepBlocked
<1> QED BY <1>1, Inductive, PTL

\* Nobody is shown an older policy than before.
THEOREM NeverGoesBack == Spec => PolicyNeverGoesBack
<1>1. IInv /\ [Next]_vars => [\A r \in Request : shown'[r].version >= shown[r].version]_vars
  <2> SUFFICES ASSUME IInv, Next, NEW r \in Request
               PROVE  shown'[r].version >= shown[r].version
    OBVIOUS
  <2>1. /\ policies \in Seq(Policy) /\ Len(policies) \in Nat
        /\ shown \in [Request -> Policy] /\ number \in [Process -> Nat]
        /\ DOMAIN policies = 1 .. Len(policies)
    BY DEF IInv, TypeOK
  <2>2. shown[r].version \in 0 .. Len(policies)
    <3>1. shown[r].version \in Nat
      BY <2>1 DEF Policy
    <3>2. ASSUME shown[r].version # 0 PROVE shown[r].version <= Len(policies)
      BY <2>1, <3>2 DEF IInv, ShownPoliciesStand, VersionsAreConsecutive
    <3> QED BY <2>1, <3>1, <3>2
  <2>3. CASE GetPolicy(r)
    <3>1. shown'[r] = CurrentPolicy
      BY <2>1, <2>3 DEF GetPolicy
    <3>2. CASE policies = <<>>
      BY <2>1, <2>2, <3>1, <3>2 DEF CurrentPolicy, Unconfigured
    <3>3. CASE policies # <<>>
      <4>1. CurrentPolicy.version = Len(policies)
        BY <2>1, <3>3, CurrentPolicyIs DEF IInv, VersionsAreConsecutive
      <4> QED BY <2>2, <3>1, <4>1
    <3> QED BY <3>2, <3>3
  <2>4. CASE CommitPolicy(r)
    <3>1. r \in Process
      BY DEF Process
    <3>2. number[r] = Len(policies) + 1
      BY <2>1, <2>4, <3>1 DEF CommitPolicy, IInv, OpenFits, InsertedIsFree, Open
    <3>3. shown'[r].version = number[r]
      BY <2>1, <2>4 DEF CommitPolicy, Put
    <3> QED BY <2>1, <2>2, <3>2, <3>3
  <2>5. CASE shown'[r] = shown[r]
    BY <2>1, <2>2, <2>5
  <2>6. \/ GetPolicy(r) \/ CommitPolicy(r)
        \/ shown'[r] = shown[r]
    <3>1. ASSUME NEW q \in Request, q # r, GetPolicy(q) \/ CommitPolicy(q)
          PROVE  shown'[r] = shown[r]
      BY <2>1, <3>1 DEF GetPolicy, CommitPolicy
    <3>2. ASSUME NEW q \in Process,
                 \/ RefusePolicy(q) \/ NumberPolicy(q) \/ InsertPolicy(q) \/ InsertDuplicate(q)
                 \/ Abort(q) \/ OfferFirst(q) \/ InsertNothing(q) \/ CommitFirst(q)
          PROVE  shown'[r] = shown[r]
      BY <3>2 DEF RefusePolicy, NumberPolicy, InsertPolicy, InsertDuplicate, Abort,
                  OfferFirst, InsertNothing, CommitFirst
    <3>3. Request \subseteq Process /\ Seeding \subseteq Process
      BY DEF Process
    <3> QED BY <3>1, <3>2, <3>3 DEF Next
  <2> QED BY <2>3, <2>4, <2>5, <2>6
<1> QED BY <1>1, Inductive, PTL DEF Spec, PolicyNeverGoesBack

-----------------------------------------------------------------------------
(***************************************************************************)
(* The seed.                                                               *)
(***************************************************************************)

\* What people can neither take away nor call something else.
Fixed == Row \ (Removable \cup Renamable)

\* No run of the seed has been committed.
Untouched == \A x \in Row : copies[x] = 0

\* The first run to be committed has made everything it has come past.
FirstRunMakesAll ==
    Untouched => \A s \in Run : \A k \in DOMAIN Statements :
                    k < at[s] /\ Statements[k] \in Row => Statements[k] \in mine[s]

\* Whoever holds an uncommitted row of a key is alone with it.
KeysAreHeld ==
    \A s \in Run : \A x \in Keyed :
        x \in mine[s] => copies[x] = 0 /\ \A t \in Run \ {s} : x \notin mine[t]

\* A run gives its pool to a test that is there, and to the one it has made.
TestHasPool ==
    \A s \in Run :
        /\ stamp[s] # "none" => copies["test"] > 0 \/ "test" \in mine[s]
        /\ "test" \in mine[s] /\ at[s] > 9 => stamp[s] # "none"

SeedInv == SeedTypeOK /\ DemoIsWhole /\ FirstRunMakesAll /\ KeysAreHeld /\ TestHasPool

LEMMA StatementFacts ==
    /\ Len(Statements) = 12 /\ DOMAIN Statements = 1 .. 12
    /\ Row = {"organization", "users", "project", "pool", "token", "variables", "repo",
              "test", "plans", "rules", "policy"}
    /\ \A k \in 1 .. 12 : Statements[k] \in Row \/ (k = 9 /\ Statements[k] = "test.pool")
    /\ \A k \in 1 .. 12 : Statements[k] = "test" <=> k = 8
    /\ Statements[1] = "organization" /\ Statements[9] = "test.pool"
    /\ \A x \in Row : \E k \in 1 .. 12 : Statements[k] = x
<1>1. /\ Len(Statements) = 12 /\ DOMAIN Statements = 1 .. 12
      /\ Statements[1] = "organization" /\ Statements[2] = "users" /\ Statements[3] = "project"
      /\ Statements[4] = "pool" /\ Statements[5] = "token" /\ Statements[6] = "variables"
      /\ Statements[7] = "repo" /\ Statements[8] = "test" /\ Statements[9] = "test.pool"
      /\ Statements[10] = "plans" /\ Statements[11] = "rules" /\ Statements[12] = "policy"
  BY DEF Statements
<1>2. \A k \in 1 .. 12 : \/ k = 1 \/ k = 2 \/ k = 3 \/ k = 4 \/ k = 5 \/ k = 6
                         \/ k = 7 \/ k = 8 \/ k = 9 \/ k = 10 \/ k = 11 \/ k = 12
  OBVIOUS
<1>3. {Statements[i] : i \in DOMAIN Statements} =
        {"organization", "users", "project", "pool", "token", "variables", "repo",
         "test", "test.pool", "plans", "rules", "policy"}
  BY <1>1, <1>2
<1>4. Row = {"organization", "users", "project", "pool", "token", "variables", "repo",
             "test", "plans", "rules", "policy"}
  BY <1>3 DEF Row
<1>5. \A x \in Row : \E k \in 1 .. 12 : Statements[k] = x
  BY <1>1, <1>4
<1> QED BY <1>1, <1>2, <1>4, <1>5

\* What a row needs is made before it.
LEMMA NeedsComeFirst ==
    ASSUME NEW k \in 1 .. 12, Statements[k] \in Row, NEW n \in Needs(Statements[k])
    PROVE  n \in Row /\ \E j \in 1 .. 12 : j < k /\ Statements[j] = n
<1>1. /\ Statements[1] = "organization" /\ Statements[2] = "users" /\ Statements[3] = "project"
      /\ Statements[4] = "pool" /\ Statements[5] = "token" /\ Statements[6] = "variables"
      /\ Statements[7] = "repo" /\ Statements[8] = "test" /\ Statements[9] = "test.pool"
      /\ Statements[10] = "plans" /\ Statements[11] = "rules" /\ Statements[12] = "policy"
  BY DEF Statements
<1>2. \/ k = 1 \/ k = 2 \/ k = 3 \/ k = 4 \/ k = 5 \/ k = 6
      \/ k = 7 \/ k = 8 \/ k = 9 \/ k = 10 \/ k = 11 \/ k = 12
  OBVIOUS
<1>3. CASE k = 7
  BY <1>1, <1>3, StatementFacts DEF Needs
<1>4. CASE k = 8
  BY <1>1, <1>4, StatementFacts DEF Needs
<1>5. CASE k = 10
  BY <1>1, <1>5, StatementFacts DEF Needs
<1>6. CASE k \notin {7, 8, 10}
  BY <1>1, <1>2, <1>6 DEF Needs
<1> QED BY <1>2, <1>3, <1>4, <1>5, <1>6

\* The organisation, the test and the plans are not renamed; nothing takes them away.
LEMMA FixedFacts ==
    /\ {"organization", "test", "plans", "project", "users", "policy", "token"} \subseteq Fixed
    /\ Fixed \subseteq Row
    /\ Keyed \subseteq Row /\ "organization" \in Keyed /\ "test" \in Keyed /\ "pool" \in Keyed
    /\ Row \ Keyed = {"repo", "plans", "rules"}
  BY StatementFacts, RenamableAssumption DEF Fixed, Removable, Keyed

\* Where one of them is missing, nothing has been committed.
LEMMA MissingIsUntouched ==
    ASSUME DemoIsWhole, SeedTypeOK, NEW x \in Fixed, copies[x] = 0
    PROVE  Untouched
<1>1. \A y \in Row : copies[y] \in Nat
  BY CopiesAssumption DEF SeedTypeOK
<1> QED BY <1>1 DEF DemoIsWhole, Untouched, Fixed

LEMMA SeedInitInv == ASSUME SeedInit PROVE SeedInv
<1>1. SeedTypeOK
  BY CopiesAssumption, StatementFacts DEF SeedInit, SeedTypeOK, Pool, Editable
<1>2. DemoIsWhole /\ FirstRunMakesAll /\ KeysAreHeld /\ TestHasPool
  BY StatementFacts DEF SeedInit, DemoIsWhole, FirstRunMakesAll, KeysAreHeld, TestHasPool
<1> QED BY <1>1, <1>2 DEF SeedInv

-----------------------------------------------------------------------------
LEMMA BeginKeeps == ASSUME SeedInv, NEW s \in Run, Begin(s) PROVE SeedInv'
<1>1. at' = [at EXCEPT ![s] = 1] /\ at[s] = 0 /\ UNCHANGED <<copies, edited, uses, mine, stamp>>
  BY DEF Begin, committed
<1>2. at \in [Run -> 0 .. 13] /\ at' \in [Run -> 0 .. 13]
  BY <1>1, StatementFacts DEF SeedInv, SeedTypeOK
<1>3. SeedTypeOK'
  BY <1>1, <1>2, StatementFacts DEF SeedInv, SeedTypeOK
<1>4. DemoIsWhole' /\ KeysAreHeld'
  BY <1>1 DEF SeedInv, DemoIsWhole, KeysAreHeld
<1>5. FirstRunMakesAll'
  <2>1. \A t \in Run : at'[t] = IF t = s THEN 1 ELSE at[t]
    BY <1>1, <1>2
  <2> QED BY <1>1, <2>1, StatementFacts DEF SeedInv, FirstRunMakesAll, Untouched
<1>6. TestHasPool'
  BY <1>1, <1>2 DEF SeedInv, TestHasPool
<1> QED BY <1>3, <1>4, <1>5, <1>6 DEF SeedInv

LEMMA InsertKeeps == ASSUME SeedInv, NEW s \in Run, InsertMissing(s) PROVE SeedInv'
<1> DEFINE k == at[s]
           x == Statements[k]
           added == {y \in {x} : ~Sees(s, y) /\ \A n \in Needs(y) : Sees(s, n)}
<1>1. /\ k \in 1 .. 12 /\ x \in Row /\ Settled(s, x)
      /\ mine' = [mine EXCEPT ![s] = @ \cup added]
      /\ at' = [at EXCEPT ![s] = @ + 1]
      /\ UNCHANGED <<copies, edited, uses, stamp>>
  BY StatementFacts DEF InsertMissing, committed
<1>2. at \in [Run -> 0 .. 13] /\ mine \in [Run -> SUBSET Row]
  BY StatementFacts DEF SeedInv, SeedTypeOK
<1>3. /\ \A t \in Run : at'[t] = IF t = s THEN at[s] + 1 ELSE at[t]
      /\ \A t \in Run : mine'[t] = IF t = s THEN mine[s] \cup added ELSE mine[t]
      /\ at' \in [Run -> 0 .. 13] /\ mine' \in [Run -> SUBSET Row]
  <2>1. k + 1 \in 0 .. 13 /\ added \subseteq Row
    BY <1>1
  <2> HIDE DEF added
  <2> QED BY <1>1, <1>2, <2>1
<1>4. SeedTypeOK'
  BY <1>1, <1>3, StatementFacts DEF SeedInv, SeedTypeOK
<1>5. DemoIsWhole'
  BY <1>1 DEF SeedInv, DemoIsWhole
<1>6. ASSUME Untouched PROVE x \in mine'[s]
  <2>1. \A n \in Needs(x) : n \in mine[s]
    BY <1>1, <1>6, NeedsComeFirst, StatementFacts DEF SeedInv, FirstRunMakesAll
  <2>2. x \in mine[s] \/ x \in added
    BY <1>1, <1>6, <2>1 DEF Sees, Untouched
  <2> HIDE DEF added, x
  <2> QED BY <1>3, <2>2
<1>7. FirstRunMakesAll'
  <2> SUFFICES ASSUME Untouched, NEW t \in Run, NEW j \in DOMAIN Statements,
                      j < at'[t], Statements[j] \in Row
               PROVE  Statements[j] \in mine'[t]
    BY <1>1 DEF FirstRunMakesAll, Untouched
  <2>1. CASE t = s /\ j = k
    BY <1>6, <2>1
  <2>2. CASE ~(t = s /\ j = k)
    <3>1. j < at[t]
      BY <1>1, <1>2, <1>3, <2>2, StatementFacts
    <3>2. Statements[j] \in mine[t]
      BY <3>1 DEF SeedInv, FirstRunMakesAll
    <3> HIDE DEF added
    <3> QED BY <1>3, <3>2
  <2> QED BY <2>1, <2>2
<1>8. KeysAreHeld'
  <2>1. \A y \in added : y = x /\ copies[y] = 0 /\ y \notin mine[s]
    BY <1>1, CopiesAssumption DEF Sees, SeedInv, SeedTypeOK
  <2>2. x \in Keyed => \A t \in Run \ {s} : x \notin mine[t]
    BY <1>1 DEF Settled
  <2> HIDE DEF added, x
  <2> SUFFICES ASSUME NEW r \in Run, NEW y \in Keyed, y \in mine'[r]
               PROVE  copies[y] = 0 /\ \A t \in Run \ {r} : y \notin mine'[t]
    BY <1>1 DEF KeysAreHeld
  <2>3. CASE y \in mine[r]
    BY <1>3, <2>1, <2>2, <2>3 DEF SeedInv, KeysAreHeld
  <2>4. CASE y \notin mine[r]
    BY <1>3, <2>1, <2>2, <2>4
  <2> QED BY <2>3, <2>4
<1>9. TestHasPool'
  <2>1. k # 9
    BY <1>1, StatementFacts
  <2>2. "test" \in added => k = 8
    BY <1>1, StatementFacts
  <2>3. k = 8 => ~(k + 1 > 9)
    OBVIOUS
  <2>4. k + 1 > 9 => k > 9
    BY <1>1, <2>1
  <2> HIDE DEF added, x, k
  <2>5. at[s] = k
    BY DEF k
  <2> QED BY <1>1, <1>3, <2>2, <2>3, <2>4, <2>5 DEF SeedInv, TestHasPool
<1> QED BY <1>4, <1>5, <1>7, <1>8, <1>9 DEF SeedInv

LEMMA StampKeeps == ASSUME SeedInv, NEW s \in Run, StampPool(s) PROVE SeedInv'
<1>1. /\ at[s] = 9
      /\ stamp' = [stamp EXCEPT ![s] = IF Sees(s, "pool") /\ Sees(s, "test") THEN "demo" ELSE @]
      /\ at' = [at EXCEPT ![s] = @ + 1]
      /\ UNCHANGED <<copies, edited, uses, mine>>
  <2>1. "test.pool" \notin Row
    BY StatementFacts
  <2> QED BY <2>1, StatementFacts DEF StampPool, committed
<1>2. at \in [Run -> 0 .. 13] /\ stamp \in [Run -> Pool]
  BY StatementFacts DEF SeedInv, SeedTypeOK
<1>3. /\ \A t \in Run : at'[t] = IF t = s THEN 10 ELSE at[t]
      /\ \A t \in Run \ {s} : stamp'[t] = stamp[t]
      /\ stamp'[s] = IF Sees(s, "pool") /\ Sees(s, "test") THEN "demo" ELSE stamp[s]
      /\ at' \in [Run -> 0 .. 13] /\ stamp' \in [Run -> Pool]
  BY <1>1, <1>2 DEF Pool
<1>4. SeedTypeOK'
  BY <1>1, <1>3, StatementFacts DEF SeedInv, SeedTypeOK
<1>5. DemoIsWhole' /\ KeysAreHeld'
  BY <1>1 DEF SeedInv, DemoIsWhole, KeysAreHeld
<1>6. FirstRunMakesAll'
  <2> SUFFICES ASSUME Untouched, NEW t \in Run, NEW j \in DOMAIN Statements,
                      j < at'[t], Statements[j] \in Row
               PROVE  Statements[j] \in mine[t]
    BY <1>1 DEF FirstRunMakesAll, Untouched
  <2>1. j # 9
    BY StatementFacts
  <2>2. j < at[t]
    BY <1>1, <1>2, <1>3, <2>1, StatementFacts
  <2> QED BY <2>2 DEF SeedInv, FirstRunMakesAll
<1>7. TestHasPool'
  <2>1. ASSUME "test" \in mine[s] PROVE Sees(s, "pool") /\ Sees(s, "test")
    <3>1. copies["test"] = 0
      BY <2>1, FixedFacts DEF SeedInv, KeysAreHeld
    <3>2. Untouched
      BY <3>1, FixedFacts, MissingIsUntouched DEF SeedInv
    <3>3. Statements[4] = "pool" /\ 4 \in DOMAIN Statements /\ 4 < at[s]
      BY <1>1, StatementFacts DEF Statements
    <3>4. "pool" \in mine[s]
      BY <3>2, <3>3, StatementFacts DEF SeedInv, FirstRunMakesAll
    <3> QED BY <2>1, <3>4 DEF Sees
  <2>2. Sees(s, "test") <=> copies["test"] > 0 \/ "test" \in mine[s]
    BY DEF Sees
  <2> QED BY <1>1, <1>3, <2>1, <2>2 DEF SeedInv, TestHasPool
<1> QED BY <1>4, <1>5, <1>6, <1>7 DEF SeedInv

LEMMA EndedFacts ==
    ASSUME SeedInv, NEW s \in Run, Ended(s)
    PROVE  /\ at' \in [Run -> 0 .. 13] /\ mine' \in [Run -> SUBSET Row] /\ stamp' \in [Run -> Pool]
           /\ at'[s] = 0 /\ mine'[s] = {} /\ stamp'[s] = "none"
           /\ \A t \in Run \ {s} : at'[t] = at[t] /\ mine'[t] = mine[t] /\ stamp'[t] = stamp[t]
  BY StatementFacts DEF SeedInv, SeedTypeOK, Ended, Pool

LEMMA FailKeeps == ASSUME SeedInv, NEW s \in Run, Fail(s) PROVE SeedInv'
<1>1. Ended(s) /\ UNCHANGED <<copies, edited, uses>>
  BY DEF Fail, committed
<1>2. SeedTypeOK'
  BY <1>1, EndedFacts, StatementFacts DEF SeedInv, SeedTypeOK
<1>3. DemoIsWhole'
  BY <1>1 DEF SeedInv, DemoIsWhole
<1>4. FirstRunMakesAll'
  BY <1>1, EndedFacts, StatementFacts DEF SeedInv, FirstRunMakesAll, Untouched
<1>5. KeysAreHeld' /\ TestHasPool'
  BY <1>1, EndedFacts DEF SeedInv, KeysAreHeld, TestHasPool
<1> QED BY <1>2, <1>3, <1>4, <1>5 DEF SeedInv

LEMMA CommitKeeps == ASSUME SeedInv, NEW s \in Run, Commit(s) PROVE SeedInv'
<1>1. /\ at[s] = 13 /\ Ended(s) /\ edited' = edited
      /\ \A x \in mine[s] : copies[x] < MaxCopies
      /\ copies' = [x \in Row |-> IF x \in mine[s] THEN copies[x] + 1 ELSE copies[x]]
      /\ uses' = IF stamp[s] # "none" THEN stamp[s] ELSE uses
  BY StatementFacts DEF Commit
<1>2. copies \in [Row -> 0 .. MaxCopies] /\ mine[s] \subseteq Row /\ stamp[s] \in Pool /\ uses \in Pool
  BY DEF SeedInv, SeedTypeOK
<1>3. /\ copies' \in [Row -> 0 .. MaxCopies]
      /\ \A x \in Row : copies'[x] = IF x \in mine[s] THEN copies[x] + 1 ELSE copies[x]
      /\ \A x \in Row : copies[x] > 0 => copies'[x] > 0
  BY <1>1, <1>2, CopiesAssumption
\* The first to be committed commits everything.
<1>4. ASSUME Untouched PROVE \A x \in Row : x \in mine[s] /\ copies'[x] > 0
  <2>1. \A x \in Row : x \in mine[s]
    BY <1>1, <1>4, StatementFacts DEF SeedInv, FirstRunMakesAll
  <2> QED BY <1>3, <1>4, <2>1 DEF Untouched
<1>5. \A x \in Fixed : copies'[x] > 0
  <2>1. CASE Untouched
    BY <1>4, <2>1, FixedFacts
  <2>2. CASE ~Untouched
    BY <1>2, <1>3, <2>2, FixedFacts, CopiesAssumption DEF SeedInv, DemoIsWhole, Untouched, Fixed
  <2> QED BY <2>1, <2>2
<1>6. DemoIsWhole' /\ ~Untouched'
  BY <1>3, <1>5, FixedFacts DEF DemoIsWhole, Fixed, Untouched
<1>7. FirstRunMakesAll'
  BY <1>6 DEF FirstRunMakesAll
<1>8. KeysAreHeld'
  <2> SUFFICES ASSUME NEW r \in Run, NEW x \in Keyed, x \in mine'[r]
               PROVE  copies'[x] = 0 /\ \A t \in Run \ {r} : x \notin mine'[t]
    BY DEF KeysAreHeld
  <2>1. r # s /\ x \in mine[r] /\ x \in Row
    BY <1>1, EndedFacts, FixedFacts
  <2>2. copies[x] = 0 /\ \A t \in Run \ {r} : x \notin mine[t]
    BY <2>1 DEF SeedInv, KeysAreHeld
  <2>3. x \notin mine[s]
    BY <2>1, <2>2
  <2>4. copies'[x] = copies[x]
    BY <1>3, <2>1, <2>3
  <2>5. \A t \in Run \ {r} : x \notin mine'[t]
    BY <1>1, <2>2, EndedFacts
  <2> QED BY <2>2, <2>4, <2>5
<1>9. TestHasPool'
  <2>1. copies'["test"] > 0
    BY <1>5, FixedFacts
  <2> QED BY <1>1, <2>1, EndedFacts DEF SeedInv, TestHasPool
<1>10. SeedTypeOK'
  <2>1. uses' \in Pool
    BY <1>1, <1>2
  <2>2. uses' # "none"
    <3>1. CASE "test" \in mine[s]
      BY <1>1, <3>1 DEF SeedInv, TestHasPool
    <3>2. CASE "test" \notin mine[s]
      <4>1. copies["test"] # 0
        BY <1>4, <3>2, FixedFacts, MissingIsUntouched DEF SeedInv
      <4>2. uses # "none"
        BY <4>1 DEF SeedInv, SeedTypeOK
      <4> QED BY <1>1, <4>2
    <3> QED BY <3>1, <3>2
  <2>3. copies'["test"] # 0
    BY <1>3, <1>5, FixedFacts
  <2>4. edited' \subseteq {x \in Editable : copies'[x] > 0}
    <3>1. Editable \subseteq Row
      BY StatementFacts DEF Editable
    <3>2. edited \subseteq {x \in Editable : copies[x] > 0}
      BY DEF SeedInv, SeedTypeOK
    <3> QED BY <1>1, <1>3, <3>1, <3>2
  <2> QED BY <1>1, <1>3, <2>1, <2>2, <2>3, <2>4, EndedFacts, StatementFacts DEF SeedTypeOK
<1> QED BY <1>6, <1>7, <1>8, <1>9, <1>10 DEF SeedInv

-----------------------------------------------------------------------------
\* What people do leaves the runs alone, keeps what is fixed and adds nothing.
LEMMA PeopleKeepRuns ==
    ASSUME SeedInv, SeedTypeOK', at' = at, mine' = mine,
           \A x \in Row : copies'[x] <= copies[x],
           \A x \in Fixed : copies'[x] = copies[x],
           \A s \in Run : stamp'[s] = "none" <=> stamp[s] = "none"
    PROVE  SeedInv'
<1>1. \A x \in Row : copies[x] \in Nat /\ copies'[x] \in Nat
  BY CopiesAssumption DEF SeedInv, SeedTypeOK
<1>2. DemoIsWhole'
  <2>1. (\E x \in Row : copies'[x] > 0) => \E x \in Row : copies[x] > 0
    BY <1>1
  <2> QED BY <1>1, <2>1, FixedFacts DEF SeedInv, DemoIsWhole, Fixed
<1>3. Untouched' => Untouched
  BY FixedFacts, MissingIsUntouched DEF SeedInv, Untouched
<1>4. FirstRunMakesAll'
  BY <1>3 DEF SeedInv, FirstRunMakesAll
<1>5. KeysAreHeld'
  <2>1. \A x \in Keyed : copies[x] = 0 => copies'[x] = 0
    BY <1>1, FixedFacts
  <2> QED BY <2>1 DEF SeedInv, KeysAreHeld
<1>6. TestHasPool'
  <2>1. copies'["test"] = copies["test"]
    BY FixedFacts
  <2> QED BY <2>1 DEF SeedInv, TestHasPool
<1> QED BY <1>2, <1>4, <1>5, <1>6 DEF SeedInv

LEMMA PeopleKeep == ASSUME SeedInv, People PROVE SeedInv'
<1>0. /\ copies \in [Row -> 0 .. MaxCopies] /\ edited \subseteq {x \in Editable : copies[x] > 0}
      /\ uses \in Pool /\ (uses = "none" <=> copies["test"] = 0)
      /\ stamp \in [Run -> Pool]
      /\ Editable \subseteq Row /\ Removable \subseteq Row /\ Renamable \subseteq Row
      /\ "test" \notin Removable /\ "test" \notin Renamable /\ "test" \in Row
      /\ \A x \in Row : copies[x] \in Nat
  BY CopiesAssumption, RenamableAssumption, StatementFacts
  DEF SeedInv, SeedTypeOK, Editable, Removable
<1>1. ASSUME NEW x \in Editable, Edit(x) PROVE SeedInv'
  <2>1. SeedTypeOK'
    BY <1>0, <1>1 DEF Edit, SeedInv, SeedTypeOK
  <2> QED BY <1>0, <1>1, <2>1, PeopleKeepRuns DEF Edit
<1>2. ASSUME NEW x \in Removable, Remove(x) PROVE SeedInv'
  <2>1. /\ copies' \in [Row -> 0 .. MaxCopies]
        /\ \A y \in Row : copies'[y] = IF y = x THEN 0 ELSE copies[y]
    BY <1>0, <1>2, CopiesAssumption DEF Remove
  <2>2. edited' \subseteq {y \in Editable : copies'[y] > 0}
    BY <1>0, <1>2, <2>1 DEF Remove
  <2>3. copies'["test"] = copies["test"]
    BY <1>0, <2>1
  <2>4. SeedTypeOK'
    BY <1>0, <1>2, <2>1, <2>2, <2>3 DEF Remove, SeedInv, SeedTypeOK
  <2>5. \A y \in Row : copies'[y] <= copies[y]
    BY <1>0, <2>1
  <2>6. \A y \in Fixed : copies'[y] = copies[y]
    BY <2>1 DEF Fixed
  <2> QED BY <1>2, <2>4, <2>5, <2>6, PeopleKeepRuns DEF Remove
<1>3. ASSUME NEW x \in Renamable, Rename(x) PROVE SeedInv'
  <2>1. /\ copies' \in [Row -> 0 .. MaxCopies]
        /\ \A y \in Row : copies'[y] = IF y = x THEN copies[y] - 1 ELSE copies[y]
    <3>1. copies[x] > 0 /\ copies' = [copies EXCEPT ![x] = @ - 1]
      BY <1>3 DEF Rename
    <3>2. copies[x] \in 0 .. MaxCopies /\ x \in Row
      BY <1>0
    <3>3. copies[x] - 1 \in 0 .. MaxCopies
      BY <3>1, <3>2, CopiesAssumption
    <3> QED BY <1>0, <3>1, <3>3
  <2>2. edited' \subseteq {y \in Editable : copies'[y] > 0}
    <3>1. \A y \in Row \ {x} : copies'[y] = copies[y]
      BY <2>1
    <3>2. copies[x] # 1 => copies'[x] > 0
      BY <1>0, <1>3, <2>1 DEF Rename
    <3> QED BY <1>0, <1>3, <3>1, <3>2 DEF Rename
  <2>3. copies'["test"] = copies["test"]
    BY <1>0, <2>1
  <2>4. /\ uses' \in Pool /\ (uses' = "none" <=> uses = "none")
        /\ stamp' \in [Run -> Pool] /\ \A s \in Run : stamp'[s] = "none" <=> stamp[s] = "none"
    <3>1. CASE x = "pool"
      <4>1. /\ uses' = IF uses = "demo" THEN "other" ELSE uses
            /\ stamp' = [s \in Run |-> IF stamp[s] = "demo" THEN "other" ELSE stamp[s]]
        BY <1>3, <3>1 DEF Rename
      <4> QED BY <1>0, <4>1 DEF Pool
    <3>2. CASE x # "pool"
      BY <1>0, <1>3, <3>2 DEF Rename
    <3> QED BY <3>1, <3>2
  <2>5. SeedTypeOK'
    BY <1>0, <1>3, <2>1, <2>2, <2>3, <2>4 DEF Rename, SeedInv, SeedTypeOK
  <2>6. \A y \in Row : copies'[y] <= copies[y]
    BY <1>0, <2>1
  <2>7. \A y \in Fixed : copies'[y] = copies[y]
    BY <2>1 DEF Fixed
  <2> QED BY <1>3, <2>4, <2>5, <2>6, <2>7, PeopleKeepRuns DEF Rename
<1>4. CASE ChoosePool
  <2>1. SeedTypeOK'
    BY <1>0, <1>4 DEF ChoosePool, SeedInv, SeedTypeOK, Pool
  <2> QED BY <1>0, <1>4, <2>1, PeopleKeepRuns DEF ChoosePool
<1> QED BY <1>1, <1>2, <1>3, <1>4 DEF People

LEMMA SeedStepKeeps == SeedInv /\ [SeedNext]_seedVars => SeedInv'
<1> SUFFICES ASSUME SeedInv, [SeedNext]_seedVars PROVE SeedInv'
  OBVIOUS
<1>1. CASE UNCHANGED seedVars
  BY <1>1 DEF seedVars, committed, SeedInv, SeedTypeOK, DemoIsWhole, FirstRunMakesAll, Untouched,
              KeysAreHeld, TestHasPool
<1> QED BY <1>1, BeginKeeps, InsertKeeps, StampKeeps, CommitKeeps, FailKeeps, PeopleKeep DEF SeedNext

LEMMA SeedSpecInv == SeedSpec => []SeedInv
  BY SeedInitInv, SeedStepKeeps, PTL DEF SeedSpec

\* Whatever overlaps, fails or is done by people, every row is one of those the seed and
\* people make, what is edited is there, and the test has a pool exactly when it is there.
THEOREM SeedTypeCorrect == SeedSpec => []SeedTypeOK
BY SeedSpecInv, PTL DEF SeedInv

\* A commit leaves all of the demo or none of it: the first run has missed everything, and
\* a later one finds what people cannot take away.
THEOREM DemosAreWhole == SeedSpec => []DemoIsWhole
BY SeedSpecInv, PTL DEF SeedInv

-----------------------------------------------------------------------------
(***************************************************************************)
(* The repository has no key that is waited for.  Where it keeps its name  *)
(* the keys before it do its work; where it does not, two runs do make it  *)
(* twice.                                                                  *)
(***************************************************************************)
RepoKeepsItsName == "repo" \notin Renamable

\* Only the first run makes what has no key, and it holds the organisation's.
FirstRunIsAlone ==
    \A s \in Run : \A x \in {"repo", "plans"} :
        x \in mine[s] => Untouched /\ "organization" \in mine[s]

OnceInv == SeedInv /\ FirstRunIsAlone /\ OneOfEach

LEMMA MineIsMissing ==
    ASSUME OnceInv, NEW s \in Run, NEW x \in mine[s] \ {"rules"}
    PROVE  x \in Row /\ copies[x] = 0
<1>1. x \in Row
  BY DEF OnceInv, SeedInv, SeedTypeOK
<1>2. CASE x \in Keyed
  BY <1>1, <1>2 DEF OnceInv, SeedInv, KeysAreHeld
<1>3. CASE x \notin Keyed
  BY <1>1, <1>3, FixedFacts DEF OnceInv, FirstRunIsAlone, Untouched
<1> QED BY <1>1, <1>2, <1>3

LEMMA OnceInit == ASSUME SeedInit PROVE OnceInv
  BY SeedInitInv DEF SeedInit, OnceInv, FirstRunIsAlone, OneOfEach

LEMMA InsertKeepsOnce ==
    ASSUME RepoKeepsItsName, OnceInv, NEW s \in Run, InsertMissing(s)
    PROVE  FirstRunIsAlone' /\ OneOfEach'
<1> DEFINE k == at[s]
           x == Statements[k]
           added == {y \in {x} : ~Sees(s, y) /\ \A n \in Needs(y) : Sees(s, n)}
<1>1. /\ k \in 1 .. 12 /\ x \in Row
      /\ mine' = [mine EXCEPT ![s] = @ \cup added]
      /\ UNCHANGED copies
  BY StatementFacts DEF InsertMissing, committed
<1>2. \A t \in Run : mine'[t] = IF t = s THEN mine[s] \cup added ELSE mine[t]
  BY <1>1 DEF OnceInv, SeedInv, SeedTypeOK
<1>3. \A y \in added : y = x /\ copies[y] = 0
  BY <1>1, CopiesAssumption DEF Sees, OnceInv, SeedInv, SeedTypeOK
<1>4. ASSUME NEW y \in {"repo", "plans"}, y \in added
      PROVE  Untouched /\ "organization" \in mine[s]
  <2>1. y \in Fixed /\ copies[y] = 0
    BY <1>3, <1>4, FixedFacts, StatementFacts DEF RepoKeepsItsName, Fixed, Removable
  <2>2. Untouched
    BY <2>1, MissingIsUntouched DEF OnceInv, SeedInv
  <2>3. 1 < k /\ Statements[1] = "organization" /\ "organization" \in Row
    BY <1>1, <1>3, <1>4, StatementFacts
  <2> QED BY <1>1, <2>2, <2>3, StatementFacts DEF OnceInv, SeedInv, FirstRunMakesAll
<1> HIDE DEF added
<1>5. FirstRunIsAlone'
  BY <1>1, <1>2, <1>4 DEF OnceInv, FirstRunIsAlone, Untouched
<1>6. OneOfEach'
  BY <1>1 DEF OnceInv, OneOfEach
<1> QED BY <1>5, <1>6

LEMMA CommitKeepsOnce ==
    ASSUME OnceInv, NEW s \in Run, Commit(s)
    PROVE  FirstRunIsAlone' /\ OneOfEach'
<1>1. /\ at[s] = 13 /\ Ended(s)
      /\ copies' = [x \in Row |-> IF x \in mine[s] THEN copies[x] + 1 ELSE copies[x]]
  BY StatementFacts DEF Commit
<1>2. OneOfEach'
  BY <1>1, MineIsMissing DEF OnceInv, OneOfEach
<1>3. ASSUME NEW t \in Run, NEW x \in {"repo", "plans"}, x \in mine'[t] PROVE FALSE
  <2>1. t # s /\ x \in mine[t]
    BY <1>1, <1>3, EndedFacts DEF OnceInv
  <2>2. Untouched /\ "organization" \in mine[t]
    BY <2>1 DEF OnceInv, FirstRunIsAlone
  <2>3. "organization" \in mine[s]
    BY <1>1, <2>2, StatementFacts DEF OnceInv, SeedInv, FirstRunMakesAll
  <2> QED BY <2>1, <2>2, <2>3, FixedFacts DEF OnceInv, SeedInv, KeysAreHeld
<1> QED BY <1>2, <1>3 DEF FirstRunIsAlone

LEMMA OthersKeepOnce ==
    ASSUME OnceInv, \A x \in Row : copies'[x] <= copies[x],
           \A s \in Run : mine'[s] = mine[s] \/ mine'[s] = {},
           \A x \in Row : copies[x] \in Nat /\ copies'[x] \in Nat
    PROVE  FirstRunIsAlone' /\ OneOfEach'
<1>1. Untouched => Untouched'
  BY DEF Untouched
<1>2. FirstRunIsAlone'
  <2> SUFFICES ASSUME NEW s \in Run, NEW x \in {"repo", "plans"}, x \in mine'[s]
               PROVE  Untouched' /\ "organization" \in mine'[s]
    BY DEF FirstRunIsAlone
  <2>1. mine'[s] = mine[s]
    OBVIOUS
  <2> QED BY <1>1, <2>1 DEF OnceInv, FirstRunIsAlone
<1>3. OneOfEach'
  BY DEF OnceInv, OneOfEach
<1> QED BY <1>2, <1>3

LEMMA OnceStepKeeps ==
    ASSUME RepoKeepsItsName, OnceInv, [SeedNext]_seedVars PROVE OnceInv'
<1>1. SeedInv'
  BY SeedStepKeeps DEF OnceInv
<1>2. \A x \in Row : copies[x] \in Nat /\ copies'[x] \in Nat
  BY <1>1, CopiesAssumption DEF OnceInv, SeedInv, SeedTypeOK
<1>3. mine \in [Run -> SUBSET Row]
  BY DEF OnceInv, SeedInv, SeedTypeOK
<1>4. ASSUME UNCHANGED <<copies, mine>> PROVE OnceInv'
  BY <1>1, <1>4 DEF OnceInv, FirstRunIsAlone, OneOfEach, Untouched
<1>5. CASE UNCHANGED seedVars
  BY <1>4, <1>5 DEF seedVars, committed
<1>6. ASSUME NEW s \in Run, Begin(s) \/ StampPool(s) PROVE OnceInv'
  BY <1>4, <1>6 DEF Begin, StampPool, committed
<1>7. ASSUME NEW s \in Run, InsertMissing(s) PROVE OnceInv'
  BY <1>1, <1>7, InsertKeepsOnce DEF OnceInv
<1>8. ASSUME NEW s \in Run, Commit(s) PROVE OnceInv'
  BY <1>1, <1>8, CommitKeepsOnce DEF OnceInv
<1>9. ASSUME NEW s \in Run, Fail(s) PROVE OnceInv'
  <2>1. UNCHANGED copies /\ \A t \in Run : mine'[t] = mine[t] \/ mine'[t] = {}
    BY <1>3, <1>9 DEF Fail, Ended, committed
  <2> QED BY <1>1, <1>2, <2>1, OthersKeepOnce DEF OnceInv
<1>10. CASE People
  <2>1. UNCHANGED mine
    BY <1>10 DEF People, Edit, Remove, Rename, ChoosePool
  <2>2. \A x \in Row : copies'[x] <= copies[x]
    <3>1. ASSUME NEW x \in Removable, Remove(x) PROVE \A y \in Row : copies'[y] <= copies[y]
      BY <1>2, <3>1 DEF Remove, OnceInv, SeedInv, SeedTypeOK
    <3>2. ASSUME NEW x \in Renamable, Rename(x) PROVE \A y \in Row : copies'[y] <= copies[y]
      <4>1. copies' = [copies EXCEPT ![x] = copies[x] - 1]
        BY <3>2 DEF Rename
      <4> QED BY <1>2, <4>1 DEF OnceInv, SeedInv, SeedTypeOK
    <3>3. ASSUME NEW x \in Editable, Edit(x) PROVE \A y \in Row : copies'[y] <= copies[y]
      BY <1>2, <3>3 DEF Edit
    <3>4. CASE ChoosePool
      BY <1>2, <3>4 DEF ChoosePool
    <3> QED BY <1>10, <3>1, <3>2, <3>3, <3>4 DEF People
  <2> QED BY <1>1, <1>2, <2>1, <2>2, OthersKeepOnce DEF OnceInv
<1> QED BY <1>5, <1>6, <1>7, <1>8, <1>9, <1>10 DEF SeedNext

LEMMA OnceHolds == ASSUME RepoKeepsItsName PROVE SeedSpec => []OnceInv
<1>1. OnceInv /\ [SeedNext]_seedVars => OnceInv'
  BY OnceStepKeeps
<1>2. SeedInit => OnceInv
  BY OnceInit
<1> QED BY <1>1, <1>2, PTL DEF SeedSpec

\* As long as nobody renames the repository, however many runs overlap and wherever they
\* fail: a commit leaves one of each thing the seed makes, and all of them.
THEOREM DemoStandsOnceAlways == ASSUME RepoKeepsItsName PROVE SeedSpec => []DemoStandsOnce
<1>1. OnceInv => DemoStandsOnce
  BY DEF OnceInv, SeedInv, DemoStandsOnce
<1> QED BY <1>1, OnceHolds, PTL

\* And no commit undoes what somebody has changed or makes it again beside: what is edited
\* is there, and a run holds only what is not.
THEOREM EditsAlwaysSurvive == ASSUME RepoKeepsItsName PROVE SeedSpec => EditsSurvive
<1>1. ASSUME OnceInv, [SeedNext]_seedVars, NEW s \in Run, Commit(s) \/ Fail(s)
      PROVE  edited \subseteq edited' /\ \A x \in edited \ {"rules"} : copies'[x] = copies[x]
  <2>1. CASE Fail(s)
    BY <2>1 DEF Fail, committed
  <2>2. CASE Commit(s)
    <3>1. \A x \in edited : x \in Row /\ copies[x] > 0
      BY <1>1, StatementFacts DEF OnceInv, SeedInv, SeedTypeOK, Editable
    <3>2. \A x \in edited \ {"rules"} : x \notin mine[s]
      BY <1>1, <3>1, MineIsMissing
    <3> QED BY <2>2, <3>1, <3>2 DEF Commit
  <2> QED BY <1>1, <2>1, <2>2
<1>2. OnceInv /\ [SeedNext]_seedVars
        => [\A s \in Run : Commit(s) \/ Fail(s) =>
              /\ edited \subseteq edited'
              /\ \A x \in edited \ {"rules"} : copies'[x] = copies[x]]_seedVars
  BY <1>1
<1> QED BY <1>2, OnceHolds, PTL DEF SeedSpec, EditsSurvive


-----------------------------------------------------------------------------
\* The policies stay typed while the seed runs and the seed's rows while policies are
\* put: the composition adds nothing that either could trip over.
THEOREM BothTypesCorrect == BothSpec => []BothTypeOK
<1> DEFINE BothInv == IInv /\ SeedInv
<1>1. BothInit => BothInv
  BY InitIInv, SeedInitInv DEF BothInit
<1>2. BothInv /\ [BothNext]_<<vars, seedVars>> => BothInv'
  <2> SUFFICES ASSUME BothInv, [BothNext]_<<vars, seedVars>> PROVE BothInv'
    OBVIOUS
  <2>1. [Next]_vars /\ [SeedNext]_seedVars
    BY DEF BothNext
  <2> QED BY <2>1, NextIInv, SeedStepKeeps
<1>3. BothInv => BothTypeOK
  BY DEF IInv, SeedInv, BothTypeOK
<1> QED BY <1>1, <1>2, <1>3, PTL DEF BothSpec

=============================================================================

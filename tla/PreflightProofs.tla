---------------------------- MODULE PreflightProofs ----------------------------
(***************************************************************************)
(* Theorems about Preflight and the operators it is made of: what a plan   *)
(* is said to reach, what an allowlist permits, and what a report vouches  *)
(* for, for any plans, policies, pools and pushes.                         *)
(***************************************************************************)
EXTENDS Preflight, WellFoundedInduction, TLAPS

-----------------------------------------------------------------------------
(***************************************************************************)
(* The targets of a plan.                                                  *)
(***************************************************************************)
\* Some numbers have a least among them, and numbers that do not pass a bound a
\* latest: the elements that have come by, and the one a loop kept of them.
LEMMA SomeLeast ==
    ASSUME NEW T \in SUBSET Nat, T # {}
    PROVE  \E n \in T : \A m \in T : n <= m
<1> DEFINE R == OpToRel(<, Nat)
<1>1. IsWellFoundedOn(R, Nat)
  BY NatLessThanWellFounded
<1>2. \A x, y \in Nat : y < x => <<y, x>> \in R
  BY DEF OpToRel
<1> HIDE DEF R
<1>3. PICK x \in T : \A y \in T : ~(<<y, x>> \in R)
  BY <1>1, WFMin
<1>4. ASSUME NEW y \in T PROVE x <= y
  <2>1. x \in Nat /\ y \in Nat
    OBVIOUS
  <2>2. ~(y < x)
    BY <2>1, <1>2, <1>3
  <2> QED BY <2>1, <2>2
<1> QED BY <1>4

LEMMA SomeLatest ==
    ASSUME NEW T \in SUBSET Nat, T # {}, NEW n \in Nat, \A j \in T : j <= n
    PROVE  \E j \in T : \A k \in T : k <= j
<1> DEFINE D == {n - j : j \in T}
<1>1. D \in SUBSET Nat /\ D # {}
  <2>1. \A j \in T : j \in Nat /\ n - j \in Nat
    OBVIOUS
  <2>2. D \in SUBSET Nat
    BY <2>1
  <2>3. PICK j \in T : TRUE
    OBVIOUS
  <2>4. n - j \in D
    OBVIOUS
  <2> QED BY <2>2, <2>4
<1>2. PICK d \in D : \A e \in D : d <= e
  BY <1>1, SomeLeast
<1>3. PICK j \in T : d = n - j
  OBVIOUS
<1>4. ASSUME NEW k \in T PROVE k <= j
  <2>1. n - j <= n - k
    BY <1>2, <1>3
  <2>2. \A a, b, c \in Nat : c - a <= c - b => b <= a
    OBVIOUS
  <2>3. j \in Nat /\ k \in Nat
    OBVIOUS
  <2> QED BY <2>1, <2>2, <2>3, Zenon
<1> QED BY <1>4

\* What parse_plan lists are hosts that the plan names.
LEMMA TargetsAreNamed ==
    ASSUME NEW plan \in Seq(Element)
    PROVE  Targets(plan) \subseteq NamedHost
<1>1. \A i \in DOMAIN plan : plan[i].host \in NamedHost \cup {NoHost}
  <2>1. \A i \in DOMAIN plan : plan[i] \in Element
    OBVIOUS
  <2> QED BY <2>1 DEF Element
<1>2. ASSUME NEW i \in Nat PROVE DefaultAt(plan, i) \in NamedHost \cup {NoHost}
  <2> DEFINE seen == {j \in Of("defaults", plan) : j <= i /\ plan[j].host # NoHost}
             d == CHOOSE j \in seen : \A k \in seen : k <= j
  <2>1. seen \in SUBSET Nat /\ seen \subseteq DOMAIN plan /\ \A j \in seen : j <= i
    BY DEF Of
  <2>2. DefaultAt(plan, i) = IF seen = {} THEN NoHost ELSE plan[d].host
    BY DEF DefaultAt
  <2> HIDE DEF seen
  <2>3. seen # {} => d \in seen
    BY <2>1, SomeLatest
  <2> HIDE DEF d
  <2> QED BY <1>1, <2>1, <2>2, <2>3
<1>3. Len(plan) \in Nat /\ DOMAIN plan \subseteq Nat
  OBVIOUS
<1>4. \A i \in Of("sampler", plan) : HostOf(plan, i) \in NamedHost \cup {NoHost}
  BY <1>1, <1>2, <1>3 DEF HostOf, Of
<1>5. DefaultAt(plan, Len(plan)) \in NamedHost \cup {NoHost}
  BY <1>2, <1>3
<1> QED BY <1>4, <1>5 DEF Targets

\* With one defaults element that names a host, the loop of parse_plan has taken
\* it up when it ends, wherever in the document it stands.
LEMMA DefaultIsFound ==
    ASSUME NEW plan \in Seq(Element), OneDefault(plan),
           NEW d \in Of("defaults", plan), plan[d].host # NoHost
    PROVE  DefaultAt(plan, Len(plan)) = plan[d].host
<1> DEFINE seen == {j \in Of("defaults", plan) : j <= Len(plan) /\ plan[j].host # NoHost}
<1>1. d \in 1 .. Len(plan)
  BY DEF Of
<1>2. seen = {d}
  <2>1. d <= Len(plan)
    BY <1>1
  <2>2. ASSUME NEW j \in seen PROVE j = d
    BY DEF OneDefault
  <2> QED
    BY <2>1, <2>2, Zenon
<1>3. (CHOOSE j \in seen : \A k \in seen : k <= j) = d
  BY <1>1, <1>2
<1> QED
  BY <1>2, <1>3 DEF DefaultAt

\* No host a plan reaches is left out of the list that the target policy is
\* checked against (services/preflight.py, TARGET_ALLOWED), whatever the order
\* of its samplers and its defaults, where one defaults element names a host.
THEOREM TargetsCoverReached ==
    \A plan \in Seq(Element) : OneDefault(plan) => Reached(plan) \subseteq Targets(plan)
<1> SUFFICES ASSUME NEW plan \in Seq(Element), OneDefault(plan), NEW h \in Reached(plan)
             PROVE  h \in Targets(plan)
  OBVIOUS
<1>1. h # NoHost
  BY DEF Reached
<1>2. CASE \E i \in Of("sampler", plan) : plan[i].host = h
  <2>1. PICK i \in Of("sampler", plan) : plan[i].host = h
    BY <1>2
  <2>2. HostOf(plan, i) = h
    BY <1>1, <2>1 DEF HostOf
  <2> QED
    BY <1>1, <2>2 DEF Targets
<1>3. CASE \E d \in Of("defaults", plan) : plan[d].host = h
  <2>1. PICK d \in Of("defaults", plan) : plan[d].host = h
    BY <1>3
  <2>2. DefaultAt(plan, Len(plan)) = h
    BY <1>1, <2>1, DefaultIsFound
  <2> QED
    BY <1>1, <2>2 DEF Targets
<1> QED
  BY <1>2, <1>3 DEF Reached

-----------------------------------------------------------------------------
(***************************************************************************)
(* The allowlist.                                                          *)
(***************************************************************************)
\* Masking the host bits: an address is in the block from the lowest to the highest
\* address of a network exactly if it shares the network's prefix.
LEMMA BlockIsPrefix ==
    ASSUME NEW a \in Nat, NEW b \in Nat, NEW s \in Nat \ {0}
    PROVE  (b - (b % s) <= a /\ a <= b - (b % s) + s - 1) <=> a \div s = b \div s
<1> DEFINE p == b \div s
           q == a \div s
           u == b % s
           v == a % s
           x == s * p
           y == s * q
<1>1. p \in Int /\ q \in Int /\ u \in 0 .. s - 1 /\ v \in 0 .. s - 1
  BY SMTT(30)
<1>2. b = x + u /\ a = y + v
  BY SMTT(30)
<1> HIDE DEF p, q, u, v
<1>3. ASSUME NEW i \in Int, NEW j \in Int, i < j
      PROVE  s * i + s <= s * j
  <2>1. s * (i + 1) <= s * j
    BY <1>3, SMTT(30)
  <2>2. s * (i + 1) = s * i + s
    BY SMTT(30)
  <2> QED BY <2>1, <2>2, SMTT(30)
<1>4. x \in Int /\ y \in Int
  BY <1>1, SMTT(30)
<1>5. (q < p => y + s <= x) /\ (p < q => x + s <= y)
  BY <1>1, <1>3
<1>6. q = p => y = x
  OBVIOUS
<1> HIDE DEF x, y
<1>7. (b - u <= a /\ a <= b - u + s - 1) <=> q = p
  BY <1>1, <1>2, <1>4, <1>5, <1>6
<1> QED BY <1>7 DEF p, q, u

\* matches_allowlist: an entry matches exactly the hosts it stands for.
THEOREM MatchingIsPermitting ==
    ASSUME NEW host \in Text, NEW e \in Entry, e.kind \in {"network", "host", "suffix"}
    PROVE  EntryMatches(host, e) <=> host \in Permits(e)
<1>1. CASE e.kind = "host"
  BY <1>1 DEF EntryMatches, Permits
<1>2. CASE e.kind = "network"
  <2> DEFINE n == e.network
  <2>1. n.number \in Nat /\ n.size \in Nat \ {0}
    BY <1>2, SizeAssumption DEF Entry, Network
  <2>2. IsAddress(host) => AddressOf[host].number \in Nat
    BY AddressAssumption DEF IsAddress, Address
  <2>3. EntryMatches(host, e) <=> IsAddress(host) /\ Contains(n, AddressOf[host])
    BY <1>2 DEF EntryMatches
  <2>4. host \in Permits(e)
          <=> /\ IsAddress(host) /\ AddressOf[host].family = n.family
              /\ AddressOf[host].number \div n.size = n.number \div n.size
    BY <1>2 DEF Permits
  <2> HIDE DEF n
  <2>5. ASSUME IsAddress(host)
        PROVE  (Lowest(n) <= AddressOf[host].number /\ AddressOf[host].number <= Highest(n))
                 <=> AddressOf[host].number \div n.size = n.number \div n.size
    <3> DEFINE a == AddressOf[host].number
    <3>1. (n.number - (n.number % n.size) <= a /\ a <= n.number - (n.number % n.size) + n.size - 1)
            <=> a \div n.size = n.number \div n.size
      <4>1. a \in Nat
        BY <2>2, <2>5
      <4>2. \A b \in Nat, size \in Nat \ {0} :
              (b - (b % size) <= a /\ a <= b - (b % size) + size - 1) <=> a \div size = b \div size
        <5> HIDE DEF a
        <5> QED BY <4>1, BlockIsPrefix, Zenon
      <4> HIDE DEF a
      <4> QED BY <2>1, <4>2, Zenon
    <3> QED BY <3>1, Zenon DEF Lowest, Highest
  <2>6. Contains(n, AddressOf[host])
          <=> /\ n.family = AddressOf[host].family
              /\ Lowest(n) <= AddressOf[host].number /\ AddressOf[host].number <= Highest(n)
    BY DEF Contains
  <2> QED BY <2>3, <2>4, <2>5, <2>6, Zenon
<1>3. CASE e.kind = "suffix"
  <2> DEFINE t == e.text
  <2>1. /\ t \in Seq(STRING) /\ host \in Seq(STRING)
        /\ Len(t) \in Nat \ {0} /\ Len(host) \in Nat
        /\ DOMAIN host = 1 .. Len(host) /\ DOMAIN t = 1 .. Len(t)
    <3>1. t \in Text
      BY <1>3 DEF Entry
    <3> QED BY <3>1, TextAssumption
  <2>2. EntryMatches(host, e) <=> EndsWith(host, t)
    BY <1>3 DEF EntryMatches
  <2>3. host \in Permits(e) <=> \E i \in DOMAIN host : SubSeq(host, i, Len(host)) = t
    BY <1>3 DEF Permits
  <2> HIDE DEF t
  <2>4. ASSUME EndsWith(host, t)
        PROVE  \E i \in DOMAIN host : SubSeq(host, i, Len(host)) = t
    <3> DEFINE k == Len(host) - Len(t) + 1
    <3>1. k \in DOMAIN host
      BY <2>1, <2>4 DEF EndsWith
    <3>2. SubSeq(host, k, Len(host)) = t
      <4>1. /\ SubSeq(host, k, Len(host)) \in Seq(STRING)
            /\ Len(SubSeq(host, k, Len(host))) = Len(t)
        BY <2>1, <2>4, <3>1 DEF EndsWith
      <4>2. \A i \in 1 .. Len(t) : SubSeq(host, k, Len(host))[i] = t[i]
        BY <2>1, <2>4, <3>1 DEF EndsWith
      <4> QED BY <2>1, <4>1, <4>2
    <3> QED BY <3>1, <3>2
  <2>5. ASSUME NEW i \in DOMAIN host, SubSeq(host, i, Len(host)) = t
        PROVE  EndsWith(host, t)
    <3>1. Len(t) = Len(host) - i + 1
      BY <2>1, <2>5
    <3>2. \A j \in 1 .. Len(host) - i + 1 : SubSeq(host, i, Len(host))[j] = host[i + j - 1]
      BY <2>1
    <3>3. Len(t) <= Len(host)
      BY <2>1, <3>1
    <3>4. ASSUME NEW j \in 1 .. Len(t)
          PROVE  host[Len(host) - Len(t) + j] = t[j]
      <4>1. t[j] = host[i + j - 1]
        BY <2>5, <3>1, <3>2
      <4>2. Len(host) - Len(t) + j = i + j - 1
        BY <2>1, <3>1
      <4> QED BY <4>1, <4>2
    <3> QED BY <3>3, <3>4 DEF EndsWith
  <2> QED BY <2>2, <2>3, <2>4, <2>5
<1> QED BY <1>1, <1>2, <1>3

-----------------------------------------------------------------------------
(***************************************************************************)
(* The report.                                                             *)
(***************************************************************************)
PlanSpec == [repo : Repo, ref : Ref, users : Nat]
Pool == [generators : 1 .. MaxInt, usersEach : 1 .. MaxInt, held : Nat, active : BOOLEAN]

InputOK ==
    /\ input.plans \in PlanLists
    /\ input.requested \in Asked
    /\ input.pool \in Pools
    /\ input.allowlist \in AllowLists
    /\ input.variables \in [Variable -> Text \cup {Unresolved}]

TypesOK ==
    /\ InputOK
    /\ healthy \in BOOLEAN
    /\ head \in [Repo \X Named -> Commit \cup {Unresolved}]
    /\ next \in 1 .. Len(input.plans) + 1
    /\ resolved \in [RepoName -> Commit \cup {Unresolved}]
    /\ pinned \in [Plans -> Commit \cup {Unresolved}]

\* The plans the first pass has dealt with.
Seen == IF stage \in {"fetching", "reported", "answered"} \/ report # <<>>
        THEN Plans ELSE {i \in Plans : i < next}

\* Each of them failed or has its commit.
SeenIsPinned == \A i \in Seen : i \in failed \/ pinned[i] # Unresolved

\* Nobody has reported before both passes are over.
NothingEarly ==
    report = <<>> \/ (stage \in {"reported", "answered", "error"} /\ next \notin Plans)

\* What is reported is what the checks say.
ReportStands ==
    report # <<>> =>
        report = <<StructureCheck, RefCheck, ParseCheck, VariablesCheck, TargetsCheck, CapacityCheck>>

IInv == TypesOK /\ SeenIsPinned /\ NothingEarly /\ ReportStands

LEMMA InputFacts ==
    ASSUME InputOK
    PROVE  /\ input.plans \in Seq(PlanSpec) /\ Len(input.plans) \in Nat \ {0}
           /\ Plans = 1 .. Len(input.plans) /\ Plans # {}
           /\ input.requested \in Nat
           /\ input.allowlist \in SUBSET Entry
           /\ ActivePool => input.pool \in Pool
<1>1. input.plans \in Seq(PlanSpec) /\ input.plans # <<>>
  BY InputAssumption DEF InputOK, PlanSpec
<1>2. Len(input.plans) \in Nat \ {0} /\ Plans = 1 .. Len(input.plans)
  BY <1>1 DEF Plans
<1>3. 1 \in Plans
  BY <1>2
<1>4. input.requested \in Nat /\ input.allowlist \in SUBSET Entry
  BY InputAssumption DEF InputOK
<1>5. ActivePool => input.pool \in Pool
  BY InputAssumption DEF InputOK, Pool, ActivePool
<1> QED BY <1>1, <1>2, <1>3, <1>4, <1>5

LEMMA InitIInv == Init => IInv
<1> SUFFICES ASSUME Init PROVE IInv
  OBVIOUS
<1>1. InputOK
  BY DEF Init, InputOK
<1>2. /\ next = 1 /\ stage = "gathering" /\ report = <<>>
      /\ Len(input.plans) \in Nat \ {0} /\ Plans = 1 .. Len(input.plans)
  BY <1>1, InputFacts DEF Init
<1>3. TypesOK
  <2>1. next \in 1 .. Len(input.plans) + 1
    BY <1>2
  <2>2. resolved \in [RepoName -> Commit \cup {Unresolved}]
    BY DEF Init
  <2>3. pinned \in [Plans -> Commit \cup {Unresolved}]
    BY DEF Init
  <2>4. head \in [Repo \X Named -> Commit \cup {Unresolved}]
    BY DEF Init
  <2>5. healthy \in BOOLEAN
    BY DEF Init
  <2> QED BY <1>1, <2>1, <2>2, <2>3, <2>4, <2>5 DEF TypesOK
<1>4. Seen = {}
  BY <1>2 DEF Seen
<1> QED BY <1>2, <1>3, <1>4 DEF IInv, SeenIsPinned, NothingEarly, ReportStands

\* While the passes run, nothing has been reported.
LEMMA GatheringKeeps ==
    ASSUME IInv, input' = input, report' = report, stage \in {"gathering", "resolving", "fetching"},
           TypesOK', SeenIsPinned'
    PROVE  IInv'
<1>1. report = <<>>
  BY DEF IInv, NothingEarly
<1> QED BY <1>1 DEF IInv, NothingEarly, ReportStands

LEMMA FirstPassKeeps ==
    ASSUME IInv, ResolveRef \/ FailRef \/ BeginFetching
    PROVE  IInv'
<1>1. /\ stage = "resolving" /\ report = <<>> /\ input' = input /\ report' = report /\ head' = head
      /\ healthy' = healthy
      /\ Plans' = Plans /\ Plans = 1 .. Len(input.plans) /\ Len(input.plans) \in Nat \ {0}
      /\ next \in 1 .. Len(input.plans) + 1
  BY InputFacts DEF IInv, TypesOK, NothingEarly, ResolveRef, FailRef, BeginFetching, Plans
<1>2. \A i \in Plans : i < next => i \in failed \/ pinned[i] # Unresolved
  BY <1>1 DEF IInv, SeenIsPinned, Seen
<1>3. CASE ResolveRef
  <2> DEFINE p == Plan(next).repo
             sha == Resolution(next)
  <2>1. /\ next \in Plans /\ next' = next + 1 /\ stage' = stage /\ failed' = failed
        /\ sha # Unresolved
        /\ resolved' = [resolved EXCEPT ![NameOf[p]] = sha]
        /\ pinned' = [pinned EXCEPT ![next] = sha]
    BY <1>3 DEF ResolveRef
  <2>2. p \in Repo /\ Plan(next).ref \in Ref
    <3>1. input.plans[next] \in PlanSpec
      BY <1>1, <2>1, InputFacts DEF IInv, TypesOK
    <3> QED BY <3>1 DEF PlanSpec, Plan, p
  <2>3. sha \in Commit
    BY <2>1, <2>2 DEF Resolution, Named, IInv, TypesOK
  <2> HIDE DEF p, sha
  <2>4. TypesOK'
    <3>1. next' \in 1 .. Len(input'.plans) + 1
      BY <1>1, <2>1
    <3>2. resolved' \in [RepoName -> Commit \cup {Unresolved}]
      BY <2>1, <2>3 DEF IInv, TypesOK
    <3>3. pinned' \in [Plans' -> Commit \cup {Unresolved}]
      BY <1>1, <2>1, <2>3 DEF IInv, TypesOK
    <3> QED BY <1>1, <3>1, <3>2, <3>3 DEF IInv, TypesOK, InputOK
  <2>5. \A i \in Plans : i < next' => i \in failed' \/ pinned'[i] # Unresolved
    BY <1>1, <1>2, <2>1 DEF IInv, TypesOK
  <2>6. SeenIsPinned'
    BY <1>1, <2>1, <2>5 DEF SeenIsPinned, Seen
  <2> QED BY <1>1, <2>4, <2>6, GatheringKeeps
<1>4. CASE FailRef
  <2>1. /\ next \in Plans /\ next' = next + 1 /\ stage' = stage /\ failed' = failed \cup {next}
        /\ resolved' = resolved /\ pinned' = pinned
    BY <1>4 DEF FailRef
  <2>2. TypesOK'
    BY <1>1, <2>1 DEF IInv, TypesOK, InputOK
  <2>3. SeenIsPinned'
    BY <1>1, <1>2, <2>1 DEF SeenIsPinned, Seen
  <2> QED BY <1>1, <2>2, <2>3, GatheringKeeps
<1>5. CASE BeginFetching
  <2>1. /\ next \notin Plans /\ next' = 1 /\ stage' = "fetching" /\ failed' = failed
        /\ resolved' = resolved /\ pinned' = pinned
    BY <1>5 DEF BeginFetching
  <2>2. TypesOK'
    BY <1>1, <2>1 DEF IInv, TypesOK, InputOK
  <2>3. \A i \in Plans : i < next
    BY <1>1, <2>1
  <2>4. SeenIsPinned'
    BY <1>1, <1>2, <2>1, <2>3 DEF SeenIsPinned, Seen
  <2> QED BY <1>1, <2>2, <2>4, GatheringKeeps
<1> QED BY <1>3, <1>4, <1>5

LEMMA OtherGatheringKeeps ==
    ASSUME IInv, Gather \/ GatherOverflow \/ RaiseInResolve
           \/ SkipPlan \/ FetchPlan \/ FailPlan \/ RaiseInFetch \/ Push
    PROVE  IInv'
<1>1. /\ stage \in {"gathering", "resolving", "fetching"}
      /\ stage = "fetching" => stage' \in {stage, "error"}
      /\ stage # "fetching" => stage' \notin {"fetching", "reported", "answered"} /\ next' = next
      /\ next' = next \/ (next' = next + 1 /\ next \in Plans)
      /\ UNCHANGED <<input, healthy, report, resolved, failed, pinned>>
      /\ head' \in [Repo \X Named -> Commit \cup {Unresolved}]
  <2>1. CASE Push
    <3>1. ASSUME NEW p \in Repo, NEW ref \in Named, NEW c \in Holds[p] \cup {Unresolved},
                 head' = [head EXCEPT ![<<p, ref>>] = c]
          PROVE  head' \in [Repo \X Named -> Commit \cup {Unresolved}]
      <4>1. c \in Commit \cup {Unresolved}
        BY HoldsAssumption
      <4> QED BY <3>1, <4>1 DEF IInv, TypesOK
    <3> QED BY <2>1, <3>1 DEF Push
  <2>2. CASE ~Push
    BY <2>2 DEF Gather, GatherOverflow, RaiseInResolve, SkipPlan, FetchPlan, FailPlan, RaiseInFetch,
                IInv, TypesOK
  <2> QED BY <2>1, <2>2
<1>2. Plans' = Plans /\ Plans = 1 .. Len(input.plans) /\ Len(input.plans) \in Nat \ {0}
  BY <1>1, InputFacts DEF IInv, TypesOK, Plans
<1>3. TypesOK'
  BY <1>1, <1>2 DEF IInv, TypesOK, InputOK
<1>4. report = <<>>
  BY <1>1 DEF IInv, NothingEarly
<1>5. Seen' \subseteq Seen
  BY <1>1, <1>2, <1>4 DEF Seen
<1>6. SeenIsPinned'
  BY <1>1, <1>5 DEF IInv, SeenIsPinned
<1> QED BY <1>1, <1>3, <1>6, GatheringKeeps

\* The checks depend on what has been gathered and read, which stands from then on.
LEMMA ChecksStand ==
    ASSUME UNCHANGED <<input, failed, summaries, unparsed>>
    PROVE  UNCHANGED <<StructureCheck, RefCheck, ParseCheck, VariablesCheck, TargetsCheck,
                       CapacityCheck>>
<1>1. Plans' = Plans /\ Declared' = Declared
  BY DEF Plans, Declared
<1>2. StructureCheck' = StructureCheck /\ RefCheck' = RefCheck /\ ParseCheck' = ParseCheck
  BY <1>1 DEF StructureCheck, RefCheck, ParseCheck
<1>3. VariablesCheck' = VariablesCheck
  BY DEF VariablesCheck, Blocked, Stored
<1>4. TargetsCheck' = TargetsCheck
  BY DEF TargetsCheck, Blocked, ResolveHost
<1>5. CapacityCheck' = CapacityCheck
  BY DEF CapacityCheck, ActivePool, FreeCapacity
<1> QED BY <1>2, <1>3, <1>4, <1>5

LEMMA ReportKeeps ==
    ASSUME IInv, Report \/ RecordValidation \/ LoseReport
    PROVE  IInv'
<1>1. /\ UNCHANGED <<input, healthy, head, next, resolved, failed, summaries, unparsed, pinned>>
      /\ stage \in {"fetching", "reported"} /\ stage' \in {"reported", "answered", "error"}
      /\ stage = "fetching" => Report /\ next \notin Plans /\ stage' = "reported"
      /\ stage # "fetching" => report' = report
  BY DEF Report, RecordValidation, LoseReport
<1>2. TypesOK' /\ Plans' = Plans
  BY <1>1 DEF IInv, TypesOK, InputOK, Plans
<1>3. \A i \in Plans : i \in failed \/ pinned[i] # Unresolved
  BY <1>1 DEF IInv, SeenIsPinned, Seen
<1>4. SeenIsPinned'
  <2>1. Seen' \subseteq Plans
    BY <1>2 DEF Seen
  <2> QED BY <1>1, <1>3, <2>1 DEF SeenIsPinned
<1>5. NothingEarly'
  BY <1>1, <1>2 DEF IInv, NothingEarly
<1>6. ReportStands'
  <2>1. CASE stage = "fetching"
    BY <1>1, <2>1, ChecksStand DEF Report, ReportStands
  <2>2. CASE stage # "fetching"
    BY <1>1, <2>2, ChecksStand DEF IInv, ReportStands
  <2> QED BY <2>1, <2>2
<1> QED BY <1>2, <1>4, <1>5, <1>6 DEF IInv

LEMMA Inductive == Spec => []IInv
<1>1. IInv /\ [Next]_vars => IInv'
  <2> SUFFICES ASSUME IInv, [Next]_vars PROVE IInv'
    OBVIOUS
  <2>1. CASE UNCHANGED vars
    <3>1. UNCHANGED <<input, failed, summaries, unparsed>> /\ UNCHANGED vars
      BY <2>1 DEF vars
    <3> QED BY <3>1, ChecksStand
        DEF vars, IInv, TypesOK, InputOK, SeenIsPinned, Seen, Plans, NothingEarly, ReportStands
  <2>2. CASE Next
    BY <2>2, FirstPassKeeps, OtherGatheringKeeps, ReportKeeps DEF Next
  <2> QED BY <2>1, <2>2
<1> QED BY InitIInv, <1>1, PTL DEF Spec

-----------------------------------------------------------------------------
LEMMA ChecksAreStatuses ==
    {StructureCheck, RefCheck, ParseCheck, VariablesCheck, TargetsCheck, CapacityCheck}
      \subseteq Status
  BY DEF StructureCheck, RefCheck, ParseCheck, VariablesCheck, TargetsCheck, CapacityCheck, Passes,
         Status

\* What parse_plan finds out about a plan that parses.
LEMMA SummaryIs ==
    ASSUME NEW c \in Content
    PROVE  /\ c.elements \in Seq(Element)
           /\ ParsePlan(c) = [targets |-> Targets(c.elements), variables |-> c.variables]
<1>1. c # Broken /\ c # Raising /\ c.elements \in Seq(Element)
  BY ContentAssumption
<1> QED BY <1>1 DEF ParsePlan

LEMMA SummaryType ==
    ASSUME NEW c \in Commit, PlanAt[c] \in Content
    PROVE  ParsePlan(PlanAt[c]) \in [targets : SUBSET NamedHost, variables : SUBSET Variable]
<1>1. /\ PlanAt[c].elements \in Seq(Element) /\ PlanAt[c].variables \subseteq Variable
  BY ContentAssumption
<1>2. Targets(PlanAt[c].elements) \subseteq NamedHost
  BY <1>1, TargetsAreNamed
<1> QED BY <1>1, <1>2, SummaryIs

LEMMA TypeStep == ASSUME IInv, IInv', TypeOK, [Next]_vars PROVE TypeOK'
<1>1. /\ healthy' \in BOOLEAN /\ head' \in [Repo \X Named -> Commit \cup {Unresolved}]
      /\ next' \in 1 .. Len(input'.plans) + 1
      /\ resolved' \in [RepoName -> Commit \cup {Unresolved}]
      /\ pinned' \in [Plans' -> Commit \cup {Unresolved}]
  BY DEF IInv, TypesOK
<1>2. input' = input /\ Plans' = Plans
  BY DEF vars, Next, Gather, GatherOverflow, ResolveRef, FailRef, RaiseInResolve, BeginFetching, SkipPlan,
         FetchPlan, FailPlan, RaiseInFetch, Report, RecordValidation, LoseReport, Push, Plans
<1>3. stage' \in {"gathering", "resolving", "fetching", "reported", "answered", "error"}
  BY DEF TypeOK, vars, Next, Gather, GatherOverflow, ResolveRef, FailRef, RaiseInResolve,
         BeginFetching, SkipPlan,
         FetchPlan, FailPlan, RaiseInFetch, Report, RecordValidation, LoseReport, Push
<1>4. failed' \subseteq Plans /\ unparsed' \subseteq Plans
  BY DEF TypeOK, vars, Next, Gather, GatherOverflow, ResolveRef, FailRef, RaiseInResolve,
         BeginFetching, SkipPlan,
         FetchPlan, FailPlan, RaiseInFetch, Report, RecordValidation, LoseReport, Push
<1>5. summaries' \subseteq [targets : SUBSET NamedHost, variables : SUBSET Variable]
  <2>1. CASE FetchPlan
    <3>1. Plan(next).repo \in Repo
      <4>1. input.plans[next] \in PlanSpec
        BY <2>1, InputFacts DEF FetchPlan, IInv, TypesOK, Plans
      <4> QED BY <4>1 DEF PlanSpec, Plan
    <3>2. ShaOf(next) \in Commit
      BY <2>1, <3>1, HoldsAssumption DEF FetchPlan
    <3>3. ParsePlan(PlanAt[ShaOf(next)]) \in [targets : SUBSET NamedHost, variables : SUBSET Variable]
      BY <2>1, <3>2, SummaryType DEF FetchPlan
    <3> QED BY <2>1, <3>3 DEF FetchPlan, TypeOK
  <2>2. CASE ~FetchPlan
    <3>1. summaries' = summaries
      BY <2>2 DEF vars, Next, Gather, GatherOverflow, ResolveRef, FailRef, RaiseInResolve, BeginFetching, SkipPlan,
                  FailPlan, RaiseInFetch, Report, RecordValidation, LoseReport, Push
    <3> QED BY <3>1 DEF TypeOK
  <2> QED BY <2>1, <2>2
<1>6. report' \in UNION {[1 .. n -> Status] : n \in {0, Len(Codes)}}
  <2>1. CASE Report
    <3>1. report' = <<StructureCheck, RefCheck, ParseCheck, VariablesCheck, TargetsCheck, CapacityCheck>>
      BY <2>1 DEF Report
    <3>2. report' \in [1 .. 6 -> Status]
      BY <3>1, ChecksAreStatuses
    <3>3. Len(Codes) = 6
      BY DEF Codes
    <3> QED BY <3>2, <3>3
  <2>2. CASE ~Report
    <3>1. report' = report
      BY <2>2 DEF vars, Next, Gather, GatherOverflow, ResolveRef, FailRef, RaiseInResolve, BeginFetching, SkipPlan,
                  FetchPlan, FailPlan, RaiseInFetch, RecordValidation, LoseReport, Push
    <3> QED BY <3>1 DEF TypeOK
  <2> QED BY <2>1, <2>2
<1>7. audit' \subseteq {Codes[i] : i \in DOMAIN Codes}
  <2>1. CASE RecordValidation
    <3>1. DOMAIN report \subseteq DOMAIN Codes
      <4>1. Len(Codes) = 6 /\ DOMAIN Codes = 1 .. 6
        BY DEF Codes
      <4>2. DOMAIN report = 1 .. 0 \/ DOMAIN report = 1 .. 6
        BY <4>1 DEF TypeOK
      <4> QED BY <4>1, <4>2
    <3> QED BY <2>1, <3>1 DEF RecordValidation
  <2>2. CASE ~RecordValidation
    <3>1. audit' = audit
      BY <2>2 DEF vars, Next, Gather, GatherOverflow, ResolveRef, FailRef, RaiseInResolve, BeginFetching, SkipPlan,
                  FetchPlan, FailPlan, RaiseInFetch, Report, LoseReport, Push
    <3> QED BY <3>1 DEF TypeOK
  <2> QED BY <2>1, <2>2
<1> QED BY <1>1, <1>2, <1>3, <1>4, <1>5, <1>6, <1>7 DEF TypeOK

\* Whatever plans are fetched, all that a report is made from is well typed: what is found
\* out about a plan is hosts and variables that can be named.
THEOREM TypeCorrect == Spec => []TypeOK
<1>1. Init => TypeOK
  <2> SUFFICES ASSUME Init PROVE TypeOK
    OBVIOUS
  <2>1. <<>> \in [1 .. 0 -> Status]
    OBVIOUS
  <2>2. report \in UNION {[1 .. n -> Status] : n \in {0, Len(Codes)}}
    BY <2>1 DEF Init
  <2> QED BY <2>2, InitIInv DEF Init, IInv, TypesOK, TypeOK
<1>2. IInv /\ IInv' /\ TypeOK /\ [Next]_vars => TypeOK'
  BY TypeStep
<1> QED BY <1>1, <1>2, Inductive, PTL DEF Spec

-----------------------------------------------------------------------------
\* Where each check stands in the report.
LEMMA Outcomes ==
    ASSUME IInv, report # <<>>
    PROVE  /\ Outcome("TEST_STRUCTURE") = StructureCheck
           /\ Outcome("SCRIPT_REF") = RefCheck
           /\ Outcome("PLAN_PARSES") = ParseCheck
           /\ Outcome("VARIABLES_PRESENT") = VariablesCheck
           /\ Outcome("TARGET_ALLOWED") = TargetsCheck
           /\ Outcome("CAPACITY") = CapacityCheck
<1>1. report = <<StructureCheck, RefCheck, ParseCheck, VariablesCheck, TargetsCheck, CapacityCheck>>
  BY DEF IInv, ReportStands
<1>2. /\ (CHOOSE i \in DOMAIN Codes : Codes[i] = "TEST_STRUCTURE") = 1
      /\ (CHOOSE i \in DOMAIN Codes : Codes[i] = "SCRIPT_REF") = 2
      /\ (CHOOSE i \in DOMAIN Codes : Codes[i] = "PLAN_PARSES") = 3
      /\ (CHOOSE i \in DOMAIN Codes : Codes[i] = "VARIABLES_PRESENT") = 4
      /\ (CHOOSE i \in DOMAIN Codes : Codes[i] = "TARGET_ALLOWED") = 5
      /\ (CHOOSE i \in DOMAIN Codes : Codes[i] = "CAPACITY") = 6
  BY DEF Codes
<1>3. /\ report[1] = StructureCheck /\ report[2] = RefCheck /\ report[3] = ParseCheck
      /\ report[4] = VariablesCheck /\ report[5] = TargetsCheck /\ report[6] = CapacityCheck
  BY <1>1
<1>4. \A code : Outcome(code) = report[CHOOSE i \in DOMAIN Codes : Codes[i] = code]
  BY DEF Outcome
<1> QED BY <1>2, <1>3, <1>4, Zenon

-----------------------------------------------------------------------------
(***************************************************************************)
(* What a report that is ok vouches for, where the dictionary by name does *)
(* no harm: no two plans of a test are of repositories of one name.        *)
(***************************************************************************)
NamesDiffer ==
    \A plans \in PlanLists : \A i, j \in DOMAIN plans :
        NameOf[plans[i].repo] = NameOf[plans[j].repo] => i = j

DefaultsDoNotCompete == \A c \in Content : OneDefault(c.elements)

\* The plans the second pass has dealt with.
Fetched == IF stage = "fetching" THEN {i \in Plans : i < next}
           ELSE IF report # <<>> THEN Plans ELSE {}

\* The dictionary has each plan's own commit, and what was fetched is that commit's.
LooksAtPinned ==
    /\ \A i \in Seen : i \in failed \/ ShaOf(i) = pinned[i]
    /\ \A i \in Fetched :
         \/ ShaOf(i) = Unresolved
         \/ i \in unparsed
         \/ /\ ShaOf(i) \in Holds[Plan(i).repo] /\ PlanAt[ShaOf(i)] \in Content
            /\ ParsePlan(PlanAt[ShaOf(i)]) \in summaries

LEMMA ResolveRefLooks ==
    ASSUME NamesDiffer, IInv, LooksAtPinned, ResolveRef
    PROVE  LooksAtPinned'
<1>0. PICK k \in Plans : k = next
  BY DEF ResolveRef
<1> DEFINE sha == Resolution(next)
           name == NameOf[Plan(k).repo]
<1>1. /\ stage = "resolving" /\ report = <<>> /\ stage' = stage /\ report' = report
      /\ input' = input /\ failed' = failed /\ next' = next + 1
      /\ k = next /\ Plans = 1 .. Len(input.plans) /\ Len(input.plans) \in Nat
      /\ resolved' = [resolved EXCEPT ![name] = sha] /\ pinned' = [pinned EXCEPT ![k] = sha]
  BY <1>0, InputFacts DEF IInv, TypesOK, NothingEarly, ResolveRef
<1>2. \A i \in Plans : Plan(i).repo \in Repo /\ NameOf[Plan(i).repo] \in RepoName
  <2>1. ASSUME NEW i \in Plans PROVE input.plans[i] \in PlanSpec
    BY <1>1, InputFacts DEF IInv, TypesOK
  <2> QED BY <2>1, NameAssumption DEF PlanSpec, Plan
<1>3. \A i \in Plans : NameOf[Plan(i).repo] = name => i = k
  BY <1>1 DEF NamesDiffer, IInv, TypesOK, InputOK, Plan, Plans
<1> HIDE DEF sha, name
<1>4. /\ pinned'[k] = sha
      /\ \A i \in Plans \ {k} : pinned'[i] = pinned[i]
  BY <1>1 DEF IInv, TypesOK
<1>5. /\ ShaOf(k)' = sha
      /\ \A i \in Plans \ {k} : ShaOf(i)' = ShaOf(i)
  <2>1. resolved \in [RepoName -> Commit \cup {Unresolved}]
    BY DEF IInv, TypesOK
  <2>2. name = NameOf[Plan(k).repo] /\ \A i \in Plans : Plan(i)' = Plan(i)
    BY <1>1 DEF name, Plan
  <2>3. \A i \in Plans : /\ ShaOf(i) = resolved[NameOf[Plan(i).repo]]
                         /\ ShaOf(i)' = resolved'[NameOf[Plan(i).repo]]
    BY <2>2 DEF ShaOf
  <2>4. /\ name \in RepoName => resolved'[name] = sha
        /\ \A n \in RepoName \ {name} : resolved'[n] = resolved[n]
    BY <1>1, <2>1
  <2> QED BY <1>1, <1>2, <1>3, <2>2, <2>3, <2>4
<1>6. Seen' = Seen \cup {k} /\ Fetched' = {}
  BY <1>1 DEF Seen, Fetched, Plans
<1>7. Seen \subseteq Plans /\ k \notin Seen
  BY <1>1 DEF Seen
<1>8. \A i \in Seen' : i \in failed' \/ ShaOf(i)' = pinned'[i]
  <2>1. ShaOf(k)' = pinned'[k]
    BY <1>4, <1>5
  <2>2. ASSUME NEW i \in Seen PROVE i \in failed' \/ ShaOf(i)' = pinned'[i]
    BY <1>1, <1>4, <1>5, <1>7 DEF LooksAtPinned
  <2> QED BY <1>6, <2>1, <2>2
<1> QED BY <1>6, <1>8 DEF LooksAtPinned

LEMMA OtherStepsLook ==
    ASSUME IInv, LooksAtPinned, Next, ~ResolveRef
    PROVE  LooksAtPinned'
<1>1. /\ input' = input /\ resolved' = resolved /\ pinned' = pinned
      /\ failed \subseteq failed' /\ unparsed \subseteq unparsed' /\ summaries \subseteq summaries'
  BY DEF Next, Gather, GatherOverflow, FailRef, RaiseInResolve, BeginFetching, SkipPlan, FetchPlan,
         FailPlan, RaiseInFetch, Report, RecordValidation, LoseReport, Push
<1>2. Plans' = Plans /\ (\A i \in Plans : ShaOf(i)' = ShaOf(i) /\ Plan(i)' = Plan(i))
      /\ Plans = 1 .. Len(input.plans) /\ Len(input.plans) \in Nat
      /\ next \in 1 .. Len(input.plans) + 1
  BY <1>1, InputFacts DEF IInv, TypesOK, Plans, ShaOf, Plan
<1>3. \A i \in Seen' : i \in failed' \/ ShaOf(i) = pinned[i]
  <2>1. ASSUME NEW i \in Seen', i \notin Seen
        PROVE  i \in failed'
    <3>1. CASE FailRef
      BY <1>1, <1>2, <2>1, <3>1 DEF FailRef, Seen
    <3>2. CASE BeginFetching
      BY <1>1, <1>2, <2>1, <3>2 DEF BeginFetching, Seen
    <3>3. CASE ~FailRef /\ ~BeginFetching
      <4>1. /\ stage = "fetching" => stage' \in {"fetching", "reported", "error"}
            /\ stage # "fetching" => stage' \notin {"fetching"} /\ next' = next /\ report' = report
            /\ stage \in {"gathering", "resolving"} => stage' \notin {"reported", "answered"}
            /\ stage' \in {"reported", "answered"} => stage \in {"fetching", "reported"}
        BY <3>3 DEF Next, Gather, GatherOverflow, RaiseInResolve, SkipPlan, FetchPlan, FailPlan,
                    RaiseInFetch, Report, RecordValidation, LoseReport, Push
      <4>2. Seen' \subseteq Seen
        BY <1>1, <1>2, <4>1 DEF Seen
      <4> QED BY <2>1, <4>2
    <3> QED BY <3>1, <3>2, <3>3
  <2> QED BY <1>1, <2>1 DEF LooksAtPinned
<1>4. ASSUME NEW i \in Fetched', i \notin Fetched
      PROVE  \/ ShaOf(i) = Unresolved
             \/ i \in unparsed'
             \/ /\ ShaOf(i) \in Holds[Plan(i).repo] /\ PlanAt[ShaOf(i)] \in Content
                /\ ParsePlan(PlanAt[ShaOf(i)]) \in summaries'
  <2>1. CASE SkipPlan \/ FetchPlan \/ FailPlan
    <3>1. i = next
      BY <1>1, <1>2, <1>4, <2>1 DEF SkipPlan, FetchPlan, FailPlan, Fetched
    <3> QED BY <2>1, <3>1 DEF SkipPlan, FetchPlan, FailPlan
  <2>2. CASE ~(SkipPlan \/ FetchPlan \/ FailPlan)
    <3>1. CASE Report
      BY <1>1, <1>2, <1>4, <3>1 DEF Report, Fetched
    <3>2. CASE BeginFetching
      BY <1>1, <1>2, <1>4, <3>2 DEF BeginFetching, Fetched
    <3>3. CASE ~Report /\ ~BeginFetching
      <4>1. /\ report' = report /\ (stage' = "fetching" => stage = "fetching")
            /\ stage = "fetching" => report = <<>>
            /\ stage = "fetching" => next' = next
        BY <2>2, <3>3 DEF Next, Gather, GatherOverflow, FailRef, RaiseInResolve, RaiseInFetch,
                          RecordValidation, LoseReport, Push, IInv, NothingEarly
      <4> QED BY <1>2, <1>4, <4>1 DEF Fetched
    <3> QED BY <3>1, <3>2, <3>3
  <2> QED BY <2>1, <2>2
<1>5. Seen' \subseteq Plans /\ Fetched' \subseteq Plans
  BY <1>2 DEF Seen, Fetched
<1> QED BY <1>1, <1>2, <1>3, <1>4, <1>5 DEF LooksAtPinned

LEMMA Looks == NamesDiffer => (Spec => []LooksAtPinned)
<1> SUFFICES ASSUME NamesDiffer PROVE Spec => []LooksAtPinned
  OBVIOUS
<1>1. Init => LooksAtPinned
  <2> SUFFICES ASSUME Init PROVE LooksAtPinned
    OBVIOUS
  <2>1. Seen = {} /\ Fetched = {}
    BY InitIInv, InputFacts DEF Init, IInv, TypesOK, Seen, Fetched
  <2> QED BY <2>1 DEF LooksAtPinned
<1>2. IInv /\ LooksAtPinned /\ [Next]_vars => LooksAtPinned'
  <2>1. LooksAtPinned /\ UNCHANGED vars => LooksAtPinned'
    BY DEF vars, LooksAtPinned, Seen, Fetched, Plans, ShaOf, Plan
  <2> QED BY <2>1, ResolveRefLooks, OtherStepsLook
<1> QED BY <1>1, <1>2, Inductive, PTL DEF Spec

\* A host that passes TARGET_ALLOWED is permitted, by what it is or by what is stored.
LEMMA PassingIsPermitted ==
    ASSUME InputOK, NEW h \in NamedHost, ResolveHost(h) # Unresolved,
           MatchesAllowlist(ResolveHost(h), input.allowlist)
    PROVE  Permitted(h)
<1>1. PICK e \in input.allowlist : EntryMatches(ResolveHost(h), e)
  BY DEF MatchesAllowlist
<1>2. e \in Entry /\ e.kind \in {"network", "host", "suffix"}
  <2>1. e \in Entry
    BY InputFacts
  <2> QED BY <1>1, <2>1 DEF EntryMatches, Entry
<1>3. /\ ResolveHost(h) \in Text
      /\ ResolveHost(h) = h \/ (h \in Variable /\ ResolveHost(h) = input.variables[h])
  BY ContentAssumption DEF ResolveHost, InputOK
<1>4. ResolveHost(h) \in Permits(e)
  BY <1>1, <1>2, <1>3, MatchingIsPermitting
<1> QED BY <1>3, <1>4 DEF Permitted

\* A plan whose summary is among those that pass VARIABLES_PRESENT has its variables.
LEMMA PassingHasVariables ==
    ASSUME NEW c \in Content, ParsePlan(c) \in summaries, VariablesCheck = "PASS"
    PROVE  \A v \in c.variables : Stored(v)
<1>1. \A s \in summaries : \A v \in s.variables : Stored(v)
  BY DEF VariablesCheck, Passes
<1> QED BY <1>1, SummaryIs

\* A plan whose summary is among those that pass TARGET_ALLOWED reaches what is permitted.
LEMMA PassingReachesPermitted ==
    ASSUME InputOK, NEW c \in Content, OneDefault(c.elements), ParsePlan(c) \in summaries,
           TargetsCheck = "PASS", NEW h \in Reached(c.elements)
    PROVE  Permitted(h)
<1>1. /\ c.elements \in Seq(Element)
      /\ ParsePlan(c) = [targets |-> Targets(c.elements), variables |-> c.variables]
  BY SummaryIs
<1>2. h \in Targets(c.elements)
  BY <1>1, TargetsCoverReached
<1>3. h \in NamedHost
  <2>1. h # NoHost /\ \E i \in DOMAIN c.elements : h = c.elements[i].host
    BY DEF Reached, Of
  <2>2. \A i \in DOMAIN c.elements : c.elements[i] \in Element
    BY <1>1
  <2> QED BY <2>1, <2>2 DEF Element
<1>4. h \in UNION {s.targets : s \in summaries}
  BY <1>1, <1>2
<1>5. ResolveHost(h) # Unresolved /\ MatchesAllowlist(ResolveHost(h), input.allowlist)
  BY <1>4 DEF TargetsCheck, Passes
<1> QED BY <1>3, <1>5, PassingIsPermitted

\* What stands behind a check that passes.
LEMMA PassesStand ==
    ASSUME IInv, LooksAtPinned, DefaultsDoNotCompete, report # <<>>
    PROVE  /\ RefCheck = "PASS" => \A i \in Plans : pinned[i] # Unresolved
           /\ ParseCheck = "PASS" => \A i \in Plans : Parses(i)
           /\ VariablesCheck = "PASS" => \A i \in Plans : VariablesStored(i)
           /\ TargetsCheck = "PASS" => \A i \in Plans : HostsPermitted(i)
<1>1. stage # "fetching" /\ Seen = Plans /\ Fetched = Plans
  BY DEF IInv, NothingEarly, Seen, Fetched
<1>2. ASSUME failed = {}, NEW i \in Plans
      PROVE  pinned[i] # Unresolved /\ ShaOf(i) = pinned[i]
  BY <1>1, <1>2 DEF IInv, SeenIsPinned, LooksAtPinned
<1>3. ASSUME ~Blocked, NEW i \in Plans
      PROVE  /\ Parses(i)
             /\ PlanAt[pinned[i]] \in Content
             /\ ParsePlan(PlanAt[pinned[i]]) \in summaries
  <2>1. failed = {} /\ unparsed = {}
    BY <1>3 DEF Blocked
  <2>2. pinned[i] # Unresolved /\ ShaOf(i) = pinned[i]
    BY <1>2, <2>1
  <2> QED BY <1>1, <2>1, <2>2 DEF LooksAtPinned, Parses
<1>4. /\ RefCheck = "PASS" => failed = {}
      /\ ParseCheck = "PASS" => ~Blocked
      /\ VariablesCheck = "PASS" => ~Blocked
      /\ TargetsCheck = "PASS" => ~Blocked
  BY DEF RefCheck, ParseCheck, VariablesCheck, TargetsCheck, Blocked, Passes
<1>5. ASSUME VariablesCheck = "PASS", NEW i \in Plans PROVE VariablesStored(i)
  BY <1>3, <1>4, <1>5, PassingHasVariables DEF VariablesStored
<1>6. ASSUME TargetsCheck = "PASS", NEW i \in Plans PROVE HostsPermitted(i)
  <2>1. Parses(i) /\ PlanAt[pinned[i]] \in Content /\ ParsePlan(PlanAt[pinned[i]]) \in summaries
    BY <1>3, <1>4, <1>6
  <2>2. InputOK /\ OneDefault(PlanAt[pinned[i]].elements)
    BY <2>1 DEF IInv, TypesOK, DefaultsDoNotCompete
  <2>3. \A h \in Reached(PlanAt[pinned[i]].elements) : Permitted(h)
    BY <1>6, <2>1, <2>2, PassingReachesPermitted
  <2> QED BY <2>1, <2>3 DEF HostsPermitted
<1> QED BY <1>2, <1>3, <1>4, <1>5, <1>6

\* A check of the plans passes only when every plan stands it at the commit its own ref
\* named, in reports that are not ok as well (services/preflight.py, `blocked'): what was
\* read of some plans never passes for all, where no two plans are of repositories of one
\* name and no two defaults of a plan compete.
THEOREM PassesEarned == NamesDiffer /\ DefaultsDoNotCompete => (Spec => []PassesAreEarned)
<1> SUFFICES ASSUME NamesDiffer, DefaultsDoNotCompete PROVE Spec => []PassesAreEarned
  OBVIOUS
<1>1. IInv /\ LooksAtPinned => PassesAreEarned
  BY PassesStand, Outcomes DEF PassesAreEarned
<1>2. Spec => []IInv /\ []LooksAtPinned
  BY Inductive, Looks
<1> QED BY <1>1, <1>2, PTL

\* A report that is ok vouches for every plan at the commit its own ref named, for any
\* number of plans, whatever is pushed meanwhile, where no two plans are of repositories
\* of one name: what `run' keeps by name (resolved) is then each plan's own.
THEOREM OkVouches == NamesDiffer /\ DefaultsDoNotCompete => (Spec => []OkMeansRunnable)
<1> SUFFICES ASSUME NamesDiffer, DefaultsDoNotCompete PROVE Spec => []OkMeansRunnable
  OBVIOUS
<1>1. ASSUME IInv, LooksAtPinned, Ok
      PROVE  /\ \A i \in Plans : VariablesStored(i) /\ HostsPermitted(i)
             /\ Declared = input.requested
             /\ ActivePool /\ input.requested + input.pool.held <= Supply(input.pool)
  <2>1. /\ StructureCheck = "PASS" /\ RefCheck = "PASS" /\ ParseCheck = "PASS"
        /\ VariablesCheck = "PASS" /\ TargetsCheck = "PASS" /\ CapacityCheck = "PASS"
        /\ report # <<>>
    <3>1. report = <<StructureCheck, RefCheck, ParseCheck, VariablesCheck, TargetsCheck, CapacityCheck>>
          /\ report # <<>>
      BY <1>1 DEF Ok, IInv, ReportStands
    <3>2. /\ 1 \in DOMAIN report /\ 2 \in DOMAIN report /\ 3 \in DOMAIN report
          /\ 4 \in DOMAIN report /\ 5 \in DOMAIN report /\ 6 \in DOMAIN report
          /\ report[1] = StructureCheck /\ report[2] = RefCheck /\ report[3] = ParseCheck
          /\ report[4] = VariablesCheck /\ report[5] = TargetsCheck /\ report[6] = CapacityCheck
      BY <3>1
    <3> QED BY <1>1, <3>1, <3>2 DEF Ok
  <2>2. \A i \in Plans : VariablesStored(i) /\ HostsPermitted(i)
    BY <1>1, <2>1, PassesStand
  <2>3. Declared = input.requested
    BY <2>1 DEF StructureCheck, Passes
  <2>4. ActivePool /\ input.requested <= FreeCapacity
    BY <2>1 DEF CapacityCheck, Passes
  <2>5. input.requested + input.pool.held <= Supply(input.pool)
    <3>1. /\ input.requested \in Nat /\ input.pool.held \in Nat
          /\ input.pool.generators \in Nat /\ input.pool.usersEach \in Nat
      BY <1>1, <2>4, InputFacts, InputAssumption DEF IInv, TypesOK, Pool
    <3>2. Supply(input.pool) \in Int
      BY <3>1 DEF Supply
    <3> QED BY <2>4, <3>1, <3>2 DEF FreeCapacity
  <2> QED BY <2>2, <2>3, <2>4, <2>5
<1>2. IInv /\ LooksAtPinned => OkMeansRunnable
  BY <1>1 DEF OkMeansRunnable
<1>3. Spec => []IInv /\ []LooksAtPinned
  BY Inductive, Looks
<1> QED BY <1>2, <1>3, PTL

================================================================================

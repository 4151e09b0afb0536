---------------------------- MODULE SessionsProofs ----------------------------
(***************************************************************************)
(* Proofs about Sessions: whoever had a connection before, and whatever    *)
(* became of that, a request is shown the rows of its own organisation.    *)
(* And about what such a request is about when it verifies a repository:   *)
(* RefResolution and VerifyReport, for any refs, names and pushes, and for *)
(* trees that are laid out as the documentation shows.                     *)
(***************************************************************************)
EXTENDS MCVerifySessions, TLAPS

Kind == {"scoped", "login", "refresh", "probe", "git"}

InTransaction == {"lookup", "bind", "query", "end"}

\* What the handlers have in common: in which order they take their steps.
Follows(a, b) ==
    \/ a = "connect" /\ b \in {"lookup", "bind", "end"}
    \/ a = "lookup" /\ b \in {"bind", "end"}
    \/ a = "bind" /\ b = "query"
    \/ a = "query" /\ b = "end"
    \/ a = "end" /\ b \in {"connect", "resolve"}
    \/ a = "resolve" /\ b = "fetch"
    \/ a = "fetch" /\ b = "connect"

WellOrdered(h) ==
    /\ Len(h) \in Nat \ {0} /\ DOMAIN h = 1 .. Len(h)
    /\ h[1] = "connect" /\ h[Len(h)] = "end"
    /\ \A i \in 1 .. Len(h) - 1 : Follows(h[i], h[i + 1])

LEMMA HandlerKinds == DOMAIN Handlers = Kind
  BY DEF Handlers, Kind

\* Every handler opens a transaction first, binds it before it queries, and does its
\* Git work between transactions.
LEMMA HandlersAreWellOrdered == \A k \in Kind : WellOrdered(Handlers[k])
<1>1. WellOrdered(ScopedSteps)
  <2> DEFINE h == ScopedSteps
  <2>1. Len(h) = 4 /\ DOMAIN h = 1 .. 4 /\ h[1] = "connect" /\ h[2] = "bind" /\ h[3] = "query" /\ h[4] = "end"
    BY DEF ScopedSteps
  <2> QED BY <2>1 DEF WellOrdered, Follows
<1>2. WellOrdered(LoginSteps)
  <2> DEFINE h == LoginSteps
  <2>1. Len(h) = 5 /\ DOMAIN h = 1 .. 5 /\ h[1] = "connect" /\ h[2] = "lookup" /\ h[3] = "bind"
        /\ h[4] = "query" /\ h[5] = "end"
    BY DEF LoginSteps
  <2> QED BY <2>1 DEF WellOrdered, Follows
<1>3. WellOrdered(RefreshSteps)
  <2> DEFINE h == RefreshSteps
  <2>1. Len(h) = 7 /\ DOMAIN h = 1 .. 7 /\ h[1] = "connect" /\ h[2] = "lookup" /\ h[3] = "end"
        /\ h[4] = "connect" /\ h[5] = "bind" /\ h[6] = "query" /\ h[7] = "end"
    BY DEF RefreshSteps
  <2> QED BY <2>1 DEF WellOrdered, Follows
<1>4. WellOrdered(ProbeSteps)
  <2> DEFINE h == ProbeSteps
  <2>1. Len(h) = 2 /\ DOMAIN h = 1 .. 2 /\ h[1] = "connect" /\ h[2] = "end"
    BY DEF ProbeSteps
  <2> QED BY <2>1 DEF WellOrdered, Follows
<1>5. WellOrdered(PinSteps)
  <2> DEFINE h == PinSteps
  <2>1. Len(h) = 10 /\ DOMAIN h = 1 .. 10
        /\ h[1] = "connect" /\ h[2] = "bind" /\ h[3] = "query" /\ h[4] = "end"
        /\ h[5] = "resolve" /\ h[6] = "fetch"
        /\ h[7] = "connect" /\ h[8] = "bind" /\ h[9] = "query" /\ h[10] = "end"
    BY DEF PinSteps
  <2> QED BY <2>1 DEF WellOrdered, Follows
<1> QED BY <1>1, <1>2, <1>3, <1>4, <1>5 DEF Handlers, Kind

\* Those that do not know their organisation look it up before they need it.
LEMMA LookupIsSecond == \A k \in {"login", "refresh"} : Handlers[k][2] = "lookup"
  BY DEF Handlers, LoginSteps, RefreshSteps

LEMMA QueriesComeLate ==
    ASSUME NEW k \in Kind, NEW i \in DOMAIN Handlers[k], Handlers[k][i] = "query"
    PROVE  i > 2 /\ k # "probe"
<1>1. k # "probe"
  BY DEF Handlers, ProbeSteps
<1>2. Handlers[k][1] = "connect" /\ Handlers[k][2] \in {"bind", "lookup"}
  BY <1>1 DEF Handlers, Kind, ScopedSteps, LoginSteps, RefreshSteps, PinSteps
<1> QED BY <1>1, <1>2, HandlersAreWellOrdered DEF WellOrdered

\* Only pinning, verifying and validating do Git work, and a failure of it is reported
\* in their second transaction.
LEMMA GitWorkIsReported ==
    ASSUME NEW r \in Request, kind[r] \in Kind, at[r] \in DOMAIN Handlers[kind[r]],
           Handlers[kind[r]][at[r]] \in GitSteps
    PROVE  /\ kind[r] = "git"
           /\ Reporting(r) \in DOMAIN Handlers[kind[r]] /\ Handlers[kind[r]][Reporting(r)] = "connect"
<1>1. kind[r] = "git"
  BY DEF Handlers, Kind, ScopedSteps, LoginSteps, RefreshSteps, ProbeSteps, GitSteps
<1> DEFINE h == PinSteps
<1>2. DOMAIN h = 1 .. 10
      /\ h[1] = "connect" /\ h[2] = "bind" /\ h[3] = "query" /\ h[4] = "end"
      /\ h[5] = "resolve" /\ h[6] = "fetch"
      /\ h[7] = "connect" /\ h[8] = "bind" /\ h[9] = "query" /\ h[10] = "end"
  BY DEF PinSteps
<1>3. Handlers["git"] = h
  BY DEF Handlers
<1> HIDE DEF h
<1>4. at[r] \in {5, 6}
  BY <1>1, <1>2, <1>3 DEF GitSteps
<1> DEFINE Reports(i) == /\ i > at[r] /\ h[i] \notin GitSteps
                         /\ \A j \in at[r] .. i - 1 : h[j] \in GitSteps
<1>5. Reports(7)
  BY <1>2, <1>4 DEF GitSteps
<1>6. \A i \in 1 .. 10 : Reports(i) => i = 7
  BY <1>2, <1>4 DEF GitSteps
<1>7. Reporting(r) = CHOOSE i \in 1 .. 10 : Reports(i)
  BY <1>1, <1>2, <1>3 DEF Reporting
<1>8. Reporting(r) = 7
  BY <1>5, <1>6, <1>7
<1> QED BY <1>1, <1>2, <1>3, <1>8

-----------------------------------------------------------------------------
\* What is true of a request: it has a connection just while it is in a transaction,
\* which shows nothing until it is bound, and its own organisation's rows after that.
Sound(r) ==
    /\ at[r] # 0 /\ answer[r] = "none" => at[r] \in DOMAIN Handlers[kind[r]]
    /\ StepOf(r) \in InTransaction <=> holds[r] # NoConnection
    /\ StepOf(r) \in {"lookup", "bind"} => setting[holds[r]] \notin Org
    /\ StepOf(r) = "query" => setting[holds[r]] = orgOf[r]
    /\ at[r] # 0 /\ kind[r] \in {"scoped", "git"} => orgOf[r] \in Org
    /\ at[r] > 2 /\ kind[r] \in {"login", "refresh"} => orgOf[r] \in Org
    /\ at[r] = 0 => shown[r] = {}
    /\ shown[r] \subseteq {{orgOf[r]}}

\* A connection that nobody has shows nothing to whoever takes it.
FreeShowsNothing == \A c \in Free : setting[c] \notin Org

IInv ==
    /\ SessionTypeOK
    /\ FreeShowsNothing
    /\ \A r \in Request : Sound(r)

LEMMA InitIInv == SessionInit => IInv
<1> SUFFICES ASSUME SessionInit PROVE IInv
  OBVIOUS
<1>1. SessionTypeOK
  BY HandlerKinds, ConnectionAssumption DEF SessionInit, SessionTypeOK, Kind
<1>2. FreeShowsNothing
  BY SettingAssumption DEF SessionInit, FreeShowsNothing, Free
<1>3. \A r \in Request : Sound(r)
  BY DEF SessionInit, Sound, StepOf, InTransaction
<1> QED BY <1>1, <1>2, <1>3 DEF IInv

\* Where a request is, when it is somewhere.
LEMMA StepIsOfHandler ==
    ASSUME IInv, NEW r \in Request, StepOf(r) # "none"
    PROVE  /\ at[r] # 0 /\ answer[r] = "none"
           /\ kind[r] \in Kind /\ at[r] \in DOMAIN Handlers[kind[r]]
           /\ StepOf(r) = Handlers[kind[r]][at[r]]
  BY HandlerKinds DEF IInv, Sound, StepOf, SessionTypeOK

\* Where it comes to: the next step of its handler, or its answer.
LEMMA AdvanceFollows ==
    ASSUME IInv, NEW r \in Request, StepOf(r) # "none", Advance(r), kind' = kind
    PROVE  /\ at' \in [Request -> Nat] /\ answer' \in [Request -> {"none", "ok", "refused", "error"}]
           /\ at'[r] = at[r] + 1
           /\ answer'[r] = "none" => at'[r] \in DOMAIN Handlers[kind[r]]
           /\ \/ StepOf(r) = "end" /\ StepOf(r)' = "none"
              \/ Follows(StepOf(r), StepOf(r)')
           /\ \A q \in Request \ {r} : at'[q] = at[q] /\ answer'[q] = answer[q]
<1> DEFINE h == Handlers[kind[r]]
<1>1. /\ at[r] # 0 /\ answer[r] = "none"
      /\ kind[r] \in Kind /\ at[r] \in DOMAIN h /\ StepOf(r) = h[at[r]]
  BY StepIsOfHandler
<1>2. WellOrdered(h)
  BY <1>1, HandlersAreWellOrdered
<1>3. at \in [Request -> Nat] /\ answer \in [Request -> {"none", "ok", "refused", "error"}]
  BY DEF IInv, SessionTypeOK
<1>4. /\ at' \in [Request -> Nat] /\ at'[r] = at[r] + 1
      /\ answer' = [answer EXCEPT ![r] = IF at[r] = Len(h) THEN "ok" ELSE @]
      /\ \A q \in Request \ {r} : at'[q] = at[q]
  BY <1>3 DEF Advance
<1>5. /\ answer' \in [Request -> {"none", "ok", "refused", "error"}]
      /\ \A q \in Request \ {r} : answer'[q] = answer[q]
  BY <1>3, <1>4
<1>6. CASE at[r] = Len(h)
  <2>1. StepOf(r) = "end" /\ answer'[r] = "ok"
    BY <1>1, <1>2, <1>3, <1>4, <1>6 DEF WellOrdered
  <2> QED BY <1>4, <1>5, <2>1 DEF StepOf
<1>7. CASE at[r] # Len(h)
  <2>1. at[r] \in 1 .. Len(h) - 1 /\ answer'[r] = "none"
    BY <1>1, <1>2, <1>3, <1>4, <1>7 DEF WellOrdered
  <2>2. at'[r] # 0 /\ at'[r] \in DOMAIN h
    BY <1>2, <1>4, <2>1 DEF WellOrdered
  <2>3. StepOf(r)' = h[at[r] + 1]
    BY <1>4, <2>1, <2>2 DEF StepOf
  <2> QED BY <1>1, <1>2, <1>4, <1>5, <2>1, <2>2, <2>3 DEF WellOrdered
<1> QED BY <1>6, <1>7

\* A request that does not move, and whose connection nobody touches, stays sound.
LEMMA OthersStaySound ==
    ASSUME NEW q \in Request, Sound(q),
           kind'[q] = kind[q], orgOf'[q] = orgOf[q], at'[q] = at[q], answer'[q] = answer[q],
           holds'[q] = holds[q], shown'[q] = shown[q],
           holds[q] # NoConnection => setting'[holds[q]] = setting[holds[q]]
    PROVE  Sound(q)'
<1>1. StepOf(q)' = StepOf(q)
  BY DEF StepOf
<1>2. StepOf(q) \in {"lookup", "bind", "query"} => holds[q] # NoConnection
  BY DEF Sound, InTransaction
<1> QED BY <1>1, <1>2 DEF Sound

LEMMA ArriveKeeps ==
    ASSUME IInv, NEW r \in Request, Arrive(r)
    PROVE  IInv'
<1>0. /\ SessionTypeOK /\ FreeShowsNothing /\ \A q \in Request : Sound(q)
      /\ at[r] = 0 /\ at' = [at EXCEPT ![r] = 1]
      /\ UNCHANGED <<answer, holds, setting, shown>>
  BY DEF IInv, Arrive
<1>1. PICK k \in Kind, o \in Org \cup {Unset} :
        /\ k \in {"scoped", "git"} => o \in Org
        /\ kind' = [kind EXCEPT ![r] = k] /\ orgOf' = [orgOf EXCEPT ![r] = o]
  BY HandlerKinds DEF Arrive
<1>2. SessionTypeOK'
  BY <1>0, <1>1, HandlerKinds DEF SessionTypeOK
<1>3. FreeShowsNothing'
  BY <1>0 DEF FreeShowsNothing, Free
<1>4. Sound(r)'
  <2>1. kind'[r] = k /\ orgOf'[r] = o /\ at'[r] = 1
    BY <1>0, <1>1 DEF SessionTypeOK
  <2>2. 1 \in DOMAIN Handlers[k] /\ Handlers[k][1] = "connect"
    BY HandlersAreWellOrdered DEF WellOrdered
  <2>3. StepOf(r) = "none" /\ StepOf(r)' \in {"none", "connect"}
    BY <1>0, <2>1, <2>2 DEF StepOf
  <2>4. holds'[r] = NoConnection /\ shown'[r] = {}
    BY <1>0, <2>3 DEF Sound, InTransaction
  <2> QED BY <1>1, <2>1, <2>2, <2>3, <2>4 DEF Sound, InTransaction
<1>5. ASSUME NEW q \in Request \ {r} PROVE Sound(q)'
  BY <1>0, <1>1, OthersStaySound DEF SessionTypeOK
<1> QED BY <1>2, <1>3, <1>4, <1>5 DEF IInv

LEMMA ConnectKeeps ==
    ASSUME IInv, NEW r \in Request, Connect(r)
    PROVE  IInv'
<1>0. /\ SessionTypeOK /\ FreeShowsNothing /\ \A q \in Request : Sound(q)
      /\ StepOf(r) = "connect" /\ Advance(r) /\ kind' = kind
      /\ UNCHANGED <<orgOf, setting, shown>>
  BY DEF IInv, Connect
<1>1. PICK c \in Free : holds' = [holds EXCEPT ![r] = c]
  BY DEF Connect
<1>2. c \in Connection /\ c # NoConnection /\ setting[c] \notin Org /\ \A q \in Request : holds[q] # c
  BY <1>0, <1>1, ConnectionAssumption DEF Free, FreeShowsNothing
<1>3. holds'[r] = c /\ \A q \in Request \ {r} : holds'[q] = holds[q]
  BY <1>0, <1>1 DEF SessionTypeOK
<1>4. SessionTypeOK'
  BY <1>0, <1>1, <1>2, <1>3, AdvanceFollows DEF SessionTypeOK
<1>5. FreeShowsNothing'
  <2>1. holds[r] = NoConnection
    BY <1>0 DEF Sound, InTransaction
  <2>2. \A d \in Free' : d \in Free
    BY <1>3, <2>1, ConnectionAssumption DEF Free
  <2> QED BY <1>0, <2>2 DEF FreeShowsNothing
<1>6. Sound(r)'
  <2>1. StepOf(r)' \in {"lookup", "bind", "end"}
    BY <1>0, AdvanceFollows DEF Follows
  <2>2. at[r] # 0 /\ kind[r] \in Kind /\ Handlers[kind[r]][at[r]] = "connect"
    BY <1>0, StepIsOfHandler
  <2>3. at[r] \in Nat /\ at'[r] = at[r] + 1 /\ (answer'[r] = "none" => at'[r] \in DOMAIN Handlers[kind[r]])
    BY <1>0, AdvanceFollows DEF SessionTypeOK
  <2>4. at'[r] > 2 /\ kind[r] \in {"login", "refresh"} => at[r] > 2
    BY <2>2, <2>3, LookupIsSecond
  <2> QED BY <1>0, <1>2, <1>3, <2>1, <2>2, <2>3, <2>4 DEF Sound, InTransaction
<1>7. ASSUME NEW q \in Request \ {r} PROVE Sound(q)'
  BY <1>0, <1>3, AdvanceFollows, OthersStaySound
<1> QED BY <1>4, <1>5, <1>6, <1>7 DEF IInv

\* When a transaction ends, its connection is everybody's again.
LEMMA ReleaseKeeps ==
    ASSUME IInv, NEW r \in Request, holds[r] # NoConnection, Release(r)
    PROVE  /\ holds' \in [Request -> Connection \cup {NoConnection}]
           /\ setting' \in [Connection -> Org \cup {Unset, Empty}]
           /\ \A p, q \in Request : holds'[p] = holds'[q] => p = q \/ holds'[p] = NoConnection
           /\ FreeShowsNothing'
           /\ holds'[r] = NoConnection
           /\ \A q \in Request \ {r} :
                /\ holds'[q] = holds[q]
                /\ holds[q] # NoConnection => setting'[holds[q]] = setting[holds[q]]
<1>1. SessionTypeOK /\ FreeShowsNothing
  BY DEF IInv
<1>2. holds[r] \in Connection
  BY <1>1 DEF SessionTypeOK
<1>3. /\ holds' = [holds EXCEPT ![r] = NoConnection]
      /\ setting' = [setting EXCEPT ![holds[r]] = IF @ = Unset THEN Unset ELSE Empty]
  BY DEF Release
<1>4. setting'[holds[r]] \in {Unset, Empty} /\ \A c \in Connection \ {holds[r]} : setting'[c] = setting[c]
  BY <1>1, <1>2, <1>3 DEF SessionTypeOK
<1>5. FreeShowsNothing'
  BY <1>1, <1>3, <1>4, SettingAssumption DEF FreeShowsNothing, Free, SessionTypeOK
<1> QED BY <1>1, <1>2, <1>3, <1>4, <1>5 DEF SessionTypeOK

\* A transaction that ends before its handler does ends soundly, and so does one that
\* ends with the handler.
LEMMA EndKeeps ==
    ASSUME IInv, NEW r \in Request, StepOf(r) \in InTransaction, Release(r),
           kind' = kind, orgOf' = orgOf, shown' = shown,
           \/ StepOf(r) = "end" /\ Advance(r)
           \/ \E a \in {"refused", "error"} : Answer(r, a)
    PROVE  IInv'
<1>0. SessionTypeOK /\ FreeShowsNothing /\ \A q \in Request : Sound(q)
  BY DEF IInv
<1>1. holds[r] # NoConnection
  BY <1>0 DEF Sound
<1>2. StepOf(r) # "none"
  BY DEF InTransaction
<1>3. /\ at' \in [Request -> Nat] /\ answer' \in [Request -> {"none", "ok", "refused", "error"}]
      /\ \A q \in Request \ {r} : at'[q] = at[q] /\ answer'[q] = answer[q]
      /\ answer'[r] = "none" => at'[r] \in DOMAIN Handlers[kind[r]]
      /\ StepOf(r)' \in {"none", "connect", "resolve"}
      /\ at'[r] = at[r] \/ (at'[r] = at[r] + 1 /\ StepOf(r) = "end")
  <2>1. CASE StepOf(r) = "end" /\ Advance(r)
    BY <1>2, <2>1, AdvanceFollows DEF Follows
  <2>2. CASE \E a \in {"refused", "error"} : Answer(r, a)
    <3>1. PICK a \in {"refused", "error"} : answer' = [answer EXCEPT ![r] = a] /\ at' = at
      BY <2>2 DEF Answer
    <3> QED BY <1>0, <3>1 DEF SessionTypeOK, StepOf
  <2> QED BY <2>1, <2>2
<1>4. SessionTypeOK'
  BY <1>0, <1>1, <1>3, ReleaseKeeps DEF SessionTypeOK
<1>5. FreeShowsNothing'
  BY <1>1, ReleaseKeeps
<1>6. Sound(r)'
  <2>1. at[r] # 0 /\ at[r] \in Nat /\ kind[r] \in Kind /\ StepOf(r) = Handlers[kind[r]][at[r]]
    BY <1>0, <1>2, StepIsOfHandler DEF SessionTypeOK
  <2>2. at'[r] > 2 /\ kind[r] \in {"login", "refresh"} => at[r] > 2
    BY <1>3, <2>1, LookupIsSecond
  <2>3. holds'[r] = NoConnection
    BY <1>1, ReleaseKeeps
  <2> QED BY <1>0, <1>3, <2>1, <2>2, <2>3 DEF Sound, InTransaction
<1>7. ASSUME NEW q \in Request \ {r} PROVE Sound(q)'
  BY <1>0, <1>1, <1>3, ReleaseKeeps, OthersStaySound
<1> QED BY <1>4, <1>5, <1>6, <1>7 DEF IInv

\* Within a transaction: what the lookup finds, binding, and a query.
LEMMA LookupKeeps ==
    ASSUME IInv, NEW r \in Request, Lookup(r)
    PROVE  IInv'
<1>0. /\ SessionTypeOK /\ FreeShowsNothing /\ \A q \in Request : Sound(q)
      /\ StepOf(r) = "lookup" /\ UNCHANGED <<kind, orgOf, shown>>
  BY DEF IInv, Lookup
<1>1. CASE orgOf[r] \notin Org
  BY <1>0, <1>1, EndKeeps DEF Lookup, InTransaction
<1>2. CASE orgOf[r] \in Org
  <2>1. Advance(r) /\ UNCHANGED <<holds, setting>>
    BY <1>2 DEF Lookup
  <2>2. SessionTypeOK' /\ FreeShowsNothing'
    BY <1>0, <2>1, AdvanceFollows DEF SessionTypeOK, FreeShowsNothing, Free
  <2>3. Sound(r)'
    <3>1. StepOf(r)' \in {"bind", "end"}
      BY <1>0, <2>1, AdvanceFollows DEF Follows
    <3>2. at'[r] # 0 /\ (answer'[r] = "none" => at'[r] \in DOMAIN Handlers[kind[r]])
      BY <1>0, <2>1, AdvanceFollows DEF SessionTypeOK
    <3> QED BY <1>0, <1>2, <2>1, <3>1, <3>2 DEF Sound, InTransaction
  <2>4. ASSUME NEW q \in Request \ {r} PROVE Sound(q)'
    BY <1>0, <2>1, AdvanceFollows, OthersStaySound
  <2> QED BY <2>2, <2>3, <2>4 DEF IInv
<1> QED BY <1>1, <1>2

LEMMA BindKeeps ==
    ASSUME IInv, NEW r \in Request, Bind(r)
    PROVE  IInv'
<1>0. /\ SessionTypeOK /\ FreeShowsNothing /\ \A q \in Request : Sound(q)
      /\ StepOf(r) = "bind" /\ Advance(r) /\ UNCHANGED <<kind, orgOf, holds, shown>>
      /\ setting' = [setting EXCEPT ![holds[r]] = orgOf[r]]
  BY DEF IInv, Bind
<1>1. holds[r] \in Connection
  BY <1>0 DEF Sound, InTransaction, SessionTypeOK
<1>2. setting'[holds[r]] = orgOf[r] /\ \A c \in Connection \ {holds[r]} : setting'[c] = setting[c]
  BY <1>0, <1>1 DEF SessionTypeOK
<1>3. SessionTypeOK'
  BY <1>0, <1>1, AdvanceFollows DEF SessionTypeOK
<1>4. FreeShowsNothing'
  BY <1>0, <1>2 DEF FreeShowsNothing, Free
<1>5. Sound(r)'
  <2>1. StepOf(r)' = "query"
    BY <1>0, AdvanceFollows DEF Follows
  <2>2. at[r] # 0 /\ kind[r] \in Kind /\ Handlers[kind[r]][at[r]] = "bind"
    BY <1>0, StepIsOfHandler
  <2>3. at[r] \in Nat /\ at'[r] = at[r] + 1 /\ (answer'[r] = "none" => at'[r] \in DOMAIN Handlers[kind[r]])
    BY <1>0, AdvanceFollows DEF SessionTypeOK
  <2>4. at'[r] > 2 /\ kind[r] \in {"login", "refresh"} => at[r] > 2
    BY <2>2, <2>3, LookupIsSecond
  <2> QED BY <1>0, <1>1, <1>2, <2>1, <2>2, <2>3, <2>4, ConnectionAssumption DEF Sound, InTransaction
<1>6. ASSUME NEW q \in Request \ {r} PROVE Sound(q)'
  <2>1. holds[q] # NoConnection => setting'[holds[q]] = setting[holds[q]]
    BY <1>0, <1>2, <1>1 DEF SessionTypeOK
  <2> QED BY <1>0, <2>1, AdvanceFollows, OthersStaySound
<1> QED BY <1>3, <1>4, <1>5, <1>6 DEF IInv

LEMMA QueryKeeps ==
    ASSUME IInv, NEW r \in Request, Query(r)
    PROVE  IInv'
<1>0. /\ SessionTypeOK /\ FreeShowsNothing /\ \A q \in Request : Sound(q)
      /\ StepOf(r) = "query" /\ Advance(r) /\ UNCHANGED <<kind, orgOf, holds, setting>>
      /\ shown' = [shown EXCEPT ![r] = @ \cup {Visible(holds[r])}]
  BY DEF IInv, Query
<1>1. /\ at[r] \in Nat /\ kind[r] \in Kind
      /\ at[r] \in DOMAIN Handlers[kind[r]] /\ Handlers[kind[r]][at[r]] = "query"
  BY <1>0, StepIsOfHandler DEF SessionTypeOK
<1>2. at[r] > 2 /\ kind[r] # "probe"
  BY <1>1, QueriesComeLate
<1>3. Visible(holds[r]) = {orgOf[r]}
  BY <1>0, <1>2, <1>1 DEF Sound, Visible, Kind
<1>4. /\ shown' \in [Request -> SUBSET SUBSET Org]
      /\ shown'[r] = shown[r] \cup {{orgOf[r]}}
      /\ \A q \in Request \ {r} : shown'[q] = shown[q]
  <2>1. Visible(holds[r]) \in SUBSET Org
    BY DEF Visible
  <2>2. shown \in [Request -> SUBSET SUBSET Org]
    BY <1>0 DEF SessionTypeOK
  <2> QED BY <1>0, <1>3, <2>1, <2>2
<1>5. SessionTypeOK' /\ FreeShowsNothing'
  BY <1>0, <1>4, AdvanceFollows DEF SessionTypeOK, FreeShowsNothing, Free
<1>6. Sound(r)'
  <2>1. StepOf(r)' = "end"
    BY <1>0, AdvanceFollows DEF Follows
  <2>2. at'[r] = at[r] + 1 /\ (answer'[r] = "none" => at'[r] \in DOMAIN Handlers[kind[r]])
    BY <1>0, AdvanceFollows
  <2> QED BY <1>0, <1>1, <1>2, <1>4, <2>1, <2>2 DEF Sound, InTransaction
<1>7. ASSUME NEW q \in Request \ {r} PROVE Sound(q)'
  BY <1>0, <1>4, AdvanceFollows, OthersStaySound
<1> QED BY <1>5, <1>6, <1>7 DEF IInv

LEMMA GiveUpKeeps ==
    ASSUME IInv, NEW r \in Request, GiveUp(r)
    PROVE  IInv'
<1>0. /\ SessionTypeOK /\ FreeShowsNothing /\ \A q \in Request : Sound(q)
      /\ StepOf(r) = "connect" /\ answer' = [answer EXCEPT ![r] = "error"]
      /\ UNCHANGED <<kind, orgOf, at, holds, setting, shown>>
  BY DEF IInv, GiveUp, Answer
<1>1. SessionTypeOK' /\ FreeShowsNothing'
  BY <1>0 DEF SessionTypeOK, FreeShowsNothing, Free
<1>2. answer'[r] = "error" /\ \A q \in Request \ {r} : answer'[q] = answer[q]
  BY <1>0 DEF SessionTypeOK
<1>3. Sound(r)'
  <2>1. StepOf(r)' = "none"
    BY <1>2 DEF StepOf
  <2> QED BY <1>0, <1>2, <2>1 DEF Sound, InTransaction
<1>4. ASSUME NEW q \in Request \ {r} PROVE Sound(q)'
  BY <1>0, <1>2, OthersStaySound
<1> QED BY <1>1, <1>3, <1>4 DEF IInv

LEMMA GitWorkKeeps ==
    ASSUME IInv, NEW r \in Request, GitWork(r)
    PROVE  IInv'
<1>0. /\ SessionTypeOK /\ FreeShowsNothing /\ \A q \in Request : Sound(q)
      /\ StepOf(r) \in GitSteps /\ UNCHANGED <<kind, orgOf, holds, setting, shown>>
  BY DEF IInv, GitWork, GitAnswers, GitFails
<1>1. StepOf(r) # "none" /\ StepOf(r) \notin InTransaction /\ StepOf(r) # "end"
  BY <1>0 DEF GitSteps, InTransaction
<1>2. /\ kind[r] = "git" /\ at[r] # 0 /\ answer[r] = "none"
      /\ Reporting(r) \in DOMAIN Handlers[kind[r]] /\ Handlers[kind[r]][Reporting(r)] = "connect"
      /\ DOMAIN Handlers[kind[r]] \subseteq Nat \ {0}
  BY <1>0, <1>1, StepIsOfHandler, GitWorkIsReported, HandlersAreWellOrdered DEF WellOrdered
<1>3. /\ at' \in [Request -> Nat] /\ answer' \in [Request -> {"none", "ok", "refused", "error"}]
      /\ \A q \in Request \ {r} : at'[q] = at[q] /\ answer'[q] = answer[q]
      /\ answer'[r] = "none" => at'[r] \in DOMAIN Handlers[kind[r]]
      /\ at'[r] # 0 /\ StepOf(r)' \in {"none", "connect", "fetch"}
  <2>1. CASE Advance(r)
    <3>1. at[r] \in Nat /\ at'[r] = at[r] + 1
      BY <1>0, <1>1, <2>1, AdvanceFollows DEF SessionTypeOK
    <3>2. StepOf(r)' \in {"connect", "fetch"}
      BY <1>0, <1>1, <2>1, AdvanceFollows DEF Follows, GitSteps
    <3> QED BY <1>0, <1>1, <2>1, <3>1, <3>2, AdvanceFollows
  <2>2. CASE Answer(r, "refused")
    BY <1>0, <1>2, <2>2 DEF Answer, SessionTypeOK, StepOf
  <2>3. CASE at' = [at EXCEPT ![r] = Reporting(r)] /\ UNCHANGED answer
    BY <1>0, <1>2, <2>3 DEF SessionTypeOK, StepOf
  <2> QED BY <2>1, <2>2, <2>3 DEF GitWork, GitAnswers, GitFails
<1>4. SessionTypeOK' /\ FreeShowsNothing'
  BY <1>0, <1>3 DEF SessionTypeOK, FreeShowsNothing, Free
<1>5. Sound(r)'
  BY <1>0, <1>1, <1>2, <1>3 DEF Sound, InTransaction
<1>6. ASSUME NEW q \in Request \ {r} PROVE Sound(q)'
  BY <1>0, <1>3, OthersStaySound
<1> QED BY <1>4, <1>5, <1>6 DEF IInv

LEMMA RaiseKeeps ==
    ASSUME IInv, NEW r \in Request, Raise(r)
    PROVE  IInv'
<1>1. StepOf(r) \in InTransaction
  BY DEF IInv, Raise, Sound
<1> QED BY <1>1, EndKeeps DEF Raise

\* What is true of every request stays true, whichever of them moves.
LEMMA NextIInv == ASSUME IInv, [SessionNext]_sessionVars PROVE IInv'
<1>1. ASSUME NEW r \in Request, CommitSession(r) PROVE IInv'
  BY <1>1, EndKeeps DEF CommitSession, InTransaction
<1>2. CASE UNCHANGED sessionVars
  BY <1>2 DEF sessionVars, IInv, SessionTypeOK, FreeShowsNothing, Free, Sound, StepOf
<1> QED
  BY <1>1, <1>2, ArriveKeeps, ConnectKeeps, GiveUpKeeps, LookupKeeps, BindKeeps, QueryKeeps,
     GitWorkKeeps, RaiseKeeps
  DEF SessionNext, Served

LEMMA Inductive == SessionSpec => []IInv
<1>1. IInv /\ [SessionNext]_sessionVars => IInv'
  BY NextIInv
<1> QED BY InitIInv, <1>1, PTL DEF SessionSpec

-----------------------------------------------------------------------------
\* Type correctness, which here includes that no connection has two requests on it.
THEOREM TypeCorrect == SessionSpec => []SessionTypeOK
<1>1. IInv => SessionTypeOK
  BY DEF IInv
<1> QED BY <1>1, Inductive, PTL

\* Whoever used its connection before (set_config(..., true) of db/session.py), and
\* however that request ended, a request is shown exactly its organisation's rows, and
\* nothing before it is bound.
THEOREM StayApart == SessionSpec => []OrganisationsStayApart
<1>1. IInv => OrganisationsStayApart
  <2> SUFFICES ASSUME IInv, NEW r \in Request
               PROVE  /\ shown[r] \subseteq {{orgOf[r]}}
                      /\ StepOf(r) \in {"lookup", "bind"} => Visible(holds[r]) = {}
    BY DEF OrganisationsStayApart, OwnRowsShown, UnboundExposesNothing
  <2> QED BY DEF IInv, Sound, Visible
<1> QED BY <1>1, Inductive, PTL

-----------------------------------------------------------------------------
(***************************************************************************)
(* Refs and reports.  Sequences first.                                     *)
(***************************************************************************)

LEMMA PrefixIs ==
    ASSUME NEW S, NEW s \in Seq(S), NEW t \in Seq(S)
    PROVE  IsPrefix(s, t) <=> Len(s) <= Len(t) /\ \A i \in 1 .. Len(s) : s[i] = t[i]
<1>1. CASE Len(s) <= Len(t)
  <2>1. /\ SubSeq(s, 1, Len(s)) \in Seq(S) /\ Len(SubSeq(s, 1, Len(s))) = Len(s)
        /\ \A i \in 1 .. Len(s) : SubSeq(s, 1, Len(s))[i] = s[i]
    OBVIOUS
  <2>2. /\ SubSeq(t, 1, Len(s)) \in Seq(S) /\ Len(SubSeq(t, 1, Len(s))) = Len(s)
        /\ \A i \in 1 .. Len(s) : SubSeq(t, 1, Len(s))[i] = t[i]
    BY <1>1
  <2>3. SubSeq(s, 1, Len(s)) = SubSeq(t, 1, Len(s))
          <=> \A i \in 1 .. Len(s) : SubSeq(s, 1, Len(s))[i] = SubSeq(t, 1, Len(s))[i]
    BY <2>1, <2>2
  <2> QED BY <1>1, <2>1, <2>2, <2>3 DEF IsPrefix
<1>2. CASE ~(Len(s) <= Len(t))
  BY <1>2 DEF IsPrefix
<1> QED BY <1>1, <1>2

LEMMA SameSequence ==
    ASSUME NEW S, NEW s \in Seq(S), NEW t \in Seq(S), Len(s) = Len(t),
           \A i \in 1 .. Len(s) : s[i] = t[i]
    PROVE  s = t
<1>1. /\ s = [i \in 1 .. Len(s) |-> s[i]]
      /\ t = [i \in 1 .. Len(t) |-> t[i]]
  OBVIOUS
<1> QED BY <1>1, Zenon

\* Each of two names does not come before the other.
LEMMA PrecedesIsStrict ==
    ASSUME NEW f \in Seq(Nat), NEW g \in Seq(Nat), Precedes(f, g), Precedes(g, f)
    PROVE  FALSE
<1> DEFINE Differ(s, t, i) ==
             /\ i \in 1 .. Len(s) /\ i <= Len(t)
             /\ \A j \in 1 .. i - 1 : s[j] = t[j]
             /\ s[i] < t[i]
<1>1. ASSUME NEW s \in Seq(Nat), NEW t \in Seq(Nat), NEW i \in 1 .. Len(s), i <= Len(t),
             SubSeq(s, 1, i - 1) = SubSeq(t, 1, i - 1)
      PROVE  \A j \in 1 .. i - 1 : s[j] = t[j]
  <2> SUFFICES ASSUME NEW j \in 1 .. i - 1 PROVE s[j] = t[j]
    OBVIOUS
  <2>1. SubSeq(s, 1, i - 1)[j] = s[j] /\ SubSeq(t, 1, i - 1)[j] = t[j]
    BY <1>1
  <2> QED BY <1>1, <2>1
<1>2. ASSUME NEW s \in Seq(Nat), NEW t \in Seq(Nat), Precedes(s, t)
      PROVE  \/ IsPrefix(s, t) /\ s # t
             \/ \E i \in 1 .. Len(s) : Differ(s, t, i)
  BY <1>1, <1>2 DEF Precedes, IsStrictPrefix
<1>3. ASSUME NEW s \in Seq(Nat), NEW t \in Seq(Nat), IsPrefix(s, t) /\ s # t
      PROVE  Len(s) < Len(t) /\ \A i \in 1 .. Len(s) : s[i] = t[i]
  <2>1. Len(s) <= Len(t) /\ \A i \in 1 .. Len(s) : s[i] = t[i]
    BY <1>3, PrefixIs
  <2>2. Len(s) = Len(t) => s = t
    BY <2>1, SameSequence
  <2> QED BY <1>3, <2>1, <2>2
<1>4. \A s, t \in Seq(Nat) : \A i \in 1 .. Len(s) : Differ(s, t, i) => s[i] \in Nat /\ t[i] \in Nat
  OBVIOUS
<1>5. CASE IsPrefix(f, g) /\ f # g
  <2>1. Len(f) < Len(g) /\ \A i \in 1 .. Len(f) : f[i] = g[i]
    BY <1>3, <1>5
  <2>2. ~(IsPrefix(g, f) /\ g # f)
    BY <1>3, <2>1
  <2>3. PICK i \in 1 .. Len(g) : Differ(g, f, i)
    BY <1>2, <2>2
  <2> QED BY <1>4, <2>1, <2>3
<1>6. CASE ~(IsPrefix(f, g) /\ f # g)
  <2>1. PICK i \in 1 .. Len(f) : Differ(f, g, i)
    BY <1>2, <1>6
  <2>2. CASE IsPrefix(g, f) /\ g # f
    <3>1. \A j \in 1 .. Len(g) : g[j] = f[j]
      BY <1>3, <2>2
    <3> QED BY <1>4, <2>1, <3>1
  <2>3. CASE ~(IsPrefix(g, f) /\ g # f)
    <3>1. PICK j \in 1 .. Len(g) : Differ(g, f, j)
      BY <1>2, <2>3
    <3>2. f[i] \in Nat /\ g[i] \in Nat /\ f[j] \in Nat /\ g[j] \in Nat /\ i \in Nat /\ j \in Nat
      <4>1. i \in 1 .. Len(f) /\ i \in 1 .. Len(g) /\ j \in 1 .. Len(f) /\ j \in 1 .. Len(g)
        BY <2>1, <3>1
      <4>2. /\ \A k \in 1 .. Len(f) : f[k] \in Nat /\ k \in Nat
            /\ \A k \in 1 .. Len(g) : g[k] \in Nat
        OBVIOUS
      <4> QED BY <4>1, <4>2, Zenon
    <3>3. CASE i < j
      <4>1. i \in 1 .. j - 1
        BY <2>1, <3>2, <3>3
      <4>2. g[i] = f[i]
        BY <3>1, <4>1
      <4> QED BY <2>1, <3>2, <4>2
    <3>4. CASE j < i
      <4>1. j \in 1 .. i - 1
        BY <3>1, <3>2, <3>4
      <4>2. f[j] = g[j]
        BY <2>1, <4>1
      <4> QED BY <3>1, <3>2, <4>2
    <3>5. CASE i = j
      BY <2>1, <3>1, <3>2, <3>5
    <3>6. i < j \/ j < i \/ i = j
      BY <3>2
    <3> QED BY <3>3, <3>4, <3>5, <3>6
  <2> QED BY <2>2, <2>3
<1> QED BY <1>5, <1>6

\* A name is at the end of itself, whatever is put before it.
LEMMA EndsWith ==
    ASSUME NEW u \in Seq(Nat), NEW s \in Seq(Nat)
    PROVE  u \o s \in Seq(Nat) /\ IsSuffix(s, u \o s)
<1> DEFINE t == u \o s
<1>1. t \in Seq(Nat) /\ Len(t) = Len(u) + Len(s) /\ \A i \in 1 .. Len(s) : t[Len(u) + i] = s[i]
  OBVIOUS
<1> HIDE DEF t
<1>2. ASSUME NEW x \in Seq(Nat)
      PROVE  /\ Reverse(x) \in Seq(Nat) /\ Len(Reverse(x)) = Len(x)
             /\ \A i \in 1 .. Len(x) : Reverse(x)[i] = x[(Len(x) - i) + 1]
  BY DEF Reverse
<1>3. \A i \in 1 .. Len(s) : Reverse(s)[i] = Reverse(t)[i]
  <2> SUFFICES ASSUME NEW i \in 1 .. Len(s) PROVE Reverse(s)[i] = Reverse(t)[i]
    OBVIOUS
  <2> DEFINE k == (Len(s) - i) + 1
  <2>1. k \in 1 .. Len(s) /\ (Len(t) - i) + 1 = Len(u) + k /\ i \in 1 .. Len(t)
    BY <1>1
  <2>2. Reverse(s)[i] = s[k] /\ Reverse(t)[i] = t[(Len(t) - i) + 1]
    BY <1>1, <1>2, <2>1, Zenon
  <2> QED BY <1>1, <2>1, <2>2
<1>4. IsPrefix(Reverse(s), Reverse(t))
  <2>1. /\ Reverse(s) \in Seq(Nat) /\ Len(Reverse(s)) = Len(s)
        /\ Reverse(t) \in Seq(Nat) /\ Len(Reverse(t)) = Len(t)
    BY <1>1, <1>2
  <2>2. Len(s) <= Len(t)
    BY <1>1
  <2> QED BY <1>3, <2>1, <2>2, PrefixIs
<1> QED BY <1>1, <1>4 DEF IsSuffix, t

-----------------------------------------------------------------------------
\* Every reading of a name ends with it.
LEMMA ReadingsMatch ==
    ASSUME NEW name \in Seq(Nat), NEW i \in 1 .. 4
    PROVE  Readings(name)[i] \in Seq(Nat) /\ IsSuffix(name, Readings(name)[i])
<1>1. /\ <<>> \in Seq(Nat) /\ Refs \in Seq(Nat) /\ Tags \in Seq(Nat) /\ Heads \in Seq(Nat)
      /\ <<>> \o name = name
  BY DEF Refs, Tags, Heads
<1>2. /\ Readings(name)[1] = <<>> \o name /\ Readings(name)[2] = Refs \o name
      /\ Readings(name)[3] = Tags \o name /\ Readings(name)[4] = Heads \o name
  BY <1>1 DEF Readings
<1>3. i = 1 \/ i = 2 \/ i = 3 \/ i = 4
  OBVIOUS
<1> QED BY <1>1, <1>2, <1>3, EndsWith

LEMMA MeaningIs ==
    ASSUME NEW name, Meaning(name) # Absent
    PROVE  \E i \in 1 .. 4 : /\ Readings(name)[i] \in Existing
                             /\ \A j \in 1 .. i - 1 : Readings(name)[j] \notin Existing
                             /\ Meaning(name) = Peeled(refs[Readings(name)[i]])
<1> DEFINE taken == {i \in 1 .. 4 : Readings(name)[i] \in Existing}
           first == CHOOSE i \in taken : \A j \in taken : i <= j
<1>1. taken # {} /\ Meaning(name) = Peeled(refs[Readings(name)[first]])
  BY DEF Meaning
<1>2. taken \subseteq 1 .. 4 /\ \A i \in 1 .. 4 : i \in taken <=> Readings(name)[i] \in Existing
  OBVIOUS
<1> HIDE DEF taken
<1>3. \E i \in taken : \A j \in taken : i <= j
  <2>1. CASE 1 \in taken
    BY <1>2, <2>1
  <2>2. CASE 1 \notin taken /\ 2 \in taken
    BY <1>2, <2>2
  <2>3. CASE 1 \notin taken /\ 2 \notin taken /\ 3 \in taken
    BY <1>2, <2>3
  <2>4. CASE taken = {4}
    BY <2>4
  <2>5. \A i \in taken : i = 1 \/ i = 2 \/ i = 3 \/ i = 4
    BY <1>2
  <2>6. 1 \in taken \/ 2 \in taken \/ 3 \in taken \/ taken = {4}
    BY <1>1, <2>5
  <2> QED BY <2>1, <2>2, <2>3, <2>4, <2>6
<1>4. first \in taken /\ \A j \in taken : first <= j
  BY <1>3
<1> HIDE DEF first
<1>5. first \in 1 .. 4 /\ Readings(name)[first] \in Existing
  BY <1>2, <1>4
<1>6. \A j \in 1 .. first - 1 : j \notin taken /\ j \in 1 .. 4
  BY <1>4, <1>5
<1> QED BY <1>1, <1>2, <1>5, <1>6

\* Where names sort well, the ref listed first is the one the name means.
LEMMA FirstIsMeant ==
    ASSUME NamesSortWell, given \in Given, given \notin Commit, NEW f \in FirstListed(given),
           Meaning(given) # Absent
    PROVE  Peeled(refs[f]) = Meaning(given)
<1>1. given \in Seq(Nat) /\ FullName \subseteq Seq(Nat) /\ Existing \subseteq FullName
  BY NameAssumption DEF Existing
<1>2. PICK i \in 1 .. 4 : /\ Readings(given)[i] \in Existing
                          /\ \A j \in 1 .. i - 1 : Readings(given)[j] \notin Existing
                          /\ Meaning(given) = Peeled(refs[Readings(given)[i]])
  BY MeaningIs
<1> DEFINE r == Readings(given)[i]
<1>3. f \in Existing /\ IsSuffix(given, f) /\ \A g \in Matching(given) \ {f} : Precedes(f, g)
  BY DEF FirstListed, Matching
<1>4. r \in Matching(given) /\ r \in Seq(Nat) /\ f \in Seq(Nat)
  BY <1>1, <1>2, <1>3, ReadingsMatch DEF Matching
<1>5. ASSUME f # r PROVE FALSE
  <2>1. Precedes(f, r)
    BY <1>3, <1>4, <1>5
  <2>2. f \notin {Readings(given)[j] : j \in 1 .. i}
    <3> SUFFICES ASSUME NEW j \in 1 .. i, f = Readings(given)[j] PROVE FALSE
      OBVIOUS
    <3>1. j # i
      BY <1>5
    <3>2. j \in 1 .. i - 1
      BY <3>1
    <3> QED BY <1>2, <1>3, <3>2
  <2>3. Precedes(r, f)
    <3>1. given \in Given \ Commit /\ r \in FullName /\ IsSuffix(given, f)
      BY <1>1, <1>2, <1>3
    <3>2. f \in FullName \ {Readings(given)[j] : j \in 1 .. i}
      BY <1>1, <1>3, <2>2
    <3> QED BY <3>1, <3>2, Zenon DEF NamesSortWell
  <2> QED BY <1>4, <2>1, <2>3, PrecedesIsStrict
<1> QED BY <1>2, <1>5

LEMMA PeeledType == ASSUME NEW o \in Object PROVE Peeled(o) \in Commit
  BY ObjectAssumption DEF Object, Peeled

LEMMA MeaningType == ASSUME TypeOK, NEW name PROVE Meaning(name) \in Commit \cup {Absent}
<1> SUFFICES ASSUME Meaning(name) # Absent PROVE Meaning(name) \in Commit
  OBVIOUS
<1>1. PICK i \in 1 .. 4 : /\ Readings(name)[i] \in Existing
                          /\ Meaning(name) = Peeled(refs[Readings(name)[i]])
  BY MeaningIs
<1>2. refs[Readings(name)[i]] \in Object
  BY <1>1 DEF TypeOK, Existing
<1> QED BY <1>1, <1>2, PeeledType

-----------------------------------------------------------------------------
\* What a request has resolved is, peeled, what the name meant; to what it meant since
\* then nothing refers.
ResolvedIsMeant == stage \in {"resolved", "pinned"} /\ meant # Absent => Peeled(sha) = meant

LEMMA RefTypeStep == ASSUME TypeOK, [Next]_vars PROVE TypeOK'
<1>1. CASE UNCHANGED vars
  BY <1>1 DEF vars, TypeOK
<1>2. CASE ResolveCommit
  BY <1>2, ObjectAssumption DEF ResolveCommit, TypeOK, Object
<1>3. CASE ResolveName
  <2>1. PICK f \in FirstListed(given) : sha' = refs[f]
    BY <1>3 DEF ResolveName
  <2>2. refs[f] \in Object /\ refs[f] # Absent
    BY <2>1 DEF FirstListed, Matching, Existing, TypeOK
  <2>3. meant' \in Commit \cup {Absent}
    BY <1>3, MeaningType DEF ResolveName
  <2> QED BY <1>3, <2>1, <2>2, <2>3 DEF ResolveName, TypeOK
<1>4. CASE RefuseName \/ CheckOut \/ FailCheckOut \/ Again
  BY <1>4 DEF RefuseName, CheckOut, FailCheckOut, Again, TypeOK
<1>5. CASE Push
  BY <1>5 DEF Push, TypeOK
<1> QED BY <1>1, <1>2, <1>3, <1>4, <1>5 DEF Next

LEMMA ResolvedStep ==
    ASSUME NamesSortWell, TypeOK, ResolvedIsMeant, [Next]_vars PROVE ResolvedIsMeant'
<1>1. CASE UNCHANGED vars
  BY <1>1 DEF vars, ResolvedIsMeant
<1>2. CASE ResolveCommit
  BY <1>2, ObjectAssumption DEF ResolveCommit, ResolvedIsMeant, Peeled
<1>3. CASE ResolveName
  <2>1. PICK f \in FirstListed(given) : sha' = refs[f]
    BY <1>3 DEF ResolveName
  <2>2. given \in Given /\ given \notin Commit /\ meant' = Meaning(given)
    BY <1>3 DEF ResolveName, TypeOK
  <2>3. meant' # Absent => Peeled(refs[f]) = meant'
    BY <2>1, <2>2, FirstIsMeant
  <2> QED BY <2>1, <2>3 DEF ResolvedIsMeant, Peeled
<1>4. CASE RefuseName \/ CheckOut \/ FailCheckOut \/ Again
  BY <1>4 DEF RefuseName, CheckOut, FailCheckOut, Again, ResolvedIsMeant, Peeled
<1>5. CASE Push
  BY <1>5 DEF Push, ResolvedIsMeant, Peeled
<1> QED BY <1>1, <1>2, <1>3, <1>4, <1>5 DEF Next

LEMMA RefInit == ASSUME Init PROVE TypeOK /\ ResolvedIsMeant
  BY DEF Init, TypeOK, ResolvedIsMeant

\* Refs, names and what is pinned are well typed, whatever is pushed meanwhile.
THEOREM RefTypeCorrect == Spec => []TypeOK
<1>1. Init => TypeOK
  BY RefInit
<1>2. TypeOK /\ [Next]_vars => TypeOK'
  BY RefTypeStep
<1> QED BY <1>1, <1>2, PTL DEF Spec

\* Where names sort well, what is pinned is what the name meant to Git when the request
\* resolved it, for any refs and any pushes before and after.
THEOREM PinsWhatIsMeant == ASSUME NamesSortWell PROVE Spec => []PinnedIsMeant
<1>1. Init => TypeOK /\ ResolvedIsMeant
  BY RefInit
<1>2. TypeOK /\ ResolvedIsMeant /\ [Next]_vars => (TypeOK /\ ResolvedIsMeant)'
  BY RefTypeStep, ResolvedStep
<1>3. ResolvedIsMeant => PinnedIsMeant
  BY DEF ResolvedIsMeant, PinnedIsMeant
<1> QED BY <1>1, <1>2, <1>3, PTL DEF Spec

-----------------------------------------------------------------------------
(***************************************************************************)
(* The verdict.  Paths first: what stands beside a plan.                   *)
(***************************************************************************)
Beside(plan) == Front(plan) \o <<ManifestName>>

LEMMA FrontIs ==
    ASSUME NEW S, NEW p \in Seq(S), p # <<>>
    PROVE  /\ Len(p) \in Nat \ {0}
           /\ Front(p) \in Seq(S) /\ Len(Front(p)) = Len(p) - 1
           /\ \A i \in 1 .. Len(p) - 1 : Front(p)[i] = p[i]
<1> DEFINE n == Len(p) - 1
<1>1. Len(p) \in Nat \ {0} /\ n \in Nat /\ n <= Len(p)
  OBVIOUS
<1> HIDE DEF n
<1>2. /\ SubSeq(p, 1, n) \in Seq(S) /\ Len(SubSeq(p, 1, n)) = n
      /\ \A i \in 1 .. n : SubSeq(p, 1, n)[i] = p[i]
  BY <1>1
<1> QED BY <1>1, <1>2 DEF Front, n

LEMMA ExtendedIs ==
    ASSUME NEW S, NEW f \in Seq(S), NEW x \in S
    PROVE  /\ f \o <<x>> \in Seq(S) /\ f \o <<x>> # <<>>
           /\ Len(f \o <<x>>) = Len(f) + 1
           /\ Last(f \o <<x>>) = x /\ Front(f \o <<x>>) = f
<1> DEFINE b == f \o <<x>>
<1>1. /\ b \in Seq(S) /\ b # <<>> /\ Len(f) \in Nat
      /\ Len(b) = Len(f) + 1 /\ b[Len(f) + 1] = x
      /\ \A i \in 1 .. Len(f) : b[i] = f[i]
  OBVIOUS
<1> HIDE DEF b
<1>2. /\ Front(b) \in Seq(S) /\ Len(Front(b)) = Len(f)
      /\ \A i \in 1 .. Len(f) : Front(b)[i] = b[i]
  BY <1>1, FrontIs
<1>3. Front(b) = f
  BY <1>1, <1>2, SameSequence
<1> QED BY <1>1, <1>3 DEF b, Last

LEMMA PathFacts ==
    ASSUME NEW p \in Path
    PROVE  /\ p \in Seq(STRING) /\ Len(p) \in Nat \ {0}
           /\ Front(p) \in Seq(STRING) /\ Len(Front(p)) = Len(p) - 1
           /\ \A i \in 1 .. Len(p) - 1 : Front(p)[i] = p[i]
           /\ IsPrefix(Front(p), p)
<1>1. p \in Seq(STRING) /\ p # <<>>
  BY DEF Path
<1>2. /\ Len(p) \in Nat \ {0}
      /\ Front(p) \in Seq(STRING) /\ Len(Front(p)) = Len(p) - 1
      /\ \A i \in 1 .. Len(p) - 1 : Front(p)[i] = p[i]
  BY <1>1, FrontIs, Zenon
<1>3. IsPrefix(Front(p), p)
  BY <1>1, <1>2, PrefixIs
<1> QED BY <1>1, <1>2, <1>3

LEMMA BesideFacts ==
    ASSUME NEW p \in Path
    PROVE  /\ Beside(p) \in Path /\ Len(Beside(p)) = Len(p)
           /\ Front(Beside(p)) = Front(p) /\ Last(Beside(p)) = ManifestName
<1>1. Front(p) \in Seq(STRING) /\ Len(Front(p)) = Len(p) - 1 /\ Len(p) \in Nat \ {0}
  BY PathFacts
<1>2. ManifestName \in STRING
  BY PlanPathAssumption
<1>3. /\ Beside(p) \in Seq(STRING) /\ Beside(p) # <<>> /\ Len(Beside(p)) = Len(Front(p)) + 1
      /\ Last(Beside(p)) = ManifestName /\ Front(Beside(p)) = Front(p)
  BY <1>1, <1>2, ExtendedIs, Zenon DEF Beside
<1> QED BY <1>1, <1>3 DEF Path

\* Only one file of a name stands in the directory of a path.
LEMMA SameDirectory ==
    ASSUME NEW p \in Path, NEW q \in Path, IsPrefix(Front(q), p), Len(q) = Len(p),
           Last(q) = ManifestName
    PROVE  q = Beside(p)
<1>1. /\ Len(p) \in Nat \ {0} /\ Len(Front(q)) = Len(p) - 1 /\ q \in Seq(STRING) /\ p \in Seq(STRING)
      /\ Front(q) \in Seq(STRING)
      /\ \A i \in 1 .. Len(p) - 1 : Front(q)[i] = q[i] /\ Front(p)[i] = p[i]
  BY PathFacts
<1>2. \A i \in 1 .. Len(p) - 1 : Front(q)[i] = p[i]
  BY <1>1, PrefixIs
<1>3. \A i \in 1 .. Len(p) - 1 : q[i] = Front(p)[i]
  BY <1>1, <1>2
<1> DEFINE b == Beside(p)
<1>4. /\ b \in Path /\ Len(b) = Len(p) /\ Front(b) = Front(p) /\ Last(b) = ManifestName
  BY BesideFacts
<1>5. \A i \in 1 .. Len(p) - 1 : b[i] = Front(p)[i]
  BY <1>4, PathFacts
<1>6. b[Len(p)] = q[Len(p)]
  BY <1>4 DEF Last
<1>7. \A i \in 1 .. Len(q) : q[i] = b[i]
  <2> SUFFICES ASSUME NEW i \in 1 .. Len(q) PROVE q[i] = b[i]
    OBVIOUS
  <2>1. i = Len(p) \/ i \in 1 .. Len(p) - 1
    BY <1>1
  <2> QED BY <1>3, <1>5, <1>6, <2>1
<1>8. b \in Seq(STRING)
  BY <1>4, PathFacts
<1> QED BY <1>1, <1>4, <1>7, <1>8, SameSequence

\* The manifest that is found is the one beside the plan, if none is found where there
\* is none beside it.
LEMMA ManifestIsBeside ==
    ASSUME NEW files, DOMAIN files \subseteq Path,
           \A p, q \in DOMAIN files : IsPrefix(p, q) => p = q,
           NEW plan \in DOMAIN files,
           (\E m \in DOMAIN files : Last(m) = ManifestName /\ IsPrefix(Front(m), plan))
             => Beside(plan) \in DOMAIN files
    PROVE  FindManifest(files, plan) = {Beside(plan)} \cap DOMAIN files
<1> DEFINE above == {p \in DOMAIN files : Last(p) = ManifestName /\ IsPrefix(Front(p), plan)}
           b == Beside(plan)
<1>1. plan \in Path /\ plan \in Seq(STRING) /\ Len(plan) \in Nat \ {0}
  BY PathFacts
<1>2. b \in Path /\ Len(b) = Len(plan) /\ Front(b) = Front(plan) /\ Last(b) = ManifestName
  BY <1>1, BesideFacts
<1>3. ASSUME NEW p \in above PROVE p \in Path /\ Len(p) \in Nat /\ Len(p) <= Len(plan)
  <2>1. /\ p \in DOMAIN files /\ p \in Path /\ p \in Seq(STRING) /\ Len(p) \in Nat \ {0}
        /\ Front(p) \in Seq(STRING) /\ Len(Front(p)) = Len(p) - 1
        /\ \A i \in 1 .. Len(p) - 1 : Front(p)[i] = p[i]
    BY PathFacts
  <2>2. Len(Front(p)) <= Len(plan) /\ \A i \in 1 .. Len(p) - 1 : Front(p)[i] = plan[i]
    BY <1>1, <2>1, PrefixIs
  <2>3. ASSUME Len(p) - 1 = Len(plan) PROVE FALSE
    <3>1. Len(plan) <= Len(p) /\ \A i \in 1 .. Len(plan) : plan[i] = p[i]
      BY <2>1, <2>2, <2>3
    <3>2. IsPrefix(plan, p)
      BY <1>1, <2>1, <3>1, PrefixIs
    <3> QED BY <1>1, <2>1, <2>3, <3>2
  <2> QED BY <1>1, <2>1, <2>2, <2>3
<1>4. FindManifest(files, plan) = {p \in above : \A q \in above : Len(q) <= Len(p)}
  BY DEF FindManifest
<1>5. CASE b \in DOMAIN files
  <2>1. b \in above
    BY <1>1, <1>2, <1>5, PathFacts
  <2>2. ASSUME NEW p \in above, \A q \in above : Len(q) <= Len(p) PROVE p = b
    <3>1. Len(p) = Len(plan) /\ p \in Path
      BY <1>1, <1>2, <1>3, <2>1, <2>2
    <3> QED BY <1>1, <3>1, SameDirectory
  <2>3. \A q \in above : Len(q) <= Len(b)
    BY <1>2, <1>3
  <2> HIDE DEF above, b
  <2>4. \A p : p \in {r \in above : \A q \in above : Len(q) <= Len(r)} <=> p = b
    BY <2>1, <2>2, <2>3
  <2>5. FindManifest(files, plan) = {b}
    BY <1>4, <2>4
  <2>6. {b} \cap DOMAIN files = {b}
    BY <1>5
  <2> QED BY <2>5, <2>6 DEF b
<1>6. CASE b \notin DOMAIN files
  BY <1>4, <1>6
<1> QED BY <1>5, <1>6

\* What is checked out of a plan's directory is as it is in the tree, and complete.
LEMMA CheckedOutFacts ==
    ASSUME NEW c \in Commit, NEW plan \in Path, Len(plan) > 1
    PROVE  LET tree == TreeOf[c]
               files == CheckedOut(tree, plan)
           IN  /\ DOMAIN files \subseteq DOMAIN tree
               /\ \A p \in DOMAIN files : files[p] = tree[p]
               /\ \A p \in DOMAIN tree : IsPrefix(Front(plan), p) => p \in DOMAIN files
<1> DEFINE tree == TreeOf[c]
           directory == Front(plan)
           taken == {p \in DOMAIN tree :
                       \/ Len(directory) > 1 /\ IsPrefix(directory, p)
                       \/ Len(directory) = 1 /\ \E i \in DOMAIN p : p[i] = directory[1]}
           files == CheckedOut(tree, plan)
<1>1. files = [p \in DOMAIN tree \cap taken |-> tree[p]]
  BY DEF CheckedOut, Restricted
<1>2. DOMAIN files = DOMAIN tree \cap taken /\ \A p \in DOMAIN files : files[p] = tree[p]
  BY <1>1
<1>3. ASSUME NEW p \in DOMAIN tree, IsPrefix(directory, p) PROVE p \in taken
  <2>1. p \in Seq(STRING) /\ directory \in Seq(STRING) /\ Len(directory) \in Nat \ {0}
    BY TreeAssumption, PathFacts
  <2>2. Len(directory) <= Len(p) /\ \A i \in 1 .. Len(directory) : directory[i] = p[i]
    BY <1>3, <2>1, PrefixIs
  <2>3. 1 \in DOMAIN p /\ p[1] = directory[1]
    BY <2>1, <2>2
  <2> HIDE DEF directory
  <2>4. Len(directory) > 1 \/ Len(directory) = 1
    <3>1. \A n \in Nat \ {0} : n > 1 \/ n = 1
      OBVIOUS
    <3> QED BY <2>1, <3>1, Zenon
  <2> QED BY <1>3, <2>3, <2>4
<1> HIDE DEF taken
<1> QED BY <1>2, <1>3

\* For a plan and manifest that are there and parse: what the entry is found wanting of in
\* the files, it is wanting of in the tree.
LEMMA EntryAgrees ==
    ASSUME NEW tree, NEW files, DOMAIN files \subseteq DOMAIN tree, NEW file, NEW entry,
           \A d \in (entry.data \cup file.reads) \cap DOMAIN tree : d \in DOMAIN files
    PROVE  EntryFindings(entry, file, files) = {}
             <=> /\ file.uses \subseteq entry.declares
                 /\ entry.data \subseteq DOMAIN tree
                 /\ file.reads \subseteq entry.data \cup DOMAIN tree
<1>1. /\ entry.data \subseteq DOMAIN files <=> entry.data \subseteq DOMAIN tree
      /\ file.reads \subseteq entry.data \cup DOMAIN files
           <=> file.reads \subseteq entry.data \cup DOMAIN tree
  OBVIOUS
<1>2. /\ "DATA_FILE_MISSING" \in EntryFindings(entry, file, files)
           <=> ~(entry.data \subseteq DOMAIN files)
      /\ "DATA_FILE_UNDECLARED" \in EntryFindings(entry, file, files)
           <=> ~(file.reads \subseteq entry.data \cup DOMAIN files)
      /\ "VARIABLE_NOT_DECLARED" \in EntryFindings(entry, file, files)
           <=> ~(file.uses \subseteq entry.declares)
      /\ EntryFindings(entry, file, files)
           \subseteq {"DATA_FILE_MISSING", "DATA_FILE_UNDECLARED", "VARIABLE_NOT_DECLARED"}
  BY DEF EntryFindings, Errors
<1> QED BY <1>1, <1>2

\* The last of a path that ends with another is the other's.
LEMMA LastOfBoth ==
    ASSUME NEW u \in Seq(STRING), NEW s \in Path PROVE Last(u \o s) = Last(s)
<1>1. s \in Seq(STRING) /\ Len(s) \in Nat \ {0}
  BY PathFacts
<1>2. Len(u \o s) = Len(u) + Len(s) /\ Len(u) \in Nat
  BY <1>1
<1>3. (u \o s)[Len(u) + Len(s)] = s[Len(s)]
  BY <1>1
<1> QED BY <1>2, <1>3 DEF Last

\* Where a repository is laid out as documented, a report without an error says what is
\* to be said of the whole tree.
LEMMA VerdictAgrees ==
    ASSUME NEW c \in Commit, NEW plan \in PlanPath, LaidOut(TreeOf[c], plan)
    PROVE  Findings(CheckedOut(TreeOf[c], plan), plan) \cap Errors = {}
             <=> Conforms(TreeOf[c], plan)
<1> DEFINE tree == TreeOf[c]
           files == CheckedOut(tree, plan)
           b == Beside(plan)
           found == Findings(files, plan)
<1>1. /\ plan \in Path /\ Len(plan) > 1
      /\ DOMAIN tree \subseteq Path /\ \A p, q \in DOMAIN tree : IsPrefix(p, q) => p = q
  BY TreeAssumption, PlanPathAssumption DEF LaidOut
<1>2. /\ DOMAIN files \subseteq DOMAIN tree
      /\ \A p \in DOMAIN files : files[p] = tree[p]
      /\ \A p \in DOMAIN tree : IsPrefix(Front(plan), p) => p \in DOMAIN files
  BY <1>1, CheckedOutFacts
<1>3. /\ IsPrefix(Front(plan), plan) /\ Front(plan) \in Seq(STRING)
      /\ b \in Path /\ Front(b) = Front(plan) /\ Last(b) = ManifestName
      /\ IsPrefix(Front(plan), b)
  BY <1>1, PathFacts, BesideFacts
<1>4. (\E m \in DOMAIN tree : Last(m) = ManifestName /\ IsPrefix(Front(m), plan)) => b \in DOMAIN tree
  BY DEF LaidOut, Beside
<1>5. (plan \in DOMAIN files <=> plan \in DOMAIN tree) /\ (b \in DOMAIN files <=> b \in DOMAIN tree)
  BY <1>2, <1>3
<1> HIDE DEF files, tree, b
<1>6. CASE plan \notin DOMAIN tree
  <2>1. found = {"PLAN_MISSING"}
    BY <1>5, <1>6 DEF Findings
  <2> QED BY <1>6, <2>1 DEF Conforms, Errors, tree, files
<1>7. CASE plan \in DOMAIN tree /\ tree[plan] \notin PlanFile
  <2>1. "PLAN_UNPARSEABLE" \in found
    BY <1>2, <1>5, <1>7 DEF Findings, PlanFindings
  <2> QED BY <1>7, <2>1 DEF Conforms, Errors, tree, files
<1>8. CASE plan \in DOMAIN tree /\ tree[plan] \in PlanFile
  <2>1. /\ FindManifest(tree, plan) = {b} \cap DOMAIN tree
        /\ FindManifest(files, plan) = {b} \cap DOMAIN tree
    <3>1. FindManifest(tree, plan) = {b} \cap DOMAIN tree
      BY <1>1, <1>4, <1>8, ManifestIsBeside DEF b
    <3>2. (\E m \in DOMAIN files : Last(m) = ManifestName /\ IsPrefix(Front(m), plan))
            => b \in DOMAIN files
      BY <1>2, <1>4, <1>5
    <3>3. FindManifest(files, plan) = {b} \cap DOMAIN files
      BY <1>1, <1>2, <1>5, <1>8, <3>2, ManifestIsBeside DEF b
    <3> QED BY <1>5, <3>1, <3>3
  <2>2. PlanFindings(files[plan]) \cap Errors = {}
    BY <1>2, <1>5, <1>8 DEF PlanFindings, Errors
  <2> DEFINE more == UNION {ManifestFindings(files[m], plan, files) : m \in {b} \cap DOMAIN tree}
  <2>3. found \cap Errors = more \cap Errors
    <3>1. found = PlanFindings(files[plan]) \cup more
      BY <1>5, <1>8, <2>1, Zenon DEF Findings
    <3> HIDE DEF found, more
    <3> QED BY <2>2, <3>1
  <2>4. Conforms(tree, plan) <=>
          \A m \in {b} \cap DOMAIN tree :
             /\ tree[m] \in ManifestFile
             /\ \E i \in DOMAIN tree[m] :
                  /\ Front(m) \o tree[m][i].plan = plan
                  /\ tree[plan].uses \subseteq tree[m][i].declares
                  /\ tree[m][i].data \subseteq DOMAIN tree
                  /\ tree[plan].reads \subseteq tree[m][i].data \cup DOMAIN tree
    BY <1>8, <2>1 DEF Conforms
  <2>5. CASE b \notin DOMAIN tree
    <3>1. more = {} /\ Conforms(tree, plan)
      BY <2>4, <2>5
    <3>2. found \cap Errors = {}
      BY <2>3, <3>1
    <3> QED BY <3>1, <3>2 DEF tree, files
  <2>6. CASE b \in DOMAIN tree
    <3> DEFINE man == tree[b]
               wanting == ManifestFindings(man, plan, files)
               Named(i) == Last(man[i].plan) = Last(plan)
               Right(i) == /\ tree[plan].uses \subseteq man[i].declares
                           /\ man[i].data \subseteq DOMAIN tree
                           /\ tree[plan].reads \subseteq man[i].data \cup DOMAIN tree
    <3>1. found \cap Errors = wanting \cap Errors
      <4>1. {b} \cap DOMAIN tree = {b} /\ files[b] = man
        BY <1>2, <1>5, <2>6
      <4>2. UNION {ManifestFindings(files[m], plan, files) : m \in {b}}
              = ManifestFindings(files[b], plan, files)
        OBVIOUS
      <4>3. more = wanting
        BY <4>1, <4>2
      <4> HIDE DEF more, found, wanting
      <4> QED BY <2>3, <4>3
    <3>2. Conforms(tree, plan) <=>
            man \in ManifestFile /\ \E i \in DOMAIN man : Front(plan) \o man[i].plan = plan /\ Right(i)
      BY <1>3, <2>4, <2>6
    <3>3. files[plan] = tree[plan] /\ tree[plan] \in PlanFile
      BY <1>2, <1>5, <1>8
    <3>4. CASE man \notin ManifestFile
      <4>1. wanting = {"MANIFEST_INVALID"}
        BY <3>4 DEF ManifestFindings
      <4> QED BY <3>1, <3>2, <3>4, <4>1 DEF Errors, tree, files
    <3>5. CASE man \in ManifestFile
      <4>1. /\ \A i, j \in DOMAIN man : Named(i) /\ Named(j) => i = j
            /\ \A i \in DOMAIN man : Named(i) =>
                 /\ Front(plan) \o man[i].plan = plan
                 /\ \A d \in man[i].data \cap DOMAIN tree : IsPrefix(Front(plan), d)
            /\ \A d \in tree[plan].reads \cap DOMAIN tree : IsPrefix(Front(plan), d)
        <5>1. b \in FindManifest(tree, plan)
          BY <2>1, <2>6
        <5> QED BY <1>3, <1>8, <3>5, <5>1 DEF LaidOut, tree
      <4>2. DOMAIN man \subseteq Nat /\ \A i \in DOMAIN man : man[i].plan \in Path
        <5>1. man \in Seq([plan : Path, declares : SUBSET Variable, data : SUBSET Path])
          BY <3>5, ManifestFileAssumption
        <5> HIDE DEF man
        <5>2. \A R : man \in Seq(R) => DOMAIN man \subseteq Nat /\ \A i \in DOMAIN man : man[i] \in R
          OBVIOUS
        <5>3. /\ DOMAIN man \subseteq Nat
              /\ \A i \in DOMAIN man :
                   man[i] \in [plan : Path, declares : SUBSET Variable, data : SUBSET Path]
          BY <5>1, <5>2, Zenon
        <5> QED BY <5>3
      <4>3. \A i \in DOMAIN man : Front(plan) \o man[i].plan = plan => Named(i)
        BY <1>3, <4>2, LastOfBoth
      <4>4. wanting = IF EntriesNamed(man, plan) = {} THEN {"PLAN_NOT_DECLARED"}
                      ELSE UNION {EntryFindings(e, tree[plan], files) : e \in EntriesNamed(man, plan)}
        BY <3>3, <3>5 DEF ManifestFindings
      <4>5. CASE \A i \in DOMAIN man : ~Named(i)
        <5>1. EntriesNamed(man, plan) = {}
          BY <4>5 DEF EntriesNamed
        <5>2. wanting = {"PLAN_NOT_DECLARED"}
          BY <4>4, <5>1
        <5>3. ~Conforms(tree, plan)
          BY <3>2, <4>3, <4>5
        <5> QED BY <3>1, <5>2, <5>3 DEF Errors, tree, files
      <4>6. CASE \E i \in DOMAIN man : Named(i)
        <5>1. PICK i \in DOMAIN man : Named(i)
          BY <4>6
        <5>2. EntriesNamed(man, plan) = {man[i]}
          <6>1. {k \in DOMAIN man : Named(k)} = {i}
            BY <4>1, <5>1
          <6>2. {k \in {i} : \A j \in {i} : k <= j} = {i}
            BY <4>2
          <6> QED BY <6>1, <6>2 DEF EntriesNamed
        <5>3. wanting = EntryFindings(man[i], tree[plan], files)
          <6>1. UNION {EntryFindings(e, tree[plan], files) : e \in {man[i]}}
                  = EntryFindings(man[i], tree[plan], files)
            OBVIOUS
          <6>2. EntriesNamed(man, plan) # {}
            BY <5>2
          <6> QED BY <4>4, <5>2, <6>1, <6>2
        <5>4. \A d \in (man[i].data \cup tree[plan].reads) \cap DOMAIN tree : d \in DOMAIN files
          BY <1>2, <4>1, <5>1
        <5>5. EntryFindings(man[i], tree[plan], files) = {} <=> Right(i)
          BY <1>2, <5>4, EntryAgrees
        <5>6. EntryFindings(man[i], tree[plan], files) \subseteq Errors
          BY DEF EntryFindings
        <5>7. Conforms(tree, plan) <=> Right(i)
          BY <3>2, <3>5, <4>1, <4>3, <5>1
        <5>8. found \cap Errors = {} <=> Right(i)
          BY <3>1, <5>3, <5>5, <5>6
        <5> QED BY <5>7, <5>8 DEF tree, files
      <4> QED BY <4>5, <4>6
    <3> QED BY <3>4, <3>5
  <2> QED BY <2>5, <2>6
<1> QED BY <1>6, <1>7, <1>8

-----------------------------------------------------------------------------
LEMMA FindingsType == ASSUME NEW files, NEW plan PROVE Findings(files, plan) \subseteq Warnings \cup Errors
<1>1. ASSUME NEW file PROVE PlanFindings(file) \subseteq Warnings \cup Errors
  BY DEF PlanFindings, Warnings, Errors
<1>2. ASSUME NEW entry, NEW file PROVE EntryFindings(entry, file, files) \subseteq Errors
  BY DEF EntryFindings
<1>3. ASSUME NEW man PROVE ManifestFindings(man, plan, files) \subseteq Errors
  BY <1>2 DEF ManifestFindings, Errors
<1>4. "PLAN_MISSING" \in Errors
  BY DEF Errors
<1> QED BY <1>1, <1>3, <1>4 DEF Findings

\* The findings are those of the plan at the commit that was resolved.
ReportIsOfCommit ==
    stage = "pinned" => findings = Findings(CheckedOut(TreeOf[Peeled(sha)], path), path)

\* The row names what was resolved, and the verdict.
RowTells == audit # NoRow => audit.commit = sha /\ (audit.ok <=> Ok)

ReportInv == VerifyTypeOK /\ ReportIsOfCommit /\ RowTells

LEMMA ReportInit == ASSUME VerifyInit PROVE ReportInv
  BY RefInit DEF VerifyInit, Init, ReportInv, VerifyTypeOK, ReportIsOfCommit, RowTells

\* All that a verify does to the ref and its commit is a step of the resolution, but
\* losing the report.
LEMMA VerifyIsResolution ==
    ASSUME VerifyTypeOK, [VerifyNext]_verifyVars
    PROVE  [Next]_vars \/ LoseReport
  BY DEF VerifyNext, verifyVars, ResolveRef, MakeReport, RaiseInReport, RecordVerification,
         VerifyAgain, Next

LEMMA ReportStep == ASSUME ReportInv, [VerifyNext]_verifyVars PROVE ReportInv'
<1>1. TypeOK'
  <2>1. CASE [Next]_vars
    BY <2>1, RefTypeStep DEF ReportInv, VerifyTypeOK
  <2>2. CASE LoseReport
    BY <2>2 DEF LoseReport, ReportInv, VerifyTypeOK, TypeOK
  <2> QED BY <2>1, <2>2, VerifyIsResolution DEF ReportInv
<1>2. ASSUME UNCHANGED <<stage, sha, path, findings, audit>> PROVE ReportInv'
  BY <1>1, <1>2 DEF ReportInv, VerifyTypeOK, ReportIsOfCommit, RowTells, Ok, Peeled
<1>3. CASE UNCHANGED verifyVars \/ (Push /\ UNCHANGED <<path, findings, audit>>)
  BY <1>2, <1>3 DEF verifyVars, vars, Push
<1>4. CASE ResolveRef \/ RaiseInReport
  <2>1. stage # "pinned" /\ stage' # "pinned" /\ UNCHANGED <<path, findings, audit>>
    BY <1>4 DEF ResolveRef, RaiseInReport, ResolveCommit, ResolveName, RefuseName, FailCheckOut
  <2> QED BY <1>1, <2>1 DEF ReportInv, VerifyTypeOK, ReportIsOfCommit, RowTells
<1>5. CASE MakeReport
  <2>1. /\ stage = "resolved" /\ stage' = "pinned" /\ UNCHANGED <<sha, path, audit>>
        /\ findings' = Findings(CheckedOut(TreeOf[Peeled(sha)], path), path)
    BY <1>5 DEF MakeReport, CheckOut
  <2>2. audit' = NoRow
    BY <2>1 DEF ReportInv, VerifyTypeOK
  <2>3. findings' \subseteq Warnings \cup Errors
    BY <2>1, FindingsType
  <2> QED BY <1>1, <2>1, <2>2, <2>3 DEF ReportInv, VerifyTypeOK, ReportIsOfCommit, RowTells, Peeled
<1>6. CASE RecordVerification
  <2>1. /\ stage = "pinned" /\ UNCHANGED <<stage, sha, path, findings>>
        /\ audit' = [ok |-> Ok, commit |-> sha]
    BY <1>6 DEF RecordVerification, vars
  <2>2. Ok \in BOOLEAN /\ sha \in Object
    BY <2>1 DEF Ok, ReportInv, VerifyTypeOK, TypeOK
  <2>3. audit' \in [ok : BOOLEAN, commit : Object] /\ audit'.commit = sha /\ audit'.ok = Ok
    BY <2>1, <2>2
  <2> QED BY <1>1, <2>1, <2>3 DEF ReportInv, VerifyTypeOK, ReportIsOfCommit, RowTells, Ok, Peeled
<1>7. CASE LoseReport
  BY <1>1, <1>7 DEF LoseReport, ReportInv, VerifyTypeOK, ReportIsOfCommit, RowTells
<1>8. CASE VerifyAgain
  BY <1>1, <1>8 DEF VerifyAgain, Again, ReportInv, VerifyTypeOK, ReportIsOfCommit, RowTells
<1> QED BY <1>3, <1>4, <1>5, <1>6, <1>7, <1>8 DEF VerifyNext

LEMMA VerifyResolvedStep ==
    ASSUME NamesSortWell, VerifyTypeOK, ResolvedIsMeant, [VerifyNext]_verifyVars
    PROVE  ResolvedIsMeant'
<1>1. CASE [Next]_vars
  BY <1>1, ResolvedStep DEF VerifyTypeOK
<1>2. CASE LoseReport
  BY <1>2 DEF LoseReport, ResolvedIsMeant
<1> QED BY <1>1, <1>2, VerifyIsResolution

LEMMA ReportHolds == VerifySpec => []ReportInv
<1>1. VerifyInit => ReportInv
  BY ReportInit
<1>2. ReportInv /\ [VerifyNext]_verifyVars => ReportInv'
  BY ReportStep
<1> QED BY <1>1, <1>2, PTL DEF VerifySpec

LEMMA VerifyResolves == ASSUME NamesSortWell PROVE VerifySpec => []ResolvedIsMeant
<1>1. VerifyInit => ResolvedIsMeant
  BY RefInit DEF VerifyInit
<1>2. ReportInv /\ ResolvedIsMeant /\ [VerifyNext]_verifyVars => ResolvedIsMeant'
  BY VerifyResolvedStep DEF ReportInv
<1> QED BY <1>1, <1>2, ReportHolds, PTL DEF VerifySpec

\* A report has the findings there are, its row the verdict and an object's identifier,
\* and there is a row only of a report, whatever a plan, a manifest or a tree holds.
THEOREM VerifyTypeCorrect == VerifySpec => []VerifyTypeOK
<1>1. ReportInv => VerifyTypeOK
  BY DEF ReportInv
<1> QED BY <1>1, ReportHolds, PTL

\* What is verified is what the name meant: a report that is lost, or is made while the
\* refs move on, changes nothing about it.
THEOREM VerifiesWhatIsMeant == ASSUME NamesSortWell PROVE VerifySpec => []PinnedIsMeant
<1>1. ResolvedIsMeant => PinnedIsMeant
  BY DEF ResolvedIsMeant, PinnedIsMeant
<1> QED BY <1>1, VerifyResolves, PTL

\* Where names sort well and every tree is laid out as documented, the verdict of the
\* report and of its audit row is the one that the whole tree of the commit deserves: the
\* sparse checkout hides nothing it depends on.
THEOREM VerdictsAreOfTheCommit ==
    ASSUME NamesSortWell, AllLaidOut PROVE VerifySpec => []VerdictIsOfTheCommit
<1>1. ReportInv /\ ResolvedIsMeant => VerdictIsOfTheCommit
  <2> SUFFICES ASSUME ReportInv, ResolvedIsMeant, stage = "pinned", meant # Absent
               PROVE  /\ Ok <=> Conforms(TreeOf[meant], path)
                      /\ audit # NoRow => Peeled(audit.commit) = meant /\ (audit.ok <=> Ok)
    BY DEF VerdictIsOfTheCommit
  <2>1. meant \in Commit /\ path \in PlanPath /\ Peeled(sha) = meant
    BY DEF ReportInv, VerifyTypeOK, TypeOK, ResolvedIsMeant
  <2>2. findings = Findings(CheckedOut(TreeOf[meant], path), path)
    BY <2>1 DEF ReportInv, ReportIsOfCommit
  <2>3. Ok <=> Conforms(TreeOf[meant], path)
    BY <2>1, <2>2, VerdictAgrees DEF AllLaidOut, Ok
  <2>4. audit # NoRow => Peeled(audit.commit) = meant /\ (audit.ok <=> Ok)
    BY <2>1 DEF ReportInv, RowTells
  <2> QED BY <2>3, <2>4
<1> QED BY <1>1, ReportHolds, VerifyResolves, PTL


-----------------------------------------------------------------------------
\* Requests stay typed while one verifies, and the verify while connections are shared.
THEOREM BothTypesCorrect == BothSpec => []BothTypeOK
<1> DEFINE BothInv == ReportInv /\ IInv
<1>1. BothInit => BothInv
  BY ReportInit, InitIInv DEF BothInit
<1>2. BothInv /\ [BothNext]_<<verifyVars, sessionVars>> => BothInv'
  <2> SUFFICES ASSUME BothInv, [BothNext]_<<verifyVars, sessionVars>> PROVE BothInv'
    OBVIOUS
  <2>1. [VerifyNext]_verifyVars /\ [SessionNext]_sessionVars
    BY DEF BothNext
  <2> QED BY <2>1, ReportStep, NextIInv
<1>3. BothInv => BothTypeOK
  BY DEF ReportInv, IInv, BothTypeOK
<1> QED BY <1>1, <1>2, <1>3, PTL DEF BothSpec

=============================================================================

SPECIFICATION Spec
CONSTANTS
    A = A
    B = B
    main = main
    tag = tag
    c1 = c1
    c2 = c2
    c3 = c3
    c4 = c4
    c5 = c5
    v = v
    Repo = {A, B}
    RepoName = {A, B}
    NameOf <- MCNameOf
    Ref = {main, c1, c2, c4}
    Commit = {c1, c2, c3, c4, c5}
    Holds <- MCHolds
    NamedHost <- MCNamedHost
    NoHost = NoHost
    Content <- MCContent
    Broken = Broken
    Raising = Raising
    PlanAt <- MCPlanAt
    Variable = {v}
    Mixed = Mixed
    Unresolved = Unresolved
    PlanLists <- PlansOfTwo
    Asked = {1, 2}
    AllowLists <- MCAllowLists
    Pools <- WidePools
    MaxInt = 3
    Text <- MCText
    Family = {"v4"}
    Size = {4, 16}
    Everything <- MCEverything
    AddressOf <- MCAddressOf
    NoAddress = NoAddress
    Hostname <- MCText
    BlockedName = {}
    BlockedNetwork = {}
    NoPool = NoPool
\* A report is the end of a request.
CHECK_DEADLOCK FALSE
INVARIANT TestIsAnswered

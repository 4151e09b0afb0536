SPECIFICATION BothSpec
CONSTANTS
    c1 = c1
    c2 = c2
    c3 = c3
    c4 = c4
    t1 = t1
    host = host
    token = token
    Broken = Broken
    Raising = Raising
    Data = Data
    FullName <- MCFullName
    Given <- MCGiven
    Commit = {c1, c2, c3, c4}
    Tag = {t1}
    Peel <- MCPeel
    Absent = Absent
    TreeOf <- MCTreeOf
    PlanPath <- MCPlanPath
    ManifestName = "plimsoll.yaml"
    PlanFile <- MCPlanFile
    ManifestFile <- MCManifestFile
    RaisingFile = {Raising}
    Variable = {host, token}
    NoRow = NoRow
    Request = {r1, r2}
    Connection = {k1}
    Org = {o1, o2}
    NoConnection = NoConnection
    Unset = Unset
    Empty = Empty
INVARIANTS BothTypeOK PinnedIsMeant VerdictIsOfTheCommit OrganisationsStayApart
PROPERTY NobodyWaitsForGit
CHECK_DEADLOCK FALSE

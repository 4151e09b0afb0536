SPECIFICATION VerifySpec
CONSTANTS
    c1 = c1
    c2 = c2
    c3 = c3
    c4 = c4
    t1 = t1
    host = host
    token = token
    Broken = Broken
    Raising = Raising
    Data = Data
    FullName <- OneName
    Given <- OneGiven
    Commit = {c1, c2, c3}
    Tag = {t1}
    Peel <- MCPeel
    Absent = Absent
    TreeOf <- BareTreeOf
    PlanPath <- RootPlan
    ManifestName = "plimsoll.yaml"
    PlanFile <- MCPlanFile
    ManifestFile <- MCManifestFile
    RaisingFile = {Raising}
    Variable = {host, token}
    NoRow = NoRow
INVARIANT VerdictIsOfTheCommit

SPECIFICATION Spec
CONSTANTS
    alice = alice
    bob = bob
    acme = acme
    beta = beta
    User = {alice, bob}
    Org = {acme, beta}
    OrgOf <- MCOrgOf
    Client = {c1, c2}
    Request = {r1, r2}
    Family = {f1, f2}
    Token = {t1, t2, t3, t4}
    RefreshTtl = 2
    MaxTime = 2
    ResponsesCanBeLost = TRUE
    NoToken = NoToken
    NoFamily = NoFamily
    NoRow = NoRow
    NoOrg = NoOrg
    NoClient = NoClient
    ForeignToken = ForeignToken
SYMMETRY Symmetry
INVARIANTS TypeOK TokensKeepTheirFamily ConsumedTokenStaysConsumed ReadFamilyStands HandedOutTokenIsKnown
PROPERTY SessionEndsOnSchedule

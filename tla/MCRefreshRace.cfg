SPECIFICATION Spec
CONSTANTS
    alice = alice
    bob = bob
    acme = acme
    beta = beta
    User = {alice, bob}
    Org = {acme, beta}
    OrgOf <- MCOrgOf
    Client = {c1}
    Request = {r1, r2}
    Family = {f1}
    Token = {t1, t2, t3}
    RefreshTtl = 1
    MaxTime = 0
    ResponsesCanBeLost = FALSE
    NoToken = NoToken
    NoFamily = NoFamily
    NoRow = NoRow
    NoOrg = NoOrg
    NoClient = NoClient
    ForeignToken = ForeignToken
INVARIANT TokenExchangedOnce

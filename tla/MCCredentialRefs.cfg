SPECIFICATION FairSpec
CONSTANTS
    Request = {r1, r2, r3}
    Credential = {c1, c2}
    Name = {n}
    NameOf <- SameName
    Repo = {p1, p2}
    NoCredential = NoCredential
    NoRepo = NoRepo
INVARIANTS TypeOK ReferencesResolve
PROPERTY RequestsAreAnswered

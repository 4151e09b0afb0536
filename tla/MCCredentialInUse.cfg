SPECIFICATION Spec
CONSTANTS
    Request = {r1, r2}
    Credential = {c1}
    Name = {n}
    NameOf <- SameName
    Repo = {p1}
    NoCredential = NoCredential
    NoRepo = NoRepo
PROPERTY ReferencedIsRefused

SPECIFICATION FairSpec
CONSTANTS
    Request = {r1, r2}
    Resource = {x1, x2}
    Column = {name}
    Value = {v1, v2}
    KeyColumn = name
    KeyIsEditable = TRUE
    NoResource = NoResource
    MaxRecords = 2
PROPERTY RequestsAreAnswered

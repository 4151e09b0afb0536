SPECIFICATION BothSpec
CONSTANTS
    Request = {r1, r2}
    Resource = {x1, x2}
    Column = {name, size}
    Value = {v1, v2}
    KeyColumn = name
    KeyIsEditable = TRUE
    NoResource = NoResource
    MaxRecords = 2
    Id = {1, 2, 3, 4}
    Limits = {1, 2}
    MaxTime = 3
SYMMETRY Symmetry
INVARIANTS BothTypeOK KeysAreUnique AuditTellsLifecycle NothingShownTwice NothingSkipped
CHECK_DEADLOCK FALSE
PROPERTY AuditNamesWhatChanged

SPECIFICATION Spec
CONSTANTS
    Editor = {e1, e2}
    Content = {a, b}
    Keep = Keep
    NoDoc = NoDoc
    MaxVersion = 3
SYMMETRY Symmetry
INVARIANTS TypeOK VersionNumbersHistory CurrentVersionIsWhole AuditTellsHistory
PROPERTY EditsAreAtomic

SPECIFICATION Spec
CONSTANTS
    c1 = c1
    c2 = c2
    t1 = t1
    FullName <- NestedNames
    Given <- NestedGiven
    Commit = {c1, c2}
    Tag = {}
    Peel <- PeelOf
    Absent = Absent
INVARIANT PinnedIsMeant

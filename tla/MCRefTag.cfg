SPECIFICATION Spec
CONSTANTS
    c1 = c1
    c2 = c2
    t1 = t1
    FullName <- OneTag
    Given <- TagGiven
    Commit = {c1, c2}
    Tag = {t1}
    Peel <- PeelOf
    Absent = Absent
INVARIANT PinnedIsCommit

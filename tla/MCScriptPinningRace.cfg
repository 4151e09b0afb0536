SPECIFICATION Spec
CONSTANTS
    c1 = c1
    c2 = c2
    p1 = p1
    p2 = p2
    Request = {r1, r2}
    Ref = {main}
    Commit = {c1, c2}
    Path = {p1, p2}
    Plans <- SomePlans
    Nothing = Nothing
INVARIANT PinningIsIdempotent

CONSTANTS
    p = p
    q = q
    a = a
    b = b
    m = m
    Key = {p, q, a, b, m}
    May <- Values
    Less <- LessPairs
    Same <- SamePairs
    Settled = {a, b}
    v = v
    w = w
    Val = {v, w}
    Nil = Nil
    MaxLevel = 2
    MaxNodes = 3
SPECIFICATION Spec
INVARIANTS Sorted LoopIsWhole
PROPERTY IsDictionary
SYMMETRY Symm

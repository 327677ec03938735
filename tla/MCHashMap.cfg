CONSTANTS
    Key = {k1, k2, k3, k4}
    Mutable = {k1}
    Refused = {k1}
    Val = {v, w}
    Nil = Nil
    Unwritten = Unwritten
    Hash = {0, 3, 6}
    Kinds = {"value"}
    Sizes = {2, 4}
    MaxSize = 8
SPECIFICATION Spec
SYMMETRY Symm
CONSTRAINT Small
INVARIANTS Chained RehashFits HeadsFound LoopIsWhole
PROPERTY IsDictionary

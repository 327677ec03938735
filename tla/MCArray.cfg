CONSTANTS
    Val = {v, w}
    Nil = Nil
    Junk = Junk
    MaxAdd = 1
    Capacities = {0, 2}
    MaxCount = 3
    Half = 4
SPECIFICATION FairSpec
INVARIANTS LoopIsWhole RangeIsExact
PROPERTIES IsList LoopEnds

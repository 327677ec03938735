CONSTANTS
    Obj = {g, a, b, c}
    Global = g
    Text = {x}
    Nil = Nil
    Argv = Argv
    MaxStack = 3
    MaxLocal = 1
    MaxFrames = 1
    MaxPause = 1
    MaxRefs = 2
SPECIFICATION Spec
SYMMETRY Symm
INVARIANTS TypeOK SafeUnlessExposed LeakedUnreachable PoolUnique
PROPERTIES GrabsReleased
CONSTRAINT Small
\* An instance has four addresses; the program stops when it runs out of them.
CHECK_DEADLOCK FALSE

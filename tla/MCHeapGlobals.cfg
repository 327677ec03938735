CONSTANTS
    Obj = {g, a, b}
    Global = g
    Text = {x}
    Nil = Nil
    Argv = Argv
    MaxStack = 3
    MaxLocal = 2
    MaxFrames = 2
    MaxPause = 1
    MaxRefs = 9
SPECIFICATION Spec
INVARIANT GlobalsLive
CHECK_DEADLOCK FALSE

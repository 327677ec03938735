CONSTANTS
    script = script
    Fun = {script}
    PCall = PCall
    Error = Error
    Data = {}
    Ref = Ref
    Nil = Nil
    NParams <- Params
    NLocals <- Variables
    MaxStack = 5
    MaxLocal = 6
    MaxFrames = 4
    MaxArgs = 2
    MaxArgv = 2
    MaxOperands = 2
CONSTRAINT Small
SPECIFICATION Spec
INVARIANTS TypeOK JumpTargets BalancedUnlessDirty NeverShort ArgvOfCall
PROPERTIES LocalsOfCallers

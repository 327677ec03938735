CONSTANTS
    OffsetLimit = 65536
    MaxPhrases = 4
    MaxOperands = 2
SPECIFICATION Spec
INVARIANTS NothingHeldUnlessSlipped LoopsKept OperandsAgree
CONSTRAINT Clean
\* A machine that has run stops.
CHECK_DEADLOCK FALSE

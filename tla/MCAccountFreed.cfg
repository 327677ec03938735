CONSTANTS
    f1 = f1
    f2 = f2
    f3 = f3
    c1 = c1
    c2 = c2
    Fn = {f1, f2, f3}
    Chunk = {c1, c2}
    Nil = Nil
    Align <- Aligns
    ChunkSize = 1
    FuncSize = 1
    Threshold = 8
    Words = 32
    MaxCount = 2
    MaxDepth = 2
    MaxFailed = 1
    MaxUnits = 1
SPECIFICATION Spec
INVARIANT AllFreed
SYMMETRY Symm
CHECK_DEADLOCK FALSE

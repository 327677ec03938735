CONSTANTS
    Char <- Every
    MaxLen = 4
SPECIFICATION LexFairSpec
INVARIANTS AsWritten CursorTells
PROPERTY Ends
\* The compiler ends or fails.
CHECK_DEADLOCK FALSE

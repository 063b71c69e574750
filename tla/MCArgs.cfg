CONSTANTS
    q = q
    sp = sp
    a = a
    Quote <- q
    Space <- sp
    Letters <- MCLetters
    MaxLen = 5
SPECIFICATION Spec
INVARIANTS
    TypeOK
    SplitAtUnquotedSpaces
CHECK_DEADLOCK FALSE

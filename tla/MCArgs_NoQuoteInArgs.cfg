CONSTANTS
    q = q
    sp = sp
    a = a
    Quote <- q
    Space <- sp
    Letters <- MCLetters
    MaxLen = 5
SPECIFICATION Spec
INVARIANT NoQuoteInArgs
CHECK_DEADLOCK FALSE

CONSTANT
    MaxLines = 6

SPECIFICATION Spec
CHECK_DEADLOCK FALSE
INVARIANT
    TypeOK
    ThreadsAsPrinted

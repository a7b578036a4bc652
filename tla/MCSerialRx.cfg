CONSTANTS
    BufSz = 5
    MaxBytes = 24
SPECIFICATION Spec
INVARIANTS TypeOK Content
PROPERTIES ImplementsQueue
CHECK_DEADLOCK FALSE

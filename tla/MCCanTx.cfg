CONSTANTS
    Threads = {t1, t2, t3}
    SndBoxes = 2
    Mailboxes = 3
SPECIFICATION Spec
INVARIANTS
    TypeOK
    BoxesNotShared
    OkMeansSent
    FailIndexInRange
PROPERTIES
    SenderReturns

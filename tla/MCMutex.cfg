CONSTANTS
    Threads = {1, 2, 3}
    Mutexes = {1, 2}
    InitPrio <- MCInitPrio
    NoPrio = 5
    HoldMax = 2
    Ceilings = {0}
    NoThread = NoThread
    NoMutex = NoMutex
SPECIFICATION Spec
INVARIANTS
    TypeOK
    Inheritance
    PriorityRestored
PROPERTIES
    HandOffToHighest
CHECK_DEADLOCK FALSE

CONSTANTS
    Cap = 2
    Devs = {u1, u2}
    BootDev = u1
    AppDevs = {u2}
    SemMax = 1
    MaxSwitch = 1
    None = None
SPECIFICATION Spec
INVARIANTS TypeOK IsrHasFifo RefsAreUsers RxPathWhole
PROPERTIES NoLostWakeup

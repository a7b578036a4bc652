CONSTANTS
    Cap = 1
    Devs = {u1, u2}
    BootDev = u1
    AppDevs = {u2}
    SemMax = 1
    MaxSwitch = 4
    None = None
SPECIFICATION Spec
INVARIANT IsrAssertion

CONSTANTS
    TickMod = 14
    Freq = 3
    TicksPerSecond = 3
    LptimMax = 4
    LightTime = 2
    DeepTime = 3
    Timers = {once, again}
    Period <- MCPeriod
    Periodic = {again}
    MaxModule = 1
    Delays = {2}
    Off = Off
SPECIFICATION Spec
INVARIANT AutoreloadAboveCompare

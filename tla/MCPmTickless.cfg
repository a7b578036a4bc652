CONSTANTS
    TickMod = 14
    Freq = 3
    TicksPerSecond = 2
    LptimMax = 5
    LightTime = 2
    DeepTime = 3
    Timers = {once, again}
    Period <- MCPeriod
    Periodic = {again}
    MaxModule = 1
    Delays = {2}
    Off = Off
SPECIFICATION Spec
INVARIANTS TypeOK DelayHonoured
PROPERTIES LptimerOnTime TimedSleepEnds

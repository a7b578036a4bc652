CONSTANTS
    MaxCnt = 3
    Freqs = {46, 26}
    DefFreq = 46
    Timeouts = {0, 3, 6, 7, 160}
    Splits <- MCSplits
    MaxWrites = 2
    MaxExtra = 2
    MaxTicks = 13
    FloatBits = 6
    UsecPerSec = 46
    UintMax = 255
SPECIFICATION Spec
INVARIANTS
    TypeOK
    NotEarly
    OneShotRests
    ReadIsElapsed
    TimeoutClose
    ReadClose
PROPERTIES
    TimeoutComes

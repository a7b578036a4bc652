CONSTANTS
    CountMax = 2
    MaxOwed = 3
    ReqModes = {0, 1, 2}
    RunModes = {0, 2}
    MaxListed = 2
    Modules = {1}
    Devices = {d1}
SPECIFICATION Spec
INVARIANT DefaultWhenNoRequest

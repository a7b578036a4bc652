CONSTANTS
    Pins <- MCPins
    ResetPort = "A"
    Handlers = {h}
    Modes = {"RISING", "RISING_FALLING", "HIGH_LEVEL"}
    NoPin = NoPin
    NoHandler = NoHandler
    OffTable = OffTable
SPECIFICATION Spec
INVARIANTS TypeOK VectorFollowsMask
PROPERTIES EnabledCallbackForOwnPin OneCallPerEdge EdgeServed

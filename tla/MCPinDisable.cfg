CONSTANTS
    Pins <- MCPins
    ResetPort = "A"
    Handlers = {h}
    Modes = {"RISING"}
    NoPin = NoPin
    NoHandler = NoHandler
    OffTable = OffTable
SPECIFICATION Spec
PROPERTY DisabledPinSilent

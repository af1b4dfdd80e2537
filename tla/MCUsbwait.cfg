CONSTANTS
    None = None
    d1 = d1
    d2 = d2
    Devices <- TwoPorts
    Handlers <- ThreeHandlers
    Kind <- CameraAndModem
    MODCNT = 1
    DelayLimit = 1
    MaxBoots = 0
SPECIFICATION Spec
PROPERTIES HandlersEnd RestartsEnd
CHECK_DEADLOCK FALSE

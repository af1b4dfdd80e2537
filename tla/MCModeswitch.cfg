CONSTANTS
    None = None
    d1 = d1
    d2 = d2
    Devices <- TwoPorts
    Handlers <- ThreeHandlers
    Kind <- StorageAndModem
    MODCNT = 2
    DelayLimit = 1
    MaxBoots = 1
SPECIFICATION Spec
INVARIANTS FreshSlot TableMatchesBus  BootLosesNothing
CHECK_DEADLOCK FALSE

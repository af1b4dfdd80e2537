CONSTANTS
    MODCNT = 2
    Wans <- TwoWans
    Profile <- CrossedWans
    Disabled = 5
    Netifd = {}
    NoPort = {}
    NoDhcp = {}
    Apns = 1
    Polls = 0
    MaxPlugs = 2
    MaxRestarts = 1
SPECIFICATION Spec
PROPERTIES RestartSparesOthers
CHECK_DEADLOCK FALSE

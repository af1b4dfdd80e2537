CONSTANTS
    MODCNT = 3
    Wans <- ThreeWans
    Profile <- MixedWans
    Disabled = 5
    Netifd = {2}
    NoPort = {3}
    NoDhcp = {2}
    Apns = 2
    Polls = 0
    MaxPlugs = 2
    MaxRestarts = 1
SPECIFICATION Spec
INVARIANTS WanUnshared  UnplugTearsOwn 
CHECK_DEADLOCK FALSE

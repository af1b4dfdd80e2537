CONSTANTS
  HOSTS = 3
  RELIAB = 2
  UP = 3
  DOWN = 3
SPECIFICATION Spec
INVARIANTS TypeOK DownAfterThisMany UpAfterThisMany
PROPERTY DeadLinkActedOn
CHECK_DEADLOCK FALSE

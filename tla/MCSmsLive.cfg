SPECIFICATION FairSpec
CONSTANTS
  m1 = m1
  m2 = m2
  r1 = r1
  AutoDelete = AutoDelete
  None = None
  Proc = Proc
  Dead = Dead
  Msgs <- MCMsgs
  Stored <- MCNone
  Commands <- MCNone
  Requests <- MCRequests
  SmCap = 2
  MeCap = 1
  MaxKills = 1
PROPERTIES ComesToPage RequestsEnd
CHECK_DEADLOCK FALSE

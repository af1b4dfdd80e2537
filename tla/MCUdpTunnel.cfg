SPECIFICATION FairSpec
CONSTANTS
  dest = dest
  local = local
  Nobody = Nobody
  Address <- MCAddress
  Destination = dest
  TCPBUFFERSIZE = 6
  HandshakeLen = 2
  Base = 3
  Window = 3
  MaxSent <- MCMaxSent
  Greeting <- MCGreeting
  Datagram <- MCDatagram
  Timeout <- MCTimeout
INVARIANTS  ClosedMeansClosed
PROPERTIES ImplementsRelay DatagramsArrive EndsTogether
CHECK_DEADLOCK FALSE

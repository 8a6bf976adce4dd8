SPECIFICATION Spec
CONSTANTS
  k1 = k1
  k2 = k2
  k3 = k3
  ann = ann
  bob = bob
  Conn <- MCConn
  User <- MCUser
  Owner <- MCOwner
  Nobody = Nobody
  Garbage = Garbage
  MaxClients = 2
  MaxFd = 2
  MaxPackets <- MCMaxPackets
INVARIANT Disconnected
CHECK_DEADLOCK FALSE

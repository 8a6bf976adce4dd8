\* Three connections for two entries of the array, and descriptors for all.
SPECIFICATION FairSpec
CONSTANTS
  Conn = {k1, k2, k3}
  k1 = k1
  k2 = k2
  k3 = k3
  MAX_CLIENTS = 2
  MaxFd = 3
INVARIANTS TypeOK CountIsThreads OwnSocket ArrayIsServed
PROPERTIES Answered
\* The server exits.
CHECK_DEADLOCK FALSE

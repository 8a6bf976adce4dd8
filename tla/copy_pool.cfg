SPECIFICATION FairSpec
CONSTANTS
  f1 = f1
  f2 = f2
  f3 = f3
  p1 = p1
  top = top
  sub = sub
  c1 = c1
  c2 = c2
  Regular <- MCRegular
  Fifo <- MCFifo
  Dir <- MCDir
  Root = top
  Parent <- MCParent
  Consumer <- MCConsumer
  Absent = Absent
  Empty = Empty
  Mixed = Mixed
  BufferSize = 2
  MaxFd = 6
  Fault = {"dir", "open", "fifo", "write", "interrupt"}
INVARIANTS TypeOK ContentRight NeverOvercounts
PROPERTIES QueueSpec Termination
CHECK_DEADLOCK FALSE

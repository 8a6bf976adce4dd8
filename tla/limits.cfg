\* Every folder contains a directory ("."), the array has room for one name, and
\* there is one client more than there are slots.
SPECIFICATION RunningSpec
CONSTANTS
  FileName = {f}
  DirName = {dot}
  NoName = NoName
  Absent = Absent
  MaxFiles = 1
  Client = {c1, c2, c3}
  DirOf <- OneDirectory
  NoClient = NoClient
  MaxClients = 2
  MaxTime = 2
  MaxOps = 1
  Env = {"write", "adminWrite"}
  c1 = c1
  c2 = c2
  c3 = c3
  d1 = d1
INVARIANTS InStep FramingOK NoMutualWait
PROPERTIES ConversationKept CycleEnds
\* Servers and clients may exit, and the environment has finitely many events.
CHECK_DEADLOCK FALSE

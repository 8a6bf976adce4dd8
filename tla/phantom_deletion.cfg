\* A user writes one file twice and then another one.
SPECIFICATION Spec
CONSTANTS
  FileName = {f, g}
  DirName = {}
  NoName = NoName
  Absent = Absent
  MaxFiles = 3
  Client = {c1}
  DirOf <- OneDirectory
  NoClient = NoClient
  MaxClients = 2
  MaxTime = 2
  MaxOps = 3
  Env = {"write"}
  c1 = c1
  c2 = c2
  c3 = c3
  d1 = d1
PROPERTIES RemovesOnlyDeleted
\* Servers and clients may exit, and the environment has finitely many events.
CHECK_DEADLOCK FALSE

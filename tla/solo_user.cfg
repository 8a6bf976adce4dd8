\* One user who writes, at any pace and with any mtime, and deletes nothing; the
\* directory stops the server in each walk, and it is started again.
SPECIFICATION Spec
CONSTANTS
  FileName = {f, g}
  DirName = {dot}
  NoName = NoName
  Absent = Absent
  MaxFiles = 3
  Client = {c1}
  DirOf <- OneDirectory
  NoClient = NoClient
  MaxClients = 2
  MaxTime = 3
  MaxOps = 4
  Env = {"write", "collide", "backdate", "reboot"}
  c1 = c1
  c2 = c2
  c3 = c3
  d1 = d1
INVARIANTS TableIsTrue SearchCoversTable TornOnlyWhileWriting
PROPERTIES OnlyDirectoriesStop
\* Servers and clients may exit, and the environment has finitely many events.
CHECK_DEADLOCK FALSE

\* One user writes one file; the folder also has its entry ".".
SPECIFICATION RestartingSpec
CONSTANTS
  FileName = {f}
  DirName = {dot}
  NoName = NoName
  Absent = Absent
  MaxFiles = 3
  Client = {c1}
  DirOf <- OneDirectory
  NoClient = NoClient
  MaxClients = 2
  MaxTime = 2
  MaxOps = 1
  Env = {"write", "reboot"}
  c1 = c1
  c2 = c2
  c3 = c3
  d1 = d1
PROPERTIES FoldersAgree
\* Servers and clients may exit, and the environment has finitely many events.
CHECK_DEADLOCK FALSE

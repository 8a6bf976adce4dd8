\* Two clients, files of up to two units, one unit under way at a time.
SPECIFICATION FairSpec
CONSTANTS
  Conn = {c1, c2}
  Editors = {c1}
  Mortals = {c2}
  c1 = c1
  c2 = c2
  Nobody = Nobody
  MaxSize = 2
  Buffer = 1
INVARIANTS TypeOK Aligned DownloadIsWhole
PROPERTIES ExchangeEnds
\* The server exits, a client may be lost.
CHECK_DEADLOCK FALSE

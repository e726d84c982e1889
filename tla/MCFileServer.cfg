SPECIFICATION FairSpec
CONSTANTS
  c1 = c1
  c2 = c2
  Conns = {c1, c2}
  AddrOf <- OwnAddr
  Steady = {c2}
  Files = {f1}
  Long = {f1}
  Threads = 2
  NoConn = NoConn
  NoMsg = NoMsg
INVARIANTS
  OwnConnection
  NeverServesEarlier
  AloneAckedListed
  RowsHaveOwners
  CrashesHaveCause
  CountIsClients
PROPERTIES
  QuitDisconnects
CHECK_DEADLOCK FALSE

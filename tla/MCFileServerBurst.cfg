SPECIFICATION Spec
CONSTANTS
  c1 = c1
  c2 = c2
  Conns = {c1, c2}
  AddrOf <- OwnAddr
  Steady = {}
  Files = {f1}
  Long = {}
  Threads = 2
  NoConn = NoConn
  NoMsg = NoMsg
INVARIANTS
  OneWorkerPerClient
CHECK_DEADLOCK FALSE

SPECIFICATION FairSpec
CONSTANTS
  Clients = {c1, c2, c3}
  Listener = listener
  FdSetSize = 3
  Invalid = invalid
INVARIANTS
  SlotsAreSockets
  PickedReturns
  ScanTurnsToAll
  OutagesHaveCause
PROPERTIES
  RequestsAnswered
CHECK_DEADLOCK FALSE

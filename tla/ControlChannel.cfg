SPECIFICATION FairSpec
CONSTANTS
  Clients = {c1}
  Sockets = {s1}
  Requests = {r1, r2}
  Handlers = {h1, h2}
  MaxEvents = 2
  MaxUnderWay = 1
  None = None
INVARIANTS
  TypeOK
  PendingIffUnsettled
  SubscribersAreConnected
  EventsInOrder
PROPERTIES
  ImplementsRpc
  RequestsSettle
  StopEndsConnections
CHECK_DEADLOCK FALSE

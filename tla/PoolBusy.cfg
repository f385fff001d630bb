CONSTANTS
  Clients = {c1, c2}
  BadClients = {}
  Leavers = {}
  Changes = {"sync", "modified", "unanswerable"}
  Workers = {w1, w2}
  NumFds = 2
  QueueBound = 2
  Main = Main
  None = None
SPECIFICATION BusySpec
CHECK_DEADLOCK FALSE
INVARIANTS OneReaderPerConnection
PROPERTY RequestsServed

CONSTANTS
  Clients = {c1, c2}
  BadClients = {}
  Leavers = {}
  Changes = {"sync"}
  Workers = {w1, w2}
  NumFds = 2
  QueueBound = 3
  Main = Main
  None = None
SPECIFICATION QuietSpec
PROPERTY RequestsServed

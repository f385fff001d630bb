CONSTANTS
  Clients = {c1, c2, c3}
  BadClients = {c1, c2, c3}
  Leavers = {c1, c2, c3}
  Changes = {"sync", "modified", "unopened"}
  Workers = {w1, w2}
  NumFds = 2
  QueueBound = 2
  Main = Main
  None = None
SPECIFICATION Spec
CHECK_DEADLOCK FALSE
INVARIANTS TypeOK NoLostWakeup OneRequestAtATime WaitingCount NoOtherStop RightAccount NobodyForgotten CutOffLate
SYMMETRY Alike

CONSTANTS
  Tasks = {t0, t1, t2}
  Root = t0
  Quanta = {0, 2}
  DefaultQuantum = 2
  MaxCalls = 3
  Idle = Idle
CHECK_DEADLOCK FALSE
SPECIFICATION TurnSpec
INVARIANT PolicyKept

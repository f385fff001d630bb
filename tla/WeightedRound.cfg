CONSTANTS
  Tasks = {t0, t1, t2}
  Root = t0
  Quanta = {0, 2}
  DefaultQuantum = 2
  MaxCalls = 3
  Idle = Idle
CHECK_DEADLOCK FALSE
SPECIFICATION FairTurnSpec
INVARIANTS QueueExact SliceReady NeverOutranked HeadRuns
PROPERTIES OneTurnEach WaitShrinks EveryTaskRuns

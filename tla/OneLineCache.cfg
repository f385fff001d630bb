CONSTANTS
  Tags = {0, 1}
  Indexes = {0}
  Offsets = {0, 1}
  Words = {0, 1}
  Zero = 0
  ZeroTag = 0
  Latency = 6
SPECIFICATION FlushSpec
INVARIANTS IndInv CleanLinesAgree VictimSaved FillIsRequestedLine StoresArePrinted MissesCostTheSame
PROPERTIES BusHeldDuringTransfer ImplementsFlatMemory StallEnds

CONSTANTS
  Tags = {0, 1}
  Indexes = {0}
  Offsets = {0, 1}
  Words = {0, 1, 2, 3}
  Zero = 0
  ZeroTag = 0
  Latency = 6
  Place <- MCPlace
  Regs = {0, 1}
  AluOps <- MCOps
  Alu <- MCAlu
  CodeSize = 4
  Programs <- MCPrograms
  Input = 2
  None = None
SPECIFICATION SettledComputerSpec
INVARIANT ReadMissIsReadHit

CONSTANTS
  Words = {0, 1, 2, 3}
  Zero = 0
  Regs = {0, 1, 2}
  AluOps <- MCOps
  Alu <- MCAlu
  CodeSize = 5
  Programs <- MCSafePrograms
  Input = 2
  None = None
SPECIFICATION Spec
INVARIANTS PipeInv
PROPERTIES ImplementsSequential RetiresSoon Retires

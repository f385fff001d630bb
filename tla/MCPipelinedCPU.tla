--------------------------- MODULE MCPipelinedCPU ---------------------------
(* Every safe program of five instructions from a set in which each kind   *)
(* meets each other kind on the same registers; words of two bits.         *)
EXTENDS PipelinedCPU, Bitwise

MCAlu(op, x, y) ==
  CASE op = "add" -> (x + y) % 4
    [] op = "sub" -> (x - y) % 4
    [] op = "mul" -> (x * y) % 4
    [] op = "and" -> x & y
    [] op = "or"  -> x | y

MCOps == {"add", "sub", "mul", "and", "or"}

RType(op, rd, rs, rt) == [NOP EXCEPT !.op = op, !.rd = rd, !.rs = rs, !.rt = rt]
IType(op, rt, rs, imm) == [NOP EXCEPT !.op = op, !.rt = rt, !.rs = rs, !.imm = imm]

MCInsts ==
  {NOP, RType("add", 1, 1, 2), IType("addi", 2, 1, 3), IType("addi", 1, 0, 1),
   IType("lw", 1, 2, 0), IType("sw", 1, 2, 0), RType("sub", 2, 2, 1),
   [NOP EXCEPT !.op = "beq", !.rs = 1, !.rt = 2, !.target = 1],
   [NOP EXCEPT !.op = "j", !.target = 2]}

MCSafePrograms == {program \in [CodeAddrs -> MCInsts] : Safe(program)}
=============================================================================

---------------------------- MODULE MCCachedCPU ----------------------------
(* Four words of two bits, two lines of two words that compete for one     *)
(* line of the cache, and the programs that store and load.                *)
EXTENDS CachedCPU, Bitwise

ISet == INSTANCE InstructionSet

MCAlu(op, x, y) ==
  CASE op = "add" -> (x + y) % 4
    [] op = "sub" -> (x - y) % 4
    [] op = "mul" -> (x * y) % 4
    [] op = "and" -> x & y
    [] op = "or"  -> x | y

MCOps == {"add", "sub", "mul", "and", "or"}

MCPlace == [w \in Words |-> [tag |-> w \div 2, index |-> 0, offset |-> w % 2]]

IType(op, rt, rs, imm) == [ISet!NOP EXCEPT !.op = op, !.rt = rt, !.rs = rs, !.imm = imm]

MCInsts == {ISet!NOP, IType("addi", 1, 0, 2), IType("sw", 1, 0, 2), IType("lw", 1, 0, 0)}

MCPrograms == {program \in [ISet!CodeAddrs -> MCInsts] : ISet!Safe(program)}
============================================================================

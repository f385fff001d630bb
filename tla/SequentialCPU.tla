---------------------------- MODULE SequentialCPU ----------------------------
(***************************************************************************)
(* What a program may rely on: one instruction after the other, each with  *)
(* the results of all those before it.                                     *)
(***************************************************************************)
EXTENDS InstructionSet

VARIABLES im, register, memory, pc

vars == <<im, register, memory, pc>>

Operand1(i) == register[i.rs]
Operand2(i) == IF Control(i).ALUSrc THEN i.imm ELSE register[i.rt]

Result(i) == Alu(Control(i).ALUCtrl, Operand1(i), Operand2(i))

Taken(i) == IsJump(i) \/ (IsBranch(i) /\ register[i.rs] = register[i.rt])

Init ==
  /\ im \in [CodeAddrs -> Insts]
  /\ register = [r \in Regs |-> Zero]
  /\ memory \in [Words -> Words]
  /\ pc = 0

Step ==
  LET i == im[pc] IN
  /\ pc' = IF Taken(i) THEN Target(i, pc) ELSE After(pc)
  /\ register' = [r \in Regs |->
       IF Writes(i, r) THEN (IF i.op = "lw" THEN memory[Result(i)] ELSE Result(i))
                       ELSE register[r]]
  /\ memory' = IF i.op = "sw" THEN [memory EXCEPT ![Result(i)] = register[i.rt]]
                              ELSE memory
  /\ UNCHANGED im

Spec == Init /\ [][Step]_vars
=============================================================================

--------------------------- MODULE InstructionSet ---------------------------
(***************************************************************************)
(* The instructions of the CA/project2 processor, decoded.  An instruction *)
(* is a record of its fields; the fields share bits in the code (imm and   *)
(* target, for one) but each opcode reads one of those that do.  Code      *)
(* addresses are counted in words and wrap around at CodeSize, data words  *)
(* are a set that the ALU is closed on: both stand for 32 bits.            *)
(***************************************************************************)
EXTENDS Integers

CONSTANTS
  Words, Zero,     \* 32-bit words, which also address the data memory
  Regs,            \* register numbers
  AluOps,          \* ADD, SUB, MUL, AND, OR of ALU.v
  Alu(_, _, _),    \* ALU.v
  CodeSize         \* words of code that an address can name

CodeAddrs == 0 .. CodeSize - 1

ASSUME InstructionAssumption ==
  /\ Zero \in Words
  /\ 0 \in Regs
  /\ {"add", "sub"} \subseteq AluOps
  /\ \A op \in AluOps, a, b \in Words : Alu(op, a, b) \in Words
  /\ Alu("add", Zero, Zero) = Zero
  /\ AluOps \cap {"addi", "lw", "sw", "beq", "j"} = {}
  /\ CodeSize \in Nat \ {0}

Insts == [op : AluOps \cup {"addi", "lw", "sw", "beq", "j"},
          rs : Regs, rt : Regs, rd : Regs, imm : Words, target : CodeAddrs]

(* Thirty-two zeros: add $0, $0, $0.                                       *)
NOP == [op |-> "add", rs |-> 0, rt |-> 0, rd |-> 0, imm |-> Zero, target |-> 0]

IsRType(i)  == i.op \in AluOps
IsJump(i)   == i.op = "j"
IsBranch(i) == i.op = "beq"

(* Control.v and ALU_Control.v                                             *)
Control(i) ==
  [RegDst   |-> IsRType(i),
   ALUSrc   |-> i.op \in {"addi", "lw", "sw"},
   ALUCtrl  |-> IF IsRType(i) THEN i.op ELSE IF IsBranch(i) THEN "sub" ELSE "add",
   RegWrite |-> IsRType(i) \/ i.op \in {"addi", "lw"},
   MemToReg |-> i.op = "lw",
   MemRead  |-> i.op = "lw",
   MemWrite |-> i.op = "sw"]

Controls == [RegDst : BOOLEAN, ALUSrc : BOOLEAN, ALUCtrl : AluOps, RegWrite : BOOLEAN,
             MemToReg : BOOLEAN, MemRead : BOOLEAN, MemWrite : BOOLEAN]

(* Add_PCAdvance and Add_PCBranch                                          *)
After(a)     == (a + 1) % CodeSize
Target(i, a) == IF IsJump(i) THEN i.target ELSE (After(a) + i.target) % CodeSize
----------------------------------------------------------------------------
(* What an instruction writes and what it reads for its result.            *)
Dest(i)      == IF IsRType(i) THEN i.rd ELSE i.rt
Writes(i, r) == Control(i).RegWrite /\ r = Dest(i)

Reads(i, r) ==
  \/ r = i.rs /\ ~IsJump(i)
  \/ r = i.rt /\ (IsRType(i) \/ i.op \in {"sw", "beq"})

(* A program the pipeline runs as written.  Register 0 stays zero.  A      *)
(* branch looks at the register file in ID, so what it compares is not     *)
(* written by the two instructions before it.  The forwarding unit takes   *)
(* the older of two results for one operand, so nothing is read after two  *)
(* writes in a row, unless the second is a load, which is waited for.  The *)
(* target of a jump leaves the bits of rs and rt zero: code below 2^16.    *)
Safe(program) ==
  \A a \in CodeAddrs :
    LET i == program[a]
        j == program[After(a)]
        k == program[After(After(a))]
    IN /\ Writes(i, 0) => i = NOP
       /\ IsJump(i) => i.rs = 0 /\ i.rt = 0
       /\ \A r \in Regs \ {0} : Writes(i, r) =>
            /\ ~(IsBranch(j) /\ Reads(j, r))
            /\ ~(IsBranch(k) /\ Reads(k, r))
            /\ ~(Writes(j, r) /\ j.op # "lw" /\ Reads(k, r))

SafePrograms == {program \in [CodeAddrs -> Insts] : Safe(program)}
=============================================================================

---------------------------- MODULE PipelinedCPU ----------------------------
(***************************************************************************)
(* CA/project2/code/CPU.v: five stages, one instruction in each.  One step *)
(* is one clock cycle: the register file is written in the middle of it,   *)
(* on the falling edge, and everything else at its end, from the values    *)
(* before.  Registers have the names of their modules; wires are operators.*)
(* The data memory is the flat memory of FlatMemory.tla as the code means  *)
(* it: it may hold the pipeline back (p1_stall_o) in any cycle of a load   *)
(* or store, and answers every load.  CachedCPU.tla has the cache instead. *)
(***************************************************************************)
EXTENDS InstructionSet

CONSTANTS
  Programs,   \* contents of instruction.txt
  Input,      \* the number n at address 0
  None

ASSUME ProgramsAssumption ==
  /\ Programs \subseteq [CodeAddrs -> Insts]
  /\ Input \in Words /\ None \notin CodeAddrs

VARIABLES
  im,         \* Instruction_Memory.memory
  pc,         \* PC.pc_o
  if_id, id_ex, ex_mem, mem_wb,
  register,   \* Registers.register
  memory,
  at          \* bookkeeping: the address of the instruction in each pipeline
              \* register, None for a bubble

vars == <<im, pc, if_id, id_ex, ex_mem, mem_wb, register, memory, at>>

Addrs == CodeAddrs \cup {None}

TypeOK ==
  /\ im \in Programs
  /\ pc \in CodeAddrs
  /\ if_id \in [inst : Insts, pc : CodeAddrs]
  /\ id_ex \in [inst : Insts, a : Words, b : Words, ctl : Controls]
  /\ ex_mem \in [alu : Words, data : Words, rd : Regs, RegWrite : BOOLEAN,
                 MemToReg : BOOLEAN, MemRead : BOOLEAN, MemWrite : BOOLEAN]
  /\ mem_wb \in [alu : Words, data : Words, rd : Regs,
                 RegWrite : BOOLEAN, MemToReg : BOOLEAN]
  /\ register \in [Regs -> Words]
  /\ memory \in [Words -> Words]
  /\ at \in [id : Addrs, ex : Addrs, mem : Addrs, wb : Addrs]

NoControl ==
  [RegDst |-> FALSE, ALUSrc |-> FALSE, ALUCtrl |-> "add", RegWrite |-> FALSE,
   MemToReg |-> FALSE, MemRead |-> FALSE, MemWrite |-> FALSE]

(* TestBench.v clears the arrays, sets n, resets PC and starts before the   *)
(* first edge.                                                             *)
Init ==
  /\ im \in Programs
  /\ pc = 0
  /\ if_id = [inst |-> NOP, pc |-> 0]
  /\ id_ex = [inst |-> NOP, a |-> Zero, b |-> Zero, ctl |-> NoControl]
  /\ ex_mem = [alu |-> Zero, data |-> Zero, rd |-> 0, RegWrite |-> FALSE,
               MemToReg |-> FALSE, MemRead |-> FALSE, MemWrite |-> FALSE]
  /\ mem_wb = [alu |-> Zero, data |-> Zero, rd |-> 0,
               RegWrite |-> FALSE, MemToReg |-> FALSE]
  /\ register = [r \in Regs |-> Zero]
  /\ memory = [w \in Words |-> IF w = Zero THEN Input ELSE Zero]
  /\ at = [id |-> None, ex |-> None, mem |-> None, wb |-> None]
----------------------------------------------------------------------------
(* WB *)

MUX5 == IF mem_wb.MemToReg THEN mem_wb.data ELSE mem_wb.alu

(* The register file in the second half of the cycle.                      *)
Written == IF mem_wb.RegWrite THEN [register EXCEPT ![mem_wb.rd] = MUX5] ELSE register

(* ID *)

(* HazzardDetection: the instruction in EX is a load of what the one in ID *)
(* names.                                                                  *)
hazardMutant  == FALSE
hazardMutant2 ==
  id_ex.inst.op = "lw" /\ id_ex.inst.rt \in {if_id.inst.rs, if_id.inst.rt}
hazard ==
  id_ex.ctl.MemRead /\ id_ex.inst.rt \in {if_id.inst.rs, if_id.inst.rt}

registers_equal == Written[if_id.inst.rs] = Written[if_id.inst.rt]
pc_src_branch_select == IsBranch(if_id.inst) /\ registers_equal
flush == IsJump(if_id.inst) \/ pc_src_branch_select

(* ID_Rs_Forward and ID_Rt_Forward                                         *)
ID_Forward(r) ==
  IF mem_wb.RegWrite /\ mem_wb.rd # 0 /\ mem_wb.rd = r THEN MUX5 ELSE Written[r]

(* MUX1 and MUX2                                                           *)
pc_i ==
  IF IsJump(if_id.inst) THEN if_id.inst.target
  ELSE IF pc_src_branch_select THEN (if_id.pc + if_id.inst.target) % CodeSize
  ELSE After(pc)

(* EX *)

(* ForwardingUnit: the second test overrides the first.                    *)
Forward(r) ==
  IF mem_wb.RegWrite /\ mem_wb.rd # 0 /\ mem_wb.rd = r THEN "01"
  ELSE IF ex_mem.RegWrite /\ ex_mem.rd # 0 /\ ex_mem.rd = r THEN "10" ELSE "00"

MUX_ForwardMutant(r, read) == IF Forward(r) = "01" THEN MUX5 ELSE read

(* MUX6 and MUX7                                                           *)
MUX_Forward(r, read) ==
  IF Forward(r) = "01" THEN MUX5 ELSE IF Forward(r) = "10" THEN ex_mem.alu ELSE read

MUX6 == MUX_Forward(id_ex.inst.rs, id_ex.a)
MUX7 == MUX_Forward(id_ex.inst.rt, id_ex.b)
MUX4 == IF id_ex.ctl.ALUSrc THEN id_ex.inst.imm ELSE MUX7
MUX3 == IF id_ex.ctl.RegDst THEN id_ex.inst.rd ELSE id_ex.inst.rt
----------------------------------------------------------------------------
(* The pipeline registers at an edge without a stall.                      *)

AdvancePC == pc' = IF hazard THEN pc ELSE pc_i

Fetch ==
  if_id' = [inst |-> IF flush THEN NOP ELSE IF hazard THEN if_id.inst ELSE im[pc],
            pc   |-> After(pc)]

Decode ==
  id_ex' = [inst |-> if_id.inst,
            a    |-> ID_Forward(if_id.inst.rs),
            b    |-> ID_Forward(if_id.inst.rt),
            ctl  |-> IF hazard THEN NoControl ELSE Control(if_id.inst)]

Execute ==
  ex_mem' = [alu      |-> Alu(id_ex.ctl.ALUCtrl, MUX6, MUX4),
             data     |-> MUX7,
             rd       |-> MUX3,
             RegWrite |-> id_ex.ctl.RegWrite,
             MemToReg |-> id_ex.ctl.MemToReg,
             MemRead  |-> id_ex.ctl.MemRead,
             MemWrite |-> id_ex.ctl.MemWrite]

(* A cycle without a load reads nothing anybody uses.                      *)
AccessMemory ==
  /\ memory' = IF ex_mem.MemWrite THEN [memory EXCEPT ![ex_mem.alu] = ex_mem.data]
                                  ELSE memory
  /\ mem_wb' = [alu      |-> ex_mem.alu,
                data     |-> IF ex_mem.MemRead THEN memory[ex_mem.alu] ELSE Zero,
                rd       |-> ex_mem.rd,
                RegWrite |-> ex_mem.RegWrite,
                MemToReg |-> ex_mem.MemToReg]

Track ==
  at' = [id  |-> IF flush THEN None ELSE IF hazard THEN at.id ELSE pc,
         ex  |-> IF hazard THEN None ELSE at.id,
         mem |-> at.ex,
         wb  |-> at.mem]

WriteBack == register' = Written

Advance ==
  /\ AdvancePC /\ Fetch /\ Decode /\ Execute /\ AccessMemory /\ WriteBack
  /\ Track
  /\ UNCHANGED im

(* p1_stall_o: every register but those of the register file keeps.        *)
Stalled ==
  /\ ex_mem.MemRead \/ ex_mem.MemWrite
  /\ WriteBack
  /\ UNCHANGED <<im, pc, if_id, id_ex, ex_mem, mem_wb, memory, at>>

Next == Advance \/ Stalled

(* The clock runs and a stall ends: StallEnds in CachedMemory.tla.         *)
Spec == Init /\ [][Next]_vars /\ SF_vars(Advance)
----------------------------------------------------------------------------
(* The oldest instruction that has not left MEM.                           *)
OldestPc ==
  IF at.mem # None THEN at.mem ELSE IF at.ex # None THEN at.ex
  ELSE IF at.id # None THEN at.id ELSE pc

(* Why that is so, for safe programs.  Every stage holds the instruction    *)
(* its address names, or a bubble that writes nothing.                     *)
StagesHold ==
  /\ IF at.id = None THEN if_id.inst = NOP
     ELSE /\ if_id.inst = im[at.id]
          /\ IsBranch(if_id.inst) => if_id.pc = After(at.id)
  /\ IF at.ex = None THEN id_ex.ctl = NoControl \/ (id_ex.inst = NOP /\ id_ex.ctl = Control(NOP))
     ELSE id_ex.inst = im[at.ex] /\ id_ex.ctl = Control(im[at.ex])
  /\ IF at.mem = None
       THEN /\ ~ex_mem.MemRead /\ ~ex_mem.MemWrite /\ ~ex_mem.MemToReg
            /\ ex_mem.RegWrite => ex_mem.rd = 0
       ELSE LET c == Control(im[at.mem]) IN
            /\ ex_mem.rd = Dest(im[at.mem])
            /\ ex_mem.RegWrite = c.RegWrite /\ ex_mem.MemToReg = c.MemToReg
            /\ ex_mem.MemRead = c.MemRead /\ ex_mem.MemWrite = c.MemWrite
  /\ (mem_wb.RegWrite /\ mem_wb.rd # 0) => at.wb # None /\ Writes(im[at.wb], mem_wb.rd)

(* Neighbours are consecutive; where a bubble parts them the older one     *)
(* knows what comes next.                                                  *)
NextPc(a) ==
  LET i == im[a] IN
  IF IsJump(i) \/ (IsBranch(i) /\ Written[i.rs] = Written[i.rt]) THEN Target(i, a) ELSE After(a)

AfterEX  == IF at.id # None THEN at.id ELSE pc
AfterMEM == IF at.ex # None THEN at.ex ELSE AfterEX

InOrder ==
  /\ at.id # None => pc = After(at.id)
  /\ (at.ex # None /\ at.id # None) => at.id = After(at.ex)
  /\ (at.mem # None /\ at.ex # None) => at.ex = After(at.mem)
  /\ (at.wb # None /\ at.mem # None) => at.mem = After(at.wb)
  /\ at.ex # None => AfterEX = NextPc(at.ex)
  /\ at.mem # None => AfterMEM = NextPc(at.mem)

(* A load and an instruction that names its register are a cycle apart.    *)
LoadsWaited ==
  (at.mem # None /\ at.ex # None /\ ex_mem.MemRead)
    => ex_mem.rd \notin {id_ex.inst.rs, id_ex.inst.rt}

(* What ID has read is what the register file holds, or WB is about to     *)
(* forward it.                                                             *)
OperandsRead ==
  LET Fresh(r, v) == v = register[r] \/ (mem_wb.RegWrite /\ r # 0 /\ mem_wb.rd = r)
  IN Fresh(id_ex.inst.rs, id_ex.a) /\ Fresh(id_ex.inst.rt, id_ex.b)

(* EX has computed what a sequential machine computes.                     *)
ResultsRight ==
  LET i == im[at.mem] IN
  (at.mem # None /\ (ex_mem.RegWrite \/ ex_mem.MemWrite)) =>
    /\ ex_mem.alu = Alu(Control(i).ALUCtrl, Written[i.rs],
                        IF Control(i).ALUSrc THEN i.imm ELSE Written[i.rt])
    /\ ex_mem.MemWrite => ex_mem.data = Written[i.rt]

(* Register 0 is zero and stays it.                                        *)
ZeroKept ==
  /\ register[0] = Zero /\ Written[0] = Zero
  /\ (ex_mem.RegWrite /\ ex_mem.rd = 0) => ex_mem.alu = Zero /\ ~ex_mem.MemToReg

PipeInv ==
  /\ TypeOK /\ StagesHold /\ InOrder /\ LoadsWaited
  /\ OperandsRead /\ ResultsRight /\ ZeroKept

ISA == INSTANCE SequentialCPU WITH register <- Written, pc <- OldestPc

(* The processor computes what a sequential machine does, whatever is in   *)
(* flight: no result is lost to a hazard, a flush or a stall, none is used *)
(* before it is there, and no instruction runs twice or out of turn.       *)
ImplementsSequential == ISA!Spec

(* Instructions keep leaving the pipeline: load-use stalls and flushes do  *)
(* not hold each other up.                                                 *)
Retires == []<><<Advance /\ at.mem # None>>_vars

(* The edges without a stall until the next instruction leaves MEM.        *)
ToRetire ==
  IF at.mem # None THEN 0 ELSE IF at.ex # None THEN 1 ELSE IF at.id # None THEN 2 ELSE 3

(* What Retires promises, edge by edge: the wait for the next instruction   *)
(* is counted down, once one has left at most one bubble follows it,       *)
(* whatever loads, jumps and branches meet, and the cache holds back       *)
(* instructions only.                                                      *)
RetiresSoon ==
  [][/\ Advance => IF ToRetire = 0 THEN ToRetire' \in {0, 1} ELSE ToRetire' = ToRetire - 1
     /\ Stalled => ToRetire = 0]_vars
=============================================================================

------------------------- MODULE PipelinedCPUProofs -------------------------
(***************************************************************************)
(* The pipeline runs every safe program as a sequential machine does, for  *)
(* every set of words, ALU, number of registers and length of program.     *)
(***************************************************************************)
EXTENDS PipelinedCPU, TLAPS

LEMMA CodeTypes ==
  /\ NOP \in Insts /\ NoControl \in Controls
  /\ \A i \in Insts : Control(i) \in Controls /\ Dest(i) \in Regs
  /\ \A a \in CodeAddrs : After(a) \in CodeAddrs
  /\ \A i \in Insts, a \in CodeAddrs :
       i.target \in CodeAddrs /\ (a + i.target) % CodeSize \in CodeAddrs
<1>1. NOP \in Insts /\ NoControl \in Controls
  BY InstructionAssumption DEF NOP, Insts, NoControl, Controls, CodeAddrs
<1>2. \A i \in Insts : Control(i) \in Controls /\ Dest(i) \in Regs
  BY InstructionAssumption DEF Insts, Control, Controls, IsRType, IsBranch, Dest
<1>3. \A n \in Nat : n % CodeSize \in CodeAddrs
  BY InstructionAssumption DEF CodeAddrs
<1>4. \A a \in CodeAddrs : After(a) \in CodeAddrs
  BY <1>3 DEF After, CodeAddrs
<1>5. \A i \in Insts, a \in CodeAddrs :
        i.target \in CodeAddrs /\ (a + i.target) % CodeSize \in CodeAddrs
  BY <1>3 DEF Insts, CodeAddrs
<1> QED BY <1>1, <1>2, <1>4, <1>5

LEMMA CodeOf == ASSUME TypeOK, NEW a \in CodeAddrs PROVE im[a] \in Insts
  BY ProgramsAssumption DEF TypeOK

LEMMA WireTypes ==
  ASSUME TypeOK
  PROVE  /\ MUX5 \in Words
         /\ Written \in [Regs -> Words]
         /\ \A r \in Regs : ID_Forward(r) \in Words
         /\ MUX6 \in Words /\ MUX7 \in Words /\ MUX4 \in Words /\ MUX3 \in Regs
<1>1. MUX5 \in Words
  BY DEF TypeOK, MUX5
<1>2. Written \in [Regs -> Words]
  BY <1>1 DEF TypeOK, Written
<1>3. \A r \in Regs : ID_Forward(r) \in Words
  BY <1>1, <1>2 DEF ID_Forward
<1>4. MUX6 \in Words /\ MUX7 \in Words
  BY <1>1 DEF TypeOK, MUX6, MUX7, MUX_Forward, Forward
<1>5. MUX4 \in Words /\ MUX3 \in Regs
  BY <1>4 DEF TypeOK, MUX4, MUX3, Insts
<1> QED BY <1>1, <1>2, <1>3, <1>4, <1>5

LEMMA AdvanceTypeOK == ASSUME TypeOK, Advance PROVE TypeOK'
<1> USE DEF TypeOK
<1>1. im' \in Programs
  BY DEF Advance
<1>2. pc' \in CodeAddrs
  BY CodeTypes DEF Advance, AdvancePC, Fetch, pc_i
<1>3. if_id' \in [inst : Insts, pc : CodeAddrs]
  <2>1. im[pc] \in Insts BY CodeOf
  <2> QED BY <2>1, CodeTypes DEF Advance, AdvancePC, Fetch
<1>4. id_ex' \in [inst : Insts, a : Words, b : Words, ctl : Controls]
  BY WireTypes, CodeTypes DEF Advance, Decode, Insts
<1>5. ex_mem' \in [alu : Words, data : Words, rd : Regs, RegWrite : BOOLEAN,
                   MemToReg : BOOLEAN, MemRead : BOOLEAN, MemWrite : BOOLEAN]
  <2>1. id_ex.ctl \in Controls OBVIOUS
  <2>2. Alu(id_ex.ctl.ALUCtrl, MUX6, MUX4) \in Words
    BY <2>1, WireTypes, InstructionAssumption DEF Controls
  <2> QED BY <2>1, <2>2, WireTypes DEF Advance, Execute, Controls
<1>6. /\ memory' \in [Words -> Words]
      /\ mem_wb' \in [alu : Words, data : Words, rd : Regs,
                      RegWrite : BOOLEAN, MemToReg : BOOLEAN]
  BY InstructionAssumption DEF Advance, AccessMemory
<1>7. register' \in [Regs -> Words]
  BY WireTypes DEF Advance, WriteBack
<1>8. at' \in [id : Addrs, ex : Addrs, mem : Addrs, wb : Addrs]
  BY DEF Advance, Track, Addrs
<1> QED BY <1>1, <1>2, <1>3, <1>4, <1>5, <1>6, <1>7, <1>8
----------------------------------------------------------------------------
(* What Safe says of one instruction and the two after it.                 *)
LEMMA SafeAt ==
  ASSUME im \in SafePrograms, NEW a \in CodeAddrs
  PROVE  /\ Writes(im[a], 0) => im[a] = NOP
         /\ IsJump(im[a]) => im[a].rs = 0 /\ im[a].rt = 0
         /\ \A r \in Regs \ {0} : Writes(im[a], r) =>
              /\ ~(IsBranch(im[After(a)]) /\ Reads(im[After(a)], r))
              /\ ~(IsBranch(im[After(After(a))]) /\ Reads(im[After(After(a))], r))
              /\ ~(/\ Writes(im[After(a)], r) /\ im[After(a)].op # "lw"
                   /\ Reads(im[After(After(a))], r))
  BY DEF SafePrograms, Safe

(* An instruction that writes a register is neither a jump nor a branch;   *)
(* the control signals tell loads and stores.                              *)
LEMMA OpFacts ==
  ASSUME NEW i \in Insts
  PROVE  /\ \A r : Writes(i, r) => ~IsJump(i) /\ ~IsBranch(i)
         /\ Control(i).MemToReg = Control(i).MemRead
         /\ Control(i).MemRead
              => /\ i.op = "lw" /\ i # NOP
                 /\ Writes(i, i.rt) /\ Dest(i) = i.rt
                 /\ Control(i).RegWrite /\ ~Control(i).RegDst
         /\ ~Control(i).MemRead => i.op # "lw"
         /\ IsBranch(i) => Reads(i, i.rs) /\ Reads(i, i.rt) /\ ~IsJump(i)
         /\ (Control(i).RegWrite \/ Control(i).MemWrite) => Reads(i, i.rs)
         /\ (Control(i).MemWrite \/ (Control(i).RegWrite /\ ~Control(i).ALUSrc))
              => Reads(i, i.rt)
<1>1. i.op \in AluOps => i.op \notin {"addi", "lw", "sw", "beq", "j"}
  BY InstructionAssumption
<1>2. Control(i).MemToReg = (i.op = "lw") /\ Control(i).MemRead = (i.op = "lw")
  BY DEF Control
<1>3. Control(i).RegDst = (i.op \in AluOps)
  BY DEF Control, IsRType
<1>4. Control(i).RegWrite = (i.op \in AluOps \/ i.op \in {"addi", "lw"})
  BY DEF Control, IsRType
<1>5. /\ Control(i).MemWrite = (i.op = "sw")
      /\ Control(i).ALUSrc = (i.op \in {"addi", "lw", "sw"})
  BY DEF Control
<1>6. i.op = "lw" => i # NOP
  BY <1>1, InstructionAssumption DEF NOP
<1> QED
  BY <1>1, <1>2, <1>3, <1>4, <1>5, <1>6
     DEF Writes, Reads, Dest, IsJump, IsBranch, IsRType

LEMMA NopFacts ==
  /\ ~IsJump(NOP) /\ ~IsBranch(NOP) /\ NOP.rs = 0 /\ NOP.rt = 0 /\ NOP.rd = 0
  /\ Control(NOP).RegDst /\ ~Control(NOP).ALUSrc /\ Control(NOP).ALUCtrl = "add"
  /\ Control(NOP).RegWrite /\ ~Control(NOP).MemToReg
  /\ ~Control(NOP).MemRead /\ ~Control(NOP).MemWrite /\ Dest(NOP) = 0
  BY InstructionAssumption DEF NOP, Control, IsRType, IsJump, IsBranch, Dest

LEMMA NoControlFacts ==
  /\ ~NoControl.RegWrite /\ ~NoControl.MemToReg
  /\ ~NoControl.MemRead /\ ~NoControl.MemWrite
  BY DEF NoControl

(* What MEM writes, it writes for the instruction it holds.                *)
LEMMA MemWriter ==
  ASSUME PipeInv, ex_mem.RegWrite, ex_mem.rd # 0
  PROVE  at.mem \in CodeAddrs /\ Writes(im[at.mem], ex_mem.rd)
<1>1. at.mem # None
  BY DEF PipeInv, StagesHold
<1> QED BY <1>1 DEF PipeInv, StagesHold, TypeOK, Addrs, Writes

LEMMA WbWriter ==
  ASSUME PipeInv, mem_wb.RegWrite, mem_wb.rd # 0
  PROVE  at.wb \in CodeAddrs /\ Writes(im[at.wb], mem_wb.rd)
  BY DEF PipeInv, StagesHold, TypeOK, Addrs

(* A load-use stall: the load is live in EX and the instruction held back  *)
(* is live in ID and does not branch.                                      *)
LEMMA HazardHolds ==
  ASSUME PipeInv, im \in SafePrograms, hazard
  PROVE  /\ at.ex \in CodeAddrs /\ at.id \in CodeAddrs
         /\ ~IsJump(if_id.inst) /\ ~IsBranch(if_id.inst) /\ ~flush
<1> DEFINE i == id_ex.inst
           j == if_id.inst
<1>1. at.ex \in CodeAddrs /\ i = im[at.ex] /\ id_ex.ctl = Control(i)
  BY NopFacts, NoControlFacts DEF hazard, PipeInv, StagesHold, TypeOK, Addrs
<1>2. i \in Insts /\ j \in Insts
  BY DEF PipeInv, TypeOK
<1>3. Writes(i, i.rt) /\ i # NOP /\ i.rt \in {j.rs, j.rt}
  BY <1>1, <1>2, OpFacts DEF hazard
<1>4. i.rt \in Regs \ {0}
  BY <1>1, <1>2, <1>3, SafeAt DEF Insts
<1>5. at.id \in CodeAddrs /\ j = im[at.id]
  BY <1>3, <1>4, NopFacts DEF PipeInv, StagesHold, TypeOK, Addrs
<1>6. at.id = After(at.ex)
  BY <1>1, <1>5, ProgramsAssumption DEF PipeInv, InOrder
<1>7. ~IsJump(j)
  BY <1>3, <1>4, <1>5, SafeAt
<1>8. ~IsBranch(j)
  <2>1. ~(IsBranch(j) /\ Reads(j, i.rt))
    BY <1>1, <1>3, <1>4, <1>5, <1>6, SafeAt
  <2> QED BY <1>2, <1>3, <2>1, OpFacts
<1> QED BY <1>1, <1>5, <1>7, <1>8 DEF flush, pc_src_branch_select
----------------------------------------------------------------------------
(* The register file a cycle later: as now, and what MEM holds.            *)
LEMMA WrittenNext ==
  ASSUME PipeInv, Advance
  PROVE  /\ Written' \in [Regs -> Words]
         /\ \A r \in Regs : ~(ex_mem.RegWrite /\ ex_mem.rd = r) => Written'[r] = Written[r]
         /\ \A r \in Regs : (ex_mem.RegWrite /\ ex_mem.rd = r) =>
              Written'[r] = IF ex_mem.MemRead /\ ex_mem.MemToReg THEN memory[ex_mem.alu]
                            ELSE IF ex_mem.MemToReg THEN Zero ELSE ex_mem.alu
         /\ Written'[0] = Zero
<1>1. Written \in [Regs -> Words] /\ register' = Written /\ 0 \in Regs
  BY WireTypes, InstructionAssumption DEF PipeInv, Advance, WriteBack
<1>2. Written' = IF ex_mem.RegWrite THEN [Written EXCEPT ![ex_mem.rd] = MUX5'] ELSE Written
  BY <1>1 DEF Written, Advance, AccessMemory
<1>3. MUX5' = IF ex_mem.MemToReg
              THEN (IF ex_mem.MemRead THEN memory[ex_mem.alu] ELSE Zero) ELSE ex_mem.alu
  BY DEF MUX5, Advance, AccessMemory
<1>4. Written'[0] = Zero
  BY <1>1, <1>2, <1>3 DEF PipeInv, ZeroKept
<1>5. MUX5' \in Words
  BY AdvanceTypeOK DEF PipeInv, TypeOK, MUX5
<1>6. Written' \in [Regs -> Words]
  BY <1>1, <1>2, <1>5
<1> QED BY <1>1, <1>2, <1>3, <1>4, <1>6

(* A branch compares what it would compare once everything before it had   *)
(* been written: in ID, and still in EX.                                   *)
LEMMA BranchInID ==
  ASSUME PipeInv, im \in SafePrograms, Advance, at.id # None, IsBranch(if_id.inst),
         NEW r \in {if_id.inst.rs, if_id.inst.rt}
  PROVE  Written'[r] = Written[r]
<1>1. if_id.inst = im[at.id] /\ at.id \in CodeAddrs /\ if_id.inst \in Insts /\ r \in Regs
  BY DEF PipeInv, StagesHold, TypeOK, Addrs, Insts
<1>2. Reads(im[at.id], r) /\ IsBranch(im[at.id])
  BY <1>1, OpFacts
<1>3. CASE r = 0
  BY <1>3, WrittenNext DEF PipeInv, ZeroKept
<1>4. CASE r # 0
  <2>1. ~(ex_mem.RegWrite /\ ex_mem.rd = r)
    <3> SUFFICES ASSUME ex_mem.RegWrite, ex_mem.rd = r PROVE FALSE
      OBVIOUS
    <3>1. at.mem \in CodeAddrs /\ Writes(im[at.mem], r)
      BY <1>4, MemWriter
    <3>2. im[at.mem] \in Insts
      BY <3>1, CodeOf DEF PipeInv
    <3>3. NextPc(at.mem) = After(at.mem)
      BY <3>1, <3>2, OpFacts DEF NextPc
    <3>4. CASE at.ex = None
      <4>1. at.id = After(at.mem)
        BY <1>1, <3>1, <3>3, <3>4, ProgramsAssumption
           DEF PipeInv, InOrder, AfterMEM, AfterEX
      <4> QED BY <1>1, <1>2, <1>4, <3>1, <4>1, SafeAt
    <3>5. CASE at.ex # None
      <4>1. at.ex = After(at.mem) /\ at.id = After(at.ex)
        BY <1>1, <3>1, <3>5, ProgramsAssumption DEF PipeInv, InOrder
      <4> QED BY <1>1, <1>2, <1>4, <3>1, <4>1, SafeAt
    <3> QED BY <3>4, <3>5
  <2> QED BY <1>1, <2>1, WrittenNext
<1> QED BY <1>3, <1>4

LEMMA BranchInEX ==
  ASSUME PipeInv, im \in SafePrograms, Advance, at.ex # None, IsBranch(im[at.ex]),
         NEW r \in {im[at.ex].rs, im[at.ex].rt}
  PROVE  Written'[r] = Written[r]
<1>1. at.ex \in CodeAddrs /\ im[at.ex] \in Insts
  BY CodeOf DEF PipeInv, TypeOK, Addrs
<1>2. Reads(im[at.ex], r) /\ r \in Regs
  BY <1>1, OpFacts DEF Insts
<1>3. CASE r = 0
  BY <1>3, WrittenNext DEF PipeInv, ZeroKept
<1>4. CASE r # 0
  <2>1. ~(ex_mem.RegWrite /\ ex_mem.rd = r)
    <3> SUFFICES ASSUME ex_mem.RegWrite, ex_mem.rd = r PROVE FALSE
      OBVIOUS
    <3>1. at.mem \in CodeAddrs /\ Writes(im[at.mem], r)
      BY <1>4, MemWriter
    <3>2. at.ex = After(at.mem)
      BY <1>1, <3>1, ProgramsAssumption DEF PipeInv, InOrder
    <3> QED BY <1>2, <1>4, <3>1, <3>2, SafeAt
  <2> QED BY <1>2, <2>1, WrittenNext
<1> QED BY <1>3, <1>4

(* What the forwarding unit makes of an operand read in ID is what the     *)
(* register file will hold when all older instructions have written it.    *)
LEMMA OperandForwarded ==
  ASSUME PipeInv, im \in SafePrograms, Advance, at.ex # None,
         NEW r \in {id_ex.inst.rs, id_ex.inst.rt}, Reads(im[at.ex], r),
         NEW v, v = register[r] \/ (mem_wb.RegWrite /\ r # 0 /\ mem_wb.rd = r)
  PROVE  MUX_Forward(r, v) = Written'[r]
<1>1. at.ex \in CodeAddrs /\ r \in Regs
  BY DEF PipeInv, TypeOK, Addrs, Insts
<1>2. CASE r = 0
  <2>1. MUX_Forward(r, v) = v
    BY <1>2 DEF MUX_Forward, Forward
  <2> QED BY <1>2, <2>1, WrittenNext DEF PipeInv, ZeroKept
<1>3. CASE r # 0 /\ ex_mem.RegWrite /\ ex_mem.rd = r
  <2>1. at.mem \in CodeAddrs /\ Writes(im[at.mem], r) /\ at.ex = After(at.mem)
    BY <1>1, <1>3, MemWriter, ProgramsAssumption DEF PipeInv, InOrder
  <2>2. ~ex_mem.MemRead
    BY <1>1, <1>3, <2>1, ProgramsAssumption DEF PipeInv, LoadsWaited
  <2>3. im[at.mem].op # "lw" /\ ~ex_mem.MemToReg
    <3>1. im[at.mem] \in Insts
      BY <2>1, CodeOf DEF PipeInv
    <3> QED BY <2>1, <2>2, <3>1, OpFacts, ProgramsAssumption DEF PipeInv, StagesHold
  <2>4. ~(mem_wb.RegWrite /\ mem_wb.rd = r)
    <3> SUFFICES ASSUME mem_wb.RegWrite, mem_wb.rd = r PROVE FALSE
      OBVIOUS
    <3>1. at.wb \in CodeAddrs /\ Writes(im[at.wb], r)
      BY <1>3, WbWriter
    <3>2. at.mem = After(at.wb)
      BY <2>1, <3>1, ProgramsAssumption DEF PipeInv, InOrder
    <3> QED BY <1>1, <1>3, <2>1, <2>3, <3>1, <3>2, SafeAt
  <2>5. MUX_Forward(r, v) = ex_mem.alu
    BY <1>3, <2>4 DEF MUX_Forward, Forward
  <2> QED BY <1>1, <1>3, <2>3, <2>5, WrittenNext
<1>4. CASE r # 0 /\ ~(ex_mem.RegWrite /\ ex_mem.rd = r)
  <2>1. Written'[r] = Written[r]
    BY <1>1, <1>4, WrittenNext
  <2>2. CASE mem_wb.RegWrite /\ mem_wb.rd = r
    <3>1. MUX_Forward(r, v) = MUX5
      BY <1>4, <2>2 DEF MUX_Forward, Forward
    <3>2. Written[r] = MUX5
      BY <1>1, <2>2 DEF Written, PipeInv, TypeOK
    <3> QED BY <2>1, <3>1, <3>2
  <2>3. CASE ~(mem_wb.RegWrite /\ mem_wb.rd = r)
    <3>1. MUX_Forward(r, v) = v /\ v = register[r]
      BY <1>4, <2>3 DEF MUX_Forward, Forward
    <3>2. Written[r] = register[r]
      BY <1>1, <2>3 DEF Written, PipeInv, TypeOK
    <3> QED BY <2>1, <3>1, <3>2
  <2> QED BY <2>2, <2>3
<1> QED BY <1>2, <1>3, <1>4
----------------------------------------------------------------------------
(* A cycle without a stall keeps each part of the invariant.               *)

LEMMA AdvanceStagesHold ==
  ASSUME PipeInv, im \in SafePrograms, Advance
  PROVE  StagesHold'
<1> USE DEF PipeInv
<1>1. pc \in CodeAddrs /\ pc # None /\ im' = im
  BY ProgramsAssumption DEF TypeOK, Advance
<1>2. (IF at.id = None THEN if_id.inst = NOP
       ELSE /\ if_id.inst = im[at.id]
            /\ IsBranch(if_id.inst) => if_id.pc = After(at.id))'
  <2>1. CASE flush
    BY <2>1 DEF Advance, AdvancePC, Fetch, Track
  <2>2. CASE ~flush /\ hazard
    BY <1>1, <2>2, HazardHolds, ProgramsAssumption
       DEF Advance, AdvancePC, Fetch, Track, StagesHold
  <2>3. CASE ~flush /\ ~hazard
    BY <1>1, <2>3 DEF Advance, AdvancePC, Fetch, Track
  <2> QED BY <2>1, <2>2, <2>3
<1>3. (IF at.ex = None THEN id_ex.ctl = NoControl \/ (id_ex.inst = NOP /\ id_ex.ctl = Control(NOP))
       ELSE id_ex.inst = im[at.ex] /\ id_ex.ctl = Control(im[at.ex]))'
  BY <1>1 DEF Advance, Decode, Track, StagesHold
<1>4. (IF at.mem = None
         THEN /\ ~ex_mem.MemRead /\ ~ex_mem.MemWrite /\ ~ex_mem.MemToReg
              /\ ex_mem.RegWrite => ex_mem.rd = 0
         ELSE LET c == Control(im[at.mem]) IN
              /\ ex_mem.rd = Dest(im[at.mem])
              /\ ex_mem.RegWrite = c.RegWrite /\ ex_mem.MemToReg = c.MemToReg
              /\ ex_mem.MemRead = c.MemRead /\ ex_mem.MemWrite = c.MemWrite)'
  <2>1. CASE at.ex = None
    BY <2>1, NopFacts, NoControlFacts DEF Advance, Execute, Track, StagesHold, MUX3
  <2>2. CASE at.ex # None
    <3>1. MUX3 = Dest(im[at.ex])
      BY <2>2 DEF StagesHold, MUX3, Dest, Control
    <3> QED BY <1>1, <2>2, <3>1 DEF Advance, Execute, Track, StagesHold
  <2> QED BY <2>1, <2>2
<1>5. ((mem_wb.RegWrite /\ mem_wb.rd # 0) => at.wb # None /\ Writes(im[at.wb], mem_wb.rd))'
  BY <1>1 DEF Advance, AccessMemory, Track, StagesHold, Writes
<1> QED BY <1>2, <1>3, <1>4, <1>5 DEF StagesHold

(* Where each instruction goes when the pipeline advances.                 *)
LEMMA AfterNext ==
  ASSUME PipeInv, im \in SafePrograms, Advance
  PROVE  /\ (at.ex' # None) => AfterEX' = NextPc(at.id)
         /\ AfterMEM' = AfterEX
<1> USE DEF PipeInv
<1>1. pc \in CodeAddrs /\ pc # None
  BY ProgramsAssumption DEF TypeOK
<1>2. CASE hazard
  <2>1. at.id # None /\ at.ex' = None /\ at.id' = at.id
    BY <1>2, HazardHolds, ProgramsAssumption DEF Advance, Track
  <2> QED BY <2>1 DEF AfterMEM, AfterEX
<1>3. CASE ~hazard /\ at.id # None
  <2>1. at.ex' = at.id /\ at.id' = IF flush THEN None ELSE pc
    BY <1>3 DEF Advance, Track
  <2>2. AfterMEM' = AfterEX
    BY <1>3, <2>1 DEF AfterMEM, AfterEX
  <2>3. if_id.inst = im[at.id] /\ pc = After(at.id) /\ if_id.inst \in Insts
    BY <1>3 DEF StagesHold, InOrder, TypeOK
  <2>4. CASE ~flush
    <3>1. AfterEX' = After(at.id)
      BY <1>1, <2>1, <2>3, <2>4 DEF AfterEX
    <3> QED BY <2>2, <2>3, <2>4, <3>1 DEF NextPc, flush, pc_src_branch_select, registers_equal
  <2>5. CASE flush
    <3>1. AfterEX' = pc_i
      BY <1>3, <2>1, <2>5 DEF AfterEX, Advance, AdvancePC, Fetch
    <3>2. pc_i = Target(im[at.id], at.id)
      <4>1. IsBranch(if_id.inst) => if_id.pc = After(at.id)
        BY <1>3 DEF StagesHold
      <4> QED BY <2>3, <2>5, <4>1, OpFacts DEF pc_i, flush, pc_src_branch_select, Target
    <3> QED BY <2>2, <2>3, <2>5, <3>1, <3>2
            DEF NextPc, flush, pc_src_branch_select, registers_equal
  <2> QED BY <2>4, <2>5
<1>4. CASE ~hazard /\ at.id = None
  <2>1. ~flush
    BY <1>4, NopFacts DEF StagesHold, flush, pc_src_branch_select
  <2>2. at.ex' = None /\ at.id' = pc
    BY <1>4, <2>1 DEF Advance, Track
  <2> QED BY <1>1, <1>4, <2>2 DEF AfterMEM, AfterEX
<1> QED BY <1>2, <1>3, <1>4

LEMMA AdvanceInOrder ==
  ASSUME PipeInv, im \in SafePrograms, Advance
  PROVE  InOrder'
<1> USE DEF PipeInv
<1>1. im' = im
  BY DEF Advance
<1>2. at.id' # None => pc' = After(at.id')
  <2>1. CASE hazard
    BY <2>1, HazardHolds, ProgramsAssumption DEF InOrder, Advance, AdvancePC, Fetch, Track
  <2>2. CASE ~hazard
    BY <2>2 DEF Advance, AdvancePC, Fetch, Track, pc_i, flush
  <2> QED BY <2>1, <2>2
<1>3. (at.ex' # None /\ at.id' # None) => at.id' = After(at.ex')
  BY DEF InOrder, Advance, Track
<1>4. (at.mem' # None /\ at.ex' # None) => at.ex' = After(at.mem')
  BY DEF InOrder, Advance, Track
<1>5. (at.wb' # None /\ at.mem' # None) => at.mem' = After(at.wb')
  BY DEF InOrder, Advance, Track
<1>6. at.ex' # None => AfterEX' = NextPc(at.ex)'
  <2> SUFFICES ASSUME at.ex' # None PROVE AfterEX' = NextPc(at.ex)'
    OBVIOUS
  <2>1. at.id # None /\ at.ex' = at.id /\ if_id.inst = im[at.id]
    BY DEF Advance, Track, StagesHold
  <2>2. NextPc(at.ex)' = NextPc(at.id)
    BY <1>1, <2>1, BranchInID DEF NextPc
  <2> QED BY <2>2, AfterNext
<1>7. at.mem' # None => AfterMEM' = NextPc(at.mem)'
  <2> SUFFICES ASSUME at.ex # None PROVE AfterMEM' = NextPc(at.mem)'
    BY DEF Advance, Track
  <2>1. at.mem' = at.ex
    BY DEF Advance, Track
  <2>2. NextPc(at.mem)' = NextPc(at.ex)
    BY <1>1, <2>1, BranchInEX DEF NextPc
  <2> QED BY <2>2, AfterNext DEF InOrder
<1> QED BY <1>2, <1>3, <1>4, <1>5, <1>6, <1>7 DEF InOrder

LEMMA AdvanceLoadsWaited ==
  ASSUME PipeInv, im \in SafePrograms, Advance
  PROVE  LoadsWaited'
<1> SUFFICES ASSUME at.mem' # None, at.ex' # None, ex_mem'.MemRead
             PROVE  ex_mem'.rd \notin {id_ex'.inst.rs, id_ex'.inst.rt}
  BY DEF LoadsWaited
<1>1. ~hazard /\ at.ex # None /\ id_ex.ctl.MemRead /\ id_ex'.inst = if_id.inst
  BY DEF Advance, Track, Execute, Decode
<1>2. id_ex.ctl = Control(id_ex.inst) /\ id_ex.inst \in Insts
  BY <1>1 DEF PipeInv, StagesHold, TypeOK
<1>3. ex_mem'.rd = id_ex.inst.rt
  BY <1>1, <1>2, OpFacts DEF Advance, Execute, MUX3
<1> QED BY <1>1, <1>3 DEF hazard

LEMMA AdvanceOperandsRead ==
  ASSUME PipeInv, Advance
  PROVE  OperandsRead'
<1>1. \A r \in Regs : ID_Forward(r) = Written[r]
  BY DEF ID_Forward, Written, PipeInv, TypeOK
<1>2. if_id.inst.rs \in Regs /\ if_id.inst.rt \in Regs
  BY DEF PipeInv, TypeOK, Insts
<1> QED BY <1>1, <1>2 DEF OperandsRead, Advance, Decode, WriteBack

LEMMA AdvanceResultsRight ==
  ASSUME PipeInv, im \in SafePrograms, Advance
  PROVE  ResultsRight'
<1> DEFINE i == im[at.ex]
<1> SUFFICES ASSUME at.ex # None, id_ex.ctl.RegWrite \/ id_ex.ctl.MemWrite
             PROVE  /\ ex_mem'.alu = Alu(Control(i).ALUCtrl, Written'[i.rs],
                                         IF Control(i).ALUSrc THEN i.imm ELSE Written'[i.rt])
                    /\ ex_mem'.MemWrite => ex_mem'.data = Written'[i.rt]
  BY DEF ResultsRight, Advance, Track, Execute
<1>1. id_ex.inst = i /\ id_ex.ctl = Control(i) /\ i \in Insts
  BY DEF PipeInv, StagesHold, TypeOK
<1>2. Reads(i, i.rs) => MUX6 = Written'[i.rs]
  BY <1>1, OperandForwarded DEF MUX6, PipeInv, OperandsRead
<1>3. Reads(i, i.rt) => MUX7 = Written'[i.rt]
  BY <1>1, OperandForwarded DEF MUX7, PipeInv, OperandsRead
<1>4. Reads(i, i.rs)
  BY <1>1, OpFacts
<1>5. CASE Control(i).MemWrite
  <2>1. Reads(i, i.rt)
    BY <1>1, <1>5, OpFacts
  <2> QED BY <1>1, <1>2, <1>3, <1>4, <2>1 DEF MUX4, Advance, Execute
<1>6. CASE ~Control(i).MemWrite
  <2>1. ~Control(i).ALUSrc => Reads(i, i.rt)
    BY <1>1, <1>6, OpFacts
  <2> QED BY <1>1, <1>2, <1>3, <1>4, <1>6, <2>1 DEF MUX4, Advance, Execute
<1> QED BY <1>5, <1>6

LEMMA AdvanceZeroKept ==
  ASSUME PipeInv, im \in SafePrograms, Advance
  PROVE  ZeroKept'
<1>1. register'[0] = Zero /\ Written'[0] = Zero
  BY WrittenNext DEF PipeInv, ZeroKept, Advance, WriteBack
<1>2. ASSUME id_ex.ctl.RegWrite, MUX3 = 0
      PROVE  Alu(id_ex.ctl.ALUCtrl, MUX6, MUX4) = Zero /\ ~id_ex.ctl.MemToReg
  <2>1. id_ex.inst = NOP /\ id_ex.ctl = Control(NOP)
    <3>1. CASE at.ex = None
      BY <1>2, <3>1, NoControlFacts DEF PipeInv, StagesHold
    <3>2. CASE at.ex # None
      <4>1. at.ex \in CodeAddrs /\ id_ex.inst = im[at.ex] /\ id_ex.ctl = Control(im[at.ex])
        BY <3>2 DEF PipeInv, TypeOK, Addrs, StagesHold
      <4>2. Writes(im[at.ex], 0)
        BY <1>2, <4>1 DEF Writes, MUX3, Dest, Control
      <4> QED BY <4>1, <4>2, SafeAt
    <3> QED BY <3>1, <3>2
  <2>2. MUX6 = Zero /\ MUX7 = Zero
    BY <2>1, NopFacts DEF MUX6, MUX7, MUX_Forward, Forward, PipeInv, OperandsRead, ZeroKept
  <2> QED BY <2>1, <2>2, NopFacts, InstructionAssumption DEF MUX4
<1> QED BY <1>1, <1>2 DEF ZeroKept, Advance, Execute

LEMMA AdvancePipeInv ==
  ASSUME PipeInv, im \in SafePrograms, Advance
  PROVE  PipeInv'
BY AdvanceTypeOK, AdvanceStagesHold, AdvanceInOrder, AdvanceLoadsWaited,
   AdvanceOperandsRead, AdvanceResultsRight, AdvanceZeroKept DEF PipeInv
----------------------------------------------------------------------------
LEMMA StalledKeeps ==
  ASSUME PipeInv, Stalled
  PROVE  PipeInv' /\ Written' = Written
<1>1. /\ register' = Written /\ Written \in [Regs -> Words] /\ mem_wb' = mem_wb
      /\ im' = im /\ pc' = pc /\ if_id' = if_id /\ id_ex' = id_ex /\ ex_mem' = ex_mem
      /\ memory' = memory /\ at' = at
  BY WireTypes DEF PipeInv, Stalled, WriteBack
<1>2. Written' = Written
  <2>1. MUX5' = MUX5
    BY <1>1 DEF MUX5
  <2> QED BY <1>1, <2>1 DEF Written
<1>3. TypeOK' /\ StagesHold' /\ LoadsWaited'
  BY <1>1 DEF PipeInv, TypeOK, StagesHold, LoadsWaited
<1>4. InOrder'
  <2>1. \A a : NextPc(a)' = NextPc(a)
    BY <1>1, <1>2 DEF NextPc
  <2>2. NextPc(at.ex)' = NextPc(at.ex) /\ NextPc(at.mem)' = NextPc(at.mem)
    BY <1>1, <1>2 DEF NextPc
  <2>3. AfterEX' = AfterEX /\ AfterMEM' = AfterMEM
    BY <1>1 DEF AfterEX, AfterMEM
  <2> QED BY <1>1, <2>2, <2>3 DEF PipeInv, InOrder
<1>5. OperandsRead'
  <2>1. \A r \in Regs : ~(mem_wb.RegWrite /\ mem_wb.rd = r) => Written[r] = register[r]
    BY DEF Written, PipeInv, TypeOK
  <2>2. id_ex.inst.rs \in Regs /\ id_ex.inst.rt \in Regs
    BY DEF PipeInv, TypeOK, Insts
  <2> QED BY <1>1, <2>1, <2>2 DEF PipeInv, OperandsRead, ZeroKept
<1>6. ResultsRight' /\ ZeroKept'
  BY <1>1, <1>2 DEF PipeInv, ResultsRight, ZeroKept
<1> QED BY <1>2, <1>3, <1>4, <1>5, <1>6 DEF PipeInv

LEMMA InitPipeInv == ASSUME Init PROVE PipeInv /\ Written = register
<1> USE DEF Init
<1>1. Written = register
  BY DEF Written
<1>2. 0 \in CodeAddrs /\ 0 \in Regs
  BY InstructionAssumption DEF CodeAddrs
<1>3. TypeOK
  BY <1>2, CodeTypes, ProgramsAssumption, InstructionAssumption DEF TypeOK, Addrs
<1>4. StagesHold /\ InOrder /\ LoadsWaited
  BY DEF StagesHold, InOrder, LoadsWaited
<1>5. OperandsRead /\ ResultsRight /\ ZeroKept
  BY <1>1, <1>2, NopFacts DEF OperandsRead, ResultsRight, ZeroKept
<1> QED BY <1>1, <1>3, <1>4, <1>5 DEF PipeInv

(* Every stage of the pipeline holds what it should, with operands and     *)
(* results as one instruction after the other would have them: for any     *)
(* words, ALU, registers, and safe programs of any length.                 *)
THEOREM PipelineInvariant ==
  ASSUME Programs \subseteq SafePrograms
  PROVE  Spec => []PipeInv
<1>1. Init => PipeInv
  BY InitPipeInv
<1>2. PipeInv /\ [Next]_vars => PipeInv'
  <2> SUFFICES ASSUME PipeInv, [Next]_vars PROVE PipeInv'
    OBVIOUS
  <2>1. CASE Advance
    BY <2>1, AdvancePipeInv DEF PipeInv, TypeOK
  <2>2. CASE Stalled
    BY <2>2, StalledKeeps
  <2>3. CASE UNCHANGED vars
    BY <2>3 DEF vars, PipeInv, TypeOK, StagesHold, InOrder, LoadsWaited, OperandsRead,
                ResultsRight, ZeroKept, NextPc, AfterEX, AfterMEM, Written, MUX5
  <2> QED BY <2>1, <2>2, <2>3 DEF Next
<1> QED BY <1>1, <1>2, PTL DEF Spec

(* The two machines have one instruction set.                              *)
LEMMA SameInstructions ==
  /\ \A i : ISA!Control(i) = Control(i)
  /\ \A i, r : ISA!Writes(i, r) <=> Writes(i, r)
  /\ \A i : ISA!IsJump(i) = IsJump(i) /\ ISA!IsBranch(i) = IsBranch(i)
  /\ \A a : ISA!After(a) = After(a)
  /\ \A i, a : ISA!Target(i, a) = Target(i, a)
  /\ ISA!CodeAddrs = CodeAddrs /\ ISA!Insts = Insts
  BY DEF ISA!Control, Control, ISA!IsRType, IsRType, ISA!IsBranch, IsBranch, ISA!IsJump,
         IsJump, ISA!Writes, Writes, ISA!Dest, Dest, ISA!After, After, ISA!Target, Target,
         ISA!CodeAddrs, CodeAddrs, ISA!Insts, Insts

(* The step the sequential machine takes while the pipeline advances: that *)
(* of the instruction in MEM, or none for a bubble.                        *)
LEMMA AdvanceRefines ==
  ASSUME PipeInv, im \in SafePrograms, Advance
  PROVE  [ISA!Step]_ISA!vars
<1> USE DEF PipeInv
<1>1. Written' \in [Regs -> Words] /\ Written \in [Regs -> Words] /\ im' = im
  BY WrittenNext, WireTypes DEF Advance
<1>2. memory' = IF ex_mem.MemWrite THEN [memory EXCEPT ![ex_mem.alu] = ex_mem.data]
                                   ELSE memory
  BY DEF Advance, AccessMemory
<1>3. (at.mem = None \/ OldestPc = at.mem) /\ OldestPc' = AfterMEM
  <2>1. at.mem = None \/ OldestPc = at.mem
    BY DEF OldestPc
  <2>2. at.mem' = at.ex /\ AfterMEM' = AfterEX
    BY AfterNext DEF Advance, Track
  <2>3. OldestPc' = IF at.mem' # None THEN at.mem' ELSE AfterMEM'
    BY DEF OldestPc, AfterMEM, AfterEX
  <2> QED BY <2>1, <2>2, <2>3 DEF AfterMEM
<1>4. CASE at.mem = None
  <2>1. Written' = Written
    <3>1. \A r \in Regs : Written'[r] = Written[r]
      BY <1>4, WrittenNext DEF StagesHold, ZeroKept
    <3> QED BY <1>1, <3>1
  <2>2. memory' = memory
    BY <1>2, <1>4 DEF StagesHold
  <2>3. OldestPc' = OldestPc
    BY <1>3, <1>4 DEF OldestPc, AfterMEM, AfterEX
  <2> QED BY <1>1, <2>1, <2>2, <2>3 DEF ISA!vars
<1>5. CASE at.mem # None
  <2> DEFINE i == im[at.mem]
  <2>1. at.mem \in CodeAddrs /\ i \in Insts
    BY <1>5, CodeOf DEF TypeOK, Addrs
  <2>2. /\ ex_mem.rd = Dest(i) /\ ex_mem.RegWrite = Control(i).RegWrite
        /\ ex_mem.MemToReg = Control(i).MemToReg /\ ex_mem.MemRead = Control(i).MemRead
        /\ ex_mem.MemWrite = Control(i).MemWrite
    BY <1>5 DEF StagesHold
  <2>3. (ex_mem.RegWrite \/ ex_mem.MemWrite) => ex_mem.alu = ISA!Result(i)
    BY <1>5, SameInstructions DEF ResultsRight, ISA!Result, ISA!Operand1, ISA!Operand2
  <2>4. OldestPc' = IF ISA!Taken(i) THEN Target(i, OldestPc) ELSE After(OldestPc)
    BY <1>3, <1>5, SameInstructions DEF InOrder, NextPc, ISA!Taken
  <2>5. Written' = [r \in Regs |->
          IF Writes(i, r) THEN (IF i.op = "lw" THEN memory[ISA!Result(i)] ELSE ISA!Result(i))
                          ELSE Written[r]]
    <3>1. ASSUME NEW r \in Regs
          PROVE  Written'[r] = IF Writes(i, r)
                   THEN (IF i.op = "lw" THEN memory[ISA!Result(i)] ELSE ISA!Result(i))
                   ELSE Written[r]
      <4>1. Writes(i, r) <=> ex_mem.RegWrite /\ ex_mem.rd = r
        BY <2>2 DEF Writes
      <4>2. (i.op = "lw") = ex_mem.MemToReg /\ ex_mem.MemToReg = ex_mem.MemRead
        BY <2>2 DEF Control
      <4> QED BY <2>3, <4>1, <4>2, WrittenNext
    <3> QED BY <1>1, <3>1
  <2>6. memory' = IF i.op = "sw" THEN [memory EXCEPT ![ISA!Result(i)] = Written[i.rt]]
                                 ELSE memory
    <3>1. ex_mem.MemWrite = (i.op = "sw")
      BY <2>2 DEF Control
    <3> QED BY <1>2, <1>5, <2>3, <3>1 DEF ResultsRight
  <2>7. OldestPc = at.mem
    BY <1>3, <1>5
  <2> QED BY <1>1, <2>4, <2>5, <2>6, <2>7, SameInstructions DEF ISA!Step
<1> QED BY <1>4, <1>5

(* A program runs on the pipeline as it does one instruction at a time:    *)
(* the registers, the memory and the order of the instructions are those   *)
(* of the sequential machine.                                              *)
THEOREM PipelineIsSequential ==
  ASSUME Programs \subseteq SafePrograms
  PROVE  Spec => ImplementsSequential
<1>1. Init => ISA!Init
  <2> SUFFICES ASSUME Init PROVE ISA!Init
    OBVIOUS
  <2>1. Written = register
    BY InitPipeInv
  <2>2. memory \in [Words -> Words] /\ im \in [CodeAddrs -> Insts]
    BY InstructionAssumption, ProgramsAssumption DEF Init
  <2>3. OldestPc = 0
    BY DEF Init, OldestPc
  <2> QED BY <2>1, <2>2, <2>3, SameInstructions DEF Init, ISA!Init
<1>2. PipeInv /\ [Next]_vars => [ISA!Step]_ISA!vars
  <2> SUFFICES ASSUME PipeInv, [Next]_vars PROVE [ISA!Step]_ISA!vars
    OBVIOUS
  <2>1. CASE Advance
    BY <2>1, AdvanceRefines DEF PipeInv, TypeOK
  <2>2. CASE Stalled
    BY <2>2, StalledKeeps DEF Stalled, ISA!vars, OldestPc
  <2>3. CASE UNCHANGED vars
    BY <2>3 DEF vars, ISA!vars, OldestPc, Written, MUX5
  <2> QED BY <2>1, <2>2, <2>3 DEF Next
<1>3. Spec => []PipeInv
  BY PipelineInvariant
<1> QED BY <1>1, <1>2, <1>3, PTL DEF Spec, ImplementsSequential, ISA!Spec

(* No two bubbles follow each other: a load-use stall lets the load pass   *)
(* and holds the instruction after it for one edge, a jump or a branch     *)
(* empties one stage.                                                      *)
NoTwoBubbles == at.mem # None => at.ex # None \/ at.id # None

LEMMA BubbleDecodes ==
  ASSUME PipeInv, im \in SafePrograms, at.id = None
  PROVE  ~hazard /\ ~flush
<1>1. ~hazard
  BY HazardHolds, ProgramsAssumption
<1>2. ~flush
  BY NopFacts DEF PipeInv, StagesHold, flush, pc_src_branch_select
<1> QED BY <1>1, <1>2

LEMMA AdvanceCounts ==
  ASSUME PipeInv, im \in SafePrograms, NoTwoBubbles, Advance
  PROVE  /\ NoTwoBubbles'
         /\ IF ToRetire = 0 THEN ToRetire' \in {0, 1} ELSE ToRetire' = ToRetire - 1
<1>1. /\ at'.id = IF flush THEN None ELSE IF hazard THEN at.id ELSE pc
      /\ at'.ex = IF hazard THEN None ELSE at.id
      /\ at'.mem = at.ex
  BY DEF Advance, Track
<1>2. pc # None
  BY ProgramsAssumption DEF PipeInv, TypeOK
<1>3. hazard => at.ex # None /\ at.id # None /\ ~flush
  BY HazardHolds, ProgramsAssumption
<1>4. at.id = None => ~hazard /\ ~flush
  BY BubbleDecodes
<1>5. NoTwoBubbles'
  BY <1>1, <1>2, <1>3, <1>4 DEF NoTwoBubbles
<1>6. ToRetire' = IF at'.mem # None THEN 0 ELSE IF at'.ex # None THEN 1
                  ELSE IF at'.id # None THEN 2 ELSE 3
  BY DEF ToRetire
<1>7. CASE at.mem # None
  <2>1. ToRetire = 0
    BY <1>7 DEF ToRetire
  <2>2. at.ex # None \/ (at.id # None /\ ~hazard)
    BY <1>3, <1>7 DEF NoTwoBubbles
  <2>3. at'.mem # None \/ at'.ex # None
    BY <1>1, <2>2
  <2>4. ToRetire' = 0 \/ ToRetire' = 1
    BY <1>6, <2>3
  <2> QED BY <1>5, <2>1, <2>4
<1>8. CASE at.mem = None
  <2>1. CASE at.ex # None
    BY <1>1, <1>5, <1>6, <1>8, <2>1 DEF ToRetire
  <2>2. CASE at.ex = None /\ at.id # None
    <3>1. at'.mem = None /\ at'.ex # None
      BY <1>1, <1>3, <2>2
    <3> QED BY <1>5, <1>6, <1>8, <2>2, <3>1 DEF ToRetire
  <2>3. CASE at.ex = None /\ at.id = None
    <3>1. at'.mem = None /\ at'.ex = None /\ at'.id # None
      BY <1>1, <1>2, <1>4, <2>3
    <3> QED BY <1>5, <1>6, <1>8, <2>3, <3>1 DEF ToRetire
  <2> QED BY <2>1, <2>2, <2>3
<1> QED BY <1>5, <1>7, <1>8

(* An instruction leaves the pipeline at every second edge at least, and   *)
(* the first one at the fourth.                                            *)
THEOREM InstructionsKeepLeaving ==
  ASSUME Programs \subseteq SafePrograms
  PROVE  Spec => RetiresSoon
<1>1. Init => NoTwoBubbles
  BY DEF Init, NoTwoBubbles
<1>2. ASSUME PipeInv, NoTwoBubbles, Next
      PROVE  /\ NoTwoBubbles'
             /\ Advance => IF ToRetire = 0 THEN ToRetire' \in {0, 1} ELSE ToRetire' = ToRetire - 1
             /\ Stalled => ToRetire = 0
  <2>1. im \in SafePrograms
    BY <1>2 DEF PipeInv, TypeOK
  <2>2. Advance => /\ NoTwoBubbles'
                   /\ IF ToRetire = 0 THEN ToRetire' \in {0, 1} ELSE ToRetire' = ToRetire - 1
    BY <1>2, <2>1, AdvanceCounts
  <2>3. Stalled => NoTwoBubbles' /\ ToRetire = 0
    BY <1>2 DEF Stalled, NoTwoBubbles, ToRetire, PipeInv, StagesHold
  <2> QED BY <1>2, <2>2, <2>3 DEF Next
<1>3. UNCHANGED vars /\ NoTwoBubbles => NoTwoBubbles'
  BY DEF vars, NoTwoBubbles
<1>4. Spec => []PipeInv
  BY PipelineInvariant
<1> QED BY <1>1, <1>2, <1>3, <1>4, PTL DEF Spec, RetiresSoon
=============================================================================

--------------------------- MODULE CachedCPUProofs ---------------------------
(***************************************************************************)
(* The pipeline with the cache behind it is the pipeline with a memory,    *)
(* for any geometry, latency, ALU, program and place of the words.         *)
(***************************************************************************)
EXTENDS CachedCPU, CachedMemoryProofs

computerVars == <<vars, pipeVars>>

(* The registers of the pipeline hold what their wires carry.              *)
StagesTyped ==
  /\ im \in Programs
  /\ pc \in Pipe!CodeAddrs
  /\ if_id \in [inst : Pipe!Insts, pc : Pipe!CodeAddrs]
  /\ id_ex \in [inst : Pipe!Insts, a : Words, b : Words, ctl : Pipe!Controls]
  /\ ex_mem \in [alu : Words, data : Words, rd : Regs, RegWrite : BOOLEAN,
                 MemToReg : BOOLEAN, MemRead : BOOLEAN, MemWrite : BOOLEAN]
  /\ mem_wb \in [alu : Words, data : Words, rd : Regs,
                 RegWrite : BOOLEAN, MemToReg : BOOLEAN]
  /\ register \in [Regs -> Words]

(* What reads memory goes to a register and writes nothing to memory.      *)
LoadOrStore(c) == c.MemToReg = c.MemRead /\ ~(c.MemRead /\ c.MemWrite)

(* The cache is asked what EX_MEM holds, and the controllers are in phase. *)
ComputerInv ==
  /\ IndInv
  /\ StagesTyped
  /\ LoadOrStore(id_ex.ctl) /\ LoadOrStore(ex_mem)
  /\ p1 = Request

LEMMA ControlTypes ==
  ASSUME ComputerAssumption
  PROVE  /\ Pipe!NOP \in Pipe!Insts /\ Pipe!NoControl \in Pipe!Controls
         /\ LoadOrStore(Pipe!NoControl)
         /\ \A i \in Pipe!Insts : Pipe!Control(i) \in Pipe!Controls /\ LoadOrStore(Pipe!Control(i))
         /\ \A n \in Nat : n % CodeSize \in Pipe!CodeAddrs
         /\ \A i \in Pipe!Insts : i.target \in Pipe!CodeAddrs
<1> USE DEF ComputerAssumption
<1>1. \A n \in Nat : n % CodeSize \in Pipe!CodeAddrs
  BY DEF Pipe!CodeAddrs
<1>2. 0 \in Pipe!CodeAddrs
  BY DEF Pipe!CodeAddrs
<1>3. Pipe!NOP \in Pipe!Insts /\ Pipe!NoControl \in Pipe!Controls
  BY <1>2, ZeroAssumption DEF Pipe!NOP, Pipe!Insts, Pipe!NoControl, Pipe!Controls
<1>4. LoadOrStore(Pipe!NoControl)
  BY DEF LoadOrStore, Pipe!NoControl
<1>5. ASSUME NEW i \in Pipe!Insts
      PROVE  Pipe!Control(i) \in Pipe!Controls /\ LoadOrStore(Pipe!Control(i))
  <2>1. Pipe!Control(i) \in Pipe!Controls
    BY <1>5 DEF Pipe!Insts, Pipe!Control, Pipe!Controls, Pipe!IsRType, Pipe!IsBranch
  <2>2. LoadOrStore(Pipe!Control(i))
    BY DEF Pipe!Control, LoadOrStore
  <2> QED BY <2>1, <2>2
<1>6. \A i \in Pipe!Insts : i.target \in Pipe!CodeAddrs
  BY DEF Pipe!Insts
<1> QED BY <1>1, <1>3, <1>4, <1>5, <1>6

(* The wires of the pipeline carry words.                                  *)
LEMMA PipeWires ==
  ASSUME ComputerAssumption, StagesTyped
  PROVE  /\ Pipe!MUX5 \in Words
         /\ Pipe!Written \in [Regs -> Words]
         /\ \A r \in Regs : Pipe!ID_Forward(r) \in Words
         /\ Pipe!MUX6 \in Words /\ Pipe!MUX7 \in Words
         /\ Pipe!MUX4 \in Words /\ Pipe!MUX3 \in Regs
<1> USE DEF StagesTyped
<1>1. Loaded \in [alu : Words, data : Words, rd : Regs,
                  RegWrite : BOOLEAN, MemToReg : BOOLEAN]
  BY ZeroAssumption DEF Loaded
<1>2. Pipe!MUX5 \in Words
  BY <1>1 DEF Pipe!MUX5
<1>3. Pipe!Written \in [Regs -> Words]
  BY <1>2 DEF Pipe!Written
<1>4. \A r \in Regs : Pipe!ID_Forward(r) \in Words
  BY <1>2, <1>3 DEF Pipe!ID_Forward
<1>5. Pipe!MUX6 \in Words /\ Pipe!MUX7 \in Words
  BY <1>2 DEF Pipe!MUX6, Pipe!MUX7, Pipe!MUX_Forward, Pipe!Forward
<1>6. Pipe!MUX4 \in Words /\ Pipe!MUX3 \in Regs
  BY <1>5 DEF Pipe!MUX4, Pipe!MUX3, Pipe!Insts
<1> QED BY <1>2, <1>3, <1>4, <1>5, <1>6

(* An edge without a stall brings every stage what the one before it had.  *)
LEMMA StagesAdvance ==
  ASSUME ComputerAssumption, ComputerInv, Cycle, ~p1_stall_o
  PROVE  StagesTyped' /\ LoadOrStore(id_ex.ctl)' /\ LoadOrStore(ex_mem)'
<1> USE DEF ComputerInv, StagesTyped
<1>1. /\ Pipe!WriteBack /\ Pipe!AdvancePC /\ Pipe!Fetch /\ Pipe!Decode /\ Pipe!Execute
      /\ TakeAnswer /\ UNCHANGED im
  BY DEF Cycle, Pipeline
<1>2. im' \in Programs /\ im[pc] \in Pipe!Insts
  BY <1>1 DEF ComputerAssumption
<1>3. Pipe!After(pc) \in Pipe!CodeAddrs
  BY ControlTypes DEF Pipe!After, Pipe!CodeAddrs
<1>4. pc' \in Pipe!CodeAddrs
  <2>1. (if_id.pc + if_id.inst.target) % CodeSize \in Pipe!CodeAddrs
    <3>1. if_id.inst.target \in Pipe!CodeAddrs /\ if_id.pc \in Pipe!CodeAddrs
      BY ControlTypes
    <3> QED BY <3>1, ControlTypes DEF Pipe!CodeAddrs
  <2> QED BY <1>1, <1>3, <2>1, ControlTypes DEF Pipe!AdvancePC, Pipe!pc_i
<1>5. if_id' \in [inst : Pipe!Insts, pc : Pipe!CodeAddrs]
  BY <1>1, <1>2, <1>3, ControlTypes DEF Pipe!Fetch
<1>6. /\ id_ex' \in [inst : Pipe!Insts, a : Words, b : Words, ctl : Pipe!Controls]
      /\ LoadOrStore(id_ex'.ctl)
  <2>1. if_id.inst.rs \in Regs /\ if_id.inst.rt \in Regs
    BY DEF Pipe!Insts
  <2> QED BY <1>1, <2>1, ControlTypes, PipeWires DEF Pipe!Decode
<1>7. ex_mem' \in [alu : Words, data : Words, rd : Regs, RegWrite : BOOLEAN,
                   MemToReg : BOOLEAN, MemRead : BOOLEAN, MemWrite : BOOLEAN]
  <2>1. id_ex.ctl \in Pipe!Controls
    OBVIOUS
  <2>2. Alu(id_ex.ctl.ALUCtrl, Pipe!MUX6, Pipe!MUX4) \in Words
    BY <2>1, PipeWires DEF ComputerAssumption, Pipe!Controls
  <2> QED BY <1>1, <2>1, <2>2, PipeWires DEF Pipe!Execute, Pipe!Controls
<1>8. LoadOrStore(ex_mem')
  BY <1>1 DEF Pipe!Execute, LoadOrStore
<1>9. mem_wb' \in [alu : Words, data : Words, rd : Regs,
                   RegWrite : BOOLEAN, MemToReg : BOOLEAN]
  <2>1. p1_data_o \in Words
    BY DEF IndInv, TypeOK, CacheTypeOK, p1_data_o
  <2> QED BY <1>1, <2>1 DEF TakeAnswer
<1>10. register' \in [Regs -> Words]
  BY <1>1, PipeWires DEF Pipe!WriteBack
<1> QED
  BY <1>2, <1>4, <1>5, <1>6, <1>7, <1>8, <1>9, <1>10

LEMMA ComputerInvNext ==
  ASSUME ComputerAssumption, ComputerInv, [Cycle]_computerVars
  PROVE  ComputerInv'
<1>1. CASE Cycle
  <2>1. IndInv'
    BY <1>1, NextKeepsIndInv DEF ComputerInv, Cycle, Next
  <2>2. p1' = Request'
    BY <1>1 DEF Cycle
  <2>3. CASE p1_stall_o
    <3>1. UNCHANGED <<im, pc, if_id, id_ex, ex_mem, mem_wb>>
      BY <1>1, <2>3 DEF Cycle, Pipeline
    <3>2. register' \in [Regs -> Words]
      BY <1>1, PipeWires DEF Cycle, ComputerInv, Pipe!WriteBack
    <3> QED BY <2>1, <2>2, <3>1, <3>2 DEF ComputerInv, StagesTyped, LoadOrStore
  <2>4. CASE ~p1_stall_o
    BY <1>1, <2>1, <2>2, <2>4, StagesAdvance DEF ComputerInv
  <2> QED BY <2>3, <2>4
<1>2. CASE UNCHANGED computerVars
  <2>1. UNCHANGED vars /\ UNCHANGED <<im, pc, if_id, id_ex, ex_mem, mem_wb, register, p1>>
    BY <1>2 DEF computerVars, pipeVars, vars, cacheVars
  <2>2. IndInv'
    BY <2>1, NextKeepsIndInv DEF ComputerInv
  <2> QED BY <2>1, <2>2 DEF ComputerInv, StagesTyped, LoadOrStore, Request
<1> QED BY <1>1, <1>2

LEMMA ComputerInitInv ==
  ASSUME ComputerAssumption, ComputerInit
  PROVE  ComputerInv
<1>1. IndInv
  BY InitIndInv DEF ComputerInit
<1>2. Pipe!Init /\ p1 = Request
  BY DEF ComputerInit
<1>3. StagesTyped
  <2>1. 0 \in Pipe!CodeAddrs /\ 0 \in Regs
    BY DEF ComputerAssumption, Pipe!CodeAddrs
  <2> QED
    BY <1>2, <2>1, ControlTypes, ZeroAssumption
    DEF ComputerInit, Pipe!Init, StagesTyped
<1>4. LoadOrStore(id_ex.ctl) /\ LoadOrStore(ex_mem)
  BY <1>2, ControlTypes DEF Pipe!Init, LoadOrStore
<1> QED BY <1>1, <1>2, <1>3, <1>4 DEF ComputerInv

(* The computer drives its cache as CachedMemory.tla allows: the cache and *)
(* the memory behind it keep in phase under every program.                 *)
THEOREM ComputerInvariant == ComputerAssumption => (ComputerSpec => []ComputerInv)
<1> SUFFICES ASSUME ComputerAssumption PROVE ComputerSpec => []ComputerInv
  OBVIOUS
<1>1. ComputerInit => ComputerInv
  BY ComputerInitInv
<1>2. ComputerInv /\ [Cycle]_computerVars => ComputerInv'
  BY ComputerInvNext
<1> QED BY <1>1, <1>2, PTL DEF ComputerSpec, computerVars
----------------------------------------------------------------------------
(* An edge changes what cache and memory show together only by a store     *)
(* that is not held back.                                                  *)
LEMMA EdgeStores ==
  ASSUME IndInv, Clock
  PROVE  Contents' = IF p1.op = "write" /\ ~p1_stall_o THEN Flat!Store(Contents, p1)
                                                      ELSE Contents
<1>1. write_hit <=> p1.op = "write" /\ ~p1_stall_o
  BY DEF write_hit, p1_stall_o, p1_req
<1> QED BY <1>1, WriteHitStores, OtherEdgesKeepContents

(* The place of a word names one word of one line.                         *)
LEMMA Places ==
  ASSUME ComputerAssumption
  PROVE  /\ \A w \in Words : /\ <<Place[w].tag, Place[w].index>> \in LineAddrs
                             /\ Place[w].offset \in Offsets
         /\ \A v, w \in Words :
              (/\ <<Place[v].tag, Place[v].index>> = <<Place[w].tag, Place[w].index>>
               /\ Place[v].offset = Place[w].offset) => v = w
<1>1. \A w \in Words : Place[w] \in [tag : Tags, index : Indexes, offset : Offsets]
  BY DEF ComputerAssumption
<1>2. ASSUME NEW v \in Words, NEW w \in Words,
             Place[v].tag = Place[w].tag, Place[v].index = Place[w].index,
             Place[v].offset = Place[w].offset
      PROVE  v = w
  <2>1. Place[v] = Place[w]
    BY <1>1, <1>2
  <2> QED BY <2>1 DEF ComputerAssumption
<1> QED BY <1>1, <1>2 DEF LineAddrs

(* The program sees its store as a store to one word.                      *)
LEMMA StoreIsSeen ==
  ASSUME ComputerAssumption, ComputerInv, Clock, ~p1_stall_o, ex_mem.MemWrite
  PROVE  Seen' = [Seen EXCEPT ![ex_mem.alu] = ex_mem.data]
<1>1. /\ p1 = Request /\ ~ex_mem.MemRead /\ ex_mem.alu \in Words /\ ex_mem.data \in Words
      /\ IndInv
  BY DEF ComputerInv, StagesTyped, LoadOrStore
<1> DEFINE x == ex_mem.alu
           line(w) == <<Place[w].tag, Place[w].index>>
<1>2. p1.op = "write" /\ line(x) = <<p1.tag, p1.index>> /\ p1.offset = Place[x].offset
      /\ p1.data = ex_mem.data
  BY <1>1 DEF Request
<1>3. Contents' = [Contents EXCEPT ![line(x)][Place[x].offset] = ex_mem.data]
  BY <1>1, <1>2, EdgeStores DEF Flat!Store
<1>4. Contents \in [LineAddrs -> [Offsets -> Words]]
  BY <1>1, ContentsType DEF Lines
<1>5. ASSUME NEW w \in Words
      PROVE  Contents'[line(w)][Place[w].offset]
               = IF w = x THEN ex_mem.data ELSE Contents[line(w)][Place[w].offset]
  <2>1. line(w) \in LineAddrs /\ Place[w].offset \in Offsets
        /\ line(x) \in LineAddrs /\ Place[x].offset \in Offsets
    BY <1>1, Places
  <2>2. line(w) = line(x) /\ Place[w].offset = Place[x].offset => w = x
    BY <1>1, Places
  <2> HIDE DEF line, x
  <2> QED BY <1>3, <1>4, <2>1, <2>2
<1> QED BY <1>1, <1>5 DEF Seen

(* A load that is answered is answered with the word the program sees.     *)
LEMMA LoadSees ==
  ASSUME ComputerInv, ReadMissIsReadHit, ~p1_stall_o, ex_mem.MemRead
  PROVE  p1_data_o = Seen[ex_mem.alu]
<1>1. p1 = Request /\ ex_mem.alu \in Words
  BY DEF ComputerInv, StagesTyped
<1>2. p1.op = "read" /\ hit /\ p1_req
  BY <1>1 DEF Request, p1_stall_o, p1_req
<1>3. p1_data_o = data_sram[p1.index][p1.offset]
  BY <1>2 DEF ReadMissIsReadHit, sram_cache_data
<1>4. tag_sram[p1.index].valid /\ tag_sram[p1.index].tag = p1.tag
  BY <1>2 DEF hit, sram_tag, sram_cache_tag
<1>5. <<p1.tag, p1.index>> \in LineAddrs
  BY DEF ComputerInv, IndInv, TypeOK, CacheTypeOK, Requests, LineAddrs
<1>6. Contents[<<p1.tag, p1.index>>][p1.offset] = data_sram[p1.index][p1.offset]
  BY <1>4, <1>5 DEF Contents
<1> QED BY <1>1, <1>3, <1>6 DEF Seen, Request

LEMMA CycleIsPipe ==
  ASSUME ComputerAssumption, ComputerInv, ReadMissIsReadHit, Cycle
  PROVE  Pipe!Next
<1>1. CASE p1_stall_o
  <2>1. ex_mem.MemRead \/ ex_mem.MemWrite
    BY <1>1 DEF ComputerInv, Request, p1_stall_o, p1_req
  <2>2. UNCHANGED <<im, pc, if_id, id_ex, ex_mem, mem_wb, at>> /\ Pipe!WriteBack
    BY <1>1 DEF Cycle, Pipeline
  <2>3. UNCHANGED Seen
    BY <1>1, EdgeStores DEF Cycle, ComputerInv, Seen
  <2>4. UNCHANGED Loaded
    BY <2>2 DEF Loaded
  <2> QED BY <2>1, <2>2, <2>3, <2>4 DEF Pipe!Next, Pipe!Stalled
<1>2. CASE ~p1_stall_o
  <2>1. /\ Pipe!AdvancePC /\ Pipe!Fetch /\ Pipe!Decode /\ Pipe!Execute /\ Pipe!WriteBack
        /\ Pipe!Track /\ UNCHANGED im
    BY <1>2 DEF Cycle, Pipeline
  <2>2. Seen' = IF ex_mem.MemWrite THEN [Seen EXCEPT ![ex_mem.alu] = ex_mem.data]
                                   ELSE Seen
    <3>1. CASE ex_mem.MemWrite
      BY <1>2, <3>1, StoreIsSeen DEF Cycle
    <3>2. CASE ~ex_mem.MemWrite
      <4>1. p1.op # "write"
        BY <3>2 DEF ComputerInv, Request
      <4>2. UNCHANGED Contents
        BY <4>1, EdgeStores DEF Cycle, ComputerInv
      <4> QED BY <3>2, <4>2 DEF Seen
    <3> QED BY <3>1, <3>2
  <2>3. Loaded' = [alu      |-> ex_mem.alu,
                   data     |-> IF ex_mem.MemRead THEN Seen[ex_mem.alu] ELSE Zero,
                   rd       |-> ex_mem.rd,
                   RegWrite |-> ex_mem.RegWrite,
                   MemToReg |-> ex_mem.MemToReg]
    <3>1. TakeAnswer
      BY <1>2 DEF Cycle, Pipeline
    <3>2. ex_mem.MemToReg = ex_mem.MemRead
      BY DEF ComputerInv, LoadOrStore
    <3>3. ex_mem.MemRead => p1_data_o = Seen[ex_mem.alu]
      BY <1>2, LoadSees
    <3> QED BY <3>1, <3>2, <3>3 DEF TakeAnswer, Loaded
  <2>4. Pipe!AccessMemory
    BY <2>2, <2>3 DEF Pipe!AccessMemory
  <2> QED BY <2>1, <2>4 DEF Pipe!Next, Pipe!Advance
<1> QED BY <1>1, <1>2

LEMMA StepIsPipe ==
  ASSUME ComputerAssumption, ComputerInv, ReadMissIsReadHit, [Cycle]_computerVars
  PROVE  [Pipe!Next]_(Pipe!vars)
<1>1. CASE Cycle
  BY <1>1, CycleIsPipe
<1>2. CASE UNCHANGED computerVars
  <2>1. UNCHANGED <<im, pc, if_id, id_ex, ex_mem, mem_wb, register, at>>
        /\ UNCHANGED <<memory, tag_sram, data_sram>>
    BY <1>2 DEF computerVars, pipeVars, vars, memoryVars, cacheVars
  <2>2. UNCHANGED Seen /\ UNCHANGED Loaded
    BY <2>1 DEF Seen, Contents, Loaded
  <2> QED BY <2>1, <2>2 DEF Pipe!vars
<1> QED BY <1>1, <1>2

(* The computer is the pipeline of PipelinedCPU.tla, whatever the cache    *)
(* keeps, fetches and writes back, as long as the read block leaves no     *)
(* load at zero.  What PipelineIsSequential says of that pipeline then     *)
(* holds of the computer.                                                  *)
THEOREM ComputerIsThePipeline ==
  ComputerAssumption => (ComputerSpec /\ []ReadMissIsReadHit => ImplementsPipeline)
<1> SUFFICES ASSUME ComputerAssumption
             PROVE  ComputerSpec /\ []ReadMissIsReadHit => ImplementsPipeline
  OBVIOUS
<1>1. ComputerInit => Pipe!Init
  BY DEF ComputerInit
<1>2. ComputerInv /\ ReadMissIsReadHit /\ [Cycle]_computerVars => [Pipe!Next]_(Pipe!vars)
  BY StepIsPipe
<1>3. ComputerSpec => []ComputerInv
  BY ComputerInvariant
<1> QED BY <1>1, <1>2, <1>3, PTL DEF ComputerSpec, computerVars, ImplementsPipeline
============================================================================

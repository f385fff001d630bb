----------------------------- MODULE CachedCPU -----------------------------
(***************************************************************************)
(* CPU.v with the cache inside it and Data_Memory.v behind, as TestBench.v *)
(* runs them: the pipeline of PipelinedCPU.tla, whose MEM stage asks the   *)
(* cache of CachedMemory.tla.  One edge clocks them all.  The cache works  *)
(* on EX_MEM directly, so p1 is what EX_MEM asks; MEM_WB takes p1_data_o   *)
(* as it is.  The reset comes before the first edge.                       *)
(***************************************************************************)
EXTENDS CachedMemory

CONSTANTS
  Place,      \* the {tag, index, offset} of an address
  Regs, AluOps, Alu(_, _, _), CodeSize, Programs, Input, None

VARIABLES im, pc, if_id, id_ex, ex_mem, mem_wb, register, at

pipeVars == <<im, pc, if_id, id_ex, ex_mem, mem_wb, register, at>>

(* The wires between EX_MEM and the cache.                                 *)
Request ==
  LET address == Place[ex_mem.alu] IN
  [op     |-> IF ex_mem.MemRead THEN "read" ELSE IF ex_mem.MemWrite THEN "write" ELSE "none",
   tag    |-> address.tag,
   index  |-> address.index,
   offset |-> address.offset,
   data   |-> ex_mem.data]

(* The data memory as the program sees it, and of MEM_WB what MUX5 can     *)
(* select: p1_data_o of a load.                                            *)
Seen == [w \in Words |-> Contents[<<Place[w].tag, Place[w].index>>][Place[w].offset]]

Loaded == [mem_wb EXCEPT !.data = IF mem_wb.MemToReg THEN mem_wb.data ELSE Zero]

Pipe == INSTANCE PipelinedCPU WITH memory <- Seen, mem_wb <- Loaded

(* Every address is a word of the cache, no two are the same, and the      *)
(* pipeline's own constants are as InstructionSet and PipelinedCPU assume. *)
ComputerAssumption ==
  /\ Place \in [Words -> [tag : Tags, index : Indexes, offset : Offsets]]
  /\ \A v, w \in Words : Place[v] = Place[w] => v = w
  /\ 0 \in Regs /\ Input \in Words /\ CodeSize \in Nat \ {0}
  /\ {"add", "sub"} \subseteq AluOps
  /\ \A op \in AluOps, a, b \in Words : Alu(op, a, b) \in Words
  /\ Programs \subseteq [Pipe!CodeAddrs -> Pipe!Insts]

(* TestBench.v clears the arrays and fills in one word, n at address 0.    *)
ComputerInit ==
  /\ memory = [a \in LineAddrs |-> [o \in Offsets |->
                 IF Place[Zero] = [tag |-> a[1], index |-> a[2], offset |-> o]
                   THEN Input ELSE Zero]]
  /\ Init
  /\ mem_wb = [alu |-> Zero, data |-> Zero, rd |-> 0, RegWrite |-> FALSE, MemToReg |-> FALSE]
  /\ Pipe!Init
  /\ p1 = Request

(* MEM_WB *)
TakeAnswer ==
  mem_wb' = [alu      |-> ex_mem.alu,
             data     |-> p1_data_o,
             rd       |-> ex_mem.rd,
             RegWrite |-> ex_mem.RegWrite,
             MemToReg |-> ex_mem.MemToReg]

Pipeline ==
  IF p1_stall_o
    THEN UNCHANGED <<im, pc, if_id, id_ex, ex_mem, mem_wb, at>>
    ELSE /\ Pipe!AdvancePC /\ Pipe!Fetch /\ Pipe!Decode /\ Pipe!Execute /\ TakeAnswer
         /\ Pipe!Track
         /\ UNCHANGED im

Cycle ==
  /\ Pipe!WriteBack
  /\ Pipeline
  /\ p1' = Request'
  /\ Clock

ComputerSpec == ComputerInit /\ [][Cycle]_<<vars, pipeVars>>

(* The order of events that suits the read block best: it runs whenever    *)
(* anything moves, and finds every wire settled.                           *)
SeesSettled == Quiet \/ p1_data' = IF hit' THEN r_hit_data'[p1'.offset] ELSE Zero

SettledComputerSpec == ComputerInit /\ [][Cycle /\ SeesSettled]_<<vars, pipeVars>>
----------------------------------------------------------------------------
(* What the pipeline of PipelinedCPU.tla does, fairness apart: with the    *)
(* cache in the place of its memory no instruction notices a miss but by   *)
(* the time it takes, provided that loads are answered.                    *)
ImplementsPipeline == Pipe!Init /\ [][Pipe!Next]_(Pipe!vars)
============================================================================

--------------------------- MODULE CachedMemory ---------------------------
(***************************************************************************)
(* The cache of dcache_top.v wired to the memory of Data_Memory.v as CPU.v *)
(* and TestBench.v wire them.  Both are clocked by the same edge, so one   *)
(* step of the system is one edge of both; the non-blocking assignments    *)
(* make every right-hand side read the values before the edge.  rst_i may  *)
(* be pulsed low at any time: it clears the two controllers and keeps the  *)
(* arrays, and EX_MEM, which has no reset, keeps the request.              *)
(***************************************************************************)
EXTENDS DataMemory, DCacheTop

vars == <<memoryVars, cacheVars>>

(* TestBench.v clears the SRAMs and fills the memory before the first edge;*)
(* the register `data' has no initial value.                               *)
Init ==
  /\ memory \in [LineAddrs -> Lines]
  /\ data \in Lines
  /\ count = 0 /\ ack = FALSE /\ ok = FALSE /\ mem_state = "IDLE"
  /\ state = "IDLE"
  /\ mem_enable = FALSE /\ mem_write = FALSE
  /\ cache_we = FALSE /\ write_back = FALSE
  /\ tag_sram = [i \in Indexes |-> ZeroEntry]
  /\ data_sram = [i \in Indexes |-> ZeroLine]
  /\ p1 \in {r \in Requests : r.op = "none"}
  /\ p1_data = Zero

(* The block `read data: 256-bit to 32-bit' of dcache_top.v sets the        *)
(* register p1_data when p1_offset or r_hit_data changes.  It reads `hit',  *)
(* which its list leaves out, and the wires settle after an edge in an      *)
(* order the language leaves open.  When r_hit_data ends as what a miss     *)
(* would show, hit may have come up after the block ran last, and the zero  *)
(* of a miss stays.  When nothing that r_hit_data could pass through        *)
(* changes, the block does not run at all.                                  *)
r_hit_data == IF hit THEN sram_cache_data ELSE data

Quiet == <<p1, data, sram_cache_data, r_hit_data>>' = <<p1, data, sram_cache_data, r_hit_data>>

HitStays == hit /\ p1_line' = p1_line /\ p1'.op = p1.op

SelectWord ==
  \/ Quiet /\ UNCHANGED p1_data
  \/ ~Quiet /\ (hit' \/ p1' # p1) /\ p1_data' = r_hit_data'[p1'.offset]
  \/ ~Quiet /\ ~HitStays /\ r_hit_data' = data' /\ p1_data' = Zero

Clock ==
  /\ CacheEdge(data, ack)
  /\ MemoryEdge(mem_enable, mem_write, mem_addr_o, sram_cache_data)
  /\ SelectWord

Reset == CacheReset /\ MemoryReset

Next == Clock \/ Reset

(* The clock is an oscillator: it never stops.  Reset is not promised.     *)
Spec == Init /\ [][Next]_vars /\ WF_vars(Clock)
----------------------------------------------------------------------------
TypeOK == MemoryTypeOK /\ CacheTypeOK

(* The line the cache index of the request holds, as a memory address.     *)
VictimLine == <<sram_tag, p1.index>>

(* Every clean valid line agrees with memory.  A line is filled two edges  *)
(* after the memory was read and made clean in one assignment; an edge too *)
(* early or too late in cache_we, or a dirty bit lost on a write hit,      *)
(* leaves a clean line that no write-back will ever repair.                *)
CleanLinesAgree ==
  \A i \in Indexes :
    (tag_sram[i].valid /\ ~tag_sram[i].dirty)
      => memory[<<tag_sram[i].tag, i>>] = data_sram[i]

(* When the controller has gone on to fetch the missed line, a dirty       *)
(* victim is already in memory: the fill that overwrites it loses nothing, *)
(* whatever resets came between the write-back and the fill.               *)
VictimSaved ==
  (state \in {"READMISS", "READMISSOK"} /\ sram_dirty)
    => memory[VictimLine] = data_sram[p1.index]

(* The line about to be put into the SRAM is the requested one: not the    *)
(* line last written back, and not an answer left over from before a reset.*)
FillIsRequestedLine ==
  (cache_we /\ ~hit) => data = memory[p1_line]

(* The two controllers are always in phase: each registered wire is up in  *)
(* exactly the states that drive it, the memory works only while the cache *)
(* asks, and the cache is away from IDLE only on behalf of a request that  *)
(* still stalls.                                                           *)
ControllersInPhase ==
  /\ cache_we <=> state = "READMISSOK"
  /\ write_back <=> state = "WRITEBACK"
  /\ mem_write <=> state = "WRITEBACK"
  /\ mem_enable <=> state \in {"READMISS", "WRITEBACK"}
  /\ ok <=> mem_state = "ACK"
  /\ ack <=> mem_state = "FINISH"
  /\ mem_state # "IDLE" => mem_enable
  /\ state # "IDLE" => p1_stall_o

(* A line is dirty only if it is valid, and is written back only if dirty. *)
OnlyDirtyWrittenBack ==
  /\ \A i \in Indexes : tag_sram[i].dirty => tag_sram[i].valid
  /\ write_back => sram_dirty

(* An acknowledged transfer has been made: the victim is in memory, or the *)
(* requested line is in the data register.                                 *)
AckMeansDone ==
  ack => IF write_back THEN memory[VictimLine] = data_sram[p1.index]
                       ELSE data = memory[p1_line]

(* What the read block leaves: the word that is asked for, or the zero of  *)
(* a miss, which can outlast the miss only when the line of the cache is   *)
(* the line the memory sent last.                                          *)
WordOrZero ==
  \/ p1_data = r_hit_data[p1.offset]
  \/ p1_data = Zero /\ r_hit_data = data

(* The inductive invariant: the conjuncts above hold together or not at    *)
(* all, because each handshake step relies on the one before it.           *)
IndInv ==
  /\ TypeOK
  /\ ControllersInPhase
  /\ OnlyDirtyWrittenBack
  /\ AckMeansDone
  /\ CleanLinesAgree
  /\ VictimSaved
  /\ FillIsRequestedLine
  /\ WordOrZero

(* The bus protocol: while Data_Memory counts or transfers, the cache      *)
(* changes neither the address, nor the direction, nor the line it drives. *)
(* Only a reset breaks a transfer off.                                     *)
BusHeldDuringTransfer ==
  [][(mem_state \in {"WAIT", "ACK"} /\ ~Reset)
       => /\ mem_enable /\ mem_enable'
          /\ UNCHANGED <<mem_write, mem_addr_o, sram_cache_data>>]_vars

(* What the program sees as memory: the valid lines of the cache laid over *)
(* the memory.                                                             *)
Contents ==
  [a \in LineAddrs |->
     IF tag_sram[a[2]].valid /\ tag_sram[a[2]].tag = a[1]
       THEN data_sram[a[2]]
       ELSE memory[a]]

Flat == INSTANCE FlatMemory WITH
          contents <- Contents, request <- p1,
          stall <- p1_stall_o, rdata <- p1_data_o

(* dcache_top.v:176, read miss = read miss + read hit: when the stall ends *)
(* the load sees the word of the line, whichever way it got there.         *)
ReadMissIsReadHit ==
  (p1.op = "read" /\ ~p1_stall_o) => p1_data_o = sram_cache_data[p1.offset]

(* Cache and memory together behave as a flat memory that sometimes stalls:*)
(* no store is lost and a load returns the last one or, for the fault that *)
(* ReadMissIsReadHit is about, zero, but never another word: across misses,*)
(* hits, write-backs and resets.                                           *)
ImplementsFlatMemory == Flat!Spec

(* A stalled pipeline gets going again, unless resets keep coming: every   *)
(* miss ends, the handshake between the two controllers never wedges.      *)
StallEnds == []<>~p1_stall_o \/ []<><<Reset>>_vars
===========================================================================

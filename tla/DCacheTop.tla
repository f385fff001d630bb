----------------------------- MODULE DCacheTop -----------------------------
(***************************************************************************)
(* CA/project2/code/dcache_top.v and its two SRAMs: a direct-mapped,       *)
(* write-back, write-allocate data cache.  Wires are operators of the same *)
(* name; CacheEdge is the effect of one positive clock edge.               *)
(*                                                                         *)
(* p1 is the request on the CPU side, the EX_MEM pipeline register that    *)
(* drives p1_addr_i, p1_data_i, p1_MemRead_i and p1_MemWrite_i.  It is     *)
(* frozen while p1_stall_o is up.                                          *)
(***************************************************************************)
EXTENDS CacheGeometry

VARIABLES
  state,
  mem_enable, mem_write, cache_we, write_back,
  tag_sram,      \* dcache_tag_sram.memory: {valid, dirty, tag}
  data_sram,     \* dcache_data_sram.memory
  p1,
  p1_data        \* a reg, although it is meant as a wire

cacheVars == <<state, mem_enable, mem_write, cache_we, write_back,
               tag_sram, data_sram, p1, p1_data>>

TagEntries == [valid : BOOLEAN, dirty : BOOLEAN, tag : Tags]

ZeroLine   == [o \in Offsets |-> Zero]
ZeroEntry  == [valid |-> FALSE, dirty |-> FALSE, tag |-> ZeroTag]

CacheTypeOK ==
  /\ state \in {"IDLE", "READMISS", "READMISSOK", "WRITEBACK", "MISS"}
  /\ mem_enable \in BOOLEAN
  /\ mem_write \in BOOLEAN
  /\ cache_we \in BOOLEAN
  /\ write_back \in BOOLEAN
  /\ tag_sram \in [Indexes -> TagEntries]
  /\ data_sram \in [Indexes -> Lines]
  /\ p1 \in Requests
  /\ p1_data \in Words
----------------------------------------------------------------------------
(* Combinational logic.  A disabled SRAM outputs zero. *)

p1_req == p1.op # "none"

sram_cache_tag  == IF p1_req THEN tag_sram[p1.index] ELSE ZeroEntry
sram_cache_data == IF p1_req THEN data_sram[p1.index] ELSE ZeroLine

sram_tag   == sram_cache_tag.tag
sram_dirty == sram_cache_tag.dirty

(* Operators named ...Mutant are plausible slips in the wire or step that  *)
(* follows them.  No specification uses them; they show that the           *)
(* properties notice.                                                      *)
hit        == sram_tag = p1.tag /\ sram_cache_tag.valid

write_hit         == hit /\ p1.op = "write"
cache_dirtyMutant == FALSE
cache_dirty       == write_hit

p1_stall_oMutant == ~hit /\ p1.op = "read"
p1_stall_o       == ~hit /\ p1_req
p1_data_o        == p1_data

w_hit_dataMutant == [o \in Offsets |-> p1.data]
w_hit_data       == [sram_cache_data EXCEPT ![p1.offset] = p1.data]

p1_line            == <<p1.tag, p1.index>>
mem_addr_oMutant   == p1_line                  \* write-back to the wrong line
mem_addr_oMutant2  == <<sram_tag, p1.index>>   \* fetch of the wrong line
mem_addr_o == IF write_back THEN <<sram_tag, p1.index>> ELSE p1_line
----------------------------------------------------------------------------
CacheReset ==
  /\ state' = "IDLE"
  /\ mem_enable' = FALSE
  /\ mem_write' = FALSE
  /\ cache_we' = FALSE
  /\ write_back' = FALSE
  /\ UNCHANGED <<tag_sram, data_sram, p1, p1_data>>

IdleStep ==
  /\ state = "IDLE"
  /\ state' = IF p1_req /\ ~hit THEN "MISS" ELSE "IDLE"
  /\ UNCHANGED <<mem_enable, mem_write, cache_we, write_back>>

MissStepMutant ==      \* the line marked "!!! add" in the code left out
  /\ state = "MISS"
  /\ mem_write' = sram_dirty
  /\ write_back' = sram_dirty
  /\ state' = IF sram_dirty THEN "WRITEBACK" ELSE "READMISS"
  /\ UNCHANGED <<mem_enable, cache_we>>

MissStep ==
  /\ state = "MISS"
  /\ mem_enable' = TRUE
  /\ mem_write' = sram_dirty
  /\ write_back' = sram_dirty
  /\ state' = IF sram_dirty THEN "WRITEBACK" ELSE "READMISS"
  /\ UNCHANGED cache_we

ReadMissStep(mem_ack_i) ==
  /\ state = "READMISS"
  /\ IF mem_ack_i
       THEN mem_enable' = FALSE /\ cache_we' = TRUE /\ state' = "READMISSOK"
       ELSE UNCHANGED <<mem_enable, cache_we, state>>
  /\ UNCHANGED <<mem_write, write_back>>

ReadMissOkStep ==
  /\ state = "READMISSOK"
  /\ cache_we' = FALSE
  /\ state' = "IDLE"
  /\ UNCHANGED <<mem_enable, mem_write, write_back>>

WriteBackStep(mem_ack_i) ==
  /\ state = "WRITEBACK"
  /\ IF mem_ack_i
       THEN mem_write' = FALSE /\ write_back' = FALSE /\ state' = "READMISS"
       ELSE UNCHANGED <<mem_write, write_back, state>>
  /\ UNCHANGED <<mem_enable, cache_we>>

Controller(mem_ack_i) ==
  \/ IdleStep
  \/ MissStep
  \/ ReadMissStep(mem_ack_i)
  \/ ReadMissOkStep
  \/ WriteBackStep(mem_ack_i)

(* The enabled and written SRAM entry: a filled line comes in clean, a     *)
(* write hit makes its line dirty.                                         *)
SramEdge(mem_data_i) ==
  IF p1_req /\ (cache_we \/ write_hit)
    THEN /\ tag_sram' = [tag_sram EXCEPT ![p1.index] =
                           [valid |-> TRUE, dirty |-> cache_dirty, tag |-> p1.tag]]
         /\ data_sram' = [data_sram EXCEPT ![p1.index] =
                           IF hit THEN w_hit_data ELSE mem_data_i]
    ELSE UNCHANGED <<tag_sram, data_sram>>

(* EX_MEM takes the next instruction unless the cache stalls the pipeline. *)
RequestEdge ==
  IF p1_stall_o THEN UNCHANGED p1 ELSE p1' \in Requests

CacheEdge(mem_data_i, mem_ack_i) ==
  /\ Controller(mem_ack_i)
  /\ SramEdge(mem_data_i)
  /\ RequestEdge
============================================================================

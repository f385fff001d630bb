------------------------- MODULE CachedMemoryProofs -------------------------
(***************************************************************************)
(* Proofs about the data cache and its memory, for any number of lines,    *)
(* tags, words per line and word values, and any latency.                  *)
(***************************************************************************)
EXTENDS FlushedMemory, TLAPS

(* The wires of dcache_top.v carry values of their types. *)
LEMMA WireTypes ==
  ASSUME TypeOK
  PROVE  /\ sram_tag \in Tags
         /\ sram_dirty \in BOOLEAN
         /\ sram_cache_data \in Lines
         /\ mem_addr_o \in LineAddrs
         /\ p1_line \in LineAddrs
         /\ p1.tag \in Tags /\ p1.index \in Indexes
         /\ p1.offset \in Offsets /\ p1.data \in Words
         /\ hit \in BOOLEAN
         /\ w_hit_data \in Lines
         /\ p1_stall_o \in BOOLEAN
<1> USE ZeroAssumption DEF TypeOK, CacheTypeOK, Requests
<1>1. sram_cache_tag \in TagEntries
  BY DEF sram_cache_tag, ZeroEntry, TagEntries
<1>2. sram_cache_data \in Lines
  BY DEF sram_cache_data, ZeroLine, Lines
<1>3. w_hit_data \in Lines
  BY <1>2 DEF w_hit_data, Lines
<1>4. sram_tag \in Tags /\ sram_dirty \in BOOLEAN
  BY <1>1 DEF sram_tag, sram_dirty, TagEntries
<1>5. hit \in BOOLEAN /\ p1_stall_o \in BOOLEAN
  BY DEF hit, p1_stall_o
<1> QED
  BY <1>2, <1>3, <1>4, <1>5 DEF mem_addr_o, p1_line, LineAddrs

(* The initial state satisfies the inductive invariant: the caches start   *)
(* empty, so nothing is dirty and nothing is claimed to agree.             *)
LEMMA InitIndInv == Init => IndInv
<1> SUFFICES ASSUME Init PROVE IndInv
  OBVIOUS
<1>1. TypeOK
  <2>1. MemoryTypeOK
    <3>1. count \in 0..15
      BY DEF Init
    <3> QED BY <3>1 DEF Init, MemoryTypeOK
  <2>2. CacheTypeOK
    BY ZeroAssumption
    DEF Init, CacheTypeOK, TagEntries, ZeroEntry, ZeroLine, Lines
  <2> QED BY <2>1, <2>2 DEF TypeOK
<1>2. \A i \in Indexes : ~tag_sram[i].valid /\ ~tag_sram[i].dirty
  BY DEF Init, ZeroEntry
<1>3. WordOrZero
  BY DEF Init, WordOrZero, r_hit_data, hit, sram_cache_tag, p1_req, ZeroEntry
<1> QED
  BY <1>1, <1>2, <1>3 DEF Init, IndInv, ControllersInPhase, OnlyDirtyWrittenBack,
     AckMeansDone, CleanLinesAgree, VictimSaved, FillIsRequestedLine

(* One clock edge keeps every register and array in its type. *)
LEMMA ClockTypeOK == ASSUME TypeOK, Clock PROVE TypeOK'
<1>1. /\ Controller(ack) /\ SramEdge(data) /\ RequestEdge
      /\ MemoryController(mem_enable)
      /\ ReadData(mem_write, mem_addr_o)
      /\ WriteData(mem_write, mem_addr_o, sram_cache_data)
  BY DEF Clock, CacheEdge, MemoryEdge
<1>2. MemoryTypeOK'
  <2>1. count' \in 0..15
    BY <1>1 DEF MemoryController, TypeOK, MemoryTypeOK
  <2>2. ack' \in BOOLEAN /\ ok' \in BOOLEAN
        /\ mem_state' \in {"IDLE", "WAIT", "ACK", "FINISH"}
    BY <1>1, Zenon DEF MemoryController, TypeOK, MemoryTypeOK
  <2>3. memory' \in [LineAddrs -> Lines] /\ data' \in Lines
    BY <1>1, WireTypes DEF ReadData, WriteData, TypeOK, MemoryTypeOK
  <2> QED BY <2>1, <2>2, <2>3 DEF MemoryTypeOK
<1>3. CacheTypeOK'
  <2>1. /\ state' \in {"IDLE", "READMISS", "READMISSOK", "WRITEBACK", "MISS"}
        /\ mem_enable' \in BOOLEAN /\ mem_write' \in BOOLEAN
        /\ cache_we' \in BOOLEAN /\ write_back' \in BOOLEAN
    BY <1>1, WireTypes DEF Controller, IdleStep, MissStep, ReadMissStep,
       ReadMissOkStep, WriteBackStep, TypeOK, CacheTypeOK
  <2>2. tag_sram' \in [Indexes -> TagEntries]
    <3>1. cache_dirty \in BOOLEAN
      BY WireTypes DEF cache_dirty, write_hit
    <3>2. [valid |-> TRUE, dirty |-> cache_dirty, tag |-> p1.tag] \in TagEntries
      BY <3>1, WireTypes DEF TagEntries
    <3> QED BY <1>1, <3>2 DEF SramEdge, TypeOK, CacheTypeOK
  <2>3. data_sram' \in [Indexes -> Lines]
    BY <1>1, WireTypes DEF SramEdge, TypeOK, CacheTypeOK, MemoryTypeOK
  <2>4. p1' \in Requests
    BY <1>1 DEF RequestEdge, TypeOK, CacheTypeOK
  <2>5. p1_data' \in Words
    <3>1. data' \in Lines
      BY <1>2 DEF MemoryTypeOK
    <3>2. sram_cache_data' \in Lines
      BY <2>3, <2>4, ZeroAssumption DEF sram_cache_data, ZeroLine, Lines, Requests
    <3>3. r_hit_data' \in [Offsets -> Words]
      BY <3>1, <3>2 DEF r_hit_data, Lines
    <3>4. r_hit_data'[p1'.offset] \in Words
      BY <3>3, <2>4 DEF Requests
    <3> QED
      BY <3>4, ZeroAssumption DEF Clock, SelectWord, TypeOK, CacheTypeOK
  <2> QED BY <2>1, <2>2, <2>3, <2>4, <2>5 DEF CacheTypeOK
<1> QED BY <1>2, <1>3 DEF TypeOK

(* A reset loads constants of the right types and keeps the arrays. *)
LEMMA ResetTypeOK == ASSUME TypeOK, Reset PROVE TypeOK'
<1>1. count' \in 0..15
  BY DEF Reset, MemoryReset
<1>2. MemoryTypeOK'
  BY <1>1 DEF TypeOK, Reset, MemoryReset, MemoryTypeOK
<1>3. CacheTypeOK'
  BY DEF TypeOK, Reset, CacheReset, CacheTypeOK
<1> QED BY <1>2, <1>3 DEF TypeOK

(* While the cache is away from IDLE the request stands, and the SRAMs are *)
(* written in READMISSOK only.                                             *)
LEMMA BusyCacheHolds ==
  ASSUME IndInv, Clock, state # "IDLE"
  PROVE  /\ p1' = p1
         /\ ~hit /\ p1_req
         /\ state # "READMISSOK" => UNCHANGED <<tag_sram, data_sram>>
<1>1. p1_stall_o
  BY DEF IndInv, ControllersInPhase
<1>2. ~hit /\ p1_req /\ ~write_hit
  BY <1>1 DEF p1_stall_o, write_hit
<1>3. state # "READMISSOK" => ~cache_we
  BY DEF IndInv, ControllersInPhase
<1> QED
  BY <1>1, <1>2, <1>3 DEF Clock, CacheEdge, RequestEdge, SramEdge

(* The wires depend on the request and the SRAMs only. *)
LEMMA WiresHold ==
  ASSUME UNCHANGED <<p1, tag_sram, data_sram>>
  PROVE  /\ p1_stall_o' = p1_stall_o
         /\ hit' = hit
         /\ sram_dirty' = sram_dirty
         /\ sram_cache_data' = sram_cache_data
         /\ VictimLine' = VictimLine
         /\ p1_line' = p1_line
  BY DEF p1_stall_o, hit, p1_req, sram_dirty, sram_tag, sram_cache_tag,
     sram_cache_data, VictimLine, p1_line

(* A memory that is not asked does nothing. *)
LEMMA IdleMemory ==
  ASSUME IndInv, Clock, ~mem_enable
  PROVE  /\ UNCHANGED <<memory, data>>
         /\ ~ok /\ ~ack /\ ~ok' /\ ~ack'
         /\ mem_state = "IDLE" /\ mem_state' = "IDLE"
<1>1. mem_state = "IDLE" /\ ~ok /\ ~ack
  BY Zenon DEF IndInv, ControllersInPhase
<1>2. UNCHANGED <<memory, data>>
  BY <1>1 DEF Clock, MemoryEdge, ReadData, WriteData
<1>3. mem_state' = "IDLE" /\ ok' = ok /\ ack' = ack
  BY <1>1, Zenon DEF Clock, MemoryEdge, MemoryController
<1> QED BY <1>1, <1>2, <1>3, Zenon

(* One edge of a memory that is asked. *)
LEMMA BusyMemory ==
  ASSUME IndInv, Clock, mem_enable
  PROVE  /\ ok' <=> mem_state' = "ACK"
         /\ ack' <=> mem_state' = "FINISH"
         /\ ack' => ok
         /\ ack => mem_state' = "IDLE"
         /\ ~ok => UNCHANGED <<memory, data>>
         /\ ok /\ mem_write =>
              /\ memory' = [memory EXCEPT ![mem_addr_o] = sram_cache_data]
              /\ UNCHANGED data
         /\ ok /\ ~mem_write => data' = memory[mem_addr_o] /\ UNCHANGED memory
<1>1. /\ MemoryController(mem_enable)
      /\ ReadData(mem_write, mem_addr_o)
      /\ WriteData(mem_write, mem_addr_o, sram_cache_data)
  BY DEF Clock, MemoryEdge
<1>2. /\ ok <=> mem_state = "ACK"
      /\ ack <=> mem_state = "FINISH"
  BY Zenon DEF IndInv, ControllersInPhase
<1>3. ~ok => UNCHANGED <<memory, data>>
  BY <1>1 DEF ReadData, WriteData
<1>4. ok /\ mem_write =>
        /\ memory' = [memory EXCEPT ![mem_addr_o] = sram_cache_data]
        /\ UNCHANGED data
  BY <1>1 DEF ReadData, WriteData
<1>5. ok /\ ~mem_write => data' = memory[mem_addr_o] /\ UNCHANGED memory
  BY <1>1 DEF ReadData, WriteData
<1>6. /\ ok' <=> mem_state' = "ACK"
      /\ ack' <=> mem_state' = "FINISH"
      /\ ack' => ok
      /\ ack => mem_state' = "IDLE"
  <2>1. ok' \in BOOLEAN /\ ack' \in BOOLEAN /\ ok \in BOOLEAN /\ ack \in BOOLEAN
    BY ClockTypeOK DEF IndInv, TypeOK, MemoryTypeOK
  <2> QED BY <1>1, <1>2, <2>1 DEF MemoryController
<1> QED BY <1>3, <1>4, <1>5, <1>6

(* The read block leaves the word or, for the line last sent, zero.        *)
LEMMA ClockKeepsWord == ASSUME WordOrZero, Clock PROVE WordOrZero'
<1>1. CASE Quiet /\ UNCHANGED p1_data
  BY <1>1 DEF Quiet, WordOrZero
<1>2. CASE ~(Quiet /\ UNCHANGED p1_data)
  BY <1>2 DEF Clock, SelectWord, WordOrZero
<1> QED BY <1>1, <1>2

(* IDLE: a hit is answered, and a write hit dirties its line, or a miss is *)
(* noticed.  The memory is not involved.                                   *)
LEMMA IdleKeepsIndInv ==
  ASSUME IndInv, Clock, IdleStep PROVE IndInv'
<1>1. TypeOK'
  BY ClockTypeOK DEF IndInv
<1>2. /\ ~mem_enable /\ ~mem_write /\ ~cache_we /\ ~write_back
      /\ UNCHANGED <<mem_enable, mem_write, cache_we, write_back>>
      /\ state' \in {"IDLE", "MISS"}
  BY Zenon DEF IndInv, ControllersInPhase, IdleStep
<1>3. /\ UNCHANGED <<memory, data>>
      /\ ~ok' /\ ~ack' /\ mem_state' = "IDLE"
  BY <1>2, IdleMemory
<1>4. state' = "MISS" => p1_stall_o'
  <2> SUFFICES ASSUME state' = "MISS" PROVE p1_stall_o'
    OBVIOUS
  <2>1. p1_req /\ ~hit
    BY DEF IdleStep
  <2>2. UNCHANGED <<p1, tag_sram, data_sram>>
    BY <1>2, <2>1 DEF Clock, CacheEdge, RequestEdge, SramEdge, p1_stall_o, write_hit
  <2> QED BY <2>1, <2>2, WiresHold DEF p1_stall_o
<1>5. ControllersInPhase'
  BY <1>2, <1>3, <1>4, Zenon DEF ControllersInPhase
<1>6. \/ UNCHANGED <<tag_sram, data_sram>>
      \/ /\ tag_sram' = [tag_sram EXCEPT ![p1.index] =
                           [valid |-> TRUE, dirty |-> TRUE, tag |-> p1.tag]]
         /\ data_sram' = [data_sram EXCEPT ![p1.index] = w_hit_data]
  <2>1. write_hit = TRUE \/ ~write_hit
    BY DEF write_hit
  <2> QED BY <1>2, <2>1 DEF Clock, CacheEdge, SramEdge, cache_dirty, write_hit
<1>7. OnlyDirtyWrittenBack'
  <2>1. ASSUME NEW i \in Indexes PROVE (tag_sram[i].dirty => tag_sram[i].valid)'
    BY <1>6 DEF IndInv, TypeOK, CacheTypeOK, OnlyDirtyWrittenBack
  <2> QED BY <1>2, <2>1 DEF OnlyDirtyWrittenBack
<1>8. CleanLinesAgree'
  BY <1>3, <1>6 DEF IndInv, TypeOK, CacheTypeOK, CleanLinesAgree
<1> QED
  BY <1>1, <1>2, <1>3, <1>5, <1>7, <1>8, ClockKeepsWord
  DEF IndInv, AckMeansDone, VictimSaved, FillIsRequestedLine

(* MISS: the bus is set up for the write-back of a dirty victim or for the *)
(* fetch of the requested line.                                            *)
LEMMA MissKeepsIndInv ==
  ASSUME IndInv, Clock, MissStep PROVE IndInv'
<1>1. TypeOK'
  BY ClockTypeOK DEF IndInv
<1>2. ~mem_enable /\ ~cache_we
  BY Zenon DEF IndInv, ControllersInPhase, MissStep
<1>3. UNCHANGED <<p1, tag_sram, data_sram>> /\ ~hit /\ p1_req
  BY BusyCacheHolds DEF MissStep
<1>4. /\ UNCHANGED <<memory, data>>
      /\ ~ok' /\ ~ack' /\ mem_state' = "IDLE"
  BY <1>2, IdleMemory
<1>5. p1_stall_o' /\ sram_dirty' = sram_dirty
  BY <1>3, WiresHold DEF p1_stall_o
<1>6. /\ mem_enable' /\ ~cache_we'
      /\ mem_write' <=> sram_dirty
      /\ write_back' <=> sram_dirty
      /\ state' = IF sram_dirty THEN "WRITEBACK" ELSE "READMISS"
  BY <1>2 DEF MissStep
<1>7. ControllersInPhase'
  BY <1>4, <1>5, <1>6, Zenon DEF ControllersInPhase
<1>8. OnlyDirtyWrittenBack' /\ CleanLinesAgree'
  BY <1>3, <1>4, <1>5, <1>6 DEF IndInv, OnlyDirtyWrittenBack, CleanLinesAgree
<1>9. VictimSaved' /\ FillIsRequestedLine' /\ AckMeansDone'
  BY <1>4, <1>5, <1>6 DEF VictimSaved, FillIsRequestedLine, AckMeansDone
<1> QED BY <1>1, <1>7, <1>8, <1>9, ClockKeepsWord DEF IndInv

(* READMISS: the memory fetches the requested line; its acknowledge means  *)
(* the line is in data, and the SRAM is written one edge later.            *)
LEMMA ReadMissKeepsIndInv ==
  ASSUME IndInv, Clock, ReadMissStep(ack) PROVE IndInv'
<1>1. TypeOK'
  BY ClockTypeOK DEF IndInv
<1>2. mem_enable /\ ~mem_write /\ ~cache_we /\ ~write_back
  BY Zenon DEF IndInv, ControllersInPhase, ReadMissStep
<1>3. UNCHANGED <<p1, tag_sram, data_sram>> /\ ~hit /\ p1_req
  BY BusyCacheHolds DEF ReadMissStep
<1>4. /\ p1_stall_o' /\ hit' = hit /\ sram_dirty' = sram_dirty
      /\ p1_line' = p1_line /\ VictimLine' = VictimLine
  BY <1>3, WiresHold DEF p1_stall_o
<1>5. UNCHANGED memory
  BY <1>2, BusyMemory
<1>6. ~write_back' /\ ~mem_write'
  BY <1>2 DEF ReadMissStep
<1>7. ControllersInPhase'
  <2>1. (ok' <=> mem_state' = "ACK") /\ (ack' <=> mem_state' = "FINISH")
        /\ (ack => mem_state' = "IDLE")
    BY <1>2, BusyMemory
  <2>2. CASE ack
    BY <1>4, <1>6, <2>1, <2>2, Zenon DEF ReadMissStep, ControllersInPhase
  <2>3. CASE ~ack
    BY <1>2, <1>4, <1>6, <2>1, <2>3, Zenon DEF ReadMissStep, ControllersInPhase
  <2> QED BY <2>2, <2>3
<1>8. OnlyDirtyWrittenBack' /\ CleanLinesAgree'
  BY <1>3, <1>5, <1>6 DEF IndInv, OnlyDirtyWrittenBack, CleanLinesAgree
<1>9. VictimSaved'
  BY <1>3, <1>4, <1>5 DEF IndInv, VictimSaved, ReadMissStep
<1>10. ack => data = memory[p1_line] /\ UNCHANGED data
  <2> SUFFICES ASSUME ack PROVE data = memory[p1_line] /\ UNCHANGED data
    OBVIOUS
  <2>1. ~ok
    BY Zenon DEF IndInv, ControllersInPhase
  <2> QED BY <1>2, <2>1, BusyMemory DEF IndInv, AckMeansDone
<1>11. ack' => data' = memory'[p1_line']
  <2>1. ok => data' = memory[p1_line]
    BY <1>2, BusyMemory DEF mem_addr_o
  <2> QED BY <1>2, <1>4, <1>5, <2>1, BusyMemory
<1>12. AckMeansDone' /\ FillIsRequestedLine'
  <2>1. cache_we' => ack
    BY <1>2 DEF ReadMissStep
  <2> QED
    BY <1>4, <1>5, <1>6, <1>10, <1>11, <2>1 DEF AckMeansDone, FillIsRequestedLine
<1> QED BY <1>1, <1>7, <1>8, <1>9, <1>12, ClockKeepsWord DEF IndInv

(* READMISSOK: the line in data replaces the victim, clean, and the        *)
(* request hits from the next cycle on.                                    *)
LEMMA ReadMissOkKeepsIndInv ==
  ASSUME IndInv, Clock, ReadMissOkStep PROVE IndInv'
<1>1. TypeOK'
  BY ClockTypeOK DEF IndInv
<1>2. cache_we /\ ~mem_enable /\ ~mem_write /\ ~write_back
  BY Zenon DEF IndInv, ControllersInPhase, ReadMissOkStep
<1>3. p1' = p1 /\ ~hit /\ p1_req
  BY BusyCacheHolds DEF ReadMissOkStep
<1>4. /\ UNCHANGED <<memory, data>>
      /\ ~ok' /\ ~ack' /\ mem_state' = "IDLE"
  BY <1>2, IdleMemory
<1>5. /\ ~cache_we' /\ ~mem_enable' /\ ~mem_write' /\ ~write_back'
      /\ state' = "IDLE"
  BY <1>2 DEF ReadMissOkStep
<1>6. ControllersInPhase'
  BY <1>4, <1>5, Zenon DEF ControllersInPhase
<1>7. /\ tag_sram' = [tag_sram EXCEPT ![p1.index] =
                        [valid |-> TRUE, dirty |-> FALSE, tag |-> p1.tag]]
      /\ data_sram' = [data_sram EXCEPT ![p1.index] = data]
  <2>1. write_hit = FALSE
    BY <1>3 DEF write_hit
  <2> QED BY <1>2, <1>3, <2>1 DEF Clock, CacheEdge, SramEdge, cache_dirty
<1>8. data = memory[p1_line]
  BY <1>2, <1>3 DEF IndInv, FillIsRequestedLine
<1>9. OnlyDirtyWrittenBack'
  BY <1>5, <1>7 DEF IndInv, TypeOK, CacheTypeOK, OnlyDirtyWrittenBack
<1>10. CleanLinesAgree'
  BY <1>4, <1>7, <1>8 DEF IndInv, TypeOK, CacheTypeOK, CleanLinesAgree, p1_line
<1> QED
  BY <1>1, <1>4, <1>5, <1>6, <1>9, <1>10, ClockKeepsWord
  DEF IndInv, AckMeansDone, VictimSaved, FillIsRequestedLine

(* WRITEBACK: the memory takes the victim; no other line of it changes.    *)
LEMMA WriteBackKeepsIndInv ==
  ASSUME IndInv, Clock, WriteBackStep(ack) PROVE IndInv'
<1>1. TypeOK'
  BY ClockTypeOK DEF IndInv
<1>2. mem_enable /\ mem_write /\ ~cache_we /\ write_back
  BY Zenon DEF IndInv, ControllersInPhase, WriteBackStep
<1>3. UNCHANGED <<p1, tag_sram, data_sram>> /\ ~hit /\ p1_req
  BY BusyCacheHolds DEF WriteBackStep
<1>4. /\ p1_stall_o' /\ hit' = hit /\ sram_dirty' = sram_dirty
      /\ VictimLine' = VictimLine /\ data_sram'[p1.index'] = data_sram[p1.index]
  BY <1>3, WiresHold DEF p1_stall_o
<1>5. mem_addr_o = VictimLine /\ sram_cache_data = data_sram[p1.index]
  BY <1>2, <1>3 DEF mem_addr_o, VictimLine, sram_cache_data
<1>6. VictimLine \in LineAddrs
  BY WireTypes DEF IndInv, TypeOK, CacheTypeOK, VictimLine, LineAddrs
<1>7. memory' = memory \/ memory' = [memory EXCEPT ![VictimLine] = data_sram[p1.index]]
  BY <1>2, <1>5, BusyMemory
<1>8. sram_dirty
  BY <1>2 DEF IndInv, OnlyDirtyWrittenBack
<1>9. mem_enable' /\ ~cache_we'
  BY <1>2 DEF WriteBackStep
<1>10. ControllersInPhase'
  <2>1. (ok' <=> mem_state' = "ACK") /\ (ack' <=> mem_state' = "FINISH")
    BY <1>2, BusyMemory
  <2>2. CASE ack
    BY <1>4, <1>9, <2>1, <2>2, Zenon DEF WriteBackStep, ControllersInPhase
  <2>3. CASE ~ack
    BY <1>2, <1>4, <1>9, <2>1, <2>3, Zenon DEF WriteBackStep, ControllersInPhase
  <2> QED BY <2>2, <2>3
<1>11. OnlyDirtyWrittenBack'
  BY <1>3, <1>4, <1>8 DEF IndInv, OnlyDirtyWrittenBack
<1>12. CleanLinesAgree'
  <2> SUFFICES ASSUME NEW i \in Indexes,
                      tag_sram[i].valid /\ ~tag_sram[i].dirty
               PROVE  memory'[<<tag_sram[i].tag, i>>] = data_sram[i]
    BY <1>3 DEF CleanLinesAgree
  <2>1. i # p1.index
    BY <1>3, <1>8 DEF sram_dirty, sram_cache_tag
  <2>2. <<tag_sram[i].tag, i>> # VictimLine
    BY <2>1 DEF VictimLine
  <2>3. <<tag_sram[i].tag, i>> \in LineAddrs
    BY DEF IndInv, TypeOK, CacheTypeOK, TagEntries, LineAddrs
  <2>4. memory[<<tag_sram[i].tag, i>>] = data_sram[i]
    BY DEF IndInv, CleanLinesAgree
  <2> QED
    BY <1>6, <1>7, <2>2, <2>3, <2>4 DEF IndInv, TypeOK, MemoryTypeOK
<1>13. ack' => memory'[VictimLine] = data_sram[p1.index]
  BY <1>2, <1>5, <1>6, BusyMemory DEF IndInv, TypeOK, MemoryTypeOK
<1>14. ack => memory'[VictimLine] = data_sram[p1.index]
  <2> SUFFICES ASSUME ack PROVE memory'[VictimLine] = data_sram[p1.index]
    OBVIOUS
  <2>1. ~ok
    BY Zenon DEF IndInv, ControllersInPhase
  <2> QED BY <1>2, <2>1, BusyMemory DEF IndInv, AckMeansDone
<1>15. VictimSaved' /\ FillIsRequestedLine'
  <2>1. state' \in {"READMISS", "READMISSOK"} => ack
    BY DEF WriteBackStep
  <2> QED BY <1>4, <1>9, <1>14, <2>1 DEF VictimSaved, FillIsRequestedLine
<1>16. AckMeansDone'
  <2>1. ack' => ~ack
    <3>1. ack' => ok
      BY <1>2, BusyMemory
    <3> QED BY <3>1, Zenon DEF IndInv, ControllersInPhase
  <2>2. ack' => write_back'
    BY <1>2, <2>1 DEF WriteBackStep
  <2> QED BY <1>4, <1>13, <2>2 DEF AckMeansDone
<1> QED BY <1>1, <1>10, <1>11, <1>12, <1>15, <1>16, ClockKeepsWord DEF IndInv

(* A reset between any two edges leaves both controllers idle and touches  *)
(* no array, so a transfer that was under way is simply asked for again.   *)
LEMMA ResetKeepsIndInv == ASSUME IndInv, Reset PROVE IndInv'
<1>1. TypeOK'
  BY ResetTypeOK DEF IndInv
<1>2. ControllersInPhase'
  BY Zenon DEF Reset, CacheReset, MemoryReset, ControllersInPhase
<1>3. OnlyDirtyWrittenBack' /\ CleanLinesAgree'
  BY DEF IndInv, Reset, CacheReset, MemoryReset, OnlyDirtyWrittenBack, CleanLinesAgree
<1>4. VictimSaved' /\ FillIsRequestedLine' /\ AckMeansDone'
  BY DEF Reset, CacheReset, MemoryReset, VictimSaved, FillIsRequestedLine, AckMeansDone
<1>5. WordOrZero'
  <2>1. UNCHANGED <<p1, tag_sram, data_sram, data, p1_data>>
    BY DEF Reset, CacheReset, MemoryReset
  <2> QED BY <2>1, WiresHold DEF IndInv, WordOrZero, r_hit_data
<1> QED BY <1>1, <1>2, <1>3, <1>4, <1>5 DEF IndInv

LEMMA NextKeepsIndInv == IndInv /\ [Next]_vars => IndInv'
<1> SUFFICES ASSUME IndInv, [Next]_vars PROVE IndInv'
  OBVIOUS
<1>1. CASE Clock
  BY <1>1, IdleKeepsIndInv, MissKeepsIndInv, ReadMissKeepsIndInv,
     ReadMissOkKeepsIndInv, WriteBackKeepsIndInv
  DEF Clock, CacheEdge, Controller
<1>2. CASE Reset
  BY <1>2, ResetKeepsIndInv
<1>3. CASE UNCHANGED vars
  <2>1. UNCHANGED <<memory, count, ack, ok, data, mem_state, state, mem_enable,
                    mem_write, cache_we, write_back, tag_sram, data_sram, p1, p1_data>>
    BY <1>3 DEF vars, memoryVars, cacheVars
  <2>2. UNCHANGED <<p1_stall_o, hit, sram_dirty, VictimLine, p1_line>>
    BY <2>1, WiresHold
  <2>3. TypeOK'
    BY <2>1 DEF IndInv, TypeOK, MemoryTypeOK, CacheTypeOK
  <2>4. ControllersInPhase'
    BY <2>1, <2>2 DEF IndInv, ControllersInPhase
  <2>5. OnlyDirtyWrittenBack' /\ CleanLinesAgree'
    BY <2>1, <2>2 DEF IndInv, OnlyDirtyWrittenBack, CleanLinesAgree
  <2>6. VictimSaved' /\ FillIsRequestedLine' /\ AckMeansDone'
    BY <2>1, <2>2 DEF IndInv, VictimSaved, FillIsRequestedLine, AckMeansDone
  <2>7. WordOrZero'
    BY <2>1, WiresHold DEF IndInv, WordOrZero, r_hit_data
  <2> QED BY <2>3, <2>4, <2>5, <2>6, <2>7 DEF IndInv
<1> QED BY <1>1, <1>2, <1>3 DEF Next

(* Every reachable state of the cache and its memory satisfies the         *)
(* invariant: clean lines agree with memory, a dirty victim is in memory   *)
(* before its line is refilled, and the refill is the requested line, for  *)
(* any geometry, latency and sequence of requests and resets.              *)
THEOREM CacheInvariant == Spec => []IndInv
<1> QED BY InitIndInv, NextKeepsIndInv, PTL DEF Spec

(* Type correctness, the weakest part of the invariant. *)
THEOREM CacheTypes == Spec => []TypeOK
<1>1. IndInv => TypeOK
  BY DEF IndInv
<1> QED BY <1>1, CacheInvariant, PTL
----------------------------------------------------------------------------
(* Refinement: what the pipeline sees is a flat memory.                    *)

LEMMA ContentsType == IndInv => Contents \in [LineAddrs -> Lines]
<1> SUFFICES ASSUME IndInv, NEW a \in LineAddrs
             PROVE  (IF tag_sram[a[2]].valid /\ tag_sram[a[2]].tag = a[1]
                       THEN data_sram[a[2]] ELSE memory[a]) \in Lines
  BY DEF Contents
<1>1. a[2] \in Indexes
  BY DEF LineAddrs
<1> QED
  BY <1>1 DEF IndInv, TypeOK, MemoryTypeOK, CacheTypeOK

(* In every state the answer on the CPU side is one the flat memory may    *)
(* give: a hit shows the current word.                                     *)
LEMMA AnswerIsRight ==
  IndInv => Flat!Answer(Contents, p1, p1_stall_o, p1_data_o)
<1> SUFFICES ASSUME IndInv
             PROVE  Flat!Answer(Contents, p1, p1_stall_o, p1_data_o)
  OBVIOUS
<1>1. p1.tag \in Tags /\ p1.index \in Indexes /\ p1.offset \in Offsets
      /\ sram_cache_data \in Lines /\ p1_stall_o \in BOOLEAN
  BY WireTypes DEF IndInv
<1>2. p1_data_o \in Words
  BY DEF IndInv, TypeOK, CacheTypeOK, p1_data_o
<1>3. p1_stall_o => p1.op # "none"
  BY DEF p1_stall_o, p1_req
<1>4. (p1.op = "read" /\ ~p1_stall_o)
        => p1_data_o \in {Contents[<<p1.tag, p1.index>>][p1.offset], Zero}
  <2> SUFFICES ASSUME p1.op = "read", ~p1_stall_o
               PROVE  p1_data_o \in {Contents[<<p1.tag, p1.index>>][p1.offset], Zero}
    OBVIOUS
  <2>1. p1_req /\ hit
    BY DEF p1_req, p1_stall_o
  <2>2. /\ tag_sram[p1.index].valid /\ tag_sram[p1.index].tag = p1.tag
        /\ p1_data_o \in {data_sram[p1.index][p1.offset], Zero}
    BY <2>1 DEF hit, sram_tag, sram_cache_tag, sram_cache_data, p1_data_o, IndInv,
       WordOrZero, r_hit_data
  <2>3. <<p1.tag, p1.index>> \in LineAddrs
    BY <1>1 DEF LineAddrs
  <2> QED BY <2>2, <2>3 DEF Contents
<1> QED BY <1>1, <1>2, <1>3, <1>4 DEF Flat!Answer, Flat!WordAt

(* A store that hits changes the program's memory in one word. *)
LEMMA WriteHitStores ==
  ASSUME IndInv, Clock, write_hit
  PROVE  Contents' = Flat!Store(Contents, p1)
<1>1. hit /\ p1_req /\ p1.op = "write"
  BY DEF write_hit, p1_req
<1>2. state = "IDLE"
  BY <1>1 DEF IndInv, ControllersInPhase, p1_stall_o
<1>3. UNCHANGED memory
  BY <1>2, IdleMemory, Zenon DEF IndInv, ControllersInPhase
<1>4. /\ tag_sram[p1.index].valid /\ tag_sram[p1.index].tag = p1.tag
      /\ sram_cache_data = data_sram[p1.index]
  BY <1>1 DEF hit, sram_tag, sram_cache_tag, sram_cache_data
<1>5. /\ tag_sram' = [tag_sram EXCEPT ![p1.index] =
                        [valid |-> TRUE, dirty |-> cache_dirty, tag |-> p1.tag]]
      /\ data_sram' = [data_sram EXCEPT ![p1.index] =
                        [data_sram[p1.index] EXCEPT ![p1.offset] = p1.data]]
  BY <1>1, <1>4 DEF Clock, CacheEdge, SramEdge, w_hit_data
<1>6. p1.tag \in Tags /\ p1.index \in Indexes
  BY WireTypes DEF IndInv
<1>7. p1_line \in LineAddrs
      /\ Contents[p1_line] = data_sram[p1.index]
  BY <1>4, <1>6 DEF p1_line, LineAddrs, Contents
<1>8. ASSUME NEW a \in LineAddrs
      PROVE  (IF tag_sram'[a[2]].valid /\ tag_sram'[a[2]].tag = a[1]
                THEN data_sram'[a[2]] ELSE memory'[a])
             = IF a = p1_line
                 THEN [data_sram[p1.index] EXCEPT ![p1.offset] = p1.data]
                 ELSE Contents[a]
  <2>1. a[1] \in Tags /\ a[2] \in Indexes /\ a = <<a[1], a[2]>>
    BY DEF LineAddrs
  <2>2. CASE a[2] = p1.index
    BY <1>3, <1>4, <1>5, <2>1, <2>2
    DEF IndInv, TypeOK, CacheTypeOK, Contents, p1_line
  <2>3. CASE a[2] # p1.index
    <3>1. a # p1_line
      BY <2>3 DEF p1_line
    <3>2. tag_sram'[a[2]] = tag_sram[a[2]] /\ data_sram'[a[2]] = data_sram[a[2]]
      BY <1>5, <2>1, <2>3 DEF IndInv, TypeOK, CacheTypeOK
    <3> QED BY <1>3, <3>1, <3>2 DEF Contents
  <2> QED BY <2>2, <2>3
<1>9. Contents' = [a \in LineAddrs |-> IF a = p1_line
                     THEN [data_sram[p1.index] EXCEPT ![p1.offset] = p1.data]
                     ELSE Contents[a]]
  BY <1>8 DEF Contents
<1>10. Flat!Store(Contents, p1) =
         [Contents EXCEPT ![p1_line] =
            [Contents[p1_line] EXCEPT ![p1.offset] = p1.data]]
  BY DEF Flat!Store, p1_line
<1> QED BY <1>7, <1>9, <1>10, ContentsType

(* Every other edge leaves the program's memory alone.  The two cases that *)
(* need the invariant are the write-back, which stores what the cache      *)
(* already shows, and the fill, which uncovers the victim in memory and    *)
(* covers the requested line with an equal copy.                           *)
LEMMA OtherEdgesKeepContents ==
  ASSUME IndInv, Clock, ~write_hit
  PROVE  Contents' = Contents
<1>1. CASE state = "READMISSOK"
  <2>1. cache_we /\ ~mem_enable
    BY <1>1, Zenon DEF IndInv, ControllersInPhase
  <2>2. UNCHANGED memory
    BY <2>1, IdleMemory
  <2>3. ~hit /\ p1_req
    BY <1>1, BusyCacheHolds
  <2>4. data = memory[p1_line]
    BY <2>1, <2>3 DEF IndInv, FillIsRequestedLine
  <2>5. /\ tag_sram' = [tag_sram EXCEPT ![p1.index] =
                          [valid |-> TRUE, dirty |-> cache_dirty, tag |-> p1.tag]]
        /\ data_sram' = [data_sram EXCEPT ![p1.index] = data]
    BY <2>1, <2>3 DEF Clock, CacheEdge, SramEdge
  <2>6. tag_sram[p1.index].valid
          => /\ memory[<<tag_sram[p1.index].tag, p1.index>>] = data_sram[p1.index]
             /\ tag_sram[p1.index].tag # p1.tag
    <3>1. sram_cache_tag = tag_sram[p1.index]
      BY <2>3 DEF sram_cache_tag
    <3>2. sram_dirty => memory[<<tag_sram[p1.index].tag, p1.index>>] = data_sram[p1.index]
      BY <1>1, <3>1 DEF IndInv, VictimSaved, VictimLine, sram_tag
    <3>3. (tag_sram[p1.index].valid /\ ~sram_dirty)
            => memory[<<tag_sram[p1.index].tag, p1.index>>] = data_sram[p1.index]
      BY <3>1, WireTypes DEF IndInv, CleanLinesAgree, sram_dirty
    <3>4. tag_sram[p1.index].valid => tag_sram[p1.index].tag # p1.tag
      BY <2>3, <3>1 DEF hit, sram_tag
    <3> QED BY <3>2, <3>3, <3>4
  <2>7. ASSUME NEW a \in LineAddrs
        PROVE  (IF tag_sram'[a[2]].valid /\ tag_sram'[a[2]].tag = a[1]
                  THEN data_sram'[a[2]] ELSE memory'[a])
               = (IF tag_sram[a[2]].valid /\ tag_sram[a[2]].tag = a[1]
                    THEN data_sram[a[2]] ELSE memory[a])
    <3>1. a[2] \in Indexes /\ a = <<a[1], a[2]>>
      BY DEF LineAddrs
    <3>2. CASE a[2] = p1.index
      <4>1. /\ tag_sram'[a[2]].valid /\ tag_sram'[a[2]].tag = p1.tag
            /\ data_sram'[a[2]] = data
        BY <2>5, <3>1, <3>2 DEF IndInv, TypeOK, CacheTypeOK
      <4>2. CASE a[1] = p1.tag
        BY <2>4, <2>6, <3>1, <3>2, <4>1, <4>2 DEF p1_line
      <4>3. CASE a[1] # p1.tag
        BY <2>2, <2>6, <3>1, <3>2, <4>1, <4>3
      <4> QED BY <4>2, <4>3
    <3>3. CASE a[2] # p1.index
      <4>1. tag_sram'[a[2]] = tag_sram[a[2]] /\ data_sram'[a[2]] = data_sram[a[2]]
        BY <2>5, <3>1, <3>3 DEF IndInv, TypeOK, CacheTypeOK
      <4> QED BY <2>2, <4>1
    <3> QED BY <3>2, <3>3
  <2> QED BY <2>7 DEF Contents
<1>2. CASE state = "WRITEBACK"
  <2>1. UNCHANGED <<tag_sram, data_sram>> /\ p1_req
    BY <1>2, BusyCacheHolds
  <2>2. mem_enable /\ mem_write /\ write_back
    BY <1>2, Zenon DEF IndInv, ControllersInPhase
  <2>3. mem_addr_o = VictimLine /\ sram_cache_data = data_sram[p1.index]
        /\ sram_cache_tag = tag_sram[p1.index]
    BY <2>1, <2>2 DEF mem_addr_o, VictimLine, sram_cache_data, sram_cache_tag
  <2>4. memory' = memory \/ memory' = [memory EXCEPT ![VictimLine] = data_sram[p1.index]]
    BY <2>2, <2>3, BusyMemory
  <2>5. tag_sram[p1.index].valid
    BY <2>2, <2>3, WireTypes DEF IndInv, OnlyDirtyWrittenBack, sram_dirty
  <2>6. ASSUME NEW a \in LineAddrs,
               ~(tag_sram[a[2]].valid /\ tag_sram[a[2]].tag = a[1])
        PROVE  memory'[a] = memory[a]
    <3>1. a # VictimLine
      BY <2>3, <2>5, <2>6 DEF VictimLine, sram_tag
    <3> QED BY <2>4, <3>1 DEF IndInv, TypeOK, MemoryTypeOK
  <2> QED BY <2>1, <2>6 DEF Contents
<1>3. CASE state \notin {"READMISSOK", "WRITEBACK"}
  <2>1. ~cache_we /\ ~mem_write
    BY <1>3, Zenon DEF IndInv, ControllersInPhase
  <2>2. UNCHANGED <<tag_sram, data_sram>>
    BY <2>1 DEF Clock, CacheEdge, SramEdge
  <2>3. UNCHANGED memory
    BY <2>1 DEF Clock, MemoryEdge, WriteData
  <2> QED BY <2>2, <2>3 DEF Contents
<1> QED BY <1>1, <1>2, <1>3

(* The instance speaks of the same addresses, lines and requests. *)
LEMMA SameGeometry ==
  Flat!LineAddrs = LineAddrs /\ Flat!Lines = Lines /\ Flat!Requests = Requests
  BY DEF Flat!LineAddrs, LineAddrs, Flat!Lines, Lines, Flat!Requests, Requests

LEMMA InitIsFlat == Init => Flat!Init
<1> SUFFICES ASSUME Init PROVE Flat!Init
  OBVIOUS
<1>1. IndInv
  BY InitIndInv
<1> QED
  BY <1>1, SameGeometry, ContentsType, AnswerIsRight DEF Flat!Init, IndInv, TypeOK, CacheTypeOK

LEMMA NextIsFlat == IndInv /\ [Next]_vars => [Flat!Cycle]_(Flat!vars)
<1> SUFFICES ASSUME IndInv, [Next]_vars PROVE [Flat!Cycle]_(Flat!vars)
  OBVIOUS
<1>1. IndInv'
  BY NextKeepsIndInv
<1>2. Flat!Answer(Contents', p1', p1_stall_o', p1_data_o')
  <2>1. Flat!Answer(Contents, p1, p1_stall_o, p1_data_o)'
    BY <1>1, AnswerIsRight, PTL
  <2> QED BY <2>1 DEF Flat!Answer, Flat!WordAt
<1>3. CASE Clock
  <2>1. p1_stall_o => ~write_hit
    BY DEF p1_stall_o, write_hit
  <2>2. CASE p1_stall_o
    BY <1>2, <1>3, <2>1, <2>2, OtherEdgesKeepContents
    DEF Flat!Cycle, Clock, CacheEdge, RequestEdge
  <2>3. CASE ~p1_stall_o
    <3>1. p1' \in Flat!Requests
      BY <1>1, SameGeometry DEF IndInv, TypeOK, CacheTypeOK
    <3>2. write_hit <=> p1.op = "write"
      BY <2>3, ZeroAssumption DEF p1_stall_o, write_hit, p1_req
    <3>3. Contents' = IF p1.op = "write" THEN Flat!Store(Contents, p1) ELSE Contents
      BY <1>3, <3>2, WriteHitStores, OtherEdgesKeepContents
    <3> QED BY <1>2, <2>3, <3>1, <3>3 DEF Flat!Cycle
  <2> QED BY <2>2, <2>3
<1>4. CASE Reset \/ UNCHANGED vars
  <2>1. UNCHANGED <<p1, tag_sram, data_sram, memory, p1_data>>
    BY <1>4 DEF Reset, CacheReset, MemoryReset, vars, memoryVars, cacheVars
  <2>2. UNCHANGED Contents
    BY <2>1 DEF Contents
  <2>3. UNCHANGED <<p1_stall_o, p1_data_o>>
    BY <2>1, WiresHold DEF p1_data_o
  <2> QED BY <2>1, <2>2, <2>3 DEF Flat!vars
<1> QED BY <1>3, <1>4 DEF Next

(* The cache and its memory implement a flat memory with stalls: for any   *)
(* geometry and latency, and any interleaving of hits, misses, write-backs *)
(* and resets, a load that does not stall returns the last value stored at *)
(* its address or the zero of a miss, and no store is lost.                *)
THEOREM CacheIsTransparent == Spec => ImplementsFlatMemory
<1>1. IndInv /\ [Next]_vars => [Flat!Cycle]_(Flat!vars)
  BY NextIsFlat
<1> QED
  BY <1>1, InitIsFlat, CacheInvariant, PTL
  DEF Spec, ImplementsFlatMemory, Flat!Spec

(* The cache holds the bus still while the memory works, unless reset.     *)
THEOREM BusIsHeld == Spec => BusHeldDuringTransfer
<1>1. ASSUME IndInv, [Next]_vars,
             mem_state \in {"WAIT", "ACK"}, ~Reset
      PROVE  /\ mem_enable /\ mem_enable'
             /\ UNCHANGED <<mem_write, mem_addr_o, sram_cache_data>>
  <2>1. mem_enable /\ ~ack
    BY <1>1, Zenon DEF IndInv, ControllersInPhase
  <2>2. state \in {"READMISS", "WRITEBACK"}
    BY <1>1, <2>1, Zenon DEF IndInv, ControllersInPhase
  <2>3. CASE Clock
    <3>1. UNCHANGED <<p1, tag_sram, data_sram>>
      BY <1>1, <2>2, <2>3, BusyCacheHolds
    <3>2. UNCHANGED <<mem_enable, mem_write, write_back>>
      BY <2>1, <2>2, <2>3 DEF Clock, CacheEdge, Controller, IdleStep, MissStep,
         ReadMissStep, ReadMissOkStep, WriteBackStep
    <3> QED
      BY <2>1, <3>1, <3>2 DEF mem_addr_o, p1_line, sram_tag, sram_cache_tag,
         sram_cache_data, p1_req
  <2>4. CASE UNCHANGED vars
    BY <2>1, <2>4 DEF vars, memoryVars, cacheVars, mem_addr_o, p1_line, sram_tag,
       sram_cache_tag, sram_cache_data, p1_req
  <2> QED BY <1>1, <2>3, <2>4 DEF Next
<1> QED
  BY <1>1, CacheInvariant, PTL DEF Spec, BusHeldDuringTransfer

(* Every clean valid line of the cache equals the line in memory.          *)
THEOREM CleanLinesStay == Spec => []CleanLinesAgree
<1>1. IndInv => CleanLinesAgree
  BY DEF IndInv
<1> QED BY <1>1, CacheInvariant, PTL

(* A fill never covers a dirty line that has not reached memory.           *)
THEOREM VictimIsSaved == Spec => []VictimSaved
<1>1. IndInv => VictimSaved
  BY DEF IndInv
<1> QED BY <1>1, CacheInvariant, PTL

(* What the cache takes over from the memory is the line asked for.        *)
THEOREM TheLineAskedForComes == Spec => []FillIsRequestedLine
<1>1. IndInv => FillIsRequestedLine
  BY DEF IndInv
<1> QED BY <1>1, CacheInvariant, PTL
----------------------------------------------------------------------------
(* The flush of the test bench.                                            *)

(* Why: a word once stored is what the cache and memory together show, and *)
(* its cache entry, whichever line it holds by now, stays valid.           *)
FlushInv ==
  /\ IndInv
  /\ \A w \in DOMAIN stored :
       /\ w \in LineAddrs \X Offsets
       /\ tag_sram[w[1][2]].valid
       /\ Contents[w[1]][w[2]] = stored[w]

(* A line once valid stays valid: no edge and no reset clears the bit.     *)
LEMMA ValidStays ==
  ASSUME IndInv, Next, NEW i \in Indexes, tag_sram[i].valid
  PROVE  tag_sram'[i].valid
<1>1. p1.index \in Indexes /\ tag_sram \in [Indexes -> TagEntries]
  BY WireTypes DEF IndInv, TypeOK, CacheTypeOK
<1>2. CASE Clock
  BY <1>1, <1>2 DEF Clock, CacheEdge, SramEdge
<1>3. CASE Reset
  BY <1>3 DEF Reset, CacheReset
<1> QED BY <1>2, <1>3 DEF Next

LEMMA StoredNext == FlushInv /\ [FlushNext]_flushVars => FlushInv'
<1> SUFFICES ASSUME FlushInv, [FlushNext]_flushVars PROVE FlushInv'
  OBVIOUS
<1>1. [Next]_vars
  BY DEF FlushNext, flushVars, Next
<1>2. IndInv /\ IndInv'
  BY <1>1, NextKeepsIndInv DEF FlushInv
<1>3. Contents \in [LineAddrs -> Lines]
  BY <1>2, ContentsType
<1>4. ASSUME NEW w \in DOMAIN stored, stored' = stored, Contents' = Contents
      PROVE  /\ w \in LineAddrs \X Offsets
             /\ tag_sram'[w[1][2]].valid
             /\ Contents'[w[1]][w[2]] = stored'[w]
  <2>1. /\ w \in LineAddrs \X Offsets /\ w[1][2] \in Indexes
        /\ tag_sram[w[1][2]].valid /\ Contents[w[1]][w[2]] = stored[w]
    BY DEF FlushInv, LineAddrs
  <2>2. CASE Next
    BY <2>1, <2>2, <1>2, <1>4, ValidStays
  <2>3. CASE UNCHANGED vars
    BY <2>1, <2>3, <1>4 DEF vars, cacheVars
  <2> QED BY <1>1, <2>2, <2>3
<1>5. CASE UNCHANGED flushVars
  <2>1. stored' = stored /\ Contents' = Contents
    BY <1>5 DEF flushVars, vars, memoryVars, cacheVars, Contents
  <2> QED BY <1>2, <1>4, <2>1 DEF FlushInv
<1>6. CASE Reset /\ UNCHANGED stored /\ waited' = 0
  <2>1. Contents' = Contents
    BY <1>6 DEF Reset, CacheReset, MemoryReset, Contents
  <2> QED BY <1>2, <1>4, <1>6, <2>1 DEF FlushInv
<1>7. CASE Clock /\ Remember /\ Wait
  <2>1. CASE ~Stores
    <3>1. ~write_hit
      BY <2>1 DEF Stores, write_hit, p1_stall_o
    <3>2. Contents' = Contents /\ stored' = stored
      BY <1>2, <1>7, <2>1, <3>1, OtherEdgesKeepContents DEF Remember
    <3> QED BY <1>2, <1>4, <3>2 DEF FlushInv
  <2>2. CASE Stores
    <3>1. write_hit /\ hit
      BY <2>2 DEF Stores, write_hit, p1_stall_o, p1_req
    <3>2. Contents' = Flat!Store(Contents, p1)
      BY <1>2, <1>7, <3>1, WriteHitStores
    <3>3. /\ p1_line \in LineAddrs /\ p1_line[2] = p1.index /\ p1.index \in Indexes
          /\ p1.offset \in Offsets /\ p1.data \in Words
      BY <1>2, WireTypes DEF IndInv, p1_line
    <3>4. tag_sram[p1.index].valid
      BY <2>2, <3>1 DEF hit, sram_cache_tag, Stores, p1_req
    <3>5. Word \in LineAddrs \X Offsets /\ Word[1] = p1_line /\ Word[2] = p1.offset
      BY <3>3 DEF Word
    <3>6. /\ DOMAIN stored' = DOMAIN stored \cup {Word}
          /\ stored'[Word] = p1.data
          /\ \A w \in DOMAIN stored : w # Word => stored'[w] = stored[w]
      BY <1>7, <2>2 DEF Remember
    <3>7. \A a \in LineAddrs, o \in Offsets :
            Contents'[a][o] = IF a = p1_line /\ o = p1.offset
                                THEN p1.data ELSE Contents[a][o]
      BY <1>3, <3>2, <3>3 DEF Flat!Store, p1_line, Lines
    <3>8. ASSUME NEW w \in DOMAIN stored'
          PROVE  /\ w \in LineAddrs \X Offsets
                 /\ tag_sram'[w[1][2]].valid
                 /\ Contents'[w[1]][w[2]] = stored'[w]
      <4>1. CASE w = Word
        BY <1>2, <1>7, <3>3, <3>4, <3>5, <3>6, <3>7, <4>1, ValidStays DEF Next
      <4>2. CASE w # Word
        <5>1. w \in DOMAIN stored /\ stored'[w] = stored[w]
          BY <3>6, <3>8, <4>2
        <5>2. /\ w \in LineAddrs \X Offsets /\ w[1][2] \in Indexes
              /\ tag_sram[w[1][2]].valid /\ Contents[w[1]][w[2]] = stored[w]
          BY <5>1 DEF FlushInv, LineAddrs
        <5>3. ~(w[1] = p1_line /\ w[2] = p1.offset)
          BY <4>2, <5>2 DEF Word
        <5> QED BY <1>2, <1>7, <3>7, <5>1, <5>2, <5>3, ValidStays DEF Next
      <4> QED BY <4>1, <4>2
    <3> QED BY <1>2, <3>8 DEF FlushInv
  <2> QED BY <2>1, <2>2
<1> QED BY <1>5, <1>6, <1>7 DEF FlushNext

(* Remembering the stores takes nothing from the system and adds nothing:  *)
(* what holds of it holds of the runs with the test bench.                 *)
THEOREM FlushWatches == FlushSpec => Spec
<1>1. FlushInit => Init
  BY DEF FlushInit
<1>2. [FlushNext]_flushVars => [Next]_vars
  BY DEF FlushNext, flushVars, Next
<1> QED BY <1>1, <1>2, PTL DEF FlushSpec, Spec

(* Whenever the flush strikes, every word the program has stored is        *)
(* printed with the value stored last.                                     *)
THEOREM FlushPrintsStores == FlushSpec => []StoresArePrinted
<1>1. FlushInit => FlushInv
  BY InitIndInv DEF FlushInit, FlushInv
<1>2. FlushInv => StoresArePrinted
  <2> SUFFICES ASSUME FlushInv, NEW w \in DOMAIN stored
               PROVE  Printed[w[1]][w[2]] = stored[w]
    BY DEF StoresArePrinted
  <2>1. /\ w[1] \in LineAddrs /\ tag_sram[w[1][2]].valid
        /\ Contents[w[1]][w[2]] = stored[w]
    BY DEF FlushInv
  <2>2. Printed[w[1]] = Contents[w[1]]
    BY <2>1 DEF Printed, NamedByCache, Contents
  <2> QED BY <2>1, <2>2
<1> QED BY <1>1, <1>2, StoredNext, PTL DEF FlushSpec
----------------------------------------------------------------------------
(* The length of a stall.                                                  *)

(* The same, edge by edge: where the memory's counter stands in every      *)
(* state of the memory, and how many edges each state of the two           *)
(* controllers is away from the end of the stall.                          *)
CountInPhase ==
  CASE mem_state \in {"IDLE", "FINISH"} -> count = 0
    [] mem_state = "WAIT" -> count \in 1..Latency
    [] mem_state = "ACK"  -> count = Latency

TransferLeft ==
  CASE mem_state = "IDLE"   -> Transfer
    [] mem_state = "WAIT"   -> Latency + 3 - count
    [] mem_state = "ACK"    -> 2
    [] mem_state = "FINISH" -> 1

EdgesLeft ==
  CASE state = "IDLE"       -> MissCost
    [] state = "MISS"       -> MissCost - 1
    [] state = "WRITEBACK"  -> TransferLeft + Transfer + 1
    [] state = "READMISS"   -> TransferLeft + 1
    [] state = "READMISSOK" -> 1

StallSchedule ==
  /\ CountInPhase
  /\ waited \in Nat
  /\ IF p1_stall_o THEN waited + EdgesLeft = MissCost
                   ELSE waited \in {0, Transfer + 3, 2 * Transfer + 3}

(* The cost of a miss is known when it is noticed: the victim is as dirty  *)
(* or clean at the end of the stall as at its beginning.                   *)
LEMMA CostHolds ==
  ASSUME UNCHANGED <<p1, tag_sram, data_sram>>
  PROVE  MissCost' = MissCost
BY WiresHold DEF MissCost, Transfer

(* One edge of Data_Memory, seen by its counter.                           *)
LEMMA CountStep ==
  ASSUME IndInv, CountInPhase, Clock
  PROVE  /\ CountInPhase'
         /\ mem_enable /\ ~ack => TransferLeft' = TransferLeft - 1
         /\ mem_enable /\ ack  => TransferLeft = 1 /\ mem_state' = "IDLE"
         /\ ~mem_enable => mem_state' = "IDLE"
<1> DEFINE C == count  L == Latency
<1>1. MemoryController(mem_enable) /\ L \in 1..14 /\ C \in 0..15
  BY LatencyAssumption DEF Clock, MemoryEdge, IndInv, TypeOK, MemoryTypeOK
<1>2. ack <=> mem_state = "FINISH"
  BY Zenon DEF IndInv, ControllersInPhase
<1>3. mem_state \in {"IDLE", "WAIT", "ACK", "FINISH"}
  BY DEF IndInv, TypeOK, MemoryTypeOK
<1>4. ~mem_enable => mem_state = "IDLE" /\ mem_state' = "IDLE"
  BY IdleMemory
<1>5. CASE mem_state = "IDLE" /\ mem_enable
  <2>1. count' = (count + 1) % 16 /\ mem_state' = "WAIT" /\ count = 0
    BY <1>1, <1>5 DEF MemoryController, CountInPhase
  <2>2. count' = 1
    BY <2>1
  <2> QED BY <1>1, <1>2, <1>5, <2>1, <2>2 DEF CountInPhase, TransferLeft, Transfer
<1>6. CASE mem_state = "IDLE" /\ ~mem_enable
  <2>1. count' = count /\ count = 0
    BY <1>1, <1>6 DEF MemoryController, CountInPhase
  <2> QED BY <1>4, <1>6, <2>1 DEF CountInPhase
<1>7. CASE mem_state = "WAIT"
  <2>1. count \in 1..Latency
    BY <1>7 DEF CountInPhase
  <2>2. CASE count = Latency
    <3>1. mem_state' = "ACK" /\ count' = count
      BY <1>1, <1>7, <2>2 DEF MemoryController
    <3> QED BY <1>1, <1>2, <1>4, <1>7, <2>2, <3>1 DEF CountInPhase, TransferLeft
  <2>3. CASE count # Latency
    <3>1. mem_state' = "WAIT" /\ count' = (count + 1) % 16
      BY <1>1, <1>7, <2>3 DEF MemoryController
    <3>2. count' = count + 1 /\ count' \in 1..Latency
      BY <1>1, <2>1, <2>3, <3>1
    <3> QED BY <1>1, <1>2, <1>4, <1>7, <3>1, <3>2 DEF CountInPhase, TransferLeft
  <2> QED BY <2>2, <2>3
<1>8. CASE mem_state = "ACK"
  <2>1. mem_state' = "FINISH" /\ count' = 0
    BY <1>1, <1>8 DEF MemoryController
  <2> QED BY <1>1, <1>2, <1>4, <1>8, <2>1 DEF CountInPhase, TransferLeft
<1>9. CASE mem_state = "FINISH"
  <2>1. mem_state' = "IDLE" /\ count' = count
    BY <1>1, <1>9 DEF MemoryController
  <2> QED BY <1>2, <1>4, <1>9, <2>1 DEF CountInPhase, TransferLeft
<1> QED BY <1>3, <1>5, <1>6, <1>7, <1>8, <1>9

LEMMA LeftType ==
  ASSUME IndInv, CountInPhase
  PROVE  TransferLeft \in Nat /\ TransferLeft > 0 /\ Latency \in Nat
<1>1. mem_state \in {"IDLE", "WAIT", "ACK", "FINISH"}
  BY DEF IndInv, TypeOK, MemoryTypeOK
<1>2. Latency \in Nat
  BY LatencyAssumption
<1>3. CASE mem_state = "WAIT"
  BY <1>2, <1>3 DEF CountInPhase, TransferLeft
<1>4. CASE mem_state # "WAIT"
  BY <1>1, <1>2, <1>4 DEF TransferLeft, Transfer
<1> QED BY <1>1, <1>2, <1>3, <1>4

(* The filled line is the line asked for: the edge that writes it ends the *)
(* stall.                                                                  *)
LEMMA FillEndsStall ==
  ASSUME IndInv, Clock, state = "READMISSOK"
  PROVE  ~p1_stall_o'
<1>1. p1_stall_o /\ cache_we /\ ~hit /\ p1_req
  BY DEF IndInv, ControllersInPhase, p1_stall_o
<1>2. p1' = p1 /\ p1.index \in Indexes /\ tag_sram \in [Indexes -> TagEntries]
  BY BusyCacheHolds, WireTypes DEF IndInv, TypeOK, CacheTypeOK
<1>3. tag_sram'[p1.index].valid /\ tag_sram'[p1.index].tag = p1.tag
  BY <1>1, <1>2 DEF Clock, CacheEdge, SramEdge
<1>4. hit'
  BY <1>1, <1>2, <1>3 DEF hit, sram_tag, sram_cache_tag, p1_req
<1> QED BY <1>4 DEF p1_stall_o

(* One edge of a stall: one edge less to go, or the stall is over.         *)
LEMMA StallStep ==
  ASSUME IndInv, CountInPhase, Clock, p1_stall_o
  PROVE  IF p1_stall_o' THEN MissCost' = MissCost /\ EdgesLeft' = EdgesLeft - 1
                        ELSE EdgesLeft = 1
<1>1. /\ Controller(ack) /\ ~hit /\ p1_req /\ p1' = p1
      /\ Latency \in Nat
      /\ mem_enable <=> state \in {"READMISS", "WRITEBACK"}
      /\ mem_state # "IDLE" => mem_enable
      /\ write_back <=> state = "WRITEBACK"
      /\ ack <=> mem_state = "FINISH"
  BY LatencyAssumption
  DEF Clock, CacheEdge, RequestEdge, p1_stall_o, IndInv, ControllersInPhase
<1>2. state # "READMISSOK" =>
        UNCHANGED <<p1, tag_sram, data_sram>>
  <2>1. ~cache_we \/ state = "READMISSOK"
    BY DEF IndInv, ControllersInPhase
  <2> QED
    BY <1>1, <2>1 DEF Clock, CacheEdge, SramEdge, write_hit
<1>3. state # "READMISSOK" =>
        p1_stall_o' = p1_stall_o /\ MissCost' = MissCost
  BY <1>2, CostHolds, WiresHold
<1>4. MissCost \in Nat /\ (sram_dirty => MissCost = 2 * Transfer + 3)
                       /\ (~sram_dirty => MissCost = Transfer + 3)
  BY <1>1 DEF MissCost, Transfer
<1>5. CASE state = "IDLE"
  <2>1. state' = "MISS"
    BY <1>1, <1>5 DEF Controller, IdleStep, MissStep, ReadMissStep,
       ReadMissOkStep, WriteBackStep
  <2> QED BY <1>3, <1>5, <2>1 DEF EdgesLeft
<1>6. CASE state = "MISS"
  <2>1. state' = IF sram_dirty THEN "WRITEBACK" ELSE "READMISS"
    BY <1>1, <1>6 DEF Controller, IdleStep, MissStep, ReadMissStep,
       ReadMissOkStep, WriteBackStep
  <2>2. mem_state' = "IDLE"
    BY <1>1, <1>6, CountStep
  <2>3. TransferLeft' = Transfer
    BY <2>2 DEF TransferLeft, Transfer
  <2>4. EdgesLeft = MissCost - 1
    BY <1>6 DEF EdgesLeft
  <2>5. EdgesLeft' = IF sram_dirty THEN 2 * Transfer + 1 ELSE Transfer + 1
    BY <1>1, <2>1, <2>3 DEF EdgesLeft, Transfer
  <2> QED BY <1>1, <1>3, <1>4, <1>6, <2>4, <2>5 DEF Transfer
<1>7. CASE state = "WRITEBACK"
  <2>1. state' = IF ack THEN "READMISS" ELSE "WRITEBACK"
    BY <1>1, <1>7 DEF Controller, IdleStep, MissStep, ReadMissStep,
       ReadMissOkStep, WriteBackStep
  <2>2. EdgesLeft = TransferLeft + Transfer + 1
    BY <1>7 DEF EdgesLeft
  <2>3. CASE ack
    <3>1. TransferLeft = 1 /\ mem_state' = "IDLE"
      BY <1>1, <1>7, <2>3, CountStep
    <3>2. EdgesLeft' = Transfer + 1
      BY <2>1, <2>3, <3>1 DEF EdgesLeft, TransferLeft, Transfer
    <3> QED BY <1>1, <1>3, <1>7, <2>2, <3>1, <3>2 DEF Transfer
  <2>4. CASE ~ack
    <3>1. TransferLeft' = TransferLeft - 1
      BY <1>1, <1>7, <2>4, CountStep
    <3>2. EdgesLeft' = TransferLeft' + Transfer + 1
      BY <2>1, <2>4 DEF EdgesLeft, Transfer
    <3>3. TransferLeft \in Nat
      BY LeftType
    <3> QED BY <1>1, <1>3, <1>7, <2>2, <3>1, <3>2, <3>3 DEF Transfer
  <2> QED BY <2>3, <2>4
<1>8. CASE state = "READMISS"
  <2>1. state' = IF ack THEN "READMISSOK" ELSE "READMISS"
    BY <1>1, <1>8 DEF Controller, IdleStep, MissStep, ReadMissStep,
       ReadMissOkStep, WriteBackStep
  <2>2. EdgesLeft = TransferLeft + 1
    BY <1>8 DEF EdgesLeft
  <2>3. CASE ack
    <3>1. TransferLeft = 1
      BY <1>1, <1>8, <2>3, CountStep
    <3>2. EdgesLeft' = 1
      BY <2>1, <2>3 DEF EdgesLeft
    <3> QED BY <1>3, <1>8, <2>2, <3>1, <3>2
  <2>4. CASE ~ack
    <3>1. TransferLeft' = TransferLeft - 1
      BY <1>1, <1>8, <2>4, CountStep
    <3>2. EdgesLeft' = TransferLeft' + 1
      BY <2>1, <2>4 DEF EdgesLeft
    <3>3. TransferLeft \in Nat
      BY LeftType
    <3> QED BY <1>3, <1>8, <2>2, <3>1, <3>2, <3>3
  <2> QED BY <2>3, <2>4
<1>9. CASE state = "READMISSOK"
  <2>1. EdgesLeft = 1
    BY <1>9 DEF EdgesLeft
  <2>2. ~p1_stall_o'
    BY <1>9, FillEndsStall
  <2> QED BY <2>1, <2>2
<1> QED
  BY <1>5, <1>6, <1>7, <1>8, <1>9 DEF IndInv, TypeOK, CacheTypeOK

LEMMA EdgesType ==
  ASSUME IndInv, CountInPhase
  PROVE  EdgesLeft \in Nat /\ EdgesLeft > 0
<1>1. TransferLeft \in Nat /\ TransferLeft > 0 /\ Transfer \in Nat
  BY LeftType DEF Transfer
<1>2. MissCost \in Nat /\ MissCost > 1
  BY <1>1 DEF MissCost
<1>3. state \in {"IDLE", "READMISS", "READMISSOK", "WRITEBACK", "MISS"}
  BY DEF IndInv, TypeOK, CacheTypeOK
<1> QED BY <1>1, <1>2, <1>3 DEF EdgesLeft

(* Without a stall the cache stays in IDLE, and in IDLE a stall is new.    *)
LEMMA NoStallIsIdle ==
  ASSUME IndInv, Clock, ~p1_stall_o
  PROVE  state' = "IDLE"
<1>1. state = "IDLE"
  BY DEF IndInv, ControllersInPhase
<1>2. ~(p1_req /\ ~hit)
  BY DEF p1_stall_o
<1> QED
  BY <1>1, <1>2 DEF Clock, CacheEdge, Controller, IdleStep, MissStep, ReadMissStep,
     ReadMissOkStep, WriteBackStep

LEMMA IdleSchedule ==
  ASSUME CountInPhase', waited' = 0, state' = "IDLE"
  PROVE  StallSchedule'
<1>1. \A n \in Nat : 0 + n = n
  OBVIOUS
<1>2. MissCost' \in Nat
  BY LatencyAssumption DEF MissCost, Transfer
<1>3. waited' + EdgesLeft' = MissCost'
  BY <1>1, <1>2 DEF EdgesLeft
<1> QED BY <1>3 DEF StallSchedule

LEMMA StallScheduleNext ==
  ASSUME IndInv, StallSchedule, [FlushNext]_flushVars
  PROVE  StallSchedule'
<1>1. /\ p1_stall_o \in BOOLEAN /\ CountInPhase
      /\ p1_stall_o => waited + EdgesLeft = MissCost
      /\ ~p1_stall_o => waited \in {0, Transfer + 3, 2 * Transfer + 3}
  BY DEF StallSchedule, p1_stall_o
<1>2. MissCost \in {Transfer + 3, 2 * Transfer + 3} /\ Transfer \in Nat
  BY LatencyAssumption DEF MissCost, Transfer
<1>3. waited \in Nat /\ (p1_stall_o => EdgesLeft \in Nat)
  BY <1>1, EdgesType DEF StallSchedule
<1>4. CASE Clock /\ Remember /\ Wait
  <2>1. CountInPhase'
    BY <1>1, <1>4, CountStep
  <2>2. CASE p1_stall_o
    <3>1. waited' = waited + 1
      BY <1>4, <2>2 DEF Wait
    <3>2. IF p1_stall_o' THEN MissCost' = MissCost /\ EdgesLeft' = EdgesLeft - 1
                         ELSE EdgesLeft = 1
      BY <1>1, <1>4, <2>2, StallStep
    <3>3. CASE p1_stall_o'
      <4>1. waited' + EdgesLeft' = MissCost' /\ waited' \in Nat
        BY <1>1, <1>3, <2>2, <3>1, <3>2, <3>3
      <4> QED BY <2>1, <3>3, <4>1 DEF StallSchedule
    <3>4. CASE ~p1_stall_o'
      <4>1. waited' = MissCost
        BY <1>1, <1>3, <2>2, <3>1, <3>2, <3>4
      <4>2. waited' \in {0, Transfer + 3, 2 * Transfer + 3} /\ waited' \in Nat
        BY <1>2, <4>1
      <4> QED BY <2>1, <3>4, <4>2 DEF StallSchedule, Transfer
    <3> QED BY <3>3, <3>4
  <2>3. CASE ~p1_stall_o
    <3>1. waited' = 0 /\ state' = "IDLE"
      BY <1>4, <2>3, NoStallIsIdle DEF Wait
    <3> QED BY <2>1, <3>1, IdleSchedule
  <2> QED BY <2>2, <2>3
<1>5. CASE Reset /\ UNCHANGED stored /\ waited' = 0
  <2>1. state' = "IDLE" /\ count' = 0 /\ mem_state' = "IDLE"
    BY <1>5 DEF Reset, CacheReset, MemoryReset
  <2>2. CountInPhase'
    BY <2>1 DEF CountInPhase
  <2> QED BY <1>5, <2>1, <2>2, IdleSchedule
<1>6. CASE UNCHANGED flushVars
  <2>1. /\ UNCHANGED <<p1, tag_sram, data_sram, state, mem_state, count, waited>>
    BY <1>6 DEF flushVars, vars, cacheVars, memoryVars
  <2>2. UNCHANGED <<p1_stall_o, MissCost>>
    BY <2>1, CostHolds, WiresHold
  <2>3. CountInPhase' /\ EdgesLeft' = EdgesLeft
    BY <1>1, <2>1, <2>2 DEF CountInPhase, EdgesLeft, TransferLeft, Transfer
  <2> QED BY <1>1, <2>1, <2>2, <2>3 DEF StallSchedule, Transfer
<1> QED BY <1>4, <1>5, <1>6 DEF FlushNext

(* A miss costs one transfer, or two if its victim is dirty, and three     *)
(* edges of the cache's own: no stall is longer, and none ends early.      *)
THEOREM StallsHaveLength == FlushSpec => []MissesCostTheSame
<1>1. FlushInit => IndInv /\ StallSchedule
  <2> SUFFICES ASSUME FlushInit PROVE IndInv /\ StallSchedule
    OBVIOUS
  <2>1. Init /\ waited = 0
    BY DEF FlushInit
  <2>2. IndInv
    BY <2>1, InitIndInv
  <2>3. CountInPhase /\ ~p1_stall_o
    BY <2>1 DEF Init, CountInPhase, p1_stall_o, p1_req
  <2> QED BY <2>1, <2>2, <2>3 DEF StallSchedule
<1>2. IndInv /\ StallSchedule /\ [FlushNext]_flushVars => IndInv' /\ StallSchedule'
  <2>1. [FlushNext]_flushVars => [Next]_vars
    BY DEF FlushNext, flushVars, Next
  <2> QED BY <2>1, NextKeepsIndInv, StallScheduleNext
<1>3. IndInv /\ StallSchedule => MissesCostTheSame
  <2> SUFFICES ASSUME IndInv, StallSchedule PROVE MissesCostTheSame
    OBVIOUS
  <2>1. EdgesLeft \in Nat /\ EdgesLeft > 0 /\ waited \in Nat
    BY EdgesType DEF StallSchedule
  <2>2. MissCost \in Nat
    BY LatencyAssumption DEF MissCost, Transfer
  <2>3. p1_stall_o => waited + EdgesLeft = MissCost
    BY DEF StallSchedule
  <2>4. p1_stall_o => waited < MissCost
    BY <2>1, <2>2, <2>3
  <2> QED BY <2>4 DEF MissesCostTheSame, StallSchedule
<1> QED BY <1>1, <1>2, <1>3, PTL DEF FlushSpec
============================================================================

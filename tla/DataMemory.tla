---------------------------- MODULE DataMemory ----------------------------
(***************************************************************************)
(* CA/project2/code/Data_Memory.v: the off-chip memory of the pipelined    *)
(* CPU.  A transfer of one line takes Latency cycles and is acknowledged   *)
(* for exactly one cycle.  The module gives the effect of one positive     *)
(* clock edge, MemoryEdge, as an operator of the input wires; a            *)
(* composition supplies the wires.                                         *)
(* The array `memory' has one entry for every line address: the code's has *)
(* 512 and no request of the model leaves them.                            *)
(***************************************************************************)
EXTENDS CacheGeometry

CONSTANT Latency     \* the value of count that ends STATE_WAIT: 6 in the code

ASSUME LatencyAssumption == Latency \in 1..14    \* count is a 4-bit register

VARIABLES
  memory,      \* reg [255:0] memory [0:511]
  count,
  ack,
  ok,
  data,        \* the line last read, on the output data_o
  mem_state    \* reg [1:0] state

memoryVars == <<memory, count, ack, ok, data, mem_state>>

MemoryTypeOK ==
  /\ memory \in [LineAddrs -> Lines]
  /\ count \in 0..15
  /\ ack \in BOOLEAN
  /\ ok \in BOOLEAN
  /\ data \in Lines
  /\ mem_state \in {"IDLE", "WAIT", "ACK", "FINISH"}

(* A slip for the properties to notice: the controller is not reset. *)
MemoryResetMutant ==
  /\ count' = 0 /\ ok' = FALSE /\ ack' = FALSE
  /\ UNCHANGED <<memory, data, mem_state>>

MemoryResetMutant2 ==    \* count is not cleared
  /\ ok' = FALSE /\ ack' = FALSE
  /\ mem_state' = "IDLE"
  /\ UNCHANGED <<memory, data, count>>

MemoryReset ==
  /\ count' = 0
  /\ ok' = FALSE
  /\ ack' = FALSE
  /\ mem_state' = "IDLE"
  /\ UNCHANGED <<memory, data>>

MemoryController(enable_i) ==
  \/ /\ mem_state = "IDLE"
     /\ enable_i
     /\ count' = (count + 1) % 16
     /\ mem_state' = "WAIT"
     /\ UNCHANGED <<ok, ack>>
  \/ /\ mem_state = "IDLE"
     /\ ~enable_i
     /\ UNCHANGED <<count, ok, ack, mem_state>>
  \/ /\ mem_state = "WAIT"
     /\ count = Latency
     /\ ok' = TRUE
     /\ mem_state' = "ACK"
     /\ UNCHANGED <<count, ack>>
  \/ /\ mem_state = "WAIT"
     /\ count # Latency
     /\ count' = (count + 1) % 16
     /\ UNCHANGED <<ok, ack, mem_state>>
  \/ /\ mem_state = "ACK"
     /\ count' = 0
     /\ ok' = FALSE
     /\ ack' = TRUE
     /\ mem_state' = "FINISH"
  \/ /\ mem_state = "FINISH"
     /\ ack' = FALSE
     /\ mem_state' = "IDLE"
     /\ UNCHANGED <<count, ok>>

ReadData(write_i, addr) ==
  data' = IF ok /\ ~write_i THEN memory[addr] ELSE data

WriteData(write_i, addr, data_i) ==
  memory' = IF ok /\ write_i THEN [memory EXCEPT ![addr] = data_i] ELSE memory

MemoryEdge(enable_i, write_i, addr, data_i) ==
  /\ MemoryController(enable_i)
  /\ ReadData(write_i, addr)
  /\ WriteData(write_i, addr, data_i)
===========================================================================

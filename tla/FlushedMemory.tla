--------------------------- MODULE FlushedMemory ---------------------------
(***************************************************************************)
(* The end of a simulation in CA/project2/code/TestBench.v: at cycle 150   *)
(* the test bench copies every line of the data SRAM into the memory array *)
(* at the address its tag SRAM entry names, prints the memory, and stops   *)
(* at the next edge.  The copy and the printing are one block of one clock *)
(* edge, so what is printed is a function of the values before that edge;  *)
(* cycle 150 may find the two controllers in any state they can be in.     *)
(* Two history variables remember what the program has stored so far and   *)
(* how many edges it has waited for the load or store in MEM.              *)
(***************************************************************************)
EXTENDS CachedMemory

VARIABLES
  stored,      \* the last value stored at <<line, offset>>, if any
  waited       \* edges seen by the stall, the last one before p1 leaves included

flushVars == <<vars, stored, waited>>

(* A store is done when its instruction leaves MEM.                        *)
Stores == p1.op = "write" /\ ~p1_stall_o

Word == <<p1_line, p1.offset>>

Remember ==
  stored' = IF Stores
              THEN [w \in DOMAIN stored \cup {Word} |->
                      IF w = Word THEN p1.data ELSE stored[w]]
              ELSE stored

Wait == waited' = IF p1_stall_o THEN waited + 1 ELSE 0

FlushInit == Init /\ stored = [w \in {} |-> Zero] /\ waited = 0

(* After a reset the controllers start the miss again from the beginning.  *)
FlushNext ==
  \/ Clock /\ Remember /\ Wait
  \/ Reset /\ UNCHANGED stored /\ waited' = 0

FlushSpec == FlushInit /\ [][FlushNext]_flushVars /\ WF_vars(Clock)
----------------------------------------------------------------------------
(* The line that address = {tag[21:0], index} names is overwritten; valid  *)
(* and dirty are not looked at.  The mutant addresses by index alone.      *)
NamedByCacheMutant(a) == a[1] = ZeroTag
NamedByCache(a)       == a[1] = tag_sram[a[2]].tag

Printed ==
  [a \in LineAddrs |-> IF NamedByCache(a) THEN data_sram[a[2]] ELSE memory[a]]

(* Every word the program has stored is printed with the value it stored   *)
(* last, whatever miss, write-back or reset the flush strikes, and although*)
(* the flush also copies entries that are not valid.                       *)
StoresArePrinted ==
  \A w \in DOMAIN stored : Printed[w[1]][w[2]] = stored[w]
----------------------------------------------------------------------------
(* One transfer is Latency + 3 edges: to WAIT, Latency to the end of it,   *)
(* the access, and the acknowledge.                                        *)
Transfer == Latency + 3

MissCost == IF sram_dirty THEN 2 * Transfer + 3 ELSE Transfer + 3

(* What StallEnds promises, counted: a miss costs one transfer, or two if  *)
(* its victim is dirty, and three edges of the cache's own; no stall is    *)
(* longer or shorter, wherever in a transfer a reset came before and in    *)
(* whatever order write-back and fill ask for the bus.  A reset starts the *)
(* miss again.                                                             *)
MissesCostTheSame ==
  /\ p1_stall_o  => waited < MissCost
  /\ ~p1_stall_o => waited \in {0, Transfer + 3, 2 * Transfer + 3}
============================================================================

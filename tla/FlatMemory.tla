----------------------------- MODULE FlatMemory -----------------------------
(***************************************************************************)
(* What the CPU's MEM stage is promised: a memory without a cache that     *)
(* answers in the cycle of the request or holds the pipeline with `stall'. *)
(* A write takes effect at the end of the first cycle without a stall, a   *)
(* read shows the current word in that cycle, or zero: the cache leaves    *)
(* the register it answers from as a miss has set it when the block that   *)
(* should set it is not woken.                                             *)
(***************************************************************************)
EXTENDS CacheGeometry

VARIABLES contents, request, stall, rdata

vars == <<contents, request, stall, rdata>>

WordAt(mem, r) == mem[<<r.tag, r.index>>][r.offset]

Store(mem, r) == [mem EXCEPT ![<<r.tag, r.index>>][r.offset] = r.data]

(* The answer in a cycle: a request may be held back or its word left out, *)
(* never another word given for it.                                        *)
Answer(mem, r, held, d) ==
  /\ held \in BOOLEAN
  /\ held => r.op # "none"
  /\ d \in Words
  /\ (r.op = "read" /\ ~held) => d \in {WordAt(mem, r), Zero}

Init ==
  /\ contents \in [LineAddrs -> Lines]
  /\ request \in Requests
  /\ Answer(contents, request, stall, rdata)

Cycle ==
  /\ IF stall
       THEN UNCHANGED <<contents, request>>
       ELSE /\ contents' = IF request.op = "write" THEN Store(contents, request)
                                                   ELSE contents
            /\ request' \in Requests
  /\ Answer(contents', request', stall', rdata')

Spec == Init /\ [][Cycle]_vars
=============================================================================

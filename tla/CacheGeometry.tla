--------------------------- MODULE CacheGeometry ---------------------------
(***************************************************************************)
(* The address and data types shared by CA/project2/code/Data_Memory.v and *)
(* dcache_top.v.  An address of the code is {tag 22 bits, index 5 bits,    *)
(* offset 5 bits}; a line address <<tag, index>> is addr_i >> 5.  Accesses *)
(* are word aligned, so an offset names one of the words of a line.        *)
(***************************************************************************)
EXTENDS Naturals

CONSTANTS
  Tags,       \* tags of the addresses that are backed by memory
  Indexes,    \* the cache's lines: 0..31 in the code
  Offsets,    \* the words of a line: 0..7 in the code
  Words,      \* the values of one 32-bit word
  Zero,       \* the word 0
  ZeroTag     \* the tag 0

ASSUME ZeroAssumption == Zero \in Words /\ ZeroTag \in Tags

LineAddrs == Tags \X Indexes
Lines     == [Offsets -> Words]

(* What the EX_MEM register asks of the cache.  Control.v never raises     *)
(* MemRead and MemWrite together, so the two wires are one field.          *)
Requests == [op : {"none", "read", "write"}, tag : Tags, index : Indexes,
             offset : Offsets, data : Words]
=============================================================================

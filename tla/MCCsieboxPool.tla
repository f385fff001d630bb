--------------------------- MODULE MCCsieboxPool ---------------------------
(***************************************************************************)
(* CsieboxPool for TLC: the workers are alike, and so are the clients if   *)
(* all or none of them may leave or mistype a password.                    *)
(***************************************************************************)
EXTENDS CsieboxPool, TLC

Alike == Permutations(Workers) \cup Permutations(Clients)
=============================================================================

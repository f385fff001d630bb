----------------------------- MODULE MCSyncTree -----------------------------
(* Small trees for SyncTree: a file txt, a directory sub and a link lnk.    *)
(* F is a full block, x and y are shorter ones and link targets.           *)
EXTENDS SyncTreeInv
CONSTANTS txt, sub, lnk, F, x, y

MCKind  == [n \in {txt, sub, lnk} |-> IF n = txt THEN "file" ELSE IF n = sub THEN "dir" ELSE "link"]
MCContents == {<<x>>, <<F, y>>}

\* A tree that is empty, one with a file of two blocks, one with everything.
Nothing == [n \in {txt, sub, lnk} |-> None]
Long    == [Nothing EXCEPT ![txt] = <<F, x>>]
All     == [n \in {txt, sub, lnk} |-> IF n = sub THEN <<>> ELSE <<x>>]
OtherLink == [Nothing EXCEPT ![lnk] = <<y>>]

MCInitTrees ==
  [{"client", "server"} -> {Nothing, Long, All}]
    \cup {[client |-> All, server |-> OtherLink]}

\* A client with its files and a server that has none yet.
EmptyServer == {[client |-> All, server |-> Nothing]}
=============================================================================

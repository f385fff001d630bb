--------------------------- MODULE MCPortRegister ---------------------------
(* Two users whose records share a bucket of two.                          *)
EXTENDS PortRegister

MCUsers == [rest : {1}, last : {0, 2}]
=============================================================================

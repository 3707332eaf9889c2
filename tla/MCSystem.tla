------------------------------ MODULE MCSystem ------------------------------
(* A page of the kernel image, one of the hardware setup, and one that         *)
(* nothing is loaded to; two values of a page; a poll every other instruction. *)
EXTENDS SystemState

MCImage == [p \in {1} |-> 0]
MCSetup == [p \in {2} |-> 0]
=============================================================================

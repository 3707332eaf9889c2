------------------------------- MODULE MCTlb -------------------------------
(* Two pages that share their index, two frames; code and data on any pages. *)
EXTENDS LM32Tlb
=============================================================================

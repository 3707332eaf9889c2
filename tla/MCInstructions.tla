--------------------------- MODULE MCInstructions ---------------------------
(* Two registers, which are also ra and ea, so that a destination can be an  *)
(* operand; words of three bits, immediates of two, bytes of one: every      *)
(* instruction on every pair of operands.  All options are built, or none.   *)
EXTENDS LM32Instructions

MCConfigs == {{}, {"M", "D", "S", "X"}}
=============================================================================

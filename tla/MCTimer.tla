------------------------------ MODULE MCTimer ------------------------------
(* Registers of four bits, polls every three cycles, instructions of one or *)
(* two: a poll comes three or four cycles after the last.  The shortest     *)
(* period there may be, an odd one, and the longest.                        *)
EXTENDS LnxTimer

MCPeriods == {4, 5, 7}
=============================================================================

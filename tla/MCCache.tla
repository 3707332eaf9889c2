------------------------------ MODULE MCCache ------------------------------
(* A direct-mapped instruction cache and a two-way data cache, with two sets *)
(* of lines of four bytes.  The configured region is unaligned at both ends; *)
(* the masks of the constructor leave the bytes 8 .. 39 of it.  Three lines  *)
(* compete for the first set; the addresses sit at the region's edges.       *)
EXTENDS LM32Cache

MCWays == [c \in {"I", "D"} |-> IF c = "I" THEN 1 ELSE 2]
MCAddr == {7, 8, 18, 27, 39, 40}
=============================================================================

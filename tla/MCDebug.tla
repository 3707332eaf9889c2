------------------------------ MODULE MCDebug ------------------------------
(* Two registers of each sort; address 0 is executed and watched, so that a *)
(* fetch can hit a watchpoint as well as a breakpoint; address 9 is bad.    *)
EXTENDS DebugSession

MCCode == {0, 1}
MCData == {0, 9}
MCBad == {9}
=============================================================================

------------------------- MODULE SuspendableMachine -------------------------
(***************************************************************************)
(* What saving and loading its state promise of the machine that lnxmico32 *)
(* simulates: memory, processor and devices go on, after the state is      *)
(* loaded, from where they were when it was last saved, however often that *)
(* is done.                                                                *)
(***************************************************************************)
EXTENDS Naturals

CONSTANTS
    Page, Value,    \* memory, page by page
    Boot,           \* memory as it is loaded; None where nothing is
    Context,        \* what the registers, and the devices, may hold
    Offset,         \* offsets of its cycle counter
    Granularity,    \* cycles from one poll of the devices to the next
    None

VARIABLES
    live,      \* [mem, cpu, dev] while a simulator runs, else None
    snapshot   \* the same as saved last, or None

vars == <<live, snapshot>>

Init == live = None /\ snapshot = None

PowerOn ==
    /\ live = None
    /\ \E c, d \in Context :
         live' = [mem |-> Boot, dev |-> d,
                  cpu |-> [ctx |-> c, dtlbe |-> FALSE, cc |-> 0, wait |-> 0]]
    /\ UNCHANGED snapshot

Resume == live = None /\ snapshot # None /\ live' = snapshot /\ UNCHANGED snapshot

\* Memory after at most one store, and the machine one cycle on with it.
Stored == {live.mem} \cup {[live.mem EXCEPT ![p] = v] : p \in Page, v \in Value}

Later(m, c, b, n, d) ==
    [mem |-> m, dev |-> d,
     cpu |-> [ctx |-> c, dtlbe |-> b, cc |-> n,
              wait |-> IF live.cpu.wait = 0 THEN Granularity - 1 ELSE live.cpu.wait - 1]]

\* One instruction, after a poll if that is due.
Instruction ==
    /\ live # None
    /\ \E m \in Stored, c \in Context, b \in BOOLEAN, n \in Offset, d \in Context :
         live' = Later(m, c, b, n, d)
    /\ UNCHANGED snapshot

\* The poll at which the user ends the run.
End ==
    /\ live # None /\ live.cpu.wait = 0
    /\ \E d \in Context :
         live' = [mem |-> live.mem, cpu |-> [live.cpu EXCEPT !.wait = Granularity], dev |-> d]
    /\ UNCHANGED snapshot

Suspend == live # None /\ live' = None /\ snapshot' = live
Quit    == live # None /\ live' = None /\ UNCHANGED snapshot

Next == PowerOn \/ Resume \/ Instruction \/ End \/ Suspend \/ Quit

Spec == Init /\ [][Next]_vars
=============================================================================

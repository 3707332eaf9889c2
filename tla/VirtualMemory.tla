--------------------------- MODULE VirtualMemory ---------------------------
(***************************************************************************)
(* What address translation promises to user code and to the kernel: every *)
(* instruction is fetched from, and touches, the frames that the kernel's  *)
(* page table names at that moment, once, or not at all; a page that is    *)
(* read-only is not written.  It does not promise that an instruction      *)
(* takes effect, even if permitted, when another exception coincides with  *)
(* it, nor where a load goes that overwrites the register of its address.  *)
(***************************************************************************)
CONSTANTS
    Page,     \* virtual pages
    Mapping,  \* what the page table says of a page: [frame, ro]
    None,     \* that it has none; no instruction, no frame
    Instr     \* instructions: [op, code, data, again]

VARIABLES
    table,    \* the page table
    insn,     \* the instruction user code is at, or None
    last,     \* what the last one did: <<frame fetched from, frame touched>>,
              \* until the next begins
    disturbed \* a more urgent exception waits, or a reset has been

vars == <<table, insn, last, disturbed>>

Touches(i) == i.op \in {"load", "store"}

Permitted(i) ==
    /\ table[i.code] # None
    /\ Touches(i) => table[i.data] # None
    /\ i.op = "store" => ~table[i.data].ro

Effect(i) ==
    <<table[i.code].frame, IF Touches(i) THEN table[i.data].frame ELSE None>>

Init ==
    /\ table = [p \in Page |-> None]
    /\ insn = None
    /\ last = <<None, None>>
    /\ disturbed \in BOOLEAN

Begin(i) == insn = None /\ insn' = i /\ last' = <<None, None>> /\ UNCHANGED <<table, disturbed>>

Complete ==
    /\ insn # None /\ Permitted(insn)
    /\ last' = Effect(insn) /\ insn' = None
    /\ disturbed' \in BOOLEAN /\ UNCHANGED table

\* A load that overwrites the register of its address goes astray.
Stray ==
    /\ insn # None /\ insn.again # None
    /\ insn' = [insn EXCEPT !.data = insn.again]
    /\ disturbed' \in BOOLEAN /\ UNCHANGED <<table, last>>

\* The kernel gives up an instruction it does not want to permit.
Refuse ==
    /\ insn # None /\ (~Permitted(insn) \/ insn.again # None)
    /\ insn' = None /\ UNCHANGED <<table, last, disturbed>>

Disturb == disturbed' \in BOOLEAN /\ UNCHANGED <<table, insn, last>>

Lose ==
    /\ insn' = None /\ disturbed' \in BOOLEAN /\ (disturbed \/ disturbed')
    /\ UNCHANGED <<table, last>>

Remap(p, m) == table' = [table EXCEPT ![p] = m] /\ UNCHANGED <<insn, last, disturbed>>

Next ==
    \/ \E i \in Instr : Begin(i)
    \/ Complete \/ Stray \/ Refuse \/ Disturb \/ Lose
    \/ \E p \in Page, m \in Mapping \cup {None} : Remap(p, m)

Spec == Init /\ [][Next]_vars
=============================================================================

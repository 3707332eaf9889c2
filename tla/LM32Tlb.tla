------------------------------ MODULE LM32Tlb ------------------------------
(***************************************************************************)
(* The two translation look-aside buffers of lm32_tlb.cpp, the accesses of *)
(* lm32_read_mem() and lm32_write_mem() through them, and the exceptions   *)
(* by which a kernel refills them.  A page table is the kernel's affair:   *)
(* the kernel here is any that keeps the rules of the actions of its       *)
(* section, as the handlers of test/mmu do.  User code runs translated,    *)
(* the kernel does not, so it takes no misses of its own; but a miss of    *)
(* user code that coincides with a more urgent exception, or a reset, is   *)
(* dispatched only inside that one's handler.  When interrupts are enabled *)
(* and how the mode bits are saved is LM32Exceptions'.                     *)
(***************************************************************************)
EXTENDS Naturals, Sequences

CONSTANTS
    Tag, Index,   \* a virtual page number: its upper and its lower bits
    Frame,        \* physical page numbers
    ZeroTag, ZeroIndex,
    None          \* no entry, mapping, instruction, frame or exception

ASSUME PageAssumption == ZeroTag \in Tag /\ ZeroIndex \in Index

VARIABLES
    tlb,          \* itlb and dtlb: an entry for every index, or None
    tlbvaddr,     \* the page in state.tlbvaddr
    tlbbadvaddr,  \* and in state.tlbbadvaddr
    flags,        \* int_flags
    mode,         \* "user", or the exception whose handler runs
    ea, ba,       \* the mode that a return through this register resumes;
                  \* "user" when no handler has a use for the register
    insn,         \* the instruction user code is at, or None
    last,         \* history: what the last one did, until the next begins
    table,        \* the kernel's page table
    todo,         \* entries the kernel knows it has yet to invalidate
    done          \* it has refilled the entry that was missed

hardware == <<tlb, tlbvaddr, tlbbadvaddr>>
control == <<flags, mode, ea, ba>>
vars == <<tlb, tlbvaddr, tlbbadvaddr, flags, mode, ea, ba, insn, last, table, todo, done>>

Page == Tag \X Index
ZeroPage == <<ZeroTag, ZeroIndex>>
Table == {"itlb", "dtlb"}
Entry == [tag : Tag, frame : Frame, ro : BOOLEAN]
Mapping == [frame : Frame, ro : BOOLEAN]

\* again: for a load into the register its address comes from, the page that
\* its offset reaches once the register is 0; None for any other instruction.
Instr ==
         [op : {"nop", "scall"}, code : Page, data : {ZeroPage}, again : {None}]
    \cup [op : {"store"}, code : Page, data : Page, again : {None}]
    \cup [op : {"load"}, code : Page, data : Page, again : Page \cup {None}]

Touches(i) == i.op \in {"load", "store"}

(* A lower number is more urgent.  BREAKPOINT stands for WATCHPOINT as well. *)
Id == [BREAKPOINT |-> 1, EXTINT |-> 6, SYSCALL |-> 7,
       ITLB_MISS |-> 8, DTLB_MISS |-> 9, DTLB_FAULT |-> 10]

MissOrFault == {"ITLB_MISS", "DTLB_MISS", "DTLB_FAULT"}
Coinciding == {"BREAKPOINT", "EXTINT"} \* what may come with any instruction
Exception == {"SYSCALL"} \cup Coinciding \cup MissOrFault
Mode == {"user", "RESET"} \cup Exception

ASSUME NoneAssumption == None \notin Instr

-----------------------------------------------------------------------------
(* tlb_lookup(), tlb_vaddr_update(), tlb_paddr_update() *)

\* A lookup that takes the entry for the page whatever its tag.
LookupUntagged(t, p, write) ==
    LET e == tlb[t][p[2]]
    IN  IF e = None THEN "MISS" ELSE IF t = "dtlb" /\ write /\ e.ro THEN "FAULT" ELSE "HIT"

Lookup(t, p, write) ==
    LET e == tlb[t][p[2]]
    IN  IF e = None \/ e.tag # p[1] THEN "MISS"
        ELSE IF t = "dtlb" /\ write /\ e.ro THEN "FAULT" ELSE "HIT"

Paddr(t, p) == tlb[t][p[2]].frame

\* Written to TLBVADDR with a page, these act on the entry at its index, or on
\* a whole table.
Command == {"NOP", "ITLB_FLSH", "DTLB_FLSH", "ITLB_IVLD", "DTLB_IVLD"}

Invalidated(t, x) == [tlb EXCEPT ![t][x] = None]
Flushed(t) == [tlb EXCEPT ![t] = [x \in Index |-> None]]

TlbAfter(p, cmd) ==
    CASE cmd = "NOP"       -> tlb
      [] cmd = "ITLB_FLSH" -> Flushed("itlb")
      [] cmd = "DTLB_FLSH" -> Flushed("dtlb")
      [] cmd = "ITLB_IVLD" -> Invalidated("itlb", p[2])
      [] cmd = "DTLB_IVLD" -> Invalidated("dtlb", p[2])

tlb_vaddr_update(p, cmd) == tlb' = TlbAfter(p, cmd) /\ tlbvaddr' = p

\* A refill that always goes to the data table.
PaddrUpdateData(t, m) ==
    tlb' = [tlb EXCEPT !["dtlb"][tlbvaddr[2]] = [tag |-> tlbvaddr[1], frame |-> m.frame, ro |-> m.ro]]

tlb_paddr_update(t, m) ==
    tlb' = [tlb EXCEPT ![t][tlbvaddr[2]] = [tag |-> tlbvaddr[1], frame |-> m.frame, ro |-> m.ro]]

-----------------------------------------------------------------------------
(* User code: one action is one execute_instruction() up to its next poll *)

User == mode = "user" /\ flags = {}

Begin(i) ==
    /\ User /\ insn = None
    /\ insn' = i /\ last' = <<None, None>>
    /\ UNCHANGED <<hardware, control, table, todo, done>>

Fetched == Lookup("itlb", insn.code, FALSE) = "HIT"
Access  == Lookup("dtlb", insn.data, insn.op = "store")

\* A miss that leaves the offset in the page's bits, or TLBVADDR as it was.
LatchUnmasked(p) == tlbvaddr' = Append(p, 1) /\ tlbbadvaddr' = p /\ UNCHANGED tlb
LatchBadOnly(p)  == tlbbadvaddr' = p /\ UNCHANGED <<tlb, tlbvaddr>>

Latch(p) == tlbvaddr' = p /\ tlbbadvaddr' = p /\ UNCHANGED tlb

\* others: flagged at the same instruction, or at the poll after it.
FetchMiss(others) ==
    /\ User /\ insn # None /\ ~Fetched
    /\ Latch(insn.code) /\ flags' = {"ITLB_MISS"} \cup others
    /\ UNCHANGED <<mode, ea, ba, insn, last, table, todo, done>>

\* A load writes 0 to its register before it is known to have missed.
AccessMiss(others) ==
    /\ User /\ insn # None /\ Fetched
    /\ Touches(insn) /\ Access # "HIT"
    /\ Latch(insn.data)
    /\ flags' = {IF Access = "MISS" THEN "DTLB_MISS" ELSE "DTLB_FAULT"} \cup others
    /\ insn' = IF insn.again # None THEN [insn EXCEPT !.data = insn.again] ELSE insn
    /\ UNCHANGED <<mode, ea, ba, last, table, todo, done>>

Complete(others) ==
    /\ User /\ insn # None /\ Fetched
    /\ Touches(insn) => Access = "HIT"
    /\ last' = <<Paddr("itlb", insn.code),
                 IF Touches(insn) THEN Paddr("dtlb", insn.data) ELSE None>>
    /\ insn' = None
    /\ flags' = others \cup (IF insn.op = "scall" THEN {"SYSCALL"} ELSE {})
    /\ UNCHANGED <<hardware, mode, ea, ba, table, todo, done>>

(* process_exceptions() and interrupt(): the most urgent flag, and only its  *)
(* own, is taken; then the first instruction of its handler runs.            *)

\* A miss is retried by stepping back from where the access moved pc on to;
\* with another exception entered first, there is no step back to it.
PassesOver(exc) == exc \notin MissOrFault /\ flags \cap MissOrFault # {}

Interrupt(exc) ==
    /\ exc \in flags /\ \A other \in flags : Id[exc] <= Id[other]
    /\ IF exc = "BREAKPOINT" THEN ba' = mode /\ UNCHANGED ea ELSE ea' = mode /\ UNCHANGED ba
    /\ flags' = flags \ {exc} /\ mode' = exc
    /\ insn' = IF PassesOver(exc) THEN None ELSE insn
    /\ done' = FALSE
    /\ UNCHANGED <<hardware, last, table, todo>>

internal_reset_cpuKeepsTlb == tlbvaddr' = ZeroPage /\ tlbbadvaddr' = ZeroPage /\ UNCHANGED tlb

internal_reset_cpu ==
    /\ tlb' = [t \in Table |-> [x \in Index |-> None]]
    /\ tlbvaddr' = ZeroPage /\ tlbbadvaddr' = ZeroPage

\* lm32_reset_cpu(), at any time, and the dispatch at the next poll, where
\* nothing is more urgent.  The other flags stay.
Reset ==
    /\ internal_reset_cpu
    /\ mode' = "RESET" /\ ea' = "RESET" /\ ba' = "user"
    /\ insn' = None /\ todo' = {} /\ done' = FALSE
    /\ UNCHANGED <<flags, last, table>>

-----------------------------------------------------------------------------
(* The kernel (external): in a handler of a miss it repairs the access and *)
(* nothing else, at a user's system call or after a reset what it likes;   *)
(* the first instruction of a handler leaves the MMU alone.                *)

Kernel   == mode # "user" /\ flags = {}
Handling == Kernel /\ mode \in MissOrFault
Free     == Kernel /\ (mode = "RESET" \/ (mode = "SYSCALL" /\ ea = "user"))
Culprit  == tlbbadvaddr
CulpritTable == IF mode = "ITLB_MISS" THEN "itlb" ELSE "dtlb"

\* Does the page table now permit what missed?
Repaired == table[Culprit] # None /\ (mode = "DTLB_FAULT" => ~table[Culprit].ro)

\* An entry that held the old mapping may do harm under the new one.
Outdates(old, new) ==
    old # None /\ ~(new # None /\ new.frame = old.frame /\ (new.ro => old.ro))

SetMapping(p, m) ==
    /\ Free \/ (Handling /\ p = Culprit /\ ~Repaired)
    /\ m # table[p]
    /\ Handling => m # None /\ (mode = "DTLB_FAULT" => ~m.ro)
    /\ table' = [table EXCEPT ![p] = m]
    /\ todo' = todo \cup (IF Outdates(table[p], m) THEN Table \X {p} ELSE {})
    /\ done' = FALSE
    /\ UNCHANGED <<hardware, control, insn, last>>

\* Which entries a command is meant for.
Meant(p, cmd) ==
    CASE cmd = "NOP"       -> {}
      [] cmd = "ITLB_FLSH" -> {"itlb"} \X Page
      [] cmd = "DTLB_FLSH" -> {"dtlb"} \X Page
      [] cmd = "ITLB_IVLD" -> {<<"itlb", p>>}
      [] cmd = "DTLB_IVLD" -> {<<"dtlb", p>>}

WriteTlbvaddr(p, cmd) ==
    /\ Free \/ (Handling /\ Meant(p, cmd) \cap todo # {} /\ cmd \in {"ITLB_IVLD", "DTLB_IVLD"})
    /\ tlb_vaddr_update(p, cmd)
    /\ todo' = todo \ Meant(p, cmd) /\ done' = FALSE
    /\ UNCHANGED <<tlbbadvaddr, control, insn, last, table>>

WriteTlbpaddr(t) ==
    /\ Free \/ (Handling /\ ~done /\ t = CulpritTable /\ tlbvaddr = Culprit /\ Repaired)
    /\ table[tlbvaddr] # None
    /\ tlb_paddr_update(t, table[tlbvaddr])
    /\ todo' = todo \ {<<t, tlbvaddr>>}
    /\ done' = (Handling /\ tlbvaddr = Culprit)
    /\ UNCHANGED <<tlbvaddr, tlbbadvaddr, control, insn, last, table>>

\* eret, or bret after a debug exception: to the instruction that missed, which
\* is tried again, behind the one that completed, or to the handler interrupted.
\* After a reset there is nothing to return to: the kernel starts user code.
Resumed ==
    IF mode = "RESET" THEN "user" ELSE IF mode = "BREAKPOINT" THEN ba ELSE ea

Return ==
    /\ Kernel /\ todo = {} /\ (Handling => done /\ Repaired)
    /\ mode' = Resumed /\ done' = FALSE
    /\ IF Resumed = "user" THEN ea' = "user" /\ ba' = "user" ELSE UNCHANGED <<ea, ba>>
    /\ UNCHANGED <<hardware, flags, insn, last, table, todo>>

\* The kernel does not permit the access, and runs something else.
GiveUp ==
    /\ Handling /\ todo = {} /\ ~Repaired
    /\ mode' = "user" /\ ea' = "user" /\ ba' = "user" /\ insn' = None /\ done' = FALSE
    /\ UNCHANGED <<hardware, flags, last, table, todo>>

-----------------------------------------------------------------------------
Init ==
    /\ tlb = [t \in Table |-> [x \in Index |-> None]]
    /\ tlbvaddr = ZeroPage /\ tlbbadvaddr = ZeroPage
    /\ flags = {} /\ mode = "RESET" /\ ea = "RESET" /\ ba = "user" /\ insn = None
    /\ last = <<None, None>>
    /\ table = [p \in Page |-> None] /\ todo = {} /\ done = FALSE

Attempt == \E others \in SUBSET Coinciding :
    FetchMiss(others) \/ AccessMiss(others) \/ Complete(others)
Dispatch == \E exc \in Exception : Interrupt(exc)

KernelStep ==
    \/ \E p \in Page, m \in Mapping \cup {None} : SetMapping(p, m)
    \/ \E p \in Page, cmd \in Command : WriteTlbvaddr(p, cmd)
    \/ \E t \in Table : WriteTlbpaddr(t)
    \/ Return \/ GiveUp

Next ==
    \/ \E i \in Instr : Begin(i)
    \/ Attempt \/ Dispatch \/ KernelStep \/ Reset

Spec == Init /\ [][Next]_vars

\* The simulator goes on, and a handler that is not free comes to its end.
FairSpec ==
    /\ Spec
    /\ WF_vars(Attempt \/ Dispatch)
    /\ WF_vars(mode \notin {"SYSCALL", "RESET"} /\ KernelStep)
-----------------------------------------------------------------------------
(* Properties *)

\* The state keeps its types.
TypeOK ==
    /\ tlb \in [Table -> [Index -> Entry \cup {None}]]
    /\ tlbvaddr \in Page /\ tlbbadvaddr \in Page
    /\ flags \subseteq Exception
    /\ mode \in Mode /\ ea \in Mode /\ ba \in Mode
    /\ insn \in Instr \cup {None}
    /\ table \in [Page -> Mapping \cup {None}]
    /\ todo \subseteq Table \X Page /\ done \in BOOLEAN

\* Every valid entry gives what the page table gives its page, or less, but for
\* those the kernel has still to invalidate: none when user code runs.
Coherent ==
    /\ \A t \in Table, x \in Index :
         LET e == tlb[t][x]
             p == <<e.tag, x>>
         IN  e # None /\ <<t, p>> \notin todo =>
               table[p] # None /\ e.frame = table[p].frame /\ (table[p].ro => e.ro)
    /\ mode = "user" => todo = {}

\* A handler finds in both registers the page to refill.  If it returns to user
\* code, this is the page that the instruction tried again will need; unless that
\* is a load that has overwritten its own address, which will go elsewhere.  If it
\* interrupted another handler, nothing is tried again: the instruction is lost;
\* and if that was a reset's, the page that was missed is forgotten as well.
CulpritKnown ==
    mode \in MissOrFault =>
        /\ tlbvaddr = tlbbadvaddr
        /\ IF ea = "user"
           THEN /\ insn # None
                /\ IF mode = "ITLB_MISS" THEN tlbbadvaddr = insn.code
                   ELSE IF insn.again = None THEN tlbbadvaddr = insn.data
                   ELSE insn.data = insn.again
           ELSE insn = None /\ (ea = "RESET" => tlbbadvaddr = ZeroPage)

\* Translation through the buffers is translation through the page table: each
\* instruction takes effect at most once, in the frames mapped at that moment;
\* it takes none only if it is refused, or lost to an exception that coincided.
Memory == INSTANCE VirtualMemory
    WITH disturbed <- flags \cap Coinciding # {} \/ mode = "RESET"
TranslatesAsMapped == Memory!Spec

\* An instruction that misses, at its fetch, its access or both, is tried again
\* until it completes, unless the kernel does not permit it or it is lost.
Completes == (insn # None) ~> (insn = None)
=============================================================================

---------------------------- MODULE SystemState ----------------------------
(***************************************************************************)
(* The life of lnxmico32 processes that save the system's state when they  *)
(* end and load it when they start: main(), load_system_state(),           *)
(* save_system_state(), and the marks mem_wr[] by which ext_mem_access()   *)
(* knows the pages of memory that a save must hold.  A page has one value; *)
(* what the guest computes is left open.                                   *)
(***************************************************************************)
EXTENDS Naturals

CONSTANTS
    Pages,        \* the number of pages
    Value,
    Image,        \* vmlinux.bin and romfs.ext2: a function on the pages they fill
    Setup,        \* command line and hardware setup: likewise
    Context,
    Granularity,  \* LM32_INTERRUPT_GRANULARITY
    Windows,      \* is RAM's address in its window? FALSE: stores to an alias of it
    Translation,  \* what the guest sets PSW.DTLBE to
    CcAdjusts,    \* what it offsets its cycle counter by
    KilledIn,     \* the phases in which the process may be killed
    None

Page == 1 .. Pages

ASSUME SystemAssumption ==
    /\ Pages \in Nat /\ Granularity \in Nat \ {0}
    /\ DOMAIN Image \subseteq Page /\ DOMAIN Setup \subseteq Page
    /\ Image \in [DOMAIN Image -> Value] /\ Setup \in [DOMAIN Setup -> Value]
    /\ Value # {} /\ Context # {}
    /\ Windows \subseteq BOOLEAN /\ Translation \subseteq BOOLEAN
    /\ CcAdjusts \subseteq Nat /\ KilledIn \subseteq {"run", "saving"}

VARIABLES
    phase,            \* "off", "run", "ended", "saving"
    ram, mem_wr,      \* memory, and the pages marked as written
    cpu,              \* [ctx, dtlbe, wait]; wait: wakeup_time_ext_int - cycle_count, or Asked
    cc_adjust,
    wakeup_time_save, \* likewise
    dev,              \* timer_state and uart_state
    file,             \* the save file: [cpu, dev, pages], or None
    defined,          \* history: pages something was ever loaded or stored to
    kept              \* history: what the file stood for before it was opened for writing

process == <<ram, mem_wr, cpu, cc_adjust, wakeup_time_save, dev, defined>>
vars == <<phase, ram, mem_wr, cpu, cc_adjust, wakeup_time_save, dev, file, defined, kept>>

Asked == Granularity + 1     \* LM32_EXT_TERMINATE_REQ
Waits == 0 .. Granularity + 1
Cpu == [ctx : Context, dtlbe : BOOLEAN, wait : Waits]
Contents == UNION {[S -> Value] : S \in SUBSET Page}
File == [cpu : Cpu, dev : Context, pages : Contents]

ASSUME NoneAssumption ==
    /\ None \notin File
    /\ None \notin [mem : [Page -> Value \cup {None}], dev : Context,
                    cpu : [ctx : Context, dtlbe : BOOLEAN, cc : CcAdjusts \cup {0}, wait : Waits]]

\* What a process that does not run has.
Zero == CHOOSE v \in Value : TRUE
Rest == CHOOSE c \in Context : TRUE
NoCpu == [ctx |-> Rest, dtlbe |-> FALSE, wait |-> 0]

Over(f, g) == [p \in DOMAIN f \cup DOMAIN g |-> IF p \in DOMAIN f THEN f[p] ELSE g[p]]

-----------------------------------------------------------------------------
(* What a save file stands for: its pages over those that are loaded anew. *)

Loaded == Over(Setup, Image)
Boot == [p \in Page |-> IF p \in DOMAIN Loaded THEN Loaded[p] ELSE None]

Snapshot(f) ==
    IF f = None THEN None
    ELSE [mem |-> [p \in Page |-> IF p \in DOMAIN f.pages THEN f.pages[p] ELSE Boot[p]],
          cpu |-> [ctx |-> f.cpu.ctx, dtlbe |-> f.cpu.dtlbe, cc |-> 0, wait |-> f.cpu.wait],
          dev |-> f.dev]

-----------------------------------------------------------------------------
(* main() up to lm32_run_program() *)

\* Memory is as malloc() has left it where nothing is loaded.
Fresh(junk) ==
    /\ ram' = Over(Loaded, junk) /\ mem_wr' = DOMAIN Setup
    /\ \E c, d \in Context : cpu' = [ctx |-> c, dtlbe |-> FALSE, wait |-> 0] /\ dev' = d
    /\ defined' = DOMAIN Loaded

\* The pages of the file written without marks.
load_system_stateUnmarked(junk) ==
    /\ ram' = Over(file.pages, Over(Loaded, junk)) /\ mem_wr' = DOMAIN Setup
    /\ cpu' = file.cpu /\ dev' = file.dev
    /\ defined' = DOMAIN Loaded \cup DOMAIN file.pages

\* The PSW is set first: with translation on, the TLB has no entry for a page
\* that is written back, and the write is dropped.
load_system_state(junk) ==
    LET pages == IF file.cpu.dtlbe THEN <<>> ELSE file.pages
    IN /\ ram' = Over(pages, Over(Loaded, junk))
       /\ mem_wr' = DOMAIN Setup \cup DOMAIN pages
       /\ cpu' = file.cpu /\ dev' = file.dev
       /\ defined' = DOMAIN Loaded \cup DOMAIN file.pages

Start(load) ==
    /\ phase = "off"
    /\ \E junk \in [Page -> Value] :
         IF load /\ file # None THEN load_system_state(junk) ELSE Fresh(junk)
    /\ cc_adjust' = 0 /\ wakeup_time_save' = 0
    /\ phase' = "run"
    /\ UNCHANGED <<file, kept>>

-----------------------------------------------------------------------------
(* execute_instruction(): the callback, if due, then one instruction *)

Step(c) == cpu' = [c EXCEPT !.wait = IF cpu.wait = 0 THEN Granularity - 1 ELSE cpu.wait - 1]

Polled == IF cpu.wait = 0 THEN dev' \in Context ELSE UNCHANGED dev

Compute(c) ==
    /\ phase = "run" /\ Step([cpu EXCEPT !.ctx = c]) /\ Polled
    /\ UNCHANGED <<phase, ram, mem_wr, cc_adjust, wakeup_time_save, file, defined, kept>>

AccessDevice(d) ==
    /\ phase = "run" /\ Step(cpu) /\ dev' = d
    /\ UNCHANGED <<phase, ram, mem_wr, cc_adjust, wakeup_time_save, file, defined, kept>>

\* ext_mem_access(), default
Marked(p, window) == IF window THEN mem_wr \cup {p} ELSE mem_wr

Store(p, v, window) ==
    /\ phase = "run"
    /\ Step(cpu) /\ Polled
    /\ ram' = [ram EXCEPT ![p] = v] /\ mem_wr' = Marked(p, window)
    /\ defined' = defined \cup {p}
    /\ UNCHANGED <<phase, cc_adjust, wakeup_time_save, file, kept>>

SetTranslation(b) ==
    /\ phase = "run"
    /\ Step([cpu EXCEPT !.dtlbe = b]) /\ Polled
    /\ UNCHANGED <<phase, ram, mem_wr, cc_adjust, wakeup_time_save, file, defined, kept>>

WriteCC(n) ==
    /\ phase = "run"
    /\ Step(cpu) /\ Polled /\ cc_adjust' = n
    /\ UNCHANGED <<phase, ram, mem_wr, wakeup_time_save, file, defined, kept>>

\* ext_interrupt() when the UART has seen the terminating string: the wakeup
\* time becomes the request, and what it would have been is kept.
Terminate ==
    /\ phase = "run" /\ cpu.wait = 0
    /\ dev' \in Context
    /\ cpu' = [cpu EXCEPT !.wait = Asked] /\ wakeup_time_save' = Granularity
    /\ phase' = "ended"
    /\ UNCHANGED <<ram, mem_wr, cc_adjust, file, defined, kept>>

-----------------------------------------------------------------------------
(* save_system_state(): truncate the file, write what there is *)

\* The process is gone, and its variables with it.
Exit(S) ==
    /\ phase \in S /\ phase' = "off"
    /\ ram' = [p \in Page |-> Zero] /\ mem_wr' = {} /\ defined' = {}
    /\ cpu' = NoCpu /\ dev' = Rest /\ cc_adjust' = 0 /\ wakeup_time_save' = 0
    /\ kept' = None /\ UNCHANGED file

\* The request to terminate saved for a wakeup time.
SaveWithRequest ==
    /\ phase = "ended" /\ phase' = "saving"
    /\ file' = [cpu |-> cpu, dev |-> dev, pages |-> <<>>]
    /\ kept' = Snapshot(file)
    /\ UNCHANGED process

Save ==
    /\ phase = "ended" /\ phase' = "saving"
    /\ file' = [cpu |-> [cpu EXCEPT !.wait = wakeup_time_save], dev |-> dev, pages |-> <<>>]
    /\ kept' = Snapshot(file)
    /\ UNCHANGED process

ToSave == mem_wr \ DOMAIN file.pages

\* A page is read through the MMU, by its physical address: 0 at a miss.
Stored(p) == IF cpu.dtlbe THEN Zero ELSE ram[p]

SavePage(p) ==
    /\ phase = "saving" /\ p \in ToSave /\ \A q \in ToSave : p <= q
    /\ file' = [file EXCEPT !.pages = [q \in DOMAIN @ \cup {p} |-> IF q = p THEN Stored(p) ELSE @[q]]]
    /\ UNCHANGED <<phase, process, kept>>

\* The last page of memory not looked at.
CloseOneShort == phase = "saving" /\ ToSave \subseteq {Pages} /\ Exit({"saving"})

Close == phase = "saving" /\ ToSave = {} /\ Exit({"saving"})

\* Without the option the process ends; a signal ends it at any time.
Leave == Exit({"ended"})
Kill  == Exit(KilledIn)

Init ==
    /\ phase = "off" /\ file = None /\ kept = None
    /\ ram = [p \in Page |-> Zero] /\ mem_wr = {} /\ defined = {}
    /\ cpu = NoCpu /\ dev = Rest /\ cc_adjust = 0 /\ wakeup_time_save = 0

Instruction ==
    \/ \E c \in Context : Compute(c) \/ AccessDevice(c)
    \/ \E p \in Page, v \in Value, window \in Windows : Store(p, v, window)
    \/ \E b \in Translation : SetTranslation(b)
    \/ \E n \in CcAdjusts : WriteCC(n)

Next ==
    \/ \E load \in BOOLEAN : Start(load)
    \/ Instruction \/ Terminate
    \/ Save \/ (\E p \in Page : SavePage(p)) \/ Close \/ Leave \/ Kill

Spec == Init /\ [][Next]_vars
-----------------------------------------------------------------------------
(* Properties *)

\* The state keeps its types; a file never holds the request to terminate.
TypeOK ==
    /\ phase \in {"off", "run", "ended", "saving"}
    /\ ram \in [Page -> Value] /\ mem_wr \subseteq Page /\ defined \subseteq Page
    /\ cpu \in Cpu /\ cc_adjust \in Nat /\ wakeup_time_save \in 0 .. Granularity
    /\ dev \in Context
    /\ file \in {None} \cup File
    /\ file # None => file.cpu.wait # Asked

\* Every page that is not as it is loaded anew is marked, through any number of
\* runs that each load what the last one saved: a save omits none of them.
SaveCovers ==
    phase # "off" =>
        \A p \in defined : p \in mem_wr \/ (p \in DOMAIN Loaded /\ ram[p] = Loaded[p])

\* What the guest has: memory it never stored to has no value.
Live ==
    IF phase = "off" THEN None
    ELSE [mem |-> [p \in Page |-> IF p \in defined THEN ram[p] ELSE None],
          cpu |-> [ctx |-> cpu.ctx, dtlbe |-> cpu.dtlbe, cc |-> cc_adjust,
                   wait |-> IF cpu.wait = Asked THEN wakeup_time_save ELSE cpu.wait],
          dev |-> dev]

\* The runs together are one machine that is now and then suspended: it resumes
\* with the memory, registers, devices and time to the next poll it was saved
\* with, and a run that is not saved leaves what was saved before.
Machine == INSTANCE SuspendableMachine WITH
    Offset <- CcAdjusts \cup {0}, live <- Live,
    snapshot <- IF phase = "saving" THEN kept ELSE Snapshot(file)
ResumesAsSaved == Machine!Spec
=============================================================================

--------------------------- MODULE LM32Exceptions ---------------------------
(***************************************************************************)
(* The exception and interrupt machinery of the lm32 instruction set       *)
(* simulator: lm32_cpu::execute_instruction() with process_exceptions(),   *)
(* interrupt(), internal_reset_cpu() and every instruction that touches    *)
(* the pending flags, the interrupt enables, the MMU's mode bits or the    *)
(* exception return registers.                                             *)
(*                                                                         *)
(* One action is one whole execute_instruction(): poll the interrupt       *)
(* callback, vector to the most urgent pending exception, flag a hardware  *)
(* breakpoint, fetch, execute.  The guest program is not fixed: at every   *)
(* address any instruction may be found, subject to the few rules a kernel *)
(* keeps (GuestRules).  The CPU is configured with LM32_DEFAULT_CONFIG.    *)
(***************************************************************************)
EXTENDS Integers, FiniteSets

CONSTANTS
    Irq,          \* external interrupt lines
    Granularity,  \* cycles from one interrupt poll to the next, as the callback
                  \* sets it (0: it never moves wakeup_time, every cycle is due)
    Cycles,       \* what one instruction may cost
    CanTerminate, \* may the callback ask for termination?
    Faults,       \* exceptions the memory system of this build can raise
    KernelTraps,  \* may the kernel's own code raise exceptions?
    Code,         \* word addresses at which the guest has code
    UserCode,     \* those that hold user-mode code
    Targets,      \* addresses guest branches and register writes use
    EntryPoint,   \* entry_point_addr
    EbaValues,    \* exception base addresses the kernel programs
    DebaValues,   \* debug base addresses the kernel programs
    HwBp          \* addresses a hardware breakpoint may be set at

VARIABLES
    cpu,     \* the part of lm32_state and of registers ea, ba modelled here
    entered, \* history: what the last execute_instruction() vectored to
    forged   \* history: return registers user-mode code wrote last

vars == <<cpu, entered, forged>>

-----------------------------------------------------------------------------
(* Exceptions are numbered as in lm32_cpu_mico32.h: a lower one is more    *)
(* urgent, and its number selects its slot of the vector table.            *)

RESET       == 0
BREAKPOINT  == 1
IBUSERROR   == 2
WATCHPOINT  == 3
DBUSERROR   == 4
DIVZERO     == 5
EXTINT      == 6
SYSCALL     == 7
ITLB_MISS   == 8
DTLB_MISS   == 9
DTLB_FAULT  == 10
PRIV_ACCESS == 11

ExcId    == 0 .. 11
NONE     == -1                       \* no exception was entered
DebugExc == {BREAKPOINT, WATCHPOINT} \* return through ba; all others through ea
TlbExc   == {ITLB_MISS, DTLB_MISS, DTLB_FAULT}

(* The mode bits: the interrupt enable of IE and the three MMU bits of PSW. *)
(* Each exists three times, as the current, the E (exception) and the B     *)
(* (break) copy; cpu.now, cpu.exc and cpu.brk are the sets of bits set.     *)
ModeBit == {"IE", "ITLBE", "DTLBE", "USR"}

CpuState ==
    [int_flags : SUBSET ExcId,
     now : SUBSET ModeBit, exc : SUBSET ModeBit, brk : SUBSET ModeBit,
     im : SUBSET Irq, ip : SUBSET Irq,
     pc : Int, ea : Int, ba : Int,
     eba : Int, deba : Int,
     remap : BOOLEAN,       \* DC.RE: vector everything through deba
     bp : SUBSET HwBp,      \* armed hardware breakpoints
     wp : BOOLEAN,          \* some watchpoint comparator is armed
     wake : Nat \cup {-1}]  \* cycles until the next poll; -1: terminate asked

Vector(base, id) == base + 8 * id    \* id << 5, in words

ASSUME ConfigAssumption ==
    /\ Granularity \in Nat
    /\ Cycles \subseteq Nat \ {0}
    /\ CanTerminate \in BOOLEAN /\ KernelTraps \in BOOLEAN
    /\ Faults \subseteq {IBUSERROR, WATCHPOINT, DBUSERROR, ITLB_MISS, DTLB_MISS, DTLB_FAULT}

(* The guest's memory map: vector tables and entry point are kernel memory, *)
(* and are not the word that follows a word of user code.                   *)
KernelAddress(a) == a \notin UserCode /\ a - 1 \notin UserCode

ASSUME LayoutAssumption ==
    /\ UserCode \subseteq Code /\ Code \subseteq Int /\ Targets \subseteq Int
    /\ EntryPoint \in Int /\ KernelAddress(EntryPoint)
    /\ 0 \in EbaValues \cap DebaValues   \* the reset values
    /\ EbaValues \cup DebaValues \subseteq Int
    /\ \A base \in EbaValues \cup DebaValues, id \in ExcId : KernelAddress(Vector(base, id))

-----------------------------------------------------------------------------
(* interrupt() and internal_reset_cpu() *)

InternalReset(c) ==
    [c EXCEPT !.pc = EntryPoint, !.now = {}, !.exc = {}, !.brk = {},
              !.im = {}, !.ip = {}, !.eba = 0, !.deba = 0,
              !.remap = FALSE, !.bp = {}, !.wp = FALSE]

\* A miss is flagged after the access moved pc on: step back to retry it.
ReturnPc(c, id) == IF id \in TlbExc THEN c.pc - 1 ELSE c.pc

EnterDebug(c, id) ==
    [c EXCEPT !.ba = c.pc, !.brk = c.now, !.now = {},
              !.pc = Vector(c.deba, id), !.int_flags = @ \ {id}]

\* EnterException with EUSR, or EIE, left out of the bits saved.
EnterExceptionKeepsEUSR(c, id) ==
    [c EXCEPT !.ea = ReturnPc(c, id), !.now = {},
              !.exc = (c.now \ {"USR"}) \cup (c.exc \cap {"USR"}),
              !.pc = Vector(IF c.remap THEN c.deba ELSE c.eba, id),
              !.int_flags = @ \ {id}]
EnterExceptionKeepsEIE(c, id) ==
    [c EXCEPT !.ea = ReturnPc(c, id), !.now = {},
              !.exc = (c.now \ {"IE"}) \cup (c.exc \cap {"IE"}),
              !.pc = Vector(IF c.remap THEN c.deba ELSE c.eba, id),
              !.int_flags = @ \ {id}]

EnterException(c, id) ==
    [c EXCEPT !.ea = ReturnPc(c, id), !.exc = c.now, !.now = {},
              !.pc = Vector(IF c.remap THEN c.deba ELSE c.eba, id),
              !.int_flags = @ \ {id}]

Interrupt(c, id) ==
    IF id \in DebugExc THEN EnterDebug(c, id)
    ELSE EnterException(IF id = RESET THEN InternalReset(c) ELSE c, id)

(* process_exceptions(): the callback part, then the dispatch. *)

Pending(c) == c.ip \cap c.im # {}

Due == cpu.wake = 0

\* Polled that never withdraws EXTINT, or looks at the lines just raised only.
PolledSetsOnly(irqs) ==
    LET c == [cpu EXCEPT !.ip = @ \cup irqs, !.wake = Granularity] IN
    [c EXCEPT !.int_flags = @ \cup (IF "IE" \in c.now /\ Pending(c) THEN {EXTINT} ELSE {})]
PolledNewOnly(irqs) ==
    LET c == [cpu EXCEPT !.ip = @ \cup irqs, !.wake = Granularity] IN
    [c EXCEPT !.int_flags = (@ \ {EXTINT})
                  \cup (IF "IE" \in c.now /\ irqs \cap c.im # {} THEN {EXTINT} ELSE {})]

\* EXTINT is recomputed, both ways, at a poll and only then.
Polled(irqs) ==
    LET c == [cpu EXCEPT !.ip = @ \cup irqs, !.wake = Granularity] IN
    [c EXCEPT !.int_flags = (@ \ {EXTINT})
                  \cup (IF "IE" \in c.now /\ Pending(c) THEN {EXTINT} ELSE {})]

PolledStates == IF Due THEN {Polled(irqs) : irqs \in SUBSET Irq} ELSE {cpu}

MostUrgent(flags) == {id \in flags : \A other \in flags : id <= other}

\* Dispatched without its test for a flag: the search runs past the last one.
DispatchedAlways(c) ==
    IF c.int_flags = {} THEN {[id |-> 12, c |-> Interrupt(c, 12)]}
    ELSE {[id |-> id, c |-> Interrupt(c, id)] : id \in MostUrgent(c.int_flags)}

\* What was vectored to, and the CPU after it.
Dispatched(c) ==
    IF c.int_flags = {} THEN {[id |-> NONE, c |-> c]}
    ELSE {[id |-> id, c |-> Interrupt(c, id)] : id \in MostUrgent(c.int_flags)}

(* Fetch: a hardware breakpoint is flagged and the instruction still runs;  *)
(* a failed fetch yields opcode 0, which is srui r0, r0, 0 (ok = FALSE).    *)

Raise(c, ids) == [c EXCEPT !.int_flags = @ \cup ids]

HwBreak(c) == IF c.pc \in c.bp THEN Raise(c, {BREAKPOINT}) ELSE c

FetchFaults(c) == (Faults \cap {IBUSERROR}) \cup
                  (IF "ITLBE" \in c.now THEN Faults \cap {ITLB_MISS} ELSE {})

WatchHits(c) == IF c.wp THEN {{}, Faults \cap {WATCHPOINT}} ELSE {{}}

Fetch(c) ==
    {[ok |-> TRUE, c |-> Raise(c, w)] : w \in WatchHits(c)}
        \cup {[ok |-> FALSE, c |-> Raise(c, {f})] : f \in FetchFaults(c)}

\* Every way execute_instruction() can come to the instruction itself.
Fetched ==
    UNION {UNION {{[id |-> d.id, flags |-> d.c.int_flags, ok |-> f.ok, c |-> f.c]
                    : f \in Fetch(HwBreak(d.c))}
                    : d \in Dispatched(p)} : p \in PolledStates}
-----------------------------------------------------------------------------
(* The instructions, as what each does to the CPU state *)

User(c) == "USR" \in c.now

Seq(c) == [c EXCEPT !.pc = @ + 1]

DataFaults(c, write) ==
    (Faults \cap {DBUSERROR}) \cup
    (IF "DTLBE" \in c.now
     THEN Faults \cap (IF write THEN {DTLB_MISS, DTLB_FAULT} ELSE {DTLB_MISS})
     ELSE {})

\* A faulting load or store still moves on; a fault hides the watchpoint.
Accessed(c, write) ==
    {Seq(Raise(c, w)) : w \in WatchHits(c)}
        \cup {Seq(Raise(c, {f})) : f \in DataFaults(c, write)}

\* b ea (eret) and b ba (bret)
ReturnFromException(c) == [c EXCEPT !.now = c.exc, !.pc = c.ea]
ReturnFromBreak(c)     == [c EXCEPT !.now = c.brk, !.pc = c.ba]

\* wcsr to IE and to PSW, with the current, E and B bits written
SetBit(S, set) == IF set THEN S \cup {"IE"} ELSE S \ {"IE"}
WriteIE(c, now, exc, brk) ==
    [c EXCEPT !.now = SetBit(@, now), !.exc = SetBit(@, exc), !.brk = SetBit(@, brk)]
WritePSW(c, now, exc, brk) == [c EXCEPT !.now = now, !.exc = exc, !.brk = brk]

\* Arming and disarming the watchpoint comparators, in a build that has them
WpWrites(c) ==
    IF WATCHPOINT \in Faults THEN {[c EXCEPT !.wp = watch] : watch \in BOOLEAN} ELSE {}

\* DC.RE, where redirecting can make a difference
RemapWrites(c) ==
    IF DebaValues # EbaValues THEN {[c EXCEPT !.remap = all] : all \in BOOLEAN} ELSE {}

(* What the kernel writes to control registers.  It changes IE.IE alone by  *)
(* a read-modify-write, and programs an E or B copy only to launch a user   *)
(* context: interrupts and both TLBs on.                                    *)
CsrWritesAny(c) ==
    {WriteIE(c, on, "IE" \in c.exc, "IE" \in c.brk) : on \in BOOLEAN}
        \cup {WritePSW(c, c.now, exc, brk) : exc \in {c.exc, ModeBit}, brk \in {c.brk, ModeBit}}
        \cup {[c EXCEPT !.im = mask] : mask \in SUBSET Irq}
        \cup {[c EXCEPT !.ip = @ \ clear] : clear \in SUBSET Irq}
        \cup {[c EXCEPT !.eba = base] : base \in EbaValues}
        \cup {[c EXCEPT !.deba = base] : base \in DebaValues}
        \cup RemapWrites(c)
        \cup WpWrites(c)
        \cup {[c EXCEPT !.bp = armed] : armed \in SUBSET HwBp}

CsrWrites(c) == {Seq(w) : w \in CsrWritesAny(c)}

-----------------------------------------------------------------------------
(* Completing an instruction *)

Init ==
    /\ cpu \in [int_flags : {{}}, now : {{}}, exc : {{}}, brk : {{}},
                im : {{}}, ip : {{}},
                pc : {EntryPoint},
                ea : Targets, ba : Targets, \* the register file is not initialised
                eba : {0}, deba : {0}, remap : {FALSE},
                bp : {{}}, wp : {FALSE}, wake : {0}]
    /\ entered = NONE
    /\ forged = {"ea", "ba"}

Stopped == cpu.wake = -1

Spend(c, n) == [c EXCEPT !.wake = IF @ > n THEN @ - n ELSE 0]

\* The return register an exception entry has just loaded.  A reset makes ba
\* meaningless to the kernel, as it clears the B bits that go with it.
Loaded(id) == IF id = NONE THEN {} ELSE IF id \in DebugExc THEN {"ba"} ELSE {"ea"}
Kept(f) == (forged \ Loaded(f.id)) \cup (IF f.id = RESET THEN {"ba"} ELSE {})

(* GuestRules: the memory map bounds where the guest runs, and the kernel   *)
(* is never resumed at the word that follows a word of user code.           *)
Complete(f, next, untrusted) ==
    /\ ~Stopped
    /\ next.pc \in Code
    /\ KernelTraps \/ User(f.c) \/ next.int_flags \subseteq f.flags
    /\ ~User(next) => next.pc - 1 \notin UserCode
    /\ \E n \in Cycles : cpu' = Spend(next, n)
    /\ entered' = f.id
    /\ forged' = untrusted

\* The kernel reaches user code by a return from an exception, never by a jump.
KernelStays(c, next) == User(c) \/ next.pc \notin UserCode

Instruction(f, next) ==
    /\ KernelStays(f.c, next)
    /\ Complete(f, next, Kept(f))

\* Arithmetic and logic, rcsr, and what a failed fetch executes
Plain == \E f \in Fetched : Instruction(f, Seq(f.c))

\* Branches, calls, b rX
Jump == \E f \in Fetched, a \in Targets :
    f.ok /\ Instruction(f, [f.c EXCEPT !.pc = a])

Load == \E f \in Fetched : \E next \in Accessed(f.c, FALSE) :
    f.ok /\ Instruction(f, next)

Store == \E f \in Fetched : \E next \in Accessed(f.c, TRUE) :
    f.ok /\ Instruction(f, next)

\* scall and break leave pc on the instruction.
Scall == \E f \in Fetched : f.ok /\ Instruction(f, Raise(f.c, {SYSCALL}))
Break == \E f \in Fetched : f.ok /\ Instruction(f, Raise(f.c, {BREAKPOINT}))

Reserved == \E f \in Fetched : f.ok /\ Instruction(f, Seq(Raise(f.c, {IBUSERROR})))
DivideByZero == \E f \in Fetched : f.ok /\ Instruction(f, Seq(Raise(f.c, {DIVZERO})))

\* eret, bret and wcsr are refused in user mode; pc stays.
Refused == \E f \in Fetched :
    f.ok /\ User(f.c) /\ Instruction(f, Raise(f.c, {PRIV_ACCESS}))

\* The kernel returns only through a register its hardware or itself loaded.
Eret == \E f \in Fetched :
    /\ f.ok /\ ~User(f.c) /\ "ea" \notin Kept(f)
    /\ Complete(f, ReturnFromException(f.c), Kept(f))

Bret == \E f \in Fetched :
    /\ f.ok /\ ~User(f.c) /\ "ba" \notin Kept(f)
    /\ Complete(f, ReturnFromBreak(f.c), Kept(f))

\* Wcsr without its test for user mode.
WcsrUnchecked == \E f \in Fetched : \E next \in CsrWrites(f.c) :
    f.ok /\ Instruction(f, next)

Wcsr == \E f \in Fetched : \E next \in CsrWrites(f.c) :
    f.ok /\ ~User(f.c) /\ Instruction(f, next)

\* ea and ba are general registers.  The kernel loads a user address only
\* once the E (B) bits say user mode.
WriteEA == \E f \in Fetched, a \in Targets :
    /\ f.ok
    /\ User(f.c) \/ (a \in UserCode => "USR" \in f.c.exc)
    /\ LET next == Seq([f.c EXCEPT !.ea = a]) IN
       /\ KernelStays(f.c, next)
       /\ Complete(f, next, IF User(f.c) THEN Kept(f) \cup {"ea"} ELSE Kept(f) \ {"ea"})

WriteBA == \E f \in Fetched, a \in Targets :
    /\ f.ok
    /\ User(f.c) \/ (a \in UserCode => "USR" \in f.c.brk)
    /\ LET next == Seq([f.c EXCEPT !.ba = a]) IN
       /\ KernelStays(f.c, next)
       /\ Complete(f, next, IF User(f.c) THEN Kept(f) \cup {"ba"} ELSE Kept(f) \ {"ba"})

-----------------------------------------------------------------------------
(* Outside the instruction stream *)

\* The callback returned a negative wakeup time: execute_instruction() gives
\* up after merging ip, before anything else.
Terminate ==
    /\ CanTerminate /\ Due
    /\ \E irqs \in SUBSET Irq : cpu' = [cpu EXCEPT !.ip = @ \cup irqs, !.wake = -1]
    /\ entered' = NONE
    /\ UNCHANGED forged

\* lm32_reset_cpu()
ResetPin ==
    /\ ~Stopped
    /\ cpu' = Raise(cpu, {RESET})
    /\ entered' = NONE
    /\ UNCHANGED forged

\* lm32_set_hw_debug_reg(), by a debugger between two runs
SetHwDebug ==
    /\ ~Stopped
    /\ \/ \E armed \in SUBSET HwBp : cpu' = [cpu EXCEPT !.bp = armed]
       \/ cpu' \in WpWrites(cpu)
    /\ entered' = NONE
    /\ UNCHANGED forged

\* After a termination the program makes no more steps.
Idle == Stopped /\ UNCHANGED vars

Execute ==
    \/ Plain \/ Jump \/ Load \/ Store \/ Scall \/ Break \/ Reserved \/ DivideByZero
    \/ Refused \/ Eret \/ Bret \/ Wcsr \/ WriteEA \/ WriteBA

Next == Execute \/ Terminate \/ ResetPin \/ SetHwDebug \/ Idle

Spec == Init /\ [][Next]_vars

FairSpec == Spec /\ WF_vars(Execute \/ Terminate)

-----------------------------------------------------------------------------
(* Types: the flags are exceptions, the mode bits mode bits, the next poll  *)
(* is a number of cycles away or never.                                     *)
TypeOK ==
    /\ cpu \in CpuState
    /\ entered \in ExcId \cup {NONE}
    /\ forged \subseteq {"ea", "ba"}

(* User code never runs with kernel privilege: whatever exceptions coincide *)
(* or nest, interrupt() saves USR beside the return address it belongs to,  *)
(* and eret and bret put back the two together.                             *)
UserCodeUnprivileged == cpu.pc \in UserCode => User(cpu)

(* User mode always has interrupts and address translation on: interrupt()  *)
(* saves IE.IE and the bits of PSW field by field, eret and bret restore    *)
(* them the same way, and none is lost on any path through nested handlers. *)
UserContextWhole == User(cpu) => cpu.now = ModeBit

(* Why the two hold: each return register that the kernel may use pairs a   *)
(* user address with saved bits that say user mode, each copy of the mode   *)
(* bits is whole, and the kernel is never one word past user code, where    *)
(* the step back of a TLB miss would land in it.                            *)
Whole(bits) == "USR" \in bits => bits = ModeBit
Paired(address, bits) == address \in UserCode => "USR" \in bits
Safe(c, untrusted) ==
    /\ Paired(c.pc, c.now)
    /\ User(c) \/ c.pc - 1 \notin UserCode
    /\ "ea" \in untrusted \/ Paired(c.ea, c.exc)
    /\ "ba" \in untrusted \/ Paired(c.ba, c.brk)
    /\ Whole(c.now) /\ Whole(c.exc) /\ Whole(c.brk)
ContextsPaired == Safe(cpu, forged)

(* User code changes no control state: until an exception is entered, what  *)
(* execute_instruction() does in user mode leaves the modes, the mask, the  *)
(* pending lines and both vector bases alone (wcsr, eret, bret are refused).*)
UserKeepsControl ==
    [][User(cpu) /\ entered' = NONE =>
          /\ cpu'.now = cpu.now /\ cpu'.exc = cpu.exc /\ cpu'.brk = cpu.brk
          /\ cpu'.im = cpu.im /\ cpu.ip \subseteq cpu'.ip
          /\ cpu'.eba = cpu.eba /\ cpu'.deba = cpu.deba]_vars

(* An external interrupt is taken only from code that has interrupts        *)
(* enabled.  process_exceptions() recomputes EXTINT at a poll only, so this *)
(* depends on a poll before every instruction (Granularity = 0).            *)
ExtIntOnlyWhenEnabled ==
    [][entered' = EXTINT => "IE" \in cpu.now]_vars

(* A pending unmasked line is served in the end, unless interrupts are      *)
(* disabled, the line is cleared or masked, or the run ends: the callback's *)
(* wakeup time delays the poll that notices it, and loses nothing.          *)
InterruptServed ==
    ("IE" \in cpu.now /\ Pending(cpu))
        ~> (entered = EXTINT \/ "IE" \notin cpu.now \/ ~Pending(cpu) \/ Stopped)
=============================================================================

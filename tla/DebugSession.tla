---------------------------- MODULE DebugSession ----------------------------
(***************************************************************************)
(* A remote debugging session of cpumico32: the commands of lm32_gdb.cpp   *)
(* that change the processor's debug state, and lm32_run_program(), which  *)
(* executes instructions until one of its break conditions holds.          *)
(*                                                                         *)
(* The stub runs the processor in its own thread of control, so a command  *)
(* is only ever served between two runs: one action is one command, or one *)
(* iteration of the run loop with what the stub does when it was the last. *)
(* A command answered with an error changes nothing and is no step.  The   *)
(* guest leaves the debug registers to the host.                           *)
(***************************************************************************)
EXTENDS Integers, FiniteSets

CONSTANTS
    NumSlots, \* breakpoint registers, and watchpoint comparators (four in the code)
    Code,     \* addresses at which the guest executes
    Data,     \* addresses which guest and host read and write, and host watches
    Bad       \* those of them outside memory, or misaligned

VARIABLES
    bp,      \* BP0, BP1, ...: the address armed, or Off
    dc,      \* DC.C0, C1, ...: the accesses that comparator watches for
    wp,      \* WP0, WP1, ...: the address it compares with
    flags,   \* int_flags
    pc,
    mode,    \* "stopped", what is being run, or "over"
    left,    \* break- and watchpoints the host cannot have been told of
    reason,  \* the signal last reported
    breaks,  \* the host's ledger: Z1 less z1 commands answered OK, by address
    watches  \* the same for Z2, Z3, Z4, by kind and address

registers == <<bp, dc, wp>>
ledger == <<breaks, watches>>
vars == <<registers, flags, pc, mode, left, reason, ledger>>

Slots == 1 .. NumSlots
Off == -1

\* The exceptions, by urgency as in lm32_cpu_mico32.h.
BREAKPOINT == 1
IBUSERROR  == 2
WATCHPOINT == 3
DBUSERROR  == 4
DIVZERO    == 5
SYSCALL    == 7

ExcId    == {BREAKPOINT, IBUSERROR, WATCHPOINT, DBUSERROR, DIVZERO, SYSCALL}
DebugExc == {BREAKPOINT, WATCHPOINT}
BusError == {IBUSERROR, DBUSERROR}

\* A DC field holds two bits, one for each access; none is Disabled.
Access == {"read", "write"}
Kind == (SUBSET Access) \ {{}}   \* LM32_WP_BREAK_ON_READ, ON_WRITE, ALWAYS

ASSUME SessionAssumption ==
    /\ NumSlots \in Nat \ {0}
    /\ Code \subseteq Int /\ Off \notin Code
    /\ Bad \subseteq Data /\ 0 \in Data   \* 0: the reset value of WP0, WP1, ...

Lowest(S) == {i \in S : \A j \in S : i <= j}

-----------------------------------------------------------------------------
(* Break- and watchpoint commands: the first register that will do.         *)

\* FreeBreaks with the last register as the one to take when none is free.
FreeBreaksOrLast == {i \in Slots : bp[i] = Off \/ i = NumSlots}
FreeBreaks == {i \in Slots : bp[i] = Off}

SetHwBp(a) ==
    /\ \E i \in Lowest(FreeBreaks) : bp' = [bp EXCEPT ![i] = a]
    /\ breaks' = [breaks EXCEPT ![a] = @ + 1]
    /\ UNCHANGED <<dc, wp, flags, pc, mode, left, reason, watches>>

ClearHwBp(a) ==
    /\ \E i \in Lowest({j \in Slots : bp[j] = a}) : bp' = [bp EXCEPT ![i] = Off]
    /\ breaks' = [breaks EXCEPT ![a] = @ - 1]
    /\ UNCHANGED <<dc, wp, flags, pc, mode, left, reason, watches>>

SetHwWp(k, a) ==
    /\ \E i \in Lowest({j \in Slots : dc[j] = {}}) :
          dc' = [dc EXCEPT ![i] = k] /\ wp' = [wp EXCEPT ![i] = a]
    /\ watches' = [watches EXCEPT ![<<k, a>>] = @ + 1]
    /\ UNCHANGED <<bp, flags, pc, mode, left, reason, breaks>>

\* FoundWatches without the comparison of the address.
FoundWatchesByKind(k, a) == {i \in Slots : i = 1 /\ dc[i] = k}

\* Every field of DC is compared with the kind shifted to the field C0.
FoundWatches(k, a) == {i \in Slots : i = 1 /\ dc[i] = k /\ wp[i] = a}

ClearHwWp(k, a) ==
    /\ \E i \in Lowest(FoundWatches(k, a)) : dc' = [dc EXCEPT ![i] = {}]
    /\ watches' = [watches EXCEPT ![<<k, a>>] = @ - 1]
    /\ UNCHANGED <<bp, wp, flags, pc, mode, left, reason, breaks>>

(* Memory commands go through the accesses of the guest: the same watch-    *)
(* point comparison; a bus error is suppressed for a read only.             *)

Watched(op, a) == \E i \in Slots : op \in dc[i] /\ wp[i] = a
Hit(op, a) == IF Watched(op, a) THEN {WATCHPOINT} ELSE {}

ReadMem(a) ==
    /\ flags' = flags \cup (IF a \in Bad THEN {} ELSE Hit("read", a))
    /\ left' = left \cup (IF a \in Bad THEN {} ELSE Hit("read", a))
    /\ UNCHANGED <<registers, pc, mode, reason, ledger>>

WriteMem(a) ==
    /\ flags' = flags \cup (IF a \in Bad THEN {DBUSERROR} ELSE Hit("write", a))
    /\ left' = left \cup (IF a \in Bad THEN {} ELSE Hit("write", a))
    /\ UNCHANGED <<registers, pc, mode, reason, ledger>>

\* G writes one and the same number, made of every second character of the
\* command, to all registers; P writes none, and is no step.
SetRegs(a) ==
    /\ pc' = a
    /\ UNCHANGED <<registers, flags, mode, left, reason, ledger>>

\* c and s, with or without an address; the next reason is the run's.
Resume(how, a) ==
    /\ mode' = how
    /\ pc' = a /\ reason' = "none"
    /\ UNCHANGED <<registers, flags, left, ledger>>

\* D and k
Detach ==
    /\ mode' = "over"
    /\ UNCHANGED <<registers, flags, pc, left, reason, ledger>>

Command ==
    /\ mode = "stopped"
    /\ \/ \E a \in Code : SetHwBp(a) \/ ClearHwBp(a) \/ SetRegs(a)
       \/ \E k \in Kind, a \in Data : SetHwWp(k, a) \/ ClearHwWp(k, a)
       \/ \E a \in Data : ReadMem(a) \/ WriteMem(a)
       \/ \E how \in {"continue", "step"} : Resume(how, pc) \/ \E a \in Code : Resume(how, a)
       \/ Detach

-----------------------------------------------------------------------------
(* One iteration of lm32_run_program(), and lm32gdb_run_cpu() after the last *)

\* Status that looks at what a step has hit last of all, or takes a step for
\* done only once no exception is pending.
StatusStepFirst(f) ==
    IF mode = "step" THEN "SINGLE_STEP"
    ELSE IF BREAKPOINT \in f THEN "HW_BREAKPOINT"
    ELSE IF WATCHPOINT \in f THEN "HW_WATCHPOINT"
    ELSE IF DIVZERO \in f THEN "DIV_ZERO"
    ELSE IF f \cap BusError # {} THEN "BUS_ERROR" ELSE "NONE"
StatusStepUnlessPending(f) ==
    IF BREAKPOINT \in f THEN "HW_BREAKPOINT"
    ELSE IF WATCHPOINT \in f THEN "HW_WATCHPOINT"
    ELSE IF DIVZERO \in f THEN "DIV_ZERO"
    ELSE IF f \cap BusError # {} THEN "BUS_ERROR"
    ELSE IF mode = "step" /\ f = {} THEN "SINGLE_STEP" ELSE "NONE"

\* The break conditions that follow the one on a lock instruction, in order.
Status(f) ==
    IF BREAKPOINT \in f THEN "HW_BREAKPOINT"
    ELSE IF WATCHPOINT \in f THEN "HW_WATCHPOINT"
    ELSE IF DIVZERO \in f THEN "DIV_ZERO"
    ELSE IF f \cap BusError # {} THEN "BUS_ERROR"
    ELSE IF mode = "step" THEN "SINGLE_STEP" ELSE "NONE"

Signal(status) ==
    CASE status = "LOCK"      -> "SIGTERM"
      [] status = "DIV_ZERO"  -> "SIGFPE"
      [] status = "BUS_ERROR" -> "SIGSEGV"
      [] OTHER                -> "SIGTRAP"

\* Cleared of every reason.
ClearedAll(status) ==
    CASE status = "HW_BREAKPOINT" -> {BREAKPOINT}
      [] status = "HW_WATCHPOINT" -> {WATCHPOINT}
      [] status = "BUS_ERROR"     -> BusError
      [] status = "DIV_ZERO"      -> {DIVZERO}
      [] OTHER                    -> {}

\* What the stub clears before the processor can act upon it.
Cleared(status) ==
    CASE status = "HW_BREAKPOINT" -> {BREAKPOINT}
      [] status = "HW_WATCHPOINT" -> {WATCHPOINT}
      [] OTHER                    -> {}

\* What a stop may have hidden: it is reported before these are looked at.
Hidden(status) ==
    IF status = "LOCK" THEN DebugExc
    ELSE IF status = "HW_BREAKPOINT" THEN {WATCHPOINT} ELSE {}

Executed(f, next, status) ==
    /\ pc' = next
    /\ flags' = f \ Cleared(status)
    /\ left' = Hidden(status)
    /\ IF status = "NONE" THEN UNCHANGED <<mode, reason>>
       ELSE mode' = "stopped" /\ reason' = Signal(status)
    /\ UNCHANGED <<registers, ledger>>

\* Where the instruction is: an exception leads to its handler first, and the
\* vector tables may lie anywhere.
Reached == IF flags = {} THEN {pc} ELSE Code

Armed(a) == \E i \in Slots : bp[i] = a

\* The flags when the instruction itself starts: dispatch, then the breakpoint.
Dispatched(a) ==
    (flags \ Lowest(flags)) \cup (IF Armed(a) THEN {BREAKPOINT} ELSE {})

Fetched(a) == Dispatched(a) \cup Hit("read", a)
Completes(f, next) == Executed(f, next, Status(f))
Continues(f, a) == a + 1 \in Code /\ Completes(f, a + 1)    \* in words

\* Arithmetic, branches, csr accesses
Plain(a) == \E next \in Code : Completes(Fetched(a), next)

LoadStore(a) ==
    \E op \in Access, x \in Data :
        Continues(Fetched(a) \cup (IF x \in Bad THEN {DBUSERROR} ELSE Hit(op, x)), a)

\* scall, break; pc stays.
Raise(a) == \E id \in {SYSCALL, BREAKPOINT} : Completes(Fetched(a) \cup {id}, a)

\* Division by zero, a reserved opcode
Fault(a) == \E id \in {DIVZERO, IBUSERROR} : Continues(Fetched(a) \cup {id}, a)

\* A fetch from outside memory: no watchpoint is compared.
FetchFails(a) == Continues(Dispatched(a) \cup {IBUSERROR}, a)

\* A branch to itself ends the run before anything else is looked at.
Lock(a) == Executed(Fetched(a), a, "LOCK")

Execute ==
    /\ mode \in {"continue", "step"}
    /\ \E a \in Reached :
          Plain(a) \/ LoadStore(a) \/ Raise(a) \/ Fault(a) \/ FetchFails(a) \/ Lock(a)

Over == mode = "over" /\ UNCHANGED vars

Init ==
    /\ bp = [i \in Slots |-> Off]
    /\ dc = [i \in Slots |-> {}] /\ wp = [i \in Slots |-> 0]
    /\ flags = {} /\ pc \in Code
    /\ mode = "stopped" /\ left = {} /\ reason = "none"
    /\ breaks = [a \in Code |-> 0]
    /\ watches = [x \in Kind \X Data |-> 0]

Next == Command \/ Execute \/ Over

Spec == Init /\ [][Next]_vars

\* The run loop runs on.
FairSpec == Spec /\ WF_vars(Execute)

-----------------------------------------------------------------------------
(* Types of the registers, the run and the host's ledger.                   *)
TypeOK ==
    /\ bp \in [Slots -> Code \cup {Off}]
    /\ dc \in [Slots -> SUBSET Access] /\ wp \in [Slots -> Data]
    /\ flags \subseteq ExcId /\ pc \in Code
    /\ mode \in {"stopped", "continue", "step", "over"}
    /\ left \subseteq DebugExc
    /\ reason \in {"none", "SIGTRAP", "SIGTERM", "SIGFPE", "SIGSEGV"}
    /\ breaks \in [Code -> Nat] /\ watches \in [Kind \X Data -> Nat]

(* The host can trust the OK it is answered: after any sequence of commands *)
(* an address is armed in as many registers as the host has asked for and   *)
(* not taken back, so no command overwrites or frees another's register.    *)
BreaksArmed == \A a \in Code : breaks[a] = Cardinality({i \in Slots : bp[i] = a})
WatchesArmed ==
    \A x \in Kind \X Data :
        watches[x] = Cardinality({i \in Slots : dc[i] = x[1] /\ wp[i] = x[2]})
ArmedAsAgreed == BreaksArmed /\ WatchesArmed

(* The stub clears the flags of break- and watchpoints so that they can be  *)
(* used "obviating the need for handlers in the code being debugged". Its   *)
(* limits: the guest's handler is entered for a breakpoint only if it lay   *)
(* on the branch to itself that has just stopped the run, for a watchpoint  *)
(* only if the stop was for that or for a breakpoint, or the host has since *)
(* read or written what it watches; never for one reported, nor for one of  *)
(* an earlier stop.                                                         *)
GuestTakesOnlyLeft == [][Execute => Lowest(flags) \cap DebugExc \subseteq left]_vars

(* A fault the host is told of is still there when it resumes, whatever it  *)
(* does in between: the guest's handler will see it.                        *)
FaultPending ==
    mode = "stopped" =>
        /\ reason = "SIGSEGV" => flags \cap BusError # {}
        /\ reason = "SIGFPE" => DIVZERO \in flags

(* A single step is answered: the run it starts comes to an end.            *)
StepAnswered == mode = "step" ~> mode = "stopped"

(* lm32gdb_clear_hw_wp() says that a "matching hardware watchpoint is       *)
(* searched for" in C[0:3] and WP[0:3]: what the host has set, it finds.    *)
WatchesFound ==
    \A x \in Kind \X Data : watches[x] > 0 => FoundWatches(x[1], x[2]) # {}
=============================================================================

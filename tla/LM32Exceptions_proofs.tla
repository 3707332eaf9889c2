----------------------- MODULE LM32Exceptions_proofs -----------------------
(***************************************************************************)
(* Theorems about LM32Exceptions, for every value of its constants that    *)
(* meets ConfigAssumption and LayoutAssumption.                            *)
(*                                                                         *)
(* Every instruction goes the same way: poll, dispatch, fetch, execute,    *)
(* spend cycles.  The lemmas follow that way, one per stage, for the type  *)
(* of the CPU state and then for Safe, the inductive strengthening of      *)
(* UserCodeUnprivileged and UserContextWhole.                              *)
(***************************************************************************)
EXTENDS LM32Exceptions, TLAPS

-----------------------------------------------------------------------------
(* Type correctness *)

(* A vector address is an address. *)
LEMMA VectorType ==
    ASSUME NEW base \in Int, NEW id \in ExcId
    PROVE  Vector(base, id) \in Int
BY SMT DEF Vector, ExcId

(* The poll keeps the CPU state's type. *)
LEMMA PolledType ==
    ASSUME cpu \in CpuState, NEW p \in PolledStates
    PROVE  p \in CpuState
<1>1. CASE ~Due
  BY <1>1 DEF PolledStates
<1>2. CASE Due
  <2>1. PICK irqs \in SUBSET Irq : p = Polled(irqs)
    BY <1>2 DEF PolledStates
  <2>2. Granularity \in Nat
    BY ConfigAssumption
  <2> DEFINE c == [cpu EXCEPT !.ip = @ \cup irqs, !.wake = Granularity]
             flag == IF "IE" \in c.now /\ Pending(c) THEN {EXTINT} ELSE {}
  <2>3. c \in CpuState
    BY <2>2 DEF CpuState
  <2>4. flag \subseteq ExcId /\ c.int_flags \subseteq ExcId
    BY <2>3 DEF CpuState, ExcId, EXTINT
  <2>5. p = [c EXCEPT !.int_flags = (@ \ {EXTINT}) \cup flag]
    BY <2>1 DEF Polled
  <2> QED
    BY <2>3, <2>4, <2>5 DEF CpuState
<1> QED
  BY <1>1, <1>2

(* So does entering an exception. *)
LEMMA InterruptType ==
    ASSUME NEW c \in CpuState, NEW id \in ExcId
    PROVE  Interrupt(c, id) \in CpuState
<1>1. /\ EntryPoint \in Int
      /\ 0 \in Int
  BY LayoutAssumption
<1>2. ASSUME NEW s \in CpuState PROVE EnterException(s, id) \in CpuState
  <2>1. Vector(IF s.remap THEN s.deba ELSE s.eba, id) \in Int
    BY VectorType DEF CpuState
  <2>2. ReturnPc(s, id) \in Int
    BY DEF ReturnPc, CpuState
  <2> QED
    BY <2>1, <2>2 DEF EnterException, CpuState
<1>3. EnterDebug(c, id) \in CpuState
  <2>1. Vector(c.deba, id) \in Int
    BY VectorType DEF CpuState
  <2> QED
    BY <2>1 DEF EnterDebug, CpuState
<1>4. InternalReset(c) \in CpuState
  BY <1>1 DEF InternalReset, CpuState
<1> QED
  BY <1>2, <1>3, <1>4 DEF Interrupt

(* What dispatch yields is an exception, or none, and a CPU state. *)
LEMMA DispatchedType ==
    ASSUME NEW c \in CpuState, NEW d \in Dispatched(c)
    PROVE  d.id \in ExcId \cup {NONE} /\ d.c \in CpuState
<1>1. CASE c.int_flags = {}
  BY <1>1 DEF Dispatched
<1>2. CASE c.int_flags # {}
  <2>1. PICK id \in MostUrgent(c.int_flags) : d = [id |-> id, c |-> Interrupt(c, id)]
    BY <1>2 DEF Dispatched
  <2>2. id \in ExcId
    BY DEF MostUrgent, CpuState
  <2> QED
    BY <2>1, <2>2, InterruptType
<1> QED
  BY <1>1, <1>2

(* Raising flags keeps the type. *)
LEMMA RaiseType ==
    ASSUME NEW c \in CpuState, NEW ids \in SUBSET ExcId
    PROVE  Raise(c, ids) \in CpuState
BY DEF Raise, CpuState

(* The faults of a build are exceptions. *)
LEMMA FaultsType ==
    Faults \subseteq ExcId /\ IBUSERROR \in ExcId /\ WATCHPOINT \in ExcId /\ BREAKPOINT \in ExcId
BY ConfigAssumption DEF ExcId, IBUSERROR, WATCHPOINT, DBUSERROR, ITLB_MISS, DTLB_MISS,
   DTLB_FAULT, BREAKPOINT

(* A fetch changes no more than the flags. *)
LEMMA FetchRaises ==
    ASSUME NEW c \in CpuState, NEW f \in Fetch(HwBreak(c))
    PROVE  \E ids \in SUBSET ExcId : f.c = Raise(c, ids)
<1>1. PICK b \in SUBSET ExcId : HwBreak(c) = Raise(c, b)
  <2>1. CASE c.pc \in c.bp
    BY <2>1, FaultsType DEF HwBreak
  <2>2. CASE c.pc \notin c.bp
    <3>1. HwBreak(c) = Raise(c, {})
      BY <2>2 DEF HwBreak, Raise, CpuState
    <3> QED
      BY <3>1
  <2> QED
    BY <2>1, <2>2
<1>2. PICK w \in SUBSET ExcId : f.c = Raise(HwBreak(c), w)
  <2>1. CASE \E w \in WatchHits(HwBreak(c)) : f = [ok |-> TRUE, c |-> Raise(HwBreak(c), w)]
    BY <2>1, FaultsType DEF WatchHits
  <2>2. CASE \E x \in FetchFaults(HwBreak(c)) : f = [ok |-> FALSE, c |-> Raise(HwBreak(c), {x})]
    BY <2>2, FaultsType DEF FetchFaults
  <2> QED
    BY <2>1, <2>2 DEF Fetch
<1>3. Raise(Raise(c, b), w) = Raise(c, b \cup w)
  BY DEF Raise, CpuState
<1> QED
  BY <1>1, <1>2, <1>3

(* The stages of Fetched, taken apart. *)
LEMMA FetchedStages ==
    ASSUME NEW f \in Fetched
    PROVE  \E p \in PolledStates : \E d \in Dispatched(p) : \E g \in Fetch(HwBreak(d.c)) :
               f = [id |-> d.id, flags |-> d.c.int_flags, ok |-> g.ok, c |-> g.c]
BY DEF Fetched

(* The CPU state an instruction starts from is one. *)
LEMMA FetchedType ==
    ASSUME cpu \in CpuState, NEW f \in Fetched
    PROVE  f.id \in ExcId \cup {NONE} /\ f.c \in CpuState
<1>1. PICK p \in PolledStates : \E d \in Dispatched(p) : \E g \in Fetch(HwBreak(d.c)) :
               f = [id |-> d.id, flags |-> d.c.int_flags, ok |-> g.ok, c |-> g.c]
  BY FetchedStages
<1>2. PICK d \in Dispatched(p) : \E g \in Fetch(HwBreak(d.c)) :
               f = [id |-> d.id, flags |-> d.c.int_flags, ok |-> g.ok, c |-> g.c]
  BY <1>1
<1>3. PICK g \in Fetch(HwBreak(d.c)) :
               f = [id |-> d.id, flags |-> d.c.int_flags, ok |-> g.ok, c |-> g.c]
  BY <1>2
<1>4. d.id \in ExcId \cup {NONE} /\ d.c \in CpuState
  BY PolledType, DispatchedType
<1>5. g.c \in CpuState
  BY <1>4, FetchRaises, RaiseType
<1> QED
  BY <1>3, <1>4, <1>5

(* A completed instruction leaves the types right if what it computed does. *)
LEMMA CompleteType ==
    ASSUME cpu \in CpuState, NEW f \in Fetched, NEW next \in CpuState,
           NEW untrusted \in SUBSET {"ea", "ba"}, Complete(f, next, untrusted)
    PROVE  TypeOK'
<1>1. PICK n \in Cycles : cpu' = Spend(next, n)
  BY DEF Complete
<1>2. n \in Nat \ {0}
  BY ConfigAssumption
<1>3. cpu' \in CpuState
  <2>1. (IF next.wake > n THEN next.wake - n ELSE 0) \in Nat
    BY <1>2 DEF CpuState
  <2> QED
    BY <1>1, <2>1 DEF Spend, CpuState
<1>4. entered' \in ExcId \cup {NONE} /\ forged' \subseteq {"ea", "ba"}
  BY FetchedType DEF Complete
<1> QED
  BY <1>3, <1>4 DEF TypeOK

(* The return registers not to be trusted after an entry are return registers. *)
LEMMA KeptType ==
    ASSUME forged \subseteq {"ea", "ba"}, NEW f
    PROVE  Kept(f) \subseteq {"ea", "ba"}
BY DEF Kept

(* What loads and stores compute. *)
LEMMA AccessedType ==
    ASSUME NEW c \in CpuState, NEW write \in BOOLEAN, NEW next \in Accessed(c, write)
    PROVE  \E ids \in SUBSET ExcId : next = Seq(Raise(c, ids))
<1>1. CASE \E w \in WatchHits(c) : next = Seq(Raise(c, w))
  BY <1>1, FaultsType DEF WatchHits
<1>2. CASE \E x \in DataFaults(c, write) : next = Seq(Raise(c, {x}))
  BY <1>2, FaultsType DEF DataFaults
<1> QED
  BY <1>1, <1>2 DEF Accessed

(* So does moving on to the next word. *)
LEMMA SeqType ==
    ASSUME NEW c \in CpuState
    PROVE  Seq(c) \in CpuState
BY DEF Seq, CpuState

(* So do eret and bret. *)
LEMMA ReturnType ==
    ASSUME NEW c \in CpuState
    PROVE  ReturnFromException(c) \in CpuState /\ ReturnFromBreak(c) \in CpuState
BY DEF ReturnFromException, ReturnFromBreak, CpuState

(* Arming and disarming watchpoints keeps the type. *)
LEMMA WpWritesType ==
    ASSUME NEW c \in CpuState, NEW w \in WpWrites(c)
    PROVE  w \in CpuState
<1>1. PICK watch \in BOOLEAN : w = [c EXCEPT !.wp = watch]
  BY DEF WpWrites
<1> QED
  BY <1>1 DEF CpuState

(* What wcsr computes. *)
LEMMA CsrWritesType ==
    ASSUME NEW c \in CpuState, NEW next \in CsrWrites(c)
    PROVE  next \in CpuState
<1> PICK w \in CsrWritesAny(c) : next = Seq(w)
  BY DEF CsrWrites
<1> SUFFICES w \in CpuState
  BY SeqType
<1>1. EbaValues \subseteq Int /\ DebaValues \subseteq Int
  BY LayoutAssumption
<1>2. ASSUME NEW S \in SUBSET ModeBit, NEW on \in BOOLEAN PROVE SetBit(S, on) \in SUBSET ModeBit
  BY DEF SetBit, ModeBit
<1>3. CASE w \in {WriteIE(c, on, "IE" \in c.exc, "IE" \in c.brk) : on \in BOOLEAN}
  <2>1. PICK on \in BOOLEAN : w = WriteIE(c, on, "IE" \in c.exc, "IE" \in c.brk)
    BY <1>3
  <2>2. c.now \in SUBSET ModeBit /\ c.exc \in SUBSET ModeBit /\ c.brk \in SUBSET ModeBit
    BY DEF CpuState
  <2>3. ("IE" \in c.exc) \in BOOLEAN /\ ("IE" \in c.brk) \in BOOLEAN
    OBVIOUS
  <2>4. /\ SetBit(c.now, on) \in SUBSET ModeBit
        /\ SetBit(c.exc, "IE" \in c.exc) \in SUBSET ModeBit
        /\ SetBit(c.brk, "IE" \in c.brk) \in SUBSET ModeBit
    BY <1>2, <2>2, <2>3
  <2> QED
    BY <2>1, <2>4 DEF WriteIE, CpuState
<1>4. CASE w \in {WritePSW(c, c.now, exc, brk) : exc \in {c.exc, ModeBit}, brk \in {c.brk, ModeBit}}
  <2>1. PICK exc \in SUBSET ModeBit, brk \in SUBSET ModeBit : w = WritePSW(c, c.now, exc, brk)
    BY <1>4 DEF CpuState
  <2> QED
    BY <2>1 DEF WritePSW, CpuState
<1>5. CASE w \in {[c EXCEPT !.im = mask] : mask \in SUBSET Irq}
  BY <1>5 DEF CpuState
<1>6. CASE w \in {[c EXCEPT !.ip = @ \ clear] : clear \in SUBSET Irq}
  BY <1>6 DEF CpuState
<1>7. CASE w \in {[c EXCEPT !.eba = base] : base \in EbaValues}
  BY <1>1, <1>7 DEF CpuState
<1>8. CASE w \in {[c EXCEPT !.deba = base] : base \in DebaValues}
  BY <1>1, <1>8 DEF CpuState
<1>9. CASE w \in RemapWrites(c) \cup WpWrites(c)
  BY <1>9, WpWritesType DEF RemapWrites, CpuState
<1>10. CASE w \in {[c EXCEPT !.bp = armed] : armed \in SUBSET HwBp}
  BY <1>10 DEF CpuState
<1> QED
  BY <1>3, <1>4, <1>5, <1>6, <1>7, <1>8, <1>9, <1>10 DEF CsrWritesAny

(* A CPU at power-up is well typed. *)
LEMMA InitType == Init => TypeOK
<1> SUFFICES ASSUME Init PROVE TypeOK
  OBVIOUS
<1>1. EntryPoint \in Int /\ Targets \subseteq Int
  BY LayoutAssumption
<1>2. cpu \in CpuState
  <2> USE DEF Init
  <2>1. cpu = [int_flags |-> cpu.int_flags, now |-> cpu.now, exc |-> cpu.exc,
               brk |-> cpu.brk, im |-> cpu.im, ip |-> cpu.ip, pc |-> cpu.pc,
               ea |-> cpu.ea, ba |-> cpu.ba, eba |-> cpu.eba, deba |-> cpu.deba,
               remap |-> cpu.remap, bp |-> cpu.bp, wp |-> cpu.wp, wake |-> cpu.wake]
    OBVIOUS
  <2>2. /\ cpu.int_flags = {} /\ cpu.now = {} /\ cpu.exc = {} /\ cpu.brk = {}
        /\ cpu.im = {} /\ cpu.ip = {} /\ cpu.bp = {}
        /\ cpu.pc \in Int /\ cpu.ea \in Int /\ cpu.ba \in Int
        /\ cpu.eba = 0 /\ cpu.deba = 0 /\ cpu.wake = 0
    BY <1>1
  <2>3. cpu.remap \in BOOLEAN /\ cpu.wp \in BOOLEAN
    OBVIOUS
  <2> HIDE DEF Init
  <2> QED
    BY <2>1, <2>2, <2>3 DEF CpuState
<1> QED
  BY <1>2 DEF Init, TypeOK

(* Every step keeps the types: one step per action. *)
LEMMA NextType == TypeOK /\ [Next]_vars => TypeOK'
<1> SUFFICES ASSUME TypeOK, [Next]_vars PROVE TypeOK'
  OBVIOUS
<1>0. cpu \in CpuState /\ forged \subseteq {"ea", "ba"}
  BY DEF TypeOK
<1>a. Targets \subseteq Int
  BY LayoutAssumption
\* Enough for an instruction: what it computes is a CPU state.
<1>b. ASSUME NEW f \in Fetched, NEW next \in CpuState, Instruction(f, next)
      PROVE  TypeOK'
  BY <1>0, <1>b, KeptType, CompleteType DEF Instruction
<1>1. CASE Plain
  BY <1>0, <1>1, <1>b, FetchedType, SeqType DEF Plain
<1>2. CASE Jump
  <2>1. PICK f \in Fetched, x \in Targets : Instruction(f, [f.c EXCEPT !.pc = x])
    BY <1>2 DEF Jump
  <2>2. [f.c EXCEPT !.pc = x] \in CpuState
    BY <1>0, <1>a, FetchedType DEF CpuState
  <2> QED
    BY <2>1, <2>2, <1>b
<1>3. CASE Load
  <2>1. PICK f \in Fetched : \E next \in Accessed(f.c, FALSE) : Instruction(f, next)
    BY <1>3 DEF Load
  <2>2. PICK next \in Accessed(f.c, FALSE) : Instruction(f, next)
    BY <2>1
  <2>3. f.c \in CpuState
    BY <1>0, FetchedType
  <2>4. PICK ids \in SUBSET ExcId : next = Seq(Raise(f.c, ids))
    BY <2>3, AccessedType
  <2>5. next \in CpuState
    BY <2>3, <2>4, RaiseType, SeqType
  <2> QED
    BY <2>2, <2>5, <1>b
<1>4. CASE Store
  <2>1. PICK f \in Fetched : \E next \in Accessed(f.c, TRUE) : Instruction(f, next)
    BY <1>4 DEF Store
  <2>2. PICK next \in Accessed(f.c, TRUE) : Instruction(f, next)
    BY <2>1
  <2>3. f.c \in CpuState
    BY <1>0, FetchedType
  <2>4. PICK ids \in SUBSET ExcId : next = Seq(Raise(f.c, ids))
    BY <2>3, AccessedType
  <2>5. next \in CpuState
    BY <2>3, <2>4, RaiseType, SeqType
  <2> QED
    BY <2>2, <2>5, <1>b
<1>5. {SYSCALL} \subseteq ExcId /\ {BREAKPOINT} \subseteq ExcId /\ {IBUSERROR} \subseteq ExcId
      /\ {DIVZERO} \subseteq ExcId /\ {PRIV_ACCESS} \subseteq ExcId
  BY DEF ExcId, SYSCALL, BREAKPOINT, IBUSERROR, DIVZERO, PRIV_ACCESS
<1>6. CASE Scall \/ Break \/ Refused
  BY <1>0, <1>5, <1>6, <1>b, FetchedType, RaiseType DEF Scall, Break, Refused
<1>7. CASE Reserved \/ DivideByZero
  BY <1>0, <1>5, <1>7, <1>b, FetchedType, RaiseType, SeqType DEF Reserved, DivideByZero
<1>8. CASE Eret \/ Bret
  BY <1>0, <1>8, FetchedType, ReturnType, KeptType, CompleteType DEF Eret, Bret
<1>9. CASE Wcsr
  BY <1>0, <1>9, <1>b, FetchedType, CsrWritesType DEF Wcsr
<1>10. CASE WriteEA
  <2>1. PICK f \in Fetched, x \in Targets :
          LET next == Seq([f.c EXCEPT !.ea = x]) IN
          Complete(f, next, IF User(f.c) THEN Kept(f) \cup {"ea"} ELSE Kept(f) \ {"ea"})
    BY <1>10 DEF WriteEA
  <2>2. [f.c EXCEPT !.ea = x] \in CpuState
    BY <1>0, <1>a, FetchedType DEF CpuState
  <2> QED
    BY <1>0, <2>1, <2>2, SeqType, KeptType, CompleteType
<1>11. CASE WriteBA
  <2>1. PICK f \in Fetched, x \in Targets :
          LET next == Seq([f.c EXCEPT !.ba = x]) IN
          Complete(f, next, IF User(f.c) THEN Kept(f) \cup {"ba"} ELSE Kept(f) \ {"ba"})
    BY <1>11 DEF WriteBA
  <2>2. [f.c EXCEPT !.ba = x] \in CpuState
    BY <1>0, <1>a, FetchedType DEF CpuState
  <2> QED
    BY <1>0, <2>1, <2>2, SeqType, KeptType, CompleteType
<1>12. CASE Terminate
  BY <1>0, <1>12 DEF Terminate, TypeOK, CpuState
<1>13. CASE ResetPin
  <2>1. {RESET} \subseteq ExcId
    BY DEF RESET, ExcId
  <2> QED
    BY <1>0, <1>13, <2>1, RaiseType DEF ResetPin, TypeOK
<1>14. CASE SetHwDebug
  <2>1. cpu' \in CpuState
    BY <1>0, <1>14, WpWritesType DEF SetHwDebug, CpuState
  <2> QED
    BY <1>0, <1>14, <2>1 DEF SetHwDebug, TypeOK
<1>15. CASE Idle \/ UNCHANGED vars
  BY <1>15 DEF Idle, vars, TypeOK
<1> QED
  BY <1>1, <1>2, <1>3, <1>4, <1>6, <1>7, <1>8, <1>9, <1>10, <1>11, <1>12, <1>13, <1>14, <1>15
  DEF Next, Execute

(* The CPU state keeps its type in every behaviour of the simulator: no      *)
(* combination of exceptions sets a flag or a mode bit that does not exist.  *)
THEOREM TypeCorrect == Spec => []TypeOK
<1>1. Init => TypeOK
  BY InitType
<1>2. TypeOK /\ [Next]_vars => TypeOK'
  BY NextType
<1> QED
  BY <1>1, <1>2, PTL DEF Spec

-----------------------------------------------------------------------------
(* Privilege *)

(* A poll touches nothing Safe speaks of. *)
LEMMA PolledSafe ==
    ASSUME TypeOK, ContextsPaired, NEW p \in PolledStates
    PROVE  Safe(p, forged)
<1>1. CASE ~Due
  BY <1>1 DEF PolledStates, ContextsPaired
<1>2. CASE Due
  <2>1. PICK irqs \in SUBSET Irq : p = Polled(irqs)
    BY <1>2 DEF PolledStates
  <2>2. p.pc = cpu.pc /\ p.ea = cpu.ea /\ p.ba = cpu.ba
        /\ p.now = cpu.now /\ p.exc = cpu.exc /\ p.brk = cpu.brk
    BY <2>1 DEF Polled, TypeOK, CpuState
  <2> QED
    BY <2>2 DEF ContextsPaired, Safe, User
<1> QED
  BY <1>1, <1>2

(* The vector bases stay within the programmed ones. *)
BasesProgrammed(c) == c.eba \in EbaValues /\ c.deba \in DebaValues

(* A vector is kernel memory. *)
LEMMA VectorIsKernel ==
    ASSUME NEW base \in EbaValues \cup DebaValues, NEW id \in ExcId
    PROVE  Vector(base, id) \notin UserCode /\ Vector(base, id) - 1 \notin UserCode
BY LayoutAssumption DEF KernelAddress

(* Entering an exception pairs the return register it loads with the bits it *)
(* saves, also when the return address is one word back.                     *)
LEMMA EnterExceptionSafe ==
    ASSUME NEW c \in CpuState, BasesProgrammed(c), NEW untrusted, Safe(c, untrusted),
           NEW id \in ExcId
    PROVE  Safe(EnterException(c, id), untrusted \ {"ea"})
<1> DEFINE d == EnterException(c, id)
<1>1. /\ d.now = {} /\ d.exc = c.now /\ d.brk = c.brk
      /\ d.ea = ReturnPc(c, id) /\ d.ba = c.ba
      /\ d.pc = Vector(IF c.remap THEN c.deba ELSE c.eba, id)
  BY DEF EnterException, CpuState
<1>2. d.pc \notin UserCode /\ d.pc - 1 \notin UserCode
  BY <1>1, VectorIsKernel DEF BasesProgrammed
<1>3. Paired(d.ea, d.exc)
  BY <1>1 DEF ReturnPc, Safe, Paired, User
<1> QED
  BY <1>1, <1>2, <1>3 DEF Safe, Paired, Whole, User

(* A break or watchpoint pairs ba with the B bits, and leaves ea alone. *)
LEMMA EnterDebugSafe ==
    ASSUME NEW c \in CpuState, BasesProgrammed(c), NEW untrusted, Safe(c, untrusted),
           NEW id \in ExcId
    PROVE  Safe(EnterDebug(c, id), untrusted \ {"ba"})
<1> DEFINE d == EnterDebug(c, id)
<1>1. /\ d.now = {} /\ d.exc = c.exc /\ d.brk = c.now
      /\ d.ea = c.ea /\ d.ba = c.pc
      /\ d.pc = Vector(c.deba, id)
  BY DEF EnterDebug, CpuState
<1>2. d.pc \notin UserCode /\ d.pc - 1 \notin UserCode
  BY <1>1, VectorIsKernel DEF BasesProgrammed
<1> QED
  BY <1>1, <1>2 DEF Safe, Paired, Whole, User

(* A reset leaves no user address the kernel may trust. *)
LEMMA InternalResetSafe ==
    ASSUME NEW c \in CpuState
    PROVE  /\ Safe(InternalReset(c), {"ea", "ba"})
           /\ BasesProgrammed(InternalReset(c))
<1> DEFINE d == InternalReset(c)
<1>1. d.now = {} /\ d.exc = {} /\ d.brk = {} /\ d.pc = EntryPoint /\ d.eba = 0 /\ d.deba = 0
  BY DEF InternalReset, CpuState
<1>2. EntryPoint \notin UserCode /\ EntryPoint - 1 \notin UserCode
  BY LayoutAssumption DEF KernelAddress
<1>3. 0 \in EbaValues /\ 0 \in DebaValues
  BY LayoutAssumption
<1> QED
  BY <1>1, <1>2, <1>3 DEF Safe, Paired, Whole, User, BasesProgrammed

(* Safe asks for less when fewer registers are trusted. *)
LEMMA SafeWeaken ==
    ASSUME NEW c, NEW few, NEW many, Safe(c, few), few \subseteq many
    PROVE  Safe(c, many)
BY DEF Safe

(* Dispatch pairs what it loads; after a reset ba is not trusted. *)
LEMMA DispatchedSafe ==
    ASSUME NEW c \in CpuState, BasesProgrammed(c), Safe(c, forged), NEW d \in Dispatched(c)
    PROVE  /\ Safe(d.c, (forged \ Loaded(d.id)) \cup (IF d.id = RESET THEN {"ba"} ELSE {}))
           /\ BasesProgrammed(d.c)
<1>1. CASE c.int_flags = {}
  <2>1. d.id = NONE /\ d.c = c
    BY <1>1 DEF Dispatched
  <2> QED
    BY <2>1, SafeWeaken DEF Loaded, NONE, RESET
<1>2. CASE c.int_flags # {}
  <2>1. PICK id \in MostUrgent(c.int_flags) : d = [id |-> id, c |-> Interrupt(c, id)]
    BY <1>2 DEF Dispatched
  <2>2. id \in ExcId
    BY DEF MostUrgent, CpuState
  <2>3. id # NONE
    BY <2>2 DEF ExcId, NONE
  <2>4. CASE id \in DebugExc
    <3>1. d.id = id /\ d.c = EnterDebug(c, id) /\ Loaded(d.id) = {"ba"} /\ id # RESET
      BY <2>1, <2>3, <2>4 DEF Interrupt, Loaded, DebugExc, RESET, BREAKPOINT, WATCHPOINT
    <3>2. BasesProgrammed(d.c)
      BY <3>1 DEF EnterDebug, BasesProgrammed, CpuState
    <3> QED
      BY <2>2, <3>1, <3>2, EnterDebugSafe, SafeWeaken
  <2>5. CASE id = RESET
    <3>1. d.id = RESET /\ d.c = EnterException(InternalReset(c), RESET) /\ Loaded(d.id) = {"ea"}
      BY <2>1, <2>3, <2>5 DEF Interrupt, Loaded, DebugExc, RESET, BREAKPOINT, WATCHPOINT
    <3>2. InternalReset(c) \in CpuState
      BY LayoutAssumption DEF InternalReset, CpuState
    <3>3. Safe(d.c, {"ea", "ba"} \ {"ea"})
      BY <2>2, <2>5, <3>1, <3>2, InternalResetSafe, EnterExceptionSafe
    <3>4. BasesProgrammed(d.c)
      BY <3>1, <3>2, InternalResetSafe DEF EnterException, BasesProgrammed, CpuState
    <3> QED
      BY <3>1, <3>3, <3>4, SafeWeaken
  <2>6. CASE id \notin DebugExc /\ id # RESET
    <3>1. d.id = id /\ d.c = EnterException(c, id) /\ Loaded(d.id) = {"ea"}
      BY <2>1, <2>3, <2>6 DEF Interrupt, Loaded
    <3>2. BasesProgrammed(d.c)
      BY <3>1 DEF EnterException, BasesProgrammed, CpuState
    <3> QED
      BY <2>2, <2>6, <3>1, <3>2, EnterExceptionSafe, SafeWeaken
  <2> QED
    BY <2>4, <2>5, <2>6
<1> QED
  BY <1>1, <1>2

(* What the privilege theorems ride on. *)
PrivilegeInv == TypeOK /\ ContextsPaired /\ BasesProgrammed(cpu)

(* The three stages before the instruction keep it. *)
LEMMA FetchedSafe ==
    ASSUME PrivilegeInv, NEW f \in Fetched
    PROVE  Safe(f.c, Kept(f)) /\ BasesProgrammed(f.c)
<1>1. PICK p \in PolledStates : \E d \in Dispatched(p) : \E g \in Fetch(HwBreak(d.c)) :
               f = [id |-> d.id, flags |-> d.c.int_flags, ok |-> g.ok, c |-> g.c]
  BY FetchedStages
<1>2. PICK d \in Dispatched(p) : \E g \in Fetch(HwBreak(d.c)) :
               f = [id |-> d.id, flags |-> d.c.int_flags, ok |-> g.ok, c |-> g.c]
  BY <1>1
<1>3. PICK g \in Fetch(HwBreak(d.c)) :
               f = [id |-> d.id, flags |-> d.c.int_flags, ok |-> g.ok, c |-> g.c]
  BY <1>2
<1>4. p \in CpuState /\ Safe(p, forged)
  BY PolledType, PolledSafe DEF PrivilegeInv, TypeOK
<1>5. BasesProgrammed(p)
  <2>1. CASE ~Due
    BY <2>1 DEF PolledStates, PrivilegeInv
  <2>2. CASE Due
    <3>1. PICK irqs \in SUBSET Irq : p = Polled(irqs)
      BY <2>2 DEF PolledStates
    <3>2. p.eba = cpu.eba /\ p.deba = cpu.deba
      BY <3>1 DEF Polled, PrivilegeInv, TypeOK, CpuState
    <3> QED
      BY <3>2 DEF BasesProgrammed, PrivilegeInv
  <2> QED
    BY <2>1, <2>2
<1>6. d.c \in CpuState /\ f.id = d.id /\ f.c = g.c
  BY <1>3, <1>4, DispatchedType
<1>7. Safe(d.c, Kept(f)) /\ BasesProgrammed(d.c)
  BY <1>4, <1>5, <1>6, DispatchedSafe DEF Kept
<1>8. PICK ids \in SUBSET ExcId : g.c = Raise(d.c, ids)
  BY <1>6, FetchRaises
<1>9. /\ f.c.pc = d.c.pc /\ f.c.ea = d.c.ea /\ f.c.ba = d.c.ba
      /\ f.c.now = d.c.now /\ f.c.exc = d.c.exc /\ f.c.brk = d.c.brk
      /\ f.c.eba = d.c.eba /\ f.c.deba = d.c.deba
  BY <1>6, <1>8 DEF Raise, CpuState
<1> QED
  BY <1>7, <1>9 DEF Safe, User, BasesProgrammed

(* What an instruction has to ensure itself: Complete's guard and the type  *)
(* lemmas give the rest.                                                    *)
Settled(c, untrusted) ==
    /\ Paired(c.pc, c.now)
    /\ "ea" \in untrusted \/ Paired(c.ea, c.exc)
    /\ "ba" \in untrusted \/ Paired(c.ba, c.brk)
    /\ Whole(c.now) /\ Whole(c.exc) /\ Whole(c.brk)

(* What an instruction leaves safe, its cost leaves safe. *)
LEMMA CompleteSafe ==
    ASSUME NEW f \in Fetched, NEW next \in CpuState, NEW untrusted,
           Settled(next, untrusted), BasesProgrammed(next), Complete(f, next, untrusted)
    PROVE  ContextsPaired' /\ BasesProgrammed(cpu')
<1>1. PICK n \in Cycles : cpu' = Spend(next, n)
  BY DEF Complete
<1>2. /\ cpu'.pc = next.pc /\ cpu'.ea = next.ea /\ cpu'.ba = next.ba
      /\ cpu'.now = next.now /\ cpu'.exc = next.exc /\ cpu'.brk = next.brk
      /\ cpu'.eba = next.eba /\ cpu'.deba = next.deba
  BY <1>1 DEF Spend, CpuState
<1>3. forged' = untrusted /\ (User(next) \/ next.pc - 1 \notin UserCode)
  BY DEF Complete
<1>4. Safe(cpu', forged')
  BY <1>2, <1>3 DEF Safe, Settled, User
<1> QED
  BY <1>2, <1>4 DEF ContextsPaired, BasesProgrammed

(* Two CPU states with the same modes, return registers and vector bases. *)
SameContext(c, d) ==
    /\ d.now = c.now /\ d.exc = c.exc /\ d.brk = c.brk
    /\ d.ea = c.ea /\ d.ba = c.ba /\ d.eba = c.eba /\ d.deba = c.deba

(* Every instruction that touches none of them is safe. *)
LEMMA SameContextSafe ==
    ASSUME PrivilegeInv, NEW f \in Fetched, NEW next \in CpuState,
           SameContext(f.c, next), Instruction(f, next)
    PROVE  ContextsPaired' /\ BasesProgrammed(cpu')
<1>1. Safe(f.c, Kept(f)) /\ BasesProgrammed(f.c)
  BY FetchedSafe
<1>2. KernelStays(f.c, next) /\ Complete(f, next, Kept(f))
  BY DEF Instruction
<1>3. Paired(next.pc, next.now)
  BY <1>2 DEF KernelStays, Paired, User, SameContext
<1>4. Settled(next, Kept(f)) /\ BasesProgrammed(next)
  BY <1>1, <1>3 DEF Settled, Safe, SameContext, BasesProgrammed
<1> QED
  BY <1>2, <1>4, CompleteSafe

(* Raising flags and moving on touch none of them. *)
LEMMA RaiseSameContext ==
    ASSUME NEW c \in CpuState, NEW ids \in SUBSET ExcId
    PROVE  SameContext(c, Raise(c, ids)) /\ SameContext(c, Seq(Raise(c, ids)))
           /\ SameContext(c, Seq(c))
BY DEF SameContext, Raise, Seq, CpuState

(* The kernel's control register writes keep a return address paired. *)
LEMMA CsrWritesSettled ==
    ASSUME NEW c \in CpuState, NEW untrusted, Safe(c, untrusted), BasesProgrammed(c), ~User(c),
           NEW next \in CsrWrites(c), next.pc \notin UserCode
    PROVE  Settled(next, untrusted) /\ BasesProgrammed(next)
<1> PICK w \in CsrWritesAny(c) : next = Seq(w)
  BY DEF CsrWrites
<1> DEFINE Fine == /\ w.ea = c.ea /\ w.ba = c.ba
                   /\ w.exc \in {c.exc, ModeBit} /\ w.brk \in {c.brk, ModeBit}
                   /\ "USR" \notin w.now
                   /\ w.eba \in EbaValues /\ w.deba \in DebaValues
<1>1. Fine => Settled(next, untrusted) /\ BasesProgrammed(next)
  <2> SUFFICES ASSUME Fine PROVE Settled(next, untrusted) /\ BasesProgrammed(next)
    OBVIOUS
  <2>1. /\ next.ea = w.ea /\ next.ba = w.ba /\ next.now = w.now /\ next.exc = w.exc
        /\ next.brk = w.brk /\ next.eba = w.eba /\ next.deba = w.deba
    BY DEF Seq
  <2>2. Paired(next.pc, next.now)
    BY DEF Paired
  <2>3. /\ Paired(c.ea, c.exc) => Paired(next.ea, next.exc)
        /\ Paired(c.ba, c.brk) => Paired(next.ba, next.brk)
    BY <2>1 DEF Paired, ModeBit
  <2>4. Whole(next.now) /\ Whole(next.exc) /\ Whole(next.brk)
    BY <2>1 DEF Whole, Safe
  <2> QED
    BY <2>1, <2>2, <2>3, <2>4 DEF Settled, Safe, BasesProgrammed
<1> SUFFICES Fine
  BY <1>1
<1> USE DEF User, BasesProgrammed
<1>2. CASE w \in {WriteIE(c, on, "IE" \in c.exc, "IE" \in c.brk) : on \in BOOLEAN}
  <2>1. PICK on \in BOOLEAN : w = WriteIE(c, on, "IE" \in c.exc, "IE" \in c.brk)
    BY <1>2
  <2>2. ASSUME NEW S PROVE SetBit(S, "IE" \in S) = S
    BY DEF SetBit
  <2>3. "USR" \notin SetBit(c.now, on)
    BY DEF SetBit
  <2> QED
    BY <2>1, <2>2, <2>3 DEF WriteIE, CpuState
<1>3. CASE w \in {WritePSW(c, c.now, exc, brk) : exc \in {c.exc, ModeBit}, brk \in {c.brk, ModeBit}}
  <2>1. PICK exc \in {c.exc, ModeBit}, brk \in {c.brk, ModeBit} : w = WritePSW(c, c.now, exc, brk)
    BY <1>3
  <2> QED
    BY <2>1 DEF WritePSW, CpuState
<1>4. CASE w \in {[c EXCEPT !.im = mask] : mask \in SUBSET Irq}
  BY <1>4 DEF CpuState
<1>5. CASE w \in {[c EXCEPT !.ip = @ \ clear] : clear \in SUBSET Irq}
  BY <1>5 DEF CpuState
<1>6. CASE w \in {[c EXCEPT !.eba = base] : base \in EbaValues}
  BY <1>6 DEF CpuState
<1>7. CASE w \in {[c EXCEPT !.deba = base] : base \in DebaValues}
  BY <1>7 DEF CpuState
<1>8. CASE w \in RemapWrites(c)
  BY <1>8 DEF RemapWrites, CpuState
<1>9. CASE w \in WpWrites(c)
  BY <1>9 DEF WpWrites, CpuState
<1>10. CASE w \in {[c EXCEPT !.bp = armed] : armed \in SUBSET HwBp}
  BY <1>10 DEF CpuState
<1> QED
  BY <1>2, <1>3, <1>4, <1>5, <1>6, <1>7, <1>8, <1>9, <1>10 DEF CsrWritesAny

(* At power-up no return register is trusted and no bit is set. *)
LEMMA PrivilegeInit == Init => PrivilegeInv
<1> SUFFICES ASSUME Init PROVE PrivilegeInv
  OBVIOUS
<1>1. TypeOK
  BY InitType
<1>2. /\ cpu.pc = EntryPoint /\ cpu.now = {} /\ cpu.exc = {} /\ cpu.brk = {}
      /\ cpu.eba = 0 /\ cpu.deba = 0 /\ forged = {"ea", "ba"}
  BY DEF Init
<1>3. /\ EntryPoint \notin UserCode /\ EntryPoint - 1 \notin UserCode
      /\ 0 \in EbaValues /\ 0 \in DebaValues
  BY LayoutAssumption DEF KernelAddress
<1> QED
  BY <1>1, <1>2, <1>3 DEF PrivilegeInv, ContextsPaired, Safe, Paired, Whole, User, BasesProgrammed

(* Every step keeps it: one step per action. *)
LEMMA PrivilegeNext == PrivilegeInv /\ [Next]_vars => PrivilegeInv'
<1> SUFFICES ASSUME PrivilegeInv, [Next]_vars PROVE ContextsPaired' /\ BasesProgrammed(cpu')
  BY NextType DEF PrivilegeInv
<1>0. cpu \in CpuState
  BY DEF PrivilegeInv, TypeOK
<1>a. \A f \in Fetched : f.c \in CpuState /\ Safe(f.c, Kept(f)) /\ BasesProgrammed(f.c)
  BY <1>0, FetchedType, FetchedSafe
\* Enough for an instruction that raises flags, moves on, or both.
<1>b. ASSUME NEW f \in Fetched, NEW ids \in SUBSET ExcId, NEW next \in {Raise(f.c, ids), Seq(Raise(f.c, ids)), Seq(f.c)},
             Instruction(f, next)
      PROVE  ContextsPaired' /\ BasesProgrammed(cpu')
  <2>1. next \in CpuState /\ SameContext(f.c, next)
    BY <1>a, RaiseType, SeqType, RaiseSameContext
  <2> QED
    BY <1>b, <2>1, SameContextSafe
<1>c. {SYSCALL} \subseteq ExcId /\ {BREAKPOINT} \subseteq ExcId /\ {IBUSERROR} \subseteq ExcId
      /\ {DIVZERO} \subseteq ExcId /\ {PRIV_ACCESS} \subseteq ExcId
  BY DEF ExcId, SYSCALL, BREAKPOINT, IBUSERROR, DIVZERO, PRIV_ACCESS
<1>1. CASE Plain
  BY <1>c, <1>1, <1>b DEF Plain
<1>2. CASE Jump
  <2>1. PICK f \in Fetched, x \in Targets : Instruction(f, [f.c EXCEPT !.pc = x])
    BY <1>2 DEF Jump
  <2>2. x \in Int
    BY LayoutAssumption
  <2>3. [f.c EXCEPT !.pc = x] \in CpuState /\ SameContext(f.c, [f.c EXCEPT !.pc = x])
    BY <1>a, <2>2 DEF CpuState, SameContext
  <2> QED
    BY <2>1, <2>3, SameContextSafe
<1>3. CASE Load
  <2>1. PICK f \in Fetched : \E next \in Accessed(f.c, FALSE) : Instruction(f, next)
    BY <1>3 DEF Load
  <2>2. PICK next \in Accessed(f.c, FALSE) : Instruction(f, next)
    BY <2>1
  <2>3. PICK ids \in SUBSET ExcId : next = Seq(Raise(f.c, ids))
    BY <1>a, AccessedType
  <2> QED
    BY <2>2, <2>3, <1>b
<1>4. CASE Store
  <2>1. PICK f \in Fetched : \E next \in Accessed(f.c, TRUE) : Instruction(f, next)
    BY <1>4 DEF Store
  <2>2. PICK next \in Accessed(f.c, TRUE) : Instruction(f, next)
    BY <2>1
  <2>3. PICK ids \in SUBSET ExcId : next = Seq(Raise(f.c, ids))
    BY <1>a, AccessedType
  <2> QED
    BY <2>2, <2>3, <1>b
<1>5. CASE Scall \/ Break \/ Refused
  BY <1>c, <1>5, <1>b DEF Scall, Break, Refused
<1>6. CASE Reserved \/ DivideByZero
  BY <1>c, <1>6, <1>b DEF Reserved, DivideByZero
<1>7. CASE Eret
  <2>1. PICK f \in Fetched : "ea" \notin Kept(f) /\ Complete(f, ReturnFromException(f.c), Kept(f))
    BY <1>7 DEF Eret
  <2> DEFINE next == ReturnFromException(f.c)
  <2>2. next \in CpuState
    BY <1>a, ReturnType
  <2>3. next.pc = f.c.ea /\ next.now = f.c.exc /\ next.exc = f.c.exc /\ next.brk = f.c.brk
        /\ next.ea = f.c.ea /\ next.ba = f.c.ba /\ next.eba = f.c.eba /\ next.deba = f.c.deba
    BY <1>a DEF ReturnFromException, CpuState
  <2>4. Settled(next, Kept(f)) /\ BasesProgrammed(next)
    BY <1>a, <2>1, <2>3 DEF Settled, Safe, BasesProgrammed
  <2> QED
    BY <2>1, <2>2, <2>4, CompleteSafe
<1>8. CASE Bret
  <2>1. PICK f \in Fetched : "ba" \notin Kept(f) /\ Complete(f, ReturnFromBreak(f.c), Kept(f))
    BY <1>8 DEF Bret
  <2> DEFINE next == ReturnFromBreak(f.c)
  <2>2. next \in CpuState
    BY <1>a, ReturnType
  <2>3. next.pc = f.c.ba /\ next.now = f.c.brk /\ next.exc = f.c.exc /\ next.brk = f.c.brk
        /\ next.ea = f.c.ea /\ next.ba = f.c.ba /\ next.eba = f.c.eba /\ next.deba = f.c.deba
    BY <1>a DEF ReturnFromBreak, CpuState
  <2>4. Settled(next, Kept(f)) /\ BasesProgrammed(next)
    BY <1>a, <2>1, <2>3 DEF Settled, Safe, BasesProgrammed
  <2> QED
    BY <2>1, <2>2, <2>4, CompleteSafe
<1>9. CASE Wcsr
  <2>1. PICK f \in Fetched : ~User(f.c) /\ \E next \in CsrWrites(f.c) : Instruction(f, next)
    BY <1>9 DEF Wcsr
  <2>2. PICK next \in CsrWrites(f.c) : Instruction(f, next)
    BY <2>1
  <2>3. next.pc \notin UserCode /\ Complete(f, next, Kept(f))
    BY <2>1, <2>2 DEF Instruction, KernelStays
  <2>4. next \in CpuState
    BY <1>a, CsrWritesType
  <2>5. Settled(next, Kept(f)) /\ BasesProgrammed(next)
    BY <1>a, <2>1, <2>3, CsrWritesSettled
  <2> QED
    BY <2>3, <2>4, <2>5, CompleteSafe
<1>10. CASE WriteEA
  <2>1. PICK f \in Fetched, x \in Targets :
          /\ User(f.c) \/ (x \in UserCode => "USR" \in f.c.exc)
          /\ LET next == Seq([f.c EXCEPT !.ea = x]) IN
             /\ KernelStays(f.c, next)
             /\ Complete(f, next, IF User(f.c) THEN Kept(f) \cup {"ea"} ELSE Kept(f) \ {"ea"})
    BY <1>10 DEF WriteEA
  <2> DEFINE next == Seq([f.c EXCEPT !.ea = x])
             trust == IF User(f.c) THEN Kept(f) \cup {"ea"} ELSE Kept(f) \ {"ea"}
  <2>2. x \in Int
    BY LayoutAssumption
  <2>3. [f.c EXCEPT !.ea = x] \in CpuState
    BY <1>a, <2>2 DEF CpuState
  <2>4. next \in CpuState
    BY <2>3, SeqType
  <2>5. next.now = f.c.now /\ next.exc = f.c.exc /\ next.brk = f.c.brk
        /\ next.ea = x /\ next.ba = f.c.ba /\ next.eba = f.c.eba /\ next.deba = f.c.deba
    BY <1>a, <2>3 DEF Seq, CpuState
  <2>6. Settled(next, trust) /\ BasesProgrammed(next)
    BY <1>a, <2>1, <2>5 DEF Settled, Safe, BasesProgrammed, Paired, KernelStays, User
  <2> QED
    BY <2>1, <2>4, <2>6, CompleteSafe
<1>11. CASE WriteBA
  <2>1. PICK f \in Fetched, x \in Targets :
          /\ User(f.c) \/ (x \in UserCode => "USR" \in f.c.brk)
          /\ LET next == Seq([f.c EXCEPT !.ba = x]) IN
             /\ KernelStays(f.c, next)
             /\ Complete(f, next, IF User(f.c) THEN Kept(f) \cup {"ba"} ELSE Kept(f) \ {"ba"})
    BY <1>11 DEF WriteBA
  <2> DEFINE next == Seq([f.c EXCEPT !.ba = x])
             trust == IF User(f.c) THEN Kept(f) \cup {"ba"} ELSE Kept(f) \ {"ba"}
  <2>2. x \in Int
    BY LayoutAssumption
  <2>3. [f.c EXCEPT !.ba = x] \in CpuState
    BY <1>a, <2>2 DEF CpuState
  <2>4. next \in CpuState
    BY <2>3, SeqType
  <2>5. next.now = f.c.now /\ next.exc = f.c.exc /\ next.brk = f.c.brk
        /\ next.ea = f.c.ea /\ next.ba = x /\ next.eba = f.c.eba /\ next.deba = f.c.deba
    BY <1>a, <2>3 DEF Seq, CpuState
  <2>6. Settled(next, trust) /\ BasesProgrammed(next)
    BY <1>a, <2>1, <2>5 DEF Settled, Safe, BasesProgrammed, Paired, KernelStays, User
  <2> QED
    BY <2>1, <2>4, <2>6, CompleteSafe
\* The steps outside the instruction stream leave the context and forged alone.
<1>d. ASSUME SameContext(cpu, cpu'), cpu'.pc = cpu.pc, UNCHANGED forged
      PROVE  ContextsPaired' /\ BasesProgrammed(cpu')
  BY <1>d DEF PrivilegeInv, ContextsPaired, Safe, User, SameContext, BasesProgrammed
<1>12. CASE Terminate
  <2>1. SameContext(cpu, cpu') /\ cpu'.pc = cpu.pc /\ UNCHANGED forged
    BY <1>0, <1>12 DEF Terminate, SameContext, CpuState
  <2> QED
    BY <2>1, <1>d
<1>13. CASE ResetPin
  <2>1. SameContext(cpu, cpu') /\ cpu'.pc = cpu.pc /\ UNCHANGED forged
    BY <1>0, <1>13 DEF ResetPin, Raise, SameContext, CpuState
  <2> QED
    BY <2>1, <1>d
<1>14. CASE SetHwDebug
  <2>1. SameContext(cpu, cpu') /\ cpu'.pc = cpu.pc /\ UNCHANGED forged
    BY <1>0, <1>14 DEF SetHwDebug, WpWrites, SameContext, CpuState
  <2> QED
    BY <2>1, <1>d
<1>15. CASE Idle \/ UNCHANGED vars
  BY <1>15, <1>d DEF Idle, vars, SameContext
<1> QED
  BY <1>1, <1>2, <1>3, <1>4, <1>5, <1>6, <1>7, <1>8, <1>9, <1>10, <1>11, <1>12, <1>13, <1>14, <1>15
  DEF Next, Execute

(* Return addresses and saved mode bits always go together. *)
THEOREM PairedContexts == Spec => []ContextsPaired
<1>1. PrivilegeInv => ContextsPaired
  BY DEF PrivilegeInv
<1> QED
  BY <1>1, PrivilegeInit, PrivilegeNext, PTL DEF Spec

(* interrupt(), eret and bret never let user code run with kernel privilege, *)
(* for every memory map, every set of faults and every order of exceptions.  *)
THEOREM UserUnprivileged == Spec => []UserCodeUnprivileged
<1>1. PrivilegeInv => UserCodeUnprivileged
  BY DEF PrivilegeInv, ContextsPaired, Safe, Paired, UserCodeUnprivileged, User
<1> QED
  BY <1>1, PrivilegeInit, PrivilegeNext, PTL DEF Spec

(* User mode always runs with interrupts and address translation on. *)
THEOREM UserWhole == Spec => []UserContextWhole
<1>1. PrivilegeInv => UserContextWhole
  BY DEF PrivilegeInv, ContextsPaired, Safe, Whole, UserContextWhole, User
<1> QED
  BY <1>1, PrivilegeInit, PrivilegeNext, PTL DEF Spec

-----------------------------------------------------------------------------
(* What user code cannot change *)

SameControl(c, d) ==
    /\ d.now = c.now /\ d.exc = c.exc /\ d.brk = c.brk /\ d.im = c.im
    /\ c.ip \subseteq d.ip /\ d.eba = c.eba /\ d.deba = c.deba

(* When no exception is entered, the instruction starts from the state the  *)
(* poll left, with flags raised.                                            *)
LEMMA NothingEntered ==
    ASSUME cpu \in CpuState, NEW f \in Fetched, f.id = NONE
    PROVE  SameControl(cpu, f.c)
<1>1. PICK p \in PolledStates : \E d \in Dispatched(p) : \E g \in Fetch(HwBreak(d.c)) :
               f = [id |-> d.id, flags |-> d.c.int_flags, ok |-> g.ok, c |-> g.c]
  BY FetchedStages
<1>2. PICK d \in Dispatched(p) : \E g \in Fetch(HwBreak(d.c)) :
               f = [id |-> d.id, flags |-> d.c.int_flags, ok |-> g.ok, c |-> g.c]
  BY <1>1
<1>3. PICK g \in Fetch(HwBreak(d.c)) :
               f = [id |-> d.id, flags |-> d.c.int_flags, ok |-> g.ok, c |-> g.c]
  BY <1>2
<1>4. p \in CpuState
  BY PolledType
<1>5. SameControl(cpu, p)
  <2>1. CASE ~Due
    BY <2>1 DEF PolledStates, SameControl
  <2>2. CASE Due
    <3>1. PICK irqs \in SUBSET Irq : p = Polled(irqs)
      BY <2>2 DEF PolledStates
    <3> QED
      BY <3>1 DEF Polled, SameControl, CpuState
  <2> QED
    BY <2>1, <2>2
<1>6. d.c = p
  <2>1. CASE p.int_flags = {}
    BY <2>1 DEF Dispatched
  <2>2. CASE p.int_flags # {}
    <3>1. PICK id \in MostUrgent(p.int_flags) : d = [id |-> id, c |-> Interrupt(p, id)]
      BY <2>2 DEF Dispatched
    <3>2. id \in ExcId
      BY <1>4 DEF MostUrgent, CpuState
    <3> QED
      BY <1>3, <3>1, <3>2 DEF ExcId, NONE
  <2> QED
    BY <2>1, <2>2
<1>7. PICK ids \in SUBSET ExcId : f.c = Raise(p, ids)
  BY <1>3, <1>4, <1>6, FetchRaises
<1> QED
  BY <1>4, <1>5, <1>7 DEF SameControl, Raise, CpuState

(* It is kept by an instruction that keeps it. *)
LEMMA CompleteControl ==
    ASSUME NEW f \in Fetched, NEW next \in CpuState, NEW untrusted,
           Complete(f, next, untrusted), entered' = NONE, cpu \in CpuState,
           SameControl(f.c, next)
    PROVE  SameControl(cpu, cpu')
<1>1. PICK n \in Cycles : cpu' = Spend(next, n)
  BY DEF Complete
<1>2. SameControl(next, cpu')
  BY <1>1 DEF Spend, SameControl, CpuState
<1>3. SameControl(cpu, f.c)
  BY NothingEntered DEF Complete
<1> QED
  BY <1>2, <1>3 DEF SameControl

(* One step per action; wcsr, eret and bret do not happen in user mode. *)
LEMMA UserStepKeepsControl ==
    ASSUME TypeOK, [Next]_vars, User(cpu), entered' = NONE
    PROVE  SameControl(cpu, cpu')
<1>0. cpu \in CpuState
  BY DEF TypeOK
<1>a. \A f \in Fetched : f.c \in CpuState
  BY <1>0, FetchedType
<1>b. ASSUME NEW f \in Fetched, f.id = NONE PROVE User(f.c)
  BY <1>0, <1>b, NothingEntered DEF SameControl, User
<1>c. ASSUME NEW f \in Fetched, NEW next, NEW untrusted, Complete(f, next, untrusted)
      PROVE  f.id = NONE
  BY <1>c DEF Complete
<1>d. ASSUME NEW f \in Fetched, NEW ids \in SUBSET ExcId, NEW next \in {Raise(f.c, ids), Seq(Raise(f.c, ids)), Seq(f.c)},
             Instruction(f, next)
      PROVE  SameControl(cpu, cpu')
  <2>1. next \in CpuState
    BY <1>a, RaiseType, SeqType
  <2>2. SameControl(f.c, next)
    BY <1>a DEF SameControl, Raise, Seq, CpuState
  <2> QED
    BY <1>0, <1>d, <2>1, <2>2, CompleteControl DEF Instruction
<1>e. {SYSCALL} \subseteq ExcId /\ {BREAKPOINT} \subseteq ExcId /\ {IBUSERROR} \subseteq ExcId
      /\ {DIVZERO} \subseteq ExcId /\ {PRIV_ACCESS} \subseteq ExcId
  BY DEF ExcId, SYSCALL, BREAKPOINT, IBUSERROR, DIVZERO, PRIV_ACCESS
<1>1. CASE Plain
  BY <1>e, <1>1, <1>d DEF Plain
<1>2. CASE Jump
  <2>1. PICK f \in Fetched, x \in Targets : Instruction(f, [f.c EXCEPT !.pc = x])
    BY <1>2 DEF Jump
  <2>2. x \in Int
    BY LayoutAssumption
  <2>3. [f.c EXCEPT !.pc = x] \in CpuState /\ SameControl(f.c, [f.c EXCEPT !.pc = x])
    BY <1>a, <2>2 DEF CpuState, SameControl
  <2> QED
    BY <1>0, <2>1, <2>3, CompleteControl DEF Instruction
<1>3. CASE Load
  <2>1. PICK f \in Fetched : \E next \in Accessed(f.c, FALSE) : Instruction(f, next)
    BY <1>3 DEF Load
  <2>2. PICK next \in Accessed(f.c, FALSE) : Instruction(f, next)
    BY <2>1
  <2>3. PICK ids \in SUBSET ExcId : next = Seq(Raise(f.c, ids))
    BY <1>a, AccessedType
  <2> QED
    BY <2>2, <2>3, <1>d
<1>4. CASE Store
  <2>1. PICK f \in Fetched : \E next \in Accessed(f.c, TRUE) : Instruction(f, next)
    BY <1>4 DEF Store
  <2>2. PICK next \in Accessed(f.c, TRUE) : Instruction(f, next)
    BY <2>1
  <2>3. PICK ids \in SUBSET ExcId : next = Seq(Raise(f.c, ids))
    BY <1>a, AccessedType
  <2> QED
    BY <2>2, <2>3, <1>d
<1>5. CASE Scall \/ Break \/ Refused
  BY <1>e, <1>5, <1>d DEF Scall, Break, Refused
<1>6. CASE Reserved \/ DivideByZero
  BY <1>e, <1>6, <1>d DEF Reserved, DivideByZero
<1>7. CASE Eret \/ Bret \/ Wcsr
  BY <1>7, <1>b, <1>c DEF Eret, Bret, Wcsr, Instruction
<1>8. CASE WriteEA
  <2>1. PICK f \in Fetched, x \in Targets : \E u : Complete(f, Seq([f.c EXCEPT !.ea = x]), u)
    BY <1>8 DEF WriteEA
  <2>2. x \in Int
    BY LayoutAssumption
  <2>3. [f.c EXCEPT !.ea = x] \in CpuState
    BY <1>a, <2>2 DEF CpuState
  <2>4. Seq([f.c EXCEPT !.ea = x]) \in CpuState
    BY <2>3, SeqType
  <2>5. SameControl(f.c, Seq([f.c EXCEPT !.ea = x]))
    BY <1>a, <2>3 DEF SameControl, Seq, CpuState
  <2> QED
    BY <1>0, <2>1, <2>4, <2>5, CompleteControl
<1>9. CASE WriteBA
  <2>1. PICK f \in Fetched, x \in Targets : \E u : Complete(f, Seq([f.c EXCEPT !.ba = x]), u)
    BY <1>9 DEF WriteBA
  <2>2. x \in Int
    BY LayoutAssumption
  <2>3. [f.c EXCEPT !.ba = x] \in CpuState
    BY <1>a, <2>2 DEF CpuState
  <2>4. Seq([f.c EXCEPT !.ba = x]) \in CpuState
    BY <2>3, SeqType
  <2>5. SameControl(f.c, Seq([f.c EXCEPT !.ba = x]))
    BY <1>a, <2>3 DEF SameControl, Seq, CpuState
  <2> QED
    BY <1>0, <2>1, <2>4, <2>5, CompleteControl
<1>10. CASE Terminate \/ ResetPin \/ SetHwDebug
  BY <1>0, <1>10 DEF Terminate, ResetPin, SetHwDebug, WpWrites, Raise, SameControl, CpuState
<1>11. CASE Idle \/ UNCHANGED vars
  BY <1>11 DEF Idle, vars, SameControl
<1> QED
  BY <1>1, <1>2, <1>3, <1>4, <1>5, <1>6, <1>7, <1>8, <1>9, <1>10, <1>11 DEF Next, Execute

(* User code leaves the modes, the interrupt mask, the pending lines and the *)
(* vector bases alone until the next exception is entered: execute_instruction() *)
(* refuses wcsr, eret and bret in user mode and nothing else writes them.    *)
THEOREM UserCannotControl == Spec => UserKeepsControl
<1>1. TypeOK /\ [Next]_vars =>
        [User(cpu) /\ entered' = NONE =>
            /\ cpu'.now = cpu.now /\ cpu'.exc = cpu.exc /\ cpu'.brk = cpu.brk
            /\ cpu'.im = cpu.im /\ cpu.ip \subseteq cpu'.ip
            /\ cpu'.eba = cpu.eba /\ cpu'.deba = cpu.deba]_vars
  BY UserStepKeepsControl DEF SameControl
<1> QED
  BY <1>1, TypeCorrect, PTL DEF Spec, UserKeepsControl

-----------------------------------------------------------------------------
(* External interrupts *)

(* With a callback that never sets a wakeup time, a poll is always due. *)
PolledAlways == TypeOK /\ (Due \/ Stopped)

(* With a poll due before every instruction, it stays due. *)
LEMMA PolledAlwaysNext ==
    ASSUME Granularity = 0
    PROVE  PolledAlways /\ [Next]_vars => PolledAlways'
<1> SUFFICES ASSUME PolledAlways, [Next]_vars PROVE Due' \/ Stopped'
  BY NextType DEF PolledAlways
<1>0. cpu \in CpuState
  BY DEF PolledAlways, TypeOK
\* No stage of an instruction writes the wakeup time but the poll, which sets it to 0.
<1>1. ASSUME NEW f \in Fetched, ~Stopped PROVE f.c \in CpuState /\ f.c.wake = 0
  <2>1. PICK p \in PolledStates : \E d \in Dispatched(p) : \E g \in Fetch(HwBreak(d.c)) :
                 f = [id |-> d.id, flags |-> d.c.int_flags, ok |-> g.ok, c |-> g.c]
    BY FetchedStages
  <2>2. PICK d \in Dispatched(p) : \E g \in Fetch(HwBreak(d.c)) :
                 f = [id |-> d.id, flags |-> d.c.int_flags, ok |-> g.ok, c |-> g.c]
    BY <2>1
  <2>3. PICK g \in Fetch(HwBreak(d.c)) :
                 f = [id |-> d.id, flags |-> d.c.int_flags, ok |-> g.ok, c |-> g.c]
    BY <2>2
  <2>4. p \in CpuState /\ d.c \in CpuState /\ f.c \in CpuState
    BY <1>0, PolledType, DispatchedType, FetchedType
  <2>5. p.wake = 0
    <3>1. Due /\ cpu.wake = 0
      BY <1>1 DEF PolledAlways, Due
    <3>2. PICK irqs \in SUBSET Irq : p = Polled(irqs)
      BY <3>1 DEF PolledStates
    <3> QED
      BY <1>0, <3>2 DEF Polled, CpuState
  <2>6. d.c.wake = p.wake
    <3>1. CASE p.int_flags = {}
      BY <3>1 DEF Dispatched
    <3>2. CASE p.int_flags # {}
      <4>1. PICK id : d = [id |-> id, c |-> Interrupt(p, id)]
        BY <3>2 DEF Dispatched
      <4>2. Interrupt(p, id).wake = p.wake
        <5>1. EnterDebug(p, id).wake = p.wake
          BY <2>4 DEF EnterDebug, CpuState
        <5>2. EnterException(p, id).wake = p.wake
          BY <2>4 DEF EnterException, CpuState
        <5>3. InternalReset(p).wake = p.wake /\ InternalReset(p) \in CpuState
          BY <2>4, LayoutAssumption DEF InternalReset, CpuState
        <5>4. EnterException(InternalReset(p), id).wake = p.wake
          BY <5>3 DEF EnterException, CpuState
        <5> QED
          BY <5>1, <5>2, <5>4 DEF Interrupt
      <4> QED
        BY <4>1, <4>2
    <3> QED
      BY <3>1, <3>2
  <2>7. PICK ids \in SUBSET ExcId : f.c = Raise(d.c, ids)
    BY <2>3, <2>4, FetchRaises
  <2> QED
    BY <2>4, <2>5, <2>6, <2>7 DEF Raise, CpuState
<1>2. ASSUME NEW f \in Fetched, NEW next, NEW untrusted, Complete(f, next, untrusted),
             next.wake = f.c.wake
      PROVE  Due'
  <2>1. ~Stopped
    BY <1>2 DEF Complete
  <2>2. next.wake = 0
    BY <1>1, <1>2, <2>1
  <2>3. PICK n \in Cycles : cpu' = Spend(next, n)
    BY <1>2 DEF Complete
  <2>4. n \in Nat \ {0}
    BY ConfigAssumption
  <2>5. cpu' = [next EXCEPT !.wake = 0]
    BY <2>2, <2>3, <2>4 DEF Spend
  <2>6. cpu' \in CpuState
    BY NextType DEF PolledAlways, TypeOK
  <2>7. cpu'.wake = 0
    BY <2>5, <2>6 DEF CpuState
  <2> QED
    BY <2>7 DEF Due
<1>3. ASSUME NEW f \in Fetched, ~Stopped
      PROVE  /\ f.c \in CpuState
             /\ \A ids : Raise(f.c, ids).wake = f.c.wake /\ Seq(Raise(f.c, ids)).wake = f.c.wake
             /\ Seq(f.c).wake = f.c.wake
             /\ \A x : [f.c EXCEPT !.pc = x].wake = f.c.wake
             /\ \A x : Seq([f.c EXCEPT !.ea = x]).wake = f.c.wake
             /\ \A x : Seq([f.c EXCEPT !.ba = x]).wake = f.c.wake
             /\ ReturnFromException(f.c).wake = f.c.wake
             /\ ReturnFromBreak(f.c).wake = f.c.wake
  BY <1>1, <1>3 DEF Raise, Seq, ReturnFromException, ReturnFromBreak, CpuState
<1>4. ASSUME NEW f \in Fetched, ~Stopped, NEW next \in CsrWrites(f.c) PROVE next.wake = f.c.wake
  <2>1. f.c \in CpuState
    BY <1>1, <1>4
  <2>2. PICK w \in CsrWritesAny(f.c) : next = Seq(w)
    BY <1>4 DEF CsrWrites
  <2>3. w.wake = f.c.wake
    <3> DEFINE c == f.c
    <3>1. CASE w \in {WriteIE(c, on, "IE" \in c.exc, "IE" \in c.brk) : on \in BOOLEAN}
      BY <2>1, <3>1 DEF WriteIE, CpuState
    <3>2. CASE w \in {WritePSW(c, c.now, exc, brk) : exc \in {c.exc, ModeBit}, brk \in {c.brk, ModeBit}}
      <4>1. PICK exc, brk : w = WritePSW(c, c.now, exc, brk)
        BY <3>2
      <4> QED
        BY <2>1, <4>1 DEF WritePSW, CpuState
    <3>3. CASE w \in {[c EXCEPT !.im = mask] : mask \in SUBSET Irq}
      BY <2>1, <3>3 DEF CpuState
    <3>4. CASE w \in {[c EXCEPT !.ip = @ \ clear] : clear \in SUBSET Irq}
      BY <2>1, <3>4 DEF CpuState
    <3>5. CASE w \in {[c EXCEPT !.eba = base] : base \in EbaValues}
      BY <2>1, <3>5 DEF CpuState
    <3>6. CASE w \in {[c EXCEPT !.deba = base] : base \in DebaValues}
      BY <2>1, <3>6 DEF CpuState
    <3>7. CASE w \in RemapWrites(c) \cup WpWrites(c)
      BY <2>1, <3>7 DEF RemapWrites, WpWrites, CpuState
    <3>8. CASE w \in {[c EXCEPT !.bp = armed] : armed \in SUBSET HwBp}
      BY <2>1, <3>8 DEF CpuState
    <3> QED
      BY <2>2, <3>1, <3>2, <3>3, <3>4, <3>5, <3>6, <3>7, <3>8 DEF CsrWritesAny
  <2> QED
    BY <2>2, <2>3 DEF Seq
<1>5. ASSUME NEW f \in Fetched, NEW next, Instruction(f, next) PROVE ~Stopped
  BY <1>5 DEF Instruction, Complete
<1>6. CASE Plain \/ Jump
  BY <1>6, <1>2, <1>3, <1>5 DEF Plain, Jump, Instruction
<1>7. CASE Load \/ Store
  <2>1. PICK f \in Fetched, write \in BOOLEAN : \E next \in Accessed(f.c, write) : Instruction(f, next)
    BY <1>7 DEF Load, Store
  <2>2. PICK next \in Accessed(f.c, write) : Instruction(f, next)
    BY <2>1
  <2>3. PICK ids \in SUBSET ExcId : next = Seq(Raise(f.c, ids))
    BY <2>2, <1>3, <1>5, AccessedType
  <2> QED
    BY <2>2, <2>3, <1>2, <1>3, <1>5 DEF Instruction
<1>8. CASE Scall \/ Break \/ Refused \/ Reserved \/ DivideByZero
  BY <1>8, <1>2, <1>3, <1>5 DEF Scall, Break, Refused, Reserved, DivideByZero, Instruction
<1>9. CASE Eret \/ Bret
  <2>1. PICK f \in Fetched : \/ Complete(f, ReturnFromException(f.c), Kept(f))
                             \/ Complete(f, ReturnFromBreak(f.c), Kept(f))
    BY <1>9 DEF Eret, Bret
  <2>2. ~Stopped
    BY <2>1 DEF Complete
  <2> QED
    BY <2>1, <2>2, <1>2, <1>3
<1>10. CASE Wcsr
  BY <1>10, <1>2, <1>4, <1>5 DEF Wcsr, Instruction
<1>11. CASE WriteEA \/ WriteBA
  <2>1. PICK f \in Fetched : \E x, u : \/ Complete(f, Seq([f.c EXCEPT !.ea = x]), u)
                                       \/ Complete(f, Seq([f.c EXCEPT !.ba = x]), u)
    BY <1>11 DEF WriteEA, WriteBA
  <2>2. ~Stopped
    BY <2>1 DEF Complete
  <2> QED
    BY <2>1, <2>2, <1>2, <1>3
<1>12. CASE Terminate
  BY <1>0, <1>12 DEF Terminate, Stopped, CpuState
<1>13. CASE ResetPin \/ SetHwDebug
  BY <1>0, <1>13 DEF PolledAlways, ResetPin, SetHwDebug, WpWrites, Raise, Due, Stopped, CpuState
<1>14. CASE Idle \/ UNCHANGED vars
  BY <1>14 DEF PolledAlways, Idle, vars, Due, Stopped
<1> QED
  BY <1>6, <1>7, <1>8, <1>9, <1>10, <1>11, <1>12, <1>13, <1>14 DEF Next, Execute

(* A poll right before the dispatch decides EXTINT by the enable bit of now. *)
LEMMA PolledTaken ==
    ASSUME Granularity = 0, PolledAlways, [Next]_vars, entered' = EXTINT
    PROVE  "IE" \in cpu.now \/ UNCHANGED vars
<1>0. cpu \in CpuState
  BY DEF PolledAlways, TypeOK
<1>1. ASSUME NEW f \in Fetched, f.id = EXTINT, ~Stopped PROVE "IE" \in cpu.now
  <2>1. PICK p \in PolledStates : \E d \in Dispatched(p) : f.id = d.id
    BY FetchedStages
  <2>2. PICK d \in Dispatched(p) : d.id = EXTINT
    BY <1>1, <2>1
  <2>3. EXTINT \in p.int_flags
    BY <2>2 DEF Dispatched, MostUrgent, EXTINT, NONE
  <2>4. PICK irqs \in SUBSET Irq : p = Polled(irqs)
    BY <1>1 DEF PolledAlways, PolledStates
  <2> DEFINE c == [cpu EXCEPT !.ip = @ \cup irqs, !.wake = Granularity]
             flag == IF "IE" \in c.now /\ Pending(c) THEN {EXTINT} ELSE {}
  <2>5. p = [c EXCEPT !.int_flags = (@ \ {EXTINT}) \cup flag]
    BY <2>4 DEF Polled
  <2>6. p.int_flags = (c.int_flags \ {EXTINT}) \cup flag /\ c.now = cpu.now
    BY <1>0, <2>5 DEF CpuState
  <2> QED
    BY <2>3, <2>6
<1>2. ASSUME NEW f \in Fetched, NEW next, NEW untrusted, Complete(f, next, untrusted)
      PROVE  "IE" \in cpu.now
  BY <1>1, <1>2 DEF Complete
<1>3. CASE Plain \/ Jump \/ Load \/ Store
  BY <1>2, <1>3 DEF Plain, Jump, Load, Store, Instruction
<1>4. CASE Scall \/ Break \/ Refused \/ Reserved \/ DivideByZero
  BY <1>2, <1>4 DEF Scall, Break, Refused, Reserved, DivideByZero, Instruction
<1>5. CASE Eret \/ Bret \/ Wcsr
  BY <1>2, <1>5 DEF Eret, Bret, Wcsr, Instruction
<1>6. CASE WriteEA \/ WriteBA
  BY <1>2, <1>6 DEF WriteEA, WriteBA
<1>7. CASE Terminate \/ ResetPin \/ SetHwDebug
  BY <1>7 DEF Terminate, ResetPin, SetHwDebug, EXTINT, NONE
<1>8. CASE Idle
  BY <1>8 DEF Idle
<1> QED
  BY <1>3, <1>4, <1>5, <1>6, <1>7, <1>8 DEF Next, Execute

(* When the callback leaves the wakeup time at 0, as cpumico32's does,       *)
(* process_exceptions() takes no external interrupt with IE.IE clear.        *)
THEOREM PolledInterrupts ==
    ASSUME Granularity = 0
    PROVE  Spec => ExtIntOnlyWhenEnabled
<1>1. Init => PolledAlways
  BY InitType DEF Init, PolledAlways, Due
<1>2. PolledAlways /\ [Next]_vars => PolledAlways'
  BY PolledAlwaysNext
<1>3. PolledAlways /\ [Next]_vars => [entered' = EXTINT => "IE" \in cpu.now]_vars
  BY PolledTaken
<1> QED
  BY <1>1, <1>2, <1>3, PTL DEF Spec, ExtIntOnlyWhenEnabled
=============================================================================

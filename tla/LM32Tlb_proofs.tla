--------------------------- MODULE LM32Tlb_proofs ---------------------------
(***************************************************************************)
(* Theorems about LM32Tlb, for page tables, buffers and physical memories  *)
(* of any size.                                                            *)
(***************************************************************************)
EXTENDS LM32Tlb, TLAPS

(* What a miss taken from user code, or waiting there, asks of the           *)
(* instruction: this is what will be tried again.                           *)
Asks(exc) ==
    /\ insn # None
    /\ IF exc = "ITLB_MISS" THEN tlbbadvaddr = insn.code
       ELSE /\ Touches(insn)
            /\ IF insn.again = None THEN tlbbadvaddr = insn.data ELSE insn.data = insn.again
    /\ exc = "DTLB_FAULT" => insn.op = "store"

(* What is known of an exception, from the moment that the access latches it *)
(* until its handler returns, if that handler will return to `from'.        *)
Explains(exc, from) ==
    exc \in MissOrFault =>
        /\ tlbvaddr = tlbbadvaddr
        /\ from = "user" => Asks(exc)
        /\ from # "user" => insn = None
        /\ from = "RESET" => tlbbadvaddr = ZeroPage

(* Of flags that coincide one is the instruction's; none finds invalidations under way, *)
(* and a handler of a miss owes none but those of the page it repairs; no   *)
(* other handler interrupts it.                                             *)
CulpritInv ==
    /\ \A exc \in flags : Explains(exc, mode)
    /\ Explains(mode, ea)
    /\ \A exc, other \in flags \ Coinciding : exc = other
    /\ flags # {} => todo = {}
    /\ mode \in MissOrFault => flags = {} /\ todo \subseteq Table \X {tlbbadvaddr}
    /\ ea \notin MissOrFault /\ ba \notin MissOrFault

(* CulpritKnown needs to know of the exception that waits in int_flags. *)
TlbInv == TypeOK /\ Coherent /\ CulpritInv

-----------------------------------------------------------------------------
(* Types *)

(* The buffers and their registers keep their shape under every command. *)
LEMMA CommandTypes ==
    ASSUME TypeOK, NEW p \in Page, NEW cmd \in Command
    PROVE  TlbAfter(p, cmd) \in [Table -> [Index -> Entry \cup {None}]]
<1>1. p[2] \in Index /\ tlb \in [Table -> [Index -> Entry \cup {None}]]
  BY DEF Page, TypeOK
<1>2. "itlb" \in Table /\ "dtlb" \in Table
  BY DEF Table
<1>3. \A t \in Table : Flushed(t) \in [Table -> [Index -> Entry \cup {None}]]
  BY <1>1 DEF Flushed
<1>4. \A t \in Table : Invalidated(t, p[2]) \in [Table -> [Index -> Entry \cup {None}]]
  BY <1>1 DEF Invalidated
<1>5. cmd \in {"NOP", "ITLB_FLSH", "DTLB_FLSH", "ITLB_IVLD", "DTLB_IVLD"}
  BY DEF Command
<1> QED
  BY <1>1, <1>2, <1>3, <1>4, <1>5 DEF TlbAfter

(* An instruction touches pages, and keeps its shape when a load that       *)
(* missed has overwritten its own address.                                  *)
LEMMA InstrTypes ==
    ASSUME NEW i \in Instr
    PROVE  /\ i.code \in Page /\ i.data \in Page
           /\ i.again # None => [i EXCEPT !.data = i.again] \in Instr
           /\ Touches(i) /\ i.op # "store" => i.op = "load"
           /\ i.op = "store" => i.again = None
<1>1. ZeroPage \in Page
  BY PageAssumption DEF Page, ZeroPage
<1>2. i.code \in Page /\ i.data \in Page
  BY <1>1 DEF Instr
<1>3. ASSUME i.again # None PROVE [i EXCEPT !.data = i.again] \in Instr
  <2>1. i \in [op : {"load"}, code : Page, data : Page, again : Page \cup {None}]
    BY <1>3 DEF Instr
  <2>2. i.again \in Page
    BY <1>3, <2>1
  <2>3. [i EXCEPT !.data = i.again] \in [op : {"load"}, code : Page, data : Page, again : Page \cup {None}]
    BY <2>1, <2>2
  <2> QED
    BY <2>3 DEF Instr
<1>4. i.op = "store" => i.again = None
  BY DEF Instr
<1> QED
  BY <1>2, <1>3, <1>4 DEF Touches

(* What an attempt may flag are exceptions. *)
LEMMA FlagTypes ==
    /\ MissOrFault \subseteq Exception /\ Coinciding \subseteq Exception
    /\ "SYSCALL" \in Exception /\ Exception \subseteq Mode /\ "user" \in Mode /\ "RESET" \in Mode
    /\ "ITLB_MISS" \in MissOrFault /\ "DTLB_MISS" \in MissOrFault /\ "DTLB_FAULT" \in MissOrFault
    /\ MissOrFault \cap Coinciding = {} /\ "SYSCALL" \notin MissOrFault
    /\ "user" \notin Exception /\ "RESET" \notin Exception
  BY DEF Exception, Mode, MissOrFault, Coinciding

(* Every step keeps the types. *)
LEMMA TypeInv == TypeOK /\ [Next]_vars => TypeOK'
<1> SUFFICES ASSUME TypeOK, [Next]_vars PROVE TypeOK'
  OBVIOUS
<1>1. ASSUME NEW i \in Instr, Begin(i) PROVE TypeOK'
  BY <1>1 DEF Begin, TypeOK, hardware, control
<1>2. ASSUME NEW others \in SUBSET Coinciding, FetchMiss(others) PROVE TypeOK'
  <2>1. insn \in Instr
    BY <1>2 DEF FetchMiss, TypeOK
  <2>2. flags' \subseteq Exception
    BY <1>2, FlagTypes DEF FetchMiss
  <2> QED
    BY <1>2, <2>1, <2>2, InstrTypes DEF FetchMiss, Latch, TypeOK
<1>3. ASSUME NEW others \in SUBSET Coinciding, AccessMiss(others) PROVE TypeOK'
  <2>1. insn \in Instr
    BY <1>3 DEF AccessMiss, TypeOK
  <2>2. insn' \in Instr
    BY <1>3, <2>1, InstrTypes DEF AccessMiss
  <2>3. flags' \subseteq Exception
    BY <1>3, FlagTypes DEF AccessMiss
  <2> QED
    BY <1>3, <2>1, <2>2, <2>3, InstrTypes DEF AccessMiss, Latch, TypeOK
<1>4. ASSUME NEW others \in SUBSET Coinciding, Complete(others) PROVE TypeOK'
  <2>1. flags' \subseteq Exception
    BY <1>4, FlagTypes DEF Complete
  <2> QED
    BY <1>4, <2>1 DEF Complete, TypeOK, hardware
<1>5. ASSUME NEW exc \in Exception, Interrupt(exc) PROVE TypeOK'
  <2>1. flags' \subseteq Exception /\ mode' \in Mode /\ ea' \in Mode /\ ba' \in Mode
    BY <1>5, FlagTypes DEF Interrupt, TypeOK
  <2> QED
    BY <1>5, <2>1 DEF Interrupt, TypeOK, hardware
<1>6. ASSUME NEW p \in Page, NEW m \in Mapping \cup {None}, SetMapping(p, m) PROVE TypeOK'
  BY <1>6 DEF SetMapping, TypeOK, hardware, control
<1>7. ASSUME NEW p \in Page, NEW cmd \in Command, WriteTlbvaddr(p, cmd) PROVE TypeOK'
  BY <1>7, CommandTypes DEF WriteTlbvaddr, tlb_vaddr_update, TypeOK, control
<1>8. ASSUME NEW t \in Table, WriteTlbpaddr(t) PROVE TypeOK'
  <2>1. table[tlbvaddr] \in Mapping /\ tlbvaddr[1] \in Tag /\ tlbvaddr[2] \in Index
    BY <1>8 DEF WriteTlbpaddr, TypeOK, Page
  <2>2. [tag |-> tlbvaddr[1], frame |-> table[tlbvaddr].frame, ro |-> table[tlbvaddr].ro] \in Entry
    BY <2>1 DEF Mapping, Entry
  <2>3. tlb' \in [Table -> [Index -> Entry \cup {None}]]
    BY <1>8, <2>1, <2>2 DEF WriteTlbpaddr, tlb_paddr_update, TypeOK
  <2>4. done' \in BOOLEAN
    BY <1>8, Zenon DEF WriteTlbpaddr
  <2> QED
    BY <1>8, <2>3, <2>4 DEF WriteTlbpaddr, TypeOK, control
<1>9. CASE Return \/ GiveUp
  BY <1>9, FlagTypes DEF Return, Resumed, GiveUp, TypeOK, hardware
<1>10. CASE Reset
  <2>1. ZeroPage \in Page
    BY PageAssumption DEF Page, ZeroPage
  <2> QED
    BY <1>10, <2>1, FlagTypes DEF Reset, internal_reset_cpu, TypeOK
<1>11. CASE UNCHANGED vars
  BY <1>11 DEF vars, TypeOK
<1> QED
  BY <1>1, <1>2, <1>3, <1>4, <1>5, <1>6, <1>7, <1>8, <1>9, <1>10, <1>11
     DEF Next, Attempt, Dispatch, KernelStep

-----------------------------------------------------------------------------
(* The buffers agree with the page table *)

(* An entry that is there gives a page of the table what the table does. *)
Agrees(t, x) ==
    LET e == tlb[t][x]
        p == <<e.tag, x>>
    IN  e # None /\ <<t, p>> \notin todo =>
            table[p] # None /\ e.frame = table[p].frame /\ (table[p].ro => e.ro)

(* The kernel remaps a page: entries that the new mapping does not outdate  *)
(* agree with it, the others are on the kernel's list.                      *)
LEMMA SetMappingCoherent ==
    ASSUME TypeOK, Coherent, NEW p \in Page, NEW m \in Mapping \cup {None}, SetMapping(p, m)
    PROVE  Coherent'
<1>1. /\ tlb' = tlb /\ mode' = mode /\ mode # "user"
      /\ table' = [table EXCEPT ![p] = m]
      /\ todo' = todo \cup (IF Outdates(table[p], m) THEN Table \X {p} ELSE {})
  BY DEF SetMapping, hardware, Free, Handling, Kernel, control
<1>2. ASSUME NEW t \in Table, NEW x \in Index PROVE Agrees(t, x)'
  <2> DEFINE q == <<tlb[t][x].tag, x>>
  <2>1. SUFFICES ASSUME tlb[t][x] # None, <<t, q>> \notin todo'
                 PROVE  table'[q] # None /\ tlb[t][x].frame = table'[q].frame
                           /\ (table'[q].ro => tlb[t][x].ro)
    BY <1>1 DEF Agrees
  <2>2. tlb[t][x] \in Entry /\ q \in Page /\ table \in [Page -> Mapping \cup {None}]
    BY <2>1 DEF TypeOK, Entry, Page
  <2>3. table[q] # None /\ tlb[t][x].frame = table[q].frame /\ (table[q].ro => tlb[t][x].ro)
    BY <1>1, <2>1 DEF Coherent
  <2>4. CASE q # p
    BY <1>1, <2>2, <2>3, <2>4
  <2>5. CASE q = p
    <3>1. ~Outdates(table[p], m)
      BY <1>1, <2>1, <2>5
    <3>2. m # None /\ m.frame = table[p].frame /\ (m.ro => table[p].ro)
      BY <2>3, <2>5, <3>1 DEF Outdates
    <3> QED
      BY <1>1, <2>2, <2>3, <2>5, <3>2
  <2> QED
    BY <2>4, <2>5
<1> QED
  BY <1>1, <1>2 DEF Coherent, Agrees

(* A command drops the entries it is meant for, and never more from the     *)
(* kernel's list than from the buffers: all the pages that share an index   *)
(* share its one entry.                                                     *)
LEMMA WriteTlbvaddrCoherent ==
    ASSUME TypeOK, Coherent, NEW p \in Page, NEW cmd \in Command, WriteTlbvaddr(p, cmd)
    PROVE  Coherent'
<1>1. /\ tlb' = TlbAfter(p, cmd) /\ todo' = todo \ Meant(p, cmd)
      /\ mode' = mode /\ mode # "user" /\ table' = table
  BY DEF WriteTlbvaddr, tlb_vaddr_update, Free, Handling, Kernel, control
<1>2. p[2] \in Index /\ tlb \in [Table -> [Index -> Entry \cup {None}]]
  BY DEF Page, TypeOK
<1>3. ASSUME NEW t \in Table, NEW x \in Index PROVE Agrees(t, x)'
  <2>1. SUFFICES ASSUME tlb'[t][x] # None PROVE Agrees(t, x)'
    BY DEF Agrees
  <2>2. tlb'[t][x] = tlb[t][x] /\ <<t, <<tlb[t][x].tag, x>>>> \notin Meant(p, cmd)
    <3>1. CASE cmd = "NOP"
      BY <1>1, <3>1 DEF TlbAfter, Meant
    <3>2. CASE cmd = "ITLB_FLSH"
      BY <1>1, <1>2, <2>1, <3>2 DEF TlbAfter, Meant, Flushed, Table
    <3>3. CASE cmd = "DTLB_FLSH"
      BY <1>1, <1>2, <2>1, <3>3 DEF TlbAfter, Meant, Flushed, Table
    <3>4. CASE cmd = "ITLB_IVLD"
      BY <1>1, <1>2, <2>1, <3>4 DEF TlbAfter, Meant, Invalidated, Table, Page
    <3>5. CASE cmd = "DTLB_IVLD"
      BY <1>1, <1>2, <2>1, <3>5 DEF TlbAfter, Meant, Invalidated, Table, Page
    <3> QED
      BY <3>1, <3>2, <3>3, <3>4, <3>5 DEF Command
  <2>3. Agrees(t, x)
    BY DEF Coherent, Agrees
  <2> QED
    BY <1>1, <2>2, <2>3 DEF Agrees
<1> QED
  BY <1>1, <1>3 DEF Coherent, Agrees

(* A refill enters what the page table says of the page in TLBVADDR, in the *)
(* place of whatever entry had its index.                                   *)
LEMMA WriteTlbpaddrCoherent ==
    ASSUME TypeOK, Coherent, NEW t \in Table, WriteTlbpaddr(t)
    PROVE  Coherent'
<1> DEFINE v == tlbvaddr
           m == table[v]
           e == [tag |-> v[1], frame |-> m.frame, ro |-> m.ro]
<1>1. /\ tlb' = [tlb EXCEPT ![t][v[2]] = e] /\ todo' = todo \ {<<t, v>>}
      /\ mode' = mode /\ mode # "user" /\ table' = table /\ m # None
  BY DEF WriteTlbpaddr, tlb_paddr_update, Free, Handling, Kernel, control
<1>2. v \in Page /\ v[1] \in Tag /\ v[2] \in Index /\ v = <<v[1], v[2]>>
  BY DEF TypeOK, Page
<1>3. ASSUME NEW u \in Table, NEW x \in Index PROVE Agrees(u, x)'
  <2>1. CASE u = t /\ x = v[2]
    <3>1. tlb'[u][x] = e /\ <<e.tag, x>> = v
      BY <1>1, <1>2, <2>1 DEF TypeOK
    <3> QED
      BY <1>1, <3>1 DEF Agrees
  <2>2. CASE ~(u = t /\ x = v[2])
    <3>1. tlb'[u][x] = tlb[u][x]
      BY <1>1, <1>2, <2>2 DEF TypeOK
    <3>2. <<u, <<tlb[u][x].tag, x>>>> # <<t, v>>
      BY <1>2, <2>2
    <3>3. Agrees(u, x)
      BY DEF Coherent, Agrees
    <3> QED
      BY <1>1, <3>1, <3>2, <3>3 DEF Agrees
  <2> QED
    BY <2>1, <2>2
<1> QED
  BY <1>1, <1>3 DEF Coherent, Agrees

(* Every step keeps the buffers in agreement. *)
LEMMA CoherentInv == TypeOK /\ Coherent /\ [Next]_vars => Coherent'
<1> SUFFICES ASSUME TypeOK, Coherent, [Next]_vars PROVE Coherent'
  OBVIOUS
<1>1. CASE UNCHANGED <<tlb, table, todo>> /\ (mode' = "user" => mode = "user" \/ todo = {})
  BY <1>1 DEF Coherent
<1>2. ASSUME NEW p \in Page, NEW m \in Mapping \cup {None}, SetMapping(p, m) PROVE Coherent'
  BY <1>2, SetMappingCoherent
<1>3. ASSUME NEW p \in Page, NEW cmd \in Command, WriteTlbvaddr(p, cmd) PROVE Coherent'
  BY <1>3, WriteTlbvaddrCoherent
<1>4. ASSUME NEW t \in Table, WriteTlbpaddr(t) PROVE Coherent'
  BY <1>4, WriteTlbpaddrCoherent
<1>5. CASE Reset
  BY <1>5 DEF Reset, internal_reset_cpu, Coherent
<1>6. ASSUME NEW others \in SUBSET Coinciding, FetchMiss(others) \/ AccessMiss(others) \/ Complete(others)
      PROVE  Coherent'
  BY <1>1, <1>6 DEF FetchMiss, AccessMiss, Latch, Complete, hardware
<1>7. ASSUME NEW exc \in Exception, Interrupt(exc) PROVE Coherent'
  <2>1. mode' # "user"
    BY <1>7, FlagTypes DEF Interrupt
  <2> QED
    BY <1>1, <1>7, <2>1 DEF Interrupt, hardware
<1>8. CASE (\E i \in Instr : Begin(i)) \/ Return \/ GiveUp \/ UNCHANGED vars
  BY <1>1, <1>8 DEF Begin, Return, GiveUp, hardware, control, vars
<1> QED
  BY <1>2, <1>3, <1>4, <1>5, <1>6, <1>7, <1>8 DEF Next, Attempt, Dispatch, KernelStep

-----------------------------------------------------------------------------
(* The culprit *)

(* An attempt that misses flags one miss, and what is latched explains it;   *)
(* one that completes flags none.                                           *)
LEMMA AttemptCulprit ==
    ASSUME TypeOK, Coherent, CulpritInv, NEW others \in SUBSET Coinciding,
           FetchMiss(others) \/ AccessMiss(others) \/ Complete(others)
    PROVE  CulpritInv'
<1>1. /\ mode = "user" /\ mode' = "user" /\ todo' = {} /\ UNCHANGED <<ea, ba>> /\ insn # None /\ insn \in Instr
      /\ "user" \notin MissOrFault
  BY FlagTypes DEF FetchMiss, AccessMiss, Complete, User, Coherent, TypeOK
<1>2. \A exc \in others : exc \notin MissOrFault
  BY FlagTypes
<1>3. CASE FetchMiss(others)
  <2>1. /\ tlbvaddr' = insn.code /\ tlbbadvaddr' = insn.code /\ insn' = insn
        /\ flags' = {"ITLB_MISS"} \cup others
    BY <1>3 DEF FetchMiss, Latch
  <2>2. Explains("ITLB_MISS", "user")'
    BY <1>1, <2>1 DEF Explains, Asks
  <2> QED
    BY <1>1, <1>2, <2>1, <2>2 DEF CulpritInv, Explains
<1>4. CASE AccessMiss(others)
  <2>1. PICK exc \in {"DTLB_MISS", "DTLB_FAULT"} :
            exc = IF Access = "MISS" THEN "DTLB_MISS" ELSE "DTLB_FAULT"
    OBVIOUS
  <2>2. /\ tlbvaddr' = insn.data /\ tlbbadvaddr' = insn.data /\ flags' = {exc} \cup others
        /\ insn' = (IF insn.again # None THEN [insn EXCEPT !.data = insn.again] ELSE insn)
        /\ Touches(insn) /\ Access # "HIT"
    BY <1>4, <2>1 DEF AccessMiss, Latch
  <2>3. exc = "DTLB_FAULT" => insn.op = "store"
    BY <2>2, <2>1 DEF Access, Lookup
  <2>4. insn' # None /\ Touches(insn)' /\ insn'.op = insn.op /\ insn'.again = insn.again
    <3>1. CASE insn.again = None
      BY <1>1, <2>2, <3>1 DEF Touches
    <3>2. CASE insn.again # None
      <4>1. insn \in [op : {"load"}, code : Page, data : Page, again : Page \cup {None}]
        BY <1>1, <3>2 DEF Instr
      <4>2. insn' = [insn EXCEPT !.data = insn.again]
        BY <2>2, <3>2
      <4>3. insn'.op = insn.op /\ insn'.again = insn.again /\ insn'.op = "load"
        BY <4>1, <4>2
      <4>4. insn' # None
        BY <1>1, <2>2, <3>2, InstrTypes, NoneAssumption
      <4> QED
        BY <4>3, <4>4 DEF Touches
    <3> QED
      BY <3>1, <3>2
  <2>5. IF insn'.again = None THEN tlbbadvaddr' = insn'.data ELSE insn'.data = insn'.again
    <3>1. CASE insn.again = None
      BY <2>2, <3>1
    <3>2. CASE insn.again # None
      <4>1. insn \in [op : {"load"}, code : Page, data : Page, again : Page \cup {None}]
        BY <1>1, <3>2 DEF Instr
      <4> QED
        BY <2>2, <3>2, <4>1
    <3> QED
      BY <3>1, <3>2
  <2>6. Explains(exc, "user")'
    BY <2>2, <2>3, <2>4, <2>5, <2>1 DEF Explains, Asks
  <2> QED
    BY <1>1, <1>2, <2>2, <2>6, FlagTypes DEF CulpritInv, Explains
<1>5. CASE Complete(others)
  <2>1. flags' \cap MissOrFault = {} /\ flags' \ Coinciding \subseteq {"SYSCALL"}
    BY <1>2, <1>5, FlagTypes DEF Complete
  <2> QED
    BY <1>1, <2>1 DEF CulpritInv, Explains
<1> QED
  BY <1>3, <1>4, <1>5

(* A dispatch makes the explanation of a flag that of the handler entered,  *)
(* or, when another exception goes first, leaves nothing to try again.      *)
LEMMA InterruptCulprit ==
    ASSUME TypeOK, Coherent, CulpritInv, NEW exc \in Exception, Interrupt(exc)
    PROVE  CulpritInv'
<1>1. /\ exc \in flags /\ flags' = flags \ {exc} /\ mode' = exc
      /\ UNCHANGED <<tlbvaddr, tlbbadvaddr>> /\ todo' = {}
      /\ insn' = (IF PassesOver(exc) THEN None ELSE insn)
      /\ mode \notin MissOrFault /\ ea' \in {ea, mode} /\ ba' \in {ba, mode}
  BY DEF Interrupt, hardware, CulpritInv
<1>2. exc # "user" /\ exc # "RESET"
  BY FlagTypes
<1>3. CASE exc \in MissOrFault
  <2>1. ea' = mode /\ ba' = ba /\ insn' = insn
    BY <1>1, <1>3 DEF Interrupt, PassesOver, MissOrFault
  <2>2. \A other \in flags : other \in MissOrFault
    <3>1. SUFFICES ASSUME NEW other \in flags, other \notin MissOrFault PROVE FALSE
      OBVIOUS
    <3>2. Id[exc] <= Id[other] /\ other \in Exception
      BY <3>1 DEF Interrupt, TypeOK
    <3> QED
      BY <1>3, <3>1, <3>2 DEF Id, Exception, Coinciding, MissOrFault
  <2>3. flags' = {}
    BY <1>1, <1>3, <2>2, FlagTypes DEF CulpritInv
  <2>4. Explains(exc, mode)
    BY <1>1 DEF CulpritInv
  <2>5. Explains(mode, ea)'
    BY <1>1, <2>1, <2>4 DEF Explains, Asks, Touches
  <2> QED
    BY <1>1, <2>3, <2>5 DEF CulpritInv
<1>4. CASE exc \notin MissOrFault
  <2>1. ASSUME NEW other \in flags' PROVE Explains(other, mode)'
    <3>1. SUFFICES ASSUME other \in MissOrFault PROVE Explains(other, mode)'
      BY DEF Explains
    <3>2. PassesOver(exc)
      BY <1>1, <1>4, <2>1, <3>1 DEF PassesOver
    <3>3. Explains(other, mode)
      BY <1>1, <2>1 DEF CulpritInv
    <3> QED
      BY <1>1, <1>2, <3>1, <3>2, <3>3 DEF Explains
  <2>2. \A x, y \in flags' \ Coinciding : x = y
    BY <1>1 DEF CulpritInv
  <2> QED
    BY <1>1, <1>4, <2>1, <2>2 DEF CulpritInv, Explains
<1> QED
  BY <1>3, <1>4

(* Every step keeps what the handler will go by. *)
LEMMA CulpritStep == TypeOK /\ Coherent /\ CulpritInv /\ [Next]_vars => CulpritInv'
<1> SUFFICES ASSUME TypeOK, Coherent, CulpritInv, [Next]_vars PROVE CulpritInv'
  OBVIOUS
<1>1. "user" \notin MissOrFault /\ "RESET" \notin MissOrFault
  BY DEF MissOrFault
<1>2. ASSUME NEW i \in Instr, Begin(i) PROVE CulpritInv'
  <2>1. UNCHANGED <<mode, ea, ba, todo>> /\ mode = "user" /\ flags' = {}
    BY <1>2 DEF Begin, User, control
  <2> QED
    BY <1>1, <2>1 DEF CulpritInv, Explains
<1>3. ASSUME NEW others \in SUBSET Coinciding, FetchMiss(others) \/ AccessMiss(others) \/ Complete(others)
      PROVE  CulpritInv'
  BY <1>3, AttemptCulprit
<1>4. ASSUME NEW exc \in Exception, Interrupt(exc) PROVE CulpritInv'
  BY <1>4, InterruptCulprit
<1>5. ASSUME UNCHANGED <<tlbbadvaddr, insn, flags, mode, ea, ba>>, flags = {},
             mode \in MissOrFault => tlbvaddr' = tlbvaddr /\ todo' \subseteq Table \X {tlbbadvaddr}
      PROVE  CulpritInv'
  BY <1>5 DEF CulpritInv, Explains, Asks, Touches
<1>6. ASSUME NEW p \in Page, NEW m \in Mapping \cup {None}, SetMapping(p, m) PROVE CulpritInv'
  <2>1. UNCHANGED <<tlbvaddr, tlbbadvaddr, insn, mode, flags, ea, ba>> /\ flags = {}
    BY <1>6 DEF SetMapping, hardware, control, Free, Handling, Kernel
  <2>2. mode \in MissOrFault => todo' \subseteq Table \X {tlbbadvaddr}
    BY <1>6 DEF SetMapping, Free, Handling, Culprit, CulpritInv, MissOrFault
  <2> QED
    BY <1>5, <2>1, <2>2
<1>7. ASSUME NEW p \in Page, NEW cmd \in Command, WriteTlbvaddr(p, cmd) PROVE CulpritInv'
  <2>1. /\ UNCHANGED <<tlbbadvaddr, insn, mode, flags, ea, ba>> /\ flags = {}
        /\ tlbvaddr' = p /\ todo' \subseteq todo
    BY <1>7 DEF WriteTlbvaddr, tlb_vaddr_update, control, Free, Handling, Kernel
  <2>2. mode \in MissOrFault => p = tlbbadvaddr
    <3>1. SUFFICES ASSUME mode \in MissOrFault PROVE p = tlbbadvaddr
      OBVIOUS
    <3>2. Meant(p, cmd) \cap todo # {} /\ cmd \in {"ITLB_IVLD", "DTLB_IVLD"}
      BY <1>7, <3>1 DEF WriteTlbvaddr, Free, Handling, MissOrFault
    <3>3. \A x \in Meant(p, cmd) : x[2] = p
      BY <3>2 DEF Meant
    <3>4. \A x \in todo : x[2] = tlbbadvaddr
      BY <3>1 DEF CulpritInv
    <3> QED
      BY <3>2, <3>3, <3>4
  <2>3. mode \in MissOrFault => tlbvaddr = tlbbadvaddr /\ todo \subseteq Table \X {tlbbadvaddr}
    BY DEF CulpritInv, Explains
  <2> QED
    BY <1>5, <2>1, <2>2, <2>3
<1>8. ASSUME NEW t \in Table, WriteTlbpaddr(t) PROVE CulpritInv'
  <2>1. UNCHANGED <<tlbvaddr, tlbbadvaddr, insn, mode, flags, ea, ba>> /\ flags = {} /\ todo' \subseteq todo
    BY <1>8 DEF WriteTlbpaddr, control, Free, Handling, Kernel
  <2> QED
    BY <1>5, <2>1 DEF CulpritInv
<1>9. CASE Return
  <2>1. /\ mode' = Resumed /\ flags' = {} /\ ea' \in {ea, "user"} /\ ba' \in {ba, "user"}
    BY <1>9 DEF Return, Kernel
  <2>2. Resumed \notin MissOrFault
    BY FlagTypes DEF Resumed, CulpritInv
  <2> QED
    BY <1>1, <2>1, <2>2 DEF CulpritInv, Explains
<1>10. CASE GiveUp
  <2>1. mode' = "user" /\ flags' = {} /\ ea' = "user" /\ ba' = "user"
    BY <1>10 DEF GiveUp, Handling, Kernel
  <2> QED
    BY <1>1, <2>1 DEF CulpritInv, Explains
<1>11. CASE Reset
  <2>1. /\ mode' = "RESET" /\ ea' = "RESET" /\ ba' = "user" /\ insn' = None /\ flags' = flags /\ todo' = {}
        /\ tlbvaddr' = ZeroPage /\ tlbbadvaddr' = ZeroPage
    BY <1>11 DEF Reset, internal_reset_cpu
  <2> QED
    BY <1>1, <2>1 DEF CulpritInv, Explains
<1>12. CASE UNCHANGED vars
  BY <1>12 DEF vars, CulpritInv, Explains, Asks, Touches
<1> QED
  BY <1>2, <1>3, <1>4, <1>6, <1>7, <1>8, <1>9, <1>10, <1>11, <1>12
     DEF Next, Attempt, Dispatch, KernelStep

-----------------------------------------------------------------------------
(* The theorems *)

(* After a reset the buffers are empty, and so is the kernel's table. *)
LEMMA InitInv == Init => TlbInv
<1> SUFFICES ASSUME Init PROVE TlbInv
  OBVIOUS
<1>1. ZeroPage \in Page
  BY PageAssumption DEF Page, ZeroPage
<1>2. TypeOK
  BY <1>1, FlagTypes DEF Init, TypeOK
<1>3. Coherent
  BY DEF Init, Coherent
<1>4. CulpritInv
  BY FlagTypes DEF Init, CulpritInv, Explains
<1> QED
  BY <1>2, <1>3, <1>4 DEF TlbInv

(* Types, for pages, indices and frames in any number. *)
THEOREM TlbTypes == Spec => []TypeOK
<1>1. Init => TypeOK
  BY InitInv DEF TlbInv
<1> QED
  BY <1>1, TypeInv, PTL DEF Spec

(* Whatever the kernel remaps, and whichever pages share an index: while    *)
(* user code runs, no entry of the buffers says more than the page table.   *)
THEOREM BuffersAgree == Spec => []Coherent
<1>1. Init => TypeOK /\ Coherent
  BY InitInv DEF TlbInv
<1> QED
  BY <1>1, TypeInv, CoherentInv, PTL DEF Spec

(* What a handler goes by holds with every load, and with every coincidence *)
(* of flags.                                                                *)
LEMMA SpecInv == Spec => []TlbInv
<1>1. TlbInv /\ [Next]_vars => TlbInv'
  BY TypeInv, CoherentInv, CulpritStep DEF TlbInv
<1> QED
  BY <1>1, InitInv, PTL DEF Spec

(* A handler that returns to user code is told the page that was missed, and *)
(* no other; one that interrupted a handler serves an instruction that is   *)
(* lost, and after a reset a page that nobody missed.                       *)
THEOREM HandlerKnowsCulprit == Spec => []CulpritKnown
<1>1. ASSUME TlbInv PROVE CulpritKnown
  BY <1>1 DEF TlbInv, CulpritInv, Explains, Asks, CulpritKnown
<1> QED
  BY <1>1, SpecInv, PTL

(* An instruction that completes found the mapping of the moment, in both   *)
(* buffers.                                                                 *)
LEMMA CompletesAsMapped ==
    ASSUME TypeOK, Coherent, NEW others \in SUBSET Coinciding, Complete(others)
    PROVE  Memory!Complete
<1>1. /\ mode = "user" /\ todo = {} /\ insn # None /\ insn \in Instr
      /\ insn' = None /\ table' = table /\ Fetched
      /\ Touches(insn) => Access = "HIT"
  BY DEF Complete, User, Coherent, TypeOK
<1>2. insn.code \in Page /\ insn.data \in Page
  BY <1>1, InstrTypes
<1>3. ASSUME NEW t \in Table, NEW p \in Page, NEW w, Lookup(t, p, w) = "HIT"
      PROVE  /\ table[p] # None /\ Paddr(t, p) = table[p].frame
             /\ t = "dtlb" /\ w => ~table[p].ro
  <2>1. p[2] \in Index /\ p = <<p[1], p[2]>>
    BY DEF Page
  <2>2. tlb[t][p[2]] # None /\ tlb[t][p[2]].tag = p[1]
    BY <1>3 DEF Lookup
  <2>3. t = "dtlb" /\ w => ~tlb[t][p[2]].ro
    BY <1>3, <2>2 DEF Lookup
  <2>4. <<t, p>> \notin todo
    BY <1>1
  <2> QED
    BY <2>1, <2>2, <2>3, <2>4 DEF Coherent, Paddr
<1>4. table[insn.code] # None /\ Paddr("itlb", insn.code) = table[insn.code].frame
  BY <1>1, <1>2, <1>3 DEF Fetched, Table
<1>5. Touches(insn) =>
          /\ table[insn.data] # None /\ Paddr("dtlb", insn.data) = table[insn.data].frame
          /\ insn.op = "store" => ~table[insn.data].ro
  BY <1>1, <1>2, <1>3 DEF Access, Table
<1>6. Memory!Permitted(insn)
  BY <1>4, <1>5 DEF Memory!Permitted, Memory!Touches, Touches
<1>7. last' = Memory!Effect(insn)
  BY <1>4, <1>5 DEF Complete, Memory!Effect, Memory!Touches, Touches
<1> QED
  BY <1>1, <1>6, <1>7 DEF Memory!Complete

(* What the kernel gives up, the page table does not permit, or it is a load *)
(* that has gone astray; an instruction that is lost is past giving up.     *)
LEMMA GivesUpForbidden == TlbInv /\ GiveUp => Memory!Refuse \/ UNCHANGED Memory!vars
<1> SUFFICES ASSUME TlbInv, GiveUp PROVE Memory!Refuse \/ UNCHANGED Memory!vars
  OBVIOUS
<1>1. /\ mode \in MissOrFault /\ ~Repaired /\ flags = {} /\ flags' = {}
      /\ mode' = "user" /\ insn' = None /\ UNCHANGED <<table, last>>
  BY DEF GiveUp, Handling, Kernel
<1>2. mode # "RESET" /\ mode' # "RESET"
  BY <1>1 DEF MissOrFault
<1>3. CASE ea # "user"
  <2>1. insn = None
    BY <1>1, <1>3 DEF TlbInv, CulpritInv, Explains
  <2> QED
    BY <1>1, <1>2, <2>1 DEF Memory!vars
<1>4. CASE ea = "user" /\ insn.again # None
  <2>1. insn # None
    BY <1>1, <1>4 DEF TlbInv, CulpritInv, Explains, Asks
  <2> QED
    BY <1>1, <1>2, <1>4, <2>1 DEF Memory!Refuse
<1>5. CASE ea = "user" /\ insn.again = None
  <2>1. /\ insn # None
        /\ tlbbadvaddr = IF mode = "ITLB_MISS" THEN insn.code ELSE insn.data
        /\ mode \in {"DTLB_MISS", "DTLB_FAULT"} => Touches(insn)
        /\ mode = "DTLB_FAULT" => insn.op = "store"
    BY <1>1, <1>5 DEF TlbInv, CulpritInv, Explains, Asks
  <2>2. ~Memory!Permitted(insn)
    BY <1>1, <2>1 DEF Memory!Permitted, Memory!Touches, Touches, Repaired, Culprit, MissOrFault
  <2> QED
    BY <1>1, <1>2, <2>1, <2>2 DEF Memory!Refuse
<1> QED
  BY <1>3, <1>4, <1>5

(* A dispatch loses the instruction only if something coincides with it. *)
LEMMA InterruptLoses ==
    ASSUME TlbInv, NEW exc \in Exception, Interrupt(exc)
    PROVE  Memory!Lose \/ Memory!Disturb
<1>1. exc \in flags /\ UNCHANGED <<table, last>> /\ insn' = IF PassesOver(exc) THEN None ELSE insn
  BY DEF Interrupt
<1>2. CASE insn' = insn
  BY <1>1, <1>2 DEF Memory!Disturb
<1>3. CASE insn' # insn
  <2>1. insn' = None /\ PassesOver(exc) /\ insn # None
    BY <1>1, <1>3
  <2>2. PICK other \in flags \cap MissOrFault : TRUE
    BY <2>1 DEF PassesOver
  <2>3. mode = "user"
    BY <2>1, <2>2 DEF TlbInv, CulpritInv, Explains
  <2>4. exc # "SYSCALL"
    <3>1. other \notin Coinciding /\ other # exc /\ "SYSCALL" \notin Coinciding
      BY <2>1, <2>2, FlagTypes DEF PassesOver, Coinciding
    <3> QED
      BY <1>1, <2>2, <3>1 DEF TlbInv, CulpritInv
  <2>5. exc \in Coinciding
    BY <2>1, <2>4 DEF Exception, PassesOver
  <2> QED
    BY <1>1, <2>1, <2>5 DEF Memory!Lose
<1> QED
  BY <1>2, <1>3

(* Every step is one of the virtual memory's, or none. *)
LEMMA StepSimulation == TlbInv /\ [Next]_vars => [Memory!Next]_(Memory!vars)
<1> SUFFICES ASSUME TlbInv, [Next]_vars PROVE [Memory!Next]_(Memory!vars)
  OBVIOUS
<1>1. ASSUME NEW i \in Instr, Begin(i) PROVE Memory!Next
  BY <1>1 DEF Begin, control, Memory!Next, Memory!Begin
<1>2. ASSUME NEW others \in SUBSET Coinciding, FetchMiss(others) PROVE Memory!Next
  BY <1>2 DEF FetchMiss, Memory!Next, Memory!Disturb
<1>3. ASSUME NEW others \in SUBSET Coinciding, AccessMiss(others) PROVE Memory!Next
  <2>1. insn # None /\ UNCHANGED <<table, last>>
    BY <1>3 DEF AccessMiss
  <2>2. CASE insn.again = None
    BY <1>3, <2>1, <2>2 DEF AccessMiss, Memory!Next, Memory!Disturb
  <2>3. CASE insn.again # None
    BY <1>3, <2>1, <2>3 DEF AccessMiss, Memory!Next, Memory!Stray
  <2> QED
    BY <2>2, <2>3
<1>4. ASSUME NEW others \in SUBSET Coinciding, Complete(others) PROVE Memory!Next
  BY <1>4, CompletesAsMapped DEF TlbInv, Memory!Next
<1>5. ASSUME NEW exc \in Exception, Interrupt(exc) PROVE Memory!Next
  BY <1>5, InterruptLoses DEF Memory!Next
<1>6. ASSUME NEW p \in Page, NEW m \in Mapping \cup {None}, SetMapping(p, m) PROVE Memory!Next
  BY <1>6 DEF SetMapping, control, Memory!Next, Memory!Remap
<1>7. ASSUME NEW p \in Page, NEW cmd \in Command, WriteTlbvaddr(p, cmd) PROVE UNCHANGED Memory!vars
  BY <1>7 DEF WriteTlbvaddr, control, Memory!vars
<1>8. ASSUME NEW t \in Table, WriteTlbpaddr(t) PROVE UNCHANGED Memory!vars
  BY <1>8 DEF WriteTlbpaddr, control, Memory!vars
<1>9. CASE GiveUp
  BY <1>9, GivesUpForbidden DEF Memory!Next
<1>10. CASE Return
  BY <1>10 DEF Return, Memory!Next, Memory!Disturb
<1>11. CASE Reset
  BY <1>11 DEF Reset, Memory!Next, Memory!Lose
<1>12. CASE UNCHANGED vars
  BY <1>12 DEF vars, Memory!vars
<1> QED
  BY <1>1, <1>2, <1>3, <1>4, <1>5, <1>6, <1>7, <1>8, <1>9, <1>10, <1>11, <1>12
     DEF Next, Attempt, Dispatch, KernelStep

(* Translation through the buffers, with its misses, faults and refills, is *)
(* translation through the page table.                                      *)
THEOREM TlbImplementsMemory == Spec => TranslatesAsMapped
<1>1. Init => Memory!Init
  BY DEF Init, Memory!Init
<1> QED
  BY <1>1, StepSimulation, SpecInv, PTL DEF Spec, TranslatesAsMapped, Memory!Spec
=============================================================================

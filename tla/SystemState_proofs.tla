------------------------- MODULE SystemState_proofs -------------------------
(***************************************************************************)
(* Theorems about SystemState, for memories, images and values of any      *)
(* size, and any distance between polls.                                   *)
(***************************************************************************)
EXTENDS SystemState, TLAPS

-----------------------------------------------------------------------------
(* Functions on pages *)

(* One function laid over another has the pages of both. *)
LEMMA OverTypes ==
    ASSUME NEW S, NEW T, NEW f \in [S -> Value], NEW g \in [T -> Value]
    PROVE  /\ Over(f, g) \in [S \cup T -> Value]
           /\ \A p \in S : Over(f, g)[p] = f[p]
           /\ \A p \in T \ S : Over(f, g)[p] = g[p]
BY DEF Over

(* What is loaded at a start, with whatever malloc() had left elsewhere. *)
LEMMA LoadedTypes ==
    ASSUME NEW junk \in [Page -> Value]
    PROVE  /\ Loaded \in [DOMAIN Loaded -> Value]
           /\ DOMAIN Loaded \subseteq Page /\ DOMAIN Setup \subseteq DOMAIN Loaded
           /\ Over(Loaded, junk) \in [Page -> Value]
           /\ \A p \in DOMAIN Loaded : Over(Loaded, junk)[p] = Loaded[p]
<1>1. Setup \in [DOMAIN Setup -> Value] /\ Image \in [DOMAIN Image -> Value]
      /\ DOMAIN Setup \subseteq Page /\ DOMAIN Image \subseteq Page
  BY SystemAssumption
<1>2. Loaded \in [DOMAIN Setup \cup DOMAIN Image -> Value]
  BY <1>1, OverTypes DEF Loaded
<1>3. DOMAIN Loaded = DOMAIN Setup \cup DOMAIN Image
  BY <1>2
<1>4. Loaded \in [DOMAIN Loaded -> Value] /\ DOMAIN Loaded \cup Page = Page
  BY <1>1, <1>2, <1>3
<1>5. /\ Over(Loaded, junk) \in [DOMAIN Loaded \cup Page -> Value]
      /\ \A p \in DOMAIN Loaded : Over(Loaded, junk)[p] = Loaded[p]
  BY <1>4, OverTypes
<1> QED
  BY <1>1, <1>3, <1>4, <1>5

(* The contents of a save file are pages of memory. *)
LEMMA ContentsTypes ==
    /\ \A f \in Contents : f \in [DOMAIN f -> Value] /\ DOMAIN f \subseteq Page
    /\ \A S \in SUBSET Page : [S -> Value] \subseteq Contents
    /\ <<>> \in Contents /\ DOMAIN <<>> = {}
<1>1. \A S \in SUBSET Page : [S -> Value] \subseteq Contents
  BY DEF Contents
<1>2. \A f \in Contents : f \in [DOMAIN f -> Value] /\ DOMAIN f \subseteq Page
  BY DEF Contents
<1>3. <<>> \in [{} -> Value] /\ DOMAIN <<>> = {}
  OBVIOUS
<1> QED
  BY <1>1, <1>2, <1>3

(* Those that do not run hold something. *)
LEMMA NothingTypes == Zero \in Value /\ Rest \in Context /\ NoCpu \in Cpu
<1>1. Zero \in Value /\ Rest \in Context
  BY SystemAssumption DEF Zero, Rest
<1>2. 0 \in Waits
  BY SystemAssumption DEF Waits
<1> QED
  BY <1>1, <1>2 DEF NoCpu, Cpu

-----------------------------------------------------------------------------
(* What a start finds *)

(* A fresh start. *)
LEMMA FreshTypes ==
    ASSUME NEW junk \in [Page -> Value], Fresh(junk)
    PROVE  /\ ram' \in [Page -> Value] /\ mem_wr' = DOMAIN Setup /\ mem_wr' \subseteq DOMAIN Loaded
           /\ defined' = DOMAIN Loaded /\ defined' \subseteq Page
           /\ \A p \in DOMAIN Loaded : ram'[p] = Loaded[p]
           /\ cpu' \in Cpu /\ dev' \in Context
           /\ cpu' = [ctx |-> cpu'.ctx, dtlbe |-> FALSE, wait |-> 0]
<1>1. 0 \in Waits
  BY SystemAssumption DEF Waits
<1>2. /\ cpu' \in Cpu /\ dev' \in Context
      /\ cpu' = [ctx |-> cpu'.ctx, dtlbe |-> FALSE, wait |-> 0]
  BY <1>1 DEF Fresh, Cpu
<1> QED
  BY <1>2, LoadedTypes DEF Fresh

(* A start from a file: all of its pages come back, unless translation was  *)
(* on when it was saved.                                                    *)
LEMMA LoadTypes ==
    ASSUME file \in File, NEW junk \in [Page -> Value], load_system_state(junk)
    PROVE  /\ ram' \in [Page -> Value] /\ mem_wr' \subseteq defined'
           /\ defined' = DOMAIN Loaded \cup DOMAIN file.pages /\ defined' \subseteq Page
           /\ cpu' = file.cpu /\ dev' = file.dev /\ cpu' \in Cpu /\ dev' \in Context
           /\ ~file.cpu.dtlbe =>
                 /\ DOMAIN file.pages \subseteq mem_wr'
                 /\ \A p \in DOMAIN file.pages : ram'[p] = file.pages[p]
                 /\ \A p \in DOMAIN Loaded \ DOMAIN file.pages : ram'[p] = Loaded[p]
<1> DEFINE pages == IF file.cpu.dtlbe THEN <<>> ELSE file.pages
           base == Over(Loaded, junk)
<1>1. /\ ram' = Over(pages, base) /\ mem_wr' = DOMAIN Setup \cup DOMAIN pages
      /\ cpu' = file.cpu /\ dev' = file.dev
      /\ defined' = DOMAIN Loaded \cup DOMAIN file.pages
  BY DEF load_system_state
<1>2. file.cpu \in Cpu /\ file.dev \in Context /\ file.pages \in Contents
  BY DEF File
<1>3. /\ DOMAIN Setup \subseteq DOMAIN Loaded /\ DOMAIN Loaded \subseteq Page
      /\ base \in [Page -> Value] /\ \A p \in DOMAIN Loaded : base[p] = Loaded[p]
  BY LoadedTypes
<1>4. /\ pages \in [DOMAIN pages -> Value] /\ DOMAIN pages \subseteq DOMAIN file.pages
      /\ DOMAIN file.pages \subseteq Page
      /\ ~file.cpu.dtlbe => pages = file.pages
  BY <1>2, ContentsTypes
<1> HIDE DEF pages, base
<1>5. /\ Over(pages, base) \in [DOMAIN pages \cup Page -> Value]
      /\ \A p \in DOMAIN pages : Over(pages, base)[p] = pages[p]
      /\ \A p \in Page \ DOMAIN pages : Over(pages, base)[p] = base[p]
  BY <1>3, <1>4 DEF Over
<1>6. DOMAIN pages \cup Page = Page
  BY <1>4
<1> QED
  BY <1>1, <1>2, <1>3, <1>4, <1>5, <1>6

-----------------------------------------------------------------------------
(* Types *)

(* Where a process is says what the wait for the next poll may be, and that *)
(* there is a file.                                                         *)
PhaseInv ==
    /\ phase = "run" => cpu.wait # Asked
    /\ phase \in {"ended", "saving"} => cpu.wait = Asked
    /\ phase = "saving" => file \in File

TypeInv == TypeOK /\ PhaseInv

(* An instruction counts down to the next poll, and starts anew from it.    *)
LEMMA StepTypes ==
    ASSUME TypeInv, phase = "run", NEW c \in Cpu, Step(c)
    PROVE  /\ cpu' \in Cpu /\ cpu'.wait # Asked
           /\ cpu' = [ctx |-> c.ctx, dtlbe |-> c.dtlbe,
                      wait |-> IF cpu.wait = 0 THEN Granularity - 1 ELSE cpu.wait - 1]
<1>1. cpu.wait \in Waits /\ cpu.wait # Asked
  BY DEF TypeInv, TypeOK, PhaseInv, Cpu
<1> DEFINE w == IF cpu.wait = 0 THEN Granularity - 1 ELSE cpu.wait - 1
<1>2. w \in Waits /\ w # Asked
  BY <1>1, SystemAssumption DEF Waits, Asked
<1> HIDE DEF w
<1>3. cpu' = [c EXCEPT !.wait = w]
  BY DEF Step, w
<1>4. cpu' = [ctx |-> c.ctx, dtlbe |-> c.dtlbe, wait |-> w] /\ cpu' \in Cpu
  BY <1>2, <1>3 DEF Cpu
<1> QED
  BY <1>2, <1>4 DEF w

(* What every instruction does, whichever it is. *)
LEMMA InstructionEffect ==
    ASSUME TypeInv, Instruction
    PROVE  /\ phase = "run" /\ UNCHANGED <<phase, wakeup_time_save, file, kept>>
           /\ dev' \in Context /\ cpu' \in Cpu /\ cpu'.wait # Asked
           /\ cpu'.wait = IF cpu.wait = 0 THEN Granularity - 1 ELSE cpu.wait - 1
           /\ cpu'.dtlbe = cpu.dtlbe \/ cpu'.dtlbe \in Translation
           /\ cc_adjust' = cc_adjust \/ cc_adjust' \in CcAdjusts
           /\ \/ UNCHANGED <<ram, mem_wr, defined>>
              \/ \E p \in Page, v \in Value, window \in Windows :
                   /\ ram' = [ram EXCEPT ![p] = v] /\ mem_wr' = Marked(p, window)
                   /\ defined' = defined \cup {p}
<1>1. cpu \in Cpu /\ dev \in Context
  BY DEF TypeInv, TypeOK
<1>2. Polled => dev' \in Context
  BY <1>1 DEF Polled
<1>3. phase = "run"
  BY DEF Instruction, Compute, AccessDevice, Store, SetTranslation, WriteCC
<1>4. ASSUME NEW c \in Cpu, Step(c)
      PROVE  /\ cpu' \in Cpu /\ cpu'.wait # Asked /\ cpu'.dtlbe = c.dtlbe
             /\ cpu'.wait = IF cpu.wait = 0 THEN Granularity - 1 ELSE cpu.wait - 1
  BY <1>3, <1>4, StepTypes
<1>5. ASSUME NEW c \in Context, Compute(c)
      PROVE  \E d \in Cpu : Step(d) /\ d.dtlbe = cpu.dtlbe
  <2> DEFINE d == [cpu EXCEPT !.ctx = c]
  <2>1. d \in Cpu /\ d.dtlbe = cpu.dtlbe
    BY <1>1 DEF Cpu
  <2>2. Step(d)
    BY <1>5 DEF Compute
  <2> HIDE DEF d
  <2> QED
    BY <2>1, <2>2
<1>6. ASSUME NEW b \in Translation, SetTranslation(b)
      PROVE  \E d \in Cpu : Step(d) /\ d.dtlbe = b
  <2> DEFINE d == [cpu EXCEPT !.dtlbe = b]
  <2>1. d \in Cpu /\ d.dtlbe = b
    BY <1>1, SystemAssumption DEF Cpu
  <2>2. Step(d)
    BY <1>6 DEF SetTranslation
  <2> HIDE DEF d
  <2> QED
    BY <2>1, <2>2
<1>7. CASE \E c \in Context : Compute(c)
  BY <1>2, <1>3, <1>4, <1>5, <1>7 DEF Compute
<1>8. CASE \E c \in Context : AccessDevice(c)
  BY <1>1, <1>3, <1>4, <1>8 DEF AccessDevice
<1>9. CASE \E p \in Page, v \in Value, window \in Windows : Store(p, v, window)
  BY <1>1, <1>2, <1>3, <1>4, <1>9 DEF Store
<1>10. CASE \E b \in Translation : SetTranslation(b)
  BY <1>2, <1>3, <1>4, <1>6, <1>10 DEF SetTranslation
<1>11. CASE \E n \in CcAdjusts : WriteCC(n)
  BY <1>1, <1>2, <1>3, <1>4, <1>11 DEF WriteCC
<1> QED
  BY <1>7, <1>8, <1>9, <1>10, <1>11 DEF Instruction

(* At first there is no process, and no file. *)
LEMMA InitTypes == Init => TypeInv
<1> SUFFICES ASSUME Init PROVE TypeInv
  OBVIOUS
<1>1. 0 \in 0 .. Granularity /\ 0 \in Nat
  BY SystemAssumption
<1>2. file \in {None} \cup File /\ (file # None => file.cpu.wait # Asked)
  BY DEF Init
<1> QED
  BY <1>1, <1>2, NothingTypes DEF Init, TypeInv, TypeOK, PhaseInv

(* A process that ends leaves only its file. *)
LEMMA ExitTypes ==
    ASSUME TypeInv, NEW S, Exit(S)
    PROVE  TypeInv'
<1>1. 0 \in 0 .. Granularity /\ 0 \in Nat
  BY SystemAssumption
<1>2. [p \in Page |-> Zero] \in [Page -> Value]
  BY NothingTypes
<1> QED
  BY <1>1, <1>2, NothingTypes DEF Exit, TypeInv, TypeOK, PhaseInv

(* Every step keeps the types. *)
LEMMA TypeStep == TypeInv /\ [Next]_vars => TypeInv'
<1> SUFFICES ASSUME TypeInv, [Next]_vars PROVE TypeInv'
  OBVIOUS
<1>1. /\ 0 \in 0 .. Granularity /\ Granularity \in 0 .. Granularity /\ 0 \in Nat
      /\ 0 # Asked /\ Asked \in Waits /\ 0 .. Granularity \subseteq Waits
      /\ Asked \notin 0 .. Granularity
  BY SystemAssumption DEF Asked, Waits
<1>2. /\ phase \in {"off", "run", "ended", "saving"}
      /\ ram \in [Page -> Value] /\ mem_wr \subseteq Page /\ defined \subseteq Page
      /\ cpu \in Cpu /\ cc_adjust \in Nat /\ wakeup_time_save \in 0 .. Granularity
      /\ dev \in Context /\ file \in {None} \cup File
      /\ file # None => file.cpu.wait # Asked
  BY DEF TypeInv, TypeOK
<1>3. ASSUME NEW load \in BOOLEAN, Start(load) PROVE TypeInv'
  <2>1. PICK junk \in [Page -> Value] :
            IF load /\ file # None THEN load_system_state(junk) ELSE Fresh(junk)
    BY <1>3 DEF Start
  <2>2. phase' = "run" /\ cc_adjust' = 0 /\ wakeup_time_save' = 0 /\ UNCHANGED file
    BY <1>3 DEF Start
  <2>3. CASE load /\ file # None
    <3>1. file \in File /\ load_system_state(junk) /\ file.cpu.wait # Asked
      BY <1>2, <2>1, <2>3
    <3>2. /\ ram' \in [Page -> Value] /\ mem_wr' \subseteq Page /\ defined' \subseteq Page
          /\ cpu' \in Cpu /\ dev' \in Context /\ cpu'.wait # Asked
      BY <3>1, LoadTypes
    <3> QED
      BY <1>1, <1>2, <2>2, <3>2 DEF TypeInv, TypeOK, PhaseInv
  <2>4. CASE ~(load /\ file # None)
    <3>1. /\ ram' \in [Page -> Value] /\ mem_wr' \subseteq Page /\ defined' \subseteq Page
          /\ cpu' \in Cpu /\ dev' \in Context /\ cpu'.wait # Asked
      BY <1>1, <2>1, <2>4, FreshTypes
    <3> QED
      BY <1>1, <1>2, <2>2, <3>1 DEF TypeInv, TypeOK, PhaseInv
  <2> QED
    BY <2>3, <2>4
<1>4. CASE Instruction
  <2>1. /\ phase = "run" /\ UNCHANGED <<phase, wakeup_time_save, file>>
        /\ dev' \in Context /\ cpu' \in Cpu /\ cpu'.wait # Asked
        /\ cc_adjust' \in Nat
    BY <1>2, <1>4, InstructionEffect, SystemAssumption
  <2>2. ram' \in [Page -> Value] /\ mem_wr' \subseteq Page /\ defined' \subseteq Page
    BY <1>2, <1>4, InstructionEffect DEF Marked
  <2> QED
    BY <1>2, <2>1, <2>2 DEF TypeInv, TypeOK, PhaseInv
<1>5. CASE Terminate
  <2>1. cpu' \in Cpu /\ cpu'.wait = Asked
    BY <1>1, <1>2, <1>5 DEF Terminate, Cpu
  <2> QED
    BY <1>1, <1>2, <1>5, <2>1 DEF Terminate, TypeInv, TypeOK, PhaseInv
<1>6. CASE Save
  <2>1. [cpu EXCEPT !.wait = wakeup_time_save] \in Cpu
    BY <1>1, <1>2 DEF Cpu
  <2>2. file'.cpu.wait = wakeup_time_save /\ file' \in File
    BY <1>2, <1>6, <2>1, ContentsTypes DEF Save, File, Cpu
  <2>3. file'.cpu.wait # Asked
    BY <1>1, <1>2, <2>2
  <2> QED
    BY <1>2, <1>6, <2>2, <2>3 DEF Save, process, TypeInv, TypeOK, PhaseInv
<1>7. ASSUME NEW p \in Page, SavePage(p) PROVE TypeInv'
  <2> DEFINE pages == [q \in DOMAIN file.pages \cup {p} |-> IF q = p THEN Stored(p) ELSE file.pages[q]]
  <2>1. file \in File /\ phase = "saving"
    BY <1>7 DEF SavePage, TypeInv, PhaseInv
  <2>2. file.pages \in [DOMAIN file.pages -> Value] /\ DOMAIN file.pages \subseteq Page
    BY <2>1, ContentsTypes DEF File
  <2>3. Stored(p) \in Value
    BY <1>2, NothingTypes DEF Stored
  <2>4. pages \in [DOMAIN file.pages \cup {p} -> Value]
    BY <2>2, <2>3
  <2>5. pages \in Contents
    BY <2>2, <2>4, ContentsTypes
  <2>6. file' = [file EXCEPT !.pages = pages]
    BY <1>7 DEF SavePage
  <2> HIDE DEF pages
  <2>7. file' \in File /\ file'.cpu = file.cpu
    BY <2>1, <2>5, <2>6 DEF File
  <2>8. file'.cpu.wait # Asked
    BY <1>2, <2>1, <2>7, NoneAssumption
  <2> QED
    BY <1>2, <1>7, <2>7, <2>8 DEF SavePage, process, TypeInv, TypeOK, PhaseInv
<1>8. CASE Close \/ Leave \/ Kill
  BY <1>8, ExitTypes DEF Close, Leave, Kill
<1>9. CASE UNCHANGED vars
  BY <1>9 DEF vars, TypeInv, TypeOK, PhaseInv
<1> QED
  BY <1>3, <1>4, <1>5, <1>6, <1>7, <1>8, <1>9 DEF Next

(* Always. *)
LEMMA SpecTypes == Spec => []TypeInv
BY InitTypes, TypeStep, PTL DEF Spec

(* Types: in particular no file ever holds the request to terminate for a   *)
(* wakeup time, which would end every run that loads it.                    *)
THEOREM SystemTypes == Spec => []TypeOK
<1>1. TypeInv => TypeOK
  BY DEF TypeInv
<1> QED
  BY <1>1, SpecTypes, PTL

-----------------------------------------------------------------------------
(* What a save covers, when memory is stored to through its window and the  *)
(* guest does not turn on translation.                                      *)

(* Pages are marked only when something is stored to them, pages are loaded *)
(* at every start, and no file restores a PSW that translates.              *)
MarkInv ==
    /\ phase # "off" =>
          /\ DOMAIN Loaded \subseteq defined /\ mem_wr \subseteq defined
          /\ ~cpu.dtlbe
    /\ file # None => ~file.cpu.dtlbe

CoverInv == TypeInv /\ MarkInv /\ SaveCovers

(* Every step keeps the marks. *)
LEMMA CoverStep ==
    ASSUME Windows \subseteq {TRUE}, Translation \subseteq {FALSE}, CoverInv, [Next]_vars
    PROVE  CoverInv'
<1>1. TypeInv /\ TypeInv' /\ MarkInv /\ SaveCovers
  BY TypeStep DEF CoverInv
<1> SUFFICES MarkInv' /\ SaveCovers'
  BY <1>1 DEF CoverInv
<1>2. ASSUME NEW load \in BOOLEAN, Start(load) PROVE MarkInv' /\ SaveCovers'
  <2>1. PICK junk \in [Page -> Value] :
            IF load /\ file # None THEN load_system_state(junk) ELSE Fresh(junk)
    BY <1>2 DEF Start
  <2>2. UNCHANGED file
    BY <1>2 DEF Start
  <2>3. CASE load /\ file # None
    <3>1. file \in File /\ load_system_state(junk) /\ ~file.cpu.dtlbe
      BY <1>1, <2>1, <2>3 DEF TypeInv, TypeOK, MarkInv
    <3>2. /\ mem_wr' \subseteq defined' /\ defined' = DOMAIN Loaded \cup DOMAIN file.pages
          /\ cpu' = file.cpu /\ DOMAIN file.pages \subseteq mem_wr'
          /\ \A p \in DOMAIN Loaded \ DOMAIN file.pages : ram'[p] = Loaded[p]
      BY <3>1, LoadTypes
    <3> QED
      BY <2>2, <3>1, <3>2 DEF MarkInv, SaveCovers
  <2>4. CASE ~(load /\ file # None)
    <3>1. /\ mem_wr' \subseteq DOMAIN Loaded /\ defined' = DOMAIN Loaded
          /\ \A p \in DOMAIN Loaded : ram'[p] = Loaded[p]
          /\ ~cpu'.dtlbe
      BY <2>1, <2>4, FreshTypes
    <3> QED
      BY <1>1, <2>2, <3>1 DEF MarkInv, SaveCovers
  <2> QED
    BY <2>3, <2>4
<1>3. CASE Instruction
  <2>1. phase = "run" /\ UNCHANGED <<phase, file>> /\ ~cpu'.dtlbe
    BY <1>1, <1>3, InstructionEffect DEF MarkInv
  <2>2. CASE UNCHANGED <<ram, mem_wr, defined>>
    BY <1>1, <2>1, <2>2 DEF MarkInv, SaveCovers
  <2>3. ASSUME NEW p \in Page, NEW v \in Value, NEW window \in Windows,
               ram' = [ram EXCEPT ![p] = v], mem_wr' = Marked(p, window),
               defined' = defined \cup {p}
        PROVE  MarkInv' /\ SaveCovers'
    <3>1. mem_wr' = mem_wr \cup {p}
      BY <2>3 DEF Marked
    <3>2. \A q \in defined \ {p} : ram'[q] = ram[q]
      BY <1>1, <2>3 DEF TypeInv, TypeOK
    <3> QED
      BY <1>1, <2>1, <2>3, <3>1, <3>2 DEF MarkInv, SaveCovers
  <2> QED
    BY <1>1, <1>3, <2>2, <2>3, InstructionEffect
<1>4. CASE Terminate
  <2>1. cpu'.dtlbe = cpu.dtlbe
    BY <1>1, <1>4 DEF Terminate, TypeInv, TypeOK, Cpu
  <2> QED
    BY <1>1, <1>4, <2>1 DEF Terminate, MarkInv, SaveCovers
<1>5. CASE Save
  <2>1. file'.cpu.dtlbe = cpu.dtlbe
    BY <1>1, <1>5 DEF Save, TypeInv, TypeOK, Cpu
  <2> QED
    BY <1>1, <1>5, <2>1 DEF Save, process, MarkInv, SaveCovers
<1>6. ASSUME NEW p \in Page, SavePage(p) PROVE MarkInv' /\ SaveCovers'
  <2>1. file \in File
    BY <1>1, <1>6 DEF SavePage, TypeInv, PhaseInv
  <2>2. file'.cpu = file.cpu
    BY <1>6, <2>1 DEF SavePage, File
  <2> QED
    BY <1>1, <1>6, <2>1, <2>2, NoneAssumption DEF SavePage, process, MarkInv, SaveCovers
<1>7. CASE Close \/ Leave \/ Kill
  BY <1>1, <1>7 DEF Close, Leave, Kill, Exit, MarkInv, SaveCovers
<1>8. CASE UNCHANGED vars
  BY <1>1, <1>8 DEF vars, MarkInv, SaveCovers
<1> QED
  BY <1>1, <1>2, <1>3, <1>4, <1>5, <1>6, <1>7, <1>8 DEF Next

(* At first there is nothing to cover. *)
LEMMA InitCovers == Init => CoverInv
BY InitTypes DEF Init, CoverInv, MarkInv, SaveCovers

(* A save omits no page that a later start would not find again, through    *)
(* any number of runs and however they end.                                 *)
THEOREM SaveOmitsNothing ==
    ASSUME Windows \subseteq {TRUE}, Translation \subseteq {FALSE}
    PROVE  Spec => []SaveCovers
<1>1. CoverInv /\ [Next]_vars => CoverInv'
  BY CoverStep
<1>2. CoverInv => SaveCovers
  BY DEF CoverInv
<1> QED
  BY <1>1, <1>2, InitCovers, PTL DEF Spec

-----------------------------------------------------------------------------
(* A machine that is suspended: when, besides, the guest does not offset    *)
(* its cycle counter and no signal comes while the state is saved.          *)

\* What the guest has while a process runs.
MemNow == [p \in Page |-> IF p \in defined THEN ram[p] ELSE None]
CpuNow == [ctx |-> cpu.ctx, dtlbe |-> cpu.dtlbe, cc |-> cc_adjust,
           wait |-> IF cpu.wait = Asked THEN wakeup_time_save ELSE cpu.wait]

(* Live in these parts. *)
LEMMA LiveParts ==
    /\ phase # "off" => Live = [mem |-> MemNow, cpu |-> CpuNow, dev |-> dev]
    /\ phase' # "off" => Live' = [mem |-> MemNow', cpu |-> CpuNow', dev |-> dev']
    /\ phase = "off" => Live = None
    /\ phase' = "off" => Live' = None
BY DEF Live, MemNow, CpuNow

(* The part of the file that is written already is as the process has it.   *)
SavingInv ==
    /\ cc_adjust = 0
    /\ phase = "saving" =>
          /\ file.cpu = [cpu EXCEPT !.wait = wakeup_time_save] /\ file.dev = dev
          /\ DOMAIN file.pages \subseteq mem_wr
          /\ \A p \in DOMAIN file.pages : file.pages[p] = ram[p]

SystemInv == CoverInv /\ SavingInv

(* Every step keeps it. *)
LEMMA SavingStep ==
    ASSUME CcAdjusts \subseteq {0}, SystemInv, [Next]_vars
    PROVE  SavingInv'
<1>1. TypeInv /\ MarkInv /\ SavingInv
  BY DEF SystemInv, CoverInv
<1>2. ASSUME NEW load \in BOOLEAN, Start(load) PROVE SavingInv'
  BY <1>2 DEF Start, SavingInv
<1>3. CASE Instruction
  <2>1. phase = "run" /\ phase' = phase /\ cc_adjust' = 0
    BY <1>1, <1>3, InstructionEffect DEF SavingInv
  <2> QED
    BY <2>1 DEF SavingInv
<1>4. CASE Terminate
  BY <1>1, <1>4 DEF Terminate, SavingInv
<1>5. CASE Save
  <2>1. /\ UNCHANGED process
        /\ file' = [cpu |-> [cpu EXCEPT !.wait = wakeup_time_save], dev |-> dev, pages |-> <<>>]
    BY <1>5 DEF Save
  <2>2. /\ file'.cpu = [cpu EXCEPT !.wait = wakeup_time_save] /\ file'.dev = dev
        /\ DOMAIN file'.pages = {}
    BY <2>1
  <2> QED
    BY <1>1, <2>1, <2>2 DEF process, SavingInv
<1>6. ASSUME NEW p \in Page, SavePage(p) PROVE SavingInv'
  <2>1. file \in File /\ phase = "saving" /\ p \in mem_wr /\ UNCHANGED process
    BY <1>1, <1>6 DEF SavePage, TypeInv, PhaseInv, ToSave
  <2>2. Stored(p) = ram[p]
    BY <1>1, <2>1 DEF Stored, MarkInv
  <2> DEFINE pages == [q \in DOMAIN file.pages \cup {p} |-> IF q = p THEN Stored(p) ELSE file.pages[q]]
  <2>3. DOMAIN pages \subseteq mem_wr /\ \A q \in DOMAIN pages : pages[q] = ram[q]
    BY <1>1, <2>1, <2>2 DEF SavingInv
  <2>4. file' = [file EXCEPT !.pages = pages]
    BY <1>6 DEF SavePage
  <2> HIDE DEF pages
  <2>5. file'.cpu = file.cpu /\ file'.dev = file.dev /\ file'.pages = pages
    BY <2>1, <2>4 DEF File
  <2> QED
    BY <1>1, <2>1, <2>3, <2>5 DEF process, SavingInv
<1>7. CASE Close \/ Leave \/ Kill
  BY <1>7 DEF Close, Leave, Kill, Exit, SavingInv
<1>8. CASE UNCHANGED vars
  BY <1>1, <1>8 DEF vars, SavingInv
<1> QED
  BY <1>2, <1>3, <1>4, <1>5, <1>6, <1>7, <1>8 DEF Next

(* A process that runs has something that is suspended, or ends. *)
LEMMA LiveIsSome == SystemInv /\ phase # "off" => Live # None
<1> SUFFICES ASSUME SystemInv, phase # "off" PROVE Live # None
  OBVIOUS
<1>1. /\ ram \in [Page -> Value] /\ cpu \in Cpu /\ dev \in Context /\ cc_adjust = 0
      /\ wakeup_time_save \in 0 .. Granularity
  BY DEF SystemInv, CoverInv, TypeInv, TypeOK, SavingInv
<1>2. MemNow \in [Page -> Value \cup {None}]
  BY <1>1 DEF MemNow
<1>3. CpuNow \in [ctx : Context, dtlbe : BOOLEAN, cc : CcAdjusts \cup {0}, wait : Waits]
  <2>1. wakeup_time_save \in Waits /\ cpu.wait \in Waits
    BY <1>1, SystemAssumption DEF Waits, Cpu
  <2> QED
    BY <1>1, <2>1 DEF CpuNow, Cpu
<1> QED
  BY <1>1, <1>2, <1>3, LiveParts, NoneAssumption

(* A whole file stands for what the process had when it was closed. *)
LEMMA FileIsWhole ==
    ASSUME SystemInv, Close
    PROVE  Snapshot(file) = Live
<1>1. TypeInv /\ MarkInv /\ SaveCovers /\ SavingInv
  BY DEF SystemInv, CoverInv
<1>2. /\ phase = "saving" /\ ToSave = {} /\ file \in File /\ file # None
      /\ cpu \in Cpu /\ cpu.wait = Asked /\ mem_wr \subseteq Page /\ defined \subseteq Page
  BY <1>1, NoneAssumption DEF Close, TypeInv, TypeOK, PhaseInv
<1>3. DOMAIN file.pages = mem_wr
  BY <1>1, <1>2 DEF ToSave, SavingInv
<1>4. file.cpu.ctx = cpu.ctx /\ file.cpu.dtlbe = cpu.dtlbe /\ file.cpu.wait = wakeup_time_save
  BY <1>1, <1>2 DEF SavingInv, Cpu
<1>5. [ctx |-> file.cpu.ctx, dtlbe |-> file.cpu.dtlbe, cc |-> 0, wait |-> file.cpu.wait] = CpuNow
  BY <1>1, <1>2, <1>4 DEF CpuNow, SavingInv
<1>6. ASSUME NEW p \in Page
      PROVE  (IF p \in DOMAIN file.pages THEN file.pages[p] ELSE Boot[p])
                 = (IF p \in defined THEN ram[p] ELSE None)
  <2>1. CASE p \in mem_wr
    BY <1>1, <1>2, <1>3, <2>1 DEF MarkInv, SavingInv
  <2>2. CASE p \notin mem_wr /\ p \in defined
    BY <1>1, <1>2, <1>3, <2>2 DEF SaveCovers, Boot
  <2>3. CASE p \notin mem_wr /\ p \notin defined
    BY <1>1, <1>2, <1>3, <2>3 DEF MarkInv, Boot
  <2> QED
    BY <2>1, <2>2, <2>3
<1>7. [p \in Page |-> IF p \in DOMAIN file.pages THEN file.pages[p] ELSE Boot[p]] = MemNow
  BY <1>6 DEF MemNow
<1>8. file.dev = dev
  BY <1>1, <1>2 DEF SavingInv
<1> QED
  BY <1>2, <1>5, <1>7, <1>8, LiveParts DEF Snapshot

-----------------------------------------------------------------------------
(* Every step is one of the machine's, or none. *)

(* A start is the machine's first, or goes on from what was saved. *)
LEMMA StartSimulation ==
    ASSUME SystemInv, NEW load \in BOOLEAN, Start(load)
    PROVE  Machine!PowerOn \/ Machine!Resume
<1>1. TypeInv /\ MarkInv
  BY DEF SystemInv, CoverInv
<1>2. PICK junk \in [Page -> Value] :
          IF load /\ file # None THEN load_system_state(junk) ELSE Fresh(junk)
  BY DEF Start
<1>3. /\ phase = "off" /\ phase' = "run" /\ cc_adjust' = 0 /\ wakeup_time_save' = 0
      /\ UNCHANGED <<file, kept>>
  BY DEF Start
<1>4. Live = None /\ Live' = [mem |-> MemNow', cpu |-> CpuNow', dev |-> dev']
  BY <1>3, LiveParts
<1>5. Snapshot(file)' = Snapshot(file)
  BY <1>3 DEF Snapshot
<1>6. CASE load /\ file # None
  <2>1. file \in File /\ load_system_state(junk) /\ ~file.cpu.dtlbe /\ file.cpu.wait # Asked
    BY <1>1, <1>2, <1>6 DEF TypeInv, TypeOK, MarkInv
  <2>2. /\ defined' = DOMAIN Loaded \cup DOMAIN file.pages /\ cpu' = file.cpu /\ dev' = file.dev
        /\ \A p \in DOMAIN file.pages : ram'[p] = file.pages[p]
        /\ \A p \in DOMAIN Loaded \ DOMAIN file.pages : ram'[p] = Loaded[p]
    BY <2>1, LoadTypes
  <2>3. MemNow' = [p \in Page |-> IF p \in DOMAIN file.pages THEN file.pages[p] ELSE Boot[p]]
    BY <2>2 DEF MemNow, Boot
  <2>4. CpuNow' = [ctx |-> file.cpu.ctx, dtlbe |-> file.cpu.dtlbe, cc |-> 0, wait |-> file.cpu.wait]
    BY <1>3, <2>1, <2>2 DEF CpuNow
  <2>5. Snapshot(file) = Live'
    BY <1>4, <1>6, <2>2, <2>3, <2>4 DEF Snapshot
  <2>6. Live' # None
    <3>1. phase' # "off"
      BY <1>3
    <3>2. Snapshot(file) \in [mem : [Page -> Value \cup {None}], dev : Context,
                               cpu : [ctx : Context, dtlbe : BOOLEAN, cc : CcAdjusts \cup {0}, wait : Waits]]
      <4>1. file.cpu \in Cpu /\ file.dev \in Context /\ ram' \in [Page -> Value]
        BY <2>1, LoadTypes DEF File
      <4>2. MemNow' \in [Page -> Value \cup {None}]
        BY <4>1 DEF MemNow
      <4>3. CpuNow' \in [ctx : Context, dtlbe : BOOLEAN, cc : CcAdjusts \cup {0}, wait : Waits]
        BY <2>4, <4>1 DEF Cpu
      <4> QED
        BY <1>4, <2>2, <2>5, <4>1, <4>2, <4>3
    <3> QED
      BY <2>5, <3>2, NoneAssumption
  <2> QED
    BY <1>3, <1>4, <1>5, <2>5, <2>6 DEF Machine!Resume
<1>7. CASE ~(load /\ file # None)
  <2>1. /\ defined' = DOMAIN Loaded /\ \A p \in DOMAIN Loaded : ram'[p] = Loaded[p]
        /\ cpu' \in Cpu /\ dev' \in Context
        /\ cpu' = [ctx |-> cpu'.ctx, dtlbe |-> FALSE, wait |-> 0]
    BY <1>2, <1>7, FreshTypes
  <2>2. MemNow' = Boot
    BY <2>1 DEF MemNow, Boot
  <2>3. 0 # Asked
    BY SystemAssumption DEF Asked
  <2>4. cpu'.ctx \in Context /\ cpu'.dtlbe = FALSE /\ cpu'.wait = 0
    BY <2>1 DEF Cpu
  <2>5. CpuNow' = [ctx |-> cpu'.ctx, dtlbe |-> FALSE, cc |-> 0, wait |-> 0]
    BY <1>3, <2>3, <2>4 DEF CpuNow
  <2> QED
    BY <1>3, <1>4, <1>5, <2>1, <2>2, <2>4, <2>5 DEF Machine!PowerOn
<1> QED
  BY <1>6, <1>7

(* An instruction changes a page at most, and counts down to the next poll. *)
LEMMA InstructionSimulation ==
    ASSUME CcAdjusts \subseteq {0}, SystemInv, SystemInv', Instruction
    PROVE  Machine!Instruction
<1>1. TypeInv /\ TypeInv' /\ cc_adjust = 0 /\ cc_adjust' = 0
  BY DEF SystemInv, CoverInv, SavingInv
<1>2. /\ phase = "run" /\ phase' = "run" /\ UNCHANGED <<file, kept>>
      /\ dev' \in Context /\ cpu' \in Cpu /\ cpu'.wait # Asked
      /\ cpu'.wait = IF cpu.wait = 0 THEN Granularity - 1 ELSE cpu.wait - 1
  BY <1>1, InstructionEffect
<1>3. /\ Live = [mem |-> MemNow, cpu |-> CpuNow, dev |-> dev] /\ Live # None
      /\ Live' = [mem |-> MemNow', cpu |-> CpuNow', dev |-> dev']
  BY <1>2, LiveParts, LiveIsSome
<1>4. cpu.wait # Asked /\ Live.cpu.wait = cpu.wait /\ Live.mem = MemNow
  BY <1>1, <1>2, <1>3 DEF TypeInv, PhaseInv, CpuNow
<1>5. CpuNow' = [ctx |-> cpu'.ctx, dtlbe |-> cpu'.dtlbe, cc |-> 0,
                 wait |-> IF Live.cpu.wait = 0 THEN Granularity - 1 ELSE Live.cpu.wait - 1]
  BY <1>1, <1>2, <1>4 DEF CpuNow
<1>6. cpu'.ctx \in Context /\ cpu'.dtlbe \in BOOLEAN
  BY <1>2 DEF Cpu
<1>7. MemNow' = MemNow \/ \E p \in Page, v \in Value : MemNow' = [MemNow EXCEPT ![p] = v]
  <2>1. CASE UNCHANGED <<ram, mem_wr, defined>>
    BY <2>1 DEF MemNow
  <2>2. ASSUME NEW p \in Page, NEW v \in Value,
               ram' = [ram EXCEPT ![p] = v], defined' = defined \cup {p}
        PROVE  MemNow' = [MemNow EXCEPT ![p] = v]
    <3>1. ram \in [Page -> Value]
      BY <1>1 DEF TypeInv, TypeOK
    <3> QED
      BY <2>2, <3>1 DEF MemNow
  <2> QED
    BY <1>1, <2>1, <2>2, InstructionEffect
<1>8. MemNow' \in Machine!Stored
  BY <1>4, <1>7 DEF Machine!Stored
<1>9. Live' = Machine!Later(MemNow', cpu'.ctx, cpu'.dtlbe, 0, dev')
  BY <1>3, <1>5 DEF Machine!Later
<1>10. Snapshot(file)' = Snapshot(file)
  BY <1>2 DEF Snapshot
<1> QED
  BY <1>2, <1>3, <1>6, <1>8, <1>9, <1>10 DEF Machine!Instruction

(* The poll at which the user ends the run leaves the wait as it would have *)
(* been.                                                                    *)
LEMMA TerminateSimulation ==
    ASSUME SystemInv, Terminate
    PROVE  Machine!End
<1>1. /\ phase = "run" /\ phase' = "ended" /\ cpu.wait = 0 /\ cpu \in Cpu /\ dev' \in Context
      /\ cpu' = [cpu EXCEPT !.wait = Asked] /\ wakeup_time_save' = Granularity
      /\ UNCHANGED <<ram, defined, cc_adjust, file, kept>>
  BY DEF Terminate, SystemInv, CoverInv, TypeInv, TypeOK
<1>2. /\ Live = [mem |-> MemNow, cpu |-> CpuNow, dev |-> dev] /\ Live # None
      /\ Live' = [mem |-> MemNow', cpu |-> CpuNow', dev |-> dev']
  BY <1>1, LiveParts, LiveIsSome
<1>3. 0 # Asked
  BY SystemAssumption DEF Asked
<1>4. MemNow' = MemNow
  BY <1>1 DEF MemNow
<1>5. CpuNow.wait = 0 /\ CpuNow' = [CpuNow EXCEPT !.wait = Granularity]
  BY <1>1, <1>3 DEF CpuNow, Cpu
<1>6. Live' = [mem |-> Live.mem, cpu |-> [Live.cpu EXCEPT !.wait = Granularity], dev |-> dev']
  BY <1>2, <1>4, <1>5
<1>7. Snapshot(file)' = Snapshot(file)
  BY <1>1 DEF Snapshot
<1> QED
  BY <1>1, <1>2, <1>5, <1>6, <1>7 DEF Machine!End

(* While the file is written nothing shows of it: what the last one stood   *)
(* for counts until the new one is whole.                                   *)
LEMMA WritingSimulation ==
    ASSUME SystemInv, Save \/ \E p \in Page : SavePage(p)
    PROVE  UNCHANGED Machine!vars
<1>1. /\ phase \in {"ended", "saving"} /\ phase' = "saving"
      /\ UNCHANGED <<ram, defined, cpu, cc_adjust, wakeup_time_save, dev>>
      /\ kept' = IF phase = "saving" THEN kept ELSE Snapshot(file)
  BY DEF Save, SavePage, process
<1>2. Live' = Live
  BY <1>1 DEF Live
<1> QED
  BY <1>1, <1>2 DEF Machine!vars

(* The three ends of a process. *)
LEMMA ExitSimulation ==
    ASSUME KilledIn \subseteq {"run"}, SystemInv, Close \/ Leave \/ Kill
    PROVE  Machine!Suspend \/ Machine!Quit
<1>1. phase # "off" /\ phase' = "off" /\ UNCHANGED file
  <2>1. phase \in {"saving", "ended", "run"} /\ phase' = "off" /\ UNCHANGED file
    BY DEF Close, Leave, Kill, Exit
  <2> QED
    BY <2>1
<1>2. Live # None /\ Live' = None /\ Snapshot(file)' = Snapshot(file)
  BY <1>1, LiveIsSome, LiveParts DEF Snapshot
<1>3. CASE Close
  BY <1>1, <1>2, <1>3, FileIsWhole DEF Machine!Suspend
<1>4. CASE Leave \/ Kill
  <2>1. phase # "saving"
    BY <1>4 DEF Leave, Kill, Exit
  <2> QED
    BY <1>1, <1>2, <2>1 DEF Machine!Quit
<1> QED
  BY <1>3, <1>4

(* The processes of lnxmico32, one after the other, are one machine that is *)
(* suspended when one saves and resumed when the next loads: on what saving *)
(* does not handle, translation, aliases of RAM, a counter that the guest   *)
(* has set, and a death half way, the hypotheses are explicit.              *)
THEOREM RunsAreOneMachine ==
    ASSUME Windows \subseteq {TRUE}, Translation \subseteq {FALSE},
           CcAdjusts \subseteq {0}, KilledIn \subseteq {"run"}
    PROVE  Spec => ResumesAsSaved
<1>1. Init => SystemInv /\ Machine!Init
  <2>1. SUFFICES ASSUME Init PROVE SystemInv /\ Machine!Init
    OBVIOUS
  <2>2. SystemInv
    BY <2>1, InitCovers DEF Init, SystemInv, SavingInv
  <2>3. Machine!Init
    BY <2>1 DEF Init, Live, Snapshot, Machine!Init
  <2> QED
    BY <2>2, <2>3
<1>2. SystemInv /\ [Next]_vars => SystemInv'
  BY CoverStep, SavingStep DEF SystemInv
<1>3. ASSUME SystemInv, SystemInv', [Next]_vars PROVE [Machine!Next]_(Machine!vars)
  <2>1. ASSUME NEW load \in BOOLEAN, Start(load) PROVE Machine!Next
    BY <1>3, <2>1, StartSimulation DEF Machine!Next
  <2>2. CASE Instruction
    BY <1>3, <2>2, InstructionSimulation DEF Machine!Next
  <2>3. CASE Terminate
    BY <1>3, <2>3, TerminateSimulation DEF Machine!Next
  <2>4. CASE Save \/ \E p \in Page : SavePage(p)
    BY <1>3, <2>4, WritingSimulation
  <2>5. CASE Close \/ Leave \/ Kill
    BY <1>3, <2>5, ExitSimulation DEF Machine!Next
  <2>6. CASE UNCHANGED vars
    BY <2>6 DEF vars, Live, Snapshot, Machine!vars
  <2> QED
    BY <1>3, <2>1, <2>2, <2>3, <2>4, <2>5, <2>6 DEF Next
<1> QED
  BY <1>1, <1>2, <1>3, PTL DEF Spec, ResumesAsSaved, Machine!Spec
=============================================================================

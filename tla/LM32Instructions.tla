-------------------------- MODULE LM32Instructions --------------------------
(***************************************************************************)
(* What the instructions of lm32_cpu_inst.cpp leave in the registers, and  *)
(* when: the scoreboard rt[], which holds for every register the cycle its *)
(* value is available from, and calc_stall(), which charges the cycles an  *)
(* instruction waits for its operands.  Addresses are left out: flow says  *)
(* whether pc went to the next instruction, to a target relative to pc, or *)
(* to a register's value.  Memory and the CSRs hold anything.  Privilege   *)
(* and handlers are LM32Exceptions'.                                       *)
(***************************************************************************)
EXTENDS LM32Words

CONSTANTS
    Reg, RA, EA,  \* the registers, that of a call's and that of an exception's return
    Waits,        \* wait states an access to memory may cost
    Configs       \* the options built in: sets of the bits M, D, S, X of CFG

ASSUME RegAssumption == RA \in Reg /\ EA \in Reg /\ Waits \subseteq Nat

VARIABLES
    r,       \* state.r
    due,     \* rt[x] - cycle_count, where that is positive: cycles until x is available
    owed,    \* history: cycles until the instruction that wrote x delivers it
    d,       \* the decoded instruction, between execute_instruction() and its method
    raised,  \* what the last instruction raised in int_flags
    flow,    \* where it left pc
    alive,   \* the simulator itself has not been killed by a trap of the host
    cfg      \* state.cfg

vars == <<r, due, owed, d, raised, flow, alive, cfg>>

-----------------------------------------------------------------------------
(* The decode table *)

Divide  == {"div", "divu", "mod", "modu"}
Shift   == {"sl", "sr", "sru"}
Compare == {"cmpe", "cmpne", "cmpg", "cmpge", "cmpgu", "cmpgeu"}
Extend  == {"sextb", "sexth"}
TwoReg  == {"add", "sub", "mul", "and", "or", "xor", "nor", "xnor"} \cup Divide \cup Shift \cup Compare
Load    == {"lb", "lbu", "lh", "lhu", "lw"}
Store   == {"sb", "sh", "sw"}
Branch  == {"be", "bne", "bg", "bge", "bgu", "bgeu"}

\* The instructions with an immediate: their operation, and how it is extended.
Immediate ==
    [addi  |-> <<"add", "sign">>,   muli    |-> <<"mul", "sign">>,
     cmpei |-> <<"cmpe", "sign">>,  cmpnei  |-> <<"cmpne", "sign">>,
     cmpgi |-> <<"cmpg", "sign">>,  cmpgei  |-> <<"cmpge", "sign">>,
     cmpgui |-> <<"cmpgu", "zero">>, cmpgeui |-> <<"cmpgeu", "zero">>,
     sli   |-> <<"sl", "zero">>,    sri     |-> <<"sr", "zero">>,
     srui  |-> <<"sru", "zero">>,   andi    |-> <<"and", "zero">>,
     ori   |-> <<"or", "zero">>,    xori    |-> <<"xor", "zero">>,
     nori  |-> <<"nor", "zero">>,   xnori   |-> <<"xnor", "zero">>,
     andhi |-> <<"and", "high">>,   orhi    |-> <<"or", "high">>]

Computing == TwoReg \cup Extend \cup DOMAIN Immediate
Operation(op) == IF op \in DOMAIN Immediate THEN Immediate[op][1] ELSE op

\* d->reg0_csr, reg1, reg2 and imm; fields an instruction has no use for are left alone.
Instr ==
    LET Form(ops, R0, R1, R2, I) == [op : ops, reg0 : R0, reg1 : R1, reg2 : R2, imm : I]
    IN       Form(TwoReg, Reg, Reg, Reg, {0})
        \cup Form(DOMAIN Immediate, Reg, Reg, {RA}, Imm)
        \cup Form(Extend, Reg, {RA}, Reg, {0})
        \cup Form(Load \cup Store \cup Branch \cup {"bi"}, Reg, Reg, {RA}, {0})
        \cup Form({"b", "call"}, Reg, {RA}, {RA}, {0})
        \cup Form({"calli", "raise", "reserved"}, {RA}, {RA}, {RA}, {0})
        \cup Form({"rcsr", "wcsr"}, {RA}, Reg, Reg, {0})

NoInstr == [op |-> "none"]

ResultCycles(op) ==
    CASE Operation(op) \in Divide -> 34
      [] Operation(op) \in {"mul"} \cup Load -> 3
      [] Operation(op) \in Shift \cup Compare -> 2
      [] OTHER -> 1

\* A divider that takes its next instruction at once.
IssueCyclesPipelined(op) ==
    IF op \in Branch \cup {"b", "bi", "call", "calli", "raise"} THEN 4 ELSE 1

IssueCycles(op) ==
    CASE op \in Divide -> 34
      [] op \in Branch \cup {"b", "bi", "call", "calli", "raise"} -> 4
      [] OTHER -> 1

NotTakenCycles == 1

-----------------------------------------------------------------------------
(* An instruction's operands *)

\* Every immediate as an unsigned number.
SecondZeroExtended(i) == IF i.op \in DOMAIN Immediate THEN i.imm ELSE r[i.reg1]

Second(i) ==
    IF i.op \notin DOMAIN Immediate THEN r[i.reg1]
    ELSE CASE Immediate[i.op][2] = "sign" -> SignExt(i.imm, HalfBits)
           [] Immediate[i.op][2] = "zero" -> i.imm
           [] Immediate[i.op][2] = "high" -> ShiftLeft(i.imm, WordBits - HalfBits)

Dest(i) ==
    CASE i.op \in {"call", "calli"}             -> RA
      [] i.op \in DOMAIN Immediate \cup Load    -> i.reg1
      [] OTHER                                  -> i.reg2

\* The registers it reads.
Operands(i) ==
    CASE i.op \in TwoReg \cup Branch \cup Store                       -> {i.reg0, i.reg1}
      [] i.op \in DOMAIN Immediate \cup Extend \cup Load \cup {"b", "call"} -> {i.reg0}
      [] i.op = "wcsr"                                                -> {i.reg1}
      [] OTHER                                                        -> {}

\* The first operand's availability only.
SourcesFirstOnly(i) == IF i.op \in {"b", "rcsr", "wcsr", "calli", "raise", "reserved"} THEN {} ELSE {i.reg0}

\* Those whose availability its method looks up.  The fields of bi are bits
\* of its immediate.
Sources(i) ==
    CASE i.op \in TwoReg \cup Branch \cup {"bi"}                      -> {i.reg0, i.reg1}
      [] i.op \in DOMAIN Immediate \cup Extend \cup Load \cup Store \cup {"call"} -> {i.reg0}
      [] OTHER                                                        -> {}

calc_stall(i, waited) == Max({0} \cup {due[x] - waited : x \in Sources(i)})

Option(op) ==
    CASE Operation(op) = "mul"     -> {"M"}
      [] Operation(op) \in Divide  -> {"D"}
      [] Operation(op) \in Shift   -> {"S"}
      [] op \in Extend             -> {"X"}
      [] OTHER                     -> {}

-----------------------------------------------------------------------------
(* Time passes, and a result is awaited *)

\* A stall that may be negative.
LeftUnchecked(n, spent) == n - spent

Left(n, spent) == IF n > spent THEN n - spent ELSE 0

Pass(spent) ==
    /\ due'  = [x \in Reg |-> Left(due[x], spent)]
    /\ owed' = [x \in Reg |-> Left(owed[x], spent)]

\* The method's last lines: stall for the operands, note when the result is
\* there (if noted), then pass the issue cycles.
Retire(i, waited, issue, noted) ==
    LET spent == waited + calc_stall(i, waited) + issue
        wait  == Left(ResultCycles(i.op), issue)
    IN /\ due'  = [x \in Reg |-> IF x = Dest(i) /\ noted THEN wait ELSE Left(due[x], spent)]
       /\ owed' = [x \in Reg |-> IF x = Dest(i) THEN wait ELSE Left(owed[x], spent)]

Spend(i, waited, issue) == Pass(waited + calc_stall(i, waited) + issue)

Done(flags, to) == d' = NoInstr /\ raised' = flags /\ flow' = to /\ UNCHANGED cfg

-----------------------------------------------------------------------------
(* execute_instruction(): dispatch what is raised, fetch, decode *)

Decode(i) ==
    /\ alive /\ d = NoInstr
    /\ \E w \in Waits : Pass(w)
    /\ IF raised = {} THEN r' = r ELSE \E back \in Word : r' = [r EXCEPT ![EA] = back]
    /\ d' = i /\ raised' = {}
    /\ UNCHANGED <<flow, alive, cfg>>

Built == Option(d.op) \subseteq cfg

\* lm32_rsrvd()
Reserved ==
    /\ d.op = "reserved" \/ (d.op \in Computing /\ ~Built)
    /\ Pass(IssueCycles(d.op))
    /\ Done({"IBUSERROR"}, "next") /\ UNCHANGED <<r, alive>>

DivideByZero ==
    /\ d.op \in Divide /\ Built /\ r[d.reg1] = 0
    /\ Spend(d, 0, IssueCycles(d.op))
    /\ Done({"DIVZERO"}, "next") /\ UNCHANGED <<r, alive>>

Trap ==
    /\ d.op \in {"div", "mod"} /\ Built /\ Overflows(r[d.reg0], r[d.reg1])
    /\ alive' = FALSE /\ d' = NoInstr
    /\ UNCHANGED <<r, due, owed, raised, flow, cfg>>

\* A division looks at its divisor after it has written its result.
Compute ==
    /\ d.op \in Computing /\ Built
    /\ d.op \in Divide => r[d.reg1] # 0
    /\ \E v \in Values(Operation(d.op), r[d.reg0], Second(d)) : r' = [r EXCEPT ![Dest(d)] = v]
    /\ Retire(d, 0, IssueCycles(d.op), d.op \in Divide => r'[d.reg1] # 0)
    /\ Done({}, "next") /\ UNCHANGED alive

\* A conditional branch; bi has no condition.
Jump ==
    /\ d.op \in Branch \cup {"bi"}
    /\ LET taken == d.op = "bi" \/ Taken(d.op, r[d.reg0], r[d.reg1])
       IN /\ Spend(d, 0, IF taken THEN IssueCycles(d.op) ELSE NotTakenCycles)
          /\ Done({}, IF taken THEN "target" ELSE "next")
    /\ UNCHANGED <<r, alive>>

Register == d.op = "b" /\ Pass(IssueCycles("b")) /\ Done({}, "register") /\ UNCHANGED <<r, alive>>

\* Both write ra first.
Call ==
    /\ d.op \in {"call", "calli"}
    /\ \E back \in Word : r' = [r EXCEPT ![RA] = back]
    /\ Retire(d, 0, IssueCycles(d.op), TRUE)
    /\ Done({}, IF d.op = "call" THEN "register" ELSE "target") /\ UNCHANGED alive

Loadable(op) ==
    CASE op = "lb"  -> {SignExt(v, ByteBits) : v \in 0 .. 2^ByteBits - 1}
      [] op = "lbu" -> 0 .. 2^ByteBits - 1
      [] op = "lh"  -> {SignExt(v, HalfBits) : v \in 0 .. 2^HalfBits - 1}
      [] op = "lhu" -> 0 .. 2^HalfBits - 1
      [] op = "lw"  -> Word

\* A failing read gives 0, which is written.
Read ==
    /\ d.op \in Load
    /\ \E w \in Waits, fails \in BOOLEAN :
         /\ \E v \in IF fails THEN {0} ELSE Loadable(d.op) : r' = [r EXCEPT ![Dest(d)] = v]
         /\ Retire(d, w, IssueCycles(d.op), TRUE)
         /\ Done(IF fails THEN {"DBUSERROR"} ELSE {}, "next")
    /\ UNCHANGED alive

Write ==
    /\ d.op \in Store
    /\ \E w \in Waits, flags \in {{}, {"DBUSERROR"}} :
         Spend(d, w, IssueCycles(d.op)) /\ Done(flags, "next")
    /\ UNCHANGED <<r, alive>>

ReadCsr ==
    /\ d.op = "rcsr"
    /\ \E v \in Word : r' = [r EXCEPT ![d.reg2] = v]
    /\ Retire(d, 0, IssueCycles("rcsr"), TRUE)
    /\ Done({}, "next") /\ UNCHANGED alive

WriteCsr == d.op = "wcsr" /\ Pass(IssueCycles("wcsr")) /\ Done({}, "next") /\ UNCHANGED <<r, alive>>

\* break and scall leave pc where it is; break is nothing without the debug option.
Raise ==
    /\ d.op = "raise"
    /\ Pass(IssueCycles("raise"))
    /\ \E flags \in {{}, {"BREAKPOINT"}, {"SYSCALL"}} : Done(flags, "stays")
    /\ UNCHANGED <<r, alive>>

Killed == ~alive /\ UNCHANGED vars

-----------------------------------------------------------------------------
Init ==
    /\ r \in [Reg -> Word] /\ cfg \in Configs
    /\ due = [x \in Reg |-> 0] /\ owed = [x \in Reg |-> 0]
    /\ d = NoInstr /\ raised = {} /\ flow = "next" /\ alive = TRUE

Execute ==
    \/ Reserved \/ DivideByZero \/ Trap \/ Compute \/ Jump \/ Register \/ Call
    \/ Read \/ Write \/ ReadCsr \/ WriteCsr \/ Raise

Next == (\E i \in Instr : Decode(i)) \/ (alive /\ d # NoInstr /\ Execute) \/ Killed

Spec == Init /\ [][Next]_vars
-----------------------------------------------------------------------------
(* Properties *)

\* Registers hold words, and no stall is ever longer than the longest latency
\* less an issue cycle: rt[] never runs ahead of what was issued.
TypeOK ==
    /\ r \in [Reg -> Word] /\ cfg \in Configs
    /\ due \in [Reg -> 0 .. 2] /\ owed \in [Reg -> 0 .. 2]
    /\ d \in Instr \cup {NoInstr} /\ alive \in BOOLEAN
    /\ raised \in {{}} \cup {{f} : f \in {"IBUSERROR", "DBUSERROR", "DIVZERO", "BREAKPOINT", "SYSCALL"}}
    /\ flow \in {"next", "target", "register", "stays"}

\* The scoreboard is exact: rt[] promises a register for the cycle its last
\* writer delivers it, although a division updates it only if the divisor's
\* register is not zero after the result was written, perhaps into that register.
ScoreboardExact == \A x \in Reg : due[x] = owed[x]

Completes == d # NoInstr /\ d' = NoInstr /\ alive' /\ "IBUSERROR" \notin raised'

\* Operands whose methods do not look up their availability.
Unchecked(i) ==
    CASE i.op \in Store -> {i.reg1} \ {i.reg0}
      [] i.op \in {"b", "wcsr"} -> Operands(i)
      [] OTHER -> {}

\* No instruction goes on before the operands it checks have been delivered,
\* whatever was issued before it, in whatever time.
OperandsReady ==
    [][Completes => \A x \in Operands(d) \ Unchecked(d) : owed[x] <= calc_stall(d, 0)]_vars

\* A bit of a word, and an immediate as the number it stands for.
Bit(x, b) == (x \div 2^b) % 2 = 1
SignedImm(i) == IF i >= 2^(HalfBits - 1) THEN i - 2^HalfBits ELSE i

(* The results in mathematics: x and y are the operands, z the result, sx,  *)
(* sy, sz their values as signed numbers.                                   *)
Meets(op, x, y, z) ==
    LET sx == Signed(x)
        sy == Signed(y)
        sz == Signed(z)
        Same(a, b) == (a - b) % 2^WordBits = 0
        Bits(F(_, _)) == \A b \in 0 .. WordBits - 1 : Bit(z, b) = F(Bit(x, b), Bit(y, b))
        Rest(n, m) == Abs(n) < Abs(m) /\ (n = 0 \/ (n < 0) = (sx < 0))
    IN  CASE op = "add"    -> Same(sz, sx + sy)
          [] op = "sub"    -> Same(sz, sx - sy)
          [] op = "mul"    -> Same(sz, sx * sy)
          [] op = "div"    -> Overflows(x, y) \/ Rest(sx - sy * sz, sy)
          [] op = "mod"    -> Overflows(x, y) \/ (Rest(sz, sy) /\ (sx - sz) % Abs(sy) = 0)
          [] op = "divu"   -> z * y <= x /\ x < (z + 1) * y
          [] op = "modu"   -> z < y /\ \E q \in Word : x = q * y + z
          [] op = "cmpe"   -> z = Bool(sx = sy)
          [] op = "cmpne"  -> z = Bool(sx # sy)
          [] op = "cmpg"   -> z = Bool(sx > sy)
          [] op = "cmpge"  -> z = Bool(~(sy > sx))
          [] op = "cmpgu"  -> z = Bool(x > y)
          [] op = "cmpgeu" -> z = Bool(~(y > x))
          [] op = "sl"     -> y < WordBits => Same(z, x * 2^y)
          [] op = "sr"     -> y < WordBits => sz * 2^y <= sx /\ sx < (sz + 1) * 2^y
          [] op = "sru"    -> y < WordBits => z * 2^y <= x /\ x < (z + 1) * 2^y
          [] op = "and"    -> Bits(LAMBDA a, b : a /\ b)
          [] op = "or"     -> Bits(LAMBDA a, b : a \/ b)
          [] op = "xor"    -> Bits(LAMBDA a, b : a # b)
          [] op = "nor"    -> Bits(LAMBDA a, b : ~(a \/ b))
          [] op = "xnor"   -> Bits(LAMBDA a, b : a = b)
          [] op = "sextb"  -> (sz - x) % 2^ByteBits = 0 /\ -(2^(ByteBits - 1)) <= sz /\ sz < 2^(ByteBits - 1)
          [] op = "sexth"  -> (sz - x) % 2^HalfBits = 0 /\ -(2^(HalfBits - 1)) <= sz /\ sz < 2^(HalfBits - 1)

\* Every result is what two's complement arithmetic, division towards zero and
\* shifts as division by powers of two say, for every operand, also where an
\* operand's register is the destination; immediates of signed operations are
\* signed numbers, those of unsigned ones are not.
ResultsAsDefined ==
    [][Completes /\ d.op \in Computing /\ raised' = {} =>
         /\ Meets(Operation(d.op), r[d.reg0], Second(d), r'[Dest(d)])
         /\ d.op \in DOMAIN Immediate =>
              LET kind == Immediate[d.op][2]
              IN /\ kind = "sign" => Signed(Second(d)) = SignedImm(d.imm)
                 /\ kind = "zero" => Second(d) = d.imm
         /\ \A x \in Reg \ {Dest(d)} : r'[x] = r[x]]_vars

\* The comparison with the condition of a branch.
Comparison == [be |-> "cmpe", bne |-> "cmpne", bg |-> "cmpg", bge |-> "cmpge", bgu |-> "cmpgu", bgeu |-> "cmpgeu"]

\* A branch goes to its target exactly when the comparison instruction of the
\* same condition would have given 1.
FlowAsCompared ==
    [][Completes /\ d.op \in Branch =>
         (flow' = "target") = (1 \in Values(Comparison[d.op], r[d.reg0], r[d.reg1]))]_vars
=============================================================================

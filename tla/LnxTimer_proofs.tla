-------------------------- MODULE LnxTimer_proofs --------------------------
(***************************************************************************)
(* Theorems about LnxTimer, for registers of any width, any distance of    *)
(* polls, any cost of instructions, and all periods TimerAssumption admits.*)
(***************************************************************************)
EXTENDS LnxTimer, TLAPS

(* What the assumption says of the constants, in terms of integers. *)
LEMMA Constants ==
    /\ HalfRange \in Nat /\ HalfRange > 0 /\ Granularity \in Nat /\ Granularity > 0
    /\ MaxCycles \in Nat /\ MaxCycles > 0
    /\ MaxGap \in Nat /\ MaxGap >= Granularity /\ MaxGap > 0
    /\ MaxGap = Granularity + MaxCycles - 1
    /\ \A p \in Periods : p \in Nat /\ MaxGap <= p /\ p < HalfRange
BY TimerAssumption DEF MaxGap

(* What the 32 bit arithmetic of lm32_timer_tick() comes to: the plain      *)
(* difference of the countdown and the cycles gone by.                      *)
Gone == IF Starts THEN 0 ELSE cycle
Distance == snapshot - Gone

(* The modular subtraction and the signed test of a poll, in integers: the  *)
(* countdown has expired if no more cycles were left than have passed.      *)
LEMMA TickArithmetic ==
    ASSUME TypeOK, Runs
    PROVE  /\ Distance \in Int /\ Distance <= snapshot
           /\ run => Distance = snapshot - cycle
           /\ ~run => Distance = snapshot
           /\ Expired <=> Distance <= 0
           /\ ~Expired => Counted = Distance
           /\ Expired => /\ Overrun = 0 - Distance
                         /\ Minus(period, Overrun) = period + Distance
                         /\ period + Distance > 0 /\ period + Distance < HalfRange
<1>1. snapshot \in Nat /\ snapshot < HalfRange /\ cycle \in Nat /\ cycle <= MaxGap
  BY Constants DEF TypeOK
<1>2. HalfRange \in Nat /\ MaxGap \in Nat /\ MaxGap > 0
  BY Constants
<1>3. period \in Nat /\ MaxGap <= period /\ period < HalfRange
  <2>1. run \/ "START" \in control
    BY DEF Runs, Starts
  <2>2. period \in Periods
    BY <2>1 DEF TypeOK
  <2> QED
    BY <2>2, Constants
<1>4. Starts <=> ~run
  BY DEF Runs, Starts
<1>5. Gone \in Nat /\ Gone <= MaxGap /\ (run => Gone = cycle /\ snapshot > 0) /\ (~run => Gone = 0)
  BY <1>1, <1>2, <1>4 DEF Gone, TypeOK
<1>6. Counted = IF snapshot >= Gone THEN Distance ELSE Distance + 2 * HalfRange
  BY DEF Counted, Minus, Gone, Distance
<1>d. Distance = snapshot - Gone
  BY DEF Distance
<1>7. Distance \in Int /\ Distance <= snapshot /\ (run => Distance = snapshot - cycle) /\ (~run => Distance = snapshot)
  BY <1>1, <1>5 DEF Distance
<1>8. Distance > - period
  BY <1>1, <1>2, <1>3, <1>5, <1>7 DEF Distance
<1>9. Negative(Counted) <=> Distance < 0
  BY <1>d, <1>1, <1>2, <1>3, <1>5, <1>6, <1>7, <1>8 DEF Negative
<1>10. (Counted = 0 <=> Distance = 0) /\ (Distance >= 0 => Counted = Distance)
  BY <1>d, <1>1, <1>2, <1>3, <1>5, <1>6, <1>7, <1>8
<1>11. Expired <=> Distance <= 0
  BY <1>7, <1>9, <1>10 DEF Expired
<1>12. ASSUME Distance <= 0 PROVE Overrun = 0 - Distance
  <2>1. CASE Distance = 0
    <3>1. ~Negative(Counted)
      BY <2>1, <1>9
    <3>2. Overrun = 0
      BY <3>1, Zenon DEF Overrun
    <3> QED
      BY <2>1, <3>2, <1>7
  <2>2. CASE Distance < 0
    <3>1. Counted = Distance + 2 * HalfRange /\ Counted > 0
      BY <2>2, <1>1, <1>2, <1>3, <1>5, <1>6, <1>7, <1>8
    <3>2. Overrun = 0 - Counted + 2 * HalfRange
      BY <2>2, <1>2, <1>7, <1>9, <3>1 DEF Overrun, Minus
    <3> QED
      BY <3>1, <3>2, <1>2, <1>7
  <2> QED
    BY <1>12, <1>7, <2>1, <2>2
<1>13. ASSUME Distance <= 0 PROVE Minus(period, Overrun) = period + Distance
  BY <1>3, <1>7, <1>8, <1>12, <1>13 DEF Minus
<1>14. Expired => period + Distance > 0 /\ period + Distance < HalfRange
  BY <1>2, <1>3, <1>7, <1>8, <1>11
<1>15. ~Expired => Counted = Distance
  BY <1>7, <1>10, <1>11
<1> QED
  BY <1>7, <1>11, <1>12, <1>13, <1>14, <1>15

(* A timer at power-up is well typed and has no pulse to lose. *)
LEMMA TimerInit == Init => TypeOK /\ PulseNotLost
<1> SUFFICES ASSUME Init PROVE TypeOK /\ PulseNotLost
  OBVIOUS
<1>1. ~run /\ ~int_pending /\ "START" \notin control
  BY DEF Init
<1>2. /\ period \in Periods \cup {0} /\ snapshot \in 0 .. HalfRange - 1
      /\ cycle \in 0 .. MaxGap
  BY Constants DEF Init
<1>3. /\ control \subseteq ControlBit /\ handler = "idle"
      /\ run \in BOOLEAN /\ to \in BOOLEAN /\ int_pending \in BOOLEAN /\ ip \in BOOLEAN
  BY DEF Init
<1> QED
  BY <1>1, <1>2, <1>3 DEF TypeOK, PulseNotLost

(* Each way a poll may go, and what it does to the deadline: the case       *)
(* distinction of DeadlineTimer.                                            *)
LEMMA TickType == ASSUME TypeOK, Tick PROVE TypeOK'
<1>1. cycle' \in 0 .. MaxGap
  BY Constants DEF Tick
<1>2. control' \subseteq ControlBit /\ ("START" \in control' => "START" \in control)
  BY DEF Tick, TypeOK
<1>3. ip' \in BOOLEAN /\ int_pending' \in BOOLEAN
  BY DEF Tick, Request, TypeOK
<1>4. Runs => run \/ "START" \in control
  BY DEF Runs, Starts
<1>5. snapshot' \in 0 .. HalfRange - 1 /\ run' \in BOOLEAN /\ to' \in BOOLEAN
      /\ (run' => snapshot' > 0 /\ Runs)
  <2>1. CASE Idle
    BY <2>1 DEF Idle, TypeOK
  <2>2. CASE CountDown
    BY <2>2, TickArithmetic, Constants DEF CountDown, TypeOK
  <2>3. CASE TimeoutOnce
    <3>1. snapshot' = 0 /\ run' \in BOOLEAN /\ to' \in BOOLEAN /\ ~run'
      BY <2>3 DEF TimeoutOnce
    <3> QED
      BY <3>1, Constants
  <2>4. CASE TimeoutReload
    BY <2>4, TickArithmetic, Constants DEF TimeoutReload, TypeOK
  <2> QED
    BY <2>1, <2>2, <2>3, <2>4 DEF Tick
<1> QED
  BY <1>1, <1>2, <1>3, <1>4, <1>5 DEF Tick, TypeOK

(* An instruction begins between polls and ends within the gap. *)
LEMMA SpendsType == ASSUME TypeOK, NEW k \in 1 .. MaxCycles, Spends(k) PROVE cycle' \in 0 .. MaxGap
BY Constants DEF TypeOK, Spends

(* No instruction of the guest breaks the types. *)
LEMMA InstructionType == ASSUME TypeOK, Instruction PROVE TypeOK'
<1>1. PICK k \in 1 .. MaxCycles :
        \/ Compute(k)
        \/ \E bits \in SUBSET ControlBit : WriteControl(k, bits)
        \/ \E p \in Periods : WritePeriod(k, p)
        \/ \E keep \in BOOLEAN : WriteStatus(k, keep)
        \/ AcknowledgeIp(k)
        \/ AcknowledgeTimer(k)
  BY DEF Instruction
<1>2. CASE Compute(k)
  BY <1>2, SpendsType DEF Compute, counting, TypeOK
<1>3. ASSUME NEW bits \in SUBSET ControlBit, WriteControl(k, bits) PROVE TypeOK'
  BY <1>3, SpendsType DEF WriteControl, TypeOK
<1>4. ASSUME NEW p \in Periods, WritePeriod(k, p) PROVE TypeOK'
  BY <1>4, SpendsType, Constants DEF WritePeriod, TypeOK
<1>5. ASSUME NEW keep \in BOOLEAN, WriteStatus(k, keep) PROVE TypeOK'
  BY <1>5, SpendsType DEF WriteStatus, ClearTo, counting, TypeOK
<1>6. CASE AcknowledgeIp(k)
  BY <1>6, SpendsType DEF AcknowledgeIp, counting, TypeOK
<1>7. CASE AcknowledgeTimer(k)
  BY <1>7, SpendsType DEF AcknowledgeTimer, ClearTo, counting, TypeOK
<1> QED
  BY <1>1, <1>2, <1>3, <1>4, <1>5, <1>6, <1>7

(* Neither does a poll, nor an interrupt. *)
LEMMA TimerNextType == TypeOK /\ [Next]_vars => TypeOK'
<1> SUFFICES ASSUME TypeOK, [Next]_vars PROVE TypeOK'
  OBVIOUS
<1>1. CASE TakeInterrupt
  BY <1>1 DEF TakeInterrupt, counting, TypeOK
<1>2. CASE UNCHANGED vars
  BY <1>2 DEF vars, TypeOK
<1> QED
  BY <1>1, <1>2, TickType, InstructionType DEF Next

(* lm32_timer_tick() never leaves a running countdown at zero, or where its *)
(* sign test would misread it, for any width and distance of polls.         *)
THEOREM TimerTypeCorrect == Spec => []TypeOK
BY TimerInit, TimerNextType, PTL DEF Spec

-----------------------------------------------------------------------------

(* A pulse stays with IP or with the handler until TO is cleared. *)
LEMMA PulseNext == TypeOK /\ PulseNotLost /\ [Next]_vars => PulseNotLost'
<1> SUFFICES ASSUME TypeOK, PulseNotLost, [Next]_vars PROVE PulseNotLost'
  OBVIOUS
<1>1. CASE Tick
  <2>1. to => to'
    BY <1>1 DEF Tick, Idle, CountDown, TimeoutOnce, TimeoutReload
  <2> QED
    BY <1>1, <2>1 DEF Tick, Request, PulseNotLost
<1>2. CASE Instruction
  <2>1. ASSUME UNCHANGED <<to, int_pending, ip, handler>> PROVE PulseNotLost'
    BY <2>1 DEF PulseNotLost
  <2>2. ASSUME NEW keep \in BOOLEAN, ClearTo(keep), UNCHANGED <<ip, handler>> PROVE PulseNotLost'
    <3>1. int_pending' => int_pending /\ to'
      BY <2>2, Zenon DEF ClearTo
    <3> QED
      BY <2>2, <3>1, Zenon DEF PulseNotLost
  <2>3. ASSUME NEW k \in 1 .. MaxCycles, AcknowledgeIp(k) PROVE PulseNotLost'
    BY <2>3 DEF AcknowledgeIp, PulseNotLost
  <2>4. ASSUME NEW k \in 1 .. MaxCycles, AcknowledgeTimer(k) PROVE PulseNotLost'
    <3>1. ~int_pending'
      BY <2>4, Zenon DEF AcknowledgeTimer, ClearTo
    <3> QED
      BY <3>1 DEF PulseNotLost
  <2> QED
    BY <1>2, <2>1, <2>2, <2>3, <2>4 DEF Instruction, Compute, WriteControl, WritePeriod, WriteStatus, counting
<1>3. CASE TakeInterrupt
  BY <1>3 DEF TakeInterrupt, PulseNotLost
<1>4. CASE UNCHANGED vars
  BY <1>4 DEF vars, PulseNotLost
<1> QED
  BY <1>1, <1>2, <1>3, <1>4 DEF Next

(* int_pending never suppresses the next interrupt after the one it stands  *)
(* for is gone, whenever polls fall between the steps of a handler that     *)
(* acknowledges IP first.                                                   *)
THEOREM NoPulseLost == Spec => []PulseNotLost
<1>1. TypeOK /\ PulseNotLost /\ [Next]_vars => (TypeOK /\ PulseNotLost)'
  BY TimerNextType, PulseNext
<1> QED
  BY <1>1, TimerInit, PTL DEF Spec

-----------------------------------------------------------------------------
(* The refinement of DeadlineTimer *)

Left == IF run THEN snapshot - cycle ELSE snapshot

(* At power-up there is no deadline yet. *)
LEMMA DeadlineInit == Init => Deadline!Init
BY DEF Init, Deadline!Init

(* A poll starts, goes on with, or stops the abstract timer, or changes     *)
(* nothing it knows of.                                                     *)
LEMMA PollRefines == ASSUME TypeOK, Tick PROVE Deadline!Start \/ Deadline!Go \/ Deadline!Stop
                                                \/ UNCHANGED Deadline!vars
<1>1. /\ snapshot \in Nat /\ cycle \in Nat /\ cycle <= MaxGap /\ MaxGap \in Nat
      /\ run \in BOOLEAN /\ to \in BOOLEAN
      /\ cycle' = 0 /\ period' = period /\ control' = control \ Consumed
  BY Constants DEF TypeOK, Tick
<1>2. Left' = IF run' THEN snapshot' - 0 ELSE snapshot'
  BY <1>1 DEF Left
<1>3. CASE Runs
  <2>1. Left = Distance /\ Distance \in Int
    BY <1>1, <1>3, TickArithmetic DEF Left
  <2>2. "STOP" \notin control
    BY <1>3 DEF Runs, Stops
  <2>3. Deadline!Meet(Left)
    <3>1. CASE CountDown
      <4>1. Distance > 0 /\ snapshot' = Distance /\ run' = TRUE /\ to' = to
        BY <1>3, <3>1, TickArithmetic DEF CountDown
      <4> QED
        BY <2>1, <4>1, <1>2 DEF Deadline!Meet, Left
    <3>2. CASE TimeoutOnce
      <4>1. Distance <= 0 /\ snapshot' = 0 /\ run' = FALSE /\ to' = TRUE /\ "CONT" \notin control
        BY <1>3, <3>2, TickArithmetic DEF TimeoutOnce
      <4>2. Left' = 0
        BY <4>1, <1>2
      <4> QED
        BY <2>1, <4>1, <4>2 DEF Deadline!Meet, Left
    <3>3. CASE TimeoutReload
      <4>1. Distance <= 0 /\ snapshot' = Distance + period /\ snapshot' \in Int
            /\ run' = TRUE /\ to' = TRUE /\ "CONT" \in control
        BY <1>3, <3>3, <2>1, TickArithmetic, Constants DEF TimeoutReload, TypeOK
      <4>2. Left' = Distance + period
        BY <4>1, <1>2
      <4> QED
        BY <2>1, <4>1, <4>2, Zenon DEF Deadline!Meet, Left
    <3> QED
      BY <1>3, <3>1, <3>2, <3>3 DEF Tick, Idle
  <2>4. CASE run
    <3>1. Consumed = {}
      BY <2>2, <2>4 DEF Consumed, Starts, Stops
    <3> QED
      BY <1>1, <2>2, <2>3, <2>4, <3>1 DEF Deadline!Go, Left
  <2>5. CASE ~run
    <3>1. "START" \in control /\ Consumed = {"START"}
      BY <1>3, <2>2, <2>5 DEF Consumed, Runs, Starts, Stops
    <3>2. Left = snapshot
      BY <2>5 DEF Left
    <3> QED
      BY <1>1, <2>2, <2>3, <2>5, <3>1, <3>2 DEF Deadline!Start
  <2> QED
    BY <1>1, <2>4, <2>5
<1>4. CASE ~Runs
  <2>1. run' = FALSE /\ snapshot' = snapshot /\ to' = to /\ Left' = snapshot
    BY <1>2, <1>4 DEF Tick, Idle, CountDown, TimeoutOnce, TimeoutReload
  <2>2. CASE Stops
    <3>1. "STOP" \in control /\ (run \/ "START" \in control)
      BY <2>2 DEF Stops, Starts
    <3>2. control' = control \ (IF run THEN {"STOP"} ELSE {"START", "STOP"})
      <4>1. Consumed = IF run THEN {"STOP"} ELSE {"START", "STOP"}
        BY <2>2, <3>1 DEF Consumed, Starts
      <4> QED
        BY <1>1, <4>1
    <3>3. Left' \in IF run THEN Left .. Left + MaxGap ELSE {Left}
      BY <1>1, <2>1 DEF Left
    <3> QED
      BY <1>1, <2>1, <3>1, <3>2, <3>3 DEF Deadline!Stop, Left
  <2>3. CASE ~Stops
    <3>1. ~run /\ Consumed = {}
      BY <1>4, <2>3 DEF Runs, Consumed
    <3> QED
      BY <1>1, <2>1, <3>1 DEF Deadline!vars
  <2> QED
    BY <2>2, <2>3
<1> QED
  BY <1>3, <1>4

(* An instruction lets time pass, or programs the abstract timer. *)
LEMMA InstructionRefines == ASSUME TypeOK, Instruction PROVE Deadline!Next
<1>0. /\ cycle \in Nat /\ snapshot \in Nat /\ run \in BOOLEAN
      /\ MaxGap = Granularity + MaxCycles - 1 /\ Granularity \in Nat /\ MaxCycles \in Nat
      /\ \A p \in Periods : p \in Nat
  BY Constants DEF TypeOK
<1>1. PICK k \in 1 .. MaxCycles :
        \/ Compute(k)
        \/ \E bits \in SUBSET ControlBit : WriteControl(k, bits)
        \/ \E p \in Periods : WritePeriod(k, p)
        \/ \E keep \in BOOLEAN : WriteStatus(k, keep)
        \/ AcknowledgeIp(k)
        \/ AcknowledgeTimer(k)
  BY DEF Instruction
<1>2. ASSUME Spends(k), UNCHANGED <<snapshot, run>> PROVE Deadline!Elapsed(k)
  BY <1>0, <1>2 DEF Spends, Deadline!Elapsed
<1>3. ASSUME Compute(k) \/ AcknowledgeIp(k) PROVE Deadline!Pass(k)
  BY <1>2, <1>3 DEF Compute, AcknowledgeIp, counting, Deadline!Pass
<1>4. ASSUME NEW bits \in SUBSET ControlBit, WriteControl(k, bits) PROVE Deadline!SetControl(k, bits)
  BY <1>2, <1>4 DEF WriteControl, Deadline!SetControl
<1>5. ASSUME NEW p \in Periods, WritePeriod(k, p) PROVE Deadline!SetPeriod(p)
  <2>1. period' = p /\ snapshot' = p /\ run' = run /\ cycle' = cycle + k /\ cycle < Granularity
    BY <1>5 DEF WritePeriod, Spends
  <2>2. p \in Nat /\ cycle' \in 0 .. MaxGap
    BY <1>0, <2>1
  <2>3. IF run THEN Left' \in p - MaxGap .. p ELSE Left' = p
    BY <1>0, <2>1, <2>2 DEF Left
  <2> QED
    BY <1>5, <2>1, <2>3 DEF WritePeriod, Deadline!SetPeriod, Left
<1>6. ASSUME NEW keep \in BOOLEAN, WriteStatus(k, keep) PROVE Deadline!Pass(k) \/ Deadline!Acknowledge(k)
  <2>1. to' = to \/ to' = FALSE
    BY <1>6 DEF WriteStatus, ClearTo, TypeOK
  <2> QED
    BY <1>2, <1>6, <2>1 DEF WriteStatus, counting, Deadline!Pass, Deadline!Acknowledge
<1>7. ASSUME AcknowledgeTimer(k) PROVE Deadline!Acknowledge(k)
  BY <1>2, <1>7 DEF AcknowledgeTimer, ClearTo, counting, Deadline!Acknowledge
<1> QED
  BY <1>1, <1>3, <1>4, <1>5, <1>6, <1>7 DEF Deadline!Next, Deadline!Request, ControlBit

(* Every step of the timer is one of the abstract timer, or a stutter. *)
LEMMA StepRefines == TypeOK /\ [Next]_vars => [Deadline!Next]_Deadline!vars
<1> SUFFICES ASSUME TypeOK, [Next]_vars PROVE Deadline!Next \/ UNCHANGED Deadline!vars
  OBVIOUS
<1>1. CASE Tick
  BY <1>1, PollRefines DEF Deadline!Next
<1>2. CASE Instruction
  BY <1>2, InstructionRefines
<1>3. CASE TakeInterrupt
  BY <1>3 DEF TakeInterrupt, counting, Deadline!vars
<1>4. CASE UNCHANGED vars
  BY <1>4 DEF vars, Deadline!vars
<1> QED
  BY <1>1, <1>2, <1>3, <1>4 DEF Next

(* The wrapping, clipped, compensated countdown of lm32_timer_tick() keeps  *)
(* the deadlines of DeadlineTimer, for every period not shorter than a gap  *)
(* between polls.                                                           *)
THEOREM TimerKeepsDeadlines == Spec => KeepsDeadlines
<1>1. TypeOK /\ [Next]_vars => TypeOK'
  BY TimerNextType
<1> QED
  BY <1>1, TimerInit, DeadlineInit, StepRefines, PTL DEF Spec, KeepsDeadlines, Deadline!Spec
=============================================================================

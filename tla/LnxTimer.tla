------------------------------ MODULE LnxTimer ------------------------------
(***************************************************************************)
(* The timer of lnxmico32 (lnxtimer.cpp), the poll that ticks it           *)
(* (ext_interrupt() of lnxmico32.cpp) and the interrupt line of the CPU it *)
(* raises.  The timer has no clock: lm32_timer_tick() works out, once a    *)
(* poll, what has happened since the last one, in 32 bit arithmetic; and   *)
(* the interrupt it returns is a pulse, which only int_pending repeats.    *)
(***************************************************************************)
EXTENDS Integers

CONSTANTS
    HalfRange,   \* 2^31: registers count modulo twice this
    Granularity, \* LM32_INTERRUPT_GRANULARITY
    MaxCycles,   \* the most cycles one instruction costs
    Periods      \* values the guest writes to the period register

VARIABLES
    period, snapshot, \* LM32_TIMER_PERIOD_REG, LM32_TIMER_SNAPSHOT_REG
    run, to,          \* the two bits of LM32_TIMER_STATUS_REG
    control,          \* the bits set in LM32_TIMER_CONTROL_REG
    int_pending,
    ip,               \* the timer's bit of the CPU's IP register
    cycle,            \* cycles since the last poll
    handler           \* how far the guest's handler has come

vars == <<period, snapshot, run, to, control, int_pending, ip, cycle, handler>>
counting == <<period, snapshot, run, control>>

(* The most cycles from one poll to the next: an instruction is never cut short. *)
MaxGap == Granularity + MaxCycles - 1

(* Periods the timer can keep: not shorter than a poll takes to come, and   *)
(* not negative as an int32_t.                                              *)
ASSUME TimerAssumption ==
    /\ HalfRange \in Nat \ {0} /\ Granularity \in Nat \ {0} /\ MaxCycles \in Nat \ {0}
    /\ Periods \subseteq MaxGap .. HalfRange - 1

ControlBit == {"ITO", "CONT", "START", "STOP"}

\* uint32_t subtraction, and the sign an int32_t cast sees
Register == 0 .. 2 * HalfRange - 1
Minus(x, y) == IF x >= y THEN x - y ELSE x - y + 2 * HalfRange
Negative(x) == x >= HalfRange

-----------------------------------------------------------------------------
(* lm32_timer_tick(): what the registers say *)

Starts == ~run /\ "START" \in control
Stops  == (run \/ Starts) /\ "STOP" \in control
Runs   == (run \/ Starts) /\ ~Stops

Consumed == (IF Starts THEN {"START"} ELSE {}) \cup (IF Stops THEN {"STOP"} ELSE {})

\* While the timer runs, start_time is the time of the last poll.
Counted == Minus(snapshot, IF Starts THEN 0 ELSE cycle)

\* Overrun with the compensation left out, and with its sign lost.
OverrunDropped == 0
OverrunAdded   == IF Negative(Counted) THEN Counted ELSE 0

Overrun == IF Negative(Counted) THEN Minus(0, Counted) ELSE 0
Expired == Counted = 0 \/ Negative(Counted)

Idle ==
    /\ ~Runs
    /\ run' = FALSE
    /\ UNCHANGED <<snapshot, to>>

CountDown ==
    /\ Runs /\ ~Expired
    /\ snapshot' = Counted
    /\ run' = TRUE
    /\ UNCHANGED to

TimeoutOnce ==
    /\ Runs /\ Expired /\ "CONT" \notin control
    /\ snapshot' = 0
    /\ run' = FALSE
    /\ to' = TRUE

TimeoutReload ==
    /\ Runs /\ Expired /\ "CONT" \in control
    /\ snapshot' = Minus(period, Overrun)
    /\ run' = TRUE
    /\ to' = TRUE

\* Request that asks for the interrupt only in the poll that sets TO.
RequestOnRise ==
    LET irq == "ITO" \in control /\ to' /\ ~to IN
    /\ ip' = (ip \/ irq)
    /\ int_pending' = (int_pending \/ irq)

\* TO asks for one interrupt until the guest has cleared it.
Request ==
    LET irq == "ITO" \in control /\ to' /\ ~int_pending IN
    /\ ip' = (ip \/ irq)
    /\ int_pending' = (int_pending \/ irq)

\* One call of ext_interrupt(), when cycle_count has reached the wakeup time.
Tick ==
    /\ cycle >= Granularity
    /\ Idle \/ CountDown \/ TimeoutOnce \/ TimeoutReload
    /\ control' = control \ Consumed
    /\ Request
    /\ cycle' = 0
    /\ UNCHANGED <<period, handler>>

-----------------------------------------------------------------------------
(* Instructions.  Each costs cycles, and runs between two polls. *)

Spends(k) == cycle < Granularity /\ cycle' = cycle + k

Compute(k) == Spends(k) /\ UNCHANGED <<counting, to, int_pending, ip, handler>>

\* The guest sets a period before it starts the timer.
WriteControl(k, bits) ==
    /\ "START" \in bits => period \in Periods
    /\ Spends(k)
    /\ control' = bits
    /\ UNCHANGED <<period, snapshot, run, to, int_pending, ip, handler>>

WritePeriod(k, p) ==
    /\ Spends(k)
    /\ period' = p /\ snapshot' = p
    /\ UNCHANGED <<run, to, control, int_pending, ip, handler>>

\* ClearTo that leaves int_pending as it is.
ClearToOnly(keep) == to' = (to /\ keep) /\ UNCHANGED int_pending

\* A write to the status register; keep is the TO bit of the data.
ClearTo(keep) ==
    /\ to' = (to /\ keep)
    /\ int_pending' = (int_pending /\ to')

WriteStatus(k, keep) ==
    /\ Spends(k)
    /\ handler = "idle"
    /\ ClearTo(keep)
    /\ UNCHANGED <<counting, ip, handler>>

\* EXTINT, when the CPU's enables let it through
TakeInterrupt ==
    /\ ip /\ handler = "idle"
    /\ handler' = "entered"
    /\ UNCHANGED <<counting, to, int_pending, ip, cycle>>

\* The handler's wcsr to IP ...
AcknowledgeIp(k) ==
    /\ Spends(k)
    /\ handler = "entered"
    /\ ip' = FALSE
    /\ handler' = "acknowledged"
    /\ UNCHANGED <<counting, to, int_pending>>

\* ... and then its write to the status register.
AcknowledgeTimer(k) ==
    /\ Spends(k)
    /\ handler = "acknowledged"
    /\ ClearTo(FALSE)
    /\ handler' = "idle"
    /\ UNCHANGED <<counting, ip>>

Instruction ==
    \E k \in 1 .. MaxCycles :
        \/ Compute(k)
        \/ \E bits \in SUBSET ControlBit : WriteControl(k, bits)
        \/ \E p \in Periods : WritePeriod(k, p)
        \/ \E keep \in BOOLEAN : WriteStatus(k, keep)
        \/ AcknowledgeIp(k)
        \/ AcknowledgeTimer(k)

\* The first poll is due before the first instruction.
Init ==
    /\ period = 0 /\ snapshot = 0
    /\ run = FALSE /\ to = FALSE
    /\ control = {}
    /\ int_pending = FALSE
    /\ ip = FALSE
    /\ cycle = Granularity
    /\ handler = "idle"

Next == Tick \/ Instruction \/ TakeInterrupt

Spec == Init /\ [][Next]_vars

(* The run loop never stops, interrupts are not disabled for ever, and the  *)
(* handler gets to its two writes, however many polls come in between.      *)
FairSpec ==
    /\ Spec
    /\ WF_vars(Tick) /\ WF_vars(Instruction) /\ WF_vars(TakeInterrupt)
    /\ SF_vars(\E k \in 1 .. MaxCycles : AcknowledgeIp(k))
    /\ SF_vars(\E k \in 1 .. MaxCycles : AcknowledgeTimer(k))

-----------------------------------------------------------------------------
(* Types; and the countdown of lm32_timer_tick() is never negative between  *)
(* polls, whose int32_t test would then take it for an overrun, nor zero    *)
(* while the timer runs.                                                    *)
TypeOK ==
    /\ period \in Periods \cup {0} /\ snapshot \in 0 .. HalfRange - 1
    /\ run \in BOOLEAN /\ to \in BOOLEAN
    /\ control \subseteq ControlBit
    /\ int_pending \in BOOLEAN /\ ip \in BOOLEAN
    /\ cycle \in 0 .. MaxGap
    /\ handler \in {"idle", "entered", "acknowledged"}
    /\ run => snapshot > 0
    /\ run \/ "START" \in control => period \in Periods

(* The pulse is not lost: as long as lm32_timer_tick() holds back further    *)
(* interrupts because one is pending, that one is in IP or in the handler's *)
(* hands, and there is a timeout to be served.                              *)
PulseNotLost ==
    int_pending => to /\ (ip \/ handler = "acknowledged")

(* A timeout whose interrupt is enabled is served, though polls come between *)
(* any two steps of the handler, and further timeouts at any of them.       *)
TimeoutServed == to /\ "ITO" \in control ~> ~to \/ "ITO" \notin control

(* The polled, wrapping, clipped and compensated countdown keeps the        *)
(* deadlines of a timer that counts every cycle: overruns make jitter, and  *)
(* never "creep" (lnxtimer.cpp:209).                                        *)
Deadline == INSTANCE DeadlineTimer WITH
    left <- IF run THEN snapshot - cycle ELSE snapshot,
    Lag <- MaxGap
KeepsDeadlines == Deadline!Spec
=============================================================================

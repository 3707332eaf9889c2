------------------------------- MODULE LnxUart -------------------------------
(***************************************************************************)
(* A UART of lnxmico32 (lnxuart.cpp) with the poll that ticks it, the      *)
(* interrupt line it raises, and its guest: either the polling driver of   *)
(* drivers/lm32_uart_driver.c, or an interrupt handler.  Characters come   *)
(* from the host's keyboard, one a poll at most; the simulator ends when   *)
(* the user types the terminate string.                                    *)
(***************************************************************************)
EXTENDS Integers, Sequences

CONSTANTS
    Char,        \* characters of the keyboard
    Exit,        \* terminate_str
    TicksPerBit, \* LM32_UART_TICKS_PER_BIT
    Granularity, \* LM32_INTERRUPT_GRANULARITY
    MaxCycles    \* the most cycles one instruction costs

VARIABLES
    lsr,      \* bits set in the line status register; THRR stands for TEMT too
    ier, iir, \* interrupt enables; what IIR identifies
    start,    \* cycles since start_time, or NotStarted when start_time is 0
    term_idx, \* characters of Exit matched
    done,     \* terminate was returned
    ip,       \* the UART's bit of the CPU's IP register
    cycle,    \* cycles since the last poll
    guest,    \* where the guest's code for the UART has come to
    polled,   \* is the guest the polling driver?
    heard,    \* history: the last characters typed, as many as Exit has
    frame,    \* history: cycles since the last character was sent, up to TicksPerBit
    event     \* history: what went wrong in the last step

regs == <<lsr, ier, iir, start>>
vars == <<lsr, ier, iir, start, term_idx, done, ip, cycle, guest, polled, heard, frame, event>>

(* The terminate string's first character does not occur in it again: the   *)
(* matcher of lm32_uart_tick() depends on it.                               *)
ASSUME UartAssumption ==
    /\ Exit \in Seq(Char) /\ Len(Exit) > 1
    /\ \A i \in 2 .. Len(Exit) : Exit[i] # Exit[1]
    /\ TicksPerBit \in Nat \ {0} /\ Granularity \in Nat \ {0} /\ MaxCycles \in Nat \ {0}

LsrBit == {"DR", "OE", "THRR"}
IerBit == {"RBRI", "THRI", "RLSI"}
NotStarted == -1
MaxGap == Granularity + MaxCycles - 1
NoKey == "no key"

-----------------------------------------------------------------------------
(* lm32_uart_tick() *)

Sending == "THRR" \notin lsr

\* Age with the start of the transmission not remembered.
AgeFromZero == IF start = NotStarted THEN TicksPerBit ELSE start + cycle

\* How long the transmission has lasted; with start_time 0, since ever.
Age ==
    IF start # NotStarted THEN start + cycle
    ELSE IF Sending THEN 0 ELSE TicksPerBit

Sent == Age >= TicksPerBit

\* Started with start_time kept when the character is sent.
StartKept == IF Sending THEN Age ELSE start
Started == IF Sent THEN NotStarted ELSE Age

\* Matched that starts from nothing after any wrong character.
MatchedOrNothing(c) == IF c = Exit[term_idx + 1] THEN term_idx + 1 ELSE 0
Matched(c) ==
    IF c = Exit[term_idx + 1] THEN term_idx + 1
    ELSE IF c = Exit[1] THEN 1 ELSE 0

LastOf(s) == IF Len(s) > Len(Exit) THEN Tail(s) ELSE s

NoInput == UNCHANGED <<term_idx, done, heard>> /\ event' = "none"

Input(c) ==
    /\ term_idx' = Matched(c)
    /\ done' = (term_idx' = Len(Exit))
    /\ heard' = LastOf(Append(heard, c))
    /\ event' = IF "DR" \in lsr THEN "overrun" ELSE "none"

\* CauseOnArrival: data ready asks for an interrupt only when it becomes so.
CauseOnArrival(status) ==
    IF "DR" \in status \ lsr /\ "RBRI" \in ier THEN "RDR"
    ELSE IF "THRR" \in status /\ "THRI" \in ier THEN "EMP"
    ELSE "NONE"

\* CauseKept: IIR not set to "none" before the causes are looked at.
CauseKept(status) ==
    IF "OE" \in status /\ "RLSI" \in ier THEN "ERR"
    ELSE IF "DR" \in status /\ "RBRI" \in ier THEN "RDR"
    ELSE IF "THRR" \in status /\ "THRI" \in ier THEN "EMP"
    ELSE iir

\* The highest of the causes that status shows and ier enables
Cause(status) ==
    IF "OE" \in status /\ "RLSI" \in ier THEN "ERR"
    ELSE IF "DR" \in status /\ "RBRI" \in ier THEN "RDR"
    ELSE IF "THRR" \in status /\ "THRI" \in ier THEN "EMP"
    ELSE "NONE"

\* One call of ext_interrupt(); c is the key waiting, if there is one.
Tick(c) ==
    /\ cycle >= Granularity /\ ~done
    /\ start' = Started
    /\ lsr' = lsr \cup (IF Sent THEN {"THRR"} ELSE {}) \cup (IF c = NoKey THEN {} ELSE {"DR"})
    /\ IF c = NoKey THEN NoInput ELSE Input(c)
    /\ iir' = Cause(lsr')
    /\ ip' = (ip \/ iir' # "NONE")
    /\ cycle' = 0
    /\ UNCHANGED <<ier, guest, polled, frame>>

-----------------------------------------------------------------------------
(* lm32_uart_write() and lm32_uart_read(), in one instruction of the guest *)

Spends(k) ==
    /\ cycle < Granularity /\ ~done
    /\ cycle' = cycle + k
    /\ UNCHANGED <<term_idx, done, polled, heard>>

Later(k) == IF frame + k < TicksPerBit THEN frame + k ELSE TicksPerBit

\* Any instruction but one that sends, or receives, a character
Quietly(k) == frame' = Later(k) /\ event' = "none"

SendByte(k) ==
    /\ lsr' = lsr \ {"THRR"}
    /\ frame' = 0
    /\ event' = "none"
    /\ UNCHANGED <<ier, iir, start>>

ReceiveByte(k) ==
    /\ lsr' = lsr \ {"DR"}
    /\ frame' = Later(k)
    /\ event' = IF "DR" \in lsr THEN "none" ELSE "misread"
    /\ UNCHANGED <<ier, iir, start>>

Compute(k) == Spends(k) /\ Quietly(k) /\ UNCHANGED <<regs, ip, guest>>

WriteIer(k, bits) ==
    /\ ~polled /\ guest = "idle"
    /\ Spends(k) /\ Quietly(k)
    /\ ier' = bits
    /\ UNCHANGED <<lsr, iir, start, ip, guest>>

-----------------------------------------------------------------------------
(* The polling driver: outbyte() and inbyte() *)

\* The loop on LSR ends with the bit set.
SeeReady(k, bit, next) ==
    /\ polled /\ guest = "idle" /\ bit \in lsr
    /\ Spends(k) /\ Quietly(k)
    /\ guest' = next
    /\ UNCHANGED <<regs, ip>>

OutByte(k) ==
    /\ polled /\ guest = "outbyte"
    /\ Spends(k) /\ SendByte(k)
    /\ guest' = "idle"
    /\ UNCHANGED ip

InByte(k) ==
    /\ polled /\ guest = "inbyte"
    /\ Spends(k) /\ ReceiveByte(k)
    /\ guest' = "idle"
    /\ UNCHANGED ip

(* The interrupt handler: it serves what IIR identifies, and acknowledges IP *)
(* afterwards.                                                              *)

TakeInterrupt ==
    /\ ~polled /\ guest = "idle" /\ ip /\ ~done
    /\ guest' = "entered"
    /\ event' = "none"
    /\ UNCHANGED <<regs, term_idx, done, ip, cycle, polled, heard, frame>>

Serve(k) ==
    /\ guest = "entered"
    /\ Spends(k)
    /\ guest' = "served"
    /\ UNCHANGED ip
    /\ \/ iir = "RDR" /\ ReceiveByte(k)
       \/ iir = "EMP" /\ SendByte(k)
       \/ iir = "EMP" /\ Quietly(k) /\ ier' = ier \ {"THRI"} /\ UNCHANGED <<lsr, iir, start>>
       \/ iir = "NONE" /\ Quietly(k) /\ UNCHANGED regs

Acknowledge(k) ==
    /\ guest = "served"
    /\ Spends(k) /\ Quietly(k)
    /\ ip' = FALSE
    /\ guest' = "idle"
    /\ UNCHANGED regs

Instruction ==
    \E k \in 1 .. MaxCycles :
        \/ Compute(k)
        \/ \E bits \in SUBSET IerBit : WriteIer(k, bits)
        \/ SeeReady(k, "THRR", "outbyte") \/ OutByte(k)
        \/ SeeReady(k, "DR", "inbyte") \/ InByte(k)
        \/ Serve(k) \/ Acknowledge(k)

\* The simulator has returned from its run.
Stopped == done /\ UNCHANGED vars

Init ==
    /\ lsr = {"THRR"} /\ ier = {} /\ iir = "NONE"
    /\ start = NotStarted
    /\ term_idx = 0
    /\ done = FALSE
    /\ ip = FALSE
    /\ cycle = Granularity
    /\ guest = "idle" /\ polled \in BOOLEAN
    /\ heard = <<>> /\ frame = TicksPerBit /\ event = "none"

Ticks == \E c \in Char \cup {NoKey} : Tick(c)

Next == Ticks \/ Instruction \/ TakeInterrupt \/ Stopped

Spec == Init /\ [][Next]_vars

(* The run loop goes on, interrupts are not disabled for ever, the handler  *)
(* comes to its end, however many polls fall into it.                       *)
FairSpec ==
    /\ Spec
    /\ WF_vars(Ticks) /\ WF_vars(Instruction) /\ WF_vars(TakeInterrupt)
    /\ SF_vars(\E k \in 1 .. MaxCycles : Serve(k))
    /\ SF_vars(\E k \in 1 .. MaxCycles : Acknowledge(k))

-----------------------------------------------------------------------------
(* Types; a transmission is never waited for longer than it lasts and one   *)
(* gap between polls, and the matcher never runs past the terminate string. *)
TypeOK ==
    /\ lsr \subseteq LsrBit /\ ier \subseteq IerBit
    /\ iir \in {"NONE", "ERR", "RDR", "EMP"}
    /\ start \in {NotStarted} \cup 0 .. TicksPerBit - 1
    /\ term_idx \in 0 .. Len(Exit)
    /\ done \in BOOLEAN /\ (done <=> term_idx = Len(Exit))
    /\ ip \in BOOLEAN
    /\ cycle \in 0 .. MaxGap
    /\ guest \in {"idle", "outbyte", "inbyte", "entered", "served"} /\ polled \in BOOLEAN
    /\ heard \in Seq(Char) /\ Len(heard) <= Len(Exit)
    /\ frame \in 0 .. TicksPerBit
    /\ event \in {"none", "overrun", "misread"}

(* No character is read twice.  The handler trusts IIR, which only a poll    *)
(* brings up to date: that a character it identifies is still there depends *)
(* on the order in which the handler reads it and acknowledges IP, and on   *)
(* every poll that falls in between.                                        *)
ReadOnce == event # "misread"

(* A character is on the line for TicksPerBit cycles at least, whenever the *)
(* guest hands it over: start_time is taken at the next poll, not before.   *)
FullFrame == [][Sending /\ "THRR" \in lsr' => frame >= TicksPerBit]_vars

(* The simulator ends exactly when the last characters typed are the        *)
(* terminate string, also after a start that went wrong half way.           *)
TerminateExact == done <=> heard = Exit

(* If a character waits in RBR and its interrupt is enabled, RBR is read in *)
(* the end, since the poll keeps asking until it is.  It then holds the last *)
(* character that came: one overwritten before that is never read.          *)
CharacterServed ==
    ~polled /\ "DR" \in lsr /\ "RBRI" \in ier
        ~> "DR" \notin lsr \/ "RBRI" \notin ier \/ done
=============================================================================

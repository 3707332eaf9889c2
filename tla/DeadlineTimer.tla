--------------------------- MODULE DeadlineTimer ---------------------------
(***************************************************************************)
(* What the timer of lnxmico32 promises its guest: a deadline on the real  *)
(* line of time, moved on by exactly one period when it has passed.  The   *)
(* timer looks at its registers only when it is polled, and what a poll    *)
(* finds may be up to Lag cycles old; it never adds up.                    *)
(***************************************************************************)
EXTENDS Integers

CONSTANTS
    Lag,       \* the most cycles from one poll to the next
    MaxCycles, \* the most cycles an instruction costs
    Periods    \* periods the guest programs

VARIABLES
    period,  \* cycles between two deadlines
    left,    \* cycles to the deadline, negative when it has passed
    run,     \* does time count?
    to,      \* has a poll found a deadline passed?
    control  \* what the guest asked for

vars == <<period, left, run, to, control>>

Request == {"ITO", "CONT", "START", "STOP"}

Init ==
    /\ period = 0 /\ left = 0
    /\ ~run /\ ~to
    /\ control = {}

Elapsed(k) == left' = IF run THEN left - k ELSE left

\* The program does something else than to program the timer.
Pass(k) == Elapsed(k) /\ UNCHANGED <<period, run, to, control>>

\* A running timer takes the new period as if it began at its last poll.
SetPeriod(p) ==
    /\ period' = p
    /\ IF run THEN left' \in p - Lag .. p ELSE left' = p
    /\ UNCHANGED <<run, to, control>>

SetControl(k, c) ==
    /\ control' = c
    /\ Elapsed(k)
    /\ UNCHANGED <<period, run, to>>

Acknowledge(k) ==
    /\ to' = FALSE
    /\ Elapsed(k)
    /\ UNCHANGED <<period, run, control>>

-----------------------------------------------------------------------------
(* A poll *)

\* What the timer does with a deadline d cycles away, once it runs.
Meet(d) ==
    \/ /\ d > 0
       /\ left' = d /\ run' = TRUE /\ to' = to
    \/ /\ d <= 0 /\ "CONT" \in control
       /\ left' = d + period /\ run' = TRUE /\ to' = TRUE
    \/ /\ d <= 0 /\ "CONT" \notin control
       /\ left' = 0 /\ run' = FALSE /\ to' = TRUE

Start ==
    /\ ~run /\ "START" \in control /\ "STOP" \notin control
    /\ Meet(left)
    /\ control' = control \ {"START"}
    /\ UNCHANGED period

Go ==
    /\ run /\ "STOP" \notin control
    /\ Meet(left)
    /\ UNCHANGED <<period, control>>

\* Stopping gives back the cycles since the last poll.
Stop ==
    /\ run \/ "START" \in control
    /\ "STOP" \in control
    /\ left' \in IF run THEN left .. left + Lag ELSE {left}
    /\ run' = FALSE
    /\ control' = control \ (IF run THEN {"STOP"} ELSE {"START", "STOP"})
    /\ UNCHANGED <<period, to>>

Next ==
    \/ \E k \in 1 .. MaxCycles :
          Pass(k) \/ Acknowledge(k) \/ \E c \in SUBSET Request : SetControl(k, c)
    \/ \E p \in Periods : SetPeriod(p)
    \/ Start \/ Go \/ Stop

Spec == Init /\ [][Next]_vars
=============================================================================

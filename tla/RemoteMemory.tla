---------------------------- MODULE RemoteMemory ----------------------------
(***************************************************************************)
(* What the host of a remote debugging session is promised: its commands   *)
(* take effect once and in the order asked, each is answered with what it  *)
(* found or did, and nothing else touches memory.  There are no packets.   *)
(* When the session closes under a write, the range it was to write, and   *)
(* nothing beyond, may hold anything.                                      *)
(***************************************************************************)
EXTENDS Naturals, Sequences

CONSTANTS
    Byte,
    Address,
    Command,   \* [op, addr, n, data]
    Writing,   \* the op of commands that write memory
    Reading,   \* that read it
    Killing,   \* that are not answered
    Replies,   \* the answers to the others, by op
    Empty,     \* no answer yet
    None

VARIABLES memory, asked, answer, closed

vars == <<memory, asked, answer, closed>>

Range(c) == {x \in Address : c.addr <= x /\ x < c.addr + c.n}
Written(c, x) == c.data[x - c.addr + 1]

Expected(c) ==
    IF c.op \in Reading THEN [i \in 1 .. c.n |-> memory[c.addr + i - 1]] ELSE Replies[c.op]

Ask(c) ==
    /\ ~closed /\ asked = None
    /\ asked' = c /\ answer' = Empty
    /\ UNCHANGED <<memory, closed>>

Apply ==
    /\ ~closed /\ asked # None /\ asked.op \in Writing
    /\ \E x \in Range(asked) : memory' = [memory EXCEPT ![x] = Written(asked, x)]
    /\ UNCHANGED <<asked, answer, closed>>

Applied(c) == c.op \in Writing => \A x \in Range(c) : memory[x] = Written(c, x)

Answer ==
    /\ ~closed /\ asked # None /\ asked.op \notin Killing
    /\ Applied(asked)
    /\ answer' = Expected(asked)
    /\ asked' = None
    /\ UNCHANGED <<memory, closed>>

Close == closed' = TRUE /\ UNCHANGED <<memory, asked, answer>>

\* The rest of a write whose session has closed.
Tear ==
    /\ closed /\ asked # None /\ asked.op \in Writing
    /\ \E x \in Range(asked), b \in Byte : memory' = [memory EXCEPT ![x] = b]
    /\ UNCHANGED <<asked, answer, closed>>

Init ==
    /\ memory \in [Address -> Byte]
    /\ asked = None /\ answer = Empty /\ closed = FALSE

Next == (\E c \in Command : Ask(c)) \/ Apply \/ Answer \/ Close \/ Tear

\* What may happen, and that what is asked is in the end answered.
Safe == Init /\ [][Next]_vars
Spec == Safe /\ WF_vars(Apply \/ Answer)
=============================================================================

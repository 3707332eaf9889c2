----------------------------- MODULE CacheFifo -----------------------------
(***************************************************************************)
(* What the cache models of the simulator promise to the cycle count: each *)
(* set of each cache holds the last Ways lines it filled, oldest first,    *)
(* and is empty as soon as the program has asked for an invalidation.      *)
(***************************************************************************)
EXTENDS Naturals, Sequences

CONSTANTS
    Cache,           \* the caches a CPU can have
    Set,             \* the sets of a cache
    Ways,            \* Ways[c]: how many lines a set of cache c holds
    Addr,            \* addresses read
    Cacheable(_),    \* does the address lie in the cached region?
    LineOf(_),       \* the line an address lies in
    SetOf(_)         \* the set that line belongs to

VARIABLES
    present, \* the caches the CPU has
    queue,   \* queue[c][s]: the lines of set s of cache c, oldest first
    read     \* the last read: <<cache, address, was it a hit?>>

vars == <<present, queue, read>>

Empty == [s \in Set |-> <<>>]

Member(q, x) == \E i \in DOMAIN q : q[i] = x

Push(c, q, x) == IF Len(q) < Ways[c] THEN Append(q, x) ELSE Append(Tail(q), x)

Init ==
    /\ present \in SUBSET Cache
    /\ queue = [c \in Cache |-> Empty]
    /\ \E c \in Cache : read = <<c, 0, FALSE>>

Hit(c, a) ==
    /\ c \in present /\ Cacheable(a) /\ Member(queue[c][SetOf(a)], LineOf(a))
    /\ read' = <<c, a, TRUE>>
    /\ UNCHANGED <<present, queue>>

Fill(c, a) ==
    /\ c \in present /\ Cacheable(a) /\ ~Member(queue[c][SetOf(a)], LineOf(a))
    /\ read' = <<c, a, FALSE>>
    /\ queue' = [queue EXCEPT ![c][SetOf(a)] = Push(c, @, LineOf(a))]
    /\ UNCHANGED present

\* No cache for the access, or an address outside the cached region
Uncached(c, a) ==
    /\ c \notin present \/ ~Cacheable(a)
    /\ read' = <<c, a, FALSE>>
    /\ UNCHANGED <<present, queue>>

Cleared(cs) == [c \in Cache |-> IF c \in cs THEN Empty ELSE queue[c]]

Invalidate(cs) == queue' = Cleared(cs) /\ UNCHANGED <<present, read>>

Configure(wanted) ==
    /\ present' = wanted
    /\ queue' = Cleared(Cache \ (present \cap wanted))
    /\ UNCHANGED read

Next ==
    \/ \E c \in Cache, a \in Addr : Hit(c, a) \/ Fill(c, a) \/ Uncached(c, a)
    \/ \E cs \in SUBSET Cache : Invalidate(cs) \/ Configure(cs)

Spec == Init /\ [][Next]_vars
=============================================================================

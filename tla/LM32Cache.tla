----------------------------- MODULE LM32Cache -----------------------------
(***************************************************************************)
(* The instruction and data caches: class lm32_cache, and the part of      *)
(* lm32_cpu::lm32_read_mem() that performs outstanding invalidations and   *)
(* looks the address up.  The caches hold no data: they decide what a read *)
(* costs.  A wcsr to ICC or DCC, and a reset, only leave a flag; the next  *)
(* read of either kind acts on both flags.                                 *)
(***************************************************************************)
EXTENDS Integers, Sequences

CONSTANTS
    Ways,        \* Ways[c]: 1 or 2, how many ways cache c has
    Sets,        \* a power of two
    LineBytes,   \* line_width
    BaseAddr,    \* cache_base_addr, as configured
    UpperLimit,  \* upper_limit, as configured: the last byte of the region
    AddressSpan, \* the number of addresses (2^32)
    Addr         \* physical byte addresses read

ASSUME CacheAssumption ==
    /\ Ways \in [{"I", "D"} -> {1, 2}]
    /\ Sets \in Nat \ {0} /\ LineBytes \in Nat \ {0} /\ AddressSpan \in Nat \ {0}
    /\ BaseAddr \in Nat /\ UpperLimit \in Nat
    /\ Addr \subseteq Nat

VARIABLES
    present, \* the caches that exist: icache_p, dcache_p not NULL
    m,       \* m[c][w][s]: the line way w of set s holds, or Invalid
    next,    \* next_way_update[s] of each cache
    stale,   \* icc_invalidate, dcc_invalidate: caches still to be invalidated
    read     \* the last read: <<cache, address, way that hit (from 1) or 0>>

vars == <<present, m, next, stale, read>>

Cache == {"I", "D"}
Set == 0 .. Sets - 1
Way(c) == 0 .. Ways[c] - 1
Invalid == -1

-----------------------------------------------------------------------------
(* Addresses, as the constructor and lm32_cache_access() take them apart *)

AlignDown(x) == x - (x % (Sets * LineBytes))
Base  == AlignDown(BaseAddr)
Limit == AlignDown((UpperLimit + 1) % AddressSpan)

Cacheable(a) == Base <= a /\ a < Limit
LineOf(a) == a \div LineBytes
SetOf(a)  == LineOf(a) % Sets
Line == {LineOf(a) : a \in {x \in Addr : Cacheable(x)}}

NoLines(c) == [w \in Way(c) |-> [s \in Set |-> Invalid]]

-----------------------------------------------------------------------------
(* lm32_read_mem() *)

\* The lines of cache c once outstanding invalidations are done.  The ways
\* keep their turn.
Fresh(c) == IF c \in stale THEN NoLines(c) ELSE m[c]

\* Turn without the test for two ways, and without a change of way.
TurnUp(c, s) == next[c][s] + 1
TurnNever(c, s) == next[c][s]

\* The way after the one just filled.
Turn(c, s) == IF Ways[c] = 2 THEN 1 - next[c][s] ELSE next[c][s]

\* Hits without the look into the second way.
HitsWay1(c, a) == {w \in Way(c) \cap {0} : Fresh(c)[w][SetOf(a)] = LineOf(a)}

\* Which ways hold the line of an address
Hits(c, a) == {w \in Way(c) : Fresh(c)[w][SetOf(a)] = LineOf(a)}

FirstOf(ways) == CHOOSE w \in ways : \A v \in ways : w <= v

\* Every read does both invalidations, whatever it reads through.
Refreshed == [c \in Cache |-> Fresh(c)]

\* A read that no cache holds and none is to hold.
ReadUncached(c, a) ==
    /\ c \notin present \/ ~Cacheable(a)
    /\ read' = <<c, a, 0>>
    /\ m' = Refreshed
    /\ stale' = {}
    /\ UNCHANGED <<present, next>>

ReadHit(c, a) ==
    /\ c \in present /\ Cacheable(a) /\ Hits(c, a) # {}
    /\ read' = <<c, a, FirstOf(Hits(c, a)) + 1>>
    /\ m' = Refreshed
    /\ stale' = {}
    /\ UNCHANGED <<present, next>>

ReadMiss(c, a) ==
    /\ c \in present /\ Cacheable(a) /\ Hits(c, a) = {}
    /\ read' = <<c, a, 0>>
    /\ m' = [Refreshed EXCEPT ![c][next[c][SetOf(a)]][SetOf(a)] = LineOf(a)]
    /\ next' = [next EXCEPT ![c][SetOf(a)] = Turn(c, SetOf(a))]
    /\ stale' = {}
    /\ UNCHANGED present

Read == \E c \in Cache, a \in Addr : ReadUncached(c, a) \/ ReadHit(c, a) \/ ReadMiss(c, a)

-----------------------------------------------------------------------------

Init ==
    /\ present \in SUBSET Cache
    /\ m = [c \in Cache |-> NoLines(c)]
    /\ next = [c \in Cache |-> [s \in Set |-> 0]]
    /\ stale = {}
    /\ read = <<"I", 0, 0>>

\* wcsr to ICC or DCC
WriteCacheControl ==
    /\ \E c \in Cache : stale' = stale \cup {c}
    /\ UNCHANGED <<present, m, next, read>>

\* internal_reset_cpu() marks both.
Reset ==
    /\ stale' = Cache
    /\ UNCHANGED <<present, m, next, read>>

\* lm32_set_configuration(): a cache that appears is new, one that goes is deleted.
SetConfiguration ==
    \E wanted \in SUBSET Cache :
        LET kept == present \cap wanted IN
        /\ present' = wanted
        /\ m' = [c \in Cache |-> IF c \in kept THEN m[c] ELSE NoLines(c)]
        /\ next' = [c \in Cache |-> IF c \in kept THEN next[c] ELSE [s \in Set |-> 0]]
        /\ UNCHANGED <<stale, read>>

Next == Read \/ WriteCacheControl \/ Reset \/ SetConfiguration

Spec == Init /\ [][Next]_vars

-----------------------------------------------------------------------------
(* Types *)
TypeOK ==
    /\ present \subseteq Cache
    /\ DOMAIN m = Cache /\ DOMAIN next = Cache
    /\ \A c \in Cache : /\ m[c] \in [Way(c) -> [Set -> Line \cup {Invalid}]]
                       /\ next[c] \in [Set -> Way(c)]
    /\ stale \subseteq Cache
    /\ read \in Cache \X (Addr \cup {0}) \X (0 .. 2)

(* No line is held twice, each is held in its own set, and of two ways the  *)
(* one whose turn it is holds the older line: it is not the only one valid. *)
(* Filling (lm32_cache_access) and clearing (lm32_cache_invalidate, which   *)
(* leaves next_way_update alone) both have to keep this.                    *)
OneCopy ==
    \A c \in Cache, s \in Set :
        /\ \A v, w \in Way(c) : v # w /\ m[c][v][s] = m[c][w][s] => m[c][v][s] = Invalid
        /\ \A w \in Way(c) : m[c][w][s] = Invalid \/ m[c][w][s] % Sets = s
        /\ \A w \in Way(c) : w # next[c][s] /\ m[c][w][s] = Invalid => m[c][next[c][s]][s] = Invalid

(* The lines of a set in the order they were filled: of two ways the one    *)
(* whose turn it is holds the older.                                        *)
QueueOf(c, s) ==
    LET older == Fresh(c)[next[c][s]][s]
        newer == Fresh(c)[Turn(c, s)][s] IN
    IF newer = Invalid THEN <<>>
    ELSE IF Ways[c] = 1 \/ older = Invalid THEN <<newer>> ELSE <<older, newer>>

(* The caches are first-in first-out per set, and empty from the moment the *)
(* program asks: that the deferred, shared invalidation of lm32_read_mem()  *)
(* comes at the next read is not to be seen.                                *)
Fifo == INSTANCE CacheFifo WITH
    queue <- [c \in Cache |-> [s \in Set |-> QueueOf(c, s)]],
    read <- <<read[1], read[2], read[3] # 0>>
FifoSpec == Fifo!Spec
=============================================================================

-------------------------- MODULE LM32Cache_proofs --------------------------
(***************************************************************************)
(* Theorems about LM32Cache, for every geometry CacheAssumption admits and *)
(* every set of addresses.                                                 *)
(***************************************************************************)
EXTENDS LM32Cache, SequenceTheorems, TLAPS

(* Every address lies in one line, and that line in one set. *)
LEMMA AddressFacts ==
    ASSUME NEW a \in Addr
    PROVE  /\ LineOf(a) \in Nat /\ SetOf(a) \in Set
           /\ LineOf(a) # Invalid
           /\ Cacheable(a) => LineOf(a) \in Line
<1>1. a \in Nat /\ LineBytes \in Nat \ {0} /\ Sets \in Nat \ {0}
  BY CacheAssumption
<1>2. LineOf(a) \in Nat
  BY <1>1 DEF LineOf
<1>3. SetOf(a) \in Set
  BY <1>1, <1>2 DEF SetOf, Set
<1> QED
  BY <1>2, <1>3 DEF Line, Invalid

(* A cache has way 0, or ways 0 and 1. *)
LEMMA WayFacts ==
    ASSUME NEW c \in Cache
    PROVE  \/ Ways[c] = 1 /\ Way(c) = {0}
           \/ Ways[c] = 2 /\ Way(c) = {0, 1}
<1>1. Ways[c] \in {1, 2}
  BY CacheAssumption DEF Cache
<1> QED
  BY <1>1 DEF Way

(* The turn passes from one way to the other, if there is another. *)
LEMMA TurnFacts ==
    ASSUME TypeOK, NEW c \in Cache, NEW s \in Set
    PROVE  /\ Turn(c, s) \in Way(c) /\ next[c][s] \in Way(c)
           /\ Way(c) = {next[c][s], Turn(c, s)}
           /\ Turn(c, s) = next[c][s] <=> Ways[c] = 1
<1>1. next[c][s] \in Way(c)
  BY DEF TypeOK
<1> QED
  BY <1>1, WayFacts DEF Turn

(* What a deferred invalidation leaves of a cache is a cache. *)
LEMMA FreshType ==
    ASSUME TypeOK, NEW c \in Cache
    PROVE  Fresh(c) \in [Way(c) -> [Set -> Line \cup {Invalid}]]
BY DEF TypeOK, Fresh, NoLines

(* Empty caches with every turn at way 0 are well typed. *)
LEMMA CacheInitType == Init => TypeOK
<1> SUFFICES ASSUME Init PROVE TypeOK
  OBVIOUS
<1>1. \A c \in Cache : 0 \in Way(c)
  BY WayFacts
<1>2. \A c \in Cache : m[c] \in [Way(c) -> [Set -> Line \cup {Invalid}]] /\ next[c] \in [Set -> Way(c)]
  BY <1>1 DEF Init, NoLines
<1>3. read \in Cache \X (Addr \cup {0}) \X (0 .. 2)
  BY DEF Init, Cache
<1> QED
  BY <1>2, <1>3 DEF Init, TypeOK

(* Reads, invalidations, resets and reconfigurations keep the types. *)
LEMMA CacheNextType == TypeOK /\ [Next]_vars => TypeOK'
<1> SUFFICES ASSUME TypeOK, [Next]_vars PROVE TypeOK'
  OBVIOUS
<1>a. \A c \in Cache : Refreshed[c] \in [Way(c) -> [Set -> Line \cup {Invalid}]]
  BY FreshType DEF Refreshed
<1>b. DOMAIN Refreshed = Cache
  BY DEF Refreshed
<1>1. ASSUME NEW c \in Cache, NEW a \in Addr, ReadUncached(c, a) PROVE TypeOK'
  BY <1>1, <1>a, <1>b DEF ReadUncached, TypeOK
<1>2. ASSUME NEW c \in Cache, NEW a \in Addr, ReadHit(c, a) PROVE TypeOK'
  <2>1. Hits(c, a) \subseteq {0, 1} /\ Hits(c, a) # {}
    BY <1>2, WayFacts DEF Hits, ReadHit
  <2>2. FirstOf(Hits(c, a)) \in {0, 1}
    <3>1. \E w \in Hits(c, a) : \A v \in Hits(c, a) : w <= v
      BY <2>1
    <3> QED
      BY <2>1, <3>1 DEF FirstOf
  <2>3. read' \in Cache \X (Addr \cup {0}) \X (0 .. 2)
    BY <1>2, <2>2 DEF ReadHit
  <2> QED
    BY <1>2, <1>a, <1>b, <2>3 DEF ReadHit, TypeOK
<1>3. ASSUME NEW c \in Cache, NEW a \in Addr, ReadMiss(c, a) PROVE TypeOK'
  <2> DEFINE s == SetOf(a)
  <2>1. s \in Set /\ LineOf(a) \in Line
    BY <1>3, AddressFacts DEF ReadMiss
  <2>2. Turn(c, s) \in Way(c) /\ next[c][s] \in Way(c)
    BY <2>1, TurnFacts
  <2>3. DOMAIN m' = Cache
    BY <1>3, <1>b DEF ReadMiss
  <2>4. DOMAIN next' = Cache
    BY <1>3 DEF ReadMiss, TypeOK
  <2>5. \A d \in Cache : m'[d] \in [Way(d) -> [Set -> Line \cup {Invalid}]]
    <3>1. [Refreshed[c] EXCEPT ![next[c][s]][s] = LineOf(a)]
            \in [Way(c) -> [Set -> Line \cup {Invalid}]]
      <4> DEFINE old == Refreshed[c]
                 row == [old[next[c][s]] EXCEPT ![s] = LineOf(a)]
      <4>1. old \in [Way(c) -> [Set -> Line \cup {Invalid}]]
        BY <1>a
      <4>2. row \in [Set -> Line \cup {Invalid}]
        BY <2>1, <2>2, <4>1
      <4>3. [old EXCEPT ![next[c][s]] = row] \in [Way(c) -> [Set -> Line \cup {Invalid}]]
        BY <2>2, <4>1, <4>2
      <4> QED
        BY <4>3
    <3>2. m' = [Refreshed EXCEPT ![c] = [Refreshed[c] EXCEPT ![next[c][s]][s] = LineOf(a)]]
      BY <1>3 DEF ReadMiss
    <3> QED
      BY <1>a, <1>b, <3>1, <3>2
  <2>6. \A d \in Cache : next'[d] \in [Set -> Way(d)]
    BY <1>3, <2>1, <2>2 DEF ReadMiss, TypeOK
  <2>7. read' \in Cache \X (Addr \cup {0}) \X (0 .. 2)
    BY <1>3 DEF ReadMiss
  <2> QED
    BY <1>3, <2>3, <2>4, <2>5, <2>6, <2>7 DEF ReadMiss, TypeOK
<1>4. CASE WriteCacheControl
  BY <1>4 DEF WriteCacheControl, TypeOK
<1>5. CASE Reset
  BY <1>5 DEF Reset, TypeOK
<1>6. CASE SetConfiguration
  <2>1. \A c \in Cache : 0 \in Way(c)
    BY WayFacts
  <2> QED
    BY <1>6, <2>1 DEF SetConfiguration, NoLines, TypeOK
<1>7. CASE UNCHANGED vars
  BY <1>7 DEF vars, TypeOK
<1> QED
  BY <1>1, <1>2, <1>3, <1>4, <1>5, <1>6, <1>7 DEF Next, Read

(* The caches keep their type: next_way_update always names a way there is. *)
THEOREM CacheTypeCorrect == Spec => []TypeOK
BY CacheInitType, CacheNextType, PTL DEF Spec

-----------------------------------------------------------------------------
(* OneCopy, one set of one cache at a time: lines is a cache's lines, turn   *)
(* the way whose turn it is in set s.                                        *)
OneCopyIn(c, lines, turn, s) ==
    /\ \A v, w \in Way(c) : v # w /\ lines[v][s] = lines[w][s] => lines[v][s] = Invalid
    /\ \A w \in Way(c) : lines[w][s] = Invalid \/ lines[w][s] % Sets = s
    /\ \A w \in Way(c) : w # turn /\ lines[w][s] = Invalid => lines[turn][s] = Invalid

(* The property, cache by cache and set by set. *)
LEMMA OneCopyParts ==
    OneCopy <=> \A c \in Cache, s \in Set : OneCopyIn(c, m[c], next[c][s], s)
BY DEF OneCopy, OneCopyIn

(* An invalidation keeps it, whosever turn it is. *)
LEMMA NoLinesOneCopy ==
    ASSUME NEW c \in Cache, NEW s \in Set, NEW turn \in Way(c)
    PROVE  OneCopyIn(c, NoLines(c), turn, s)
BY DEF OneCopyIn, NoLines

(* So does a deferred invalidation done at a read. *)
LEMMA FreshOneCopy ==
    ASSUME TypeOK, OneCopy, NEW c \in Cache, NEW s \in Set
    PROVE  OneCopyIn(c, Fresh(c), next[c][s], s)
<1>1. next[c][s] \in Way(c)
  BY DEF TypeOK
<1> QED
  BY <1>1, NoLinesOneCopy, OneCopyParts DEF Fresh

(* A fill puts the line where its turn is, and hands the turn on: the line  *)
(* was in no way, and the other way now holds the older one.                *)
LEMMA OneCopyNext == TypeOK /\ OneCopy /\ [Next]_vars => OneCopy'
<1> SUFFICES ASSUME TypeOK, OneCopy, [Next]_vars
             PROVE  \A c \in Cache, s \in Set : OneCopyIn(c, m'[c], next'[c][s], s)
  BY DEF OneCopy, OneCopyIn
<1>1. ASSUME m' = Refreshed, UNCHANGED next
      PROVE  \A c \in Cache, s \in Set : OneCopyIn(c, m'[c], next'[c][s], s)
  BY <1>1, FreshOneCopy DEF Refreshed
<1>2. ASSUME NEW c \in Cache, NEW a \in Addr, ReadMiss(c, a)
      PROVE  \A d \in Cache, s \in Set : OneCopyIn(d, m'[d], next'[d][s], s)
  <2> DEFINE t == SetOf(a)
             fill == next[c][t]
             row == [Fresh(c)[fill] EXCEPT ![t] = LineOf(a)]
  <2>1. t \in Set /\ LineOf(a) \in Nat /\ LineOf(a) # Invalid /\ LineOf(a) % Sets = t
    BY AddressFacts DEF SetOf
  <2>2. fill \in Way(c) /\ Way(c) = {fill, Turn(c, t)} /\ Turn(c, t) \in Way(c)
    BY <2>1, TurnFacts
  <2>3. m' = [Refreshed EXCEPT ![c][fill][t] = LineOf(a)]
        /\ next' = [next EXCEPT ![c][t] = Turn(c, t)]
        /\ Hits(c, a) = {}
    BY <1>2 DEF ReadMiss
  <2>4. Fresh(c) \in [Way(c) -> [Set -> Line \cup {Invalid}]]
    BY FreshType
  <2>5. m'[c] = [Fresh(c) EXCEPT ![fill] = row]
    BY <2>2, <2>3, <2>4 DEF Refreshed
  <2>6. \A w \in Way(c) : w # fill => m'[c][w] = Fresh(c)[w]
    BY <2>2, <2>4, <2>5
  <2>7. m'[c][fill] = row
    BY <2>2, <2>4, <2>5
  <2>8. row[t] = LineOf(a) /\ \A s \in Set : s # t => row[s] = Fresh(c)[fill][s]
    BY <2>1, <2>2, <2>4
  <2>9. next'[c][t] = Turn(c, t) /\ \A s \in Set : s # t => next'[c][s] = next[c][s]
    BY <2>1, <2>3 DEF TypeOK
  <2>10. \A w \in Way(c) : Fresh(c)[w][t] # LineOf(a)
    BY <2>3 DEF Hits
  <2>11. OneCopyIn(c, m'[c], next'[c][t], t)
    BY <2>1, <2>2, <2>6, <2>7, <2>8, <2>9, <2>10, FreshOneCopy DEF OneCopyIn
  <2>12. ASSUME NEW s \in Set, s # t PROVE OneCopyIn(c, m'[c], next'[c][s], s)
    <3>1. \A w \in Way(c) : m'[c][w][s] = Fresh(c)[w][s]
      BY <2>6, <2>7, <2>8, <2>12
    <3>2. OneCopyIn(c, Fresh(c), next[c][s], s) /\ next[c][s] \in Way(c)
      BY FreshOneCopy, TurnFacts
    <3> QED
      BY <2>9, <2>12, <3>1, <3>2 DEF OneCopyIn
  <2>13. ASSUME NEW d \in Cache, d # c, NEW s \in Set PROVE OneCopyIn(d, m'[d], next'[d][s], s)
    <3>1. m'[d] = Fresh(d) /\ next'[d][s] = next[d][s]
      BY <2>3, <2>13 DEF Refreshed, TypeOK
    <3> QED
      BY <3>1, FreshOneCopy
  <2> QED
    BY <2>11, <2>12, <2>13
<1>3. CASE Read
  BY <1>1, <1>2, <1>3 DEF Read, ReadUncached, ReadHit
<1>4. CASE WriteCacheControl \/ Reset \/ UNCHANGED vars
  BY <1>4, OneCopyParts DEF WriteCacheControl, Reset, vars
<1>5. CASE SetConfiguration
  <2>1. PICK wanted \in SUBSET Cache :
          /\ m' = [c \in Cache |-> IF c \in present \cap wanted THEN m[c] ELSE NoLines(c)]
          /\ next' = [c \in Cache |-> IF c \in present \cap wanted THEN next[c] ELSE [s \in Set |-> 0]]
    BY <1>5 DEF SetConfiguration
  <2> SUFFICES ASSUME NEW c \in Cache, NEW s \in Set PROVE OneCopyIn(c, m'[c], next'[c][s], s)
    OBVIOUS
  <2>2. CASE c \in present \cap wanted
    BY <2>1, <2>2, OneCopyParts
  <2>3. CASE c \notin present \cap wanted
    <3>1. m'[c] = NoLines(c) /\ next'[c][s] = 0 /\ 0 \in Way(c)
      BY <2>1, <2>3, WayFacts
    <3> QED
      BY <3>1, NoLinesOneCopy
  <2> QED
    BY <2>2, <2>3
<1> QED
  BY <1>3, <1>4, <1>5 DEF Next

(* Empty caches hold no line twice. *)
LEMMA OneCopyInit == Init => OneCopy
<1> SUFFICES ASSUME Init PROVE \A c \in Cache, s \in Set : OneCopyIn(c, m[c], next[c][s], s)
  BY OneCopyParts
<1> TAKE c \in Cache, s \in Set
<1>1. m[c] = NoLines(c) /\ next[c][s] = 0 /\ 0 \in Way(c)
  BY WayFacts DEF Init
<1> QED
  BY <1>1, NoLinesOneCopy

(* lm32_cache_access() never holds a line twice, in any geometry: not after  *)
(* an invalidation that left next_way_update in mid-turn, nor with one       *)
(* deferred to a read through the other cache.                               *)
THEOREM NoLineTwice == Spec => []OneCopy
<1>1. Init => TypeOK /\ OneCopy
  BY CacheInitType, OneCopyInit
<1>2. TypeOK /\ OneCopy /\ [Next]_vars => (TypeOK /\ OneCopy)'
  BY CacheNextType, OneCopyNext
<1> QED
  BY <1>1, <1>2, PTL DEF Spec

-----------------------------------------------------------------------------
(* The refinement: the queue read off the ways *)

Queue == [c \in Cache |-> [s \in Set |-> QueueOf(c, s)]]

(* What a set looks like to the abstract cache, with older before newer.    *)
Ordered(c, older, newer) ==
    IF newer = Invalid THEN <<>>
    ELSE IF Ways[c] = 1 \/ older = Invalid THEN <<newer>> ELSE <<older, newer>>

(* The queue of one set, as it looks. *)
LEMMA QueueParts ==
    ASSUME NEW c \in Cache, NEW s \in Set
    PROVE  Queue[c][s] = Ordered(c, Fresh(c)[next[c][s]][s], Fresh(c)[Turn(c, s)][s])
BY DEF Queue, QueueOf, Ordered

(* The members of a queue of at most two lines. *)
LEMMA MemberFacts ==
    /\ \A x : ~Fifo!Member(<<>>, x)
    /\ \A x, y : Fifo!Member(<<y>>, x) <=> x = y
    /\ \A x, y, z : Fifo!Member(<<y, z>>, x) <=> x = y \/ x = z
BY DEF Fifo!Member

(* Of two ways the newer one is filled first. *)
LEMMA NewerFirst ==
    ASSUME TypeOK, OneCopy, NEW c \in Cache, NEW s \in Set
    PROVE  Ways[c] = 2 /\ Fresh(c)[Turn(c, s)][s] = Invalid => Fresh(c)[next[c][s]][s] = Invalid
BY FreshOneCopy, TurnFacts DEF OneCopyIn

(* A line hits if it is in the queue of its set. *)
LEMMA HitsAreMembers ==
    ASSUME TypeOK, OneCopy, NEW c \in Cache, NEW a \in Addr
    PROVE  Fifo!Member(Queue[c][SetOf(a)], LineOf(a)) <=> Hits(c, a) # {}
<1> DEFINE s == SetOf(a)
           older == Fresh(c)[next[c][s]][s]
           newer == Fresh(c)[Turn(c, s)][s]
<1>1. s \in Set /\ LineOf(a) # Invalid
  BY AddressFacts
<1>2. Hits(c, a) # {} <=> LineOf(a) = older \/ LineOf(a) = newer
  BY <1>1, TurnFacts DEF Hits
<1>3. Ways[c] = 1 => older = newer
  BY <1>1, TurnFacts
<1>4. Queue[c][s] = Ordered(c, older, newer)
  BY <1>1, QueueParts
<1>5. CASE newer = Invalid
  <2>1. older = Invalid
    BY <1>1, <1>3, <1>5, NewerFirst, WayFacts
  <2>2. Queue[c][s] = <<>>
    BY <1>4, <1>5 DEF Ordered
  <2> QED
    BY <1>1, <1>2, <1>5, <2>1, <2>2, MemberFacts
<1>6. CASE newer # Invalid /\ (Ways[c] = 1 \/ older = Invalid)
  <2>1. Queue[c][s] = <<newer>>
    BY <1>4, <1>6 DEF Ordered
  <2> QED
    BY <1>1, <1>2, <1>3, <1>6, <2>1, MemberFacts
<1>7. CASE newer # Invalid /\ Ways[c] # 1 /\ older # Invalid
  <2>1. Queue[c][s] = <<older, newer>>
    BY <1>4, <1>7 DEF Ordered
  <2> QED
    BY <1>2, <2>1, MemberFacts
<1> QED
  BY <1>5, <1>6, <1>7

(* Two lines in a row. *)
LEMMA AppendToOne ==
    ASSUME NEW y \in Int, NEW x \in Int
    PROVE  Append(<<y>>, x) = <<y, x>>
<1>1. <<y>> \in Seq(Int) /\ Len(<<y>>) = 1 /\ <<y>>[1] = y
  OBVIOUS
<1>2. /\ Append(<<y>>, x) \in Seq(Int) /\ Len(Append(<<y>>, x)) = 2
      /\ Append(<<y>>, x)[1] = y /\ Append(<<y>>, x)[2] = x
  BY <1>1
<1>3. <<y, x>> \in Seq(Int) /\ Len(<<y, x>>) = 2 /\ <<y, x>>[1] = y /\ <<y, x>>[2] = x
  OBVIOUS
<1>4. \A i \in 1 .. 2 : i = 1 \/ i = 2
  OBVIOUS
<1> QED
  BY <1>2, <1>3, <1>4, SeqEqual

(* A line pushed to a queue of at most two. *)
LEMMA PushFacts ==
    ASSUME NEW c \in Cache, NEW x \in Int, x # Invalid, NEW older \in Int, NEW newer \in Int,
           Ways[c] = 2 /\ newer = Invalid => older = Invalid,
           Ways[c] = 1 => older = newer
    PROVE  Fifo!Push(c, Ordered(c, older, newer), x) =
             Ordered(c, IF Ways[c] = 1 THEN x ELSE newer, x)
<1>1. Ways[c] = 1 \/ Ways[c] = 2
  BY WayFacts
<1>2. CASE newer = Invalid
  <2>1. Ordered(c, older, newer) = <<>>
    BY <1>2 DEF Ordered
  <2>2. Len(<<>>) = 0 /\ Append(<<>>, x) = <<x>>
    OBVIOUS
  <2> QED
    BY <1>1, <1>2, <2>1, <2>2 DEF Fifo!Push, Ordered
<1>3. CASE newer # Invalid /\ Ways[c] = 1
  <2>1. Ordered(c, older, newer) = <<newer>>
    BY <1>3 DEF Ordered
  <2>2. Len(<<newer>>) = 1 /\ Tail(<<newer>>) = <<>> /\ Append(<<>>, x) = <<x>>
    OBVIOUS
  <2>3. Fifo!Push(c, <<newer>>, x) = <<x>>
    BY <1>3, <2>2 DEF Fifo!Push
  <2> QED
    BY <1>3, <2>1, <2>3 DEF Ordered
<1>4. CASE newer # Invalid /\ Ways[c] = 2 /\ older = Invalid
  <2>1. Ordered(c, older, newer) = <<newer>>
    BY <1>4 DEF Ordered
  <2>2. Len(<<newer>>) = 1 /\ Append(<<newer>>, x) = <<newer, x>>
    BY AppendToOne
  <2>3. Fifo!Push(c, <<newer>>, x) = <<newer, x>>
    BY <1>4, <2>2 DEF Fifo!Push
  <2> QED
    BY <1>4, <2>1, <2>3 DEF Ordered
<1>5. CASE newer # Invalid /\ Ways[c] = 2 /\ older # Invalid
  <2>1. Ordered(c, older, newer) = <<older, newer>>
    BY <1>5 DEF Ordered
  <2>2. Len(<<older, newer>>) = 2 /\ Tail(<<older, newer>>) = <<newer>>
        /\ Append(<<newer>>, x) = <<newer, x>>
    BY AppendToOne
  <2>3. Fifo!Push(c, <<older, newer>>, x) = <<newer, x>>
    BY <1>5, <2>2 DEF Fifo!Push
  <2> QED
    BY <1>5, <2>1, <2>3 DEF Ordered
<1> QED
  BY <1>1, <1>2, <1>3, <1>4, <1>5

(* Steps that leave lines and turns as they are after outstanding           *)
(* invalidations leave the queues alone.                                    *)
LEMMA SameQueue ==
    ASSUME TypeOK, m' = Refreshed, stale' = {}, UNCHANGED next
    PROVE  Queue' = Queue
<1>1. \A c \in Cache : Fresh(c)' = Fresh(c)
  BY DEF Fresh, Refreshed
<1>2. \A c \in Cache, s \in Set : QueueOf(c, s)' = QueueOf(c, s)
  BY <1>1 DEF QueueOf, Turn
<1> QED
  BY <1>2 DEF Queue

(* A cache without lines has empty queues. *)
LEMMA NoLinesQueue ==
    ASSUME NEW c \in Cache, Fresh(c) = NoLines(c), next[c] \in [Set -> Way(c)]
    PROVE  \A s \in Set : QueueOf(c, s) = <<>>
<1> SUFFICES ASSUME NEW s \in Set PROVE QueueOf(c, s) = <<>>
  OBVIOUS
<1>1. Turn(c, s) \in Way(c)
  BY WayFacts DEF Turn
<1>2. NoLines(c)[Turn(c, s)][s] = Invalid
  BY <1>1 DEF NoLines
<1> QED
  BY <1>2 DEF QueueOf

(* A read that is not cached clears nothing that is still to be seen. *)
LEMMA UncachedRefines ==
    ASSUME TypeOK, NEW c \in Cache, NEW a \in Addr, ReadUncached(c, a)
    PROVE  Fifo!Uncached(c, a)
<1>1. Queue' = Queue
  BY SameQueue DEF ReadUncached
<1>2. read' = <<c, a, 0>> /\ present' = present /\ (c \notin present \/ ~Cacheable(a))
  BY DEF ReadUncached
<1>3. <<read[1], read[2], read[3] # 0>>' = <<c, a, FALSE>>
  BY <1>2
<1> QED
  BY <1>1, <1>2, <1>3 DEF Fifo!Uncached, Queue

(* A hit finds its line in the queue. *)
LEMMA HitRefines ==
    ASSUME TypeOK, OneCopy, NEW c \in Cache, NEW a \in Addr, ReadHit(c, a)
    PROVE  Fifo!Hit(c, a)
<1>1. Queue' = Queue
  BY SameQueue DEF ReadHit
<1>2. c \in present /\ Cacheable(a) /\ Hits(c, a) # {} /\ present' = present
      /\ read' = <<c, a, FirstOf(Hits(c, a)) + 1>>
  BY DEF ReadHit
<1>3. FirstOf(Hits(c, a)) \in Nat
  <2>1. Hits(c, a) \subseteq {0, 1}
    BY WayFacts DEF Hits
  <2>2. \E w \in Hits(c, a) : \A v \in Hits(c, a) : w <= v
    BY <1>2, <2>1
  <2> QED
    BY <2>1, <2>2 DEF FirstOf
<1>4. <<read[1], read[2], read[3] # 0>>' = <<c, a, TRUE>>
  <2>1. (FirstOf(Hits(c, a)) + 1 # 0) = TRUE
    BY <1>3
  <2> QED
    BY <1>2, <2>1
<1>5. Fifo!Member(Queue[c][SetOf(a)], LineOf(a))
  BY <1>2, HitsAreMembers
<1> QED
  BY <1>1, <1>2, <1>4, <1>5 DEF Fifo!Hit, Queue

(* A fill pushes the line to the queue of its set, and drops the oldest of  *)
(* a full one, which is the one whose turn it is.                           *)
LEMMA FillRefines ==
    ASSUME TypeOK, OneCopy, NEW c \in Cache, NEW a \in Addr, ReadMiss(c, a)
    PROVE  Fifo!Fill(c, a)
<1> DEFINE t == SetOf(a)
           fill == next[c][t]
           other == Turn(c, t)
           x == LineOf(a)
           old == Fresh(c)
           row == [old[fill] EXCEPT ![t] = x]
<1>1. t \in Set /\ x \in Nat /\ x # Invalid
  BY AddressFacts
<1>2. fill \in Way(c) /\ other \in Way(c) /\ (other = fill <=> Ways[c] = 1)
  BY <1>1, TurnFacts
<1>3. /\ c \in present /\ Cacheable(a) /\ Hits(c, a) = {} /\ present' = present
      /\ read' = <<c, a, 0>> /\ stale' = {}
      /\ m' = [Refreshed EXCEPT ![c][fill][t] = x]
      /\ next' = [next EXCEPT ![c][t] = other]
  BY DEF ReadMiss
<1>4. old \in [Way(c) -> [Set -> Line \cup {Invalid}]]
  BY FreshType
<1>5. \A d \in Cache : Fresh(d)' = m'[d]
  BY <1>3 DEF Fresh
<1>6. /\ m'[c] = [old EXCEPT ![fill] = row]
      /\ \A d \in Cache : d # c => m'[d] = Fresh(d)
  BY <1>2, <1>3, <1>4 DEF Refreshed
<1>14. /\ row \in [Set -> Line \cup {Invalid, x}] /\ row[t] = x
       /\ \A s \in Set : s # t => row[s] = old[fill][s]
  BY <1>1, <1>2, <1>4
<1>15. m'[c][fill] = row /\ \A w \in Way(c) : w # fill => m'[c][w] = old[w]
  BY <1>2, <1>4, <1>6
<1> HIDE DEF row
<1>7. /\ next'[c] = [next[c] EXCEPT ![t] = other]
      /\ \A d \in Cache : d # c => next'[d] = next[d]
  BY <1>3 DEF TypeOK
<1>8. next[c] \in [Set -> Way(c)]
  BY DEF TypeOK
<1>9. \A d \in Cache, s \in Set : <<d, s>> # <<c, t>> => QueueOf(d, s)' = QueueOf(d, s)
  <2> SUFFICES ASSUME NEW d \in Cache, NEW s \in Set, d # c \/ s # t
               PROVE  QueueOf(d, s)' = QueueOf(d, s)
    OBVIOUS
  <2>1. next'[d][s] = next[d][s]
    BY <1>1, <1>7, <1>8
  <2>2. Turn(d, s)' = Turn(d, s)
    BY <2>1 DEF Turn
  <2>3. \A w \in Way(d) : Fresh(d)'[w][s] = Fresh(d)[w][s]
    <3>1. CASE d # c
      BY <1>5, <1>6, <3>1
    <3>2. CASE d = c /\ s # t
      <4>1. \A w \in Way(c) : m'[c][w][s] = old[w][s]
        BY <1>14, <1>15, <3>2
      <4> QED
        BY <1>5, <3>2, <4>1
    <3> QED
      BY <3>1, <3>2
  <2>4. next[d][s] \in Way(d) /\ Turn(d, s) \in Way(d)
    BY TurnFacts
  <2> QED
    BY <2>1, <2>2, <2>3, <2>4 DEF QueueOf
<1>10. QueueOf(c, t)' = Fifo!Push(c, Queue[c][t], x)
  <2> DEFINE older == old[fill][t]
             newer == old[other][t]
  <2>1. older \in Int /\ newer \in Int
    <3>1. Line \cup {Invalid} \subseteq Int
      BY AddressFacts DEF Line, Invalid
    <3> QED
      BY <1>1, <1>2, <1>4, <3>1
  <2>2. Queue[c][t] = Ordered(c, older, newer)
    BY <1>1, QueueParts
  <2>3. Ways[c] = 2 /\ newer = Invalid => older = Invalid
    BY <1>1, NewerFirst
  <2>4. Fifo!Push(c, Queue[c][t], x) = Ordered(c, IF Ways[c] = 1 THEN x ELSE newer, x)
    BY <1>1, <1>2, <2>1, <2>2, <2>3, PushFacts
  <2>5. next'[c][t] = other
    BY <1>1, <1>7, <1>8
  <2>6. Turn(c, t)' = fill
    BY <1>2, <2>5, WayFacts DEF Turn
  <2>7. Fresh(c)'[fill][t] = x /\ (other # fill => Fresh(c)'[other][t] = newer)
    BY <1>2, <1>5, <1>14, <1>15
  <2>8. Fresh(c)'[other][t] = IF Ways[c] = 1 THEN x ELSE newer
    BY <1>2, <2>7
  <2>9. QueueOf(c, t)' = Ordered(c, Fresh(c)'[other][t], Fresh(c)'[fill][t])
    BY <2>5, <2>6 DEF QueueOf, Ordered
  <2> QED
    BY <2>4, <2>7, <2>8, <2>9
<1>11. Queue' = [Queue EXCEPT ![c][t] = Fifo!Push(c, @, x)]
  <2>1. \A d \in Cache, s \in Set :
          Queue'[d][s] = IF d = c /\ s = t THEN Fifo!Push(c, Queue[c][t], x) ELSE Queue[d][s]
    BY <1>9, <1>10 DEF Queue
  <2> DEFINE new == Fifo!Push(c, Queue[c][t], x)
             set == [Queue[c] EXCEPT ![t] = new]
  <2> HIDE DEF new
  <2>2. /\ Queue = [d \in Cache |-> [s \in Set |-> Queue[d][s]]]
        /\ Queue' = [d \in Cache |-> [s \in Set |-> Queue'[d][s]]]
    BY DEF Queue
  <2>3. Queue'[c] = set
    <3>1. set = [s \in Set |-> IF s = t THEN new ELSE Queue[c][s]]
      BY <1>1, <2>2
    <3>2. Queue'[c] = [s \in Set |-> Queue'[c][s]]
      BY <2>2
    <3> QED
      BY <2>1, <3>1, <3>2 DEF new
  <2>4. \A d \in Cache : d # c => Queue'[d] = Queue[d]
    BY <2>1, <2>2
  <2>5. Queue' = [Queue EXCEPT ![c] = set]
    BY <2>2, <2>3, <2>4
  <2> QED
    BY <2>5 DEF new
<1>12. <<read[1], read[2], read[3] # 0>>' = <<c, a, FALSE>>
  BY <1>3
<1>13. ~Fifo!Member(Queue[c][t], x)
  BY <1>3, HitsAreMembers
<1> QED
  BY <1>3, <1>11, <1>12, <1>13 DEF Fifo!Fill, Queue

(* Outside reads: an invalidation is one at once, a cache that is new is    *)
(* empty, and one that stays keeps its lines.                               *)
LEMMA InvalidateRefines ==
    ASSUME TypeOK, WriteCacheControl \/ Reset
    PROVE  \E cs \in SUBSET Cache : Fifo!Invalidate(cs)
<1>1. PICK cs \in SUBSET Cache : stale' = stale \cup cs
  BY DEF WriteCacheControl, Reset, TypeOK
<1>2. UNCHANGED <<present, m, next, read>>
  BY DEF WriteCacheControl, Reset
<1>3. ASSUME NEW c \in Cache, c \in cs, NEW s \in Set PROVE QueueOf(c, s)' = <<>>
  <2>1. Fresh(c)' = NoLines(c)
    BY <1>1, <1>3 DEF Fresh, NoLines
  <2>2. Turn(c, s)' \in Way(c)
    BY <1>2, TurnFacts DEF Turn
  <2>3. Fresh(c)'[Turn(c, s)'][s] = Invalid
    BY <2>1, <2>2 DEF NoLines
  <2> QED
    BY <2>3 DEF QueueOf
<1>4. ASSUME NEW c \in Cache, c \notin cs, NEW s \in Set PROVE QueueOf(c, s)' = QueueOf(c, s)
  BY <1>1, <1>2, <1>4 DEF QueueOf, Fresh, Turn
<1>5. Queue' = Fifo!Cleared(cs)
  BY <1>3, <1>4 DEF Queue, Fifo!Cleared, Fifo!Empty
<1>6. Fifo!Invalidate(cs)
  BY <1>2, <1>5 DEF Fifo!Invalidate, Queue
<1> QED
  BY <1>6

(* Deleting a cache and making a new one empties it at once. *)
LEMMA ConfigureRefines ==
    ASSUME TypeOK, SetConfiguration
    PROVE  \E cs \in SUBSET Cache : Fifo!Configure(cs)
<1>1. PICK wanted \in SUBSET Cache :
        /\ present' = wanted
        /\ m' = [c \in Cache |-> IF c \in present \cap wanted THEN m[c] ELSE NoLines(c)]
        /\ next' = [c \in Cache |-> IF c \in present \cap wanted THEN next[c] ELSE [s \in Set |-> 0]]
        /\ UNCHANGED <<stale, read>>
  BY DEF SetConfiguration
<1>2. ASSUME NEW c \in Cache, c \notin present \cap wanted, NEW s \in Set PROVE QueueOf(c, s)' = <<>>
  <2>1. Fresh(c)' = NoLines(c) /\ next'[c][s] = 0
    BY <1>1, <1>2 DEF Fresh, NoLines
  <2>2. Turn(c, s)' \in Way(c)
    BY <2>1, WayFacts DEF Turn
  <2>3. Fresh(c)'[Turn(c, s)'][s] = Invalid
    BY <2>1, <2>2 DEF NoLines
  <2> QED
    BY <2>3 DEF QueueOf
<1>3. ASSUME NEW c \in Cache, c \in present \cap wanted, NEW s \in Set
      PROVE  QueueOf(c, s)' = QueueOf(c, s)
  <2>1. m'[c] = m[c] /\ next'[c] = next[c] /\ stale' = stale
    BY <1>1, <1>3
  <2> QED
    BY <2>1 DEF QueueOf, Fresh, Turn
<1>4. Queue' = Fifo!Cleared(Cache \ (present \cap wanted))
  BY <1>2, <1>3 DEF Queue, Fifo!Cleared, Fifo!Empty
<1>5. Fifo!Configure(wanted)
  BY <1>1, <1>4 DEF Fifo!Configure, Queue
<1> QED
  BY <1>5

(* At power-up every queue is empty. *)
LEMMA FifoInit == ASSUME Init PROVE Fifo!Init
<1>1. \A c \in Cache, s \in Set : QueueOf(c, s) = <<>>
  <2> TAKE c \in Cache, s \in Set
  <2>1. Fresh(c) = NoLines(c) /\ next[c][s] = 0
    BY DEF Init, Fresh
  <2>2. Turn(c, s) \in Way(c)
    BY <2>1, WayFacts DEF Turn
  <2>3. Fresh(c)[Turn(c, s)][s] = Invalid
    BY <2>1, <2>2 DEF NoLines
  <2> QED
    BY <2>3 DEF QueueOf
<1>2. Queue = [c \in Cache |-> Fifo!Empty]
  BY <1>1 DEF Queue, Fifo!Empty
<1>3. <<read[1], read[2], read[3] # 0>> = <<"I", 0, FALSE>>
  BY DEF Init
<1> QED
  BY <1>2, <1>3 DEF Init, Fifo!Init, Queue, Cache

(* Every step of the caches is one of the abstract caches, or a stutter. *)
LEMMA FifoStep == TypeOK /\ OneCopy /\ [Next]_vars => [Fifo!Next]_Fifo!vars
<1> SUFFICES ASSUME TypeOK, OneCopy, [Next]_vars PROVE Fifo!Next \/ UNCHANGED Fifo!vars
  OBVIOUS
<1>1. CASE Read
  BY <1>1, UncachedRefines, HitRefines, FillRefines DEF Read, Fifo!Next
<1>2. CASE WriteCacheControl \/ Reset
  BY <1>2, InvalidateRefines DEF Fifo!Next
<1>3. CASE SetConfiguration
  BY <1>3, ConfigureRefines DEF Fifo!Next
<1>4. CASE UNCHANGED vars
  <2>1. Queue' = Queue
    BY <1>4 DEF vars, Queue, QueueOf, Fresh, Turn
  <2> QED
    BY <1>4, <2>1 DEF vars, Fifo!vars, Queue
<1> QED
  BY <1>1, <1>2, <1>3, <1>4 DEF Next

(* The two-way and direct-mapped caches of lm32_cache.cpp, whose            *)
(* invalidations wait for the next read and whose turns outlive them, are   *)
(* first-in first-out caches that are emptied at once, in every geometry.   *)
THEOREM CachesAreFifo == Spec => FifoSpec
<1>1. Init => TypeOK /\ OneCopy
  BY CacheInitType, OneCopyInit
<1>2. TypeOK /\ OneCopy /\ [Next]_vars => (TypeOK /\ OneCopy)'
  BY CacheNextType, OneCopyNext
<1> QED
  BY <1>1, <1>2, FifoInit, FifoStep, PTL DEF Spec, FifoSpec, Fifo!Spec
=============================================================================

---------------------- MODULE LM32Instructions_proofs ----------------------
(***************************************************************************)
(* Theorems about LM32Instructions, for words of any width, any registers, *)
(* wait states and options.                                                *)
(***************************************************************************)
EXTENDS LM32Instructions, FiniteSetTheorems, WellFoundedInduction, TLAPS

-----------------------------------------------------------------------------
(* Numbers: induction, and the powers of two *)

(* A set of numbers has a least one. *)
LEMMA NatMin ==
    ASSUME NEW T, T \subseteq Nat, T # {}
    PROVE  \E x \in T : \A y \in T : x <= y
<1> DEFINE R == {ss \in Nat \X Nat : ss[1] < ss[2]}
<1>1. IsWellFoundedOn(R, Nat)
  BY NatLessThanWellFounded DEF OpToRel
<1>2. PICK x \in T : \A y \in T : <<y, x>> \notin R
  BY <1>1, WFMin
<1>3. ASSUME NEW y \in T, y < x PROVE FALSE
  <2>1. <<y, x>> \in Nat \X Nat /\ <<y, x>>[1] < <<y, x>>[2]
    BY <1>3
  <2> QED
    BY <1>2, <2>1
<1> QED
  BY <1>2, <1>3

(* Induction over data, with a set in place of a predicate. *)
LEMMA Induction ==
    ASSUME NEW n \in Nat, NEW S, 0 \in S, \A i \in 0 .. n - 1 : i \in S => i + 1 \in S
    PROVE  \A i \in 0 .. n : i \in S
<1> DEFINE T == {i \in 0 .. n : i \notin S}
<1> SUFFICES ASSUME T # {} PROVE FALSE
  OBVIOUS
<1>0. T \subseteq Nat
  OBVIOUS
<1>1. PICK x \in T : \A y \in T : x <= y
  BY <1>0, NatMin
<1>2. x - 1 \in 0 .. n - 1
  BY <1>1
<1>3. x - 1 \in S
  BY <1>1, <1>2
<1> QED
  BY <1>1, <1>2, <1>3

(* A set of n elements has 2^n subsets, which is all that is known of 2^n. *)
LEMMA Power == 2^0 = 1 /\ \A n \in Nat : 2^n \in Nat \ {0} /\ 2^(n + 1) = 2^n + 2^n
<1>1. ASSUME NEW n \in Nat
      PROVE  LET S == SUBSET (1 .. n) IN IsFiniteSet(S) /\ Cardinality(S) = 2^n /\ Cardinality(S) \in Nat
  <2> DEFINE I == 1 .. n
  <2>1. IsFiniteSet(I) /\ Cardinality(I) = n
    BY FS_Interval
  <2> HIDE DEF I
  <2>2. IsFiniteSet(SUBSET I) /\ Cardinality(SUBSET I) = 2^n
    BY <2>1, FS_SUBSET
  <2> QED
    BY <2>2, FS_CardinalityType DEF I
<1>2. 2^0 = 1
  <2>1. SUBSET (1 .. 0) = {{}}
    OBVIOUS
  <2> QED
    BY <1>1, <2>1, FS_Singleton
<1>3. ASSUME NEW n \in Nat PROVE 2^(n + 1) = 2^n + 2^n
  <2> DEFINE A == SUBSET (1 .. n)
             B == {S \cup {n + 1} : S \in A}
             f == [S \in A |-> S \cup {n + 1}]
  <2>1. IsFiniteSet(A) /\ Cardinality(A) = 2^n
    BY <1>1
  <2>2. f \in Bijection(A, B)
    <3>1. f \in Surjection(A, B)
      BY DEF Surjection
    <3>2. f \in Injection(A, B)
      <4>1. \A S \in A : n + 1 \notin S
        OBVIOUS
      <4>2. \A S, Q \in A : S \cup {n + 1} = Q \cup {n + 1} => S = Q
        BY <4>1
      <4>3. f \in [A -> B] /\ \A S \in A : f[S] = S \cup {n + 1}
        OBVIOUS
      <4> HIDE DEF A, B, f
      <4> QED
        BY <4>2, <4>3 DEF Injection, IsInjective
    <3> QED
      BY <3>1, <3>2 DEF Bijection
  <2>3. IsFiniteSet(B) /\ Cardinality(B) = 2^n
    BY <2>1, <2>2, FS_Bijection DEF ExistsBijection
  <2>4. A \cap B = {}
    OBVIOUS
  <2>5. A \cup B = SUBSET (1 .. n + 1)
    <3>1. 1 .. n + 1 = (1 .. n) \cup {n + 1} /\ n + 1 \notin 1 .. n
      OBVIOUS
    <3>2. ASSUME NEW S \in SUBSET (1 .. n + 1), n + 1 \in S PROVE S \in B
      <4>1. S \ {n + 1} \in A /\ S = (S \ {n + 1}) \cup {n + 1}
        BY <3>1, <3>2
      <4> QED
        BY <4>1
    <3>3. ASSUME NEW S \in SUBSET (1 .. n + 1), n + 1 \notin S PROVE S \in A
      BY <3>1, <3>3
    <3>4. \A S \in A : S \in SUBSET (1 .. n + 1)
      BY <3>1
    <3>5. \A S \in B : S \in SUBSET (1 .. n + 1)
      BY <3>1
    <3> HIDE DEF A, B
    <3> QED
      BY <3>2, <3>3, <3>4, <3>5
  <2> HIDE DEF A, B
  <2>6. Cardinality(A \cup B) = 2^n + 2^n
    <3>1. Cardinality(A \cap B) = 0
      BY <2>4, FS_EmptySet
    <3>2. Cardinality(A \cup B) = Cardinality(A) + Cardinality(B) - Cardinality(A \cap B)
      BY <2>1, <2>3, FS_Union
    <3>3. 2^n \in Nat
      BY <1>1
    <3> QED
      BY <2>1, <2>3, <3>1, <3>2, <3>3
  <2>7. n + 1 \in Nat
    OBVIOUS
  <2>8. Cardinality(SUBSET (1 .. n + 1)) = 2^(n + 1)
    BY <1>1, <2>7
  <2> QED
    BY <2>5, <2>6, <2>8
<1>4. ASSUME NEW n \in Nat PROVE 2^n \in Nat \ {0}
  <2>1. {} \in SUBSET (1 .. n)
    OBVIOUS
  <2> QED
    BY <1>1, <2>1, FS_EmptySet
<1> QED
  BY <1>2, <1>3, <1>4

-----------------------------------------------------------------------------
(* Division, and the powers of two again *)

(* The quotient and the remainder. *)
LEMMA DivMod ==
    ASSUME NEW a \in Int, NEW k \in Nat \ {0}
    PROVE  /\ a \div k \in Int /\ (a % k) \in 0 .. k - 1
           /\ a = (a \div k) * k + (a % k)
           /\ a \in Nat => a \div k \in 0 .. a
OBVIOUS

(* Multiples of one number are ordered as their factors. *)
LEMMA MulOrder ==
    ASSUME NEW p \in Int, NEW q \in Int, p < q, NEW k \in Nat \ {0}
    PROVE  p * k + k <= q * k
<1>1. (q - p) * k >= k
  OBVIOUS
<1> QED
  BY <1>1

(* There is one quotient and one remainder. *)
LEMMA DivUnique ==
    ASSUME NEW k \in Nat \ {0}, NEW q \in Int, NEW z \in 0 .. k - 1
    PROVE  (q * k + z) \div k = q /\ ((q * k + z) % k) = z
<1> DEFINE a == q * k + z
           p == a \div k
           y == (a % k)
<1>1. a \in Int /\ p \in Int /\ y \in 0 .. k - 1 /\ a = p * k + y
  BY DivMod
<1>2. ~(p < q)
  <2>1. ASSUME p < q PROVE FALSE
    <3>1. p * k + k <= q * k
      BY <1>1, <2>1, MulOrder
    <3> QED
      BY <1>1, <3>1
  <2> QED
    BY <2>1
<1>3. ~(q < p)
  <2>1. ASSUME q < p PROVE FALSE
    <3>1. q * k + k <= p * k
      BY <1>1, <2>1, MulOrder
    <3> QED
      BY <1>1, <3>1
  <2> QED
    BY <2>1
<1> HIDE DEF p
<1>4. p = q
  BY <1>1, <1>2, <1>3
<1> QED
  BY <1>1, <1>4 DEF p

(* The powers of two multiply as their exponents add. *)
LEMMA PowerSum == \A a, b \in Nat : 2^(a + b) = 2^a * 2^b
<1> SUFFICES ASSUME NEW a \in Nat, NEW n \in Nat PROVE 2^(a + n) = 2^a * 2^n
  OBVIOUS
<1> DEFINE S == {b \in Nat : 2^(a + b) = 2^a * 2^b}
<1>1. 0 \in S
  <2>1. a + 0 = a /\ 2^0 = 1 /\ 2^a \in Nat
    BY Power
  <2> QED
    BY <2>1
<1>2. ASSUME NEW b \in 0 .. n - 1, b \in S PROVE b + 1 \in S
  <2>1. a + b \in Nat /\ b \in Nat /\ a + (b + 1) = (a + b) + 1
    OBVIOUS
  <2>2. 2^(a + (b + 1)) = 2^(a + b) + 2^(a + b) /\ 2^(b + 1) = 2^b + 2^b /\ 2^(a + b) = 2^a * 2^b
        /\ 2^a \in Nat /\ 2^b \in Nat
    BY <1>2, <2>1, Power
  <2> DEFINE p == 2^a
             q == 2^b
  <2> HIDE DEF p, q
  <2>3. p \in Nat /\ q \in Nat => p * (q + q) = p * q + p * q
    OBVIOUS
  <2>4. 2^(a + (b + 1)) = 2^a * 2^(b + 1)
    BY <2>2, <2>3 DEF p, q
  <2> QED
    BY <2>1, <2>4
<1> HIDE DEF S
<1>3. n \in S
  BY <1>1, <1>2, Induction
<1> QED
  BY <1>3 DEF S

(* They grow; the quotient of two of them is one again, and even.           *)
LEMMA PowerOrder ==
    ASSUME NEW a \in Nat, NEW b \in Nat, a < b
    PROVE  2^a < 2^b /\ 2^b = 2^(b - a) * 2^a /\ 2^(b - a) = 2 * 2^(b - a - 1)
           /\ b - a \in Nat /\ b - a - 1 \in Nat
<1>1. b - a - 1 \in Nat /\ (b - a - 1) + 1 = b - a /\ b - a \in Nat /\ (b - a) + a = b
  OBVIOUS
<1>2. 2^(b - a) = 2^(b - a - 1) + 2^(b - a - 1) /\ 2^(b - a - 1) \in Nat \ {0} /\ 2^a \in Nat \ {0}
  BY <1>1, Power
<1>3. 2^b = 2^(b - a) * 2^a
  BY <1>1, PowerSum
<1> DEFINE p == 2^(b - a - 1)
           q == 2^(b - a)
           k == 2^a
           l == 2^b
<1>4. q = p + p /\ p \in Nat \ {0} /\ k \in Nat \ {0} /\ l = q * k
  BY <1>2, <1>3
<1> HIDE DEF p, q, k, l
<1>5. 1 < q /\ q \in Int
  BY <1>4
<1>6. 1 * k + k <= q * k
  BY <1>4, <1>5, MulOrder
<1>7. k < l /\ q = 2 * p
  BY <1>4, <1>6
<1> QED
  BY <1>1, <1>3, <1>7 DEF p, q, k, l

(* Adding a multiple of the divisor adds to the quotient. *)
LEMMA DivAdd ==
    ASSUME NEW a \in Int, NEW c \in Int, NEW k \in Nat \ {0}
    PROVE  (a + c * k) \div k = (a \div k) + c /\ ((a + c * k) % k) = (a % k)
<1> DEFINE q == a \div k
           z == (a % k)
<1>1. q \in Int /\ z \in 0 .. k - 1 /\ a = q * k + z
  BY DivMod
<1> HIDE DEF q, z
<1>2. a + c * k = (q + c) * k + z /\ q + c \in Int
  BY <1>1
<1>3. ((q + c) * k + z) \div k = q + c /\ (((q + c) * k + z) % k) = z
  BY <1>1, <1>2, DivUnique
<1> QED
  BY <1>2, <1>3 DEF q, z

(* Dividing twice is dividing by the product. *)
LEMMA DivDiv ==
    ASSUME NEW a \in Int, NEW k \in Nat \ {0}, NEW l \in Nat \ {0}
    PROVE  a \div (l * k) = (a \div k) \div l
<1> DEFINE q == a \div k
           z == (a % k)
           p == q \div l
           s == (q % l)
<1>1. q \in Int /\ z \in 0 .. k - 1 /\ a = q * k + z
  BY DivMod
<1> HIDE DEF q, z
<1>2. p \in Int /\ s \in 0 .. l - 1 /\ q = p * l + s
  BY <1>1, DivMod
<1> HIDE DEF p, s
<1>3. a = p * (l * k) + (s * k + z)
  BY <1>1, <1>2
<1>4. s * k + z \in 0 .. l * k - 1 /\ l * k \in Nat \ {0}
  <2>1. s * k + k <= l * k
    BY <1>2, MulOrder
  <2>2. s * k \in Nat /\ l * k \in Nat
    BY <1>2
  <2> DEFINE u == s * k
             v == l * k
  <2> HIDE DEF u, v
  <2>3. u + k <= v /\ u \in Nat /\ v \in Nat
    BY <2>1, <2>2 DEF u, v
  <2>4. u + z \in 0 .. v - 1 /\ v \in Nat \ {0}
    BY <1>1, <2>3
  <2> QED
    BY <2>4 DEF u, v
<1>5. a \div (l * k) = p
  BY <1>2, <1>3, <1>4, DivUnique
<1> QED
  BY <1>5 DEF p, q

(* A multiple leaves no remainder. *)
LEMMA MultipleMod ==
    ASSUME NEW c \in Int, NEW k \in Nat \ {0}
    PROVE  ((c * k) % k) = 0
<1>1. 0 \in 0 .. k - 1 /\ c * k + 0 = c * k
  OBVIOUS
<1> QED
  BY <1>1, DivUnique

(* The range of words and its halves. *)
LEMMA Widths ==
    /\ WordBits \in Nat \ {0} /\ HalfBits \in Nat \ {0} /\ ByteBits \in Nat \ {0}
    /\ ByteBits < HalfBits /\ HalfBits < WordBits
    /\ WordBits - 1 \in Nat
    /\ 2^WordBits \in Nat /\ 2^(WordBits - 1) \in Nat \ {0}
    /\ 2^WordBits = 2 * 2^(WordBits - 1)
<1>1. /\ WordBits \in Nat \ {0} /\ HalfBits \in Nat \ {0} /\ ByteBits \in Nat \ {0}
      /\ ByteBits < HalfBits /\ HalfBits < WordBits
  BY WordAssumption
<1>2. WordBits - 1 \in Nat /\ (WordBits - 1) + 1 = WordBits
  BY <1>1
<1>3. 2^WordBits = 2^(WordBits - 1) + 2^(WordBits - 1) /\ 2^(WordBits - 1) \in Nat \ {0} /\ 2^WordBits \in Nat
  BY <1>1, <1>2, Power
<1> QED
  BY <1>1, <1>2, <1>3

(* What is cut to the width of a word differs by a multiple of its range.   *)
LEMMA WrapFacts ==
    ASSUME NEW i \in Int
    PROVE  Wrap(i) \in Word /\ \E c \in Int : Wrap(i) = i + c * 2^WordBits
<1> DEFINE N == 2^WordBits
<1>1. N \in Nat \ {0}
  BY Widths, Power
<1>2. (i % N) \in 0 .. N - 1 /\ i \div N \in Int /\ i = (i \div N) * N + (i % N)
  BY <1>1, DivMod
<1> DEFINE q == i \div N
           z == (i % N)
<1>3. z \in 0 .. N - 1 /\ q \in Int /\ i = q * N + z
  BY <1>2
<1> HIDE DEF q, z, N
<1>4. -q \in Int /\ z = i + (-q) * N
  BY <1>1, <1>3
<1>5. \E c \in Int : z = i + c * N
  BY <1>4
<1> QED
  BY <1>3, <1>5 DEF Wrap, Word, z, N

(* The number a word stands for. *)
LEMMA SignedFacts ==
    ASSUME NEW x \in Word
    PROVE  /\ x \in Nat /\ x < 2^WordBits /\ Signed(x) \in Int
           /\ -(2^(WordBits - 1)) <= Signed(x) /\ Signed(x) < 2^(WordBits - 1)
           /\ Signed(x) < 0 => Signed(x) = x - 2^WordBits /\ x >= 2^(WordBits - 1)
           /\ Signed(x) >= 0 => Signed(x) = x /\ x < 2^(WordBits - 1)
           /\ \E c \in Int : Signed(x) = x + c * 2^WordBits
<1> DEFINE N == 2^WordBits
           H == 2^(WordBits - 1)
<1>1. N \in Nat /\ H \in Nat \ {0} /\ N = 2 * H
  BY Widths
<1>2. x \in 0 .. N - 1 /\ Signed(x) = IF x >= H THEN x - N ELSE x
  BY DEF Word, Signed
<1> HIDE DEF N, H
<1>3. /\ x \in Nat /\ x < N /\ Signed(x) \in Int /\ -H <= Signed(x) /\ Signed(x) < H
      /\ Signed(x) < 0 => Signed(x) = x - N /\ x >= H
      /\ Signed(x) >= 0 => Signed(x) = x /\ x < H
  BY <1>1, <1>2
<1>4. Signed(x) = x + 0 * N \/ Signed(x) = x + (-1) * N
  BY <1>1, <1>2
<1>5. \E c \in Int : Signed(x) = x + c * N
  BY <1>4
<1> QED
  BY <1>3, <1>5 DEF N, H

(* A number that fits is what its word stands for.                          *)
LEMMA SignedWrap ==
    ASSUME NEW i \in Int, -(2^(WordBits - 1)) <= i, i < 2^(WordBits - 1)
    PROVE  Signed(Wrap(i)) = i
<1> DEFINE N == 2^WordBits
           H == 2^(WordBits - 1)
<1>1. N \in Nat /\ H \in Nat \ {0} /\ N = 2 * H /\ -H <= i /\ i < H
  BY Widths
<1>2. PICK c \in Int : Wrap(i) = i + c * N
  BY WrapFacts
<1>3. Wrap(i) \in 0 .. N - 1
  BY WrapFacts DEF Word
<1>4. Signed(Wrap(i)) = IF Wrap(i) >= H THEN Wrap(i) - N ELSE Wrap(i)
  BY DEF Signed
<1> DEFINE w == Wrap(i)
<1> HIDE DEF N, H, w
<1>5. c \in {0, 1}
  <2>1. ASSUME c < 0 PROVE FALSE
    <3>1. c * N + N <= 0 * N
      BY <1>1, <2>1, MulOrder
    <3> QED
      BY <1>1, <1>2, <1>3, <3>1
  <2>2. ASSUME 1 < c PROVE FALSE
    <3>1. 1 * N + N <= c * N
      BY <1>1, <2>2, MulOrder
    <3> QED
      BY <1>1, <1>2, <1>3, <3>1
  <2> QED
    BY <2>1, <2>2
<1>6. CASE c = 0
  BY <1>1, <1>2, <1>4, <1>6
<1>7. CASE c = 1
  BY <1>1, <1>2, <1>4, <1>7
<1> QED
  BY <1>5, <1>6, <1>7

-----------------------------------------------------------------------------
(* Bits *)

(* The bits below position m are not those of a multiple of 2^m. *)
LEMMA BitsBelow ==
    ASSUME NEW a \in Int, NEW c \in Int, NEW m \in Nat, NEW i \in 0 .. m - 1
    PROVE  Bit(a + c * 2^m, i) <=> Bit(a, i)
<1>1. i \in Nat /\ i < m
  OBVIOUS
<1>2. 2^m = 2^(m - i) * 2^i /\ 2^(m - i) = 2 * 2^(m - i - 1) /\ m - i - 1 \in Nat
  BY <1>1, PowerOrder
<1>3. 2^i \in Nat \ {0} /\ 2^(m - i - 1) \in Nat
  BY <1>1, <1>2, Power
<1> DEFINE k == 2^i
           p == 2^(m - i - 1)
           l == 2^m
           q == a \div k
<1>4. l = (2 * p) * k /\ k \in Nat \ {0} /\ p \in Nat
  BY <1>2, <1>3
<1> HIDE DEF k, p, l
<1>5. c * l = (c * (2 * p)) * k
  BY <1>4
<1>6. c * (2 * p) \in Int /\ c * p \in Int /\ c * (2 * p) = (c * p) * 2
  BY <1>4
<1>7. (a + c * l) \div k = q + (c * p) * 2
  <2> DEFINE u == c * (2 * p)
  <2>1. u \in Int /\ k \in Nat \ {0}
    BY <1>4, <1>6
  <2> HIDE DEF u
  <2>2. (a + u * k) \div k = (a \div k) + u
    BY <2>1, DivAdd
  <2> QED
    BY <1>5, <1>6, <2>2 DEF u
<1>8. q \in Int
  BY <1>4, DivMod
<1> HIDE DEF q
<1>9. ((q + (c * p) * 2) % 2) = (q % 2)
  <2> DEFINE u == c * p
  <2>1. u \in Int
    BY <1>6
  <2> HIDE DEF u
  <2>2. ((q + u * 2) % 2) = (q % 2)
    BY <1>8, <2>1, DivAdd
  <2> QED
    BY <2>2 DEF u
<1> QED
  BY <1>7, <1>9 DEF Bit, l, k, q

(* From position m on they are those of the factor. *)
LEMMA BitsAbove ==
    ASSUME NEW m \in Nat, NEW a \in 0 .. 2^m - 1, NEW c \in Int, NEW j \in Nat
    PROVE  Bit(a + c * 2^m, m + j) <=> Bit(c, j)
<1>1. 2^(m + j) = 2^j * 2^m
  BY PowerSum
<1>2. 2^m \in Nat \ {0} /\ 2^j \in Nat \ {0}
  BY Power
<1> DEFINE k == 2^m
           l == 2^j
           t == a + c * 2^m
<1>3. a \in 0 .. k - 1 /\ a \in Int /\ k \in Nat \ {0} /\ l \in Nat \ {0}
  BY <1>2
<1>4. t = c * k + a
  BY <1>3
<1> HIDE DEF k, l
<1>5. (c * k + a) \div k = c
  BY <1>3, DivUnique
<1>6. t \in Int /\ t \div k = c
  BY <1>3, <1>4, <1>5
<1> HIDE DEF t
<1>7. t \div (l * k) = c \div l
  BY <1>3, <1>6, DivDiv
<1> QED
  BY <1>1, <1>7 DEF Bit, k, l, t

(* The bits of 0 and of 1. *)
LEMMA FewBits == (\A j \in Nat : ~Bit(0, j)) /\ Bit(1, 0)
<1>1. ASSUME NEW j \in Nat PROVE ~Bit(0, j)
  <2> DEFINE k == 2^j
  <2>1. k \in Nat \ {0}
    BY Power
  <2> HIDE DEF k
  <2>2. 0 \in 0 .. k - 1 /\ 0 \in Int /\ 0 * k + 0 = 0
    BY <2>1
  <2>3. (0 * k + 0) \div k = 0
    BY <2>1, <2>2, DivUnique
  <2>4. 0 \div k = 0
    BY <2>2, <2>3
  <2> DEFINE q == 0 \div k
  <2>5. Bit(0, j) <=> (q % 2) = 1
    BY DEF Bit, k
  <2>6. q = 0
    BY <2>4
  <2> HIDE DEF q
  <2> QED
    BY <2>5, <2>6
<1>2. Bit(1, 0)
  BY Power DEF Bit
<1> QED
  BY <1>1, <1>2

(* Every set of positions is that of the bits of a number. *)
LEMMA BitsExist ==
    ASSUME NEW n \in Nat, NEW T, T \subseteq 0 .. n - 1
    PROVE  \E w \in 0 .. 2^n - 1 : \A i \in 0 .. n - 1 : Bit(w, i) <=> i \in T
<1> DEFINE Has(m, A) == \E w \in 0 .. 2^m - 1 : \A i \in 0 .. m - 1 : Bit(w, i) <=> i \in A
           S == {m \in Nat : \A A \in SUBSET (0 .. m - 1) : Has(m, A)}
<1>1. 0 \in S
  <2>1. 0 \in 0 .. 2^0 - 1
    BY Power
  <2> QED
    BY <2>1
<1>2. ASSUME NEW m \in 0 .. n - 1, m \in S PROVE m + 1 \in S
  <2>0. m \in Nat /\ m + 1 \in Nat
    OBVIOUS
  <2>1. 2^m \in Nat \ {0} /\ 2^(m + 1) = 2^m + 2^m
    BY <2>0, Power
  <2> SUFFICES ASSUME NEW A \in SUBSET (0 .. m + 1 - 1) PROVE Has(m + 1, A)
    BY <2>0
  <2>2. A \ {m} \in SUBSET (0 .. m - 1)
    BY <2>0
  <2>3. Has(m, A \ {m})
    BY <1>2, <2>2
  <2>4. PICK a \in 0 .. 2^m - 1 : \A i \in 0 .. m - 1 : Bit(a, i) <=> i \in A \ {m}
    BY <2>3
  <2> DEFINE c == IF m \in A THEN 1 ELSE 0
             k == 2^m
             w == a + c * k
  <2>5. w \in 0 .. 2^(m + 1) - 1
    <3>1. k \in Nat \ {0} /\ 2^(m + 1) = k + k /\ a \in 0 .. k - 1
      BY <2>1
    <3> HIDE DEF k
    <3> QED
      BY <3>1
  <2>6. a \in Int /\ c \in Int
    BY <2>1
  <2>7. ASSUME NEW i \in 0 .. m - 1 PROVE Bit(w, i) <=> i \in A
    BY <2>0, <2>4, <2>6, BitsBelow
  <2>8. Bit(w, m) <=> m \in A
    <3>1. Bit(w, m + 0) <=> Bit(c, 0)
      BY <2>0, <2>6, BitsAbove
    <3>2. m + 0 = m /\ (Bit(c, 0) <=> m \in A)
      BY <2>0, FewBits
    <3> QED
      BY <3>1, <3>2
  <2>9. \A i \in 0 .. m + 1 - 1 : i \in 0 .. m - 1 \/ i = m
    BY <2>0
  <2> HIDE DEF w
  <2> QED
    BY <2>5, <2>7, <2>8, <2>9
<1> HIDE DEF S
<1>3. n \in S
  BY <1>1, <1>2, Induction
<1> QED
  BY <1>3 DEF S

(* A number is known by its bits. *)
LEMMA BitsUnique ==
    ASSUME NEW n \in Nat, NEW x \in 0 .. 2^n - 1, NEW y \in 0 .. 2^n - 1,
           \A i \in 0 .. n - 1 : Bit(x, i) <=> Bit(y, i)
    PROVE  x = y
<1> DEFINE Only(m) == \A u, v \in 0 .. 2^m - 1 : (\A i \in 0 .. m - 1 : Bit(u, i) <=> Bit(v, i)) => u = v
           S == {m \in Nat : Only(m)}
<1>1. 0 \in S
  BY Power
<1>2. ASSUME NEW m \in 0 .. n - 1, m \in S PROVE m + 1 \in S
  <2>0. m \in Nat /\ m + 1 \in Nat
    OBVIOUS
  <2> DEFINE k == 2^m
  <2>1. k \in Nat \ {0} /\ 2^(m + 1) = k + k
    BY <2>0, Power
  <2> SUFFICES ASSUME NEW u \in 0 .. 2^(m + 1) - 1, NEW v \in 0 .. 2^(m + 1) - 1,
                      \A i \in 0 .. m + 1 - 1 : Bit(u, i) <=> Bit(v, i)
               PROVE  u = v
    BY <2>0
  <2>2. ASSUME NEW t \in 0 .. 2^(m + 1) - 1
        PROVE  /\ (t % k) \in 0 .. k - 1 /\ t \div k \in {0, 1}
               /\ t = (t % k) + (t \div k) * k
               /\ (Bit(t, m) <=> t \div k = 1)
               /\ \A i \in 0 .. m - 1 : Bit(t, i) <=> Bit((t % k), i)
    <3> DEFINE q == t \div k
               z == (t % k)
    <3>1. t \in Int /\ t >= 0 /\ t < k + k
      BY <2>1
    <3>2. q \in Int /\ z \in 0 .. k - 1 /\ t = q * k + z
      BY <2>1, <3>1, DivMod
    <3>3. q * k \in Int /\ q * k <= t /\ t < q * k + k
      <4> HIDE DEF k, q, z
      <4> QED
        BY <2>1, <3>1, <3>2
    <3>4. ~(q < 0)
      <4>1. ASSUME q < 0 PROVE FALSE
        <5>1. q * k + k <= 0 * k
          BY <2>1, <3>2, <4>1, MulOrder
        <5> HIDE DEF k, q
        <5> QED
          BY <2>1, <3>1, <3>3, <5>1
      <4> QED
        BY <4>1
    <3>5. ~(1 < q)
      <4>1. ASSUME 1 < q PROVE FALSE
        <5>1. 1 * k + k <= q * k
          BY <2>1, <3>2, <4>1, MulOrder
        <5> HIDE DEF k, q
        <5> QED
          BY <2>1, <3>1, <3>3, <5>1
      <4> QED
        BY <4>1
    <3>6. q \in {0, 1} /\ z \in Int /\ t = z + q * k
      <4> HIDE DEF k, q, z
      <4> QED
        BY <2>1, <3>2, <3>4, <3>5
    <3>7. Bit(t, m) <=> q = 1
      <4>1. Bit(t, m) <=> (q % 2) = 1
        BY DEF Bit
      <4> HIDE DEF q
      <4> QED
        BY <3>6, <4>1
    <3>8. ASSUME NEW i \in 0 .. m - 1 PROVE Bit(t, i) <=> Bit(z, i)
      <4>1. Bit(z + q * 2^m, i) <=> Bit(z, i)
        BY <2>0, <3>2, <3>6, BitsBelow
      <4> QED
        BY <3>6, <4>1
    <3> QED
      BY <3>2, <3>6, <3>7, <3>8
  <2>3. \A i \in 0 .. m - 1 : i \in 0 .. m + 1 - 1
    BY <2>0
  <2>4. m \in 0 .. m + 1 - 1
    BY <2>0
  <2>5. (u % k) = (v % k)
    <3>1. \A i \in 0 .. m - 1 : Bit((u % k), i) <=> Bit((v % k), i)
      BY <2>2, <2>3
    <3>2. (u % k) \in 0 .. k - 1 /\ (v % k) \in 0 .. k - 1
      BY <2>2
    <3>3. Only(m)
      BY <1>2
    <3> QED
      BY <3>1, <3>2, <3>3
  <2>6. u \div k = v \div k
    <3>1. Bit(u, m) <=> Bit(v, m)
      BY <2>4
    <3>2. (u \div k) \in {0, 1} /\ (Bit(u, m) <=> u \div k = 1)
      BY <2>2
    <3>3. (v \div k) \in {0, 1} /\ (Bit(v, m) <=> v \div k = 1)
      BY <2>2
    <3> DEFINE p == u \div k
               q == v \div k
    <3> HIDE DEF p, q
    <3>4. p = q
      BY <3>1, <3>2, <3>3 DEF p, q
    <3> QED
      BY <3>4 DEF p, q
  <2>7. u = (u % k) + (u \div k) * k
    BY <2>2
  <2>8. v = (v % k) + (v \div k) * k
    BY <2>2
  <2> DEFINE p == u \div k
             s == (u % k)
  <2>9. u = s + p * k /\ v = s + p * k
    BY <2>5, <2>6, <2>7, <2>8
  <2> HIDE DEF p, s
  <2> QED
    BY <2>9
<1> HIDE DEF S
<1>3. n \in S
  BY <1>1, <1>2, Induction
<1> QED
  BY <1>3 DEF S

(* WordOf and BitsOf are inverse. *)
LEMMA WordOfBits ==
    ASSUME NEW S, S \subseteq 0 .. WordBits - 1
    PROVE  WordOf(S) \in Word /\ \A b \in 0 .. WordBits - 1 : Bit(WordOf(S), b) <=> b \in S
<1>1. WordBits \in Nat
  BY Widths
<1>2. PICK w \in 0 .. 2^WordBits - 1 : \A b \in 0 .. WordBits - 1 : Bit(w, b) <=> b \in S
  BY <1>1, BitsExist
<1>3. \A v : BitsOf(v) = {b \in 0 .. WordBits - 1 : Bit(v, b)}
  BY DEF BitsOf, Bit
<1>4. BitsOf(w) = S
  <2>1. \A b \in 0 .. WordBits - 1 : b \in BitsOf(w) <=> b \in S
    BY <1>2, <1>3
  <2>2. BitsOf(w) \subseteq 0 .. WordBits - 1
    BY <1>3
  <2> QED
    BY <2>1, <2>2
<1>5. \E v \in Word : BitsOf(v) = S
  BY <1>2, <1>4 DEF Word
<1>6. WordOf(S) \in Word /\ BitsOf(WordOf(S)) = S
  BY <1>5 DEF WordOf
<1> QED
  BY <1>3, <1>6

(* Bit by bit. *)
LEMMA BitwiseOps ==
    ASSUME NEW x \in Word, NEW y \in Word
    PROVE  /\ And(x, y) \in Word /\ Or(x, y) \in Word /\ Xor(x, y) \in Word
           /\ \A b \in 0 .. WordBits - 1 : /\ Bit(And(x, y), b) <=> Bit(x, b) /\ Bit(y, b)
                                           /\ Bit(Or(x, y), b)  <=> Bit(x, b) \/ Bit(y, b)
                                           /\ Bit(Xor(x, y), b) <=> ~(Bit(x, b) <=> Bit(y, b))
<1>1. \A v : BitsOf(v) = {b \in 0 .. WordBits - 1 : Bit(v, b)}
  BY DEF BitsOf, Bit
<1> DEFINE P == BitsOf(x)
           Q == BitsOf(y)
<1>2. P \subseteq 0 .. WordBits - 1 /\ Q \subseteq 0 .. WordBits - 1
  BY <1>1
<1>3. \A b \in 0 .. WordBits - 1 : (Bit(x, b) <=> b \in P) /\ (Bit(y, b) <=> b \in Q)
  BY <1>1
<1>4. And(x, y) = WordOf(P \cap Q) /\ Or(x, y) = WordOf(P \cup Q)
      /\ Xor(x, y) = WordOf((P \cup Q) \ (P \cap Q))
  BY DEF And, Or, Xor
<1> HIDE DEF P, Q
<1>5. And(x, y) \in Word /\ \A b \in 0 .. WordBits - 1 : Bit(And(x, y), b) <=> b \in P \cap Q
  BY <1>2, <1>4, WordOfBits
<1>6. Or(x, y) \in Word /\ \A b \in 0 .. WordBits - 1 : Bit(Or(x, y), b) <=> b \in P \cup Q
  BY <1>2, <1>4, WordOfBits
<1>7. Xor(x, y) \in Word /\ \A b \in 0 .. WordBits - 1 : Bit(Xor(x, y), b) <=> b \in (P \cup Q) \ (P \cap Q)
  <2> DEFINE S == (P \cup Q) \ (P \cap Q)
  <2>1. S \subseteq 0 .. WordBits - 1 /\ Xor(x, y) = WordOf(S)
    BY <1>2, <1>4
  <2> HIDE DEF S
  <2>2. Xor(x, y) \in Word /\ \A b \in 0 .. WordBits - 1 : Bit(Xor(x, y), b) <=> b \in S
    BY <2>1, WordOfBits
  <2> QED
    BY <2>2 DEF S
<1> QED
  BY <1>3, <1>5, <1>6, <1>7

(* The complement. *)
LEMMA NotBits ==
    ASSUME NEW x \in Word
    PROVE  Not(x) \in Word /\ \A b \in 0 .. WordBits - 1 : Bit(Not(x), b) <=> ~Bit(x, b)
<1> DEFINE N == 2^WordBits
<1>1. N \in Nat /\ WordBits \in Nat
  BY Widths
<1>2. x \in 0 .. N - 1 /\ Not(x) = N - 1 - x
  BY DEF Word, Not, Mask
<1>3. Not(x) \in Word
  <2>1. Word = 0 .. N - 1
    BY DEF Word
  <2> HIDE DEF N
  <2> QED
    BY <1>1, <1>2, <2>1
<1>4. ASSUME NEW b \in 0 .. WordBits - 1 PROVE Bit(Not(x), b) <=> ~Bit(x, b)
  <2>1. b \in Nat /\ b < WordBits
    BY <1>1
  <2>2. N = 2^(WordBits - b) * 2^b /\ 2^(WordBits - b) = 2 * 2^(WordBits - b - 1) /\ WordBits - b - 1 \in Nat
    BY <1>1, <2>1, PowerOrder
  <2>3. 2^b \in Nat \ {0} /\ 2^(WordBits - b - 1) \in Nat
    BY <2>1, <2>2, Power
  <2> DEFINE k == 2^b
             p == 2^(WordBits - b - 1)
             q == x \div k
             z == (x % k)
  <2>4. N = (2 * p) * k /\ k \in Nat \ {0} /\ p \in Nat
    BY <2>2, <2>3
  <2> HIDE DEF p, N
  <2>5. q \in Int /\ z \in 0 .. k - 1 /\ x = q * k + z
    <3>1. x \in Int
      BY <1>1, <1>2
    <3> HIDE DEF k
    <3> QED
      BY <2>4, <3>1, DivMod
  <2> HIDE DEF q, z
  <2> DEFINE u == 2 * p - 1 - q
             s == k - 1 - z
  <2>6. u \in Int /\ s \in 0 .. k - 1
    <3> HIDE DEF k
    <3> QED
      BY <2>4, <2>5
  <2>7. Not(x) = u * k + s
    <3> HIDE DEF k
    <3> QED
      BY <1>2, <2>4, <2>5
  <2>8. (u * k + s) \div k = u
    <3> HIDE DEF k, u, s
    <3> QED
      BY <2>4, <2>6, DivUnique
  <2>9. Bit(Not(x), b) <=> (u % 2) = 1
    BY <2>7, <2>8 DEF Bit
  <2>10. Bit(x, b) <=> (q % 2) = 1
    BY DEF Bit, q
  <2>11. (u % 2) = 1 <=> ~((q % 2) = 1)
    BY <2>4, <2>5
  <2> QED
    BY <2>9, <2>10, <2>11
<1> QED
  BY <1>3, <1>4

(* Words are known by their bits. *)
LEMMA WordBitsUnique ==
    ASSUME NEW x \in Word, NEW y \in Word, \A b \in 0 .. WordBits - 1 : Bit(x, b) <=> Bit(y, b)
    PROVE  x = y
BY Widths, BitsUnique DEF Word

(* The disjunction of a number below a power of two and a multiple of it is *)
(* their sum.                                                               *)
LEMMA OrIsSum ==
    ASSUME NEW m \in Nat, NEW a \in 0 .. 2^m - 1, NEW c \in Nat, a + c * 2^m \in Word, c * 2^m \in Word, a \in Word
    PROVE  Or(a, c * 2^m) = a + c * 2^m
<1> DEFINE w == c * 2^m
           t == a + c * 2^m
<1>1. WordBits \in Nat /\ 2^m \in Nat \ {0} /\ a \in Int
  BY Widths, Power
<1>2. ASSUME NEW b \in 0 .. WordBits - 1, b < m PROVE Bit(t, b) <=> Bit(a, b) \/ Bit(w, b)
  <2>1. b \in 0 .. m - 1 /\ b \in Nat
    BY <1>1, <1>2
  <2>2. Bit(t, b) <=> Bit(a, b)
    BY <1>1, <2>1, BitsBelow
  <2> DEFINE zero == 0
  <2>3. zero \in Int /\ c \in Int /\ zero + w = w /\ ~Bit(zero, b)
    BY <1>1, <2>1, FewBits
  <2> HIDE DEF zero
  <2>4. Bit(zero + c * 2^m, b) <=> Bit(zero, b)
    BY <2>1, <2>3, BitsBelow
  <2> QED
    BY <2>2, <2>3, <2>4
<1>3. ASSUME NEW b \in 0 .. WordBits - 1, ~(b < m) PROVE Bit(t, b) <=> Bit(a, b) \/ Bit(w, b)
  <2> DEFINE zero == 0
             j == b - m
  <2>1. j \in Nat /\ m + j = b
    BY <1>1, <1>3
  <2>2. zero \in 0 .. 2^m - 1 /\ zero \in Int /\ c \in Int /\ zero + w = w /\ a + zero * 2^m = a
    BY <1>1
  <2>3. ~Bit(zero, j)
    BY <2>1, FewBits
  <2> HIDE DEF zero, j
  <2>4. Bit(a + c * 2^m, m + j) <=> Bit(c, j)
    BY <2>1, <2>2, BitsAbove
  <2>5. Bit(zero + c * 2^m, m + j) <=> Bit(c, j)
    BY <2>1, <2>2, BitsAbove
  <2>6. Bit(a + zero * 2^m, m + j) <=> Bit(zero, j)
    BY <2>1, <2>2, BitsAbove
  <2> QED
    BY <2>1, <2>2, <2>3, <2>4, <2>5, <2>6
<1> HIDE DEF t, w
<1>4. t \in Word /\ w \in Word
  BY DEF t, w
<1>5. Or(a, w) \in Word /\ \A b \in 0 .. WordBits - 1 : Bit(Or(a, w), b) <=> Bit(a, b) \/ Bit(w, b)
  BY <1>4, BitwiseOps
<1>6. Or(a, w) = t
  BY <1>2, <1>3, <1>4, <1>5, WordBitsUnique
<1> QED
  BY <1>6 DEF t, w

-----------------------------------------------------------------------------
(* The results of the operations, one class at a time *)

(* The results of addition, subtraction and multiplication. *)
LEMMA SumsMeet ==
    ASSUME NEW x \in Word, NEW y \in Word, NEW op \in {"add", "sub", "mul"}, NEW z \in Values(op, x, y)
    PROVE  z \in Word /\ Meets(op, x, y, z)
<1> DEFINE N == 2^WordBits
<1>0. N \in Nat \ {0}
  BY Widths, Power
<1>1. PICK c3 \in Int : Signed(x) = x + c3 * N
  BY SignedFacts
<1>2. PICK c4 \in Int : Signed(y) = y + c4 * N
  BY SignedFacts
<1>3. x \in Int /\ y \in Int /\ Signed(x) \in Int /\ Signed(y) \in Int
  BY SignedFacts
<1>4. ASSUME NEW i \in Int, z = Wrap(i), NEW j \in Int, NEW c \in Int, i - j = c * N
      PROVE  z \in Word /\ ((Signed(z) - j) % N) = 0
  <2>1. PICK c2 \in Int : z = i + c2 * N
    BY <1>4, WrapFacts
  <2>2. z \in Word
    BY <1>4, WrapFacts
  <2>3. PICK c1 \in Int : Signed(z) = z + c1 * N
    BY <2>2, SignedFacts
  <2>4. z \in Int /\ Signed(z) \in Int
    BY <2>2, SignedFacts
  <2> HIDE DEF N
  <2>5. Signed(z) - j = (c1 + c2 + c) * N
    BY <1>0, <1>4, <2>1, <2>3, <2>4
  <2>6. c1 + c2 + c \in Int
    OBVIOUS
  <2> DEFINE u == c1 + c2 + c
  <2> HIDE DEF u
  <2>7. ((u * N) % N) = 0
    BY <1>0, <2>6, MultipleMod DEF u
  <2> QED
    BY <2>2, <2>5, <2>7 DEF u
<1>5. CASE op = "add"
  <2>1. z = Wrap(x + y)
    BY <1>5 DEF Values, Arithmetic
  <2>2. Meets("add", x, y, z) = (((Signed(z) - (Signed(x) + Signed(y))) % N) = 0)
    BY DEF Meets
  <2> DEFINE sx == Signed(x)
             sy == Signed(y)
  <2>3. (x + y) - (sx + sy) = (-c3 - c4) * N
    <3> HIDE DEF N, sx, sy
    <3> QED
      BY <1>0, <1>1, <1>2, <1>3 DEF sx, sy
  <2>4. x + y \in Int /\ sx + sy \in Int /\ -c3 - c4 \in Int
    BY <1>3
  <2>5. z \in Word /\ ((Signed(z) - (sx + sy)) % N) = 0
    BY <1>4, <2>1, <2>3, <2>4
  <2> QED
    BY <1>5, <2>2, <2>5
<1>6. CASE op = "sub"
  <2>1. z = Wrap(x - y)
    BY <1>6 DEF Values, Arithmetic
  <2>2. Meets("sub", x, y, z) = (((Signed(z) - (Signed(x) - Signed(y))) % N) = 0)
    BY DEF Meets
  <2> DEFINE sx == Signed(x)
             sy == Signed(y)
  <2>3. (x - y) - (sx - sy) = (c4 - c3) * N
    <3> HIDE DEF N, sx, sy
    <3> QED
      BY <1>0, <1>1, <1>2, <1>3 DEF sx, sy
  <2>4. x - y \in Int /\ sx - sy \in Int /\ c4 - c3 \in Int
    BY <1>3
  <2>5. z \in Word /\ ((Signed(z) - (sx - sy)) % N) = 0
    BY <1>4, <2>1, <2>3, <2>4
  <2> QED
    BY <1>6, <2>2, <2>5
<1>7. CASE op = "mul"
  <2>1. z = Wrap(x * y)
    BY <1>7 DEF Values, Multiplied
  <2>2. Meets("mul", x, y, z) = (((Signed(z) - Signed(x) * Signed(y)) % N) = 0)
    BY DEF Meets
  <2> DEFINE sx == Signed(x)
             sy == Signed(y)
             c == -(c3 * y + c4 * sx)
  <2>3. x * y - sx * sy = c * N
    <3>1. sx = x + c3 * N /\ sy = y + c4 * N /\ sx \in Int /\ sy \in Int
      BY <1>1, <1>2, <1>3
    <3> HIDE DEF N, sx, sy
    <3>2. sx * sy = sx * y + sx * (c4 * N)
      BY <1>0, <1>3, <3>1
    <3>3. sx * y = x * y + (c3 * N) * y
      BY <1>0, <1>3, <3>1
    <3>4. (c3 * N) * y = (c3 * y) * N /\ sx * (c4 * N) = (c4 * sx) * N
      BY <1>0, <1>3, <3>1
    <3>5. (c3 * y + c4 * sx) * N = (c3 * y) * N + (c4 * sx) * N /\ c * N = -((c3 * y + c4 * sx) * N)
      BY <1>0, <1>3, <3>1
    <3> QED
      BY <1>0, <1>3, <3>1, <3>2, <3>3, <3>4, <3>5
  <2>4. x * y \in Int /\ sx * sy \in Int /\ c \in Int
    BY <1>3
  <2> DEFINE i == x * y
             j == sx * sy
  <2> HIDE DEF c
  <2>5. i \in Int /\ j \in Int /\ c \in Int /\ z = Wrap(i) /\ i - j = c * N
    BY <2>1, <2>3, <2>4
  <2>6. z \in Word /\ ((Signed(z) - j) % N) = 0
    <3> HIDE DEF i, j
    <3> QED
      BY <1>4, <2>5
  <2> QED
    BY <1>7, <2>2, <2>6
<1> QED
  BY <1>5, <1>6, <1>7

(* Distinct words stand for distinct numbers. *)
LEMMA SignedInjective ==
    ASSUME NEW x \in Word, NEW y \in Word
    PROVE  Signed(x) = Signed(y) <=> x = y
<1> DEFINE N == 2^WordBits
           H == 2^(WordBits - 1)
<1>1. N \in Nat /\ H \in Nat /\ x \in 0 .. N - 1 /\ y \in 0 .. N - 1
  BY Widths DEF Word
<1>2. Signed(x) = (IF x >= H THEN x - N ELSE x) /\ Signed(y) = (IF y >= H THEN y - N ELSE y)
  BY DEF Signed
<1> HIDE DEF N, H
<1> QED
  BY <1>1, <1>2

(* 0 and 1 are words. *)
LEMMA BoolIsWord == \A b \in BOOLEAN : Bool(b) \in Word
<1> DEFINE H == 2^(WordBits - 1)
<1>1. H \in Nat \ {0} /\ Word = 0 .. 2 * H - 1
  BY Widths DEF Word
<1> HIDE DEF H
<1>2. 0 \in Word /\ 1 \in Word
  BY <1>1
<1> QED
  BY <1>2 DEF Bool

(* The results of comparisons. *)
LEMMA ComparisonsMeet ==
    ASSUME NEW x \in Word, NEW y \in Word, NEW op \in Compare, NEW z \in Values(op, x, y)
    PROVE  z \in Word /\ Meets(op, x, y, z)
<1> DEFINE sx == Signed(x)
           sy == Signed(y)
<1>1. x \in Int /\ y \in Int /\ sx \in Int /\ sy \in Int
  BY SignedFacts
<1>2. sx = sy <=> x = y
  BY SignedInjective
<1> HIDE DEF sx, sy
<1>3. CASE op = "cmpe"
  <2>1. z = Bool(x = y)
    BY <1>3 DEF Values, Compared
  <2>2. Meets("cmpe", x, y, z) <=> z = Bool(sx = sy)
    BY DEF Meets, sx, sy
  <2> QED
    BY <1>2, <1>3, <2>1, <2>2, BoolIsWord DEF Bool
<1>4. CASE op = "cmpne"
  <2>1. z = Bool(x # y)
    BY <1>4 DEF Values, Compared
  <2>2. Meets("cmpne", x, y, z) <=> z = Bool(sx # sy)
    BY DEF Meets, sx, sy
  <2> QED
    BY <1>2, <1>4, <2>1, <2>2, BoolIsWord DEF Bool
<1>5. CASE op = "cmpg"
  <2>1. z = Bool(sx > sy)
    BY <1>5 DEF Values, Compared, sx, sy
  <2>2. Meets("cmpg", x, y, z) <=> z = Bool(sx > sy)
    BY DEF Meets, sx, sy
  <2> QED
    BY <1>5, <2>1, <2>2, BoolIsWord DEF Bool
<1>6. CASE op = "cmpge"
  <2>1. z = Bool(sx >= sy)
    BY <1>6 DEF Values, Compared, sx, sy
  <2>2. Meets("cmpge", x, y, z) <=> z = Bool(~(sy > sx))
    BY DEF Meets, sx, sy
  <2>3. sx >= sy <=> ~(sy > sx)
    BY <1>1
  <2> QED
    BY <1>6, <2>1, <2>2, <2>3, BoolIsWord DEF Bool
<1>7. CASE op = "cmpgu"
  <2>1. z = Bool(x > y)
    BY <1>7 DEF Values, Compared
  <2>2. Meets("cmpgu", x, y, z) <=> z = Bool(x > y)
    BY DEF Meets
  <2> QED
    BY <1>7, <2>1, <2>2, BoolIsWord DEF Bool
<1>8. CASE op = "cmpgeu"
  <2>1. z = Bool(x >= y)
    BY <1>8 DEF Values, Compared
  <2>2. Meets("cmpgeu", x, y, z) <=> z = Bool(~(y > x))
    BY DEF Meets
  <2>3. x >= y <=> ~(y > x)
    BY <1>1
  <2> QED
    BY <1>8, <2>1, <2>2, <2>3, BoolIsWord DEF Bool
<1> QED
  BY <1>3, <1>4, <1>5, <1>6, <1>7, <1>8 DEF Compare

(* The results of logical operations. *)
LEMMA LogicalMeets ==
    ASSUME NEW x \in Word, NEW y \in Word, NEW op \in {"and", "or", "xor", "nor", "xnor"},
           NEW z \in Values(op, x, y)
    PROVE  z \in Word /\ Meets(op, x, y, z)
<1> DEFINE B == 0 .. WordBits - 1
<1>1. \A u, b : Bit(u, b) \in BOOLEAN
  BY DEF Bit
<1>2. \A p, q \in BOOLEAN : (p <=> q) => p = q
  OBVIOUS
<1>3. CASE op = "and"
  <2>1. z = And(x, y)
    BY <1>3 DEF Values, Logical
  <2>2. Meets("and", x, y, z) <=> \A b \in B : Bit(z, b) = (Bit(x, b) /\ Bit(y, b))
    BY DEF Meets
  <2>3. z \in Word /\ \A b \in B : Bit(z, b) <=> (Bit(x, b) /\ Bit(y, b))
    BY <2>1, BitwiseOps
  <2>4. ASSUME NEW b \in B PROVE Bit(z, b) = (Bit(x, b) /\ Bit(y, b))
    BY <1>1, <2>3, Zenon
  <2> QED
    BY <1>3, <2>2, <2>3, <2>4
<1>4. CASE op = "or"
  <2>1. z = Or(x, y)
    BY <1>4 DEF Values, Logical
  <2>2. Meets("or", x, y, z) <=> \A b \in B : Bit(z, b) = (Bit(x, b) \/ Bit(y, b))
    BY DEF Meets
  <2>3. z \in Word /\ \A b \in B : Bit(z, b) <=> (Bit(x, b) \/ Bit(y, b))
    BY <2>1, BitwiseOps
  <2>4. ASSUME NEW b \in B PROVE Bit(z, b) = (Bit(x, b) \/ Bit(y, b))
    BY <1>1, <2>3, Zenon
  <2> QED
    BY <1>4, <2>2, <2>3, <2>4
<1>5. CASE op = "xor"
  <2>1. z = Xor(x, y)
    BY <1>5 DEF Values, Logical
  <2>2. Meets("xor", x, y, z) <=> \A b \in B : Bit(z, b) = (Bit(x, b) # Bit(y, b))
    BY DEF Meets
  <2>3. z \in Word /\ \A b \in B : Bit(z, b) <=> ~(Bit(x, b) <=> Bit(y, b))
    BY <2>1, BitwiseOps
  <2>4. ASSUME NEW b \in B PROVE Bit(z, b) = (Bit(x, b) # Bit(y, b))
    BY <1>1, <2>3, Zenon
  <2> QED
    BY <1>5, <2>2, <2>3, <2>4
<1>6. CASE op = "nor"
  <2>1. z = Not(Or(x, y))
    BY <1>6 DEF Values, Logical
  <2>2. Meets("nor", x, y, z) <=> \A b \in B : Bit(z, b) = (~(Bit(x, b) \/ Bit(y, b)))
    BY DEF Meets
  <2>3. z \in Word /\ \A b \in B : Bit(z, b) <=> ~(Bit(x, b) \/ Bit(y, b))
    BY <2>1, BitwiseOps, NotBits
  <2>4. ASSUME NEW b \in B PROVE Bit(z, b) = (~(Bit(x, b) \/ Bit(y, b)))
    BY <1>1, <2>3, Zenon
  <2> QED
    BY <1>6, <2>2, <2>3, <2>4
<1>7. CASE op = "xnor"
  <2>1. z = Not(Xor(x, y))
    BY <1>7 DEF Values, Logical
  <2>2. Meets("xnor", x, y, z) <=> \A b \in B : Bit(z, b) = (Bit(x, b) = Bit(y, b))
    BY DEF Meets
  <2>3. z \in Word /\ \A b \in B : Bit(z, b) <=> (Bit(x, b) <=> Bit(y, b))
    BY <2>1, BitwiseOps, NotBits
  <2>4. ASSUME NEW b \in B PROVE Bit(z, b) = (Bit(x, b) = Bit(y, b))
    BY <1>1, <2>3, Zenon
  <2> QED
    BY <1>7, <2>2, <2>3, <2>4
<1> QED
  BY <1>3, <1>4, <1>5, <1>6, <1>7

(* Sign extension from a width below that of a word. *)
LEMMA SignExtFacts ==
    ASSUME NEW n \in {ByteBits, HalfBits}, NEW u \in 0 .. 2^n - 1
    PROVE  /\ SignExt(u, n) \in Word
           /\ Signed(SignExt(u, n)) = IF u >= 2^(n - 1) THEN u - 2^n ELSE u
           /\ 2^n = 2 * 2^(n - 1) /\ 2^(n - 1) \in Nat \ {0}
<1> DEFINE N == 2^WordBits
           H == 2^(WordBits - 1)
           K == 2^n
           J == 2^(n - 1)
<1>1. n \in Nat \ {0} /\ n < WordBits /\ WordBits \in Nat
  BY Widths
<1>2. N = 2 * H /\ H \in Nat \ {0}
  BY Widths
<1>3. J \in Nat \ {0} /\ K = 2 * J
  <2>1. n - 1 \in Nat /\ (n - 1) + 1 = n
    BY <1>1
  <2>2. 2^(n - 1) \in Nat \ {0} /\ 2^n = 2^(n - 1) + 2^(n - 1)
    BY <2>1, Power
  <2> QED
    BY <2>2
<1>4. K <= H
  <2>1. n = WordBits - 1 \/ (n < WordBits - 1 /\ n \in Nat /\ WordBits - 1 \in Nat)
    BY <1>1
  <2>2. CASE n = WordBits - 1
    BY <1>2, <2>2
  <2>3. CASE n < WordBits - 1
    <3>1. K < H
      <4> DEFINE w == WordBits - 1
      <4>1. n \in Nat /\ w \in Nat /\ n < w
        BY <1>1, <2>3
      <4> HIDE DEF w
      <4>2. 2^n < 2^w
        BY <4>1, PowerOrder
      <4> QED
        BY <4>2 DEF w
    <3> HIDE DEF K, H
    <3> QED
      BY <1>2, <1>3, <3>1
  <2> QED
    BY <2>1, <2>2, <2>3
<1>5. SignExt(u, n) = IF u >= J THEN u + (N - K) ELSE u
  BY DEF SignExt
<1>6. Signed(SignExt(u, n)) = IF SignExt(u, n) >= H THEN SignExt(u, n) - N ELSE SignExt(u, n)
  BY DEF Signed
<1>7. u \in 0 .. K - 1 /\ Word = 0 .. N - 1
  BY DEF Word
<1> HIDE DEF N, H, K, J
<1>8. SignExt(u, n) \in Word
  BY <1>2, <1>3, <1>4, <1>5, <1>7
<1>9. Signed(SignExt(u, n)) = IF u >= J THEN u - K ELSE u
  BY <1>2, <1>3, <1>4, <1>5, <1>6, <1>7
<1> QED
  BY <1>3, <1>8, <1>9 DEF K, J

(* The results of the sign extensions. *)
LEMMA ExtensionsMeet ==
    ASSUME NEW x \in Word, NEW y, NEW op \in Extend, NEW z \in Values(op, x, y)
    PROVE  z \in Word /\ Meets(op, x, y, z)
<1>1. ASSUME NEW n \in {ByteBits, HalfBits}, z = SignExt((x % 2^n), n)
      PROVE  z \in Word /\ ((Signed(z) - x) % 2^n) = 0 /\ -(2^(n - 1)) <= Signed(z) /\ Signed(z) < 2^(n - 1)
  <2> DEFINE K == 2^n
             J == 2^(n - 1)
             u == (x % K)
             q == x \div K
  <2>1. K \in Nat \ {0} /\ x \in Int
    BY Widths, Power, SignedFacts
  <2>2. u \in 0 .. K - 1 /\ q \in Int /\ x = q * K + u
    BY <2>1, DivMod
  <2>3. z \in Word /\ Signed(z) = (IF u >= J THEN u - K ELSE u) /\ K = 2 * J /\ J \in Nat \ {0}
    BY <1>1, <2>2, SignExtFacts
  <2> HIDE DEF K, J, u, q
  <2>4. -J <= Signed(z) /\ Signed(z) < J
    BY <2>1, <2>2, <2>3
  <2>5. Signed(z) - x = (-q) * K \/ Signed(z) - x = (-q - 1) * K
    BY <2>1, <2>2, <2>3
  <2>6. \E c \in Int : Signed(z) - x = c * K
    <3>1. -q \in Int /\ -q - 1 \in Int
      BY <2>2
    <3> QED
      BY <2>5, <3>1
  <2>7. ((Signed(z) - x) % K) = 0
    BY <2>1, <2>6, MultipleMod
  <2> QED
    BY <2>3, <2>4, <2>7 DEF K, J
<1>2. CASE op = "sextb"
  <2>1. z = SignExt((x % 2^ByteBits), ByteBits)
    BY <1>2 DEF Values, Multiplied
  <2>2. Meets("sextb", x, y, z) <=>
            /\ ((Signed(z) - x) % 2^ByteBits) = 0
            /\ -(2^(ByteBits - 1)) <= Signed(z) /\ Signed(z) < 2^(ByteBits - 1)
    BY DEF Meets
  <2> QED
    BY <1>1, <1>2, <2>1, <2>2
<1>3. CASE op = "sexth"
  <2>1. z = SignExt((x % 2^HalfBits), HalfBits)
    BY <1>3 DEF Values, Multiplied
  <2>2. Meets("sexth", x, y, z) <=>
            /\ ((Signed(z) - x) % 2^HalfBits) = 0
            /\ -(2^(HalfBits - 1)) <= Signed(z) /\ Signed(z) < 2^(HalfBits - 1)
    BY DEF Meets
  <2> QED
    BY <1>1, <1>3, <2>1, <2>2
<1> QED
  BY <1>2, <1>3 DEF Extend

(* C's division: the quotient is cut towards zero. *)
LEMMA DivisionFacts ==
    ASSUME NEW i \in Int, NEW j \in Int, j # 0
    PROVE  /\ Quotient(i, j) \in Int /\ Remainder(i, j) \in Int
           /\ i = j * Quotient(i, j) + Remainder(i, j)
           /\ Abs(Remainder(i, j)) < Abs(j)
           /\ Remainder(i, j) = 0 \/ ((Remainder(i, j) < 0) <=> (i < 0))
           /\ Abs(Quotient(i, j)) <= Abs(i)
           /\ Quotient(i, j) > 0 => ((i < 0) <=> (j < 0))
           /\ Abs(Quotient(i, j)) = Abs(i) => i = 0 \/ j \in {1, -1}
           /\ \E c \in Int : i - Remainder(i, j) = c * Abs(j)
<1> DEFINE a == Abs(i)
           b == Abs(j)
           q == a \div b
           s == (a % b)
           Q == Quotient(i, j)
           R == Remainder(i, j)
<1>1. a \in Nat /\ b \in Nat \ {0} /\ (i < 0 => a = -i) /\ (i >= 0 => a = i) /\ (j < 0 => b = -j) /\ (j >= 0 => b = j)
  BY DEF Abs
<1>2. Q = (IF (i < 0) = (j < 0) THEN q ELSE -q) /\ R = i - j * Q
  BY DEF Quotient, Remainder
<1>3. q \in 0 .. a /\ s \in 0 .. b - 1 /\ a = q * b + s
  <2> HIDE DEF a, b
  <2>1. a \in Int /\ a \in Nat
    BY <1>1
  <2>2. /\ a \div b \in Int /\ (a % b) \in 0 .. b - 1
        /\ a = (a \div b) * b + (a % b)
        /\ a \in Nat => a \div b \in 0 .. a
    BY <1>1, <2>1, DivMod
  <2> QED
    BY <2>1, <2>2
<1> HIDE DEF a, b, q, s, Q, R
<1>4. q * b \in Int /\ (-j) * q = -(j * q) /\ j * (-q) = -(j * q) /\ j * q \in Int
  BY <1>1, <1>3
<1>5. q = a => a = 0 \/ b = 1
  <2>1. ASSUME q = a, a > 0, 1 < b PROVE FALSE
    <3>1. 1 * a + a <= b * a
      BY <1>1, <2>1, MulOrder
    <3>2. b * a = a * b
      BY <1>1
    <3> QED
      BY <1>1, <1>3, <2>1, <3>1, <3>2
  <2> QED
    BY <1>1, <2>1
<1>6. Q \in Int /\ R \in Int /\ i = j * Q + R /\ (R = s \/ R = -s) /\ (i < 0 => R = -s) /\ (i >= 0 => R = s)
      /\ (Q = q \/ Q = -q) /\ (Q > 0 => ((i < 0) <=> (j < 0)))
  <2>1. CASE i < 0 /\ j < 0
    <3>1. Q = q /\ a = -i /\ b = -j
      BY <1>1, <1>2, <2>1
    <3>2. q * b = -(j * q)
      BY <1>1, <1>3, <3>1
    <3>3. R = i - j * q /\ R = -s
      BY <1>2, <1>3, <1>4, <3>1, <3>2
    <3> QED
      BY <1>3, <1>4, <2>1, <3>1, <3>3
  <2>2. CASE i >= 0 /\ j >= 0
    <3>1. Q = q /\ a = i /\ b = j
      BY <1>1, <1>2, <2>2
    <3>2. q * b = j * q
      BY <1>1, <1>3, <3>1
    <3>3. R = i - j * q /\ R = s
      BY <1>2, <1>3, <1>4, <3>1, <3>2
    <3> QED
      BY <1>3, <1>4, <2>2, <3>1, <3>3
  <2>3. CASE i < 0 /\ j >= 0
    <3>1. Q = -q /\ a = -i /\ b = j
      BY <1>1, <1>2, <2>3
    <3>2. q * b = j * q
      BY <1>1, <1>3, <3>1
    <3>3. R = i - (-(j * q)) /\ R = -s /\ j * Q = -(j * q)
      BY <1>2, <1>3, <1>4, <3>1, <3>2
    <3> QED
      BY <1>3, <1>4, <2>3, <3>1, <3>3
  <2>4. CASE i >= 0 /\ j < 0
    <3>1. Q = -q /\ a = i /\ b = -j
      BY <1>1, <1>2, <2>4
    <3>2. q * b = -(j * q)
      BY <1>1, <1>3, <3>1
    <3>3. R = i - (-(j * q)) /\ R = s /\ j * Q = -(j * q)
      BY <1>2, <1>3, <1>4, <3>1, <3>2
    <3> QED
      BY <1>3, <1>4, <2>4, <3>1, <3>3
  <2> QED
    BY <2>1, <2>2, <2>3, <2>4
<1>7. Abs(R) = s /\ Abs(Q) = q
  BY <1>3, <1>6 DEF Abs
<1>8. s < b /\ q <= a /\ (R = 0 \/ ((R < 0) <=> (i < 0)))
  BY <1>1, <1>3, <1>6
<1>9. q = a => i = 0 \/ j \in {1, -1}
  BY <1>1, <1>5
<1>10. \E c \in Int : i - R = c * b
  <2>1. i - R = q * b \/ i - R = (-q) * b
    <3>1. (-q) * b = -(q * b)
      BY <1>1, <1>3
    <3> QED
      BY <1>1, <1>3, <1>4, <1>6, <3>1
  <2>2. q \in Int /\ -q \in Int
    BY <1>1, <1>3
  <2> QED
    BY <2>1, <2>2
<1> QED
  BY <1>6, <1>7, <1>8, <1>9, <1>10 DEF a, b, Q, R

(* The results of divisions. *)
LEMMA DivisionsMeet ==
    ASSUME NEW x \in Word, NEW y \in Word, y # 0, NEW op \in Divide, NEW z \in Values(op, x, y)
    PROVE  z \in Word /\ Meets(op, x, y, z)
<1> DEFINE N == 2^WordBits
           H == 2^(WordBits - 1)
           i == Signed(x)
           j == Signed(y)
           Q == Quotient(i, j)
           R == Remainder(i, j)
<1>1. x \in Nat /\ y \in Nat \ {0} /\ x < N /\ y < N /\ i \in Int /\ j \in Int
  BY SignedFacts
<1>2. H \in Nat \ {0} /\ N = 2 * H /\ N \in Nat
  BY Widths
<1>3. -H <= i /\ i < H /\ -H <= j /\ j < H
  BY SignedFacts
<1>4. j # 0
  <2>1. 0 \in Word /\ Signed(0) = 0
    <3>1. 0 \in 0 .. N - 1 /\ ~(0 >= H)
      <4> HIDE DEF N, H
      <4> QED
        BY <1>2
    <3> QED
      BY <3>1 DEF Word, Signed
  <2> QED
    BY <2>1, SignedInjective
<1>5. /\ Q \in Int /\ R \in Int /\ i = j * Q + R /\ Abs(R) < Abs(j)
      /\ R = 0 \/ ((R < 0) <=> (i < 0))
      /\ Abs(Q) <= Abs(i) /\ (Q > 0 => ((i < 0) <=> (j < 0)))
      /\ Abs(Q) = Abs(i) => i = 0 \/ j \in {1, -1}
      /\ \E c \in Int : i - R = c * Abs(j)
  <2> HIDE DEF i, j
  <2> QED
    BY <1>1, <1>4, DivisionFacts
<1>6. Overflows(x, y) <=> i = -H /\ j = -1
  BY DEF Overflows
<1>7. CASE op = "div"
  <2>1. z = Wrap(Q)
    BY <1>7 DEF Values, Arithmetic
  <2>2. z \in Word
    BY <1>5, <2>1, WrapFacts
  <2>3. Meets("div", x, y, z) <=>
            \/ Overflows(x, y)
            \/ /\ Abs(i - j * Signed(z)) < Abs(j)
               /\ i - j * Signed(z) = 0 \/ (i - j * Signed(z) < 0) = (i < 0)
    BY DEF Meets
  <2>4. ASSUME ~(i = -H /\ j = -1) PROVE Signed(z) = Q
    <3>1. -H <= Q /\ Q < H
      <4> HIDE DEF H, i, j, Q, R
      <4> QED
        BY <1>1, <1>2, <1>3, <1>5, <2>4 DEF Abs
    <3> QED
      BY <1>5, <2>1, <3>1, SignedWrap
  <2>5. i - j * Q = R
    BY DEF Remainder
  <2>6. (R < 0) \in BOOLEAN /\ (i < 0) \in BOOLEAN
    OBVIOUS
  <2> HIDE DEF i, j, Q, R
  <2>7. R = 0 \/ (R < 0) = (i < 0)
    BY <1>5, <2>6, Zenon
  <2>8. Meets("div", x, y, z)
    BY <1>5, <1>6, <2>3, <2>4, <2>5, <2>7
  <2> QED
    BY <1>7, <2>2, <2>8
<1>8. CASE op = "mod"
  <2>1. z = Wrap(R)
    BY <1>8 DEF Values, Arithmetic
  <2>2. z \in Word
    BY <1>5, <2>1, WrapFacts
  <2>3. Meets("mod", x, y, z) <=>
            \/ Overflows(x, y)
            \/ /\ Abs(Signed(z)) < Abs(j) /\ (Signed(z) = 0 \/ (Signed(z) < 0) = (i < 0))
               /\ ((i - Signed(z)) % Abs(j)) = 0
    BY DEF Meets
  <2>4. Signed(z) = R
    <3>1. -H <= R /\ R < H
      <4> HIDE DEF H, i, j, Q, R
      <4> QED
        BY <1>1, <1>2, <1>3, <1>5 DEF Abs
    <3> QED
      BY <1>5, <2>1, <3>1, SignedWrap
  <2>5. (R < 0) \in BOOLEAN /\ (i < 0) \in BOOLEAN
    OBVIOUS
  <2> HIDE DEF i, j, Q, R
  <2>6. R = 0 \/ (R < 0) = (i < 0)
    BY <1>5, <2>5, Zenon
  <2>7. ((i - R) % Abs(j)) = 0
    <3>1. Abs(j) \in Nat \ {0}
      BY <1>1, <1>4 DEF Abs
    <3> QED
      BY <1>5, <3>1, MultipleMod
  <2>8. Meets("mod", x, y, z)
    BY <1>5, <2>3, <2>4, <2>6, <2>7
  <2> QED
    BY <1>8, <2>2, <2>8
<1>9. CASE op \in {"divu", "modu"}
  <2> DEFINE q == x \div y
             s == (x % y)
  <2>1. q \in 0 .. x /\ s \in 0 .. y - 1 /\ x = q * y + s
    <3>1. x \in Int /\ x \in Nat
      BY <1>1
    <3>2. /\ x \div y \in Int /\ (x % y) \in 0 .. y - 1
          /\ x = (x \div y) * y + (x % y)
          /\ x \in Nat => x \div y \in 0 .. x
      BY <1>1, <3>1, DivMod
    <3> QED
      BY <3>1, <3>2
  <2>2. CASE op = "divu"
    <3>1. z = q
      BY <2>2 DEF Values, Arithmetic
    <3>2. Meets("divu", x, y, z) <=> z * y <= x /\ x < (z + 1) * y
      BY DEF Meets
    <3>3. Word = 0 .. N - 1
      BY DEF Word
    <3> HIDE DEF N, q, s
    <3>4. z \in Word
      BY <1>1, <1>2, <2>1, <3>1, <3>3
    <3>5. q * y \in Int /\ (q + 1) * y = q * y + y
      BY <1>1, <2>1
    <3>6. q * y <= x /\ x < (q + 1) * y
      BY <1>1, <2>1, <3>5
    <3> QED
      BY <2>2, <3>1, <3>2, <3>4, <3>6
  <2>3. CASE op = "modu"
    <3>1. z = s
      BY <2>3 DEF Values, Arithmetic
    <3>2. Meets("modu", x, y, z) <=> z < y /\ \E p \in Word : x = p * y + z
      BY DEF Meets
    <3>3. Word = 0 .. N - 1
      BY DEF Word
    <3> HIDE DEF N, q, s
    <3>4. z \in Word /\ q \in Word /\ z < y
      BY <1>1, <1>2, <2>1, <3>1, <3>3
    <3>5. \E p \in Word : x = p * y + z
      BY <2>1, <3>1, <3>4
    <3> QED
      BY <2>3, <3>2, <3>4, <3>5
  <2> QED
    BY <1>9, <2>2, <2>3
<1> QED
  BY <1>7, <1>8, <1>9 DEF Divide

(* A shift's amount is at most the width. *)
LEMMA AmountsBelow ==
    ASSUME NEW y \in Word, NEW n \in Amounts(y)
    PROVE  n \in 0 .. WordBits /\ (y < WordBits => n = y)
<1>1. WordBits \in Nat \ {0} /\ y \in Nat
  BY Widths, SignedFacts
<1>2. CASE y < WordBits
  BY <1>1, <1>2 DEF Amounts
<1>3. CASE ~(y < WordBits)
  <2>1. (y % WordBits) \in 0 .. WordBits - 1
    BY <1>1
  <2>2. n = (y % WordBits) \/ n = WordBits
    BY <1>3 DEF Amounts
  <2> QED
    BY <1>1, <1>3, <2>1, <2>2
<1> QED
  BY <1>2, <1>3

(* The logical shift to the right. *)
LEMMA ShiftRightFacts ==
    ASSUME NEW x \in Word, NEW n \in 0 .. WordBits
    PROVE  /\ ShiftRight(x, n) \in Word /\ ShiftRight(x, n) \in Nat
           /\ ShiftRight(x, n) <= x
           /\ ShiftRight(x, n) * 2^n <= x /\ x < (ShiftRight(x, n) + 1) * 2^n
           /\ ShiftRight(x, n) < 2^(WordBits - n)
           /\ 2^WordBits = 2^(WordBits - n) * 2^n /\ 2^(WordBits - n) \in Nat \ {0} /\ 2^n \in Nat \ {0}
<1> DEFINE N == 2^WordBits
           k == 2^n
           l == 2^(WordBits - n)
           q == x \div k
           s == (x % k)
<1>0. n \in Nat /\ WordBits - n \in Nat /\ (WordBits - n) + n = WordBits
  BY Widths
<1>1. N = l * k /\ l \in Nat \ {0} /\ k \in Nat \ {0}
  BY <1>0, PowerSum, Power
<1>2. x \in Nat /\ x \in Int /\ x < N /\ N \in Nat /\ Word = 0 .. N - 1
  BY SignedFacts, Widths DEF Word
<1>3. /\ q \in Int /\ s \in 0 .. k - 1 /\ x = q * k + s
      /\ x \in Nat => q \in 0 .. x
  BY <1>1, <1>2, DivMod
<1>4. ShiftRight(x, n) = q
  BY DEF ShiftRight
<1> HIDE DEF N, k, l, q, s
<1>5. q * k \in Int /\ (q + 1) * k = q * k + k
  BY <1>1, <1>2, <1>3
<1>6. q \in 0 .. x /\ q * k <= x /\ x < (q + 1) * k
  BY <1>1, <1>2, <1>3, <1>5
<1>7. ~(l <= q)
  <2>1. ASSUME l <= q PROVE FALSE
    <3>1. l = q \/ l < q
      BY <1>1, <1>3, <2>1
    <3>2. CASE l = q
      BY <1>1, <1>2, <1>6, <3>2
    <3>3. CASE l < q
      <4>1. l * k + k <= q * k
        BY <1>1, <1>3, <3>3, MulOrder
      <4>2. l * k \in Int
        BY <1>1
      <4> QED
        BY <1>1, <1>2, <1>5, <1>6, <4>1, <4>2
    <3> QED
      BY <3>1, <3>2, <3>3
  <2> QED
    BY <2>1
<1>8. q < l
  BY <1>1, <1>3, <1>7
<1>9. q \in 0 .. N - 1 /\ q \in Nat /\ q <= x
  BY <1>2, <1>6
<1> QED
  BY <1>1, <1>2, <1>4, <1>6, <1>8, <1>9 DEF N, k, l

(* The mask of the bits that the logical shift has cleared. *)
LEMMA ClearedBits ==
    ASSUME NEW n \in 0 .. WordBits
    PROVE  /\ Not(ShiftRight(Mask, n)) = 2^WordBits - 2^(WordBits - n)
           /\ 2^WordBits - 2^(WordBits - n) = (2^n - 1) * 2^(WordBits - n)
<1> DEFINE N == 2^WordBits
           k == 2^n
           l == 2^(WordBits - n)
<1>0. n \in Nat /\ WordBits - n \in Nat /\ (WordBits - n) + n = WordBits
  BY Widths
<1>1. N = l * k /\ l \in Nat \ {0} /\ k \in Nat \ {0} /\ N \in Nat
  BY <1>0, PowerSum, Power, Widths
<1>2. Mask = N - 1 /\ ShiftRight(Mask, n) = Mask \div k
  BY DEF Mask, ShiftRight
<1> HIDE DEF N, k, l
<1>3. l - 1 \in Int /\ k - 1 \in 0 .. k - 1 /\ (l - 1) * k + (k - 1) = N - 1
  <2>1. (l - 1) * k = l * k - k
    BY <1>1
  <2> QED
    BY <1>1, <2>1
<1>4. ((l - 1) * k + (k - 1)) \div k = l - 1
  <2> DEFINE u == l - 1
             v == k - 1
  <2>1. u \in Int /\ v \in 0 .. k - 1
    BY <1>3
  <2> HIDE DEF u, v
  <2>2. (u * k + v) \div k = u
    BY <1>1, <2>1, DivUnique
  <2> QED
    BY <2>2 DEF u, v
<1>5. ShiftRight(Mask, n) = l - 1
  BY <1>2, <1>3, <1>4
<1>6. Not(ShiftRight(Mask, n)) = N - l
  <2>1. \A u : Not(u) = Mask - u
    BY DEF Not
  <2> QED
    BY <1>1, <1>2, <1>5, <2>1
<1>7. N - l = (k - 1) * l
  BY <1>1
<1> QED
  BY <1>6, <1>7 DEF N, k, l

(* The emulated arithmetic shift divides a signed number, rounding down. *)
LEMMA ShiftSignedFacts ==
    ASSUME NEW x \in Word, NEW n \in 0 .. WordBits
    PROVE  /\ ShiftSigned(x, n) \in Word
           /\ n < WordBits => /\ Signed(ShiftSigned(x, n)) * 2^n <= Signed(x)
                              /\ Signed(x) < (Signed(ShiftSigned(x, n)) + 1) * 2^n
<1> DEFINE N == 2^WordBits
           H == 2^(WordBits - 1)
           k == 2^n
           l == 2^(WordBits - n)
           a == ShiftRight(x, n)
           z == ShiftSigned(x, n)
<1>0. n \in Nat /\ WordBits - n \in Nat /\ WordBits \in Nat /\ n <= WordBits
  BY Widths
<1>1. N = 2 * H /\ H \in Nat \ {0} /\ Word = 0 .. N - 1
  BY Widths DEF Word
<1>2. /\ x \in Nat /\ x < N /\ Signed(x) \in Int
      /\ Signed(x) < 0 => Signed(x) = x - N /\ x >= H
      /\ Signed(x) >= 0 => Signed(x) = x /\ x < H
  BY SignedFacts
<1>3. /\ a \in Word /\ a \in Nat /\ a <= x /\ a * k <= x /\ x < (a + 1) * k /\ a < l
      /\ N = l * k /\ l \in Nat \ {0} /\ k \in Nat \ {0}
  BY ShiftRightFacts
<1>4. ShiftSigned(x, n) = Or(a, IF Signed(x) < 0 THEN Not(ShiftRight(Mask, n)) ELSE 0)
  BY DEF ShiftSigned
<1>5. Not(ShiftRight(Mask, n)) = N - l /\ N - l = (k - 1) * l
  BY ClearedBits
<1>6. Signed(z) = IF z >= H THEN z - N ELSE z
  BY DEF Signed
<1>7. a \in 0 .. l - 1
  <2> HIDE DEF a, l
  <2> QED
    BY <1>3
<1>8. ASSUME NEW c \in Nat, a + c * l \in Word, c * l \in Word PROVE Or(a, c * l) = a + c * l
  <2> DEFINE m == WordBits - n
  <2>1. m \in Nat /\ a \in 0 .. 2^m - 1 /\ a + c * 2^m \in Word /\ c * 2^m \in Word
    BY <1>0, <1>7, <1>8
  <2> HIDE DEF m, a
  <2>2. Or(a, c * 2^m) = a + c * 2^m
    BY <1>3, <2>1, OrIsSum
  <2> QED
    BY <2>2 DEF m
<1>9. n < WordBits => n = 0 \/ l <= H
  <2>1. CASE n = 1
    BY <1>0, <1>1, <2>1
  <2>2. ASSUME n > 1 PROVE l <= H
    <3> DEFINE u == WordBits - n
               v == WordBits - 1
    <3>1. u \in Nat /\ v \in Nat /\ u < v
      BY <1>0, <2>2
    <3> HIDE DEF u, v
    <3>2. 2^u < 2^v
      BY <3>1, PowerOrder
    <3>3. l < H
      BY <3>2 DEF u, v
    <3> HIDE DEF l, H
    <3> QED
      BY <1>1, <1>3, <3>3
  <2> QED
    BY <1>0, <2>1, <2>2
<1>10. n = 0 => l = N /\ k = 1
  BY <1>0, Power
<1> HIDE DEF N, H, k, l, a, z
<1>11. CASE ~(Signed(x) < 0)
  <2>1. Or(a, 0) = a
    <3>1. 0 * l = 0 /\ 0 \in Nat /\ a + 0 = a /\ 0 \in Word
      BY <1>1, <1>3
    <3> DEFINE c == 0
    <3>2. c \in Nat /\ c * l = 0 /\ a + c * l = a /\ c * l \in Word
      BY <3>1
    <3> HIDE DEF c
    <3>3. Or(a, c * l) = a + c * l
      BY <1>3, <1>8, <3>2
    <3> QED
      BY <3>2, <3>3
  <2>2. z = a
    BY <1>4, <1>11, <2>1 DEF z
  <2>3. Signed(x) = x /\ Signed(z) = a
    BY <1>1, <1>2, <1>3, <1>6, <1>11, <2>2
  <2> QED
    BY <1>3, <2>2, <2>3 DEF z, k
<1>12. CASE Signed(x) < 0
  <2>0. (k - 1) * l \in Word /\ a + (k - 1) * l \in Word
    <3>1. N - l >= 0 /\ N - l \in Nat
      <4>1. N = k * l
        BY <1>3
      <4>2. k = 1 \/ 1 < k
        BY <1>3
      <4>3. CASE k = 1
        BY <1>3, <4>1, <4>3
      <4>4. CASE 1 < k
        <5>1. 1 * l + l <= k * l
          BY <1>3, <4>4, MulOrder
        <5> QED
          BY <1>1, <1>3, <4>1, <5>1
      <4> QED
        BY <4>2, <4>3, <4>4
    <3>2. N - l \in 0 .. N - 1 /\ a + (N - l) \in 0 .. N - 1
      BY <1>1, <1>3, <3>1
    <3> QED
      BY <1>1, <1>5, <3>2
  <2>1. z = a + (N - l)
    <3> DEFINE c == k - 1
    <3>1. c \in Nat
      BY <1>3
    <3>2. c * l = N - l /\ c * l \in Word /\ a + c * l \in Word
      BY <1>5, <2>0
    <3> HIDE DEF c
    <3>3. Or(a, c * l) = a + c * l
      BY <1>8, <3>1, <3>2
    <3>4. z = Or(a, N - l)
      BY <1>4, <1>5, <1>12 DEF z
    <3> QED
      BY <3>2, <3>3, <3>4
  <2>2. z \in Word
    BY <1>5, <2>0, <2>1
  <2>3. ASSUME n < WordBits PROVE Signed(z) * k <= Signed(x) /\ Signed(x) < (Signed(z) + 1) * k
    <3>1. z >= H
      <4>1. CASE n = 0
        <5>1. k = 1 /\ l = N
          BY <1>10, <4>1
        <5>2. a * 1 = a /\ (a + 1) * 1 = a + 1
          BY <1>3
        <5>3. a = x
          BY <1>2, <1>3, <5>1, <5>2
        <5> QED
          BY <1>1, <1>2, <1>12, <2>1, <5>1, <5>3
      <4>2. CASE l <= H
        BY <1>1, <1>3, <2>1, <4>2
      <4> QED
        BY <1>9, <2>3, <4>1, <4>2
    <3>2. Signed(z) = a - l /\ Signed(x) = x - N
      BY <1>1, <1>2, <1>3, <1>6, <1>12, <2>1, <3>1
    <3>3. (a - l) * k = a * k - N /\ ((a - l) + 1) * k = (a + 1) * k - N
      <4>1. (a - l) * k = a * k - l * k
        BY <1>3
      <4>2. ((a - l) + 1) * k = (a + 1) * k - l * k
        BY <1>3
      <4> QED
        BY <1>3, <4>1, <4>2
    <3>4. a * k \in Int /\ (a + 1) * k \in Int /\ N \in Int
      BY <1>1, <1>3
    <3>5. (a - l) * k <= x - N /\ x - N < ((a - l) + 1) * k
      <4> DEFINE p == a * k
                 q == (a + 1) * k
      <4>1. p <= x /\ x < q /\ p \in Int /\ q \in Int
        BY <1>3, <3>4
      <4>2. (a - l) * k = p - N /\ ((a - l) + 1) * k = q - N
        BY <3>3
      <4> HIDE DEF p, q
      <4>3. p - N <= x - N /\ x - N < q - N
        BY <1>2, <3>4, <4>1
      <4> QED
        BY <4>2, <4>3
    <3> QED
      BY <3>2, <3>5
  <2> QED
    BY <2>2, <2>3 DEF z, k
<1> QED
  BY <1>11, <1>12

(* The results of shifts. *)
LEMMA ShiftsMeet ==
    ASSUME NEW x \in Word, NEW y \in Word, NEW op \in Shift, NEW z \in Values(op, x, y)
    PROVE  z \in Word /\ Meets(op, x, y, z)
<1>1. \A n \in Amounts(y) : n \in 0 .. WordBits /\ (y < WordBits => n = y)
  BY AmountsBelow
<1>2. CASE op = "sl"
  <2>1. z \in {ShiftLeft(x, n) : n \in Amounts(y)}
    BY <1>2 DEF Values, Shifted
  <2>2. PICK n \in Amounts(y) : z = Wrap(x * 2^n)
    BY <2>1 DEF ShiftLeft
  <2>3. Meets("sl", x, y, z) <=> (y < WordBits => ((z - x * 2^y) % 2^WordBits) = 0)
    BY DEF Meets
  <2> DEFINE N == 2^WordBits
             i == x * 2^n
  <2>4. N \in Nat \ {0}
    BY Widths, Power
  <2>5. i \in Int
    <3>1. n \in Nat /\ x \in Int
      BY <1>1, Widths, SignedFacts
    <3>2. 2^n \in Int
      BY <3>1, Power
    <3> QED
      BY <3>1, <3>2
  <2>6. y < WordBits => i = x * 2^y
    BY <1>1
  <2> HIDE DEF N, i
  <2>7. z = Wrap(i)
    BY <2>2 DEF i
  <2>8. PICK c1 \in Int : z = i + c1 * N
    BY <2>5, <2>7, WrapFacts DEF N
  <2>9. z \in Word
    BY <2>5, <2>7, WrapFacts
  <2>10. z - i = c1 * N
    BY <2>4, <2>5, <2>8
  <2>11. ((z - i) % N) = 0
    BY <2>4, <2>10, MultipleMod
  <2> QED
    BY <1>2, <2>3, <2>6, <2>9, <2>11 DEF N
<1>3. CASE op = "sr"
  <2>1. z \in {ShiftSigned(x, n) : n \in Amounts(y)}
    BY <1>3 DEF Values, Shifted
  <2>2. PICK n \in Amounts(y) : z = ShiftSigned(x, n)
    BY <2>1
  <2>3. Meets("sr", x, y, z) <=>
            (y < WordBits => Signed(z) * 2^y <= Signed(x) /\ Signed(x) < (Signed(z) + 1) * 2^y)
    BY DEF Meets
  <2>4. n \in 0 .. WordBits /\ (y < WordBits => n = y)
    BY <1>1
  <2>5. /\ z \in Word
        /\ n < WordBits => Signed(z) * 2^n <= Signed(x) /\ Signed(x) < (Signed(z) + 1) * 2^n
    BY <2>2, <2>4, ShiftSignedFacts
  <2> QED
    BY <1>3, <2>3, <2>4, <2>5
<1>4. CASE op = "sru"
  <2>1. z \in {ShiftRight(x, n) : n \in Amounts(y)}
    BY <1>4 DEF Values, Shifted
  <2>2. PICK n \in Amounts(y) : z = ShiftRight(x, n)
    BY <2>1
  <2>3. Meets("sru", x, y, z) <=> (y < WordBits => z * 2^y <= x /\ x < (z + 1) * 2^y)
    BY DEF Meets
  <2>4. n \in 0 .. WordBits /\ (y < WordBits => n = y)
    BY <1>1
  <2>5. z \in Word /\ z * 2^n <= x /\ x < (z + 1) * 2^n
    BY <2>2, <2>4, ShiftRightFacts
  <2> QED
    BY <1>4, <2>3, <2>4, <2>5
<1> QED
  BY <1>2, <1>3, <1>4 DEF Shift

-----------------------------------------------------------------------------
(* The decode table *)

(* The operation of an instruction with an immediate, and how that is       *)
(* extended.                                                                *)
LEMMA ImmediateOperations ==
    \A op \in DOMAIN Immediate :
        Immediate[op][1] \in {"add", "mul", "and", "or", "xor", "nor", "xnor"} \cup Shift \cup Compare
BY DEF Immediate, Shift, Compare

(* Its result is there two cycles after the instruction is issued, at most; *)
(* a division's before the next instruction can be.                         *)
LEMMA Latencies ==
    ASSUME NEW op
    PROVE  /\ IssueCycles(op) \in Nat \ {0} /\ ResultCycles(op) \in Nat
           /\ Left(ResultCycles(op), IssueCycles(op)) \in 0 .. 2
           /\ op \in Divide => IssueCycles(op) = 34 /\ Left(ResultCycles(op), 34) = 0
<1>1. Operation(op) \in Divide <=> op \in Divide
  <2>1. CASE op \in DOMAIN Immediate
    <3>1. Operation(op) \notin Divide
      BY <2>1, ImmediateOperations DEF Operation, Divide, Shift, Compare
    <3>2. op \notin Divide
      BY <2>1 DEF Immediate, Divide
    <3> QED
      BY <3>1, <3>2
  <2>2. CASE op \notin DOMAIN Immediate
    BY <2>2 DEF Operation
  <2> QED
    BY <2>1, <2>2
<1>2. CASE op \in Divide
  <2>1. IssueCycles(op) = 34 /\ ResultCycles(op) = 34
    BY <1>1, <1>2 DEF IssueCycles, ResultCycles, Divide, Branch, Load, Shift, Compare
  <2> QED
    BY <1>2, <2>1 DEF Left
<1>3. CASE op \notin Divide
  <2>1. IssueCycles(op) \in {4, 1}
    BY <1>3 DEF IssueCycles
  <2>2. ResultCycles(op) \in {3, 2, 1}
    BY <1>1, <1>3 DEF ResultCycles
  <2> QED
    BY <1>3, <2>1, <2>2 DEF Left
<1> QED
  BY <1>2, <1>3

(* An instruction's fields. *)
LEMMA Fields == \A i \in Instr : i.reg0 \in Reg /\ i.reg1 \in Reg /\ i.reg2 \in Reg /\ i # NoInstr
<1>1. \A i \in Instr : i.reg0 \in Reg /\ i.reg1 \in Reg /\ i.reg2 \in Reg
  BY RegAssumption DEF Instr
<1>2. \A i \in Instr : i.op # "none"
  BY DEF Instr, TwoReg, Divide, Shift, Compare, Immediate, Extend, Load, Store, Branch
<1> QED
  BY <1>1, <1>2 DEF NoInstr

-----------------------------------------------------------------------------
(* Stalls *)

(* The greatest of three numbers of which one is 0. *)
LEMMA MaxWithZero ==
    \A p, q \in Int : /\ Max({0, p, q}) \in {0, p, q}
                      /\ \A y \in {0, p, q} : Max({0, p, q}) >= y
<1> SUFFICES ASSUME NEW p \in Int, NEW q \in Int
             PROVE  /\ Max({0, p, q}) \in {0, p, q}
                    /\ \A y \in {0, p, q} : Max({0, p, q}) >= y
  OBVIOUS
<1>1. \E x \in {0, p, q} : \A y \in {0, p, q} : x >= y
  BY Z3
<1> QED
  BY <1>1 DEF Max

(* An instruction awaits every register it looks up, and no time that is    *)
(* negative.                                                                *)
LEMMA StallCovers ==
    ASSUME NEW i \in Instr, due \in [Reg -> Nat], NEW waited \in Nat
    PROVE  /\ calc_stall(i, waited) \in Nat
           /\ \A x \in Sources(i) : due[x] - waited <= calc_stall(i, waited)
<1> DEFINE a == due[i.reg0] - waited
           b == due[i.reg1] - waited
           T == {0} \cup {due[x] - waited : x \in Sources(i)}
<1>1. a \in Int /\ b \in Int
  BY Fields
<1>2. Sources(i) \in {{}, {i.reg0}, {i.reg0, i.reg1}}
  BY DEF Sources
<1>3. T \in {{0, 0, 0}, {0, a, 0}, {0, a, b}}
  BY <1>2
<1>4. calc_stall(i, waited) = Max(T)
  BY DEF calc_stall
<1>5. 0 \in T /\ \A x \in Sources(i) : due[x] - waited \in T
  OBVIOUS
<1> HIDE DEF a, b, T
<1>6. Max(T) \in T /\ \A y \in T : Max(T) >= y
  <2>1. \E p, q \in Int : T = {0, p, q}
    BY <1>1, <1>3
  <2>2. PICK p \in Int, q \in Int : T = {0, p, q}
    BY <2>1
  <2> QED
    BY <2>2, MaxWithZero, Zenon
<1>7. T \subseteq Int
  BY <1>1, <1>3
<1>8. Max(T) \in Int /\ Max(T) >= 0
  BY <1>5, <1>6, <1>7
<1>9. ASSUME NEW x \in Sources(i) PROVE due[x] - waited <= Max(T)
  <2>1. due[x] - waited \in T /\ due[x] - waited \in Int
    BY <1>5, <1>7
  <2>2. Max(T) >= due[x] - waited
    BY <1>6, <2>1
  <2> QED
    BY <1>8, <2>1, <2>2
<1> QED
  BY <1>4, <1>8, <1>9

-----------------------------------------------------------------------------
(* The scoreboard *)

(* No register is awaited for longer than two cycles, and rt[] agrees with  *)
(* the history.                                                             *)
ScoreInv ==
    /\ due \in [Reg -> 0 .. 2] /\ owed \in [Reg -> 0 .. 2]
    /\ d \in Instr \cup {NoInstr}
    /\ \A x \in Reg : due[x] = owed[x]

(* Time passes for both alike. *)
LEMMA PassScore ==
    ASSUME ScoreInv, NEW n \in Nat, Pass(n), d' \in Instr \cup {NoInstr}
    PROVE  ScoreInv'
<1>1. \A x \in Reg : Left(due[x], n) \in 0 .. 2 /\ Left(due[x], n) = Left(owed[x], n)
  BY DEF ScoreInv, Left
<1> QED
  BY <1>1 DEF Pass, ScoreInv

(* A stall is a number of cycles. *)
LEMMA SpentIsNat ==
    ASSUME ScoreInv, d # NoInstr, NEW waited \in Nat
    PROVE  /\ d \in Instr
           /\ waited + calc_stall(d, waited) + IssueCycles(d.op) \in Nat
           /\ waited + calc_stall(d, waited) + IssueCycles(d.op) >= IssueCycles(d.op)
<1>1. d \in Instr /\ due \in [Reg -> Nat]
  BY DEF ScoreInv
<1>2. calc_stall(d, waited) \in Nat /\ IssueCycles(d.op) \in Nat
  BY <1>1, StallCovers, Latencies
<1> QED
  BY <1>1, <1>2

(* The end of a method: also a division that does not note when its result  *)
(* is there, as that time is over before the next instruction.              *)
LEMMA RetireScore ==
    ASSUME ScoreInv, d # NoInstr, NEW waited \in Nat, NEW noted \in BOOLEAN,
           Retire(d, waited, IssueCycles(d.op), noted), ~noted => d.op \in Divide, d' = NoInstr
    PROVE  ScoreInv'
<1> DEFINE issue == IssueCycles(d.op)
           spent == waited + calc_stall(d, waited) + issue
           wait  == Left(ResultCycles(d.op), issue)
<1>1. wait \in 0 .. 2 /\ (~noted => wait = 0 /\ issue = 34)
  BY Latencies
<1>2. spent \in Nat /\ spent >= issue
  BY SpentIsNat
<1>3. /\ due'  = [x \in Reg |-> IF x = Dest(d) /\ noted THEN wait ELSE Left(due[x], spent)]
      /\ owed' = [x \in Reg |-> IF x = Dest(d) THEN wait ELSE Left(owed[x], spent)]
  BY DEF Retire
<1> HIDE DEF issue, spent, wait
<1>4. ASSUME NEW x \in Reg
      PROVE  /\ Left(due[x], spent) \in 0 .. 2 /\ Left(due[x], spent) = Left(owed[x], spent)
             /\ ~noted => Left(due[x], spent) = 0
  BY <1>1, <1>2 DEF ScoreInv, Left
<1> QED
  BY <1>1, <1>3, <1>4 DEF ScoreInv

(* Every step keeps the scoreboard. *)
LEMMA ScoreStep == ScoreInv /\ [Next]_vars => ScoreInv'
<1> SUFFICES ASSUME ScoreInv, [Next]_vars PROVE ScoreInv'
  OBVIOUS
<1>1. ASSUME NEW i \in Instr, Decode(i) PROVE ScoreInv'
  <2>1. PICK w \in Waits : Pass(w)
    BY <1>1 DEF Decode
  <2> QED
    BY <1>1, <2>1, PassScore, RegAssumption DEF Decode
<1>2. ASSUME d # NoInstr, Execute PROVE ScoreInv'
  <2>1. CASE Trap
    BY <2>1 DEF Trap, ScoreInv
  <2>2. CASE ~Trap
    <3>1. d' = NoInstr /\ d \in Instr /\ IssueCycles(d.op) \in Nat
      BY <1>2, <2>2, Latencies DEF Execute, Reserved, DivideByZero, Compute, Jump, Register, Call,
         Read, Write, ReadCsr, WriteCsr, Raise, Done, ScoreInv
    <3>2. CASE Pass(IssueCycles(d.op))
      BY <3>1, <3>2, PassScore
    <3>3. ASSUME NEW w \in Nat, NEW issue \in {IssueCycles(d.op), NotTakenCycles}, Spend(d, w, issue)
          PROVE  ScoreInv'
      <4>1. w + calc_stall(d, w) + issue \in Nat
        BY <1>2, <3>1, StallCovers DEF ScoreInv, NotTakenCycles
      <4> QED
        BY <3>1, <3>3, <4>1, PassScore DEF Spend
    <3>4. ASSUME NEW w \in Nat, NEW noted \in BOOLEAN, ~noted => d.op \in Divide,
                 Retire(d, w, IssueCycles(d.op), noted)
          PROVE  ScoreInv'
      BY <1>2, <3>1, <3>4, RetireScore
    <3>5. CASE Compute
      <4> DEFINE noted == d.op \in Divide => r'[d.reg1] # 0
      <4>1. noted \in BOOLEAN /\ (~noted => d.op \in Divide) /\ Retire(d, 0, IssueCycles(d.op), noted)
        BY <3>5 DEF Compute
      <4> HIDE DEF noted
      <4> QED
        BY <3>4, <4>1
    <3>6. CASE Read
      BY <3>4, <3>6, RegAssumption DEF Read
    <3>7. CASE Write
      BY <3>3, <3>7, RegAssumption DEF Write
    <3>8. CASE Jump
      BY <3>3, <3>8 DEF Jump
    <3>9. CASE DivideByZero
      BY <3>3, <3>9 DEF DivideByZero
    <3>10. CASE Call \/ ReadCsr
      BY <3>4, <3>10 DEF Call, ReadCsr
    <3>11. CASE Reserved \/ Register \/ WriteCsr \/ Raise
      BY <3>2, <3>11 DEF Reserved, Register, WriteCsr, Raise
    <3> QED
      BY <1>2, <2>2, <3>5, <3>6, <3>7, <3>8, <3>9, <3>10, <3>11 DEF Execute
  <2> QED
    BY <2>1, <2>2
<1>3. CASE UNCHANGED vars
  BY <1>3 DEF vars, ScoreInv
<1> QED
  BY <1>1, <1>2, <1>3 DEF Next, Killed

(* Always. *)
LEMMA SpecScore == Spec => []ScoreInv
<1>1. Init => ScoreInv
  BY DEF Init, ScoreInv
<1> QED
  BY <1>1, ScoreStep, PTL DEF Spec

-----------------------------------------------------------------------------
(* The registers *)

(* What every operation leaves is a word, and the one it should be. *)
LEMMA ResultsMeet ==
    ASSUME NEW x \in Word, NEW y \in Word,
           NEW op \in {"add", "sub", "mul", "and", "or", "xor", "nor", "xnor"} \cup Divide \cup Shift \cup Compare \cup Extend,
           op \in Divide => y # 0, NEW z \in Values(op, x, y)
    PROVE  z \in Word /\ Meets(op, x, y, z)
<1>1. CASE op \in {"add", "sub", "mul"}
  BY <1>1, SumsMeet
<1>2. CASE op \in {"and", "or", "xor", "nor", "xnor"}
  BY <1>2, LogicalMeets
<1>3. CASE op \in Divide
  BY <1>3, DivisionsMeet
<1>4. CASE op \in Shift
  BY <1>4, ShiftsMeet
<1>5. CASE op \in Compare
  BY <1>5, ComparisonsMeet
<1>6. CASE op \in Extend
  BY <1>6, ExtensionsMeet
<1> QED
  BY <1>1, <1>2, <1>3, <1>4, <1>5, <1>6

(* A word is what any narrower field holds. *)
LEMMA NarrowWords ==
    ASSUME NEW n \in {ByteBits, HalfBits}, NEW u \in 0 .. 2^n - 1
    PROVE  u \in Word
<1>1. n \in Nat /\ WordBits \in Nat /\ n < WordBits
  BY Widths
<1>2. 2^n < 2^WordBits /\ 2^n \in Nat /\ 2^WordBits \in Nat
  BY <1>1, PowerOrder, Power
<1> QED
  BY <1>2 DEF Word

(* The kinds of instruction, one by one. *)
LEMMA InstrKinds ==
    ASSUME NEW i \in Instr
    PROVE  /\ Dest(i) \in Reg
           /\ i.op \in Computing => Operation(i.op) \in {"add", "sub", "mul", "and", "or", "xor", "nor", "xnor"}
                                      \cup Divide \cup Shift \cup Compare \cup Extend
           /\ i.op \in DOMAIN Immediate => i.imm \in Imm /\ i.op \notin Divide
           /\ Operation(i.op) \in Divide => i.op \in Divide
<1>1. Dest(i) \in Reg
  BY Fields, RegAssumption DEF Dest
<1>2. CASE i.op \in DOMAIN Immediate
  <2>1. i.op \notin Divide
    BY <1>2 DEF Immediate, Divide
  <2>2. Operation(i.op) \in {"add", "mul", "and", "or", "xor", "nor", "xnor"} \cup Shift \cup Compare
    BY <1>2, ImmediateOperations DEF Operation
  <2>3. Operation(i.op) \notin Divide
    BY <2>2 DEF Divide, Shift, Compare
  <2>4. i.imm \in Imm
    <3> DEFINE D == DOMAIN Immediate
    <3>1. i.op \notin TwoReg /\ i.op \notin Extend /\ i.op \notin Load \cup Store \cup Branch \cup {"bi"}
          /\ i.op \notin {"b", "call"} /\ i.op \notin {"calli", "raise", "reserved"} /\ i.op \notin {"rcsr", "wcsr"}
      BY <1>2 DEF Immediate, TwoReg, Extend, Load, Store, Branch, Divide, Shift, Compare
    <3> HIDE DEF D
    <3> QED
      BY <3>1 DEF Instr, D
  <2> QED
    BY <1>1, <2>1, <2>2, <2>3, <2>4
<1>3. CASE i.op \notin DOMAIN Immediate
  <2>1. Operation(i.op) = i.op
    BY <1>3 DEF Operation
  <2> QED
    BY <1>1, <1>3, <2>1 DEF Computing, TwoReg
<1> QED
  BY <1>2, <1>3

(* Registers hold words: so do operands. *)
LEMMA SecondFacts ==
    ASSUME r \in [Reg -> Word], NEW i \in Instr
    PROVE  /\ Second(i) \in Word /\ r[i.reg0] \in Word
           /\ i.op \in Divide => Second(i) = r[i.reg1]
           /\ i.op \in DOMAIN Immediate =>
                /\ Immediate[i.op][2] = "sign" => Signed(Second(i)) = SignedImm(i.imm)
                /\ Immediate[i.op][2] = "zero" => Second(i) = i.imm
<1>1. r[i.reg0] \in Word /\ r[i.reg1] \in Word
  BY Fields
<1>2. CASE i.op \notin DOMAIN Immediate
  <2>1. Second(i) = r[i.reg1]
    BY <1>2 DEF Second
  <2> QED
    BY <1>1, <1>2, <2>1
<1>3. CASE i.op \in DOMAIN Immediate
  <2> DEFINE kind == Immediate[i.op][2]
  <2>0. i.imm \in 0 .. 2^HalfBits - 1 /\ i.op \notin Divide
    BY <1>3, InstrKinds DEF Imm
  <2>1. kind \in {"sign", "zero", "high"}
    BY <1>3 DEF Immediate
  <2>2. CASE kind = "sign"
    <3>1. Second(i) = SignExt(i.imm, HalfBits)
      BY <1>3, <2>2 DEF Second
    <3>2. Second(i) \in Word /\ Signed(Second(i)) = SignedImm(i.imm)
      BY <2>0, <3>1, SignExtFacts DEF SignedImm
    <3> QED
      BY <1>1, <2>0, <2>2, <3>2
  <2>3. CASE kind = "zero"
    <3>1. Second(i) = i.imm
      BY <1>3, <2>3 DEF Second
    <3>2. i.imm \in Word
      BY <2>0, NarrowWords
    <3> QED
      BY <1>1, <2>0, <2>3, <3>1, <3>2
  <2>4. CASE kind = "high"
    <3>1. Second(i) = Wrap(i.imm * 2^(WordBits - HalfBits))
      BY <1>3, <2>4 DEF Second, ShiftLeft
    <3>2. WordBits - HalfBits \in Nat
      BY Widths
    <3>3. i.imm * 2^(WordBits - HalfBits) \in Int
      <4>1. i.imm \in Int /\ 2^(WordBits - HalfBits) \in Int
        BY <2>0, <3>2, Power
      <4> QED
        BY <4>1
    <3>4. Second(i) \in Word
      BY <3>1, <3>3, WrapFacts
    <3> QED
      BY <1>1, <2>0, <2>4, <3>4
  <2> QED
    BY <2>1, <2>2, <2>3, <2>4
<1> QED
  BY <1>2, <1>3

(* What a load may bring. *)
LEMMA LoadableWords == \A op \in Load : Loadable(op) \subseteq Word
<1> SUFFICES ASSUME NEW op \in Load, NEW v \in Loadable(op) PROVE v \in Word
  OBVIOUS
<1>1. CASE op = "lb"
  <2>1. v \in {SignExt(u, ByteBits) : u \in 0 .. 2^ByteBits - 1}
    BY <1>1 DEF Loadable
  <2> QED
    BY <2>1, SignExtFacts
<1>2. CASE op = "lbu"
  <2>1. v \in 0 .. 2^ByteBits - 1
    BY <1>2 DEF Loadable
  <2> QED
    BY <2>1, NarrowWords
<1>3. CASE op = "lh"
  <2>1. v \in {SignExt(u, HalfBits) : u \in 0 .. 2^HalfBits - 1}
    BY <1>3 DEF Loadable
  <2> QED
    BY <2>1, SignExtFacts
<1>4. CASE op = "lhu"
  <2>1. v \in 0 .. 2^HalfBits - 1
    BY <1>4 DEF Loadable
  <2> QED
    BY <2>1, NarrowWords
<1>5. CASE op = "lw"
  BY <1>5 DEF Loadable
<1> QED
  BY <1>1, <1>2, <1>3, <1>4, <1>5 DEF Load

(* The result of a computation. *)
LEMMA ComputeResult ==
    ASSUME r \in [Reg -> Word], d \in Instr, Compute
    PROVE  \E v \in Word : /\ r' = [r EXCEPT ![Dest(d)] = v]
                           /\ Meets(Operation(d.op), r[d.reg0], Second(d), v)
<1>1. PICK v \in Values(Operation(d.op), r[d.reg0], Second(d)) : r' = [r EXCEPT ![Dest(d)] = v]
  BY DEF Compute
<1>2. d.op \in Computing /\ (d.op \in Divide => r[d.reg1] # 0)
  BY DEF Compute
<1> DEFINE op == Operation(d.op)
           x == r[d.reg0]
           y == Second(d)
<1>3. x \in Word /\ y \in Word /\ (d.op \in Divide => y = r[d.reg1])
  BY SecondFacts
<1>4. op \in {"add", "sub", "mul", "and", "or", "xor", "nor", "xnor"} \cup Divide \cup Shift \cup Compare \cup Extend
      /\ (op \in Divide => d.op \in Divide)
  BY <1>2, InstrKinds
<1>5. v \in Values(op, x, y)
  BY <1>1
<1> HIDE DEF op, x, y
<1>6. v \in Word /\ Meets(op, x, y, v)
  BY <1>2, <1>3, <1>4, <1>5, ResultsMeet
<1> QED
  BY <1>1, <1>6 DEF op, x, y

(* What holds between the steps. *)
RegisterInv ==
    /\ r \in [Reg -> Word] /\ cfg \in Configs /\ alive \in BOOLEAN
    /\ raised \in {{}} \cup {{f} : f \in {"IBUSERROR", "DBUSERROR", "DIVZERO", "BREAKPOINT", "SYSCALL"}}
    /\ flow \in {"next", "target", "register", "stays"}

(* Every step keeps it: what is written is a word. *)
LEMMA RegisterStep == ScoreInv /\ RegisterInv /\ [Next]_vars => RegisterInv'
<1> SUFFICES ASSUME ScoreInv, RegisterInv, [Next]_vars PROVE RegisterInv'
  OBVIOUS
<1> DEFINE F == {"IBUSERROR", "DBUSERROR", "DIVZERO", "BREAKPOINT", "SYSCALL"}
           Raisable == {{}} \cup {{f} : f \in F}
           Flows == {"next", "target", "register", "stays"}
<1>0. r \in [Reg -> Word] /\ cfg \in Configs /\ alive \in BOOLEAN /\ raised \in Raisable /\ flow \in Flows
      /\ d \in Instr \cup {NoInstr}
  BY DEF RegisterInv, ScoreInv
<1>a. ASSUME r' \in [Reg -> Word], cfg' \in Configs, alive' \in BOOLEAN, raised' \in Raisable, flow' \in Flows
      PROVE  RegisterInv'
  BY <1>a DEF RegisterInv
<1>b. ASSUME NEW x \in Reg, NEW v \in Word, r' = [r EXCEPT ![x] = v] PROVE r' \in [Reg -> Word]
  BY <1>0, <1>b
<1>c. {} \in Raisable /\ \A f \in F : {f} \in Raisable
  OBVIOUS
<1> HIDE DEF Raisable
<1>d. ASSUME NEW fl \in Raisable, NEW to \in Flows, Done(fl, to), r' \in [Reg -> Word], alive' = alive
      PROVE  RegisterInv'
  BY <1>0, <1>a, <1>d DEF Done
<1>1. ASSUME NEW i \in Instr, Decode(i) PROVE RegisterInv'
  <2>1. r' \in [Reg -> Word]
    BY <1>0, <1>1, <1>b, RegAssumption DEF Decode
  <2> QED
    BY <1>0, <1>1, <1>a, <1>c, <2>1 DEF Decode
<1>2. ASSUME d # NoInstr, Execute PROVE RegisterInv'
  <2>0. d \in Instr
    BY <1>0, <1>2
  <2>1. CASE Trap
    BY <1>0, <1>a, <2>1 DEF Trap
  <2>2. CASE Reserved
    BY <1>0, <1>c, <1>d, <2>2 DEF Reserved
  <2>3. CASE DivideByZero
    BY <1>0, <1>c, <1>d, <2>3 DEF DivideByZero
  <2>4. CASE Compute
    <3>1. r' \in [Reg -> Word]
      BY <1>0, <1>b, <2>0, <2>4, ComputeResult, InstrKinds
    <3> QED
      BY <1>c, <1>d, <2>4, <3>1 DEF Compute
  <2>5. CASE Jump
    BY <1>0, <1>c, <1>d, <2>5 DEF Jump
  <2>6. CASE Register
    BY <1>0, <1>c, <1>d, <2>6 DEF Register
  <2>7. CASE Call
    BY <1>b, <1>c, <1>d, <2>7, RegAssumption DEF Call
  <2>8. CASE Read
    <3>1. PICK fails \in BOOLEAN :
             /\ \E v \in IF fails THEN {0} ELSE Loadable(d.op) : r' = [r EXCEPT ![Dest(d)] = v]
             /\ Done(IF fails THEN {"DBUSERROR"} ELSE {}, "next")
      BY <2>8 DEF Read
    <3>2. (IF fails THEN {0} ELSE Loadable(d.op)) \subseteq Word
      BY <2>8, LoadableWords, BoolIsWord DEF Read, Bool
    <3>3. r' \in [Reg -> Word]
      BY <1>b, <2>0, <3>1, <3>2, InstrKinds
    <3>4. (IF fails THEN {"DBUSERROR"} ELSE {}) \in Raisable
      BY <1>c
    <3>5. alive' = alive
      BY <2>8 DEF Read
    <3> QED
      BY <1>d, <3>1, <3>3, <3>4, <3>5
  <2>9. CASE Write
    <3>1. PICK flags \in {{}, {"DBUSERROR"}} : Done(flags, "next")
      BY <2>9 DEF Write
    <3> QED
      BY <1>0, <1>c, <1>d, <2>9, <3>1 DEF Write
  <2>10. CASE ReadCsr
    BY <1>b, <1>c, <1>d, <2>0, <2>10, Fields DEF ReadCsr
  <2>11. CASE WriteCsr
    BY <1>0, <1>c, <1>d, <2>11 DEF WriteCsr
  <2>12. CASE Raise
    <3>1. PICK flags \in {{}, {"BREAKPOINT"}, {"SYSCALL"}} : Done(flags, "stays")
      BY <2>12 DEF Raise
    <3> QED
      BY <1>0, <1>c, <1>d, <2>12, <3>1 DEF Raise
  <2> QED
    BY <1>2, <2>1, <2>2, <2>3, <2>4, <2>5, <2>6, <2>7, <2>8, <2>9, <2>10, <2>11, <2>12 DEF Execute
<1>3. CASE UNCHANGED vars
  BY <1>0, <1>3, <1>a DEF vars
<1> QED
  BY <1>1, <1>2, <1>3 DEF Next, Killed

(* Always. *)
LEMMA SpecRegisters == Spec => []RegisterInv
<1>1. Init => RegisterInv
  BY DEF Init, RegisterInv
<1> QED
  BY <1>1, RegisterStep, SpecScore, PTL DEF Spec

-----------------------------------------------------------------------------
(* The theorems *)

(* The scoreboard promises every register for the cycle it is delivered:    *)
(* also where a division looks at its divisor after its result is written.  *)
THEOREM ScoreboardIsExact == Spec => []ScoreboardExact
<1>1. ScoreInv => ScoreboardExact
  BY DEF ScoreInv, ScoreboardExact
<1> QED
  BY <1>1, SpecScore, PTL

(* The registers an instruction checks are all it uses, but for those named *)
(* in Unchecked.                                                            *)
LEMMA SourcesCover == \A i \in Instr : Operands(i) \ Unchecked(i) \subseteq Sources(i)
<1> SUFFICES ASSUME NEW i \in Instr PROVE Operands(i) \ Unchecked(i) \subseteq Sources(i)
  OBVIOUS
<1> USE DEF TwoReg, Divide, Shift, Compare, Extend, Load, Store, Branch, Immediate
<1>1. CASE i.op \in TwoReg \cup Branch
  BY <1>1 DEF Operands, Sources
<1>2. CASE i.op \in Store
  BY <1>2 DEF Operands, Unchecked, Sources
<1>3. CASE i.op \in DOMAIN Immediate \cup Extend \cup Load \cup {"call"}
  BY <1>3 DEF Operands, Sources
<1>4. CASE i.op \in {"b", "wcsr"}
  BY <1>4 DEF Operands, Unchecked
<1>5. CASE i.op \in {"bi", "calli", "raise", "reserved", "rcsr"}
  BY <1>5 DEF Operands
<1> QED
  BY <1>1, <1>2, <1>3, <1>4, <1>5 DEF Instr

(* No instruction goes on before the operands it checks are delivered.      *)
THEOREM NothingReadEarly == Spec => OperandsReady
<1>1. ASSUME ScoreInv
      PROVE  Completes => \A x \in Operands(d) \ Unchecked(d) : owed[x] <= calc_stall(d, 0)
  <2>1. SUFFICES ASSUME d # NoInstr, NEW x \in Operands(d) \ Unchecked(d)
                 PROVE  owed[x] <= calc_stall(d, 0)
    BY DEF Completes
  <2>2. d \in Instr /\ due \in [Reg -> Nat]
    BY <1>1, <2>1 DEF ScoreInv
  <2>3. x \in Sources(d)
    BY <2>1, <2>2, SourcesCover
  <2>4. x \in Reg
    BY <2>2, <2>3, Fields DEF Sources
  <2>5. due[x] - 0 <= calc_stall(d, 0) /\ calc_stall(d, 0) \in Nat
    BY <2>2, <2>3, StallCovers
  <2> QED
    BY <1>1, <2>2, <2>4, <2>5 DEF ScoreInv
<1> QED
  BY <1>1, SpecScore, PTL DEF OperandsReady

(* The condition of a branch and the comparison of the same name are        *)
(* computed apart, and agree.                                               *)
LEMMA TakenIsCompared ==
    ASSUME NEW op \in Branch, NEW x, NEW y
    PROVE  Taken(op, x, y) <=> 1 \in Values(Comparison[op], x, y)
<1> USE DEF Taken, Comparison, Values, Compared, Bool
<1>1. CASE op = "be"
  BY <1>1
<1>2. CASE op = "bne"
  BY <1>2
<1>3. CASE op = "bg"
  BY <1>3
<1>4. CASE op = "bge"
  BY <1>4
<1>5. CASE op = "bgu"
  BY <1>5
<1>6. CASE op = "bgeu"
  BY <1>6
<1> QED
  BY <1>1, <1>2, <1>3, <1>4, <1>5, <1>6 DEF Branch

(* A branch goes where the comparison instruction says.                     *)
THEOREM BranchesAsCompared == Spec => FlowAsCompared
<1> DEFINE One == 1 \in Values(Comparison[d.op], r[d.reg0], r[d.reg1])
<1>1. ASSUME [Next]_vars, Completes, d.op \in Branch
      PROVE  (flow' = "target") = One
  <2>1. Execute
    BY <1>1 DEF Next, Completes, Decode, Killed, vars
  <2>2. Jump
    BY <1>1, <2>1 DEF Execute, Reserved, DivideByZero, Trap, Compute, Register, Call, Read, Write,
       ReadCsr, WriteCsr, Raise, Computing, TwoReg, Divide, Shift, Compare, Extend, Immediate,
       Load, Store, Branch
  <2>3. flow' = IF Taken(d.op, r[d.reg0], r[d.reg1]) THEN "target" ELSE "next"
    BY <1>1, <2>2 DEF Jump, Done, Branch
  <2>4. Taken(d.op, r[d.reg0], r[d.reg1]) <=> One
    BY <1>1, TakenIsCompared
  <2>5. One \in BOOLEAN
    OBVIOUS
  <2> HIDE DEF One
  <2>6. (flow' = "target") <=> One
    BY <2>3, <2>4
  <2> QED
    BY <2>5, <2>6, Zenon
<1> QED
  BY <1>1, PTL DEF Spec, FlowAsCompared

(* The registers hold words and the scoreboard never runs ahead: in any     *)
(* width, whatever shifts, divisions and extensions are executed.           *)
THEOREM TypeCorrect == Spec => []TypeOK
<1>1. ScoreInv /\ RegisterInv => TypeOK
  BY DEF ScoreInv, RegisterInv, TypeOK
<1> QED
  BY <1>1, SpecScore, SpecRegisters, PTL

(* Every instruction leaves the result that two's complement arithmetic      *)
(* defines, for words of any width: divisions cut towards zero, shifts to    *)
(* the right emulate an arithmetic one, logical operations bit by bit.       *)
THEOREM ResultsCorrect == Spec => ResultsAsDefined
<1> DEFINE Right ==
             /\ Meets(Operation(d.op), r[d.reg0], Second(d), r'[Dest(d)])
             /\ d.op \in DOMAIN Immediate =>
                  LET kind == Immediate[d.op][2]
                  IN /\ kind = "sign" => Signed(Second(d)) = SignedImm(d.imm)
                     /\ kind = "zero" => Second(d) = d.imm
             /\ \A x \in Reg \ {Dest(d)} : r'[x] = r[x]
<1>1. ASSUME ScoreInv, RegisterInv, [Next]_vars, Completes, d.op \in Computing, raised' = {} PROVE Right
  <2>1. Execute /\ d \in Instr /\ r \in [Reg -> Word]
    BY <1>1 DEF Next, Completes, Decode, Killed, vars, ScoreInv, RegisterInv
  <2>2. Compute
    <3>1. ~Reserved /\ ~DivideByZero
      BY <1>1 DEF Reserved, DivideByZero, Done
    <3>2. ~Trap
      BY <1>1 DEF Trap, Completes
    <3> QED
      BY <1>1, <2>1, <3>1, <3>2 DEF Execute, Jump, Register, Call, Read, Write,
       ReadCsr, WriteCsr, Raise, Computing, TwoReg, Divide, Shift, Compare, Extend, Immediate,
       Load, Store, Branch
  <2>3. PICK v \in Word : /\ r' = [r EXCEPT ![Dest(d)] = v]
                          /\ Meets(Operation(d.op), r[d.reg0], Second(d), v)
    BY <2>1, <2>2, ComputeResult
  <2>4. r'[Dest(d)] = v /\ \A x \in Reg \ {Dest(d)} : r'[x] = r[x]
    BY <2>1, <2>3, InstrKinds
  <2>5. Meets(Operation(d.op), r[d.reg0], Second(d), r'[Dest(d)])
    BY <2>3, <2>4
  <2>6. d.op \in DOMAIN Immediate =>
            /\ Immediate[d.op][2] = "sign" => Signed(Second(d)) = SignedImm(d.imm)
            /\ Immediate[d.op][2] = "zero" => Second(d) = d.imm
    BY <2>1, SecondFacts
  <2> QED
    BY <2>4, <2>5, <2>6
<1> HIDE DEF Right
<1>2. Completes /\ d.op \in Computing /\ raised' = {} /\ ScoreInv /\ RegisterInv /\ [Next]_vars => Right
  BY <1>1
<1>3. [](ScoreInv /\ RegisterInv) /\ [][Next]_vars => [][Completes /\ d.op \in Computing /\ raised' = {} => Right]_vars
  BY <1>2, PTL
<1>4. Spec => [][Completes /\ d.op \in Computing /\ raised' = {} => Right]_vars
  BY <1>3, SpecScore, SpecRegisters, PTL DEF Spec
<1> QED
  BY <1>4 DEF ResultsAsDefined, Right
=============================================================================

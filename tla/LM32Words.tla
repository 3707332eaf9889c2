----------------------------- MODULE LM32Words -----------------------------
(***************************************************************************)
(* The arithmetic of lm32_cpu_inst.cpp on words of WordBits bits.  A word  *)
(* is a number; its bits are a set of positions.  The compiler's           *)
(* operators are translated as they are used there: uint32_t wraps, a      *)
(* cast to int32_t reads two's complement, C's division truncates, and     *)
(* what C++ leaves undefined is a choice (Amounts).                        *)
(***************************************************************************)
EXTENDS Integers, FiniteSetsExt

CONSTANTS WordBits,   \* 32
          HalfBits,   \* 16, also the width of an immediate
          ByteBits    \* 8

ASSUME WordAssumption ==
    /\ {WordBits, HalfBits, ByteBits} \subseteq Nat \ {0}
    /\ ByteBits < HalfBits /\ HalfBits < WordBits

Word == 0 .. 2^WordBits - 1
Imm  == 0 .. 2^HalfBits - 1
Mask == 2^WordBits - 1

Wrap(i) == i % 2^WordBits
Signed(x) == IF x >= 2^(WordBits - 1) THEN x - 2^WordBits ELSE x

\* SIGN_EXT8, SIGN_EXT16: the bits above the low n are set if bit n-1 is.
SignExt(x, n) == IF x >= 2^(n - 1) THEN x + (2^WordBits - 2^n) ELSE x

BitsOf(x) == {i \in 0 .. WordBits - 1 : (x \div 2^i) % 2 = 1}
WordOf(S) == CHOOSE w \in Word : BitsOf(w) = S

And(x, y) == WordOf(BitsOf(x) \cap BitsOf(y))
Or(x, y)  == WordOf(BitsOf(x) \cup BitsOf(y))
Xor(x, y) == WordOf((BitsOf(x) \cup BitsOf(y)) \ (BitsOf(x) \cap BitsOf(y)))
Not(x)    == Mask - x

\* A shift by the width or more is undefined in C++: the machine's shift
\* takes the amount modulo the width, or shifts everything out.
Amounts(n) == IF n < WordBits THEN {n} ELSE {n % WordBits, WordBits}

ShiftLeft(x, n)  == Wrap(x * 2^n)
ShiftRight(x, n) == x \div 2^n

\* sr and sri emulate the arithmetic shift: the sign, if set, is ORed into
\* the bits that the logical shift has cleared.
ShiftSigned(x, n) ==
    Or(ShiftRight(x, n), IF Signed(x) < 0 THEN Not(ShiftRight(Mask, n)) ELSE 0)

Abs(i) == IF i < 0 THEN -i ELSE i

\* C's / and % on signed operands: towards zero, the remainder has the sign
\* of the dividend.
Quotient(i, j)  == LET q == Abs(i) \div Abs(j) IN IF (i < 0) = (j < 0) THEN q ELSE -q
Remainder(i, j) == i - j * Quotient(i, j)

\* INT_MIN / -1 has no int32_t: undefined, and on some machines a trap.
Overflows(x, y) == Signed(x) = -(2^(WordBits - 1)) /\ Signed(y) = -1

Bool(b) == IF b THEN 1 ELSE 0

(***************************************************************************)
(* The values an operation may leave in its destination, for operands x    *)
(* and y that are words (y # 0 where it divides).                          *)
(***************************************************************************)
Arithmetic(op, x, y) ==
    CASE op = "add"  -> Wrap(x + y)
      [] op = "sub"  -> Wrap(x - y)
      [] op = "div"  -> Wrap(Quotient(Signed(x), Signed(y)))
      [] op = "divu" -> x \div y
      [] op = "mod"  -> Wrap(Remainder(Signed(x), Signed(y)))
      [] op = "modu" -> x % y

Multiplied(op, x, y) ==
    CASE op = "mul"   -> Wrap(x * y)
      [] op = "sextb" -> SignExt(x % 2^ByteBits, ByteBits)
      [] op = "sexth" -> SignExt(x % 2^HalfBits, HalfBits)

Compared(op, x, y) ==
    CASE op = "cmpe"   -> Bool(x = y)
      [] op = "cmpne"  -> Bool(x # y)
      [] op = "cmpg"   -> Bool(Signed(x) > Signed(y))
      [] op = "cmpge"  -> Bool(Signed(x) >= Signed(y))
      [] op = "cmpgu"  -> Bool(x > y)
      [] op = "cmpgeu" -> Bool(x >= y)

Shifted(op, x, y) ==
    CASE op = "sl"  -> {ShiftLeft(x, n) : n \in Amounts(y)}
      [] op = "sr"  -> {ShiftSigned(x, n) : n \in Amounts(y)}
      [] op = "sru" -> {ShiftRight(x, n) : n \in Amounts(y)}

Logical(op, x, y) ==
    CASE op = "and"  -> And(x, y)
      [] op = "or"   -> Or(x, y)
      [] op = "xor"  -> Xor(x, y)
      [] op = "nor"  -> Not(Or(x, y))
      [] op = "xnor" -> Not(Xor(x, y))

Values(op, x, y) ==
    CASE op \in {"add", "sub", "div", "divu", "mod", "modu"} -> {Arithmetic(op, x, y)}
      [] op \in {"mul", "sextb", "sexth"}                    -> {Multiplied(op, x, y)}
      [] op \in {"cmpe", "cmpne", "cmpg", "cmpge", "cmpgu", "cmpgeu"} -> {Compared(op, x, y)}
      [] op \in {"sl", "sr", "sru"}                          -> Shifted(op, x, y)
      [] op \in {"and", "or", "xor", "nor", "xnor"}          -> {Logical(op, x, y)}

\* A branch that compares unsigned words as signed ones.
TakenSigned(op, x, y) ==
    CASE op = "be"   -> x = y
      [] op = "bne"  -> y # x
      [] op \in {"bg", "bgu"}   -> Signed(x) > Signed(y)
      [] op \in {"bge", "bgeu"} -> Signed(x) >= Signed(y)

\* Whether a conditional branch is taken.
Taken(op, x, y) ==
    CASE op = "be"   -> x = y
      [] op = "bne"  -> y # x
      [] op = "bg"   -> Signed(x) > Signed(y)
      [] op = "bge"  -> Signed(x) >= Signed(y)
      [] op = "bgu"  -> x > y
      [] op = "bgeu" -> x >= y
=============================================================================

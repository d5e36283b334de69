--------------------------- MODULE LaneArithmetic ---------------------------
(***************************************************************************)
(* The integer arithmetic the engine maps onto other instructions than the *)
(* reference: the rounding multiply of two signed lanes, and the reduction *)
(* of a 128-bit polynomial to 64 bits by a table lookup.                   *)
(***************************************************************************)
EXTENDS Integers, FiniteSets

----------------------------------------------------------------------------
(* Rounding multiply.  "half" is 2^(w-1) for lanes of w bits.              *)

Lane(half) == -half .. half - 1

Saturate(half, n) == IF n >= half THEN half - 1 ELSE IF n < -half THEN -half ELSE n
Wrap(half, n) == ((n + half) % (2 * half)) - half

\* SQRDMULH: sat((2ab + 2^(w-1)) >> w).
MulhrsFast(half, a, b) == Saturate(half, (2 * a * b + half) \div (2 * half))

\* The same, with all bits flipped where both lanes are the least value.
MulhrsUncorrected(half, a, b) == MulhrsFast(half, a, b)
MulhrsExact(half, a, b) ==
    LET rounded == MulhrsFast(half, a, b)
        bothMin == (IF a > b THEN a ELSE b) = -half
    IN  IF bothMin THEN -rounded - 1 ELSE rounded

\* PMULHRSW: (ab + 2^(w-2)) >> (w-1), truncated to the lane.
RefMulhrs(half, a, b) == Wrap(half, (a * b + half \div 2) \div half)

----------------------------------------------------------------------------
(* Polynomials over GF(2) are the sets of their exponents.                  *)

Sum(A, B) == (A \ B) \cup (B \ A)
Product(A, B) ==
    {n \in {a + b : a \in A, b \in B} : Cardinality({a \in A : n - a \in B}) % 2 = 1}

High64(A) == {e - 64 : e \in {x \in A : x >= 64}}
Low64(A) == {e \in A : e < 64}

\* x^64 is x^4 + x^3 + x + 1 modulo the polynomial of the hash.
Tail == {4, 3, 1, 0}

TableSwapped == <<0, 27, 54, 45, 119, 108, 90, 65, 216, 195, 238, 245, 180, 175, 130, 153>>
Table == <<0, 27, 54, 45, 108, 119, 90, 65, 216, 195, 238, 245, 180, 175, 130, 153>>

\* The bits of a byte, by their weights.
Weight == <<1, 2, 4, 8, 16, 32, 64, 128>>
BitsOf(n) == {e \in 0 .. 7 : (n \div Weight[e + 1]) % 2 = 1}
ByteOf(bits) ==
    LET value[e \in 0 .. 8] ==
          IF e = 0 THEN 0 ELSE value[e - 1] + (IF e - 1 \in bits THEN Weight[e] ELSE 0)
    IN  value[8]

Quotient(A) == Product(High64(A), Tail)

\* Byte k of the product's high half, as a number.
HighByte(A, k) == ByteOf({e - 8 * k : e \in High64(Quotient(A)) \cap (8 * k .. 8 * k + 7)})

\* TBL: a byte for each index byte, zero for an index past the table.
Shuffle(A) ==
    UNION {{8 * k + e : e \in IF HighByte(A, k) < 16 THEN BitsOf(Table[HighByte(A, k) + 1])
                                                     ELSE {}} : k \in 0 .. 7}

Reduction(A) == Low64(Sum(Shuffle(A), Sum(Quotient(A), A)))

\* The reference looks up one byte only, masked, and latches an index past 15.
IndexOverflows(A) == \E k \in 0 .. 7 : HighByte(A, k) > 15
RefReduction(A) ==
    Low64(Sum(BitsOf(Table[(HighByte(A, 0) % 16) + 1]), Sum(Quotient(A), A)))
=============================================================================

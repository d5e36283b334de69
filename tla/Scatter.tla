------------------------------ MODULE Scatter ------------------------------
(***************************************************************************)
(* An interpretation of the nonlinear instructions for the runs of the hash *)
(* engine.  A word is a set of bits; an instruction scatters its operands to  *)
(* a place below the prime P, which every bit of them moves, and yields a     *)
(* vector that spells that place: each word sets other bits, the low two       *)
(* those that selectors are cut out of.  Vectors computed differently are      *)
(* equal only by a collision of places.                                       *)
(***************************************************************************)
EXTENDS Integers

P == 46337

One(w, b, n) == IF b \in w THEN n ELSE 0
Nibble(w, b) == One(w, b, 1) + One(w, b + 1, 2) + One(w, b + 2, 4) + One(w, b + 3, 8)
Byte(w, b) == Nibble(w, b) + (16 * Nibble(w, b + 4))

\* The values of a word's bytes, tabulated.
Values(b) == [w \in SUBSET (b .. b + 7) |-> Byte(w, b)]
Value0 == Values(0)
Value8 == Values(8)
Value16 == Values(16)
Value24 == Values(24)
WordHash(w) ==
    (Value0[w \cap 0 .. 7] + (253 * Value8[w \cap 8 .. 15]) + (7919 * Value16[w \cap 16 .. 23])
       + (30011 * Value24[w \cap 24 .. 31])) % P
VectorHash(v) ==
    IF v = <<{}, {}, {}, {}>> THEN 0
    ELSE (WordHash(v[1]) + (31 * WordHash(v[2])) + (977 * WordHash(v[3]))
            + ((30011 * WordHash(v[4])) % P)) % P

OnesOf(n, last) == {i \in 0 .. last : (n \div 2^i) % 2 = 1}
\* Bits 0-13, 28 and 29 of the low word, 0-8, 29 and 30 of the next.
LowWord(n) == {IF i < 14 THEN i ELSE i + 14 : i \in OnesOf(n, 15)}
NextWord(n) == {IF i < 9 THEN i ELSE i + 20 : i \in OnesOf(n, 10)}
Spread(n) == <<LowWord(((n * 7) + 1) % P), NextWord(((n * 211) + 2) % P),
               OnesOf(((n * 3001) + 3) % P, 15), OnesOf(((n * 40009) + 4) % P, 15)>>
Number(n) == Spread(((n * n * 97) + 12345) % P)

MixTerm(v) == Spread(((VectorHash(v) * 41) + 7) % P)
CarryLessTerm(v) == Spread(((VectorHash(v) * 17) + 5) % P)
\* The mining multiply is the exact one but for some operands.
MulTerm(exact, a, b) ==
    IF ~exact /\ WordHash(a) % 7 = 0 THEN {7}
    ELSE OnesOf(((WordHash(a) * ((WordHash(b) + 13) % P)) + 101) % P, 15)
\* The remainder depends on the low half and the divisor.
DivTerm(v, w) ==
    OnesOf((WordHash(v[1]) + (53 * WordHash(v[2])) + (1009 * (WordHash(w) % 2000))) % P, 15)
=============================================================================

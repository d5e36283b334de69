----------------------------- MODULE StepBodies -----------------------------
(***************************************************************************)
(* One step of the VerusHash walk: the eight bodies of the engine          *)
(* (include/vh22/clhash_bodies.h).  A body maps an accumulator and a key to   *)
(* the accumulator and the key it leaves.                                     *)
(***************************************************************************)
EXTENDS Vectors, Integers, FiniteSets

CONSTANT Mutable   \* kMutableVecs: the vectors of the key a walk may write

ASSUME MutableAssumption == Mutable \in Nat /\ Mutable > 0

\* The round constants that follow the mutable part of the key.
KeyVecs == Mutable + 40
Slots == 0 .. KeyVecs - 1

\* A selector is the low 64 bits of the accumulator, kept as the fields the
\* code cuts out of it and its low 32 bits, the divisor.
Selectors == [base : 0 .. 3, case : 0 .. 7, prand : 0 .. Mutable - 1,
              prandex : 0 .. Mutable - 1, nibble : 0 .. 15, rounds : 0 .. 7,
              low : SUBSET Bits]

Bit(v, p) == IF p < 32 THEN p \in v[1] ELSE p - 32 \in v[2]
Digit(v, p, n) == IF Bit(v, p) THEN n ELSE 0
Bits2(v, p) == Digit(v, p, 1) + Digit(v, p + 1, 2)
Bits3(v, p) == Bits2(v, p) + Digit(v, p + 2, 4)
Bits4(v, p) == Bits3(v, p) + Digit(v, p + 3, 8)
Bits9(v, p) == Bits3(v, p) + (8 * Bits3(v, p + 3)) + (64 * Bits3(v, p + 6))

\* The mask 511 of a slot's index is the number of mutable vectors less one.
SelectorOf(v) ==
    [base |-> Bits2(v, 0), case |-> Bits3(v, 2), prand |-> Bits9(v, 5) % Mutable,
     prandex |-> Bits9(v, 32) % Mutable, nibble |-> Bits4(v, 28), rounds |-> Bits3(v, 61),
     low |-> v[1] \cap Bits]

\* Bits 28 .. 35 of the selector: the nibble and the low bits of prandex.
FieldBit(s, p) ==
    IF p < 4 THEN (s.nibble \div 2^p) % 2 = 1 ELSE (s.prandex \div 2^(p - 4)) % 2 = 1

\* b ^ 1, the index of the other buffer of the pair.
Flip(b) == IF b % 2 = 0 THEN b + 1 ELSE b - 1
FlipIf(b, c) == IF c THEN Flip(b) ELSE b

\* The per-hash constants: the four buffers and their carry-less squares.
StepConst(buf) ==
    LET pbuf == <<Xor(buf[1], buf[3]), Xor(buf[2], buf[4]), buf[3], buf[4]>>
    IN  [pbuf |-> [b \in 0 .. 3 |-> pbuf[b + 1]],
         clprod |-> [b \in 0 .. 3 |-> CarryLess(pbuf[b + 1])]]

\* acc ^ mulhrs(acc, v) of a slot's old value: what most bodies store back.
Stir(exact, acc, v) == Xor(Mulhrs(exact, acc, v), v)

\* Two stores in program order: when the slots are one, the second wins.
StoreNext(key, i, v, j, w) == [[key EXCEPT ![i + 1] = v] EXCEPT ![j] = w]
Store(key, i, v, j, w) == [[key EXCEPT ![i] = v] EXCEPT ![j] = w]

----------------------------------------------------------------------------
(* The engine's bodies.                                                    *)

Case0(exact, s, k, acc, key) ==
    LET temp1 == key[s.prandex]
        temp12 == key[s.prand]
        acc1 == Xor(CarryLess(Xor(temp1, k.pbuf[Flip(s.base)])), acc)
        acc2 == Xor(CarryLess(Xor(temp12, k.pbuf[s.base])), acc1)
    IN  [acc |-> acc2,
         key |-> Store(key, s.prand, Stir(exact, acc1, temp1), s.prandex, Stir(exact, acc2, temp12))]

Case1(exact, s, k, acc, key) ==
    LET temp1 == key[s.prand]
        temp12 == key[s.prandex]
        acc1 == Xor(k.clprod[s.base], Xor(CarryLess(Xor(temp1, k.pbuf[s.base])), acc))
        acc2 == Xor(Xor(temp12, k.pbuf[Flip(s.base)]), acc1)
    IN  [acc |-> acc2,
         key |-> Store(key, s.prandex, Stir(exact, acc1, temp1), s.prand, Stir(exact, acc2, temp12))]

Case2(exact, s, k, acc, key) ==
    LET temp1 == key[s.prandex]
        temp12 == key[s.prand]
        acc1 == Xor(Xor(temp1, k.pbuf[s.base]), acc)
        acc2 == Xor(k.clprod[Flip(s.base)],
                    Xor(CarryLess(Xor(temp12, k.pbuf[Flip(s.base)])), acc1))
    IN  [acc |-> acc2,
         key |-> Store(key, s.prand, Stir(exact, acc1, temp1), s.prandex, Stir(exact, acc2, temp12))]

\* The even side of case 3 when both slots are one: the store to prandex stays.
Unfolded(s, tempa2, temp12) == temp12
EvenStore(s, tempa2, temp12) == Select(s.prand = s.prandex, tempa2, temp12)

\* Branchless: both sides are computed, and the two stores are always prandex
\* then prand, with the case of one slot folded into the value of the second.
Case3(exact, s, k, acc, key) ==
    LET temp1 == key[s.prand]
        temp12 == key[s.prandex]
        dividend == Xor(Xor(temp1, k.pbuf[Flip(s.base)]), acc)
        acc1 == Xor(FromWord(DivRem(dividend, s.low)), dividend)
        tempa2 == Stir(exact, acc1, temp1)
        accOdd == Xor(Xor(CarryLess(Xor(temp12, k.pbuf[s.base])), k.clprod[s.base]), acc1)
        accEven == Xor(k.pbuf[s.base], acc1)
        odd == IsOdd(dividend)
    IN  [acc |-> Select(odd, accOdd, accEven),
         key |-> Store(key, s.prandex, tempa2, s.prand,
                       Select(odd, Stir(exact, accOdd, temp12), EvenStore(s, tempa2, temp12)))]

\* Two fused pairs and a mix; the round keys of group g are key vectors.
Aes2Group(u, key, at, g) ==
    Mix2(Aes2Fused(u[1], key[at + (4 * g)], key[at + (4 * g) + 2]),
         Aes2Fused(u[2], key[at + (4 * g) + 1], key[at + (4 * g) + 3]))

Case4(exact, s, k, acc, key) ==
    LET start == <<k.pbuf[Flip(s.base)], k.pbuf[s.base]>>
        group(u, g) == Aes2Group(u, key, s.prand, g)
        tempa1 == key[s.prand]
        left(acc1) == [acc |-> acc1,
                       key |-> Store(key, s.prand, key[s.prandex],
                                     s.prandex, Xor(tempa1, Mulhrs(exact, acc1, tempa1)))]
    IN  left(Folded(group(group(group(start, 0), 1), 2), acc))

\* The field of the selector that says what each iteration does, reversed:
\* iteration j reads bit 28 + rounds - j.
Reversed(s) == {j \in 0 .. s.rounds : FieldBit(s, s.rounds - j)}

IsParity(s, j) == (s.rounds + j) % 2 = 1

\* The key vector r of the AES iteration j, the a-th of its kind.
Case5Offset(j, a, r) == j + 1 + 4 * a + r

\* A walk over the mask that is term's domain: its n bits, lowest first.
XorOfBit(term, was, j) == IF j \in DOMAIN term THEN Xor(was, term[j]) ELSE was
XorsOver(term, n) ==
    LET fold[i \in 0 .. n] == IF i = 0 THEN Zero ELSE XorOfBit(term, fold[i - 1], i - 1)
    IN  fold
XorOver(term, n) == XorsOver(term, n)[n]

ClTerm(s, k, key, j) ==
    CarryLess(Xor(key[s.prand + j], k.pbuf[FlipIf(s.base, ~IsParity(s, j))]))

\* The AES iteration j, with the round keys of its place among its kind.
AesMixed(s, k, key, j, ordinal) ==
    LET keys(r) == key[s.prand + Case5Offset(j, ordinal, r)]
        onekey == Aes2Fused(key[s.prand + j], keys(0), keys(2))
        temp2 == Aes2Fused(k.pbuf[FlipIf(s.base, IsParity(s, j))], keys(1), keys(3))
    IN  Mix2(onekey, temp2)
AesTerm(s, k, key, j, ordinal) ==
    LET mixed == AesMixed(s, k, key, j, ordinal) IN Xor(mixed[1], mixed[2])

\* Two walks over the masks, in increasing order, folded into one sum.
Case5(exact, s, k, acc, key) ==
    LET n == s.rounds + 1
        clmask == Reversed(s)
        aesmask == (0 .. s.rounds) \ clmask
        clTerm == [j \in clmask |-> ClTerm(s, k, key, j)]
        aesTerm == [j \in aesmask |->
                      AesTerm(s, k, key, j, Cardinality({i \in aesmask : i < j}))]
        acc1 == Xor(acc, Xor(XorOver(clTerm, n), XorOver(aesTerm, n)))
        tempa1 == key[s.prand]
    IN  [acc |-> acc1,
         key |-> Store(key, s.prandex, Xor(tempa1, Mulhrs(exact, acc1, tempa1)),
                       s.prand, key[s.prandex])]

\* One straight line for both branches: the term of the other one is zero.
Case6Round(exact, s, k, key, was, j) ==
    LET mod == j \in Reversed(s)
        v == Xor(key[s.prand + j], k.pbuf[FlipIf(s.base, IsParity(s, j) # mod)])
        product == CarryLess(v)
        a == Xor(was.acc, Select(mod, FromWord(DivRem(v, s.low)), Zero))
    IN  [acc |-> Xor(a, Mulhrs(exact, a, Select(mod, Zero, product))),
         onekey |-> Select(mod, v, product)]

Case6Rounds(exact, s, k, acc, key) ==
    LET st[i \in 0 .. s.rounds + 1] ==
          IF i = 0 THEN [acc |-> acc, onekey |-> Zero]
          ELSE Case6Round(exact, s, k, key, st[i - 1], i - 1)
    IN  st

Case6(exact, s, k, acc, key) ==
    LET last == Case6Rounds(exact, s, k, acc, key)[s.rounds + 1]
    IN  [acc |-> last.acc,
         key |-> Store(key, s.prandex, last.onekey, s.prand, Xor(key[s.prandex], last.acc))]

Case7(exact, s, k, acc, key) ==
    LET temp2 == key[s.prandex]
        tempa3 == key[s.prand]
        acc1 == Xor(CarryLess(Xor(k.pbuf[s.base], temp2)), acc)
        acc2 == Xor(k.pbuf[Flip(s.base)], Xor(tempa3, acc1))
    IN  [acc |-> acc2,
         key |-> Store(key, s.prand, Stir(exact, acc1, temp2), s.prandex, Stir(exact, acc2, tempa3))]

Body(exact, c, s, k, acc, key) ==
    CASE c = 0 -> Case0(exact, s, k, acc, key)
      [] c = 1 -> Case1(exact, s, k, acc, key)
      [] c = 2 -> Case2(exact, s, k, acc, key)
      [] c = 3 -> Case3(exact, s, k, acc, key)
      [] c = 4 -> Case4(exact, s, k, acc, key)
      [] c = 5 -> Case5(exact, s, k, acc, key)
      [] c = 6 -> Case6(exact, s, k, acc, key)
      [] OTHER -> Case7(exact, s, k, acc, key)
=============================================================================

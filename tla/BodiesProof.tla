---------------------------- MODULE BodiesProof ----------------------------
(***************************************************************************)
(* What holds of selectors, step bodies and Harakas for every               *)
(* interpretation of the nonlinear instructions, every key and every selector. *)
(***************************************************************************)
EXTENDS RefBodies, Haraka, FiniteSetTheorems, TLAPS

----------------------------------------------------------------------------
(* Selectors.                                                               *)

\* The fields cut out of any accumulator are in their ranges.
THEOREM SelectorRange == \A v : SelectorOf(v) \in Selectors
  <1> SUFFICES ASSUME NEW v PROVE SelectorOf(v) \in Selectors
    OBVIOUS
  <1>1. \A p : Bits2(v, p) \in 0 .. 3
    BY DEF Bits2, Digit
  <1>2. \A p : Bits3(v, p) \in 0 .. 7
    BY <1>1 DEF Bits3, Digit
  <1>3. \A p : Bits4(v, p) \in 0 .. 15
    BY <1>2 DEF Bits4, Digit
  <1>4. \A p : Bits9(v, p) \in Nat
    BY <1>2 DEF Bits9
  <1>5. \A p : Bits9(v, p) % Mutable \in 0 .. Mutable - 1
    BY <1>4, MutableAssumption
  <1>6. v[1] \cap Bits \in SUBSET Bits
    OBVIOUS
  <1> HIDE DEF Bits2, Bits3, Bits4, Bits9, Bits
  <1> QED
    BY <1>1, <1>2, <1>3, <1>5, <1>6 DEF SelectorOf, Selectors

\* The two bodies that divide, cases 3 and 6, are never reached with the
\* divisors that would trap or overflow: the case is cut out of the divisor's
\* own bits, so these are neither all clear (0) nor all set (-1).
THEOREM DivisorIsSafe ==
    \A v : SelectorOf(v).case \in {3, 6} => SelectorOf(v).low \notin {{}, Bits}
  <1> SUFFICES ASSUME NEW v, SelectorOf(v).case \in {3, 6}
               PROVE  SelectorOf(v).low # {} /\ SelectorOf(v).low # Bits
    OBVIOUS
  <1>1. Bits3(v, 2) \in {3, 6}
    BY DEF SelectorOf
  <1>2. 3 \in v[1] /\ ~(2 \in v[1] /\ 4 \in v[1])
    BY <1>1 DEF Bits3, Bits2, Digit, Bit
  <1>3. SelectorOf(v).low = v[1] \cap Bits
    BY DEF SelectorOf
  <1>4. 2 \in Bits /\ 3 \in Bits /\ 4 \in Bits
    BY DEF Bits
  <1> QED
    BY <1>2, <1>3, <1>4

----------------------------------------------------------------------------
(* The loops of cases 4 and 5 read the key forward from prand.              *)

\* However many of a walk's iterations took the other branch, the round keys
\* of an AES iteration stay inside the key: iteration j is at most the
\* seventh, the AES iterations before it are at most j, and the key has forty
\* vectors past its mutable part.
THEOREM ReadsStayInKey ==
    ASSUME NEW s \in Selectors, NEW mask \in SUBSET (0 .. s.rounds),
           NEW j \in 0 .. s.rounds, NEW r \in 0 .. 3
    PROVE  s.prand + Case5Offset(j, Cardinality({i \in mask : i < j}), r) \in Slots
  <1> DEFINE before == {i \in mask : i < j}
  <1>1. s.rounds \in 0 .. 7 /\ s.prand \in 0 .. Mutable - 1
    BY DEF Selectors
  <1>2. j \in 0 .. 7 /\ j \in Nat
    BY <1>1
  <1>3. before \subseteq 0 .. j - 1
    <2> SUFFICES ASSUME NEW i \in before PROVE i \in 0 .. j - 1
      OBVIOUS
    <2>1. i \in 0 .. s.rounds /\ i < j
      OBVIOUS
    <2> QED
      BY <2>1, <1>1
  <1>4. IsFiniteSet(0 .. j - 1) /\ Cardinality(0 .. j - 1) = j
    BY <1>2, FS_Interval
  <1>5. Cardinality(before) \in 0 .. j
    <2>1. IsFiniteSet(before) /\ Cardinality(before) <= j
      BY <1>3, <1>4, FS_Subset
    <2> QED
      BY <2>1, FS_CardinalityType
  <1> HIDE DEF before
  <1>6. s.prand + Case5Offset(j, Cardinality(before), r) \in 0 .. Mutable + 38
    BY <1>1, <1>2, <1>5, MutableAssumption DEF Case5Offset
  <1> QED
    BY <1>6, MutableAssumption DEF Slots, KeyVecs, before

----------------------------------------------------------------------------
(* The engine's straight bodies and the reference's.                        *)

IsKey(key) == key = [i \in Slots |-> key[i]]

LEMMA SlotsOf ==
    ASSUME NEW s \in Selectors
    PROVE  s.prand \in Slots /\ s.prandex \in Slots
  <1>1. s.prand \in 0 .. Mutable - 1 /\ s.prandex \in 0 .. Mutable - 1
    BY DEF Selectors
  <1> QED
    BY <1>1, MutableAssumption DEF Slots, KeyVecs

\* The constants a hash precomputes are the reference's buffers and their
\* carry-less squares.
LEMMA PrecomputedBuffers ==
    ASSUME NEW buf, NEW b \in 0 .. 3
    PROVE  /\ StepConst(buf).pbuf[b] = PbufCopy(buf)[b]
           /\ StepConst(buf).clprod[b] = CarryLess(PbufCopy(buf)[b])
  BY DEF StepConst, PbufCopy

LEMMA BasesOf ==
    ASSUME NEW s \in Selectors
    PROVE  s.base \in 0 .. 3 /\ Flip(s.base) \in 0 .. 3
  <1>1. s.base \in 0 .. 3
    BY DEF Selectors
  <1> QED
    BY <1>1 DEF Flip

LEMMA XorSwap ==
    ASSUME NEW a, NEW b, NEW c
    PROVE  Xor(b, Xor(a, c)) = Xor(Xor(a, b), c)
  <1>1. \A u, v, w : XorWord(v, XorWord(u, w)) = XorWord(XorWord(u, v), w)
    BY DEF XorWord
  <1>2. Xor(b, Xor(a, c)) =
        <<XorWord(b[1], XorWord(a[1], c[1])), XorWord(b[2], XorWord(a[2], c[2])),
          XorWord(b[3], XorWord(a[3], c[3])), XorWord(b[4], XorWord(a[4], c[4]))>>
    BY DEF Xor
  <1>3. Xor(Xor(a, b), c) =
        <<XorWord(XorWord(a[1], b[1]), c[1]), XorWord(XorWord(a[2], b[2]), c[2]),
          XorWord(XorWord(a[3], b[3]), c[3]), XorWord(XorWord(a[4], b[4]), c[4])>>
    BY DEF Xor
  <1> QED
    BY <1>1, <1>2, <1>3

LEMMA XorCommutes == ASSUME NEW a, NEW b PROVE Xor(a, b) = Xor(b, a)
  <1>1. \A u, v : XorWord(u, v) = XorWord(v, u)
    BY DEF XorWord
  <1> QED
    BY <1>1 DEF Xor

LEMMA StoresCommute ==
    ASSUME NEW key, IsKey(key), NEW i \in Slots, NEW j \in Slots, i # j, NEW v, NEW w
    PROVE  Store(key, i, v, j, w) = Store(key, j, w, i, v)
  BY DEF Store, IsKey

LEMMA SecondStoreWins ==
    ASSUME NEW key, IsKey(key), NEW i \in Slots, NEW v, NEW w
    PROVE  Store(key, i, v, i, w) = [key EXCEPT ![i] = w]
  BY DEF Store, IsKey

\* The branchless case 3 leaves what the branching one leaves, whichever side
\* the dividend's parity takes and also when the two slots are one: the odd
\* side stores prandex first and the even side prand first, and the engine
\* serves both with one order.
THEOREM BranchlessCase3 ==
    ASSUME NEW exact, NEW s \in Selectors, NEW buf, NEW acc, NEW key, IsKey(key)
    PROVE  Case3(exact, s, StepConst(buf), acc, key) = RefCase3(exact, s, PbufCopy(buf), acc, key)
  <1> DEFINE
        p == PbufCopy(buf)
        k == StepConst(buf)
        temp1 == key[s.prand]
        temp12 == key[s.prandex]
        dividend == Xor(Xor(temp1, p[Flip(s.base)]), acc)
        acc1 == Xor(FromWord(DivRem(dividend, s.low)), dividend)
        tempa2 == Xor(Mulhrs(exact, acc1, temp1), temp1)
        acc2 == Xor(CarryLess(p[s.base]), Xor(CarryLess(Xor(temp12, p[s.base])), acc1))
        tempb2 == Xor(Mulhrs(exact, acc2, temp12), temp12)
        odd == IsOdd(dividend)
  <1>1. /\ k.pbuf[s.base] = p[s.base] /\ k.pbuf[Flip(s.base)] = p[Flip(s.base)]
        /\ k.clprod[s.base] = CarryLess(p[s.base])
    BY BasesOf, PrecomputedBuffers
  <1>2. Xor(Xor(CarryLess(Xor(temp12, p[s.base])), CarryLess(p[s.base])), acc1) = acc2
    BY XorSwap
  <1>3. Case3(exact, s, k, acc, key) =
          [acc |-> IF odd THEN acc2 ELSE Xor(p[s.base], acc1),
           key |-> Store(key, s.prandex, tempa2, s.prand,
                         IF odd THEN tempb2
                         ELSE IF s.prand = s.prandex THEN tempa2 ELSE temp12)]
    BY <1>1, <1>2 DEF Case3, Select, Stir, EvenStore
  <1>4. RefCase3(exact, s, p, acc, key) =
          IF odd THEN [acc |-> acc2, key |-> Store(key, s.prandex, tempa2, s.prand, tempb2)]
          ELSE [acc |-> Xor(p[s.base], acc1),
                key |-> Store(key, s.prand, temp12, s.prandex, tempa2)]
    BY DEF RefCase3, Pbuf, PbufAlt, Store
  <1> HIDE DEF p, k, temp1, temp12, dividend, acc1, tempa2, acc2, tempb2, odd
  <1>5. ~odd /\ s.prand # s.prandex =>
          Store(key, s.prandex, tempa2, s.prand, temp12) = Store(key, s.prand, temp12, s.prandex, tempa2)
    BY StoresCommute, SlotsOf
  <1>6. s.prand = s.prandex =>
          Store(key, s.prandex, tempa2, s.prand, tempa2) = Store(key, s.prand, temp12, s.prandex, tempa2)
    BY SecondStoreWins, SlotsOf
  <1>7. CASE odd
    BY <1>3, <1>4, <1>7 DEF k, p
  <1>8. CASE ~odd /\ s.prand # s.prandex
    BY <1>3, <1>4, <1>5, <1>8 DEF k, p
  <1>9. CASE ~odd /\ s.prand = s.prandex
    BY <1>3, <1>4, <1>6, <1>9 DEF k, p
  <1> QED
    BY <1>7, <1>8, <1>9

\* A fused pair of rounds is two plain ones.
LEMMA FusedRounds ==
    ASSUME NEW v, NEW a, NEW b
    PROVE  Aes2Fused(v, a, b) = RefAesenc(RefAesenc(v, a), b)
  BY DEF Aes2Fused, AesRound, AesBegin, RefAesenc

LEMMA Aes2GroupsAgree ==
    ASSUME NEW u, NEW key, NEW at \in Nat, NEW g \in Nat
    PROVE  Aes2Group(u, key, at, g) = RefAes2Mix2(u, key, at, 4 * g)
  <1>1. /\ at + (4 * g) + 1 = at + ((4 * g) + 1) /\ at + (4 * g) + 2 = at + ((4 * g) + 2)
        /\ at + (4 * g) + 3 = at + ((4 * g) + 3)
    OBVIOUS
  <1> QED
    BY <1>1, FusedRounds DEF Aes2Group, RefAes2Mix2

LEMMA Case4Agrees ==
    ASSUME NEW exact, NEW s \in Selectors, NEW k, NEW p, NEW acc, NEW key,
           k.pbuf[s.base] = p[s.base], k.pbuf[Flip(s.base)] = p[Flip(s.base)]
    PROVE  Case4(exact, s, k, acc, key) = RefCase4(exact, s, p, acc, key)
  <1>1. s.prand \in Nat
    BY SlotsOf DEF Slots
  <1>2. \A u : /\ Aes2Group(u, key, s.prand, 0) = RefAes2Mix2(u, key, s.prand, 0)
               /\ Aes2Group(u, key, s.prand, 1) = RefAes2Mix2(u, key, s.prand, 4)
               /\ Aes2Group(u, key, s.prand, 2) = RefAes2Mix2(u, key, s.prand, 8)
    <2>1. 4 * 0 = 0 /\ 4 * 1 = 4 /\ 4 * 2 = 8
      OBVIOUS
    <2> QED
      BY <1>1, <2>1, Aes2GroupsAgree
  <1> QED
    BY <1>2 DEF Case4, RefCase4, Pbuf, PbufAlt, Store

\* The bodies without a loop leave what the reference's leave.
THEOREM StraightBodiesAgree ==
    ASSUME NEW exact, NEW s \in Selectors, s.case \notin {5, 6},
           NEW buf, NEW acc, NEW key, IsKey(key)
    PROVE  Body(exact, s.case, s, StepConst(buf), acc, key) = RefStep(exact, s, PbufCopy(buf), acc, key)
  <1> DEFINE
        p == PbufCopy(buf)
        k == StepConst(buf)
  <1>1. /\ k.pbuf[s.base] = p[s.base] /\ k.pbuf[Flip(s.base)] = p[Flip(s.base)]
        /\ k.clprod[s.base] = CarryLess(p[s.base])
        /\ k.clprod[Flip(s.base)] = CarryLess(p[Flip(s.base)])
    BY BasesOf, PrecomputedBuffers
  <1>2. s.case \in {0, 1, 2, 3, 4, 7}
    BY DEF Selectors
  <1> HIDE DEF p, k
  <1>3. Case0(exact, s, k, acc, key) = RefCase0(exact, s, p, acc, key)
    BY <1>1 DEF Case0, RefCase0, Pbuf, PbufAlt, Store, Stir
  <1>4. Case1(exact, s, k, acc, key) = RefCase1(exact, s, p, acc, key)
    BY <1>1 DEF Case1, RefCase1, Pbuf, PbufAlt, Store, Stir
  <1>5. Case2(exact, s, k, acc, key) = RefCase2(exact, s, p, acc, key)
    BY <1>1 DEF Case2, RefCase2, Pbuf, PbufAlt, Store, Stir
  <1>6. Case3(exact, s, k, acc, key) = RefCase3(exact, s, p, acc, key)
    BY BranchlessCase3 DEF p, k
  <1>7. Case4(exact, s, k, acc, key) = RefCase4(exact, s, p, acc, key)
    BY <1>1, Case4Agrees
  <1>8. Case7(exact, s, k, acc, key) = RefCase7(exact, s, p, acc, key)
    BY <1>1 DEF Case7, RefCase7, Pbuf, PbufAlt, Store, Stir
  <1>9. /\ s.case = 0 => Body(exact, s.case, s, k, acc, key) = Case0(exact, s, k, acc, key)
        /\ s.case = 1 => Body(exact, s.case, s, k, acc, key) = Case1(exact, s, k, acc, key)
        /\ s.case = 2 => Body(exact, s.case, s, k, acc, key) = Case2(exact, s, k, acc, key)
        /\ s.case = 3 => Body(exact, s.case, s, k, acc, key) = Case3(exact, s, k, acc, key)
        /\ s.case = 4 => Body(exact, s.case, s, k, acc, key) = Case4(exact, s, k, acc, key)
        /\ s.case = 7 => Body(exact, s.case, s, k, acc, key) = Case7(exact, s, k, acc, key)
    BY DEF Body
  <1>10. /\ s.case = 0 => RefStep(exact, s, p, acc, key) = RefCase0(exact, s, p, acc, key)
         /\ s.case = 1 => RefStep(exact, s, p, acc, key) = RefCase1(exact, s, p, acc, key)
         /\ s.case = 2 => RefStep(exact, s, p, acc, key) = RefCase2(exact, s, p, acc, key)
         /\ s.case = 3 => RefStep(exact, s, p, acc, key) = RefCase3(exact, s, p, acc, key)
         /\ s.case = 4 => RefStep(exact, s, p, acc, key) = RefCase4(exact, s, p, acc, key)
         /\ s.case = 7 => RefStep(exact, s, p, acc, key) = RefCase7(exact, s, p, acc, key)
    BY DEF RefStep
  <1> QED
    BY <1>2, <1>3, <1>4, <1>5, <1>6, <1>7, <1>8, <1>9, <1>10 DEF p, k

----------------------------------------------------------------------------
(* The loops: each function a model writes by recursion obeys its equation.  *)

XorsStart(p) == Zero
XorsRound(p, was, i) == XorOfBit(p, was, i - 1)
XorsLoop == INSTANCE Loops WITH Start <- XorsStart, Round <- XorsRound

LEMMA XorsUnrolled ==
    ASSUME NEW term, NEW n \in Nat
    PROVE  /\ XorsOver(term, n)[0] = Zero
           /\ \A j \in 0 .. n - 1 :
                XorsOver(term, n)[j + 1] = XorOfBit(term, XorsOver(term, n)[j], j)
  <1> DEFINE fold == XorsOver(term, n)
  <1>1. PICK g : XorsLoop!Computes(term, n, g)
    BY XorsLoop!LoopComputes
  <1>2. g = [i \in 0 .. n |-> IF i = 0 THEN Zero ELSE XorOfBit(term, g[i - 1], i - 1)]
    BY <1>1 DEF XorsLoop!Computes, XorsStart, XorsRound
  <1>3. fold = [i \in 0 .. n |-> IF i = 0 THEN Zero ELSE XorOfBit(term, fold[i - 1], i - 1)]
    BY <1>2 DEF XorsOver
  <1> HIDE DEF fold
  <1>4. fold[0] = Zero /\ \A j \in 0 .. n - 1 : fold[j + 1] = XorOfBit(term, fold[j], j)
    BY <1>3
  <1> QED
    BY <1>4 DEF fold

Case6Start(p) == [acc |-> p.acc, onekey |-> Zero]
Case6Next(p, was, i) == Case6Round(p.exact, p.s, p.k, p.key, was, i - 1)
Case6Loop == INSTANCE Loops WITH Start <- Case6Start, Round <- Case6Next

LEMMA Case6Unrolled ==
    ASSUME NEW exact, NEW s \in Selectors, NEW k, NEW acc, NEW key
    PROVE  /\ Case6Rounds(exact, s, k, acc, key)[0] = [acc |-> acc, onekey |-> Zero]
           /\ \A j \in 0 .. s.rounds :
                Case6Rounds(exact, s, k, acc, key)[j + 1] =
                  Case6Round(exact, s, k, key, Case6Rounds(exact, s, k, acc, key)[j], j)
  <1> DEFINE
        st == Case6Rounds(exact, s, k, acc, key)
        p == [exact |-> exact, s |-> s, k |-> k, acc |-> acc, key |-> key]
  <1>1. s.rounds \in Nat /\ s.rounds + 1 \in Nat
    BY DEF Selectors
  <1>2. PICK g : Case6Loop!Computes(p, s.rounds + 1, g)
    BY <1>1, Case6Loop!LoopComputes
  <1>3. g = [i \in 0 .. s.rounds + 1 |->
              IF i = 0 THEN [acc |-> acc, onekey |-> Zero]
              ELSE Case6Round(exact, s, k, key, g[i - 1], i - 1)]
    BY <1>2 DEF Case6Loop!Computes, Case6Start, Case6Next
  <1>4. st = [i \in 0 .. s.rounds + 1 |->
               IF i = 0 THEN [acc |-> acc, onekey |-> Zero]
               ELSE Case6Round(exact, s, k, key, st[i - 1], i - 1)]
    BY <1>3 DEF Case6Rounds
  <1> HIDE DEF st
  <1>5. /\ st[0] = [acc |-> acc, onekey |-> Zero]
        /\ \A j \in 0 .. s.rounds : st[j + 1] = Case6Round(exact, s, k, key, st[j], j)
    BY <1>1, <1>4
  <1> QED
    BY <1>5 DEF st

Ref5Start(p) == [acc |-> p.acc, rc |-> p.s.prand, offset |-> 0]
Ref5Next(p, was, i) == RefRound5(p.s, p.pbuf, p.key, was, p.s.rounds - (i - 1))
Ref5Loop == INSTANCE Loops WITH Start <- Ref5Start, Round <- Ref5Next

LEMMA RefCase5Unrolled ==
    ASSUME NEW s \in Selectors, NEW pbuf, NEW acc, NEW key
    PROVE  /\ RefRounds5(s, pbuf, acc, key)[0] = [acc |-> acc, rc |-> s.prand, offset |-> 0]
           /\ \A j \in 0 .. s.rounds :
                RefRounds5(s, pbuf, acc, key)[j + 1] =
                  RefRound5(s, pbuf, key, RefRounds5(s, pbuf, acc, key)[j], s.rounds - j)
  <1> DEFINE
        st == RefRounds5(s, pbuf, acc, key)
        p == [s |-> s, pbuf |-> pbuf, acc |-> acc, key |-> key]
  <1>1. s.rounds \in Nat /\ s.rounds + 1 \in Nat
    BY DEF Selectors
  <1>2. PICK g : Ref5Loop!Computes(p, s.rounds + 1, g)
    BY <1>1, Ref5Loop!LoopComputes
  <1>3. g = [i \in 0 .. s.rounds + 1 |->
              IF i = 0 THEN [acc |-> acc, rc |-> s.prand, offset |-> 0]
              ELSE RefRound5(s, pbuf, key, g[i - 1], s.rounds - (i - 1))]
    BY <1>2 DEF Ref5Loop!Computes, Ref5Start, Ref5Next
  <1>4. st = [i \in 0 .. s.rounds + 1 |->
               IF i = 0 THEN [acc |-> acc, rc |-> s.prand, offset |-> 0]
               ELSE RefRound5(s, pbuf, key, st[i - 1], s.rounds - (i - 1))]
    BY <1>3 DEF RefRounds5
  <1> HIDE DEF st
  <1>5. /\ st[0] = [acc |-> acc, rc |-> s.prand, offset |-> 0]
        /\ \A j \in 0 .. s.rounds : st[j + 1] = RefRound5(s, pbuf, key, st[j], s.rounds - j)
    BY <1>1, <1>4
  <1> QED
    BY <1>5 DEF st

Ref6Start(p) == [acc |-> p.acc, rc |-> p.s.prand, onekey |-> Zero]
Ref6Next(p, was, i) == RefRound6(p.exact, p.s, p.pbuf, p.key, was, p.s.rounds - (i - 1))
Ref6Loop == INSTANCE Loops WITH Start <- Ref6Start, Round <- Ref6Next

LEMMA RefCase6Unrolled ==
    ASSUME NEW exact, NEW s \in Selectors, NEW pbuf, NEW acc, NEW key
    PROVE  /\ RefRounds6(exact, s, pbuf, acc, key)[0] =
                [acc |-> acc, rc |-> s.prand, onekey |-> Zero]
           /\ \A j \in 0 .. s.rounds :
                RefRounds6(exact, s, pbuf, acc, key)[j + 1] =
                  RefRound6(exact, s, pbuf, key, RefRounds6(exact, s, pbuf, acc, key)[j], s.rounds - j)
  <1> DEFINE
        st == RefRounds6(exact, s, pbuf, acc, key)
        p == [exact |-> exact, s |-> s, pbuf |-> pbuf, acc |-> acc, key |-> key]
  <1>1. s.rounds \in Nat /\ s.rounds + 1 \in Nat
    BY DEF Selectors
  <1>2. PICK g : Ref6Loop!Computes(p, s.rounds + 1, g)
    BY <1>1, Ref6Loop!LoopComputes
  <1>3. g = [i \in 0 .. s.rounds + 1 |->
              IF i = 0 THEN [acc |-> acc, rc |-> s.prand, onekey |-> Zero]
              ELSE RefRound6(exact, s, pbuf, key, g[i - 1], s.rounds - (i - 1))]
    BY <1>2 DEF Ref6Loop!Computes, Ref6Start, Ref6Next
  <1>4. st = [i \in 0 .. s.rounds + 1 |->
               IF i = 0 THEN [acc |-> acc, rc |-> s.prand, onekey |-> Zero]
               ELSE RefRound6(exact, s, pbuf, key, st[i - 1], s.rounds - (i - 1))]
    BY <1>3 DEF RefRounds6
  <1> HIDE DEF st
  <1>5. /\ st[0] = [acc |-> acc, rc |-> s.prand, onekey |-> Zero]
        /\ \A j \in 0 .. s.rounds : st[j + 1] = RefRound6(exact, s, pbuf, key, st[j], s.rounds - j)
    BY <1>1, <1>4
  <1> QED
    BY <1>5 DEF st

----------------------------------------------------------------------------
(* The algebra of the vectors.                                              *)

LEMMA Counting ==
    ASSUME NEW T, 0 \in T, \A n \in Nat : n \in T => n + 1 \in T
    PROVE  Nat \subseteq T
  BY XorsLoop!Induction

LEMMA XorAssociates ==
    ASSUME NEW a, NEW b, NEW c
    PROVE  Xor(Xor(a, b), c) = Xor(a, Xor(b, c))
  <1>1. \A u, v, w : XorWord(XorWord(u, v), w) = XorWord(u, XorWord(v, w))
    BY DEF XorWord
  <1>2. Xor(Xor(a, b), c) =
        <<XorWord(XorWord(a[1], b[1]), c[1]), XorWord(XorWord(a[2], b[2]), c[2]),
          XorWord(XorWord(a[3], b[3]), c[3]), XorWord(XorWord(a[4], b[4]), c[4])>>
    BY DEF Xor
  <1>3. Xor(a, Xor(b, c)) =
        <<XorWord(a[1], XorWord(b[1], c[1])), XorWord(a[2], XorWord(b[2], c[2])),
          XorWord(a[3], XorWord(b[3], c[3])), XorWord(a[4], XorWord(b[4], c[4]))>>
    BY DEF Xor
  <1> QED
    BY <1>1, <1>2, <1>3

\* Zero adds nothing: it leaves a value's four words.
LEMMA XorZero ==
    ASSUME NEW a
    PROVE  /\ Xor(a, Zero) = <<a[1], a[2], a[3], a[4]>>
           /\ \A b : Xor(Xor(a, b), Zero) = Xor(a, b)
  <1>1. \A u : XorWord(u, ZeroWord) = u
    BY DEF XorWord, ZeroWord
  <1>2. \A u : Xor(u, Zero) = <<u[1], u[2], u[3], u[4]>>
    BY <1>1 DEF Xor, Zero
  <1>3. \A b : Xor(Xor(a, b), Zero) = <<Xor(a, b)[1], Xor(a, b)[2], Xor(a, b)[3], Xor(a, b)[4]>>
    BY <1>2
  <1>4. \A b : Xor(a, b) = <<Xor(a, b)[1], Xor(a, b)[2], Xor(a, b)[3], Xor(a, b)[4]>>
    BY DEF Xor
  <1> QED
    BY <1>2, <1>3, <1>4

\* The multiply reads the four words of its operands, and by zero it is zero.
LEMMA MultiplyByZero ==
    ASSUME NEW exact, NEW a
    PROVE  /\ Mulhrs(exact, a, Zero) = Zero
           /\ \A b : Mulhrs(exact, Xor(a, Zero), b) = Mulhrs(exact, a, b)
  <1>1. Mulhrs(exact, a, Zero) = Zero
    BY DEF Mulhrs, MulLanes, Zero
  <1>2. Xor(a, Zero)[1] = a[1] /\ Xor(a, Zero)[2] = a[2] /\ Xor(a, Zero)[3] = a[3] /\ Xor(a, Zero)[4] = a[4]
    BY XorZero
  <1> QED
    BY <1>1, <1>2 DEF Mulhrs

----------------------------------------------------------------------------
(* The engine's loops and the reference's: cases 5 and 6.                    *)

\* The two buffers a body uses, as the engine precomputed them.
SameBuffers(s, k, pbuf) ==
    k.pbuf[s.base] = pbuf[s.base] /\ k.pbuf[Flip(s.base)] = pbuf[Flip(s.base)]

LEMMA ReversedBit ==
    ASSUME NEW s \in Selectors, NEW j \in 0 .. s.rounds
    PROVE  /\ (j \in Reversed(s)) = TakesFirst(s, s.rounds - j)
           /\ IsParity(s, j) = ((s.rounds - j) % 2 = 1)
  <1>1. s.rounds \in 0 .. 7 /\ j \in 0 .. 7
    BY DEF Selectors
  <1>2. (j \in Reversed(s)) = FieldBit(s, s.rounds - j)
    BY DEF Reversed, FieldBit
  <1>3. (s.rounds + j) % 2 = (s.rounds - j) % 2
    BY <1>1
  <1> QED
    BY <1>2, <1>3 DEF TakesFirst, IsParity

\* One round of case 6: the straight line is the branch that the bit takes.
LEMMA Round6Agrees ==
    ASSUME NEW exact, NEW s \in Selectors, NEW k, NEW pbuf, SameBuffers(s, k, pbuf),
           NEW key, NEW j \in 0 .. s.rounds, NEW e, NEW r, e.acc = r.acc, r.rc = s.prand + j
    PROVE  LET e1 == Case6Round(exact, s, k, key, e, j)
               r1 == RefRound6(exact, s, pbuf, key, r, s.rounds - j)
           IN  e1.acc = r1.acc /\ e1.onekey = r1.onekey /\ r1.rc = s.prand + j + 1
  <1> DEFINE
        e1 == Case6Round(exact, s, k, key, e, j)
        r1 == RefRound6(exact, s, pbuf, key, r, s.rounds - j)
        mod == j \in Reversed(s)
        odd == (s.rounds - j) % 2 = 1
        v == Xor(key[s.prand + j], k.pbuf[FlipIf(s.base, IsParity(s, j) # mod)])
        d == FromWord(DivRem(v, s.low))
        product == CarryLess(v)
  <1>1. mod = TakesFirst(s, s.rounds - j) /\ IsParity(s, j) = odd
    BY ReversedBit
  <1>2. s.prand \in Nat /\ j \in Nat
    BY DEF Selectors
  <1>3. CASE mod
    <2>1. v = Xor(key[r.rc], IF odd THEN Pbuf(s, pbuf) ELSE PbufAlt(s, pbuf))
      BY <1>1, <1>3 DEF FlipIf, SameBuffers, Pbuf, PbufAlt
    <2>2. e1 = [acc |-> Xor(Xor(e.acc, d), Mulhrs(exact, Xor(e.acc, d), Zero)), onekey |-> v]
      BY <1>3 DEF Case6Round, Select
    <2>3. r1 = [acc |-> Xor(d, r.acc), rc |-> r.rc + 1, onekey |-> v]
      BY <1>1, <1>3, <2>1 DEF RefRound6
    <2> HIDE DEF e1, r1, v, d
    <2>4. e1.acc = Xor(e.acc, d)
      BY <2>2, MultiplyByZero, XorZero
    <2> QED
      BY <2>2, <2>3, <2>4, <1>2, XorCommutes DEF e1, r1
  <1>4. CASE ~mod
    <2>1. v = Xor(key[r.rc], IF odd THEN PbufAlt(s, pbuf) ELSE Pbuf(s, pbuf))
      BY <1>1, <1>4 DEF FlipIf, SameBuffers, Pbuf, PbufAlt
    <2>2. e1 = [acc |-> Xor(Xor(e.acc, Zero), Mulhrs(exact, Xor(e.acc, Zero), product)),
                onekey |-> product]
      BY <1>4 DEF Case6Round, Select
    <2>3. r1 = [acc |-> Xor(Mulhrs(exact, r.acc, product), r.acc), rc |-> r.rc + 1, onekey |-> product]
      BY <1>1, <1>4, <2>1 DEF RefRound6
    <2> HIDE DEF e1, r1, v, product
    <2>4. e1.acc = Xor(Xor(e.acc, Zero), Mulhrs(exact, e.acc, product))
      BY <2>2, MultiplyByZero
    <2>5. \A m : Xor(Xor(e.acc, Zero), m) = Xor(m, e.acc)
      BY XorCommutes, XorAssociates, XorZero
    <2> QED
      BY <2>2, <2>3, <2>4, <2>5, <1>2 DEF e1, r1
  <1> QED
    BY <1>3, <1>4

\* Case 6 as one straight line leaves what the branching loop leaves.
LEMMA Case6Agrees ==
    ASSUME NEW exact, NEW s \in Selectors, NEW k, NEW pbuf, SameBuffers(s, k, pbuf),
           NEW acc, NEW key
    PROVE  Case6(exact, s, k, acc, key) = RefCase6(exact, s, pbuf, acc, key)
  <1> DEFINE
        e == Case6Rounds(exact, s, k, acc, key)
        r == RefRounds6(exact, s, pbuf, acc, key)
        same(j) == e[j].acc = r[j].acc /\ e[j].onekey = r[j].onekey /\ r[j].rc = s.prand + j
        T == {j \in Nat : j <= s.rounds + 1 => same(j)}
  <1>1. s.rounds \in Nat /\ s.prand \in Nat
    BY DEF Selectors
  <1>2. /\ e[0] = [acc |-> acc, onekey |-> Zero]
        /\ \A j \in 0 .. s.rounds : e[j + 1] = Case6Round(exact, s, k, key, e[j], j)
    BY Case6Unrolled
  <1>3. /\ r[0] = [acc |-> acc, rc |-> s.prand, onekey |-> Zero]
        /\ \A j \in 0 .. s.rounds :
              r[j + 1] = RefRound6(exact, s, pbuf, key, r[j], s.rounds - j)
    BY RefCase6Unrolled
  <1> HIDE DEF e, r
  <1>4. 0 \in T
    BY <1>1, <1>2, <1>3
  <1>5. ASSUME NEW j \in Nat, j \in T PROVE j + 1 \in T
    <2> SUFFICES ASSUME j + 1 <= s.rounds + 1 PROVE same(j + 1)
      BY <1>5
    <2>1. same(j) /\ j \in 0 .. s.rounds
      BY <1>1, <1>5
    <2>2. s.prand + j + 1 = s.prand + (j + 1)
      BY <1>1
    <2> QED
      BY <1>2, <1>3, <2>1, <2>2, Round6Agrees
  <1> HIDE DEF T
  <1>6. s.rounds + 1 \in T
    BY <1>1, <1>4, <1>5, Counting
  <1>7. same(s.rounds + 1)
    BY <1>1, <1>6 DEF T
  <1>8. Case6(exact, s, k, acc, key) =
          [acc |-> e[s.rounds + 1].acc,
           key |-> Store(key, s.prandex, e[s.rounds + 1].onekey,
                         s.prand, Xor(key[s.prandex], e[s.rounds + 1].acc))]
    BY DEF Case6, e
  <1>9. RefCase6(exact, s, pbuf, acc, key) =
          [acc |-> r[s.rounds + 1].acc,
           key |-> Store(key, s.prandex, r[s.rounds + 1].onekey,
                         s.prand, Xor(key[s.prandex], r[s.rounds + 1].acc))]
    BY DEF RefCase6, r, Store
  <1> QED
    BY <1>7, <1>8, <1>9

\* One more term of the one sum, or of the other, is one more term in all.
LEMMA FirstSumGrows ==
    ASSUME NEW was, NEW acc, NEW c, NEW a, NEW t, Xor(was, Zero) = Xor(acc, Xor(c, a))
    PROVE  Xor(Xor(t, was), Zero) = Xor(acc, Xor(Xor(c, t), a))
  <1>1. Xor(Xor(t, was), Zero) = Xor(t, Xor(acc, Xor(c, a)))
    BY XorAssociates
  <1>2. Xor(t, Xor(acc, Xor(c, a))) = Xor(acc, Xor(t, Xor(c, a)))
    BY XorAssociates, XorCommutes
  <1>3. Xor(t, Xor(c, a)) = Xor(Xor(c, t), a)
    BY XorAssociates, XorCommutes
  <1> QED
    BY <1>1, <1>2, <1>3

LEMMA SecondSumGrows ==
    ASSUME NEW was, NEW acc, NEW c, NEW a, NEW z1, NEW z2, Xor(was, Zero) = Xor(acc, Xor(c, a))
    PROVE  Xor(Xor(z2, Xor(z1, was)), Zero) = Xor(acc, Xor(c, Xor(a, Xor(z1, z2))))
  <1>1. Xor(z2, Xor(z1, was)) = Xor(Xor(z1, z2), was)
    BY XorAssociates, XorCommutes
  <1>2. Xor(Xor(Xor(z1, z2), was), Zero) = Xor(acc, Xor(Xor(c, Xor(z1, z2)), a))
    BY FirstSumGrows
  <1>3. Xor(Xor(c, Xor(z1, z2)), a) = Xor(c, Xor(a, Xor(z1, z2)))
    BY XorAssociates, XorCommutes
  <1> QED
    BY <1>1, <1>2, <1>3

\* The AES iterations before j, counted.
Below(mask, j) == {i \in mask : i < j}
OrdinalOf(s, j) == Cardinality(Below((0 .. s.rounds) \ Reversed(s), j))

LEMMA NextCount ==
    ASSUME NEW m \in Nat, NEW mask \in SUBSET (0 .. m), NEW j \in Nat
    PROVE  /\ Cardinality(Below(mask, 0)) = 0
           /\ Cardinality(Below(mask, j)) \in Nat
           /\ Cardinality(Below(mask, j + 1)) =
                IF j \in mask THEN Cardinality(Below(mask, j)) + 1 ELSE Cardinality(Below(mask, j))
  <1>1. \A i \in mask : i \in Nat
    OBVIOUS
  <1>2. IsFiniteSet(Below(mask, j)) /\ j \notin Below(mask, j)
    <2>1. Below(mask, j) \subseteq 0 .. m
      BY DEF Below
    <2>2. IsFiniteSet(0 .. m)
      BY FS_Interval
    <2>3. j \notin Below(mask, j)
      BY <1>1 DEF Below
    <2> QED
      BY <2>1, <2>2, <2>3, FS_Subset
  <1>3. Cardinality(Below(mask, j)) \in Nat
    BY <1>2, FS_CardinalityType
  <1>4. Cardinality(Below(mask, j) \cup {j}) = Cardinality(Below(mask, j)) + 1
    BY <1>2, FS_AddElement
  <1>5. Below(mask, 0) = {}
    <2>1. \A i \in mask : ~(i < 0)
      BY <1>1
    <2> QED
      BY <2>1, Zenon DEF Below
  <1>6. Below(mask, j + 1) = IF j \in mask THEN Below(mask, j) \cup {j} ELSE Below(mask, j)
    <2>1. \A i \in mask : (i < j + 1) = (i < j \/ i = j)
      BY <1>1
    <2>2. {i \in mask : i < j + 1} = {i \in mask : i < j \/ i = j}
      BY <2>1
    <2>3. {i \in mask : i < j \/ i = j} = IF j \in mask THEN Below(mask, j) \cup {j} ELSE Below(mask, j)
      BY Zenon DEF Below
    <2> QED
      BY <2>2, <2>3 DEF Below
  <1> QED
    BY <1>3, <1>4, <1>5, <1>6, FS_EmptySet

LEMMA NextOrdinal ==
    ASSUME NEW s \in Selectors, NEW j \in 0 .. s.rounds
    PROVE  /\ OrdinalOf(s, 0) = 0
           /\ OrdinalOf(s, j) \in Nat
           /\ OrdinalOf(s, j + 1) = IF j \in Reversed(s) THEN OrdinalOf(s, j) ELSE OrdinalOf(s, j) + 1
  <1> DEFINE mask == (0 .. s.rounds) \ Reversed(s)
  <1>1. s.rounds \in Nat /\ j \in Nat /\ mask \in SUBSET (0 .. s.rounds)
    BY DEF Selectors
  <1>2. (j \in mask) = (j \notin Reversed(s))
    OBVIOUS
  <1>3. \A i : OrdinalOf(s, i) = Cardinality(Below(mask, i))
    BY DEF OrdinalOf
  <1> HIDE DEF mask
  <1>4. /\ Cardinality(Below(mask, 0)) = 0
        /\ Cardinality(Below(mask, j)) \in Nat
        /\ Cardinality(Below(mask, j + 1)) =
             IF j \in mask THEN Cardinality(Below(mask, j)) + 1 ELSE Cardinality(Below(mask, j))
    BY <1>1, NextCount
  <1> QED
    BY <1>2, <1>3, <1>4

\* One round of case 5 that takes the first branch: the term of its mask's walk.
LEMMA Round5First ==
    ASSUME NEW s \in Selectors, NEW k, NEW pbuf, SameBuffers(s, k, pbuf),
           NEW key, NEW j \in 0 .. s.rounds, j \in Reversed(s),
           NEW r, r.rc = s.prand + j
    PROVE  RefRound5(s, pbuf, key, r, s.rounds - j) =
             [acc |-> Xor(ClTerm(s, k, key, j), r.acc), rc |-> s.prand + (j + 1), offset |-> r.offset]
  <1> DEFINE
        odd == (s.rounds - j) % 2 = 1
        other == IF odd THEN Pbuf(s, pbuf) ELSE PbufAlt(s, pbuf)
  <1>1. TakesFirst(s, s.rounds - j) /\ IsParity(s, j) = odd
    BY ReversedBit
  <1>2. r.rc + 1 = s.prand + (j + 1)
    BY DEF Selectors
  <1>3. ClTerm(s, k, key, j) = CarryLess(Xor(key[s.prand + j], other))
    BY <1>1 DEF ClTerm, FlipIf, SameBuffers, Pbuf, PbufAlt
  <1>4. RefRound5(s, pbuf, key, r, s.rounds - j) =
          [acc |-> Xor(CarryLess(Xor(key[r.rc], other)), r.acc), rc |-> r.rc + 1, offset |-> r.offset]
    BY <1>1 DEF RefRound5
  <1> QED
    BY <1>2, <1>3, <1>4

\* One round that takes the other: the term of the AES mask's walk, from the
\* key vectors that the counted loop reads.
LEMMA Round5Aes ==
    ASSUME NEW s \in Selectors, NEW k, NEW pbuf, SameBuffers(s, k, pbuf),
           NEW key, NEW j \in 0 .. s.rounds, j \notin Reversed(s),
           NEW r, r.rc = s.prand + j, r.offset \in Nat
    PROVE  RefRound5(s, pbuf, key, r, s.rounds - j) =
             [acc |-> Xor(AesMixed(s, k, key, j, r.offset)[2],
                          Xor(AesMixed(s, k, key, j, r.offset)[1], r.acc)),
              rc |-> s.prand + (j + 1), offset |-> r.offset + 1]
  <1> DEFINE
        odd == (s.rounds - j) % 2 = 1
        rc(n) == key[r.rc + 1 + 4 * r.offset + n]
        temp1 == RefAesenc(RefAesenc(key[r.rc], rc(0)), rc(2))
        buffer == IF odd THEN PbufAlt(s, pbuf) ELSE Pbuf(s, pbuf)
        temp2 == RefAesenc(RefAesenc(buffer, rc(1)), rc(3))
  <1>1. ~TakesFirst(s, s.rounds - j) /\ IsParity(s, j) = odd
    BY ReversedBit
  <1>2. s.prand \in Nat /\ j \in Nat
    BY DEF Selectors
  <1>3. r.rc + 1 = s.prand + (j + 1)
    BY <1>2
  <1>4. \A n \in 0 .. 3 : key[s.prand + Case5Offset(j, r.offset, n)] = rc(n)
    <2>1. \A n \in 0 .. 3 : s.prand + Case5Offset(j, r.offset, n) = r.rc + 1 + 4 * r.offset + n
      BY <1>2 DEF Case5Offset
    <2> QED
      BY <2>1
  <1>5. k.pbuf[FlipIf(s.base, IsParity(s, j))] = buffer
    BY <1>1 DEF FlipIf, SameBuffers, Pbuf, PbufAlt
  <1>6. AesMixed(s, k, key, j, r.offset) = Mix2(temp1, temp2)
    BY <1>4, <1>5, FusedRounds DEF AesMixed
  <1>7. RefRound5(s, pbuf, key, r, s.rounds - j) =
          [acc |-> Xor(Zip2x32(temp1, temp2), Xor(Zip1x32(temp1, temp2), r.acc)),
           rc |-> r.rc + 1, offset |-> r.offset + 1]
    BY <1>1 DEF RefRound5
  <1> HIDE DEF temp1, temp2
  <1> QED
    BY <1>3, <1>6, <1>7 DEF Mix2

\* The two mask walks of case 5 leave what the counted loop leaves.
LEMMA Case5Agrees ==
    ASSUME NEW exact, NEW s \in Selectors, NEW k, NEW pbuf, SameBuffers(s, k, pbuf),
           NEW acc, NEW key
    PROVE  Case5(exact, s, k, acc, key) = RefCase5(exact, s, pbuf, acc, key)
  <1> DEFINE
        n == s.rounds + 1
        clmask == Reversed(s)
        aesmask == (0 .. s.rounds) \ clmask
        clTerm == [j \in clmask |-> ClTerm(s, k, key, j)]
        aesTerm == [j \in aesmask |-> AesTerm(s, k, key, j, OrdinalOf(s, j))]
        cl == XorsOver(clTerm, n)
        aes == XorsOver(aesTerm, n)
        r == RefRounds5(s, pbuf, acc, key)
        same(j) == /\ Xor(r[j].acc, Zero) = Xor(acc, Xor(cl[j], aes[j]))
                   /\ j > 0 => Xor(r[j].acc, Zero) = r[j].acc
                   /\ r[j].rc = s.prand + j
                   /\ r[j].offset = OrdinalOf(s, j)
        T == {j \in Nat : j <= n => same(j)}
  <1>1. s.rounds \in Nat /\ s.prand \in Nat /\ n \in Nat
    BY DEF Selectors
  <1>2. /\ cl[0] = Zero
        /\ \A j \in 0 .. n - 1 : cl[j + 1] = XorOfBit(clTerm, cl[j], j)
    BY <1>1, XorsUnrolled
  <1>3. /\ aes[0] = Zero
        /\ \A j \in 0 .. n - 1 : aes[j + 1] = XorOfBit(aesTerm, aes[j], j)
    BY <1>1, XorsUnrolled
  <1>4. /\ r[0] = [acc |-> acc, rc |-> s.prand, offset |-> 0]
        /\ \A j \in 0 .. s.rounds : r[j + 1] = RefRound5(s, pbuf, key, r[j], s.rounds - j)
    BY RefCase5Unrolled
  <1> HIDE DEF cl, aes, r
  <1>5. 0 \in T
    <2>1. Xor(acc, Zero) = Xor(acc, Xor(Zero, Zero))
      BY XorZero DEF Zero
    <2>2. OrdinalOf(s, 0) = 0
      BY <1>1, NextOrdinal
    <2> QED
      BY <1>1, <1>2, <1>3, <1>4, <2>1, <2>2
  <1>6. ASSUME NEW j \in Nat, j \in T PROVE j + 1 \in T
    <2> SUFFICES ASSUME j + 1 <= n PROVE same(j + 1)
      BY <1>6
    <2>1. same(j) /\ j \in 0 .. s.rounds /\ j \in 0 .. n - 1
      BY <1>1, <1>6
    <2>2. /\ r[j + 1] = RefRound5(s, pbuf, key, r[j], s.rounds - j)
          /\ cl[j + 1] = XorOfBit(clTerm, cl[j], j)
          /\ aes[j + 1] = XorOfBit(aesTerm, aes[j], j)
      BY <1>2, <1>3, <1>4, <2>1
    <2>3. /\ OrdinalOf(s, j) \in Nat
          /\ OrdinalOf(s, j + 1) = IF j \in clmask THEN OrdinalOf(s, j) ELSE OrdinalOf(s, j) + 1
      BY <2>1, NextOrdinal
    <2>4. CASE j \in clmask
      <3>1. cl[j + 1] = Xor(cl[j], ClTerm(s, k, key, j)) /\ aes[j + 1] = aes[j]
        BY <2>2, <2>4 DEF XorOfBit
      <3>2. r[j + 1] = [acc |-> Xor(ClTerm(s, k, key, j), r[j].acc),
                        rc |-> s.prand + (j + 1), offset |-> OrdinalOf(s, j)]
        BY <2>1, <2>2, <2>3, <2>4, Round5First
      <3>3. Xor(Xor(ClTerm(s, k, key, j), r[j].acc), Zero) =
              Xor(acc, Xor(Xor(cl[j], ClTerm(s, k, key, j)), aes[j]))
        BY <2>1, FirstSumGrows
      <3> QED
        BY <2>3, <2>4, <3>1, <3>2, <3>3, XorZero
    <2>5. CASE j \notin clmask
      <3>1. cl[j + 1] = cl[j] /\ aes[j + 1] = Xor(aes[j], AesTerm(s, k, key, j, OrdinalOf(s, j)))
        BY <2>1, <2>2, <2>5 DEF XorOfBit
      <3> DEFINE
            was == r[j]
            u == AesMixed(s, k, key, j, was.offset)
      <3>2. r[j + 1] = [acc |-> Xor(u[2], Xor(u[1], was.acc)),
                        rc |-> s.prand + (j + 1), offset |-> was.offset + 1]
        <4>1. was.rc = s.prand + j /\ was.offset \in Nat /\ j \in 0 .. s.rounds /\ j \notin Reversed(s)
          BY <2>1, <2>3, <2>5
        <4> HIDE DEF was
        <4>2. RefRound5(s, pbuf, key, was, s.rounds - j) =
                [acc |-> Xor(u[2], Xor(u[1], was.acc)),
                 rc |-> s.prand + (j + 1), offset |-> was.offset + 1]
          BY <4>1, Round5Aes
        <4> QED
          BY <2>2, <4>2 DEF was
      <3>3. Xor(Xor(u[2], Xor(u[1], r[j].acc)), Zero) =
              Xor(acc, Xor(cl[j], Xor(aes[j], Xor(u[1], u[2]))))
        BY <2>1, SecondSumGrows
      <3>4. AesTerm(s, k, key, j, OrdinalOf(s, j)) = Xor(u[1], u[2])
        BY <2>1 DEF AesTerm
      <3> HIDE DEF u
      <3> QED
        <4>1. Xor(r[j + 1].acc, Zero) = Xor(acc, Xor(cl[j + 1], aes[j + 1]))
          BY <3>1, <3>2, <3>3, <3>4
        <4>2. Xor(r[j + 1].acc, Zero) = r[j + 1].acc
          BY <3>2, XorZero
        <4>3. r[j + 1].rc = s.prand + (j + 1) /\ r[j + 1].offset = OrdinalOf(s, j + 1)
          BY <2>1, <2>3, <2>5, <3>2
        <4> QED
          BY <4>1, <4>2, <4>3
    <2> QED
      BY <2>4, <2>5
  <1> HIDE DEF T
  <1>7. n \in T
    BY <1>1, <1>5, <1>6, Counting
  <1>8. same(n)
    BY <1>1, <1>7 DEF T
  <1>9. r[n].acc = Xor(acc, Xor(cl[n], aes[n]))
    BY <1>1, <1>8
  <1>10. Case5(exact, s, k, acc, key) =
           [acc |-> Xor(acc, Xor(cl[n], aes[n])),
            key |-> Store(key, s.prandex,
                          Xor(key[s.prand], Mulhrs(exact, Xor(acc, Xor(cl[n], aes[n])), key[s.prand])),
                          s.prand, key[s.prandex])]
    BY DEF Case5, XorOver, OrdinalOf, Below, cl, aes
  <1>11. RefCase5(exact, s, pbuf, acc, key) =
           [acc |-> r[n].acc,
            key |-> Store(key, s.prandex, Xor(key[s.prand], Mulhrs(exact, r[n].acc, key[s.prand])),
                          s.prand, key[s.prandex])]
    BY DEF RefCase5, Store, r
  <1> QED
    BY <1>9, <1>10, <1>11

\* Every engine body leaves the accumulator and the key that the reference's
\* leaves.
THEOREM AllBodiesAgree ==
    ASSUME NEW exact, NEW s \in Selectors, NEW buf, NEW acc, NEW key, IsKey(key)
    PROVE  Body(exact, s.case, s, StepConst(buf), acc, key) = RefStep(exact, s, PbufCopy(buf), acc, key)
  <1> DEFINE
        p == PbufCopy(buf)
        k == StepConst(buf)
  <1>1. SameBuffers(s, k, p)
    BY BasesOf, PrecomputedBuffers DEF SameBuffers
  <1> HIDE DEF p, k
  <1>2. CASE s.case = 5
    <2>1. Case5(exact, s, k, acc, key) = RefCase5(exact, s, p, acc, key)
      BY <1>1, Case5Agrees
    <2>2. Body(exact, s.case, s, k, acc, key) = Case5(exact, s, k, acc, key)
      BY <1>2 DEF Body
    <2>3. RefStep(exact, s, p, acc, key) = RefCase5(exact, s, p, acc, key)
      BY <1>2 DEF RefStep
    <2> QED
      BY <2>1, <2>2, <2>3 DEF p, k
  <1>3. CASE s.case = 6
    <2>1. Case6(exact, s, k, acc, key) = RefCase6(exact, s, p, acc, key)
      BY <1>1, Case6Agrees
    <2>2. Body(exact, s.case, s, k, acc, key) = Case6(exact, s, k, acc, key)
      BY <1>3 DEF Body
    <2>3. RefStep(exact, s, p, acc, key) = RefCase6(exact, s, p, acc, key)
      BY <1>3 DEF RefStep
    <2> QED
      BY <2>1, <2>2, <2>3 DEF p, k
  <1>4. CASE s.case \notin {5, 6}
    BY <1>4, StraightBodiesAgree
  <1> QED
    BY <1>2, <1>3, <1>4

----------------------------------------------------------------------------
(* A step writes the two slots it journals, and no other.                   *)

LEMMA StoreWrites ==
    ASSUME NEW key, IsKey(key), NEW i \in Slots, NEW j \in Slots, NEW v, NEW w
    PROVE  /\ IsKey(Store(key, i, v, j, w))
           /\ \A n \in Slots : Store(key, i, v, j, w)[n] # key[n] => n \in {i, j}
  BY DEF Store, IsKey

Stores(s, key, left) ==
    \/ \E v, w : left = Store(key, s.prand, v, s.prandex, w)
    \/ \E v, w : left = Store(key, s.prandex, v, s.prand, w)

LEMMA BodyStores ==
    ASSUME NEW exact, NEW c, NEW s, NEW k, NEW acc, NEW key
    PROVE  Stores(s, key, Body(exact, c, s, k, acc, key).key)
  <1>0. Stores(s, key, Case0(exact, s, k, acc, key).key)
    BY DEF Stores, Case0
  <1>1. Stores(s, key, Case1(exact, s, k, acc, key).key)
    BY DEF Stores, Case1
  <1>2. Stores(s, key, Case2(exact, s, k, acc, key).key)
    BY DEF Stores, Case2
  <1>3. Stores(s, key, Case3(exact, s, k, acc, key).key)
    BY DEF Stores, Case3
  <1>4. Stores(s, key, Case4(exact, s, k, acc, key).key)
    BY DEF Stores, Case4
  <1>5. Stores(s, key, Case5(exact, s, k, acc, key).key)
    BY DEF Stores, Case5
  <1>6. Stores(s, key, Case6(exact, s, k, acc, key).key)
    BY DEF Stores, Case6
  <1>7. Stores(s, key, Case7(exact, s, k, acc, key).key)
    BY DEF Stores, Case7
  <1> QED
    BY <1>0, <1>1, <1>2, <1>3, <1>4, <1>5, <1>6, <1>7 DEF Body

\* Whatever its case, a body changes the key in its two slots only.
THEOREM BodyWritesTwoSlots ==
    ASSUME NEW exact, NEW c, NEW s \in Selectors, NEW k, NEW acc, NEW key, IsKey(key)
    PROVE  /\ IsKey(Body(exact, c, s, k, acc, key).key)
           /\ \A n \in Slots : Body(exact, c, s, k, acc, key).key[n] # key[n] => n \in {s.prand, s.prandex}
  <1> DEFINE left == Body(exact, c, s, k, acc, key).key
  <1>1. Stores(s, key, left)
    BY BodyStores
  <1>2. s.prand \in Slots /\ s.prandex \in Slots
    BY SlotsOf
  <1> HIDE DEF left
  <1>3. ASSUME NEW v, NEW w, left = Store(key, s.prand, v, s.prandex, w)
        PROVE  IsKey(left) /\ \A n \in Slots : left[n] # key[n] => n \in {s.prand, s.prandex}
    BY <1>2, <1>3, StoreWrites
  <1>4. ASSUME NEW v, NEW w, left = Store(key, s.prandex, v, s.prand, w)
        PROVE  IsKey(left) /\ \A n \in Slots : left[n] # key[n] => n \in {s.prand, s.prandex}
    BY <1>2, <1>4, StoreWrites
  <1>5. IsKey(left) /\ \A n \in Slots : left[n] # key[n] => n \in {s.prand, s.prandex}
    BY <1>1, <1>3, <1>4 DEF Stores
  <1> QED
    BY <1>5 DEF left

----------------------------------------------------------------------------
(* The Harakas.                                                             *)

\* Both mixes distribute over exclusive or.
LEMMA MixDistributes ==
    ASSUME NEW a, NEW b, NEW c, NEW d
    PROVE  /\ Zip1x32(Xor(a, c), Xor(b, d)) = Xor(Zip1x32(a, b), Zip1x32(c, d))
           /\ Zip2x32(Xor(a, c), Xor(b, d)) = Xor(Zip2x32(a, b), Zip2x32(c, d))
           /\ Zip1x64(Xor(a, c), Xor(b, d)) = Xor(Zip1x64(a, b), Zip1x64(c, d))
           /\ Zip2x64(Xor(a, c), Xor(b, d)) = Xor(Zip2x64(a, b), Zip2x64(c, d))
  BY DEF Zip1x32, Zip2x32, Zip1x64, Zip2x64, Xor

\* What the engine's state of group g lacks of the reference's: the mix, and
\* the round constants that the next group will absorb.
Deferred(u, rc, g) ==
    <<Xor(Zip1x32(u[1], u[2]), Absorb256(rc, g)[1]),
      Xor(Zip2x32(u[1], u[2]), Absorb256(rc, g)[2])>>

\* Two rounds of the reference and its mix, from states that differ by a key
\* addition, differ by the next one.
LEMMA GroupKeepsDeferring ==
    ASSUME NEW rc, NEW r, NEW a, NEW b, NEW g \in Nat,
           a = Mix(Xor(Mix(r[1]), rc[4 * g])),
           b = Mix(Xor(Mix(r[2]), rc[(4 * g) + 1]))
    PROVE  RefGroup256(r, rc, 4 * g) = Deferred(<<a, b>>, rc, g)
  <1>1. RefGroup256(r, rc, 4 * g) =
          Mix2(Xor(a, rc[(4 * g) + 2]), Xor(b, rc[(4 * g) + 3]))
    BY DEF RefGroup256, RefAesenc
  <1> QED
    BY <1>1, MixDistributes DEF Mix2, Deferred, Absorb256

LEMMA NextGroup ==
    ASSUME NEW rc, NEW u, NEW r, NEW g \in Nat \ {0}, r = Deferred(u, rc, g - 1)
    PROVE  RefGroup256(r, rc, 4 * g) = Deferred(Group256(u, rc, g), rc, g)
  <1>1. /\ Group256(u, rc, g)[1] = Mix(Xor(Mix(r[1]), rc[4 * g]))
        /\ Group256(u, rc, g)[2] = Mix(Xor(Mix(r[2]), rc[(4 * g) + 1]))
    BY DEF Group256, Deferred, AesRound
  <1>2. RefGroup256(r, rc, 4 * g) = Deferred(<<Group256(u, rc, g)[1], Group256(u, rc, g)[2]>>, rc, g)
    BY <1>1, GroupKeepsDeferring
  <1> QED
    BY <1>2 DEF Deferred

\* Deferring every key addition into the next group, through the mix, changes
\* nothing of the permutation.
LEMMA AbsorptionIsSound ==
    ASSUME NEW in, NEW rc PROVE Haraka256(in, rc) = RefHaraka256(in, rc)
  <1> DEFINE
        u0 == <<AesRound(AesBegin(in[1]), rc[0]), AesRound(AesBegin(in[2]), rc[1])>>
        u1 == Group256(u0, rc, 1)
        u2 == Group256(u1, rc, 2)
        u3 == Group256(u2, rc, 3)
        u4 == Group256(u3, rc, 4)
        r0 == RefGroup256(in, rc, 0)
        r1 == RefGroup256(r0, rc, 4)
        r2 == RefGroup256(r1, rc, 8)
        r3 == RefGroup256(r2, rc, 12)
        r4 == RefGroup256(r3, rc, 16)
  <1>0. r0 = Deferred(u0, rc, 0)
    <2>1. 4 * 0 = 0 /\ (4 * 0) + 1 = 1 /\ 0 \in Nat
      OBVIOUS
    <2> QED
      BY <2>1, GroupKeepsDeferring DEF AesRound, AesBegin
  <1>a. /\ Haraka256(in, rc) = <<Xor3(Zip1x32(u4[1], u4[2]), Absorb256(rc, 4)[1], in[1]),
                                Xor3(Zip2x32(u4[1], u4[2]), Absorb256(rc, 4)[2], in[2])>>
        /\ RefHaraka256(in, rc) = <<Xor(r4[1], in[1]), Xor(r4[2], in[2])>>
    BY DEF Haraka256, RefHaraka256
  <1>1. r1 = Deferred(u1, rc, 1)
    <2> HIDE DEF u0, r0
    <2>1. 4 * 1 = 4 /\ 1 - 1 = 0
      OBVIOUS
    <2> QED
      BY <1>0, <2>1, NextGroup
  <1>2. r2 = Deferred(u2, rc, 2)
    <2> HIDE DEF u1, r1
    <2>1. 4 * 2 = 8 /\ 2 - 1 = 1
      OBVIOUS
    <2> QED
      BY <1>1, <2>1, NextGroup
  <1>3. r3 = Deferred(u3, rc, 3)
    <2> HIDE DEF u2, r2
    <2>1. 4 * 3 = 12 /\ 3 - 1 = 2
      OBVIOUS
    <2> QED
      BY <1>2, <2>1, NextGroup
  <1>4. r4 = Deferred(u4, rc, 4)
    <2> HIDE DEF u3, r3
    <2>1. 4 * 4 = 16 /\ 4 - 1 = 3
      OBVIOUS
    <2> QED
      BY <1>3, <2>1, NextGroup
  <1> HIDE DEF u4, r4
  <1> QED
    BY <1>a, <1>4, XorAssociates DEF Deferred, Xor3

LEMMA MixesAgree == ASSUME NEW x PROVE Mix4(x) = RefMix4(x)
  <1>1. Mix4(x) =
        <<Zip2x32(Zip2x32(x[1], x[2]), Zip2x32(x[3], x[4])),
          Zip1x32(Zip1x32(x[3], x[4]), Zip1x32(x[1], x[2])),
          Zip2x32(Zip1x32(x[3], x[4]), Zip1x32(x[1], x[2])),
          Zip1x32(Zip2x32(x[1], x[2]), Zip2x32(x[3], x[4]))>>
    BY DEF Mix4
  <1>2. \A a, b, c, d : RefMixed(<<a, b>>, <<c, d>>) =
                          <<Zip2x32(b, d), Zip1x32(c, a), Zip2x32(c, a), Zip1x32(b, d)>>
    BY DEF RefMixed
  <1>3. RefMix4(x) = RefMixed(<<Zip1x32(x[1], x[2]), Zip2x32(x[1], x[2])>>,
                              <<Zip1x32(x[3], x[4]), Zip2x32(x[3], x[4])>>)
    BY DEF RefMix4, Mix2
  <1> QED
    BY <1>1, <1>2, <1>3

LEMMA Group512Agrees ==
    ASSUME NEW v, NEW key, NEW at \in Nat, NEW g \in Nat
    PROVE  Group512(v, key, at, g) = RefMix4(RefAes4(v, key, at + (8 * g)))
  <1>1. /\ at + (8 * g) + (1 - 1) = at + (8 * g) /\ at + (8 * g) + (1 + 3) = at + (8 * g) + 4
        /\ at + (8 * g) + (2 - 1) = at + (8 * g) + 1 /\ at + (8 * g) + (2 + 3) = at + (8 * g) + 5
        /\ at + (8 * g) + (3 - 1) = at + (8 * g) + 2 /\ at + (8 * g) + (3 + 3) = at + (8 * g) + 6
        /\ at + (8 * g) + (4 - 1) = at + (8 * g) + 3 /\ at + (8 * g) + (4 + 3) = at + (8 * g) + 7
    OBVIOUS
  <1>2. Aes4(v, key, at, g) = RefAes4(v, key, at + (8 * g))
    BY <1>1, FusedRounds DEF Aes4, RefAes4, Aes4Lane
  <1> QED
    BY <1>2, MixesAgree DEF Group512

\* The keyed Haraka512 of five groups is the reference's: the engine truncates
\* and then adds the two input halves that are left, the reference the reverse.
LEMMA KeyedAgrees ==
    ASSUME NEW in, NEW key, NEW at \in Nat
    PROVE  HarakaKeyed(in, key, at) = RefHarakaKeyed(in, key, at)
  <1> DEFINE
        e(v, g) == Group512(v, key, at, g)
        r(v, n) == RefMix4(RefAes4(v, key, at + n))
        last == e(e(e(e(e(in, 0), 1), 2), 3), 4)
  <1>1. \A v : e(v, 0) = r(v, 0) /\ e(v, 1) = r(v, 8) /\ e(v, 2) = r(v, 16)
               /\ e(v, 3) = r(v, 24) /\ e(v, 4) = r(v, 32)
    <2>1. 8 * 0 = 0 /\ 8 * 1 = 8 /\ 8 * 2 = 16 /\ 8 * 3 = 24 /\ 8 * 4 = 32
      OBVIOUS
    <2> QED
      BY <2>1, Group512Agrees
  <1>2. HarakaKeyed(in, key, at) = Truncated(last, in)
    BY DEF HarakaKeyed, Groups3
  <1>3. RefHarakaKeyed(in, key, at) = RefTruncated(RefFed(r(r(r(r(r(in, 0), 8), 16), 24), 32), in))
    BY DEF RefHarakaKeyed
  <1>4. RefHarakaKeyed(in, key, at) = RefTruncated(RefFed(last, in))
    <2> HIDE DEF e, r
    <2> QED
      BY <1>1, <1>3
  <1>5. \A v : Truncated(v, in) = RefTruncated(RefFed(v, in))
    BY MixDistributes DEF Truncated, RefTruncated, RefFed
  <1> QED
    BY <1>2, <1>4, <1>5

\* The pre-filter's word: one lane of the last group is the word of the digest
\* that a target is compared with.
LEMMA WordOfLastLane ==
    ASSUME NEW in, NEW key, NEW at \in Nat
    PROVE  HighWord(in, key, at) = HarakaKeyed(in, key, at)[2][4]
  <1> DEFINE
        u == Aes4(Groups3(in, key, at), key, at, 3)
        v == Mix4(u)
        w == Aes4(v, key, at, 4)
        z == Mix4(w)
  <1>1. HarakaKeyed(in, key, at) = Truncated(z, in)
    BY DEF HarakaKeyed, Group512
  <1>2. HighWord(in, key, at) =
          XorWord(Aes4Lane(Zip2x32(Zip1x32(u[3], u[4]), Zip1x32(u[1], u[2])), key, at, 4, 3)[3], in[4][2])
    BY DEF HighWord, FedWord
  <1>3. v[3] = Zip2x32(Zip1x32(u[3], u[4]), Zip1x32(u[1], u[2]))
    <2> HIDE DEF u
    <2> QED
      BY DEF Mix4
  <1>4. w[3] = Aes4Lane(v[3], key, at, 4, 3)
    <2> HIDE DEF v
    <2> QED
      BY DEF Aes4
  <1>5. z[4][2] = w[3][3]
    <2> HIDE DEF w
    <2> QED
      BY DEF Mix4, Zip1x32, Zip2x32
  <1>6. Truncated(z, in)[2][4] = XorWord(z[4][2], in[4][2])
    <2> HIDE DEF z
    <2> QED
      BY DEF Truncated, Xor, Zip1x64
  <1> QED
    BY <1>1, <1>2, <1>3, <1>4, <1>5, <1>6
=============================================================================

---------------------------- MODULE KernelsProof ----------------------------
(***************************************************************************)
(* What holds of the calls of the kernels for every interpretation of the    *)
(* nonlinear instructions, every key and every lane width, and that both       *)
(* table reductions are the remainder of every 128-bit polynomial.             *)
(***************************************************************************)
EXTENDS Kernels, BodiesProof

----------------------------------------------------------------------------
(* The calls.                                                               *)

\* The kernel called is one of the five, on an input of the run.
THEOREM CallTyped == Spec => []TypeOK
  <1>1. Init => TypeOK
    BY DEF Init, TypeOK
  <1>2. TypeOK /\ [Next]_call => TypeOK'
    <2> SUFFICES ASSUME TypeOK, [Next]_call PROVE TypeOK'
      OBVIOUS
    <2>1. CASE CallStep
      BY <2>1 DEF CallStep, TypeOK
    <2>2. CASE CallHaraka
      BY <2>2 DEF CallHaraka, TypeOK
    <2>3. CASE CallMulhrs
      BY <2>3 DEF CallMulhrs, TypeOK
    <2>4. CASE CallReduce
      BY <2>4 DEF CallReduce, TypeOK
    <2>5. CASE CallTag
      BY <2>5 DEF CallTag, TypeOK, StartDraw, Draws, TagWidth
    <2>6. CASE DrawTags
      <3>1. call \in Draws
        BY <2>6 DEF DrawTags, TypeOK, Idle
      <3>2. PICK x \in {0, 1}, y \in {0, 1} : call' = DrawBit(call, x, y)
        BY <2>6 DEF DrawTags
      <3> DEFINE agree == TagBit(call.one, call.open - 1, x) = TagBit(call.two, call.open - 1, y)
      <3>3. call' = [kernel |-> "tag", one |-> call.one, two |-> call.two,
                     open |-> call.open - 1, apart |-> 2 * call.apart + (y - x), same |-> agree]
        BY <3>2 DEF DrawBit
      <3>4. agree \in BOOLEAN
        OBVIOUS
      <3> HIDE DEF agree
      <3>5. call.open - 1 \in 0..TagWidth /\ 2 * call.apart + (y - x) \in Int
        BY <2>6, <3>1 DEF DrawTags, Draws, TagWidth
      <3>6. call' \in Draws
        BY <3>1, <3>3, <3>4, <3>5 DEF Draws
      <3> QED
        BY <3>6 DEF TypeOK
    <2>7. CASE Return
      BY <2>7 DEF Return, TypeOK
    <2>8. CASE UNCHANGED call
      BY <2>8 DEF TypeOK
    <2> QED
      BY <2>1, <2>2, <2>3, <2>4, <2>5, <2>6, <2>7, <2>8 DEF Next
  <1> QED
    BY <1>1, <1>2, PTL DEF Spec

\* No step of any call leaves a slot changed that it does not journal.
THEOREM JournalIsEnough == Spec => []OnlyJournalledSlots
  <1>1. TypeOK => OnlyJournalledSlots
    <2> SUFFICES ASSUME TypeOK, call.kernel = "step",
                        NEW i \in Slots, EngineResult.key[i] # TheKey[i]
                 PROVE  i \in {call.s.prand, call.s.prandex}
      BY DEF OnlyJournalledSlots
    <2>1. call.s \in Selectors
      <3>1. PICK exact \in BOOLEAN, s \in Calls, a \in Accs :
               call = [kernel |-> "step", exact |-> exact, s |-> s, acc |-> a]
        BY DEF TypeOK, Idle, Draws
      <3> QED
        BY <3>1, KernelAssumption
    <2>2. IsKey(TheKey)
      BY KernelAssumption DEF IsKey
    <2> QED
      BY <2>1, <2>2, BodyWritesTwoSlots DEF EngineResult
  <1> QED
    BY <1>1, CallTyped, PTL

\* An engine body leaves what the reference's step leaves, on every key and
\* selector: the bodies with a loop too.
THEOREM EngineIsReference == Spec => []BodiesAgree
  <1>1. TypeOK => BodiesAgree
    <2> SUFFICES ASSUME TypeOK, call.kernel = "step" PROVE EngineResult = ReferenceResult
      BY DEF BodiesAgree
    <2>1. call.s \in Selectors
      <3>1. PICK exact \in BOOLEAN, s \in Calls, a \in Accs :
               call = [kernel |-> "step", exact |-> exact, s |-> s, acc |-> a]
        BY DEF TypeOK, Idle, Draws
      <3> QED
        BY <3>1, KernelAssumption
    <2>2. IsKey(TheKey)
      BY KernelAssumption DEF IsKey
    <2> QED
      BY <2>1, <2>2, AllBodiesAgree DEF EngineResult, ReferenceResult
  <1> QED
    BY <1>1, CallTyped, PTL

----------------------------------------------------------------------------
(* The Harakas.                                                             *)

\* Haraka256 with absorbed constants is the reference's, for every input and
\* constants: on the run's buffer and key in particular.
THEOREM AbsorbedHarakaIsHaraka == Spec => []AbsorbedHarakaAgrees
  <1>1. AbsorbedHarakaAgrees
    BY AbsorptionIsSound DEF AbsorbedHarakaAgrees
  <1> QED
    BY <1>1, PTL

\* The pre-filter agrees with the digest it stands for, at every offset.
THEOREM PreFilterIsSound == Spec => []PreFilterAgrees
  <1>1. TypeOK => PreFilterAgrees
    <2> SUFFICES ASSUME TypeOK, call.kernel = "haraka"
                 PROVE  /\ HarakaKeyed(TheBuf, TheKey, call.at) = RefHarakaKeyed(TheBuf, TheKey, call.at)
                        /\ HighWord(TheBuf, TheKey, call.at)
                             = RefHarakaKeyed(TheBuf, TheKey, call.at)[2][4]
      BY DEF PreFilterAgrees
    <2>1. call.at \in Nat
      <3>1. PICK at \in 0 .. Mutable - 1 : call = [kernel |-> "haraka", at |-> at]
        BY DEF TypeOK, Idle, Draws
      <3> QED
        BY <3>1
    <2> QED
      BY <2>1, KeyedAgrees, WordOfLastLane
  <1> QED
    BY <1>1, CallTyped, PTL

----------------------------------------------------------------------------
(* The rounding multiply.                                                   *)

\* The quotient is the only number whose multiple is that near.
LEMMA QuotientIs ==
    ASSUME NEW n \in Int, NEW d \in Nat, d > 0, NEW q \in Int, q * d <= n, n < (q + 1) * d
    PROVE  n \div d = q
  <1>1. /\ n \div d \in Int /\ n % d \in 0 .. d - 1
        /\ n = d * (n \div d) + (n % d)
    OBVIOUS
  <1>2. CASE n \div d > q
    <2>1. d * (n \div d) >= d * (q + 1)
      BY <1>1, <1>2
    <2> QED
      BY <1>1, <2>1
  <1>3. CASE n \div d < q
    <2>1. d * ((n \div d) + 1) <= d * q
      BY <1>1, <1>3
    <2> QED
      BY <1>1, <2>1
  <1> QED
    BY <1>1, <1>2, <1>3

\* A product of two lanes, but of the least with itself.
LEMMA ProductRange ==
    ASSUME NEW h \in Nat, NEW a \in Lane(h), NEW b \in Lane(h)
    PROVE  /\ a * b \in Int
           /\ a * b >= -(h * h) + h
           /\ a # -h \/ b # -h => a * b <= h * h - h
  <1>1. a \in Int /\ b \in Int /\ -h <= a /\ a <= h - 1 /\ -h <= b /\ b <= h - 1
    BY DEF Lane
  <1>2. a * b \in Int /\ h * h \in Nat
    BY <1>1
  <1>3. CASE a >= 0 /\ b >= 0
    <2>1. a * b <= (h - 1) * (h - 1)
      BY <1>1, <1>3
    <2> QED
      BY <2>1, <1>1, <1>2, <1>3
  <1>4. CASE a < 0 /\ b < 0
    <2> QED
      BY <1>1, <1>2, <1>4
  <1>5. CASE a >= 0 /\ b < 0
    <2> QED
      BY <1>1, <1>2, <1>5
  <1>6. CASE a < 0 /\ b >= 0
    <2> QED
      BY <1>1, <1>2, <1>6
  <1> QED
    BY <1>1, <1>3, <1>4, <1>5, <1>6

\* Where not both lanes are the least value the rounded quotient fits a lane, so
\* neither saturation nor truncation does anything; the least value squared
\* is the case the two instructions differ on.
LEMMA MulhrsSound ==
    ASSUME NEW h \in Nat, h > 0, h % 2 = 0, NEW a \in Lane(h), NEW b \in Lane(h)
    PROVE  /\ MulhrsExact(h, a, b) = RefMulhrs(h, a, b)
           /\ MulhrsFast(h, a, b) # RefMulhrs(h, a, b) => a = -h /\ b = -h
  <1> DEFINE p == a * b
             half == h \div 2
             q == (p + half) \div h
  <1>1. p \in Int /\ half \in Nat /\ h = 2 * half /\ half > 0
    BY ProductRange
  <1>2. q \in Int /\ q * h <= p + half /\ p + half < (q + 1) * h
    BY <1>1
  <1>3. 2 * a * b = 2 * p
    BY DEF Lane
  <1>4. ((2 * p) + h) \div (2 * h) = q
    <2>1. q * (2 * h) <= (2 * p) + h /\ (2 * p) + h < (q + 1) * (2 * h)
      BY <1>1, <1>2
    <2> QED
      BY <1>1, <1>2, <2>1, QuotientIs
  <1>5. MulhrsFast(h, a, b) = Saturate(h, q) /\ RefMulhrs(h, a, b) = Wrap(h, q)
    BY <1>3, <1>4 DEF MulhrsFast, RefMulhrs
  <1>6. a \in Int /\ b \in Int /\ a >= -h /\ b >= -h
    BY DEF Lane
  <1>7. CASE a # -h \/ b # -h
    <2>1. p <= h * h - h /\ p >= -(h * h) + h
      BY <1>7, ProductRange
    <2>2. q < h
      <3>1. q * h < h * h
        BY <2>1, <1>1, <1>2
      <3> QED
        BY <3>1, <1>2
    <2>3. q > -h
      <3>1. (q + 1) * h > (-h + 1) * h
        BY <2>1, <1>1, <1>2
      <3> QED
        BY <3>1, <1>2
    <2>4. Saturate(h, q) = q /\ Wrap(h, q) = q
      BY <1>2, <2>2, <2>3 DEF Saturate, Wrap
    <2>5. MulhrsExact(h, a, b) = MulhrsFast(h, a, b)
      BY <1>6, <1>7 DEF MulhrsExact
    <2> QED
      BY <1>5, <2>4, <2>5
  <1>8. CASE a = -h /\ b = -h
    <2>1. p = h * h
      BY <1>8
    <2>2. h * h <= p + half /\ p + half < (h + 1) * h
      BY <2>1, <1>1
    <2>3. q = h
      BY <2>2, <1>1, QuotientIs
    <2>4. Saturate(h, q) = h - 1 /\ Wrap(h, q) = -h
      BY <2>3 DEF Saturate, Wrap
    <2>5. MulhrsExact(h, a, b) = -(h - 1) - 1
      BY <1>5, <1>8, <2>4 DEF MulhrsExact
    <2> QED
      BY <1>5, <1>8, <2>4, <2>5
  <1> QED
    BY <1>7, <1>8

\* Any lane times zero is zero, by either multiply and by the reference's: what
\* lets the straight line of case 6 (MulLanes) multiply where the branch does not.
THEOREM TimesZeroIsZero ==
    ASSUME NEW h \in Nat, h > 0, h % 2 = 0, NEW a \in Lane(h)
    PROVE  MulhrsFast(h, a, 0) = 0 /\ MulhrsExact(h, a, 0) = 0 /\ RefMulhrs(h, a, 0) = 0
  <1>1. a \in Int /\ 0 \in Lane(h) /\ 2 * a * 0 + h = h /\ a * 0 + h \div 2 = h \div 2
    BY DEF Lane
  <1>2. h \div (2 * h) = 0
    BY QuotientIs
  <1>3. MulhrsFast(h, a, 0) = 0
    BY <1>1, <1>2 DEF MulhrsFast, Saturate
  <1>4. (IF a > 0 THEN a ELSE 0) # -h
    BY <1>1
  <1>5. MulhrsExact(h, a, 0) = 0
    BY <1>3, <1>4 DEF MulhrsExact
  <1>6. RefMulhrs(h, a, 0) = 0
    <2>1. (h \div 2) \div h = 0
      BY QuotientIs
    <2> QED
      BY <1>1, <2>1 DEF RefMulhrs, Wrap
  <1> QED
    BY <1>3, <1>5, <1>6

\* The verifying multiply is the reference's for lanes of every even width, and
\* the mining one differs from it only where both lanes are the least value.
THEOREM MulhrsIsSound == Spec => []MulhrsAgrees
  <1>1. TypeOK => MulhrsAgrees
    <2> SUFFICES ASSUME TypeOK, call.kernel = "mulhrs"
                 PROVE  /\ MulhrsExact(Half, call.a, call.b) = RefMulhrs(Half, call.a, call.b)
                        /\ MulhrsFast(Half, call.a, call.b) # RefMulhrs(Half, call.a, call.b) =>
                             call.a = -Half /\ call.b = -Half
      BY DEF MulhrsAgrees
    <2>1. PICK a \in Lanes, b \in Lanes : call = [kernel |-> "mulhrs", a |-> a, b |-> b]
      BY DEF TypeOK, Idle, Draws
    <2>2. call.a \in Lane(Half) /\ call.b \in Lane(Half)
      BY <2>1, KernelAssumption
    <2> QED
      BY <2>2, MulhrsSound, KernelAssumption
  <1> QED
    BY <1>1, CallTyped, PTL

----------------------------------------------------------------------------
(* The reduction.  A polynomial is looked at a coefficient at a time.       *)

\* The sum of coefficients, modulo two.
Odd(a, b) == (a /\ ~b) \/ (~a /\ b)
Odd4(a, b, c, d) == Odd(Odd(a, b), Odd(c, d))

\* Coefficient m of a polynomial's product with the tail.
TailTimes(A, m) == Odd4(m \in A, m - 1 \in A, m - 3 \in A, m - 4 \in A)

\* A coefficient of a sum.
LEMMA SumCoefficient ==
    ASSUME NEW A, NEW B, NEW m PROVE m \in Sum(A, B) <=> Odd(m \in A, m \in B)
  BY DEF Sum, Odd

\* How many of four different things are in a set, modulo two.
LEMMA CountOfFour ==
    ASSUME NEW S, NEW a, NEW b, NEW c, NEW d, a # b, a # c, a # d, b # c, b # d, c # d,
           S \subseteq {a, b, c, d}
    PROVE  Cardinality(S) % 2 = 1 <=> Odd4(a \in S, b \in S, c \in S, d \in S)
  <1> DEFINE
        Add(T, x) == IF x \in S THEN T \cup {x} ELSE T
        T1 == Add({}, a)
        T2 == Add(T1, b)
        T3 == Add(T2, c)
        T4 == Add(T3, d)
  <1>1. S = T4
    OBVIOUS
  <1>2. ASSUME NEW T, IsFiniteSet(T), NEW x, x \notin T
        PROVE  /\ IsFiniteSet(Add(T, x)) /\ Cardinality(T) \in Nat
               /\ Cardinality(Add(T, x)) = IF x \in S THEN Cardinality(T) + 1 ELSE Cardinality(T)
    BY <1>2, FS_AddElement, FS_CardinalityType
  <1>3. IsFiniteSet({}) /\ Cardinality({}) = 0
    BY FS_EmptySet
  <1>4. a \notin {} /\ b \notin T1 /\ c \notin T2 /\ d \notin T3
    OBVIOUS
  <1> HIDE DEF Add
  <1>5. /\ IsFiniteSet(T1) /\ Cardinality(T1) = IF a \in S THEN 1 ELSE 0
    BY <1>2, <1>3, <1>4
  <1> HIDE DEF T1
  <1>6. /\ IsFiniteSet(T2)
        /\ Cardinality(T2) = (IF a \in S THEN 1 ELSE 0) + (IF b \in S THEN 1 ELSE 0)
    BY <1>2, <1>4, <1>5
  <1> HIDE DEF T2
  <1>7. /\ IsFiniteSet(T3)
        /\ Cardinality(T3) = (IF a \in S THEN 1 ELSE 0) + (IF b \in S THEN 1 ELSE 0)
                               + (IF c \in S THEN 1 ELSE 0)
    BY <1>2, <1>4, <1>6
  <1> HIDE DEF T3
  <1>8. Cardinality(T4) = (IF a \in S THEN 1 ELSE 0) + (IF b \in S THEN 1 ELSE 0)
                            + (IF c \in S THEN 1 ELSE 0) + (IF d \in S THEN 1 ELSE 0)
    BY <1>2, <1>4, <1>7
  <1> HIDE DEF T4
  <1> QED
    BY <1>1, <1>8 DEF Odd, Odd4

\* The carry-less product with the tail.
LEMMA ProductCoefficient ==
    ASSUME NEW A, A \subseteq Int, NEW m \in Int
    PROVE  m \in Product(A, Tail) <=> TailTimes(A, m)
  <1> DEFINE S == {a \in A : m - a \in Tail}
  <1>1. \A a \in Int : m - a \in Tail <=> a \in {m, m - 1, m - 3, m - 4}
    BY DEF Tail
  <1>2. S \subseteq {m, m - 1, m - 3, m - 4}
        /\ \A a \in {m, m - 1, m - 3, m - 4} : a \in S <=> a \in A
    BY <1>1
  <1>3. m \in Product(A, Tail) <=> (Cardinality(S) % 2 = 1 /\ \E a \in A, b \in Tail : m = a + b)
    BY DEF Product
  <1>4. (\E a \in A, b \in Tail : m = a + b) <=> S # {}
    <2>1. ASSUME NEW a \in A, NEW b \in Tail, m = a + b PROVE a \in S
      BY <2>1 DEF Tail
    <2>2. ASSUME NEW a \in S PROVE \E b \in Tail : m = a + b
      <3>1. m - a \in Tail /\ m = a + (m - a)
        OBVIOUS
      <3> QED
        BY <3>1
    <2> HIDE DEF S
    <2>3. \A a \in S : a \in A
      BY <1>2 DEF S
    <2> QED
      BY <2>1, <2>2, <2>3
  <1> HIDE DEF S
  <1>5. m # m - 1 /\ m # m - 3 /\ m # m - 4 /\ m - 1 # m - 3 /\ m - 1 # m - 4 /\ m - 3 # m - 4
    OBVIOUS
  <1>6. Cardinality(S) % 2 = 1 <=> Odd4(m \in S, m - 1 \in S, m - 3 \in S, m - 4 \in S)
    <2> DEFINE b == m - 1
               c == m - 3
               d == m - 4
    <2>1. S \subseteq {m, b, c, d}
      BY <1>2
    <2>2. m # b /\ m # c /\ m # d /\ b # c /\ b # d /\ c # d
      BY <1>5
    <2> HIDE DEF b, c, d
    <2>3. Cardinality(S) % 2 = 1 <=> Odd4(m \in S, b \in S, c \in S, d \in S)
      BY <2>1, <2>2, CountOfFour
    <2> QED
      BY <2>3 DEF b, c, d
  <1>7. Cardinality(S) % 2 = 1 => S # {}
    BY <1>6 DEF Odd4, Odd
  <1> QED
    BY <1>2, <1>3, <1>4, <1>6, <1>7 DEF TailTimes

\* The exponents of a product with the tail.
LEMMA ProductIsInt == ASSUME NEW A, A \subseteq Int PROVE Product(A, Tail) \subseteq Int
  BY DEF Product, Tail

\* A byte, by its bits.
ByteStart(bits) == 0
ByteRound(bits, was, e) == was + (IF e - 1 \in bits THEN Weight[e] ELSE 0)
ByteLoop == INSTANCE Loops WITH Start <- ByteStart, Round <- ByteRound

\* The value of a byte is the sum of the weights of its bits.
LEMMA ByteIs ==
    ASSUME NEW bits
    PROVE  ByteOf(bits) = (IF 0 \in bits THEN 1 ELSE 0) + (IF 1 \in bits THEN 2 ELSE 0)
                        + (IF 2 \in bits THEN 4 ELSE 0) + (IF 3 \in bits THEN 8 ELSE 0)
                        + (IF 4 \in bits THEN 16 ELSE 0) + (IF 5 \in bits THEN 32 ELSE 0)
                        + (IF 6 \in bits THEN 64 ELSE 0) + (IF 7 \in bits THEN 128 ELSE 0)
  <1> DEFINE
        f[e \in 0 .. 8] ==
          IF e = 0 THEN 0 ELSE f[e - 1] + (IF e - 1 \in bits THEN Weight[e] ELSE 0)
  <1>1. PICK g : ByteLoop!Computes(bits, 8, g)
    BY ByteLoop!LoopComputes
  <1>2. g = [e \in 0 .. 8 |-> IF e = 0 THEN 0
                              ELSE g[e - 1] + (IF e - 1 \in bits THEN Weight[e] ELSE 0)]
    BY <1>1 DEF ByteLoop!Computes, ByteStart, ByteRound
  <1>3. f = [e \in 0 .. 8 |-> IF e = 0 THEN 0
                              ELSE f[e - 1] + (IF e - 1 \in bits THEN Weight[e] ELSE 0)]
    BY <1>2
  <1>4. ByteOf(bits) = f[8]
    BY DEF ByteOf
  <1> HIDE DEF f
  <1>5. /\ f[0] = 0
        /\ \A e \in 1 .. 8 : f[e] = f[e - 1] + (IF e - 1 \in bits THEN Weight[e] ELSE 0)
    BY <1>3
  <1>6. /\ f[1] = (IF 0 \in bits THEN 1 ELSE 0)
        /\ f[2] = f[1] + (IF 1 \in bits THEN 2 ELSE 0)
        /\ f[3] = f[2] + (IF 2 \in bits THEN 4 ELSE 0)
        /\ f[4] = f[3] + (IF 3 \in bits THEN 8 ELSE 0)
        /\ f[5] = f[4] + (IF 4 \in bits THEN 16 ELSE 0)
        /\ f[6] = f[5] + (IF 5 \in bits THEN 32 ELSE 0)
        /\ f[7] = f[6] + (IF 6 \in bits THEN 64 ELSE 0)
        /\ f[8] = f[7] + (IF 7 \in bits THEN 128 ELSE 0)
    BY <1>5 DEF Weight
  <1> QED
    BY <1>4, <1>6

\* Every entry of the table is the product of its index with the tail.
LEMMA EntryIsProduct ==
    ASSUME NEW q, q \subseteq 0 .. 3, NEW m \in Int
    PROVE  /\ ByteOf(q) \in 0 .. 15
           /\ m \in BitsOf(Table[ByteOf(q) + 1]) <=> TailTimes(q, m)
  <1> DEFINE v == ByteOf(q)
             entry == Table[v + 1]
  <1>0. v = (IF 0 \in q THEN 1 ELSE 0) + (IF 1 \in q THEN 2 ELSE 0)
          + (IF 2 \in q THEN 4 ELSE 0) + (IF 3 \in q THEN 8 ELSE 0)
    BY ByteIs
  <1> HIDE DEF v
  <1>1. v \in 0 .. 15
    BY <1>0
  <1>2. m \in BitsOf(entry) <=> m \in 0 .. 7 /\ (entry \div Weight[m + 1]) % 2 = 1
    BY DEF BitsOf
  <1>3. entry \in Nat
    BY <1>1 DEF Table
  <1>4. /\ entry % 2 = 1 <=> 0 \in q
        /\ (entry \div 2) % 2 = 1 <=> Odd(1 \in q, 0 \in q)
        /\ (entry \div 4) % 2 = 1 <=> Odd(2 \in q, 1 \in q)
        /\ (entry \div 8) % 2 = 1 <=> Odd(Odd(3 \in q, 2 \in q), 0 \in q)
    BY <1>0, <1>1 DEF Table, Odd, Odd4
  <1>5. /\ (entry \div 16) % 2 = 1 <=> Odd(3 \in q, Odd(1 \in q, 0 \in q))
        /\ (entry \div 32) % 2 = 1 <=> Odd(2 \in q, 1 \in q)
        /\ (entry \div 64) % 2 = 1 <=> Odd(3 \in q, 2 \in q)
        /\ (entry \div 128) % 2 = 1 <=> 3 \in q
    BY <1>0, <1>1 DEF Table, Odd, Odd4
  <1>6. /\ TailTimes(q, 0) <=> 0 \in q
        /\ TailTimes(q, 1) <=> Odd(1 \in q, 0 \in q)
        /\ TailTimes(q, 2) <=> Odd(2 \in q, 1 \in q)
        /\ TailTimes(q, 3) <=> Odd(Odd(3 \in q, 2 \in q), 0 \in q)
        /\ TailTimes(q, 4) <=> Odd(3 \in q, Odd(1 \in q, 0 \in q))
        /\ TailTimes(q, 5) <=> Odd(2 \in q, 1 \in q)
        /\ TailTimes(q, 6) <=> Odd(3 \in q, 2 \in q)
        /\ TailTimes(q, 7) <=> 3 \in q
    BY DEF TailTimes, Odd4, Odd
  <1>7. m \notin 0 .. 7 => ~TailTimes(q, m)
    BY DEF TailTimes, Odd4, Odd
  <1> HIDE DEF entry
  <1>8. /\ entry \div Weight[1] = entry /\ Weight[2] = 2 /\ Weight[3] = 4 /\ Weight[4] = 8
        /\ Weight[5] = 16 /\ Weight[6] = 32 /\ Weight[7] = 64 /\ Weight[8] = 128
    BY <1>3 DEF Weight
  <1>9. m \in 0 .. 7 => ((entry \div Weight[m + 1]) % 2 = 1 <=> TailTimes(q, m))
    <2> SUFFICES ASSUME m \in {0, 1, 2, 3, 4, 5, 6, 7}
                 PROVE  (entry \div Weight[m + 1]) % 2 = 1 <=> TailTimes(q, m)
      OBVIOUS
    <2>0. CASE m = 0
      BY <1>4, <1>6, <1>8, <2>0
    <2>1. CASE m = 1
      BY <1>4, <1>6, <1>8, <2>1
    <2>2. CASE m = 2
      BY <1>4, <1>6, <1>8, <2>2
    <2>3. CASE m = 3
      BY <1>4, <1>6, <1>8, <2>3
    <2>4. CASE m = 4
      BY <1>5, <1>6, <1>8, <2>4
    <2>5. CASE m = 5
      BY <1>5, <1>6, <1>8, <2>5
    <2>6. CASE m = 6
      BY <1>5, <1>6, <1>8, <2>6
    <2>7. CASE m = 7
      BY <1>5, <1>6, <1>8, <2>7
    <2> QED
      BY <2>0, <2>1, <2>2, <2>3, <2>4, <2>5, <2>6, <2>7
  <1>10. m \in BitsOf(entry) <=> TailTimes(q, m)
    BY <1>2, <1>7, <1>9
  <1> QED
    BY <1>1, <1>10 DEF entry, v

\* The terms of a 128-bit input that overflow, of its quotient, and of what
\* overflows of that.
Over(A) == High64(A)
OverTwice(A) == High64(Quotient(A))
\* What either reduction leaves of coefficient m.
Left(A, m) == m < 64 /\ Odd(TailTimes(OverTwice(A), m), Odd(m \in Quotient(A), m \in A))

\* A coefficient of the high half.
LEMMA HighCoefficient ==
    ASSUME NEW A, A \subseteq Int
    PROVE  /\ High64(A) \subseteq Nat
           /\ \A m \in Int : m \in High64(A) <=> m >= 0 /\ m + 64 \in A
  <1>1. \A m \in High64(A) : \E x \in A : x >= 64 /\ m = x - 64
    BY DEF High64
  <1>2. \A x \in A : x >= 64 => x - 64 \in High64(A)
    BY DEF High64
  <1>3. \A m \in Int : m + 64 \in A /\ m >= 0 => m \in High64(A)
    <2> SUFFICES ASSUME NEW m \in Int, m + 64 \in A, m >= 0 PROVE m \in High64(A)
      OBVIOUS
    <2>1. (m + 64) - 64 \in High64(A)
      BY <1>2
    <2> QED
      BY <2>1
  <1> QED
    BY <1>1, <1>3

\* The coefficients of what overflows, of the quotient, and of what overflows of
\* that: at most four.
LEMMA OverIs ==
    ASSUME NEW A, A \subseteq 0 .. 127
    PROVE  /\ Over(A) \subseteq 0 .. 63 /\ Quotient(A) \subseteq Int /\ OverTwice(A) \subseteq 0 .. 3
           /\ \A m \in Int : m \in Over(A) <=> m >= 0 /\ m + 64 \in A
           /\ \A m \in Int : m \in Quotient(A) <=> TailTimes(Over(A), m)
           /\ \A m \in Int : m \in OverTwice(A) <=> m >= 0 /\ m + 64 \in Quotient(A)
  <1>1. Over(A) \subseteq Nat /\ \A m \in Int : m \in Over(A) <=> m >= 0 /\ m + 64 \in A
    <2>1. A \subseteq Int
      OBVIOUS
    <2> QED
      BY <2>1, HighCoefficient DEF Over
  <1>2. Over(A) \subseteq 0 .. 63
    BY <1>1
  <1>3. Quotient(A) \subseteq Int /\ \A m \in Int : m \in Quotient(A) <=> TailTimes(Over(A), m)
    BY <1>2, ProductIsInt, ProductCoefficient DEF Quotient, Over
  <1>4. OverTwice(A) \subseteq Nat
        /\ \A m \in Int : m \in OverTwice(A) <=> m >= 0 /\ m + 64 \in Quotient(A)
    BY <1>3, HighCoefficient DEF OverTwice
  <1>5. ASSUME NEW m \in OverTwice(A) PROVE m \in 0 .. 3
    <2>1. m \in Nat /\ TailTimes(Over(A), m + 64)
      BY <1>3, <1>4
    <2>2. m + 60 \in Over(A) \/ m + 61 \in Over(A) \/ m + 63 \in Over(A) \/ m + 64 \in Over(A)
      BY <2>1 DEF TailTimes, Odd4, Odd
    <2> QED
      BY <1>2, <2>1, <2>2
  <1> QED
    BY <1>1, <1>2, <1>3, <1>4, <1>5

\* The first index byte is what overflows twice; the others are zero.
LEMMA IndexBytes ==
    ASSUME NEW A, A \subseteq 0 .. 127
    PROVE  /\ HighByte(A, 0) = ByteOf(OverTwice(A))
           /\ \A k \in 1 .. 7 : HighByte(A, k) = ByteOf({})
           /\ ByteOf(OverTwice(A)) \in 0 .. 15 /\ ByteOf({}) = 0
  <1>1. OverTwice(A) \subseteq 0 .. 3
    BY OverIs
  <1>2. {e - 8 * 0 : e \in OverTwice(A) \cap (8 * 0 .. 8 * 0 + 7)} = OverTwice(A)
    BY <1>1
  <1>3. \A k \in 1 .. 7 : {e - 8 * k : e \in OverTwice(A) \cap (8 * k .. 8 * k + 7)} = {}
    BY <1>1
  <1>4. ByteOf(OverTwice(A)) \in 0 .. 15 /\ ByteOf({}) = 0
    BY <1>1, EntryIsProduct, ByteIs
  <1> QED
    BY <1>2, <1>3, <1>4 DEF HighByte, OverTwice

\* What either table reduction leaves, a coefficient at a time.
LEMMA ReductionsLeft ==
    ASSUME NEW A, A \subseteq 0 .. 127
    PROVE  /\ ~IndexOverflows(A)
           /\ Reduction(A) \subseteq Int /\ RefReduction(A) \subseteq Int
           /\ \A m \in Int : /\ m \in Reduction(A) <=> Left(A, m)
                             /\ m \in RefReduction(A) <=> Left(A, m)
  <1> DEFINE q == OverTwice(A)
             v == ByteOf(q)
  <1>1. /\ HighByte(A, 0) = v /\ v \in 0 .. 15
        /\ \A k \in 1 .. 7 : HighByte(A, k) = 0
    BY IndexBytes
  <1>2. q \subseteq 0 .. 3 /\ Quotient(A) \subseteq Int
    BY OverIs
  <1>3. \A m \in Int : m \in BitsOf(Table[v + 1]) <=> TailTimes(q, m)
    <2> SUFFICES ASSUME NEW m \in Int PROVE m \in BitsOf(Table[v + 1]) <=> TailTimes(q, m)
      OBVIOUS
    <2> HIDE DEF q
    <2> QED
      BY <1>2, EntryIsProduct
  <1> HIDE DEF v
  <1>4. BitsOf(Table[0 + 1]) = {}
    BY DEF Table, BitsOf, Weight
  <1>5. \A k \in 0 .. 7 : HighByte(A, k) \in 0 .. 15
    BY <1>1
  <1>6. ~IndexOverflows(A)
    BY <1>5 DEF IndexOverflows
  <1> HIDE DEF q
  <1>7. Shuffle(A) = BitsOf(Table[v + 1])
    <2> DEFINE part(k) == {8 * k + e : e \in IF HighByte(A, k) < 16
                                             THEN BitsOf(Table[HighByte(A, k) + 1]) ELSE {}}
    <2>1. Shuffle(A) = UNION {part(k) : k \in 0 .. 7}
      BY DEF Shuffle
    <2>2. \A k \in 1 .. 7 : part(k) = {}
      BY <1>1, <1>4
    <2>3. part(0) = BitsOf(Table[v + 1])
      <3>1. part(0) = {8 * 0 + e : e \in BitsOf(Table[v + 1])}
        BY <1>1
      <3>2. \A e \in BitsOf(Table[v + 1]) : e \in Int /\ 8 * 0 + e = e
        BY DEF BitsOf
      <3> QED
        BY <3>1, <3>2
    <2> HIDE DEF part
    <2>4. \A k \in 0 .. 7 : k = 0 \/ k \in 1 .. 7
      OBVIOUS
    <2> QED
      BY <2>1, <2>2, <2>3, <2>4
  <1>8. RefReduction(A) = Low64(Sum(BitsOf(Table[v + 1]), Sum(Quotient(A), A)))
    BY <1>1 DEF RefReduction
  <1>9. Reduction(A) = RefReduction(A)
    BY <1>7, <1>8 DEF Reduction
  <1>10. \A m \in Int : m \in RefReduction(A) <=> Left(A, m)
    <2> SUFFICES ASSUME NEW m \in Int PROVE m \in RefReduction(A) <=> Left(A, m)
      OBVIOUS
    <2> DEFINE T == BitsOf(Table[v + 1])
    <2>1. m \in Sum(Quotient(A), A) <=> Odd(m \in Quotient(A), m \in A)
      BY SumCoefficient
    <2>2. m \in Sum(T, Sum(Quotient(A), A)) <=> Odd(m \in T, m \in Sum(Quotient(A), A))
      BY SumCoefficient
    <2>3. m \in RefReduction(A) <=> m < 64 /\ m \in Sum(T, Sum(Quotient(A), A))
      BY <1>8 DEF Low64
    <2> QED
      BY <1>3, <2>1, <2>2, <2>3 DEF Left, Odd, q
  <1>11. RefReduction(A) \subseteq Int
    <2>1. BitsOf(Table[v + 1]) \subseteq Int
      BY DEF BitsOf
    <2>2. A \subseteq Int
      OBVIOUS
    <2> QED
      BY <1>2, <1>8, <2>1, <2>2 DEF Low64, Sum
  <1> QED
    BY <1>6, <1>9, <1>10, <1>11

\* Long division: round n takes the quotient's term 64 - n away, if it has it.
DivideStart(A) == A
DivideRound(A, was, n) ==
    IF 128 - n \in was THEN Sum(was, {128 - n} \cup {e + 64 - n : e \in Tail}) ELSE was
DivideLoop == INSTANCE Loops WITH Start <- DivideStart, Round <- DivideRound

\* The whole quotient, and the part that n rounds have taken away.
Quotients(A) == Sum(Over(A), OverTwice(A))
Taken(A, n) == {g \in Quotients(A) : g >= 64 - n}
\* What is left then of coefficient m.
LeftAfter(A, n, m) == Odd(m \in A, Odd(m - 64 \in Taken(A, n), TailTimes(Taken(A, n), m)))

\* Each round sees the quotient's next term: the four terms that overflow twice
\* are made long before their rounds come, by terms that are the input's own.
LEMMA NextTerm ==
    ASSUME NEW A, A \subseteq 0 .. 127, NEW n \in 0 .. 63
    PROVE  LeftAfter(A, n, 127 - n) <=> 63 - n \in Quotients(A)
  <1> DEFINE H == Over(A)
             D == OverTwice(A)
             G == Quotients(A)
             T == Taken(A, n)
             d == 127 - n
  <1>1. /\ H \subseteq 0 .. 63 /\ D \subseteq 0 .. 3
        /\ \A m \in Int : m \in H <=> m >= 0 /\ m + 64 \in A
        /\ \A m \in Int : m \in D <=> m >= 0 /\ TailTimes(H, m + 64)
    <2>1. /\ H \subseteq 0 .. 63 /\ Quotient(A) \subseteq Int /\ D \subseteq 0 .. 3
          /\ \A m \in Int : m \in H <=> m >= 0 /\ m + 64 \in A
          /\ \A m \in Int : m \in Quotient(A) <=> TailTimes(H, m)
          /\ \A m \in Int : m \in D <=> m >= 0 /\ m + 64 \in Quotient(A)
      BY OverIs
    <2>2. \A m \in Int : m + 64 \in Int
      OBVIOUS
    <2> HIDE DEF H, D
    <2> QED
      BY <2>1, <2>2
  <1>2. /\ G \subseteq 0 .. 63
        /\ \A m : m \in G <=> Odd(m \in H, m \in D)
        /\ \A m : m \in T <=> m \in G /\ m >= 64 - n
    <2>1. \A m : m \in G <=> Odd(m \in H, m \in D)
      BY SumCoefficient DEF Quotients
    <2>2. \A m : m \in T <=> m \in G /\ m >= 64 - n
      BY DEF Taken
    <2>3. G \subseteq H \cup D
      BY <2>1 DEF Odd
    <2>4. G \subseteq 0 .. 63
      BY <1>1, <2>3
    <2> QED
      BY <2>1, <2>2, <2>4
  <1>3. /\ d - 64 = 63 - n /\ d \in Int /\ d - 64 \in 0 .. 63
        /\ d \in A <=> 63 - n \in H
    <2> HIDE DEF H
    <2> QED
      BY <1>1
  <1>4. LeftAfter(A, n, d) <=> Odd(d \in A, Odd(d - 64 \in T, TailTimes(T, d)))
    BY DEF LeftAfter
  <1>5. ~(d - 64 \in T)
    <2> HIDE DEF T, G, H, D
    <2> QED
      BY <1>2
  <1>6. TailTimes(T, d) <=> 63 - n \in D
    <2>1. CASE n <= 59
      <3>1. ~(d \in T) /\ ~(d - 1 \in T) /\ ~(d - 3 \in T) /\ ~(d - 4 \in T)
        <4> HIDE DEF T, G, H, D
        <4> QED
          BY <1>2, <2>1
      <3>2. ~(63 - n \in D)
        <4> HIDE DEF T, G, H, D
        <4> QED
          BY <1>1, <2>1
      <3> QED
        BY <3>1, <3>2 DEF TailTimes, Odd4, Odd
    <2>2. CASE n >= 60
      <3>1. \A m \in {d, d - 1, d - 3, d - 4} : m \in T <=> m \in H
        <4> HIDE DEF T, G, H, D
        <4> QED
          BY <1>1, <1>2, <2>2 DEF Odd
      <3>2. TailTimes(T, d) <=> TailTimes(H, d)
        <4> HIDE DEF T, H
        <4> QED
          BY <3>1 DEF TailTimes
      <3>3. 63 - n \in D <=> TailTimes(H, d)
        <4>1. (63 - n) + 64 = d /\ 63 - n \in Int /\ 63 - n >= 0
          OBVIOUS
        <4> HIDE DEF T, H, D, d
        <4> QED
          BY <1>1, <4>1
      <3> QED
        BY <3>2, <3>3
    <2> QED
      BY <2>1, <2>2
  <1>7. 63 - n \in G <=> Odd(63 - n \in H, 63 - n \in D)
    BY <1>2
  <1> HIDE DEF T, G, H, D
  <1> QED
    BY <1>3, <1>4, <1>5, <1>6, <1>7 DEF Odd, G

\* A round keeps what is left in step with what has been taken away.
LEMMA NextRound ==
    ASSUME NEW A, A \subseteq 0 .. 127, NEW n \in 0 .. 63, NEW was,
           was \subseteq Int, \A m \in Int : m \in was <=> LeftAfter(A, n, m)
    PROVE  /\ DivideRound(A, was, n + 1) \subseteq Int
           /\ \A m \in Int : m \in DivideRound(A, was, n + 1) <=> LeftAfter(A, n + 1, m)
  <1> DEFINE g == 63 - n
             G == Quotients(A)
             T == Taken(A, n)
             U == Taken(A, n + 1)
             added == {128 - (n + 1)} \cup {e + 64 - (n + 1) : e \in Tail}
  <1>1. G \subseteq Int
    <2>1. Over(A) \subseteq 0 .. 63 /\ OverTwice(A) \subseteq 0 .. 3
      BY OverIs
    <2> QED
      BY <2>1 DEF Quotients, Sum
  <1>2. 128 - (n + 1) \in was <=> g \in G
    <2>1. 128 - (n + 1) = 127 - n /\ 127 - n \in Int
      OBVIOUS
    <2> QED
      BY <2>1, NextTerm
  <1>3. /\ \A m \in Int : m \in U <=> m \in T \/ (m = g /\ g \in G)
        /\ ~(g \in T)
    <2>1. /\ \A m : m \in T <=> m \in G /\ m >= 64 - n
          /\ \A m : m \in U <=> m \in G /\ m >= 64 - (n + 1)
      BY DEF Taken
    <2> HIDE DEF G, T, U
    <2> QED
      BY <1>1, <2>1
  <1>4. /\ added \subseteq Int
        /\ \A m \in Int : m \in added <=> Odd(m = g + 64, m - g \in Tail)
    BY DEF Tail, Odd
  <1> HIDE DEF G, T, U
  <1>5. CASE g \notin G
    <2>1. DivideRound(A, was, n + 1) = was
      BY <1>2, <1>5 DEF DivideRound
    <2>2. \A m \in Int : m \in U <=> m \in T
      BY <1>3, <1>5
    <2>3. \A m \in Int : LeftAfter(A, n + 1, m) <=> LeftAfter(A, n, m)
      BY <2>2 DEF LeftAfter, TailTimes, T, U
    <2> QED
      BY <2>1, <2>3
  <1>6. CASE g \in G
    <2>1. DivideRound(A, was, n + 1) = Sum(was, added)
      BY <1>2, <1>6 DEF DivideRound
    <2> HIDE DEF added
    <2>2. Sum(was, added) \subseteq Int
      BY <1>4 DEF Sum
    <2>3. ASSUME NEW m \in Int PROVE m \in Sum(was, added) <=> LeftAfter(A, n + 1, m)
      <3>1. m \in Sum(was, added) <=> Odd(m \in was, m \in added)
        BY SumCoefficient
      <3>2. m \in was <=> Odd(m \in A, Odd(m - 64 \in T, TailTimes(T, m)))
        BY DEF LeftAfter, T
      <3>3. LeftAfter(A, n + 1, m) <=> Odd(m \in A, Odd(m - 64 \in U, TailTimes(U, m)))
        BY DEF LeftAfter, U
      <3>4. m \in added <=> Odd(m = g + 64, m - g \in Tail)
        BY <1>4
      <3>5. m - 64 \in U <=> Odd(m - 64 \in T, m = g + 64)
        BY <1>3, <1>6 DEF Odd
      <3>6. TailTimes(U, m) <=> Odd(TailTimes(T, m), m - g \in Tail)
        <4>1. \A e \in {0, 1, 3, 4} : m - e \in U <=> Odd(m - e \in T, m - g = e)
          BY <1>3, <1>6 DEF Odd
        <4>2. m - g \in Tail <=> m - g = 0 \/ m - g = 1 \/ m - g = 3 \/ m - g = 4
          BY DEF Tail
        <4>3. /\ m \in U <=> Odd(m \in T, m - g = 0)
              /\ m - 1 \in U <=> Odd(m - 1 \in T, m - g = 1)
              /\ m - 3 \in U <=> Odd(m - 3 \in T, m - g = 3)
              /\ m - 4 \in U <=> Odd(m - 4 \in T, m - g = 4)
          BY <4>1
        <4> HIDE DEF g
        <4> QED
          BY <4>2, <4>3 DEF TailTimes, Odd4, Odd
      <3> QED
        BY <3>1, <3>2, <3>3, <3>4, <3>5, <3>6 DEF Odd
    <2> QED
      BY <2>1, <2>2, <2>3
  <1> QED
    BY <1>5, <1>6

\* With the whole quotient taken away the remainder is left.
LEMMA AllTaken ==
    ASSUME NEW A, A \subseteq 0 .. 127, NEW m \in Int
    PROVE  LeftAfter(A, 64, m) <=> Left(A, m)
  <1> DEFINE H == Over(A)
             D == OverTwice(A)
             Q == Quotient(A)
             G == Quotients(A)
             T == Taken(A, 64)
  <1>1. /\ H \subseteq 0 .. 63 /\ D \subseteq 0 .. 3
        /\ \A x \in Int : x \in H <=> x >= 0 /\ x + 64 \in A
        /\ \A x \in Int : x \in Q <=> TailTimes(H, x)
        /\ \A x \in Int : x \in D <=> x >= 0 /\ x + 64 \in Q
    BY OverIs
  <1>2. \A x : x \in G <=> Odd(x \in H, x \in D)
    BY SumCoefficient DEF Quotients
  <1>3. \A x : x \in T <=> x \in G
    <2>1. \A x \in G : x \in H \/ x \in D
      BY <1>2 DEF Odd
    <2>2. \A x \in G : x >= 0
      BY <1>1, <2>1
    <2> QED
      BY <2>2 DEF Taken
  <1>4. TailTimes(T, m) <=> Odd(TailTimes(H, m), TailTimes(D, m))
    <2> HIDE DEF H, D, G, T
    <2>1. \A x : x \in T <=> Odd(x \in H, x \in D)
      BY <1>2, <1>3
    <2> QED
      BY <2>1 DEF TailTimes, Odd4, Odd
  <1>5. LeftAfter(A, 64, m) <=> Odd(m \in A, Odd(m - 64 \in G, Odd(m \in Q, TailTimes(D, m))))
    <2>1. TailTimes(H, m) <=> m \in Q
      BY <1>1
    <2>2. LeftAfter(A, 64, m) <=> Odd(m \in A, Odd(m - 64 \in T, TailTimes(T, m)))
      BY DEF LeftAfter
    <2> HIDE DEF H, D, Q, G, T
    <2>3. m - 64 \in T <=> m - 64 \in G
      BY <1>3
    <2> QED
      BY <1>4, <2>1, <2>2, <2>3 DEF Odd
  <1>6. Left(A, m) <=> m < 64 /\ Odd(TailTimes(D, m), Odd(m \in Q, m \in A))
    BY DEF Left
  <1> HIDE DEF H, D, Q, G, T
  <1>7. CASE m < 64
    <2>1. m - 64 \notin G
      BY <1>1, <1>2, <1>7 DEF Odd
    <2> QED
      BY <1>5, <1>6, <1>7, <2>1 DEF Odd
  <1>8. CASE m >= 64
    <2>1. /\ m - 64 \in H <=> m \in A
          /\ m - 64 \in D <=> m \in Q
      <3>1. m - 64 \in Int /\ m - 64 >= 0 /\ (m - 64) + 64 = m
        BY <1>8
      <3> QED
        BY <1>1, <3>1
    <2>2. ~TailTimes(D, m)
      BY <1>1, <1>8 DEF TailTimes, Odd4, Odd
    <2>3. m - 64 \in G <=> Odd(m - 64 \in H, m - 64 \in D)
      BY <1>2
    <2> QED
      BY <1>5, <1>6, <1>8, <2>1, <2>2, <2>3 DEF Odd
  <1> QED
    BY <1>7, <1>8

\* The loop of the long division, by induction on its rounds.
LEMMA RemainderLeft ==
    ASSUME NEW A, A \subseteq 0 .. 127
    PROVE  Remainder(A) \subseteq Int /\ \A m \in Int : m \in Remainder(A) <=> Left(A, m)
  <1> DEFINE
        f[n \in 0 .. 64] ==
          IF n = 0 THEN A
          ELSE LET was == f[n - 1]
               IN  IF 128 - n \in was
                   THEN Sum(was, {128 - n} \cup {e + 64 - n : e \in Tail})
                   ELSE was
        T == {n \in Nat : n <= 64 => /\ f[n] \subseteq Int
                                     /\ \A m \in Int : m \in f[n] <=> LeftAfter(A, n, m)}
  <1>1. PICK g : DivideLoop!Computes(A, 64, g)
    BY DivideLoop!LoopComputes
  <1>2. g = [n \in 0 .. 64 |-> IF n = 0 THEN A
                               ELSE IF 128 - n \in g[n - 1]
                                    THEN Sum(g[n - 1], {128 - n} \cup {e + 64 - n : e \in Tail})
                                    ELSE g[n - 1]]
    BY <1>1 DEF DivideLoop!Computes, DivideStart, DivideRound
  <1>3. f = [n \in 0 .. 64 |-> IF n = 0 THEN A
                               ELSE IF 128 - n \in f[n - 1]
                                    THEN Sum(f[n - 1], {128 - n} \cup {e + 64 - n : e \in Tail})
                                    ELSE f[n - 1]]
    BY <1>2
  <1>4. Remainder(A) = f[64]
    BY DEF Remainder
  <1> HIDE DEF f
  <1>5. f[0] = A /\ \A n \in 0 .. 63 : f[n + 1] = DivideRound(A, f[n], n + 1)
    BY <1>3 DEF DivideRound
  <1>6. 0 \in T
    <2>1. Taken(A, 0) = {}
      <3>1. Over(A) \subseteq 0 .. 63 /\ OverTwice(A) \subseteq 0 .. 3
        BY OverIs
      <3> QED
        BY <3>1 DEF Taken, Quotients, Sum
    <2>2. \A m \in Int : LeftAfter(A, 0, m) <=> m \in A
      BY <2>1 DEF LeftAfter, TailTimes, Odd4, Odd
    <2>3. A \subseteq Int
      OBVIOUS
    <2> QED
      BY <1>5, <2>2, <2>3
  <1>7. ASSUME NEW n \in Nat, n \in T PROVE n + 1 \in T
    <2> SUFFICES ASSUME n + 1 <= 64
                 PROVE  /\ f[n + 1] \subseteq Int
                        /\ \A m \in Int : m \in f[n + 1] <=> LeftAfter(A, n + 1, m)
      OBVIOUS
    <2>1. n \in 0 .. 63 /\ f[n] \subseteq Int /\ \A m \in Int : m \in f[n] <=> LeftAfter(A, n, m)
      BY <1>7
    <2>2. f[n + 1] = DivideRound(A, f[n], n + 1)
      BY <1>5, <2>1
    <2> DEFINE was == f[n]
    <2> HIDE DEF was
    <2>3. was \subseteq Int /\ \A m \in Int : m \in was <=> LeftAfter(A, n, m)
      BY <2>1 DEF was
    <2>4. /\ DivideRound(A, was, n + 1) \subseteq Int
          /\ \A m \in Int : m \in DivideRound(A, was, n + 1) <=> LeftAfter(A, n + 1, m)
      BY <2>1, <2>3, NextRound
    <2> QED
      BY <2>2, <2>4 DEF was
  <1> HIDE DEF T
  <1>8. 64 \in T
    BY <1>6, <1>7, Counting
  <1>9. f[64] \subseteq Int /\ \A m \in Int : m \in f[64] <=> LeftAfter(A, 64, m)
    BY <1>8 DEF T
  <1> QED
    BY <1>4, <1>9, AllTaken

\* Both reductions are the remainder of every 128-bit polynomial.
THEOREM ReductionsAreRemainders ==
    ASSUME NEW A, A \subseteq 0 .. 127
    PROVE  ~IndexOverflows(A) /\ Reduction(A) = Remainder(A) /\ RefReduction(A) = Remainder(A)
  <1> DEFINE S == Reduction(A)
             R == RefReduction(A)
             M == Remainder(A)
  <1>1. /\ ~IndexOverflows(A) /\ S \subseteq Int /\ R \subseteq Int
        /\ \A m \in Int : (m \in S <=> Left(A, m)) /\ (m \in R <=> Left(A, m))
    BY ReductionsLeft
  <1>2. M \subseteq Int /\ \A m \in Int : m \in M <=> Left(A, m)
    BY RemainderLeft
  <1> HIDE DEF S, R, M
  <1>3. S = M
    BY <1>1, <1>2
  <1>4. R = M
    BY <1>1, <1>2
  <1> QED
    BY <1>1, <1>3, <1>4 DEF S, R, M

\* Every call of the reduction is of such a polynomial: no index byte leaves the
\* table, and the engine and the reference both return the remainder.
THEOREM ReductionIsSound == Spec => []ReductionIsRemainder
  <1>1. TypeOK => ReductionIsRemainder
    <2> SUFFICES ASSUME TypeOK, call.kernel = "reduce"
                 PROVE  /\ ~IndexOverflows(call.A)
                        /\ Reduction(call.A) = Remainder(call.A)
                        /\ RefReduction(call.A) = Remainder(call.A)
      BY DEF ReductionIsRemainder
    <2>1. PICK A \in Polynomials : call = [kernel |-> "reduce", A |-> A]
      BY DEF TypeOK, Idle, Draws
    <2>2. call.A \subseteq 0 .. 127
      BY <2>1, KernelAssumption
    <2> QED
      BY <2>2, ReductionsAreRemainders
  <1> QED
    BY <1>1, CallTyped, PTL
=============================================================================

----------------------------- MODULE RefBodies -----------------------------
(***************************************************************************)
(* The step bodies of the portable reference, ref/ref.cpp, in their        *)
(* original serial form: branches where the code branches, loops that       *)
(* count rounds down, and the carry-less squares computed where they are    *)
(* used.  What the engine's bodies are compared with.                       *)
(***************************************************************************)
EXTENDS StepBodies

PbufCopy(buf) == [b \in 0 .. 3 |-> <<Xor(buf[1], buf[3]), Xor(buf[2], buf[4]),
                                     buf[3], buf[4]>>[b + 1]]

\* pbuf_alt: written pbuf[-1] or pbuf[+1] upstream, by the selector's low bit.
PbufAlt(s, pbuf) == pbuf[Flip(s.base)]
Pbuf(s, pbuf) == pbuf[s.base]

RefCase0(exact, s, pbuf, acc, key) ==
    LET temp1 == key[s.prandex]
        acc1 == Xor(CarryLess(Xor(temp1, PbufAlt(s, pbuf))), acc)
        temp12 == key[s.prand]
        key1 == [key EXCEPT ![s.prand] = Xor(Mulhrs(exact, acc1, temp1), temp1)]
        acc2 == Xor(CarryLess(Xor(temp12, Pbuf(s, pbuf))), acc1)
    IN  [acc |-> acc2,
         key |-> [key1 EXCEPT ![s.prandex] = Xor(Mulhrs(exact, acc2, temp12), temp12)]]

RefCase1(exact, s, pbuf, acc, key) ==
    LET temp1 == key[s.prand]
        temp2 == Pbuf(s, pbuf)
        acc1 == Xor(CarryLess(temp2), Xor(CarryLess(Xor(temp1, temp2)), acc))
        temp12 == key[s.prandex]
        key1 == [key EXCEPT ![s.prandex] = Xor(Mulhrs(exact, acc1, temp1), temp1)]
        acc2 == Xor(Xor(temp12, PbufAlt(s, pbuf)), acc1)
    IN  [acc |-> acc2,
         key |-> [key1 EXCEPT ![s.prand] = Xor(Mulhrs(exact, acc2, temp12), temp12)]]

RefCase2(exact, s, pbuf, acc, key) ==
    LET temp1 == key[s.prandex]
        acc1 == Xor(Xor(temp1, Pbuf(s, pbuf)), acc)
        temp12 == key[s.prand]
        key1 == [key EXCEPT ![s.prand] = Xor(Mulhrs(exact, acc1, temp1), temp1)]
        temp22 == PbufAlt(s, pbuf)
        acc2 == Xor(CarryLess(temp22), Xor(CarryLess(Xor(temp12, temp22)), acc1))
    IN  [acc |-> acc2,
         key |-> [key1 EXCEPT ![s.prandex] = Xor(Mulhrs(exact, acc2, temp12), temp12)]]

\* The side taken decides the order of the two stores.
RefCase3(exact, s, pbuf, acc, key) ==
    LET temp1 == key[s.prand]
        dividend == Xor(Xor(temp1, PbufAlt(s, pbuf)), acc)
        acc1 == Xor(FromWord(DivRem(dividend, s.low)), dividend)
        tempa2 == Xor(Mulhrs(exact, acc1, temp1), temp1)
        temp12 == key[s.prandex]
        temp22 == Pbuf(s, pbuf)
        acc2 == Xor(CarryLess(temp22), Xor(CarryLess(Xor(temp12, temp22)), acc1))
    IN  IF IsOdd(dividend)
        THEN [acc |-> acc2,
              key |-> [[key EXCEPT ![s.prandex] = tempa2]
                        EXCEPT ![s.prand] = Xor(Mulhrs(exact, acc2, temp12), temp12)]]
        ELSE [acc |-> Xor(temp22, acc1),
              key |-> [[key EXCEPT ![s.prand] = temp12] EXCEPT ![s.prandex] = tempa2]]

RefAes2Mix2(u, key, at, rci) ==
    Mix2(RefAesenc(RefAesenc(u[1], key[at + rci]), key[at + rci + 2]),
         RefAesenc(RefAesenc(u[2], key[at + rci + 1]), key[at + rci + 3]))

RefCase4(exact, s, pbuf, acc, key) ==
    LET start == <<PbufAlt(s, pbuf), Pbuf(s, pbuf)>>
        round(u, rci) == RefAes2Mix2(u, key, s.prand, rci)
        tempa1 == key[s.prand]
        key1 == [key EXCEPT ![s.prand] = key[s.prandex]]
        left(acc1) == [acc |-> acc1,
                       key |-> [key1 EXCEPT ![s.prandex] = Xor(tempa1, Mulhrs(exact, acc1, tempa1))]]
    IN  left(Folded(round(round(round(start, 0), 4), 8), acc))

\* selector & (0x10000000 << rounds), as rounds counts down.
TakesFirst(s, rounds) == FieldBit(s, rounds)

\* A round of case 5's loop.
RefRound5(s, pbuf, key, was, rounds) ==
    LET onekey == key[was.rc]
        odd == rounds % 2 = 1
        rc(n) == key[was.rc + 1 + 4 * was.offset + n]
        temp1 == RefAesenc(RefAesenc(onekey, rc(0)), rc(2))
        buffer == IF odd THEN PbufAlt(s, pbuf) ELSE Pbuf(s, pbuf)
        temp2 == RefAesenc(RefAesenc(buffer, rc(1)), rc(3))
        other == IF odd THEN Pbuf(s, pbuf) ELSE PbufAlt(s, pbuf)
    IN  IF TakesFirst(s, rounds)
        THEN [acc |-> Xor(CarryLess(Xor(onekey, other)), was.acc),
              rc |-> was.rc + 1, offset |-> was.offset]
        ELSE [acc |-> Xor(Zip2x32(temp1, temp2), Xor(Zip1x32(temp1, temp2), was.acc)),
              rc |-> was.rc + 1, offset |-> was.offset + 1]

RefRounds5(s, pbuf, acc, key) ==
    LET st[i \in 0 .. s.rounds + 1] ==
          IF i = 0 THEN [acc |-> acc, rc |-> s.prand, offset |-> 0]
          ELSE RefRound5(s, pbuf, key, st[i - 1], s.rounds - (i - 1))
    IN  st

RefCase5(exact, s, pbuf, acc, key) ==
    LET acc1 == RefRounds5(s, pbuf, acc, key)[s.rounds + 1].acc
        tempa1 == key[s.prand]
        tempa4 == key[s.prandex]
        key1 == [key EXCEPT ![s.prandex] = Xor(tempa1, Mulhrs(exact, acc1, tempa1))]
    IN  [acc |-> acc1, key |-> [key1 EXCEPT ![s.prand] = tempa4]]

\* A round of case 6's loop.
RefRound6(exact, s, pbuf, key, was, rounds) ==
    LET odd == rounds % 2 = 1
        divided == Xor(key[was.rc], IF odd THEN Pbuf(s, pbuf) ELSE PbufAlt(s, pbuf))
        add1 == Xor(key[was.rc], IF odd THEN PbufAlt(s, pbuf) ELSE Pbuf(s, pbuf))
    IN  IF TakesFirst(s, rounds)
        THEN [acc |-> Xor(FromWord(DivRem(divided, s.low)), was.acc),
              rc |-> was.rc + 1, onekey |-> divided]
        ELSE [acc |-> Xor(Mulhrs(exact, was.acc, CarryLess(add1)), was.acc),
              rc |-> was.rc + 1, onekey |-> CarryLess(add1)]

RefRounds6(exact, s, pbuf, acc, key) ==
    LET st[i \in 0 .. s.rounds + 1] ==
          IF i = 0 THEN [acc |-> acc, rc |-> s.prand, onekey |-> Zero]
          ELSE RefRound6(exact, s, pbuf, key, st[i - 1], s.rounds - (i - 1))
    IN  st

RefCase6(exact, s, pbuf, acc, key) ==
    LET last == RefRounds6(exact, s, pbuf, acc, key)[s.rounds + 1]
        tempa3 == key[s.prandex]
        key1 == [key EXCEPT ![s.prandex] = last.onekey]
    IN  [acc |-> last.acc, key |-> [key1 EXCEPT ![s.prand] = Xor(tempa3, last.acc)]]

RefCase7(exact, s, pbuf, acc, key) ==
    LET temp2 == key[s.prandex]
        acc1 == Xor(CarryLess(Xor(Pbuf(s, pbuf), temp2)), acc)
        tempa3 == key[s.prand]
        key1 == [key EXCEPT ![s.prand] = Xor(Mulhrs(exact, acc1, temp2), temp2)]
        acc2 == Xor(PbufAlt(s, pbuf), Xor(tempa3, acc1))
    IN  [acc |-> acc2,
         key |-> [key1 EXCEPT ![s.prandex] = Xor(Mulhrs(exact, acc2, tempa3), tempa3)]]

RefStep(exact, s, pbuf, acc, key) ==
    CASE s.case = 0 -> RefCase0(exact, s, pbuf, acc, key)
      [] s.case = 1 -> RefCase1(exact, s, pbuf, acc, key)
      [] s.case = 2 -> RefCase2(exact, s, pbuf, acc, key)
      [] s.case = 3 -> RefCase3(exact, s, pbuf, acc, key)
      [] s.case = 4 -> RefCase4(exact, s, pbuf, acc, key)
      [] s.case = 5 -> RefCase5(exact, s, pbuf, acc, key)
      [] s.case = 6 -> RefCase6(exact, s, pbuf, acc, key)
      [] OTHER -> RefCase7(exact, s, pbuf, acc, key)
=============================================================================

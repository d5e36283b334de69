------------------------------ MODULE Vectors ------------------------------
(***************************************************************************)
(* The 128-bit vectors of include/vh22/arch.h and of the portable         *)
(* reference ref/ref.cpp.  A 32-bit word is the set of its one bits, so    *)
(* exclusive or is symmetric difference, and a vector is its four words,   *)
(* low word first.  The nonlinear instructions are constant operators: what *)
(* is proved of the code built from them holds whatever they compute, and   *)
(* a run gives them free constructors, so that two vectors are equal only   *)
(* if the code computed them alike.                                         *)
(***************************************************************************)
EXTENDS Naturals

CONSTANTS
    Mix(_),         \* AESMC(AESE(x, 0)): SubBytes, ShiftRows and MixColumns
    CarryLess(_),   \* v_lo (x) v_hi, the carry-less product of v's two halves
    MulWord(_, _, _),  \* mhrs<Exact> on the two 16-bit lanes of a word
    DivRem(_, _)    \* v_lo % (int32_t)w, for a vector and a word

Bits == 0 .. 31
ZeroWord == {}
XorWord(a, b) == {x \in a \cup b : (x \in a) # (x \in b)}

Zero == <<ZeroWord, ZeroWord, ZeroWord, ZeroWord>>
Xor(a, b) == <<XorWord(a[1], b[1]), XorWord(a[2], b[2]),
               XorWord(a[3], b[3]), XorWord(a[4], b[4])>>
Xor3(a, b, c) == Xor(a, Xor(b, c))

\* vbslq_u8 with a mask that is all ones or all zeros.
Select(c, a, b) == IF c THEN a ELSE b

\* vfrom_u32: a word in the low lane, zeros above it.
FromWord(w) == <<w, ZeroWord, ZeroWord, ZeroWord>>

Zip1x32(a, b) == <<a[1], b[1], a[2], b[2]>>
Zip2x32(a, b) == <<a[3], b[3], a[4], b[4]>>
Zip1x64(a, b) == <<a[1], a[2], b[1], b[2]>>
Zip2x64(a, b) == <<a[3], a[4], b[3], b[4]>>

\* The mix of two words, and both words of a mix xored into a third.
Mix2(a, b) == <<Zip1x32(a, b), Zip2x32(a, b)>>
Folded(u, acc) == Xor(u[2], Xor(u[1], acc))

\* The bodies are templates on which multiply they use: mining takes the faster
\* instruction, which is wrong for one pair of lanes.
Fast == FALSE
Exact == TRUE

\* mhrs<Exact>: lane by lane, hence word by word.  By zero it is zero, whichever
\* the instruction, and the straight line of case 6 counts on it.
MulLanes(exact, a, b) == IF b = ZeroWord THEN ZeroWord ELSE MulWord(exact, a, b)
Mulhrs(exact, a, b) == <<MulLanes(exact, a[1], b[1]), MulLanes(exact, a[2], b[2]),
                         MulLanes(exact, a[3], b[3]), MulLanes(exact, a[4], b[4])>>

\* The parity of a signed 64-bit value is its lowest bit.
IsOdd(v) == 0 \in v[1]

----------------------------------------------------------------------------
(* AES.  The arm instruction adds the key before the round and the x86 one  *)
(* after it; the engine fuses pairs of rounds, the reference does not.      *)

AesBegin(s) == Mix(s)
AesRound(s, k) == Mix(Xor(s, k))
Aes2Fused(s, ka, kb) == Xor(AesRound(AesBegin(s), ka), kb)

RefAesenc(x, k) == Xor(Mix(x), k)
=============================================================================

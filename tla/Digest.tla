------------------------------- MODULE Digest -------------------------------
(***************************************************************************)
(* What a hash is: the reference implementation's hash_nonce over a key     *)
(* expanded from the head of the half-hashed header.  A working buffer is    *)
(* its four parts: the half's head (bytes 0-31), the pool's nonce space      *)
(* (32-42), the nonce (43-46) and the fill (47-63).  A head is two vectors.    *)
(***************************************************************************)
EXTENDS RefBodies, Haraka, Sequences

CONSTANTS
    Steps,          \* kSteps: the steps of a walk
    RoundConstants, \* the fixed constants of Haraka, a function on 0 .. 39
    Pack(_),        \* the four vectors of a working buffer
    HeadFill(_),    \* the fill made of a head's first bytes
    TailFill(_),    \* the fill made of a 64-bit intermediate
    Reduce64(_),    \* precomp_reduction64: the intermediate, two words
    LengthHash,     \* the vector of 0x10000
    Exceeds(_, _),  \* a word is above a target's high word
    NoDigest

\* 276 chained Haraka256, two vectors each, from the seed's two vectors.
RefKeyBlocks(seed) ==
    LET blocks[i \in 0 .. KeyVecs \div 2] ==
          IF i = 0 THEN <<seed>>
          ELSE LET was == blocks[i - 1]
               IN  Append(was, RefHaraka256(was[i], RoundConstants))
    IN  blocks

RefGenKey(seed) ==
    LET chain == RefKeyBlocks(seed)[KeyVecs \div 2]
    IN  [i \in Slots |-> chain[(i \div 2) + 2][(i % 2) + 1]]

\* The step bodies take the multiply of the run that they are compared with:
\* the reference's own is the exact one.
RefStepOf(exact, pbuf, was) == RefStep(exact, SelectorOf(was.acc), pbuf, was.acc, was.key)
RefWalk(exact, key, buf) ==
    LET pbuf == PbufCopy(buf)
        walk[i \in 0 .. Steps] ==
          IF i = 0 THEN [acc |-> key[Mutable + 1], key |-> key]
          ELSE LET was == walk[i - 1] IN RefStepOf(exact, pbuf, was)
    IN  walk

RefClhash(exact, key, buf) ==
    LET left(last) == [key |-> last.key, intermediate |-> Reduce64(Xor(last.acc, LengthHash))]
    IN  left(RefWalk(exact, key, buf)[Steps])

\* intermediate & 511
OffsetOf(intermediate) == Bits9(intermediate, 0) % Mutable

\* The digests of every walk there is, the one: TLC evaluates a member of a set
\* before it is used, an argument of an operator only where it is used.
RefHashNonce(exact, head, space, key, nonce) ==
    LET buf == [head |-> head, space |-> space, nonce |-> nonce, fill |-> HeadFill(head)]
        digest(walked) ==
          RefHarakaKeyed(Pack([buf EXCEPT !.fill = TailFill(walked.intermediate)]),
                         walked.key, OffsetOf(walked.intermediate))
    IN  CHOOSE d \in {digest(walked) : walked \in {RefClhash(exact, key, Pack(buf))}} : TRUE
=============================================================================

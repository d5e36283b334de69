------------------------------- MODULE Haraka -------------------------------
(***************************************************************************)
(* The Haraka permutations, twice: the fused chains of                     *)
(* include/vh22/haraka.h, with round constants absorbed ahead of time and  *)
(* the truncated tail, and those of ref/ref.cpp.                            *)
(***************************************************************************)
EXTENDS Vectors, Integers

----------------------------------------------------------------------------
(* Haraka256: five groups of two AES rounds on two vectors and a mix.      *)

\* kHaraka256Absorb[g]: the second round's constants of group g, mixed.
Unmixed(rc, g) == <<rc[(4 * g) + 2], rc[(4 * g) + 3]>>
Absorb256(rc, g) == Mix2(rc[(4 * g) + 2], rc[(4 * g) + 3])

\* Group g, whose keys of the round before are absorbed into its first round.
Group256(u, rc, g) ==
    LET absorb == Absorb256(rc, g - 1)
    IN  <<AesRound(AesRound(Zip1x32(u[1], u[2]), absorb[1]), rc[4 * g]),
          AesRound(AesRound(Zip2x32(u[1], u[2]), absorb[2]), rc[(4 * g) + 1])>>

\* Every trailing key addition is deferred into the next group's first round.
Haraka256(in, rc) ==
    LET first == <<AesRound(AesBegin(in[1]), rc[0]), AesRound(AesBegin(in[2]), rc[1])>>
        group(u, g) == Group256(u, rc, g)
        fed(last, absorb) ==
          <<Xor3(Zip1x32(last[1], last[2]), absorb[1], in[1]),
            Xor3(Zip2x32(last[1], last[2]), absorb[2], in[2])>>
    IN  fed(group(group(group(group(first, 1), 2), 3), 4), Absorb256(rc, 4))

RefGroup256(u, rc, rci) ==
    Mix2(RefAesenc(RefAesenc(u[1], rc[rci]), rc[rci + 2]),
         RefAesenc(RefAesenc(u[2], rc[rci + 1]), rc[rci + 3]))

RefHaraka256(in, rc) ==
    LET group(u, rci) == RefGroup256(u, rc, rci)
        fed(last) == <<Xor(last[1], in[1]), Xor(last[2], in[2])>>
    IN  fed(group(group(group(group(group(in, 0), 4), 8), 12), 16))

----------------------------------------------------------------------------
(* Haraka512, keyed: the forty constants are read from the mutated key at   *)
(* "at".  Two of the four output vectors' halves survive the truncation.    *)

Mix4(s) ==
    LET tmp == Zip1x32(s[1], s[2])
        a == Zip2x32(s[1], s[2])
        b == Zip1x32(s[3], s[4])
        c == Zip2x32(s[3], s[4])
    IN  <<Zip2x32(a, c), Zip1x32(b, tmp), Zip2x32(b, tmp), Zip1x32(a, c)>>

\* Lane i of group g: two rounds, with the constants i - 1 and i + 3 of eight.
Aes4Lane(v, key, at, g, i) ==
    Aes2Fused(v, key[at + (8 * g) + (i - 1)], key[at + (8 * g) + (i + 3)])
Aes4(s, key, at, g) ==
    <<Aes4Lane(s[1], key, at, g, 1), Aes4Lane(s[2], key, at, g, 2),
      Aes4Lane(s[3], key, at, g, 3), Aes4Lane(s[4], key, at, g, 4)>>
Group512(s, key, at, g) == Mix4(Aes4(s, key, at, g))

\* The groups that the digest and its last word have in common.
Groups3(in, key, at) ==
    Group512(Group512(Group512(in, key, at, 0), key, at, 1), key, at, 2)

\* The truncation comes before the feed-forward.
Truncated(s, in) ==
    <<Xor(Zip2x64(s[1], s[2]), Zip2x64(in[1], in[2])),
      Xor(Zip1x64(s[3], s[4]), Zip1x64(in[3], in[4]))>>
HarakaKeyed(in, key, at) ==
    Truncated(Group512(Group512(Groups3(in, key, at), key, at, 3), key, at, 4), in)

\* The word's feed-forward: the input's word of the same place.
FedByFirst(in) == in[3][2]
FedWord(in) == in[4][2]

\* Bytes 28..31 of the digest alone: one lane of the last group.
HighWord(in, key, at) ==
    LET mixed(s) == Zip2x32(Zip1x32(s[3], s[4]), Zip1x32(s[1], s[2]))
        lane == Aes4Lane(mixed(Aes4(Groups3(in, key, at), key, at, 3)), key, at, 4, 3)
    IN  XorWord(lane[3], FedWord(in))

RefAes4(s, key, rci) ==
    <<RefAesenc(RefAesenc(s[1], key[rci]), key[rci + 4]),
      RefAesenc(RefAesenc(s[2], key[rci + 1]), key[rci + 5]),
      RefAesenc(RefAesenc(s[3], key[rci + 2]), key[rci + 6]),
      RefAesenc(RefAesenc(s[4], key[rci + 3]), key[rci + 7])>>

RefMixed(u, v) == <<Zip2x32(u[2], v[2]), Zip1x32(v[1], u[1]),
                    Zip2x32(v[1], u[1]), Zip1x32(u[2], v[2])>>
RefMix4(s) == RefMixed(Mix2(s[1], s[2]), Mix2(s[3], s[4]))

RefFed(s, in) == <<Xor(s[1], in[1]), Xor(s[2], in[2]), Xor(s[3], in[3]), Xor(s[4], in[4])>>
RefTruncated(s) == <<Zip2x64(s[1], s[2]), Zip1x64(s[3], s[4])>>
RefHarakaKeyed(in, key, at) ==
    LET group(s, n) == RefMix4(RefAes4(s, key, at + n))
    IN  RefTruncated(RefFed(group(group(group(group(group(in, 0), 8), 16), 24), 32), in))
=============================================================================

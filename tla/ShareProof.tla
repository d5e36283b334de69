---------------------------- MODULE ShareProof ----------------------------
(***************************************************************************)
(* What a pool rebuilds is what was hashed, for every job, extranonce, tag  *)
(* and nonce; and the comparison with the target is that of numbers, for    *)
(* every digest and target.                                                 *)
(***************************************************************************)
EXTENDS Share, TLAPS

----------------------------------------------------------------------------
(* Arrays.  A tower of copies is followed by what it leaves at which place.  *)

\* The byte of src that comes to lie at p; and: the bytes of new from lo to hi are
\* those of src, moved by shift.
Moved(src, p, shift) == src[p - shift]
Part(new, lo, hi, src, shift) == \A p \in lo .. hi : new[p] = Moved(src, p, shift)

LEMMA CopyIs ==
    ASSUME NEW n \in Nat, NEW dst \in Array(n), NEW at \in Nat,
           NEW k \in Nat, NEW src \in Array(k)
    PROVE  Copy(dst, at, src) \in Array(n)
  BY DEF Copy, Array

LEMMA CopyPuts ==
    ASSUME NEW n \in Nat, NEW dst \in Array(n), NEW at \in Nat,
           NEW k \in Nat, NEW src \in Array(k), NEW hi \in Int,
           at + k <= n, hi = at + k - 1
    PROVE  Part(Copy(dst, at, src), at, hi, src, at)
  <1> SUFFICES ASSUME NEW p \in at .. hi
               PROVE  Copy(dst, at, src)[p] = src[p - at]
    BY DEF Part, Moved
  <1>1. p \in 0 .. n - 1 /\ p - at \in 0 .. k - 1
    OBVIOUS
  <1>2. DOMAIN dst = 0 .. n - 1 /\ DOMAIN src = 0 .. k - 1
    BY DEF Array
  <1> QED
    BY <1>1, <1>2 DEF Copy

LEMMA CopyKeeps ==
    ASSUME NEW n \in Nat, NEW dst \in Array(n), NEW at \in Nat,
           NEW k \in Nat, NEW src \in Array(k),
           NEW lo \in Nat, NEW hi \in Int, NEW old, NEW shift, hi < n,
           hi < at \/ at + k <= lo, Part(dst, lo, hi, old, shift)
    PROVE  Part(Copy(dst, at, src), lo, hi, old, shift)
  <1> SUFFICES ASSUME NEW p \in lo .. hi
               PROVE  Copy(dst, at, src)[p] = old[p - shift]
    BY DEF Part, Moved
  <1>1. p \in 0 .. n - 1 /\ p - at \notin 0 .. k - 1
    OBVIOUS
  <1>2. DOMAIN dst = 0 .. n - 1 /\ DOMAIN src = 0 .. k - 1
    BY DEF Array
  <1>3. Copy(dst, at, src)[p] = dst[p]
    BY <1>1, <1>2 DEF Copy
  <1>4. dst[p] = old[p - shift]
    BY DEF Part, Moved
  <1> QED
    BY <1>3, <1>4

LEMMA PartAt ==
    ASSUME NEW new, NEW lo \in Int, NEW hi \in Int, NEW src, NEW shift,
           Part(new, lo, hi, src, shift), NEW p \in Int, lo <= p, p <= hi
    PROVE  new[p] = Moved(src, p, shift)
  BY DEF Part

LEMMA PartOf ==
    ASSUME NEW new, NEW lo \in Int, NEW hi \in Int, NEW src, NEW shift,
           Part(new, lo, hi, src, shift),
           NEW a \in Int, NEW b \in Int, lo <= a, b <= hi
    PROVE  Part(new, a, b, src, shift)
  BY DEF Part

LEMMA SliceIs ==
    ASSUME NEW n \in Nat, NEW a \in Array(n), NEW from \in Nat, NEW k \in Nat,
           from + k <= n
    PROVE  /\ Slice(a, from, k) \in Array(k)
           /\ \A i \in 0 .. k - 1 : Slice(a, from, k)[i] = a[from + i]
  BY DEF Slice, Array

LEMMA ZerosAre ==
    ASSUME NEW n \in Nat
    PROVE  Zeros(n) \in Array(n) /\ \A p \in 0 .. n - 1 : Zeros(n)[p] = 0
  BY DEF Zeros, Array, Bytes

----------------------------------------------------------------------------
(* The job.                                                                 *)

LEMMA PrefixIs ==
    ASSUME NEW x \in Seq(Bytes)
    PROVE  /\ PrefixLen(x) \in 0 .. 31 /\ PrefixLen(x) <= Len(x)
           /\ Prefix(x) \in Array(PrefixLen(x))
           /\ \A i \in 0 .. PrefixLen(x) - 1 : Prefix(x)[i] = x[i + 1]
  <1> DEFINE n == Len(x)
             k == PrefixLen(x)
  <1>1. n \in Nat /\ k = IF n > 31 THEN 31 ELSE n
    BY DEF PrefixLen
  <1>2. \A i \in 1 .. n : x[i] \in Bytes
    OBVIOUS
  <1>3. Prefix(x) = [i \in 0 .. k - 1 |-> x[i + 1]]
    BY DEF Prefix
  <1> HIDE DEF n, k
  <1>4. k \in 0 .. 31 /\ k <= n
    BY <1>1
  <1>5. \A i \in 0 .. k - 1 : x[i + 1] \in Bytes
    BY <1>1, <1>2, <1>4
  <1>6. Prefix(x) \in Array(k) /\ \A i \in 0 .. k - 1 : Prefix(x)[i] = x[i + 1]
    BY <1>3, <1>5 DEF Array
  <1> QED
    BY <1>4, <1>6 DEF n, k

\* What matters of a header later: the version, and the pool's prefix.
LEMMA HeaderIs ==
    ASSUME NEW m \in Messages, NEW x \in Seq(Bytes)
    PROVE  /\ HeaderOf(m, x) \in Array(140)
           /\ Part(HeaderOf(m, x), 0, 3, m.version, 0)
           /\ Part(HeaderOf(m, x), 108, 107 + PrefixLen(x), Prefix(x), 108)
  <1> DEFINE k == PrefixLen(x)
             f == Prefix(x)
             h0 == Zeros(140)
             h1 == Copy(h0, 0, m.version)
             h2 == Copy(h1, 4, m.prevhash)
             h3 == Copy(h2, 36, m.merkle)
             h4 == Copy(h3, 68, m.reserved)
             h5 == Copy(h4, 100, m.time)
             h6 == Copy(h5, 104, m.bits)
             h7 == Copy(h6, 108, f)
  <1>1. HeaderOf(m, x) = h7
    BY DEF HeaderOf, HeaderBytes
  <1>2. /\ m.version \in Array(4) /\ m.prevhash \in Array(32) /\ m.merkle \in Array(32)
        /\ m.reserved \in Array(32) /\ m.time \in Array(4) /\ m.bits \in Array(4)
    BY DEF Messages
  <1>3. k \in Nat /\ k <= 31 /\ f \in Array(k)
    <2>1. k \in 0 .. 31
      BY PrefixIs
    <2>2. f \in Array(k)
      BY PrefixIs
    <2> HIDE DEF k, f
    <2>3. k \in Nat /\ k <= 31
      BY <2>1
    <2> QED
      BY <2>2, <2>3
  <1>4. h0 \in Array(140)
    BY ZerosAre
  <1> HIDE DEF k, f, h0
  <1>5. h1 \in Array(140)
    BY <1>2, <1>4, CopyIs
  <1>6. Part(h1, 0, 3, m.version, 0)
    BY <1>2, <1>4, CopyPuts
  <1> HIDE DEF h1
  <1>7. h2 \in Array(140)
    BY <1>2, <1>5, CopyIs
  <1>8. Part(h2, 0, 3, m.version, 0)
    BY <1>2, <1>5, <1>6, CopyKeeps
  <1> HIDE DEF h2
  <1>9. h3 \in Array(140)
    BY <1>2, <1>7, CopyIs
  <1>10. Part(h3, 0, 3, m.version, 0)
    BY <1>2, <1>7, <1>8, CopyKeeps
  <1> HIDE DEF h3
  <1>11. h4 \in Array(140)
    BY <1>2, <1>9, CopyIs
  <1>12. Part(h4, 0, 3, m.version, 0)
    BY <1>2, <1>9, <1>10, CopyKeeps
  <1> HIDE DEF h4
  <1>13. h5 \in Array(140)
    BY <1>2, <1>11, CopyIs
  <1>14. Part(h5, 0, 3, m.version, 0)
    BY <1>2, <1>11, <1>12, CopyKeeps
  <1> HIDE DEF h5
  <1>15. h6 \in Array(140)
    BY <1>2, <1>13, CopyIs
  <1>16. Part(h6, 0, 3, m.version, 0)
    BY <1>2, <1>13, <1>14, CopyKeeps
  <1> HIDE DEF h6
  <1>17. h7 \in Array(140)
    BY <1>3, <1>15, CopyIs
  <1>18. Part(h7, 108, 107 + k, f, 108)
    BY <1>3, <1>15, CopyPuts
  <1>19. Part(h7, 0, 3, m.version, 0)
    BY <1>3, <1>15, <1>16, CopyKeeps
  <1> HIDE DEF h7
  <1> QED
    BY <1>1, <1>17, <1>18, <1>19 DEF k, f

----------------------------------------------------------------------------
(* The preimage of a job with a descriptor.                                  *)

\* build_preimage's four runs of zeros.
Zeroed(full) ==
    Copy(Copy(Copy(Copy(full, 4, Zeros(96)), 104, Zeros(4)), 108, Zeros(32)),
         151, Zeros(64))

LEMMA ZeroedKeeps ==
    ASSUME NEW full \in Array(1487),
           NEW lo \in Nat, NEW hi \in Int, NEW old, NEW shift, hi < 1487,
           hi < 4 \/ 100 <= lo, hi < 104 \/ 140 <= lo, hi < 151 \/ 215 <= lo,
           Part(full, lo, hi, old, shift)
    PROVE  Part(Zeroed(full), lo, hi, old, shift)
  <1> DEFINE z1 == Zeros(96)
             z2 == Zeros(4)
             z3 == Zeros(32)
             z4 == Zeros(64)
             g1 == Copy(full, 4, z1)
             g2 == Copy(g1, 104, z2)
             g3 == Copy(g2, 108, z3)
             g4 == Copy(g3, 151, z4)
  <1>1. Zeroed(full) = g4
    BY DEF Zeroed
  <1>2. z1 \in Array(96)
    BY ZerosAre
  <1>3. z2 \in Array(4)
    BY ZerosAre
  <1>4. z3 \in Array(32)
    BY ZerosAre
  <1>5. z4 \in Array(64)
    BY ZerosAre
  <1> HIDE DEF z1, z2, z3, z4
  <1>6. g1 \in Array(1487)
    BY <1>2, CopyIs
  <1>7. Part(g1, lo, hi, old, shift)
    BY <1>2, CopyKeeps
  <1> HIDE DEF g1
  <1>8. g2 \in Array(1487)
    BY <1>3, <1>6, CopyIs
  <1>9. Part(g2, lo, hi, old, shift)
    BY <1>3, <1>6, <1>7, CopyKeeps
  <1> HIDE DEF g2
  <1>10. g3 \in Array(1487)
    BY <1>4, <1>8, CopyIs
  <1>11. Part(g3, lo, hi, old, shift)
    BY <1>4, <1>8, <1>9, CopyKeeps
  <1> HIDE DEF g3
  <1>12. Part(g4, lo, hi, old, shift)
    BY <1>5, <1>10, <1>11, CopyKeeps
  <1> QED
    BY <1>1, <1>12

LEMMA ZeroedPuts ==
    ASSUME NEW full \in Array(1487)
    PROVE  /\ Zeroed(full) \in Array(1487)
           /\ Part(Zeroed(full), 4, 99, Zeros(96), 4)
           /\ Part(Zeroed(full), 104, 107, Zeros(4), 104)
           /\ Part(Zeroed(full), 108, 139, Zeros(32), 108)
           /\ Part(Zeroed(full), 151, 214, Zeros(64), 151)
  <1> DEFINE z1 == Zeros(96)
             z2 == Zeros(4)
             z3 == Zeros(32)
             z4 == Zeros(64)
             g1 == Copy(full, 4, z1)
             g2 == Copy(g1, 104, z2)
             g3 == Copy(g2, 108, z3)
             g4 == Copy(g3, 151, z4)
  <1>1. Zeroed(full) = g4
    BY DEF Zeroed
  <1>2. z1 \in Array(96)
    BY ZerosAre
  <1>3. z2 \in Array(4)
    BY ZerosAre
  <1>4. z3 \in Array(32)
    BY ZerosAre
  <1>5. z4 \in Array(64)
    BY ZerosAre
  <1> HIDE DEF z1, z2, z3, z4
  <1>6. g1 \in Array(1487)
    BY <1>2, CopyIs
  <1>7. Part(g1, 4, 99, z1, 4)
    BY <1>2, CopyPuts
  <1> HIDE DEF g1
  <1>8. g2 \in Array(1487)
    BY <1>3, <1>6, CopyIs
  <1>9. Part(g2, 4, 99, z1, 4)
    BY <1>3, <1>6, <1>7, CopyKeeps
  <1>10. Part(g2, 104, 107, z2, 104)
    BY <1>3, <1>6, CopyPuts
  <1> HIDE DEF g2
  <1>11. g3 \in Array(1487)
    BY <1>4, <1>8, CopyIs
  <1>12. Part(g3, 4, 99, z1, 4)
    BY <1>4, <1>8, <1>9, CopyKeeps
  <1>13. Part(g3, 104, 107, z2, 104)
    BY <1>4, <1>8, <1>10, CopyKeeps
  <1>14. Part(g3, 108, 139, z3, 108)
    BY <1>4, <1>8, CopyPuts
  <1> HIDE DEF g3
  <1>15. g4 \in Array(1487)
    BY <1>5, <1>11, CopyIs
  <1>16. Part(g4, 4, 99, z1, 4)
    BY <1>5, <1>11, <1>12, CopyKeeps
  <1>17. Part(g4, 104, 107, z2, 104)
    BY <1>5, <1>11, <1>13, CopyKeeps
  <1>18. Part(g4, 108, 139, z3, 108)
    BY <1>5, <1>11, <1>14, CopyKeeps
  <1>19. Part(g4, 151, 214, z4, 151)
    BY <1>5, <1>11, CopyPuts
  <1> HIDE DEF g4
  <1> QED
    BY <1>1, <1>15, <1>16, <1>17, <1>18, <1>19 DEF z1, z2, z3, z4

LEMMA FullIs ==
    ASSUME NEW header \in Array(140), NEW solution \in Array(1344),
           NEW full, full = Copy(Copy(Copy(Zeros(1487), 0, header), 140, CompactSize), 143, solution)
    PROVE  /\ full \in Array(1487)
           /\ Part(full, 0, 139, header, 0)
           /\ Part(full, 140, 142, CompactSize, 140)
           /\ Part(full, 143, 1486, solution, 143)
  <1> DEFINE z == Zeros(1487)
             c == CompactSize
             f1 == Copy(z, 0, header)
             f2 == Copy(f1, 140, c)
             f3 == Copy(f2, 143, solution)
  <1>1. full = f3
    OBVIOUS
  <1>2. z \in Array(1487)
    BY ZerosAre
  <1>3. c \in Array(3)
    <2>1. \A i \in 0 .. 2 : (IF i = 0 THEN 253 ELSE IF i = 1 THEN 64 ELSE 5) \in Bytes
      BY DEF Bytes
    <2>2. 0 .. 3 - 1 = 0 .. 2
      OBVIOUS
    <2> QED
      BY <2>1, <2>2 DEF CompactSize, Array
  <1> HIDE DEF z, c
  <1>4. f1 \in Array(1487)
    BY <1>2, CopyIs
  <1>5. Part(f1, 0, 139, header, 0)
    BY <1>2, CopyPuts
  <1> HIDE DEF f1
  <1>6. f2 \in Array(1487)
    BY <1>3, <1>4, CopyIs
  <1>7. Part(f2, 0, 139, header, 0)
    BY <1>3, <1>4, <1>5, CopyKeeps
  <1>8. Part(f2, 140, 142, c, 140)
    BY <1>3, <1>4, CopyPuts
  <1> HIDE DEF f2
  <1>9. f3 \in Array(1487)
    BY <1>6, CopyIs
  <1>10. Part(f3, 0, 139, header, 0)
    BY <1>6, <1>7, CopyKeeps
  <1>11. Part(f3, 140, 142, c, 140)
    BY <1>6, <1>8, CopyKeeps
  <1>12. Part(f3, 143, 1486, solution, 143)
    BY <1>6, CopyPuts
  <1> HIDE DEF f3
  <1> QED
    BY <1>1, <1>9, <1>10, <1>11, <1>12 DEF c

LEMMA SolutionIs ==
    ASSUME NEW j \in Jobs
    PROVE  Solution(j) \in Array(1344)
  <1>1. Content[j.issue] \in Messages
    BY MessageAssumption DEF Jobs
  <1> QED
    BY <1>1 DEF Solution, Messages, SolutionBytes

LEMMA PreimageIs ==
    ASSUME NEW j \in Jobs, IsPbaas(Solution(j))
    PROVE  /\ BuildPreimage(j) \in Array(1487)
           /\ Part(BuildPreimage(j), 0, 3, j.header, 0)
           /\ Part(BuildPreimage(j), 4, 99, Zeros(96), 4)
           /\ Part(BuildPreimage(j), 100, 103, j.header, 0)
           /\ Part(BuildPreimage(j), 104, 107, Zeros(4), 104)
           /\ Part(BuildPreimage(j), 108, 139, Zeros(32), 108)
           /\ Part(BuildPreimage(j), 140, 142, CompactSize, 140)
           /\ Part(BuildPreimage(j), 143, 150, Solution(j), 143)
           /\ Part(BuildPreimage(j), 151, 214, Zeros(64), 151)
           /\ Part(BuildPreimage(j), 215, 1486, Solution(j), 143)
  <1> DEFINE h == j.header
             sol == Solution(j)
             full == Copy(Copy(Copy(Zeros(1487), 0, h), 140, CompactSize), 143, sol)
             g == Zeroed(full)
  <1>1. h \in Array(140)
    BY DEF Jobs, HeaderBytes
  <1>2. sol \in Array(1344)
    BY SolutionIs
  <1>3. BuildPreimage(j) = g
    BY DEF BuildPreimage, Zeroed, HeaderBytes, FullBytes, SolutionBytes
  <1> HIDE DEF h, sol
  <1>4. full \in Array(1487)
    BY <1>1, <1>2, FullIs
  <1>5. Part(full, 0, 139, h, 0)
    BY <1>1, <1>2, FullIs
  <1>6. Part(full, 140, 142, CompactSize, 140)
    BY <1>1, <1>2, FullIs
  <1>7. Part(full, 143, 1486, sol, 143)
    BY <1>1, <1>2, FullIs
  <1> HIDE DEF full
  <1>8. Part(full, 0, 3, h, 0)
    BY <1>5, PartOf
  <1>9. Part(full, 100, 103, h, 0)
    BY <1>5, PartOf
  <1>10. Part(full, 143, 150, sol, 143)
    BY <1>7, PartOf
  <1>11. Part(full, 215, 1486, sol, 143)
    BY <1>7, PartOf
  <1>12. Part(g, 0, 3, h, 0)
    BY <1>4, <1>8, ZeroedKeeps
  <1>13. Part(g, 100, 103, h, 0)
    BY <1>4, <1>9, ZeroedKeeps
  <1>14. Part(g, 140, 142, CompactSize, 140)
    BY <1>4, <1>6, ZeroedKeeps
  <1>15. Part(g, 143, 150, sol, 143)
    BY <1>4, <1>10, ZeroedKeeps
  <1>16. Part(g, 215, 1486, sol, 143)
    BY <1>4, <1>11, ZeroedKeeps
  <1>17. /\ g \in Array(1487) /\ Part(g, 4, 99, Zeros(96), 4)
         /\ Part(g, 104, 107, Zeros(4), 104) /\ Part(g, 108, 139, Zeros(32), 108)
         /\ Part(g, 151, 214, Zeros(64), 151)
    BY <1>4, ZeroedPuts
  <1> HIDE DEF g
  <1> QED
    BY <1>3, <1>12, <1>13, <1>14, <1>15, <1>16, <1>17 DEF h, sol

\* Of a solution that differs from the job's in the nonce space only, the pool
\* makes the same whole blocks.
LEMMA WholeIs ==
    ASSUME NEW j \in Jobs, IsPbaas(Solution(j)),
           NEW version \in Array(4), Part(j.header, 0, 3, version, 0),
           NEW s \in Array(1344), Part(s, 0, 1328, Solution(j), 0),
           NEW p \in Nat, p < 1472
    PROVE  CanonicalPreimage(version, Slice(j.header, 100, 4), s)[p] = BuildPreimage(j)[p]
  <1> DEFINE b == BuildPreimage(j)
             h == j.header
             t == Slice(h, 100, 4)
             sol == Solution(j)
  <1> SUFFICES CanonicalPreimage(version, t, s)[p] = b[p]
    OBVIOUS
  <1>1. Part(b, 0, 3, h, 0)
    BY PreimageIs
  <1>2. Part(b, 4, 99, Zeros(96), 4)
    BY PreimageIs
  <1>3. Part(b, 100, 103, h, 0)
    BY PreimageIs
  <1>4. Part(b, 104, 107, Zeros(4), 104)
    BY PreimageIs
  <1>5. Part(b, 108, 139, Zeros(32), 108)
    BY PreimageIs
  <1>6. Part(b, 140, 142, CompactSize, 140)
    BY PreimageIs
  <1>7. Part(b, 143, 150, sol, 143)
    BY PreimageIs
  <1>8. Part(b, 151, 214, Zeros(64), 151)
    BY PreimageIs
  <1>9. Part(b, 215, 1486, sol, 143)
    BY PreimageIs
  <1>10. \A i \in 0 .. 3 : t[i] = h[100 + i]
    BY DEF Slice
  <1>11. CanonicalPreimage(version, t, s)[p] =
           IF p < 4 THEN version[p]
           ELSE IF p \in 100 .. 103 THEN t[p - 100]
           ELSE IF p < 140 THEN 0
           ELSE IF p < 143 THEN CompactSize[p - 140]
           ELSE IF p \in 151 .. 214 THEN 0
           ELSE s[p - 143]
    BY DEF CanonicalPreimage, FullBytes, HeaderBytes, SolutionBytes
  <1>12. Part(h, 0, 3, version, 0)
    OBVIOUS
  <1>13. Part(s, 0, 1328, sol, 0)
    OBVIOUS
  <1>14. p - 0 = p
    OBVIOUS
  <1> HIDE DEF b, h, t, sol
  <1>15. CASE p \in 0 .. 3
    <2>1. b[p] = h[p - 0]
      <3>1. b[p] = Moved(h, p, 0)
        BY <1>1, <1>15 DEF Part
      <3> QED
        BY <3>1 DEF Moved
    <2>2. h[p - 0] = version[p - 0]
      BY <1>15, <1>12, <1>14 DEF Part, Moved
    <2>3. b[p] = version[p]
      BY <2>1, <2>2, <1>14
    <2>4. p < 4
      BY <1>15
    <2>5. CanonicalPreimage(version, t, s)[p] = version[p]
      BY <2>4, <1>11
    <2> QED
      BY <2>3, <2>5
  <1>16. CASE p \in 4 .. 99
    <2>1. b[p] = Zeros(96)[p - 4]
      <3>1. b[p] = Moved(Zeros(96), p, 4)
        BY <1>2, <1>16 DEF Part
      <3> QED
        BY <3>1 DEF Moved
    <2>2. Zeros(96)[p - 4] = 0
      BY <1>16, ZerosAre
    <2> QED
      BY <2>1, <2>2, <1>11, <1>14, <1>16
  <1>17. CASE p \in 100 .. 103
    <2>1. b[p] = h[p - 0]
      <3>1. b[p] = Moved(h, p, 0)
        BY <1>3, <1>17 DEF Part
      <3> QED
        BY <3>1 DEF Moved
    <2>2. t[p - 100] = h[p - 0]
      BY <1>17, <1>10, <1>14
    <2> QED
      BY <2>1, <2>2, <1>11, <1>14, <1>17
  <1>18. CASE p \in 104 .. 107
    <2>1. b[p] = Zeros(4)[p - 104]
      <3>1. b[p] = Moved(Zeros(4), p, 104)
        BY <1>4, <1>18 DEF Part
      <3> QED
        BY <3>1 DEF Moved
    <2>2. Zeros(4)[p - 104] = 0
      BY <1>18, ZerosAre
    <2> QED
      BY <2>1, <2>2, <1>11, <1>14, <1>18
  <1>19. CASE p \in 108 .. 139
    <2>1. b[p] = Zeros(32)[p - 108]
      <3>1. b[p] = Moved(Zeros(32), p, 108)
        BY <1>5, <1>19 DEF Part
      <3> QED
        BY <3>1 DEF Moved
    <2>2. Zeros(32)[p - 108] = 0
      BY <1>19, ZerosAre
    <2> QED
      BY <2>1, <2>2, <1>11, <1>14, <1>19
  <1>20. CASE p \in 140 .. 142
    <2>1. b[p] = CompactSize[p - 140]
      <3>1. b[p] = Moved(CompactSize, p, 140)
        BY <1>6, <1>20 DEF Part
      <3> QED
        BY <3>1 DEF Moved
    <2> QED
      BY <2>1, <1>11, <1>14, <1>20
  <1>21. CASE p \in 143 .. 150
    <2>1. b[p] = sol[p - 143]
      <3>1. b[p] = Moved(sol, p, 143)
        BY <1>7, <1>21 DEF Part
      <3> QED
        BY <3>1 DEF Moved
    <2>2. s[p - 143] = sol[p - 143]
      <3> DEFINE q == p - 143
      <3>1. q \in Int /\ 0 <= q /\ q <= 1328 /\ q - 0 = q
        BY <1>21
      <3> HIDE DEF q
      <3>2. s[q] = Moved(sol, q, 0)
        BY <3>1, <1>13, PartAt
      <3>3. s[q] = sol[q]
        BY <3>1, <3>2 DEF Moved
      <3> QED
        BY <3>3 DEF q
    <2> QED
      BY <2>1, <2>2, <1>11, <1>14, <1>21
  <1>22. CASE p \in 151 .. 214
    <2>1. b[p] = Zeros(64)[p - 151]
      <3>1. b[p] = Moved(Zeros(64), p, 151)
        BY <1>8, <1>22 DEF Part
      <3> QED
        BY <3>1 DEF Moved
    <2>2. Zeros(64)[p - 151] = 0
      BY <1>22, ZerosAre
    <2> QED
      BY <2>1, <2>2, <1>11, <1>14, <1>22
  <1>23. CASE p >= 215
    <2>1. b[p] = sol[p - 143]
      <3>1. b[p] = Moved(sol, p, 143)
        BY <1>9, <1>23, PartAt
      <3> QED
        BY <3>1 DEF Moved
    <2>2. s[p - 143] = sol[p - 143]
      <3> DEFINE q == p - 143
      <3>1. q \in Int /\ 0 <= q /\ q <= 1328 /\ q - 0 = q
        BY <1>23
      <3> HIDE DEF q
      <3>2. s[q] = Moved(sol, q, 0)
        BY <3>1, <1>13, PartAt
      <3>3. s[q] = sol[q]
        BY <3>1, <3>2 DEF Moved
      <3> QED
        BY <3>3 DEF q
    <2> QED
      BY <2>1, <2>2, <1>11, <1>14, <1>23
  <1> QED
    BY <1>15, <1>16, <1>17, <1>18, <1>19, <1>20, <1>21, <1>22, <1>23

----------------------------------------------------------------------------
(* The nonce space.                                                         *)

\* What of a share goes out.
Sent(s) == s.nonce \in Array(4) /\ s.tag \in Array(4)

LEMMA SplicedIs ==
    ASSUME NEW j \in Jobs, NEW s, Sent(s)
    PROVE  /\ Spliced(j, s) \in Array(1344)
           /\ Part(Spliced(j, s), 0, 1328, Solution(j), 0)
           /\ \A i \in 0 .. 6 : Spliced(j, s)[1329 + i] = j.space[i]
           /\ \A i \in 7 .. 10 : Spliced(j, s)[1329 + i] = s.tag[i - 7]
           /\ \A i \in 11 .. 14 : Spliced(j, s)[1329 + i] = s.nonce[i - 11]
  <1> DEFINE z == Zeros(15)
             front == Slice(j.space, 0, 7)
             s1 == Copy(z, 0, front)
             s2 == Copy(s1, 7, s.tag)
             s3 == Copy(s2, 11, s.nonce)
             sol == Solution(j)
             new == Copy(sol, 1329, s3)
  <1>1. Spliced(j, s) = new
    BY DEF Spliced, NonceSpaceBytes, NonceSpaceOffset
  <1>2. s.nonce \in Array(4) /\ s.tag \in Array(4)
    BY DEF Sent
  <1>3. z \in Array(15)
    BY ZerosAre
  <1>4. j.space \in Array(11)
    BY DEF Jobs
  <1>5. front \in Array(7)
    BY <1>4, SliceIs
  <1>6. \A i \in 0 .. 6 : front[i - 0] = j.space[i]
    BY DEF Slice
  <1>7. sol \in Array(1344)
    BY SolutionIs
  <1> HIDE DEF z, front, sol
  <1>8. s1 \in Array(15)
    BY <1>3, <1>5, CopyIs
  <1>9. Part(s1, 0, 6, front, 0)
    BY <1>3, <1>5, CopyPuts
  <1> HIDE DEF s1
  <1>10. s2 \in Array(15)
    BY <1>2, <1>8, CopyIs
  <1>11. Part(s2, 0, 6, front, 0)
    BY <1>2, <1>8, <1>9, CopyKeeps
  <1>12. Part(s2, 7, 10, s.tag, 7)
    BY <1>2, <1>8, CopyPuts
  <1> HIDE DEF s2
  <1>13. s3 \in Array(15)
    BY <1>2, <1>10, CopyIs
  <1>14. Part(s3, 0, 6, front, 0)
    BY <1>2, <1>10, <1>11, CopyKeeps
  <1>15. Part(s3, 7, 10, s.tag, 7)
    BY <1>2, <1>10, <1>12, CopyKeeps
  <1>16. Part(s3, 11, 14, s.nonce, 11)
    BY <1>2, <1>10, CopyPuts
  <1> HIDE DEF s3
  <1>17. new \in Array(1344)
    BY <1>7, <1>13, CopyIs
  <1>18. Part(new, 1329, 1343, s3, 1329)
    BY <1>7, <1>13, CopyPuts
  <1>19. Part(sol, 0, 1328, sol, 0)
    <2> SUFFICES ASSUME NEW hi, hi = 1328 PROVE Part(sol, 0, hi, sol, 0)
      OBVIOUS
    <2> QED
      BY DEF Part, Moved
  <1>20. Part(new, 0, 1328, sol, 0)
    BY <1>7, <1>13, <1>19, CopyKeeps
  <1> HIDE DEF new
  <1>21. ASSUME NEW i \in 0 .. 14 PROVE new[1329 + i] = s3[i]
    <2>1. 1329 + i \in Int /\ 1329 <= 1329 + i /\ 1329 + i <= 1343 /\ (1329 + i) - 1329 = i
      OBVIOUS
    <2>2. new[1329 + i] = Moved(s3, 1329 + i, 1329)
      BY <2>1, <1>18, PartAt
    <2> QED
      BY <2>1, <2>2 DEF Moved
  <1>22. \A i \in 0 .. 6 : new[1329 + i] = j.space[i]
    <2> TAKE i \in 0 .. 6
    <2>1. new[1329 + i] = s3[i]
      BY <1>21
    <2>2. s3[i] = front[i - 0]
      BY <1>14 DEF Part, Moved
    <2> QED
      BY <2>1, <2>2, <1>6
  <1>23. \A i \in 7 .. 10 : new[1329 + i] = s.tag[i - 7]
    <2> TAKE i \in 7 .. 10
    <2>1. new[1329 + i] = s3[i]
      BY <1>21
    <2>2. s3[i] = s.tag[i - 7]
      BY <1>15 DEF Part, Moved
    <2> QED
      BY <2>1, <2>2
  <1>24. \A i \in 11 .. 14 : new[1329 + i] = s.nonce[i - 11]
    <2> TAKE i \in 11 .. 14
    <2>1. new[1329 + i] = s3[i]
      BY <1>21
    <2>2. s3[i] = s.nonce[i - 11]
      BY <1>16 DEF Part, Moved
    <2> QED
      BY <2>1, <2>2
  <1> QED
    BY <1>1, <1>17, <1>20, <1>22, <1>23, <1>24 DEF sol

\* The tail of the buffer a worker hashes.
LEMMA MinedIs ==
    ASSUME NEW j \in Jobs, NEW tag \in Array(4), NEW nonce \in Array(4)
    PROVE  Mined(j, tag, nonce) =
             [chain |-> Slice(BuildPreimage(j), 0, Whole),
              tail  |-> [p \in 32 .. 46 |->
                  IF p <= 38 THEN j.space[p - 32]
                  ELSE IF p <= 42 THEN tag[p - 39] ELSE nonce[p - 43]]]
  <1> DEFINE b == BuildPreimage(j)
             t0 == [p \in 32 .. 32 + (FullBytes % 32) - 1 |-> b[Whole + p - 32]]
             space == Copy(j.space, 7, tag)
             t1 == Copy(t0, 32, space)
             t2 == Copy(t1, 43, nonce)
             t == [p \in 32 .. 46 |->
                    IF p <= 38 THEN j.space[p - 32]
                    ELSE IF p <= 42 THEN tag[p - 39] ELSE nonce[p - 43]]
  <1>1. FullBytes % 32 = 15
    BY DEF FullBytes, HeaderBytes, SolutionBytes
  <1>2. HashHalf(b) = [chain |-> Slice(b, 0, Whole), tail |-> t0]
    BY DEF HashHalf
  <1>3. Mined(j, tag, nonce) = [chain |-> Slice(b, 0, Whole), tail |-> t2]
    <2> DEFINE half == HashHalf(b)
               half1 == SetNonceSpace(half, space)
    <2>1. Mined(j, tag, nonce) = Prepared(half1, nonce)
      BY DEF Mined
    <2> HIDE DEF b, t0, space
    <2>2. half = [chain |-> Slice(b, 0, Whole), tail |-> t0]
      BY <1>2
    <2> HIDE DEF half
    <2>3. half1 = [chain |-> Slice(b, 0, Whole), tail |-> t1]
      BY <2>2 DEF SetNonceSpace
    <2> HIDE DEF half1, t1
    <2>4. Prepared(half1, nonce) = [chain |-> Slice(b, 0, Whole), tail |-> t2]
      BY <2>3 DEF Prepared
    <2> QED
      BY <2>1, <2>4
  <1>4. j.space \in Array(11)
    BY DEF Jobs
  <1>5. space \in Array(11)
    BY <1>4, CopyIs
  <1>6. Part(space, 7, 10, tag, 7)
    BY <1>4, CopyPuts
  <1>7. \A i \in 0 .. 6 : space[i] = j.space[i]
    BY <1>4 DEF Copy, Array
  <1>8. DOMAIN t0 = 32 .. 46
    BY <1>1
  <1> HIDE DEF space, t0
  <1>9. t1 = [p \in 32 .. 46 |-> IF p - 32 \in 0 .. 10 THEN space[p - 32] ELSE t0[p]]
    BY <1>5, <1>8 DEF Copy, Array
  <1>10. DOMAIN t1 = 32 .. 46
    BY <1>9
  <1>11. \A p \in 32 .. 42 : t1[p] = space[p - 32]
    BY <1>9
  <1> HIDE DEF t1
  <1>12. t2 = [p \in 32 .. 46 |-> IF p - 43 \in 0 .. 3 THEN nonce[p - 43] ELSE t1[p]]
    BY <1>10 DEF Copy, Array
  <1> HIDE DEF t2
  <1>13. \A p \in 32 .. 38 : t2[p] = j.space[p - 32]
    BY <1>7, <1>11, <1>12
  <1>14. \A p \in 39 .. 42 : t2[p] = tag[p - 39]
    <2> TAKE p \in 39 .. 42
    <2>1. p - 32 \in 7 .. 10 /\ (p - 32) - 7 = p - 39
      OBVIOUS
    <2>2. t2[p] = t1[p] /\ t1[p] = space[p - 32]
      BY <1>11, <1>12
    <2>3. space[p - 32] = tag[(p - 32) - 7]
      BY <2>1, <1>6 DEF Part, Moved
    <2> QED
      BY <2>1, <2>2, <2>3
  <1>15. \A p \in 43 .. 46 : t2[p] = nonce[p - 43]
    BY <1>12
  <1>16. t2 = t
    <2>1. t2 = [p \in 32 .. 46 |-> t2[p]]
      BY <1>12
    <2>2. \A p \in 32 .. 46 : t2[p] = t[p]
      BY <1>13, <1>14, <1>15
    <2> HIDE DEF t2
    <2> QED
      BY <2>1, <2>2
  <1> QED
    BY <1>3, <1>16

\* What the pool makes of a submission's solution is what was mined.
LEMMA SameHalf ==
    ASSUME NEW j \in Jobs, IsPbaas(Solution(j)),
           NEW version \in Array(4), Part(j.header, 0, 3, version, 0),
           NEW s, Sent(s)
    PROVE  HashHalf(CanonicalPreimage(version, Slice(j.header, 100, 4), Spliced(j, s)))
             = Mined(j, s.tag, s.nonce)
  <1> DEFINE time == Slice(j.header, 100, 4)
             new == Spliced(j, s)
             c == CanonicalPreimage(version, time, new)
             b == BuildPreimage(j)
             t0 == [p \in 32 .. 32 + (FullBytes % 32) - 1 |-> c[Whole + p - 32]]
             t == [p \in 32 .. 46 |->
                    IF p <= 38 THEN j.space[p - 32]
                    ELSE IF p <= 42 THEN s.tag[p - 39] ELSE s.nonce[p - 43]]
  <1>1. HashHalf(c) = [chain |-> Slice(c, 0, Whole), tail |-> t0]
    BY DEF HashHalf
  <1>2. s.nonce \in Array(4) /\ s.tag \in Array(4)
    BY DEF Sent
  <1>3. Mined(j, s.tag, s.nonce) = [chain |-> Slice(b, 0, Whole), tail |-> t]
    BY <1>2, MinedIs
  <1>4. Whole = 1472 /\ FullBytes = 1487 /\ FullBytes % 32 = 15
    BY DEF Whole, FullBytes, HeaderBytes, SolutionBytes
  <1>5. new \in Array(1344)
    BY SplicedIs
  <1>6. Part(new, 0, 1328, Solution(j), 0)
    BY SplicedIs
  <1>7. ASSUME NEW p \in Nat, p < 1472 PROVE c[p] = b[p]
    BY <1>5, <1>6, <1>7, WholeIs
  <1>8. Slice(c, 0, Whole) = Slice(b, 0, Whole)
    <2> HIDE DEF c, b
    <2> DEFINE w == Whole
    <2>1. w = 1472
      BY <1>4
    <2>2. Slice(c, 0, Whole) = [i \in 0 .. w - 1 |-> c[0 + i]]
      BY DEF Slice
    <2>3. Slice(b, 0, Whole) = [i \in 0 .. w - 1 |-> b[0 + i]]
      BY DEF Slice
    <2> HIDE DEF w
    <2>4. ASSUME NEW i \in 0 .. w - 1 PROVE c[0 + i] = b[0 + i]
      <3>1. i \in Nat /\ i < 1472 /\ 0 + i = i
        BY <2>1
      <3> QED
        BY <3>1, <1>7
    <2> QED
      BY <2>2, <2>3, <2>4
  <1>9. ASSUME NEW p \in 32 .. 46 PROVE c[Whole + p - 32] = new[1329 + (p - 32)]
    <2> DEFINE q == Whole + p - 32
    <2>1. q \in Nat /\ q >= 215 /\ q < FullBytes /\ q - 143 = 1329 + (p - 32)
      BY <1>4
    <2> HIDE DEF q, time, new
    <2>2. q \in 0 .. FullBytes - 1 /\ ~ q < 143 /\ q \notin 151 .. 214
      BY <2>1, <1>4
    <2>3. c[q] = new[q - 140 - 3]
      BY <2>2 DEF CanonicalPreimage, HeaderBytes
    <2> HIDE DEF c
    <2>4. q - 140 - 3 = q - 143
      BY <2>1
    <2> QED
      BY <2>1, <2>3, <2>4 DEF q
  <1>10. \A p \in 32 .. 38 : c[Whole + p - 32] = j.space[p - 32]
    <2> TAKE p \in 32 .. 38
    <2>1. p - 32 \in 0 .. 6
      OBVIOUS
    <2>2. new[1329 + (p - 32)] = j.space[p - 32]
      BY <2>1, SplicedIs
    <2>3. c[Whole + p - 32] = new[1329 + (p - 32)]
      BY <1>9
    <2> QED
      BY <2>2, <2>3
  <1>11. \A p \in 39 .. 42 : c[Whole + p - 32] = s.tag[p - 39]
    <2> TAKE p \in 39 .. 42
    <2>1. p - 32 \in 7 .. 10 /\ (p - 32) - 7 = p - 39
      OBVIOUS
    <2>2. new[1329 + (p - 32)] = s.tag[(p - 32) - 7]
      BY <2>1, SplicedIs
    <2>3. c[Whole + p - 32] = new[1329 + (p - 32)]
      BY <1>9
    <2> QED
      BY <2>1, <2>2, <2>3
  <1>12. \A p \in 43 .. 46 : c[Whole + p - 32] = s.nonce[p - 43]
    <2> TAKE p \in 43 .. 46
    <2>1. p - 32 \in 11 .. 14 /\ (p - 32) - 11 = p - 43
      OBVIOUS
    <2>2. new[1329 + (p - 32)] = s.nonce[(p - 32) - 11]
      BY <2>1, SplicedIs
    <2>3. c[Whole + p - 32] = new[1329 + (p - 32)]
      BY <1>9
    <2> QED
      BY <2>1, <2>2, <2>3
  <1>13. t0 = t
    <2> HIDE DEF c
    <2>1. t0 = [p \in 32 .. 46 |-> c[Whole + p - 32]]
      BY <1>4
    <2>2. \A p \in 32 .. 46 : c[Whole + p - 32] = t[p]
      BY <1>10, <1>11, <1>12
    <2> HIDE DEF t0
    <2> QED
      BY <2>1, <2>2
  <1> QED
    BY <1>1, <1>3, <1>8, <1>13

----------------------------------------------------------------------------
(* The comparison with the target.                                          *)

\* u has the digit a, in base 256, under the number x.
IsDigit(u, a, x) == a \in 0 .. 255 /\ x \in Int /\ u = a + 256 * x

LEMMA DigitLess ==
    ASSUME NEW u, NEW a, NEW x, NEW v, NEW b, NEW y, IsDigit(u, a, x), IsDigit(v, b, y)
    PROVE  u < v <=> x < y \/ (x = y /\ a < b)
  <1>1. /\ a \in 0 .. 255 /\ x \in Int /\ u = a + 256 * x
        /\ b \in 0 .. 255 /\ y \in Int /\ v = b + 256 * y
    BY DEF IsDigit
  <1>2. u \in Int /\ v \in Int
    BY <1>1
  <1>3. x < y \/ x = y \/ y < x
    BY <1>1
  <1>4. CASE x < y
    <2>1. x + 1 <= y
      BY <1>1, <1>4
    <2>2. u < v
      BY <1>1, <2>1
    <2> QED
      BY <1>4, <2>2
  <1>5. CASE x = y
    BY <1>1, <1>5
  <1>6. CASE y < x
    <2>1. y + 1 <= x
      BY <1>1, <1>6
    <2>2. ~ u < v
      BY <1>1, <2>1
    <2>3. ~ x < y /\ ~ x = y
      BY <1>1, <1>6
    <2> QED
      BY <2>2, <2>3
  <1> QED
    BY <1>3, <1>4, <1>5, <1>6

LEMMA DigitEqual ==
    ASSUME NEW u, NEW a, NEW x, NEW v, NEW b, NEW y, IsDigit(u, a, x), IsDigit(v, b, y)
    PROVE  u = v <=> x = y /\ a = b
  <1>1. /\ a \in 0 .. 255 /\ x \in Int /\ u = a + 256 * x
        /\ b \in 0 .. 255 /\ y \in Int /\ v = b + 256 * y
    BY DEF IsDigit
  <1>2. x < y \/ x = y \/ y < x
    BY <1>1
  <1>3. CASE x < y
    <2>1. x + 1 <= y
      BY <1>1, <1>3
    <2>2. u # v /\ x # y
      BY <1>1, <2>1
    <2> QED
      BY <2>2
  <1>4. CASE x = y
    BY <1>1, <1>4
  <1>5. CASE y < x
    <2>1. y + 1 <= x
      BY <1>1, <1>5
    <2>2. u # v /\ x # y
      BY <1>1, <2>1
    <2> QED
      BY <2>2
  <1> QED
    BY <1>2, <1>3, <1>4, <1>5

LEMMA WordIs ==
    ASSUME NEW a \in Array(32), NEW i \in 0 .. 7
    PROVE  /\ a[4*i] \in 0 .. 255 /\ a[4*i + 1] \in 0 .. 255
           /\ a[4*i + 2] \in 0 .. 255 /\ a[4*i + 3] \in 0 .. 255
           /\ Word(a, i) = a[4*i] + 256 * (a[4*i + 1] + 256 * (a[4*i + 2] + 256 * a[4*i + 3]))
           /\ Word(a, i) \in Nat
  <1>1. /\ 4*i \in 0 .. 31 /\ 4*i + 1 \in 0 .. 31 /\ 4*i + 2 \in 0 .. 31 /\ 4*i + 3 \in 0 .. 31
    OBVIOUS
  <1>2. /\ a[4*i] \in 0 .. 255 /\ a[4*i + 1] \in 0 .. 255
        /\ a[4*i + 2] \in 0 .. 255 /\ a[4*i + 3] \in 0 .. 255
    BY <1>1 DEF Array, Bytes
  <1> DEFINE a0 == a[4*i]
             a1 == a[4*i + 1]
             a2 == a[4*i + 2]
             a3 == a[4*i + 3]
  <1>3. Word(a, i) = a0 + 256 * a1 + 65536 * a2 + 16777216 * a3
    BY DEF Word
  <1> HIDE DEF a0, a1, a2, a3
  <1>4. a0 \in 0 .. 255 /\ a1 \in 0 .. 255 /\ a2 \in 0 .. 255 /\ a3 \in 0 .. 255
    BY <1>2 DEF a0, a1, a2, a3
  <1>5. Word(a, i) = a0 + 256 * (a1 + 256 * (a2 + 256 * a3)) /\ Word(a, i) \in Nat
    BY <1>3, <1>4
  <1> QED
    BY <1>2, <1>5 DEF a0, a1, a2, a3

\* A word is under another when a byte is, and the bytes above it are equal.
LEMMA WordsCompare ==
    ASSUME NEW a \in Array(32), NEW b \in Array(32), NEW i \in 0 .. 7
    PROVE  /\ Word(a, i) = Word(b, i) <=> \A c \in 0 .. 3 : a[4*i + c] = b[4*i + c]
           /\ Word(a, i) < Word(b, i) <=>
                \E c \in 0 .. 3 : /\ a[4*i + c] < b[4*i + c]
                                  /\ \A e \in c + 1 .. 3 : a[4*i + e] = b[4*i + e]
  <1> DEFINE a0 == a[4*i]
             a1 == a[4*i + 1]
             a2 == a[4*i + 2]
             a3 == a[4*i + 3]
             b0 == b[4*i]
             b1 == b[4*i + 1]
             b2 == b[4*i + 2]
             b3 == b[4*i + 3]
             x == Word(a, i)
             y == Word(b, i)
  <1>1. /\ a0 \in 0 .. 255 /\ a1 \in 0 .. 255 /\ a2 \in 0 .. 255 /\ a3 \in 0 .. 255
        /\ x = a0 + 256 * (a1 + 256 * (a2 + 256 * a3))
    BY WordIs
  <1>2. /\ b0 \in 0 .. 255 /\ b1 \in 0 .. 255 /\ b2 \in 0 .. 255 /\ b3 \in 0 .. 255
        /\ y = b0 + 256 * (b1 + 256 * (b2 + 256 * b3))
    BY WordIs
  <1>3. 4*i + 0 = 4*i
    OBVIOUS
  <1>4. (\A c \in 0 .. 3 : a[4*i + c] = b[4*i + c]) <=> a0 = b0 /\ a1 = b1 /\ a2 = b2 /\ a3 = b3
    BY <1>3
  <1>5. (\E c \in 0 .. 3 : a[4*i + c] < b[4*i + c] /\ \A e \in c + 1 .. 3 : a[4*i + e] = b[4*i + e])
        <=> \/ a3 < b3
            \/ a2 < b2 /\ a3 = b3
            \/ a1 < b1 /\ a2 = b2 /\ a3 = b3
            \/ a0 < b0 /\ a1 = b1 /\ a2 = b2 /\ a3 = b3
    BY <1>3
  <1> HIDE DEF a0, a1, a2, a3, b0, b1, b2, b3, x, y
  <1> DEFINE u1 == a2 + 256 * a3
             v1 == b2 + 256 * b3
             u0 == a1 + 256 * u1
             v0 == b1 + 256 * v1
  <1>6. IsDigit(u1, a2, a3)
    BY <1>1 DEF IsDigit
  <1>7. IsDigit(v1, b2, b3)
    BY <1>2 DEF IsDigit
  <1>8. u1 \in Int /\ v1 \in Int
    BY <1>1, <1>2
  <1>9. x = a0 + 256 * u0 /\ y = b0 + 256 * v0
    BY <1>1, <1>2
  <1> HIDE DEF u1, v1
  <1>14. IsDigit(u0, a1, u1)
    BY <1>1, <1>8 DEF IsDigit
  <1>15. IsDigit(v0, b1, v1)
    BY <1>2, <1>8 DEF IsDigit
  <1>16. u0 \in Int /\ v0 \in Int
    BY <1>1, <1>2, <1>8
  <1> HIDE DEF u0, v0
  <1>17. IsDigit(x, a0, u0)
    BY <1>1, <1>9, <1>16 DEF IsDigit
  <1>18. IsDigit(y, b0, v0)
    BY <1>2, <1>9, <1>16 DEF IsDigit
  <1>19. u1 < v1 <=> a3 < b3 \/ (a3 = b3 /\ a2 < b2)
    BY <1>6, <1>7, DigitLess
  <1>20. u1 = v1 <=> a3 = b3 /\ a2 = b2
    BY <1>6, <1>7, DigitEqual
  <1>21. u0 < v0 <=> u1 < v1 \/ (u1 = v1 /\ a1 < b1)
    BY <1>14, <1>15, DigitLess
  <1>22. u0 = v0 <=> u1 = v1 /\ a1 = b1
    BY <1>14, <1>15, DigitEqual
  <1>23. x < y <=> u0 < v0 \/ (u0 = v0 /\ a0 < b0)
    BY <1>17, <1>18, DigitLess
  <1>24. x = y <=> u0 = v0 /\ a0 = b0
    BY <1>17, <1>18, DigitEqual
  <1>10. x = y <=> a0 = b0 /\ a1 = b1 /\ a2 = b2 /\ a3 = b3
    BY <1>20, <1>22, <1>24
  <1>11. x < y <=> \/ a3 < b3
                   \/ a2 < b2 /\ a3 = b3
                   \/ a1 < b1 /\ a2 = b2 /\ a3 = b3
                   \/ a0 < b0 /\ a1 = b1 /\ a2 = b2 /\ a3 = b3
    BY <1>19, <1>20, <1>21, <1>22, <1>23
  <1>12. x = y <=> \A c \in 0 .. 3 : a[4*i + c] = b[4*i + c]
    BY <1>4, <1>10
  <1>13. x < y <=> \E c \in 0 .. 3 : /\ a[4*i + c] < b[4*i + c]
                                     /\ \A e \in c + 1 .. 3 : a[4*i + e] = b[4*i + e]
    BY <1>5, <1>11
  <1> QED
    BY <1>12, <1>13 DEF x, y

LEMMA Quarter ==
    ASSUME NEW q \in 0 .. 31
    PROVE  \E k \in 0 .. 7, c \in 0 .. 3 : q = 4*k + c
  <1> DEFINE k == q \div 4
             c == q % 4
  <1>1. k \in Int /\ c \in 0 .. 3
    OBVIOUS
  <1>2. q = 4*k + c
    OBVIOUS
  <1> HIDE DEF k, c
  <1>3. k \in 0 .. 7
    BY <1>1, <1>2
  <1> QED
    BY <1>1, <1>2, <1>3

\* The words of a digest are at most those of a limit just when the bytes are,
\* from the last one down.
LEMMA MeetsIs ==
    ASSUME NEW a \in Array(32), NEW b \in Array(32)
    PROVE  MeetsTarget(Words(a), Words(b)) <=>
             \/ \E p \in 0 .. 31 : a[p] < b[p] /\ \A q \in p + 1 .. 31 : a[q] = b[q]
             \/ \A p \in 0 .. 31 : a[p] = b[p]
  <1>1. \A i \in 0 .. 7 : Words(a)[i] = Word(a, i) /\ Words(b)[i] = Word(b, i)
    BY DEF Words
  <1>2. MeetsTarget(Words(a), Words(b)) <=>
          \/ \E i \in 0 .. 7 : /\ Word(a, i) < Word(b, i)
                               /\ \A k \in i + 1 .. 7 : Word(a, k) = Word(b, k)
          \/ \A i \in 0 .. 7 : Word(a, i) = Word(b, i)
    BY <1>1 DEF MeetsTarget
  <1>3. ASSUME NEW i \in 0 .. 7, Word(a, i) < Word(b, i),
               \A k \in i + 1 .. 7 : Word(a, k) = Word(b, k)
        PROVE  \E p \in 0 .. 31 : a[p] < b[p] /\ \A q \in p + 1 .. 31 : a[q] = b[q]
    <2>1. PICK c \in 0 .. 3 : /\ a[4*i + c] < b[4*i + c]
                              /\ \A e \in c + 1 .. 3 : a[4*i + e] = b[4*i + e]
      BY <1>3, WordsCompare
    <2>2. ASSUME NEW q \in 4*i + c + 1 .. 31 PROVE a[q] = b[q]
      <3>1. q \in 0 .. 31
        OBVIOUS
      <3>2. PICK k \in 0 .. 7, e \in 0 .. 3 : q = 4*k + e
        BY <3>1, Quarter
      <3>3. (k = i /\ e \in c + 1 .. 3) \/ k \in i + 1 .. 7
        BY <3>2
      <3>4. CASE k = i /\ e \in c + 1 .. 3
        BY <2>1, <3>2, <3>4
      <3>5. CASE k \in i + 1 .. 7
        <4>1. Word(a, k) = Word(b, k)
          BY <1>3, <3>5
        <4>2. \A x \in 0 .. 3 : a[4*k + x] = b[4*k + x]
          BY <4>1, WordsCompare
        <4> QED
          BY <4>2, <3>2
      <3> QED
        BY <3>3, <3>4, <3>5
    <2> DEFINE p == 4*i + c
    <2>3. p \in 0 .. 31 /\ a[p] < b[p] /\ \A q \in p + 1 .. 31 : a[q] = b[q]
      BY <2>1, <2>2
    <2> QED
      BY <2>3
  <1>4. ASSUME \A i \in 0 .. 7 : Word(a, i) = Word(b, i), NEW p \in 0 .. 31
        PROVE  a[p] = b[p]
    <2>1. PICK k \in 0 .. 7, c \in 0 .. 3 : p = 4*k + c
      BY Quarter
    <2>2. \A x \in 0 .. 3 : a[4*k + x] = b[4*k + x]
      BY <1>4, WordsCompare
    <2> QED
      BY <2>1, <2>2
  <1>5. ASSUME NEW p \in 0 .. 31, a[p] < b[p], \A q \in p + 1 .. 31 : a[q] = b[q]
        PROVE  \E i \in 0 .. 7 : /\ Word(a, i) < Word(b, i)
                                 /\ \A k \in i + 1 .. 7 : Word(a, k) = Word(b, k)
    <2>1. PICK i \in 0 .. 7, c \in 0 .. 3 : p = 4*i + c
      BY Quarter
    <2>2. a[4*i + c] < b[4*i + c]
      BY <1>5, <2>1
    <2>3. ASSUME NEW e \in c + 1 .. 3 PROVE a[4*i + e] = b[4*i + e]
      <3>1. 4*i + e \in p + 1 .. 31
        BY <2>1
      <3> QED
        BY <3>1, <1>5
    <2>4. Word(a, i) < Word(b, i)
      BY <2>2, <2>3, WordsCompare
    <2>5. ASSUME NEW k \in i + 1 .. 7 PROVE Word(a, k) = Word(b, k)
      <3>1. k \in 0 .. 7
        OBVIOUS
      <3>2. ASSUME NEW x \in 0 .. 3 PROVE a[4*k + x] = b[4*k + x]
        <4>1. 4*k + x \in p + 1 .. 31
          BY <2>1
        <4> QED
          BY <4>1, <1>5
      <3> QED
        BY <3>1, <3>2, WordsCompare
    <2> QED
      BY <2>4, <2>5
  <1>6. ASSUME \A p \in 0 .. 31 : a[p] = b[p], NEW i \in 0 .. 7
        PROVE  Word(a, i) = Word(b, i)
    <2>1. ASSUME NEW x \in 0 .. 3 PROVE a[4*i + x] = b[4*i + x]
      <3>1. 4*i + x \in 0 .. 31
        OBVIOUS
      <3> QED
        BY <3>1, <1>6
    <2> QED
      BY <2>1, WordsCompare
  <1> QED
    BY <1>2, <1>3, <1>4, <1>5, <1>6

LEMMA ShareIsMeets ==
    ASSUME NEW a \in Array(32), NEW b \in Array(32)
    PROVE  IsShare(Words(a), Words(b)) <=> MeetsTarget(Words(a), Words(b))
  <1> DEFINE x == Words(a)
             y == Words(b)
  <1>1. \A i \in 0 .. 7 : x[i] \in Nat /\ y[i] \in Nat
    BY WordIs DEF Words
  <1> HIDE DEF x, y
  <1>2. MeetsTarget(x, y) => ~ x[7] > y[7]
    <2>1. ASSUME NEW i \in 0 .. 7, x[i] < y[i], \A k \in i + 1 .. 7 : x[k] = y[k]
          PROVE  ~ x[7] > y[7]
      BY <1>1, <2>1
    <2>2. ASSUME \A i \in 0 .. 7 : x[i] = y[i] PROVE ~ x[7] > y[7]
      BY <1>1, <2>2
    <2> QED
      BY <2>1, <2>2 DEF MeetsTarget
  <1>3. IsShare(x, y) <=> MeetsTarget(x, y)
    BY <1>2 DEF IsShare
  <1> QED
    BY <1>3 DEF x, y

LEMMA CompareIs ==
    ASSUME NEW d \in Array(32), NEW t \in Array(32)
    PROVE  IsShare(Words(d), TargetFromHex(t)) <=> AtMost(d, t)
  <1> DEFINE r == [p \in 0 .. 31 |-> t[31 - p]]
  <1>1. \A p \in 0 .. 31 : r[p] = t[31 - p]
    OBVIOUS
  <1>2. r \in Array(32)
    BY DEF Array
  <1>3. TargetFromHex(t) = Words(r)
    BY DEF TargetFromHex
  <1> HIDE DEF r
  <1>4. AtMost(d, t) <=>
          \/ \E p \in 0 .. 31 : d[p] < r[p] /\ \A q \in p + 1 .. 31 : d[q] = r[q]
          \/ \A p \in 0 .. 31 : d[p] = r[p]
    BY <1>1 DEF AtMost
  <1>5. IsShare(Words(d), Words(r)) <=> AtMost(d, t)
    BY <1>2, <1>4, MeetsIs, ShareIsMeets
  <1> QED
    BY <1>3, <1>5

----------------------------------------------------------------------------
(* Types.                                                                   *)

LEMMA SpaceIs ==
    ASSUME NEW h \in Array(140)
    PROVE  /\ NonceSpaceOf(h) \in Array(11)
           /\ \A i \in 0 .. 6 : NonceSpaceOf(h)[i] = h[108 + i]
  <1> DEFINE s1 == Slice(h, 108, 7)
             s2 == Slice(h, 128, 4)
             z == Zeros(11)
             front == Copy(z, 0, s1)
             full == Copy(front, 7, s2)
  <1>1. NonceSpaceOf(h) = full
    BY DEF NonceSpaceOf
  <1>2. s1 \in Array(7)
    BY SliceIs
  <1>3. \A i \in 0 .. 6 : s1[i - 0] = h[108 + i]
    BY DEF Slice
  <1>4. s2 \in Array(4)
    BY SliceIs
  <1>5. z \in Array(11)
    BY ZerosAre
  <1> HIDE DEF s1, s2, z
  <1>6. front \in Array(11)
    BY <1>2, <1>5, CopyIs
  <1>7. Part(front, 0, 6, s1, 0)
    BY <1>2, <1>5, CopyPuts
  <1> HIDE DEF front
  <1>8. full \in Array(11)
    BY <1>4, <1>6, CopyIs
  <1>9. Part(full, 0, 6, s1, 0)
    BY <1>4, <1>6, <1>7, CopyKeeps
  <1> HIDE DEF full
  <1>10. \A i \in 0 .. 6 : full[i] = s1[i - 0]
    BY <1>9 DEF Part, Moved
  <1> QED
    BY <1>1, <1>3, <1>8, <1>10

\* The header of a submission, of which the part behind the prefix is sent.
\* The nonce field from byte k on.
Behind(n, k, header, s) ==
    /\ n \in Array(32 - k)
    /\ \A p \in k .. 11 : n[p - k] = header[108 + p]
    /\ \A p \in 12 .. 15 : p >= k => n[p - k] = s.nonce[p - 12]
    /\ \A p \in 20 .. 23 : p >= k => n[p - k] = s.tag[p - 20]

LEMMA BehindPrefix ==
    ASSUME NEW j \in Jobs, NEW s, Sent(s), NEW k \in 0 .. 31, NEW n,
           n = Slice(Copy(Copy(j.header, 120, s.nonce), 128, s.tag), 108 + k, 32 - k)
    PROVE  Behind(n, k, j.header, s)
  <1> DEFINE h == j.header
             h1 == Copy(h, 120, s.nonce)
             h2 == Copy(h1, 128, s.tag)
  <1>1. k \in 0 .. 31
    OBVIOUS
  <1>2. n = [i \in 0 .. 32 - k - 1 |-> h2[108 + k + i]]
    BY DEF Slice
  <1>3. s.nonce \in Array(4) /\ s.tag \in Array(4)
    BY DEF Sent
  <1>4. h \in Array(140)
    BY DEF Jobs, HeaderBytes
  <1> HIDE DEF h
  <1>5. h1 \in Array(140)
    BY <1>3, <1>4, CopyIs
  <1>6. Part(h1, 120, 123, s.nonce, 120)
    BY <1>3, <1>4, CopyPuts
  <1>7. Part(h, 108, 119, h, 0)
    BY DEF Part, Moved
  <1>8. Part(h1, 108, 119, h, 0)
    BY <1>3, <1>4, <1>7, CopyKeeps
  <1> HIDE DEF h1
  <1>9. h2 \in Array(140)
    BY <1>3, <1>5, CopyIs
  <1>10. Part(h2, 128, 131, s.tag, 128)
    BY <1>3, <1>5, CopyPuts
  <1>11. Part(h2, 120, 123, s.nonce, 120)
    BY <1>3, <1>5, <1>6, CopyKeeps
  <1>12. Part(h2, 108, 119, h, 0)
    BY <1>3, <1>5, <1>8, CopyKeeps
  <1> HIDE DEF h2
  <1>13. n \in Array(32 - k)
    <2>1. ASSUME NEW i \in 0 .. 32 - k - 1 PROVE h2[108 + k + i] \in Bytes
      <3>1. k \in Int /\ i \in Int /\ 0 <= k /\ 0 <= i /\ i <= 31 - k
        BY <1>1
      <3>2. 108 + k + i \in 0 .. 140 - 1
        BY <3>1
      <3> QED
        BY <3>2, <1>9 DEF Array
    <2> QED
      BY <1>2, <2>1 DEF Array
  <1>14. ASSUME NEW p \in k .. 31 PROVE n[p - k] = h2[108 + p]
    <2>1. p - k \in 0 .. 32 - k - 1 /\ 108 + k + (p - k) = 108 + p
      BY <1>1
    <2> QED
      BY <2>1, <1>2
  <1>15. ASSUME NEW p \in k .. 11 PROVE n[p - k] = h[108 + p]
    <2>0. k \in Int /\ p \in Int /\ 0 <= k /\ k <= p /\ p <= 11
      BY <1>1
    <2>1. 108 + p \in 108 .. 119 /\ p \in k .. 31 /\ (108 + p) - 0 = 108 + p
      BY <2>0
    <2>2. h2[108 + p] = h[(108 + p) - 0]
      BY <2>1, <1>12 DEF Part, Moved
    <2> QED
      BY <2>1, <2>2, <1>14
  <1>16. ASSUME NEW p \in 12 .. 15, p >= k PROVE n[p - k] = s.nonce[p - 12]
    <2>1. 108 + p \in 120 .. 123 /\ p \in k .. 31 /\ (108 + p) - 120 = p - 12
      BY <1>1, <1>16
    <2>2. h2[108 + p] = s.nonce[(108 + p) - 120]
      BY <2>1, <1>11 DEF Part, Moved
    <2> QED
      BY <2>1, <2>2, <1>14
  <1>17. ASSUME NEW p \in 20 .. 23, p >= k PROVE n[p - k] = s.tag[p - 20]
    <2>1. 108 + p \in 128 .. 131 /\ p \in k .. 31 /\ (108 + p) - 128 = p - 20
      BY <1>1, <1>17
    <2>2. h2[108 + p] = s.tag[(108 + p) - 128]
      BY <2>1, <1>10 DEF Part, Moved
    <2> QED
      BY <2>1, <2>2, <1>14
  <1> QED
    BY <1>13, <1>15, <1>16, <1>17 DEF h, Behind

LEMMA SubmitNonceIs ==
    ASSUME NEW j \in Jobs, NEW x \in Seq(Bytes), NEW s, Sent(s)
    PROVE  Behind(SubmitNonce(j, x, s), PrefixLen(x), j.header, s)
  <1> DEFINE n == SubmitNonce(j, x, s)
             k == PrefixLen(x)
  <1>1. k \in 0 .. 31
    BY PrefixIs
  <1>2. n = Slice(Copy(Copy(j.header, 120, s.nonce), 128, s.tag), 108 + k, 32 - k)
    BY DEF SubmitNonce, NonceOffsetWord
  <1> HIDE DEF n, k
  <1>3. Behind(n, k, j.header, s)
    BY <1>1, <1>2, BehindPrefix
  <1> QED
    BY <1>3 DEF n, k

LEMMA SubmissionTyped ==
    ASSUME NEW j \in Jobs, NEW x \in Seq(Bytes), NEW s \in Shares
    PROVE  \E n \in 1 .. 32 : Submission(j, x, s) \in Submissions(n)
  <1> DEFINE k == PrefixLen(x)
             n == 32 - k
             time == Slice(j.header, 100, 4)
             nonce == SubmitNonce(j, x, s)
             solution == Spliced(j, s)
  <1>1. Submission(j, x, s)
          = [id |-> j.id, time |-> time, nonce |-> nonce, solution |-> solution, share |-> s]
    BY DEF Submission
  <1>2. Sent(s)
    BY DEF Sent, Shares
  <1>3. j.id \in Nat /\ j.header \in Array(140)
    BY DEF Jobs, HeaderBytes
  <1>4. time \in Array(4)
    BY <1>3, SliceIs
  <1>5. nonce \in Array(n)
    BY <1>2, SubmitNonceIs DEF Behind
  <1>6. solution \in Array(SolutionBytes)
    BY <1>2, SplicedIs DEF SolutionBytes
  <1>7. k \in 0 .. 31
    BY PrefixIs
  <1> HIDE DEF k, time, nonce, solution
  <1>8. n \in 1 .. 32
    BY <1>7
  <1> HIDE DEF n
  <1>9. Submission(j, x, s) \in Submissions(n)
    BY <1>1, <1>3, <1>4, <1>5, <1>6 DEF Submissions
  <1> QED
    BY <1>8, <1>9

LEMMA WordsTyped ==
    ASSUME NEW a \in Array(32)
    PROVE  Words(a) \in TargetWords
  BY WordIs DEF Words, TargetWords

LEMMA TargetTyped ==
    ASSUME NEW t \in Array(32)
    PROVE  TargetFromHex(t) \in TargetWords
  <1> DEFINE r == [p \in 0 .. 31 |-> t[31 - p]]
  <1>1. r \in Array(32)
    BY DEF Array
  <1>2. Words(r) \in TargetWords
    BY <1>1, WordsTyped
  <1> QED
    BY <1>2 DEF TargetFromHex

LEMMA JobTyped ==
    ASSUME NEW issue \in Issues, NEW x \in Seq(Bytes), NEW n \in Nat, NEW id \in Nat
    PROVE  [serial |-> n, id |-> id, issue |-> issue, header |-> HeaderOf(Content[issue], x),
            space |-> NonceSpaceOf(HeaderOf(Content[issue], x))] \in Jobs
  <1> DEFINE h == HeaderOf(Content[issue], x)
  <1>1. Content[issue] \in Messages
    BY MessageAssumption
  <1>2. h \in Array(140)
    BY <1>1, HeaderIs
  <1>3. NonceSpaceOf(h) \in Array(11)
    BY <1>2, SpaceIs
  <1> HIDE DEF h
  <1>4. [serial |-> n, id |-> id, issue |-> issue, header |-> h, space |-> NonceSpaceOf(h)] \in Jobs
    BY <1>2, <1>3 DEF Jobs, HeaderBytes
  <1> QED
    BY <1>4 DEF h

----------------------------------------------------------------------------
(* The invariant.                                                           *)

\* A job a worker or a share carries, and the target it is measured by: the job at
\* hand has its serial only if it is that job, and then the target was in force.
Known(j, t) == /\ j \in Jobs /\ j.serial \in 1 .. serial
               /\ job.serial = j.serial => j = job /\ t \in inForce

JobInv ==
    /\ valid => haveTarget /\ job # NoJob
    /\ job = NoJob \/ /\ job \in Jobs /\ job.serial \in 1 .. serial /\ subscribed
                      /\ job.id \in DOMAIN issued /\ issued[job.id] = job.issue
                      /\ job.header = HeaderOf(Content[job.issue], xnonce1)
                      /\ job.space = NonceSpaceOf(job.header)
TargetInv == /\ haveTarget => spelled \in Targets /\ target = TargetFromHex(spelled)
             /\ valid => spelled \in inForce
OutboxInv == \A i \in DOMAIN outbox :
    Known(outbox[i].mined, outbox[i].spelled) /\ outbox[i].serial = outbox[i].mined.serial
HeldInv == \A w \in Workers : held[w] # None =>
    Known(held[w].job, held[w].spelled) /\ held[w].target = TargetFromHex(held[w].spelled)
Inv == TypeOK /\ JobInv /\ TargetInv /\ OutboxInv /\ HeldInv

LEMMA Numbers ==
    /\ \A t \in Targets : t \in Array(32)
    /\ \A h \in Hashes : h.fast \in Array(32)
  BY NumberAssumption

LEMMA NoneIsNone ==
    /\ \A j \in Jobs : j.serial \in Nat
    /\ NoJob.serial = 0
    /\ NoTarget \in Array(32)
  BY DEF Jobs, NoJob, NoTarget, Array, Bytes

LEMMA InvInit == Init => Inv
  <1> SUFFICES ASSUME Init PROVE Inv
    OBVIOUS
  <1>1. Words(NoTarget) \in TargetWords
    BY NoneIsNone, WordsTyped
  <1>4. xnonce1 \in Seq(Bytes) /\ outbox \in Seq(Shares) /\ issued \in Seq(Issues)
    BY DEF Init
  <1>5. held \in [Workers -> Works \cup {None}]
    BY DEF Init
  <1>6. target \in TargetWords
    BY <1>1 DEF Init
  <1>2. TypeOK
    BY <1>4, <1>5, <1>6 DEF Init, TypeOK
  <1>3. JobInv /\ TargetInv /\ OutboxInv /\ HeldInv
    BY DEF Init, JobInv, TargetInv, OutboxInv, HeldInv
  <1> QED
    BY <1>2, <1>3 DEF Inv

LEMMA ResetStep == Inv /\ ResetSession => Inv'
  <1> SUFFICES ASSUME Inv, ResetSession PROVE Inv'
    OBVIOUS
  <1> USE DEF Inv
  <1>1. Words(NoTarget) \in TargetWords
    BY NoneIsNone, WordsTyped
  <1>6. xnonce1' \in Seq(Bytes) /\ outbox' \in Seq(Shares) /\ issued' \in Seq(Issues)
    BY DEF ResetSession
  <1>7. target' \in TargetWords
    BY <1>1 DEF ResetSession
  <1>2. TypeOK'
    BY <1>6, <1>7 DEF TypeOK, ResetSession, Quiet
  <1>3. JobInv' /\ TargetInv' /\ OutboxInv'
    BY DEF ResetSession, JobInv, TargetInv, OutboxInv
  <1>4. ASSUME NEW j, NEW t, Known(j, t) PROVE Known(j, t)'
    BY <1>4, NoneIsNone DEF Known, ResetSession
  <1>5. HeldInv'
    BY <1>4 DEF HeldInv, ResetSession
  <1> QED
    BY <1>2, <1>3, <1>5

LEMMA SubscribeStep == Inv /\ SubscribeReply => Inv'
  <1> SUFFICES ASSUME Inv, SubscribeReply PROVE Inv'
    OBVIOUS
  <1> USE DEF Inv
  <1>1. TypeOK'
    BY XnonceAssumption DEF TypeOK, SubscribeReply, Quiet
  <1>2. JobInv' /\ TargetInv'
    BY DEF SubscribeReply, JobInv, TargetInv
  <1>3. ASSUME NEW j, NEW t, Known(j, t) PROVE Known(j, t)'
    BY <1>3 DEF Known, SubscribeReply
  <1>4. OutboxInv'
    BY <1>3 DEF OutboxInv, SubscribeReply
  <1>5. HeldInv'
    BY <1>3 DEF HeldInv, SubscribeReply
  <1> QED
    BY <1>1, <1>2, <1>4, <1>5

LEMMA NotifyStep == Inv /\ HandleNotify => Inv'
  <1> SUFFICES ASSUME Inv, HandleNotify PROVE Inv'
    OBVIOUS
  <1> USE DEF Inv
  <1>1. PICK issue \in Issues :
          LET header == HeaderOf(Content[issue], xnonce1) IN
          /\ issued' = Append(issued, issue)
          /\ job' = [serial |-> serial + 1, id |-> Len(issued) + 1, issue |-> issue,
                     header |-> header, space |-> NonceSpaceOf(header)]
    BY DEF HandleNotify
  <1> DEFINE header == HeaderOf(Content[issue], xnonce1)
             n == Len(issued)
             made == [serial |-> serial + 1, id |-> n + 1, issue |-> issue,
                      header |-> header, space |-> NonceSpaceOf(header)]
  <1>2. job' = made /\ issued' = Append(issued, issue)
    BY <1>1
  <1>3. issued \in Seq(Issues) /\ xnonce1 \in Seq(Bytes) /\ serial \in Nat
    BY DEF TypeOK
  <1>4. n \in Nat
    BY <1>3
  <1>5. issued' \in Seq(Issues) /\ DOMAIN issued' = 1 .. n + 1 /\ issued'[n + 1] = issue
    BY <1>2, <1>3
  <1> HIDE DEF n
  <1>6. made \in Jobs
    BY <1>3, <1>4, JobTyped
  <1>7. /\ made.serial = serial + 1 /\ made.id = n + 1 /\ made.issue = issue
        /\ made.header = HeaderOf(Content[made.issue], xnonce1)
        /\ made.space = NonceSpaceOf(made.header)
    OBVIOUS
  <1> HIDE DEF made, header
  <1>8. /\ serial' = serial + 1 /\ valid' = haveTarget /\ subscribed
        /\ inForce' = IF haveTarget THEN {spelled} ELSE {}
        /\ UNCHANGED <<xnonce1, target, haveTarget, outbox, subscribed, spelled, held>>
        /\ last' = None /\ sent' = None
    BY DEF HandleNotify, Quiet
  <1>16. inForce' \subseteq Targets
    BY <1>8 DEF TargetInv
  <1>9. TypeOK'
    BY <1>2, <1>5, <1>6, <1>8, <1>16 DEF TypeOK
  <1>10. made # NoJob
    BY <1>3, <1>7, NoneIsNone
  <1>11. JobInv'
    BY <1>2, <1>3, <1>4, <1>5, <1>6, <1>7, <1>8, <1>10 DEF JobInv
  <1>12. TargetInv'
    BY <1>8 DEF TargetInv
  <1>13. ASSUME NEW j, NEW t, Known(j, t) PROVE Known(j, t)'
    <2>1. j \in Jobs /\ j.serial \in 1 .. serial
      BY <1>13 DEF Known
    <2>2. j.serial \in 1 .. serial + 1 /\ j.serial # serial + 1
      BY <2>1, <1>3
    <2> QED
      BY <2>1, <2>2, <1>2, <1>7, <1>8 DEF Known
  <1>14. OutboxInv'
    BY <1>8, <1>13 DEF OutboxInv
  <1>15. HeldInv'
    BY <1>8, <1>13 DEF HeldInv
  <1> QED
    BY <1>9, <1>11, <1>12, <1>14, <1>15

LEMMA TargetStep == Inv /\ HandleSetTarget => Inv'
  <1> SUFFICES ASSUME Inv, HandleSetTarget PROVE Inv'
    OBVIOUS
  <1> USE DEF Inv
  <1>1. PICK t \in Targets : spelled' = t /\ inForce' = inForce \cup {t}
                           /\ target' = TargetFromHex(t)
    BY DEF HandleSetTarget
  <1>2. TargetFromHex(t) \in TargetWords
    BY Numbers, TargetTyped
  <1>3. valid' \in BOOLEAN
    BY DEF HandleSetTarget
  <1>4. TypeOK'
    BY <1>1, <1>2, <1>3 DEF TypeOK, HandleSetTarget, Quiet
  <1>5. JobInv'
    BY NoneIsNone DEF JobInv, HandleSetTarget
  <1>6. TargetInv'
    BY <1>1 DEF TargetInv
  <1>7. ASSUME NEW j, NEW u, Known(j, u) PROVE Known(j, u)'
    BY <1>7 DEF Known, HandleSetTarget
  <1>8. OutboxInv'
    BY <1>7 DEF OutboxInv, HandleSetTarget
  <1>9. HeldInv'
    BY <1>7 DEF HeldInv, HandleSetTarget
  <1> QED
    BY <1>4, <1>5, <1>6, <1>8, <1>9

\* What is left of the outbox when its head is taken.
LEMMA TailStep ==
    ASSUME Inv, outbox # <<>>, outbox' = Tail(outbox),
           UNCHANGED <<job, serial, inForce>>
    PROVE  outbox' \in Seq(Shares) /\ OutboxInv'
  <1>1. outbox \in Seq(Shares)
    BY DEF Inv, TypeOK
  <1>2. outbox' \in Seq(Shares) /\ \A i \in DOMAIN outbox' :
          i + 1 \in DOMAIN outbox /\ outbox'[i] = outbox[i + 1]
    BY <1>1
  <1>3. ASSUME NEW j, NEW t, Known(j, t) PROVE Known(j, t)'
    BY <1>3 DEF Known
  <1> QED
    BY <1>2, <1>3 DEF Inv, OutboxInv

LEMMA DropStep == Inv /\ DropStale => Inv'
  <1> SUFFICES ASSUME Inv, DropStale PROVE Inv'
    OBVIOUS
  <1> USE DEF Inv
  <1>1. outbox' \in Seq(Shares) /\ OutboxInv'
    BY TailStep DEF DropStale
  <1>2. TypeOK'
    BY <1>1 DEF TypeOK, DropStale, Quiet
  <1>3. JobInv' /\ TargetInv'
    BY DEF DropStale, JobInv, TargetInv
  <1>4. ASSUME NEW j, NEW t, Known(j, t) PROVE Known(j, t)'
    BY <1>4 DEF Known, DropStale
  <1>5. HeldInv'
    BY <1>4 DEF HeldInv, DropStale
  <1> QED
    BY <1>1, <1>2, <1>3, <1>5

\* The share that goes out is of the job at hand.
LEMMA HeadIs ==
    ASSUME Inv, SendShare
    PROVE  /\ Head(outbox) \in Shares /\ Sent(Head(outbox))
           /\ job \in Jobs /\ job # NoJob /\ Head(outbox).mined = job
           /\ Head(outbox).spelled \in inForce
  <1> DEFINE s == Head(outbox)
  <1>1. outbox \in Seq(Shares) /\ outbox # <<>>
    BY DEF Inv, TypeOK, SendShare
  <1>2. s \in Shares /\ 1 \in DOMAIN outbox /\ s = outbox[1]
    BY <1>1
  <1>3. Known(s.mined, s.spelled) /\ s.serial = s.mined.serial
    BY <1>2 DEF Inv, OutboxInv
  <1>4. valid /\ job.serial = s.serial
    BY DEF SendShare, StillCurrent
  <1>5. job # NoJob /\ job \in Jobs
    BY <1>4 DEF Inv, JobInv
  <1>6. s.mined = job /\ s.spelled \in inForce
    BY <1>3, <1>4 DEF Known
  <1>7. Sent(s)
    BY <1>2 DEF Shares, Sent
  <1> QED
    BY <1>2, <1>5, <1>6, <1>7

LEMMA SendStep == Inv /\ SendShare => Inv'
  <1> SUFFICES ASSUME Inv, SendShare PROVE Inv'
    OBVIOUS
  <1> USE DEF Inv
  <1>1. outbox' \in Seq(Shares) /\ OutboxInv'
    BY TailStep DEF SendShare
  <1>2. xnonce1 \in Seq(Bytes)
    BY DEF TypeOK
  <1>3. \E n \in 1 .. 32 : Submission(job, xnonce1, Head(outbox)) \in Submissions(n)
    BY <1>2, HeadIs, SubmissionTyped
  <1>4. sent' = Submission(job, xnonce1, Head(outbox)) /\ last' = None
    BY DEF SendShare
  <1>5. \E n \in 1 .. 32 : sent' \in Submissions(n)
    BY <1>3, <1>4
  <1>6. TypeOK'
    BY <1>1, <1>4, <1>5 DEF TypeOK, SendShare
  <1>7. JobInv' /\ TargetInv'
    BY DEF SendShare, JobInv, TargetInv
  <1>8. ASSUME NEW j, NEW t, Known(j, t) PROVE Known(j, t)'
    BY <1>8 DEF Known, SendShare
  <1>9. HeldInv'
    BY <1>8 DEF HeldInv, SendShare
  <1> QED
    BY <1>1, <1>6, <1>7, <1>9

LEMMA FetchStep == \A w \in Workers : Inv /\ WorkerFetches(w) => Inv'
  <1> SUFFICES ASSUME NEW w \in Workers, Inv, WorkerFetches(w) PROVE Inv'
    OBVIOUS
  <1> USE DEF Inv
  <1> DEFINE work == [job |-> job, target |-> target, spelled |-> spelled]
  <1>1. valid /\ held' = [held EXCEPT ![w] = work]
    BY DEF WorkerFetches
  <1>2. job \in Jobs /\ job.serial \in 1 .. serial
    BY <1>1 DEF JobInv
  <1>3. /\ spelled \in Targets /\ target = TargetFromHex(spelled) /\ target \in TargetWords
        /\ spelled \in inForce
    BY <1>1 DEF JobInv, TargetInv, TypeOK
  <1>4. work \in Works
    BY <1>2, <1>3 DEF Works
  <1>5. held \in [Workers -> Works \cup {None}]
    BY DEF TypeOK
  <1>6. held' \in [Workers -> Works \cup {None}]
    BY <1>1, <1>4, <1>5
  <1>7. work.job = job /\ work.target = target /\ work.spelled = spelled
    OBVIOUS
  <1> HIDE DEF work
  <1>8. TypeOK'
    BY <1>6 DEF TypeOK, WorkerFetches, Quiet
  <1>9. JobInv' /\ TargetInv'
    BY DEF WorkerFetches, JobInv, TargetInv
  <1>10. ASSUME NEW j, NEW t, Known(j, t) PROVE Known(j, t)'
    BY <1>10 DEF Known, WorkerFetches
  <1>11. OutboxInv'
    BY <1>10 DEF OutboxInv, WorkerFetches
  <1>12. ASSUME NEW v \in Workers, held'[v] # None
         PROVE  (/\ Known(held[v].job, held[v].spelled)
                 /\ held[v].target = TargetFromHex(held[v].spelled))'
    <2>1. CASE v = w
      <3>1. held'[v] = work
        BY <1>1, <1>5, <2>1
      <3>2. Known(job, spelled)
        BY <1>2, <1>3 DEF Known
      <3>3. UNCHANGED <<job, serial, inForce>>
        BY DEF WorkerFetches
      <3>4. held'[v].job = job /\ held'[v].spelled = spelled /\ held'[v].target = target
        BY <1>7, <3>1
      <3> QED
        BY <1>3, <3>2, <3>3, <3>4 DEF Known
    <2>2. CASE v # w
      <3>1. held'[v] = held[v]
        BY <1>1, <1>5, <2>2
      <3>2. Known(held[v].job, held[v].spelled) /\ held[v].target = TargetFromHex(held[v].spelled)
        BY <1>12, <3>1 DEF HeldInv
      <3>3. Known(held[v].job, held[v].spelled)'
        BY <3>1, <3>2 DEF Known, WorkerFetches
      <3> QED
        BY <3>1, <3>2, <3>3
    <2> QED
      BY <2>1, <2>2
  <1>13. HeldInv'
    BY <1>12 DEF HeldInv
  <1> QED
    BY <1>8, <1>9, <1>11, <1>13

\* What a wave finds is of the job the worker has.
LEMMA WaveStep == \A w \in Workers : Inv /\ WorkerWave(w) => Inv'
  <1> SUFFICES ASSUME NEW w \in Workers, Inv, WorkerWave(w) PROVE Inv'
    OBVIOUS
  <1> USE DEF Inv
  <1>1. PICK nonce \in Nonces, hash \in Hashes :
          LET hit == IsShare(Words(hash.fast), held[w].target)
              find == [serial |-> held[w].job.serial, nonce |-> nonce, tag |-> Tag[w],
                       mined |-> held[w].job, spelled |-> held[w].spelled]
          IN  /\ outbox' = IF hit THEN Queued(find) ELSE outbox
              /\ last' = [hash |-> hash, spelled |-> held[w].spelled, submitted |-> hit]
    BY DEF WorkerWave
  <1> DEFINE hit == IsShare(Words(hash.fast), held[w].target)
             find == [serial |-> held[w].job.serial, nonce |-> nonce, tag |-> Tag[w],
                      mined |-> held[w].job, spelled |-> held[w].spelled]
  <1>2. /\ outbox' = IF hit THEN Queued(find) ELSE outbox
        /\ last' = [hash |-> hash, spelled |-> held[w].spelled, submitted |-> hit]
    BY <1>1
  <1>3. held[w] # None /\ held[w] \in Works
    BY DEF WorkerWave, TypeOK
  <1>4. held[w].job \in Jobs /\ held[w].spelled \in Targets
    BY <1>3 DEF Works
  <1>5. Known(held[w].job, held[w].spelled)
    BY <1>3 DEF HeldInv
  <1>6. held[w].job.serial \in Nat /\ nonce \in Array(4) /\ Tag[w] \in Array(4)
    BY <1>4, NoneIsNone, NonceAssumption
  <1>7. find \in Shares
    BY <1>4, <1>6 DEF Shares
  <1>8. /\ find.mined = held[w].job /\ find.serial = find.mined.serial
        /\ find.spelled = held[w].spelled
    OBVIOUS
  <1>9. hit \in BOOLEAN
    BY DEF IsShare
  <1>10. last' \in Waves
    BY <1>2, <1>4, <1>9 DEF Waves
  <1> HIDE DEF hit, find
  <1>11. outbox \in Seq(Shares)
    BY DEF TypeOK
  <1>12. outbox' = outbox \/ outbox' = Append(outbox, find)
    BY <1>2 DEF Queued
  <1>13. outbox' \in Seq(Shares)
    BY <1>7, <1>11, <1>12
  <1>14. UNCHANGED <<xnonce1, job, target, valid, serial, haveTarget, subscribed, issued,
                     spelled, inForce, held>> /\ sent' = None
    BY DEF WorkerWave
  <1>15. TypeOK'
    BY <1>10, <1>13, <1>14 DEF TypeOK
  <1>16. JobInv' /\ TargetInv'
    BY <1>14 DEF JobInv, TargetInv
  <1>17. ASSUME NEW j, NEW t, Known(j, t) PROVE Known(j, t)'
    BY <1>14, <1>17 DEF Known
  <1>18. HeldInv'
    BY <1>14, <1>17 DEF HeldInv
  <1>19. OutboxInv'
    <2>1. CASE outbox' = outbox
      BY <2>1, <1>17 DEF OutboxInv
    <2>2. CASE outbox' = Append(outbox, find)
      <3> DEFINE n == Len(outbox)
      <3>1. n \in Nat /\ DOMAIN outbox = 1 .. n /\ DOMAIN outbox' = 1 .. n + 1
        BY <2>2, <1>11
      <3>2. outbox'[n + 1] = find /\ \A i \in 1 .. n : outbox'[i] = outbox[i]
        BY <2>2, <1>11
      <3> HIDE DEF n
      <3>3. ASSUME NEW i \in DOMAIN outbox'
            PROVE  (Known(outbox[i].mined, outbox[i].spelled) /\ outbox[i].serial = outbox[i].mined.serial)'
        <4>1. i \in 1 .. n \/ i = n + 1
          BY <3>1
        <4>2. CASE i \in 1 .. n
          <5>1. outbox'[i] = outbox[i]
            BY <3>2, <4>2
          <5>2. Known(outbox[i].mined, outbox[i].spelled) /\ outbox[i].serial = outbox[i].mined.serial
            BY <3>1, <4>2 DEF OutboxInv
          <5> QED
            BY <5>1, <5>2, <1>14 DEF Known
        <4>3. CASE i = n + 1
          <5>1. outbox'[i] = find
            BY <3>2, <4>3
          <5>2. Known(find.mined, find.spelled)
            BY <1>5, <1>8
          <5> QED
            BY <5>1, <5>2, <1>8, <1>14 DEF Known
        <4> QED
          BY <4>1, <4>2, <4>3
      <3> QED
        BY <3>3 DEF OutboxInv
    <2> QED
      BY <1>12, <2>1, <2>2
  <1> QED
    BY <1>15, <1>16, <1>18, <1>19

LEMMA InvNext == Inv /\ [Next]_vars => Inv'
  <1> SUFFICES ASSUME Inv, [Next]_vars PROVE Inv'
    OBVIOUS
  <1>1. CASE Connection
    BY <1>1, ResetStep, SubscribeStep, NotifyStep, TargetStep, DropStep, SendStep DEF Connection
  <1>2. CASE \E w \in Workers : Worker(w)
    BY <1>2, FetchStep, WaveStep DEF Worker
  <1>3. CASE UNCHANGED vars
    BY <1>3 DEF vars, Inv, TypeOK, JobInv, TargetInv, OutboxInv, HeldInv, Known
  <1> QED
    BY <1>1, <1>2, <1>3 DEF Next

\* The invariant the properties follow from: the job at hand is built from what the
\* pool issued under its id, and a queued share of its serial was mined on it.
THEOREM InvHolds == Spec => []Inv
  BY InvInit, InvNext, PTL DEF Spec

\* Type correctness of the connection, the pool and the workers.
THEOREM Typed == Spec => []TypeOK
  BY InvHolds, PTL DEF Inv

----------------------------------------------------------------------------
(* The properties.  Each is about the step that just was; only one kind of   *)
(* step makes it say anything.                                              *)

LEMMA RebuiltSend == Inv /\ SendShare => RebuiltIsMined'
  <1> SUFFICES ASSUME Inv, SendShare, IsPbaas(Content[issued'[sent'.id]].solution)
               PROVE  Rebuilt(sent)' = Mined(sent'.share.mined, sent'.share.tag, sent'.share.nonce)
    BY DEF RebuiltIsMined
  <1> DEFINE s == Head(outbox)
  <1>1. sent' = [id |-> job.id, time |-> Slice(job.header, 100, 4),
                 nonce |-> SubmitNonce(job, xnonce1, s), solution |-> Spliced(job, s),
                 share |-> s]
    BY DEF SendShare, Submission
  <1>2. /\ sent'.id = job.id /\ sent'.time = Slice(job.header, 100, 4)
        /\ sent'.solution = Spliced(job, s) /\ sent'.share = s
    BY <1>1
  <1>3. s.mined = job /\ job \in Jobs /\ job # NoJob /\ Sent(s)
    BY HeadIs
  <1>4. issued' = issued /\ issued[job.id] = job.issue
    BY <1>3 DEF SendShare, Inv, JobInv
  <1>5. xnonce1 \in Seq(Bytes) /\ job.header = HeaderOf(Content[job.issue], xnonce1)
    BY <1>3 DEF Inv, TypeOK, JobInv
  <1>6. Content[job.issue] \in Messages
    BY <1>3, MessageAssumption DEF Jobs
  <1> DEFINE version == Content[job.issue].version
  <1>7. version \in Array(4)
    BY <1>6 DEF Messages
  <1>8. Part(job.header, 0, 3, version, 0)
    BY <1>5, <1>6, HeaderIs
  <1>9. IsPbaas(Solution(job))
    BY <1>2, <1>4 DEF Solution
  <1>10. Rebuilt(sent)' = HashHalf(CanonicalPreimage(version, Slice(job.header, 100, 4),
                                                     Spliced(job, s)))
    BY <1>2, <1>4 DEF Rebuilt
  <1> HIDE DEF s, version
  <1>11. HashHalf(CanonicalPreimage(version, Slice(job.header, 100, 4), Spliced(job, s)))
           = Mined(job, s.tag, s.nonce)
    BY <1>3, <1>7, <1>8, <1>9, SameHalf
  <1> QED
    BY <1>2, <1>3, <1>10, <1>11

LEMMA TailSend == Inv /\ SendShare => TailIsNonce'
  <1> DEFINE s == Head(outbox)
             k == PrefixLen(xnonce1)
             tail == Slice(sent.solution, NonceSpaceOffset, NonceSpaceBytes)
             nonce == NonceField(sent)
  <1> SUFFICES ASSUME Inv, SendShare, PrefixLen(xnonce1') <= 12
               PROVE  (/\ Slice(tail, 0, 7) = Slice(nonce, 0, 7)
                       /\ Slice(tail, 7, 4) = Slice(nonce, 20, 4)
                       /\ Slice(tail, 11, 4) = Slice(nonce, 12, 4))'
    BY DEF TailIsNonce, NonceOffsetWord
  <1>1. sent' = [id |-> job.id, time |-> Slice(job.header, 100, 4),
                 nonce |-> SubmitNonce(job, xnonce1, s), solution |-> Spliced(job, s),
                 share |-> s]
    BY DEF SendShare, Submission
  <1>2. xnonce1' = xnonce1 /\ xnonce1 \in Seq(Bytes)
    BY DEF SendShare, Inv, TypeOK
  <1>3. job \in Jobs /\ job # NoJob /\ Sent(s)
    BY HeadIs
  <1>4. job.header = HeaderOf(Content[job.issue], xnonce1) /\ job.space = NonceSpaceOf(job.header)
    BY <1>3 DEF Inv, JobInv
  <1>5. Content[job.issue] \in Messages
    BY <1>3, MessageAssumption DEF Jobs
  <1>6. job.header \in Array(140)
    BY <1>3 DEF Jobs, HeaderBytes
  <1> DEFINE sol == Spliced(job, s)
             sn == SubmitNonce(job, xnonce1, s)
             h == job.header
             n == Len(xnonce1)
             f == [p \in 0 .. 31 |-> IF p < n THEN xnonce1[p + 1] ELSE sn[p - n]]
  <1>7. sent'.solution = sol /\ sent'.nonce = sn
    BY <1>1
  <1>8. tail' = [i \in 0 .. 14 |-> sol[1329 + i]]
    BY <1>7 DEF Slice, NonceSpaceOffset, NonceSpaceBytes
  <1>9. nonce' = f
    BY <1>2, <1>7 DEF NonceField
  <1>10. n \in Nat /\ k = (IF n > 31 THEN 31 ELSE n)
    BY <1>2 DEF PrefixLen
  <1>11. k <= 12
    BY <1>2
  <1>12. \A i \in 0 .. k - 1 : Prefix(xnonce1)[i] = xnonce1[i + 1]
    BY <1>2, PrefixIs
  <1>13. Part(h, 108, 107 + k, Prefix(xnonce1), 108)
    BY <1>2, <1>4, <1>5, HeaderIs
  <1>14. Behind(sn, k, h, s)
    BY <1>2, <1>3, SubmitNonceIs
  <1>15. /\ \A i \in 0 .. 6 : sol[1329 + i] = job.space[i]
         /\ \A i \in 7 .. 10 : sol[1329 + i] = s.tag[i - 7]
         /\ \A i \in 11 .. 14 : sol[1329 + i] = s.nonce[i - 11]
    BY <1>3, SplicedIs
  <1>16. \A i \in 0 .. 6 : job.space[i] = h[108 + i]
    BY <1>4, <1>6, SpaceIs
  <1> HIDE DEF s, k, tail, nonce, sol, sn, h, n
  <1>17. k \in Nat /\ n = k
    BY <1>10, <1>11
  <1>18. ASSUME NEW i \in 0 .. 6 PROVE f[i] = h[108 + i]
    <2>1. CASE i < k
      <3>1. f[i] = xnonce1[i + 1]
        BY <1>17, <2>1
      <3>2. i \in 0 .. k - 1 /\ 108 + i \in 108 .. 107 + k /\ (108 + i) - 108 = i
        BY <1>17, <2>1
      <3>3. h[108 + i] = Prefix(xnonce1)[(108 + i) - 108]
        BY <3>2, <1>13 DEF Part, Moved
      <3> QED
        BY <3>1, <3>2, <3>3, <1>12
    <2>2. CASE i >= k
      <3>1. f[i] = sn[i - k]
        BY <1>17, <2>2
      <3>2. i \in k .. 11
        BY <1>17, <2>2
      <3> QED
        BY <3>1, <3>2, <1>14 DEF Behind
    <2> QED
      BY <1>17, <2>1, <2>2
  <1>19. ASSUME NEW i \in 0 .. 3 PROVE f[20 + i] = s.tag[i]
    <2>1. f[20 + i] = sn[(20 + i) - k]
      BY <1>11, <1>17
    <2>2. 20 + i \in 20 .. 23 /\ 20 + i >= k /\ (20 + i) - 20 = i
      BY <1>11, <1>17
    <2>3. sn[(20 + i) - k] = s.tag[(20 + i) - 20]
      BY <2>2, <1>14 DEF Behind
    <2> QED
      BY <2>1, <2>2, <2>3
  <1>20. ASSUME NEW i \in 0 .. 3 PROVE f[12 + i] = s.nonce[i]
    <2>1. f[12 + i] = sn[(12 + i) - k]
      BY <1>11, <1>17
    <2>2. 12 + i \in 12 .. 15 /\ 12 + i >= k /\ (12 + i) - 12 = i
      BY <1>11, <1>17
    <2>3. sn[(12 + i) - k] = s.nonce[(12 + i) - 12]
      BY <2>2, <1>14 DEF Behind
    <2> QED
      BY <2>1, <2>2, <2>3
  <1> DEFINE g == [i \in 0 .. 14 |-> sol[1329 + i]]
  <1>21. ASSUME NEW i \in 0 .. 6 PROVE g[0 + i] = f[0 + i]
    <2>1. 0 + i = i /\ i \in 0 .. 14
      OBVIOUS
    <2>2. g[i] = sol[1329 + i]
      BY <2>1
    <2> HIDE DEF g, f
    <2> QED
      BY <2>1, <2>2, <1>15, <1>16, <1>18
  <1>22. ASSUME NEW i \in 0 .. 3 PROVE g[7 + i] = f[20 + i]
    <2>1. 7 + i \in 7 .. 10 /\ 7 + i \in 0 .. 14 /\ (7 + i) - 7 = i
      OBVIOUS
    <2>2. g[7 + i] = sol[1329 + (7 + i)]
      BY <2>1
    <2>3. sol[1329 + (7 + i)] = s.tag[(7 + i) - 7]
      BY <2>1, <1>15
    <2> HIDE DEF g, f
    <2> QED
      BY <2>1, <2>2, <2>3, <1>19
  <1>23. ASSUME NEW i \in 0 .. 3 PROVE g[11 + i] = f[12 + i]
    <2>1. 11 + i \in 11 .. 14 /\ 11 + i \in 0 .. 14 /\ (11 + i) - 11 = i
      OBVIOUS
    <2>2. g[11 + i] = sol[1329 + (11 + i)]
      BY <2>1
    <2>3. sol[1329 + (11 + i)] = s.nonce[(11 + i) - 11]
      BY <2>1, <1>15
    <2> HIDE DEF g, f
    <2> QED
      BY <2>1, <2>2, <2>3, <1>20
  <1>24. tail' = g
    BY <1>8
  <1> HIDE DEF f, g
  <1>25. Slice(g, 0, 7) = Slice(f, 0, 7)
    BY <1>21 DEF Slice
  <1>26. Slice(g, 7, 4) = Slice(f, 20, 4)
    BY <1>22 DEF Slice
  <1>27. Slice(g, 11, 4) = Slice(f, 12, 4)
    BY <1>23 DEF Slice
  <1> QED
    BY <1>9, <1>24, <1>25, <1>26, <1>27

LEMMA MetWave == \A w \in Workers : Inv /\ WorkerWave(w) => SubmittedIffMet'
  <1> SUFFICES ASSUME NEW w \in Workers, Inv, WorkerWave(w) PROVE SubmittedIffMet'
    OBVIOUS
  <1>1. PICK hash \in Hashes :
          last' = [hash |-> hash, spelled |-> held[w].spelled,
                   submitted |-> IsShare(Words(hash.fast), held[w].target)]
    BY DEF WorkerWave
  <1>2. held[w] # None /\ held[w] \in Works
    BY DEF WorkerWave, Inv, TypeOK
  <1>3. held[w].target = TargetFromHex(held[w].spelled)
    BY <1>2 DEF Inv, HeldInv
  <1>4. held[w].spelled \in Array(32) /\ hash.fast \in Array(32)
    BY <1>2, Numbers DEF Works
  <1>5. IsShare(Words(hash.fast), held[w].target) <=> AtMost(hash.fast, held[w].spelled)
    BY <1>3, <1>4, CompareIs
  <1>6. last'.submitted <=> AtMost(last'.hash.fast, last'.spelled)
    BY <1>1, <1>5
  <1> QED
    BY <1>6 DEF SubmittedIffMet

LEMMA InForceSend == Inv /\ SendShare => MeasuredInForce'
  <1> SUFFICES ASSUME Inv, SendShare PROVE sent'.share.spelled \in inForce'
    BY DEF MeasuredInForce
  <1>1. sent'.share = Head(outbox) /\ inForce' = inForce
    BY DEF SendShare, Submission
  <1> QED
    BY <1>1, HeadIs

\* Every other step says nothing was mined, and nothing sent.
LEMMA OtherSteps ==
    ASSUME Inv, [Next]_vars
    PROVE  /\ SendShare \/ sent' = None \/ UNCHANGED vars
           /\ last' = None \/ (\E w \in Workers : WorkerWave(w)) \/ UNCHANGED vars
  BY DEF Next, Connection, Worker, ResetSession, SubscribeReply, HandleNotify,
         HandleSetTarget, DropStale, SendShare, WorkerFetches, WorkerWave, Quiet

\* For every job with a descriptor, extranonce, tag and nonce: the buffer the pool
\* fills from the submission is the one the worker hashed.
THEOREM RebuiltHolds == Spec => []RebuiltIsMined
  <1>1. Init => RebuiltIsMined
    BY DEF Init, RebuiltIsMined
  <1>2. Inv /\ RebuiltIsMined /\ [Next]_vars => RebuiltIsMined'
    <2> SUFFICES ASSUME Inv, RebuiltIsMined, [Next]_vars PROVE RebuiltIsMined'
      OBVIOUS
    <2>1. CASE SendShare
      BY <2>1, RebuiltSend
    <2>2. CASE sent' = None
      BY <2>2 DEF RebuiltIsMined
    <2>3. CASE UNCHANGED vars
      BY <2>3 DEF RebuiltIsMined, Rebuilt, vars
    <2> QED
      BY <2>1, <2>2, <2>3, OtherSteps
  <1> QED
    BY <1>1, <1>2, InvHolds, PTL DEF Spec

\* The nonce space of the solution and the nonce field agree, for every
\* extranonce that ends before the word of the nonce.
THEOREM TailHolds == Spec => []TailIsNonce
  <1>1. Init => TailIsNonce
    BY DEF Init, TailIsNonce
  <1>2. Inv /\ TailIsNonce /\ [Next]_vars => TailIsNonce'
    <2> SUFFICES ASSUME Inv, TailIsNonce, [Next]_vars PROVE TailIsNonce'
      OBVIOUS
    <2>1. CASE SendShare
      BY <2>1, TailSend
    <2>2. CASE sent' = None
      BY <2>2 DEF TailIsNonce
    <2>3. CASE UNCHANGED vars
      BY <2>3 DEF TailIsNonce, NonceField, vars
    <2> QED
      BY <2>1, <2>2, <2>3, OtherSteps
  <1> QED
    BY <1>1, <1>2, InvHolds, PTL DEF Spec

\* For every digest the mining path may give and every target: a lane is submitted
\* just when the number is at most the target set last when the worker fetched.
THEOREM MetHolds == Spec => []SubmittedIffMet
  <1>1. Init => SubmittedIffMet
    BY DEF Init, SubmittedIffMet
  <1>2. Inv /\ SubmittedIffMet /\ [Next]_vars => SubmittedIffMet'
    <2> SUFFICES ASSUME Inv, SubmittedIffMet, [Next]_vars PROVE SubmittedIffMet'
      OBVIOUS
    <2>1. CASE \E w \in Workers : WorkerWave(w)
      BY <2>1, MetWave
    <2>2. CASE last' = None
      BY <2>2 DEF SubmittedIffMet
    <2>3. CASE UNCHANGED vars
      BY <2>3 DEF SubmittedIffMet, vars
    <2> QED
      BY <2>1, <2>2, <2>3, OtherSteps
  <1> QED
    BY <1>1, <1>2, InvHolds, PTL DEF Spec

\* A share that is sent was measured by a target in force since the pool issued the
\* job it is for, however targets, jobs, sessions and workers interleave.
THEOREM InForceHolds == Spec => []MeasuredInForce
  <1>1. Init => MeasuredInForce
    BY DEF Init, MeasuredInForce
  <1>2. Inv /\ MeasuredInForce /\ [Next]_vars => MeasuredInForce'
    <2> SUFFICES ASSUME Inv, MeasuredInForce, [Next]_vars PROVE MeasuredInForce'
      OBVIOUS
    <2>1. CASE SendShare
      BY <2>1, InForceSend
    <2>2. CASE sent' = None
      BY <2>2 DEF MeasuredInForce
    <2>3. CASE UNCHANGED vars
      BY <2>3 DEF MeasuredInForce, vars
    <2> QED
      BY <2>1, <2>2, <2>3, OtherSteps
  <1> QED
    BY <1>1, <1>2, InvHolds, PTL DEF Spec
=============================================================================

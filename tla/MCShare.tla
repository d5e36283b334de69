------------------------------ MODULE MCShare ------------------------------
(***************************************************************************)
(* Two jobs that differ in every byte the code does not look into, one with *)
(* a descriptor and one without.  Every byte is under 128, so that a word   *)
(* stays in TLC's integers.                                                 *)
(***************************************************************************)
EXTENDS Share

\* The fields of a message are numbered through, modulo a prime.
Filled(n, seed) == [i \in 0 .. n - 1 |-> ((seed + 37 * i) % 113) + 1]

Message(seed, descriptor) ==
    [version |-> Filled(4, seed), prevhash |-> Filled(32, seed + 5),
     merkle |-> Filled(32, seed + 11), reserved |-> Filled(32, seed + 17),
     time |-> Filled(4, seed + 23), bits |-> Filled(4, seed + 29),
     solution |-> [i \in 0 .. SolutionBytes - 1 |->
         IF i = 0 THEN 7 ELSE IF i = 5 THEN descriptor
         ELSE ((seed + 37 * i) % 113) + 1]]

TwoIssues == {"merged", "plain"}
TwoContents == [issue \in TwoIssues |->
    IF issue = "merged" THEN Message(3, 1) ELSE Message(50, 0)]

\* As short as pools issue it, up to the word of the nonce, and over the cap.
ThreeXnonces ==
    {[i \in 1 .. n |-> ((n + 7 * i) % 113) + 1] : n \in {4, 12, 32}}
TwoWorkers == {1, 2}
WorkerTags == [w \in TwoWorkers |-> Filled(4, 60 * w)]
OneNonce == {Filled(4, 90)}

\* Numbers that differ in one place or in two: next to the top, next to a word's
\* boundary, at the bottom.
AtPlaces(high, low) ==
    [p \in 0 .. 31 |-> IF p = 29 THEN high ELSE IF p \in {0, 27} THEN low ELSE 0]
SomeDigests == {AtPlaces(0, 2), AtPlaces(1, 2)}

\* The multiplies agree, or they do not: the mining path is under every target, or
\* over every target, where the exact hash is not.
SomeHashes == {[fast |-> d, exact |-> d] : d \in SomeDigests}
              \cup {[fast |-> AtPlaces(0, 0), exact |-> AtPlaces(1, 2)],
                    [fast |-> [AtPlaces(1, 0) EXCEPT ![28] = 1], exact |-> AtPlaces(0, 0)]}
SomeTargets == {[p \in 0 .. 31 |-> AtPlaces(1, 0)[31 - p]], [p \in 0 .. 31 |-> AtPlaces(0, 2)[31 - p]]}
=============================================================================

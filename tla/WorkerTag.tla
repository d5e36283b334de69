------------------------------ MODULE WorkerTag ------------------------------
(***************************************************************************)
(* The tag by which a worker keeps its nonces apart from those of every    *)
(* other worker (Engine::loop of ui/vh22top.cpp): 32 bits,                 *)
(*                                                                         *)
(*     (uint32_t)(idx * 0x9E3779B1u) ^ (uint32_t)(now_s() * 1000.0)        *)
(*                                                                         *)
(* of the thread's index and of the milliseconds its own look at the clock *)
(* gave.  Nobody hands tags out, and the exclusive or loses which part     *)
(* came from where, so nothing but the numbers keeps two tags apart.       *)
(*                                                                         *)
(* Two workers draw their tags here bit by bit from the top, at any two    *)
(* readings of the clock that end up near each other; of the 2^64 pairs a  *)
(* draw keeps how far apart the readings are so far and whether the tags   *)
(* agree.                                                                  *)
(***************************************************************************)
EXTENDS Integers

CONSTANTS
    MaxThreads,     \* worker threads at most (ncpu)
    Window          \* milliseconds between the two readings, at most

ASSUME TagAssumption == MaxThreads \in 1..(2^15) /\ Window \in 0..(2^30 - 1)

TagWidth == 32
Indices  == 0..(MaxThreads - 1)

----------------------------------------------------------------------------
(* The tag *)

(* 0x9E3779B1, in halves: TLC's integers have no room for the product. *)
UpperHalf == 40503
LowerHalf == 31153

(* Mutant: the index goes into the tag as it is. *)
PlainBit(i, k) == IF k < 16 THEN (i \div 2^k) % 2 ELSE 0

(* Bit k of the low 32 bits of i * 0x9E3779B1. *)
ProductBit(i, k) ==
    IF k < 16
    THEN ((i * LowerHalf) \div 2^k) % 2
    ELSE ((i * UpperHalf + (i * LowerHalf) \div 2^16) \div 2^(k - 16)) % 2

(* Bit k of the tag of worker i, where its reading has the bit x. *)
TagBit(i, k, x) == (ProductBit(i, k) + x) % 2

----------------------------------------------------------------------------
(* Two workers draw their tags *)

(* A draw: two workers, of one start of the engine or of two; the bits of      *)
(* their readings that are still open, the second reading less the first as    *)
(* far as they are known, and whether the tags agree so far.                   *)
Draws ==
    [kernel : {"tag"}, one : Indices, two : Indices,
     open : 0..TagWidth, apart : Int, same : BOOLEAN]

StartDraw(i, j) ==
    [kernel |-> "tag", one |-> i, two |-> j, open |-> TagWidth, apart |-> 0, same |-> TRUE]

(* Readings this far apart with k bits open can still end up in the window. *)
CanMeet(d, k) == k < TagWidth - 1 => d \in -(Window \div 2^k + 1)..(Window \div 2^k + 1)

(* The draw with one bit more of both readings. *)
DrawBit(t, x, y) ==
    [kernel |-> "tag", one |-> t.one, two |-> t.two,
     open  |-> t.open - 1,
     apart |-> 2 * t.apart + (y - x),
     same  |-> TagBit(t.one, t.open - 1, x) = TagBit(t.two, t.open - 1, y)]
=============================================================================

------------------------------ MODULE Kernels ------------------------------
(***************************************************************************)
(* The hash engine's pure kernels, called one at a time on any of the      *)
(* inputs of a run and compared with the reference implementation's, and    *)
(* the tag of a worker, drawn by two.  "call" is the kernel last called and  *)
(* its input, or how far the draw is.                                        *)
(***************************************************************************)
EXTENDS RefBodies, Haraka, LaneArithmetic, WorkerTag

CONSTANTS
    Calls,      \* the selectors the step kernel is called with
    Accs,       \* the accumulators
    TheKey,     \* a key, a function on Slots
    TheBuf,     \* the four vectors of a hash's working buffer
    Half,       \* half the range of a signed lane
    Lanes,      \* the lanes the rounding multiply is called with
    Polynomials \* the inputs of the reduction

ASSUME KernelAssumption ==
    /\ Calls \subseteq Selectors
    /\ TheKey = [i \in Slots |-> TheKey[i]]
    /\ Half \in Nat /\ Half % 2 = 0 /\ Half > 0
    /\ Lanes \subseteq Lane(Half)
    /\ Polynomials \subseteq SUBSET (0 .. 127)

VARIABLE call

Idle == [kernel |-> "none"]

Init == call = Idle

CallStep ==
    \E exact \in BOOLEAN, s \in Calls, a \in Accs :
        call' = [kernel |-> "step", exact |-> exact, s |-> s, acc |-> a]
CallHaraka ==
    \E at \in 0 .. Mutable - 1 : call' = [kernel |-> "haraka", at |-> at]
CallMulhrs ==
    \E a, b \in Lanes : call' = [kernel |-> "mulhrs", a |-> a, b |-> b]
CallReduce ==
    \E A \in Polynomials : call' = [kernel |-> "reduce", A |-> A]

CallTag ==
    \E i, j \in Indices : call' = StartDraw(i, j)

\* One bit more of both tags; tags that differ go on differing.
DrawTags ==
    /\ call.kernel = "tag" /\ call.open > 0 /\ call.same
    /\ \E x, y \in {0, 1} :
           /\ call' = DrawBit(call, x, y)
           /\ CanMeet(call'.apart, call'.open)

Return == call # Idle /\ call' = Idle

Next ==
    \/ call = Idle /\ CallStep
    \/ call = Idle /\ CallHaraka
    \/ call = Idle /\ CallMulhrs
    \/ call = Idle /\ CallReduce
    \/ call = Idle /\ CallTag
    \/ DrawTags
    \/ Return

Spec == Init /\ [][Next]_call

EngineResult == Body(call.exact, call.s.case, call.s, StepConst(TheBuf), call.acc, TheKey)
ReferenceResult == RefStep(call.exact, call.s, PbufCopy(TheBuf), call.acc, TheKey)

\* An engine body leaves the accumulator and the key that the reference's
\* step leaves, for every selector: the branchless case 3 stores in one order
\* for both sides even when both slots are one, the mask walks of case 5 read
\* the key vectors the counted loop reads, and the straight line of case 6
\* takes each branch's buffer and divisor.
BodiesAgree == call.kernel = "step" => EngineResult = ReferenceResult

\* A step writes no slot of the key but the two it journals.
OnlyJournalledSlots ==
    call.kernel = "step" =>
        LET left == EngineResult.key
        IN  \A i \in Slots : left[i] # TheKey[i] => i \in {call.s.prand, call.s.prandex}

\* Haraka256 with its round keys absorbed a group ahead is the plain one.
AbsorbedHarakaAgrees ==
    call.kernel = "haraka" =>
        Haraka256(<<TheBuf[1], TheBuf[2]>>, TheKey) = RefHaraka256(<<TheBuf[1], TheBuf[2]>>, TheKey)

\* The keyed Haraka512 is the plain one, and the pre-filter's word, computed
\* from one lane of the last group, is the last word of that digest.
PreFilterAgrees ==
    call.kernel = "haraka" =>
        LET reference == RefHarakaKeyed(TheBuf, TheKey, call.at)
        IN  /\ HarakaKeyed(TheBuf, TheKey, call.at) = reference
            /\ HighWord(TheBuf, TheKey, call.at) = reference[2][4]

\* The verifying multiply is the reference's; the mining one differs from it
\* only where both lanes are the least value.
MulhrsAgrees ==
    call.kernel = "mulhrs" =>
        LET ref == RefMulhrs(Half, call.a, call.b)
        IN  /\ MulhrsExact(Half, call.a, call.b) = ref
            /\ MulhrsFast(Half, call.a, call.b) # ref =>
                 call.a = -Half /\ call.b = -Half

\* Long division of A by x^64 + x^4 + x^3 + x + 1: round n takes away a
\* multiple of the divisor where the term 128 - n is left.
Remainder(A) ==
    LET r[n \in 0 .. 64] ==
          IF n = 0 THEN A
          ELSE LET was == r[n - 1]
               IN  IF 128 - n \in was
                   THEN Sum(was, {128 - n} \cup {e + 64 - n : e \in Tail})
                   ELSE was
    IN  r[64]

\* Both table reductions are the remainder: no byte of the shuffle's index
\* leaves the sixteen entries of the table, so neither the defensive mask nor
\* the bytes above the first matter.
ReductionIsRemainder ==
    call.kernel = "reduce" =>
        /\ ~IndexOverflows(call.A)
        /\ Reduction(call.A) = Remainder(call.A)
        /\ RefReduction(call.A) = Remainder(call.A)

\* Two workers whose clocks read within the window of each other, be they of
\* one start of the engine or of two, have different tags; one tag within the
\* window is one worker's, at one millisecond.
TagsApart ==
    call.kernel = "tag" /\ call.open = 0 /\ call.same /\ call.apart \in -Window..Window =>
        call.one = call.two /\ call.apart = 0

TypeOK ==
    \/ call = Idle
    \/ \E exact \in BOOLEAN, s \in Calls, a \in Accs :
           call = [kernel |-> "step", exact |-> exact, s |-> s, acc |-> a]
    \/ \E at \in 0 .. Mutable - 1 : call = [kernel |-> "haraka", at |-> at]
    \/ \E a, b \in Lanes : call = [kernel |-> "mulhrs", a |-> a, b |-> b]
    \/ \E A \in Polynomials : call = [kernel |-> "reduce", A |-> A]
    \/ call \in Draws
=============================================================================

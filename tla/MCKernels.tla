----------------------------- MODULE MCKernels -----------------------------
(***************************************************************************)
(* The kernels over one scattered key and buffer, with the selectors that   *)
(* take every branch.                                                        *)
(***************************************************************************)
EXTENDS Kernels, Scatter

FreeKey == [i \in Slots |-> Number(i)]
FreeBuf == <<Number(Mutable + 41), Number(Mutable + 42), Number(Mutable + 43), Number(Mutable + 44)>>
SomeAcc == Number(Mutable + 45)
FreeAccs == {SomeAcc, Xor(SomeAcc, FromWord({0}))}

\* Straight bodies: every base, with two slots and with one slot twice.
StraightCalls ==
    [base : 0 .. 3, case : {0, 1, 2, 3, 4, 7}, prand : {1, Mutable - 1},
     prandex : {0, 1}, nibble : {0}, rounds : {0}, low : {{2, 3, 9}}]
\* Loops of up to four iterations with every pattern of branches, and the
\* longest loop, at the end of the mutable part, with both branches mixed.
LoopCalls ==
    {s \in [base : {0, 3}, case : {5, 6}, prand : {1}, prandex : {1, 2},
            nibble : 0 .. 15, rounds : 0 .. 3, low : {{2, 3, 9}}] : s.nibble < 2^(s.rounds + 1)}
LongCalls ==
    [base : {0}, case : {5, 6}, prand : {Mutable - 1}, prandex : {6, 8},
     nibble : {5}, rounds : {5, 7}, low : {{2, 3, 9}}]
StepCalls == StraightCalls \cup LoopCalls \cup LongCalls
SmallLanes == -8 .. 7
TwoTerms == {{d, e} : d \in 60 .. 127, e \in {0, 63, 64, 100, 123, 124, 125, 126, 127}}
=============================================================================

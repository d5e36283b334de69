------------------------------ MODULE MCHasher ------------------------------
(***************************************************************************)
(* A buffer packs its head as it is and scatters the other parts.            *)
(***************************************************************************)
EXTENDS Hasher, Scatter

TermConstants == [i \in 0 .. 39 |-> Number(i)]
PackTerm(buf) ==
    <<buf.head[1], buf.head[2], Number(60 + 7 * buf.space + buf.nonce), Number(100 + (buf.fill % 4000))>>
HeadFillTerm(head) == VectorHash(head[1])
TailFillTerm(im) == VectorHash(im)
ReduceTerm(v) == Spread(VectorHash(v))
LengthTerm == FromWord({16})
ExceedsTerm(w, limit) == WordHash(w) % 4 > limit
TwoTemplates ==
    {[head |-> <<Number(41), Number(42)>>, space |-> 1],
     [head |-> <<Number(43), Number(44)>>, space |-> 2]}
=============================================================================

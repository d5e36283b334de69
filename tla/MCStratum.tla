----------------------------- MODULE MCStratum -----------------------------
(***************************************************************************)
(* Model checking Stratum.  The miners are interchangeable, and so are the *)
(* extranonces: neither is named by the specification or by a property.    *)
(***************************************************************************)
EXTENDS Stratum, TLC

Symmetry == Permutations(Workers) \cup Permutations(Extranonces)
============================================================================

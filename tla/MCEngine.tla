------------------------------ MODULE MCEngine ------------------------------
(* Model checking Engine: the .cfg files give the constants. *)
EXTENDS Engine
=============================================================================

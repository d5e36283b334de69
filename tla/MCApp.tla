------------------------------- MODULE MCApp -------------------------------
(* Model checking App: a first run knows two pools. *)
EXTENDS App

CONSTANTS a, b

TwoPresets == <<a, b>>
=============================================================================

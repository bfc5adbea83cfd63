------------------------------ MODULE MCCutTail ------------------------------
(* Instances of CutTail for TLC. *)
EXTENDS CutTail, TLC

CONSTANTS a, b
=============================================================================

---------------------------- MODULE MCConditionV ----------------------------
(* A three-bit counter: -4..3, so that every run wraps around many times. *)
EXTENDS ConditionV

MCIntMax == 3
=============================================================================

------------------------------ MODULE MCArray -------------------------------
(* Instances of YmdArray for TLC. *)
EXTENDS YmdArray
=============================================================================

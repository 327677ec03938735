------------------------------- MODULE MCCode -------------------------------
(* Instances of YmdCode for TLC. *)
EXTENDS YmdCode

\* What the generator makes of a program once it has slipped is of no interest.
Clean == slips = {}

\* A break stands in a loop of its own function.
InOwnLoops == "outer" \notin slips
=============================================================================

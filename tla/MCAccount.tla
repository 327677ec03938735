----------------------------- MODULE MCAccount ------------------------------
(* Instances of YmdAccount for TLC. *)
EXTENDS YmdAccount, TLC

CONSTANTS f1, f2, f3, c1, c2

\* Two items to a step of every array.
Aligns == [a \in {"inst", "line", "kval", "lz"} |-> 2]

Symm == Permutations({f1, f2, f3}) \cup Permutations({c1, c2})
=============================================================================

----------------------------- MODULE MCHashMap ------------------------------
(* Instances of YmdHashMap for TLC. *)
EXTENDS YmdHashMap, TLC

Symm == Permutations(Settled) \cup Permutations(Val)

\* Bounds the runs: a container has one of two hashes, and no loop is followed in the
\* greatest array.
Small ==
    /\ \A k \in Mutable : hash[k] # 3
    /\ Looping /\ iter.live => size < MaxSize
=============================================================================

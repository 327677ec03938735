------------------------------- MODULE MCHeap -------------------------------
(* Instances of YmdHeap for TLC. *)
EXTENDS YmdHeap, TLC, FiniteSets

\* Once a program has relied on an unprotected object its behaviour is undefined,
\* and nothing more is claimed of it.
Defined == ~exposed

\* With four objects: at most a function and its clone, and at most MaxRefs
\* references, or one more with a clone.
CONSTANT MaxRefs
Functions == Cardinality({o \in Obj : cell[o] = "func"})
Small ==
    /\ Defined
    /\ Functions <= 2
    /\ Cardinality(UNION {{o} \X kids[o] : o \in Obj})
          <= MaxRefs + (IF Functions = 2 THEN 1 ELSE 0)

Symm == Permutations(Obj \ {Global}) \cup Permutations(Text)

=============================================================================

------------------------------- MODULE YmdMap -------------------------------
(***************************************************************************)
(* What a map or a list of the machine promises the script: a finite       *)
(* function from keys to values.  A key that was never put reads as nil    *)
(* (knil, value.c), and no key is ever removed.                            *)
(***************************************************************************)
CONSTANTS Key, Val, Nil

VARIABLE dict   \* the value a get of each key returns

Init == dict = [k \in Key |-> Nil]

Put(k, v) == dict' = [dict EXCEPT ![k] = v]

Next == \E k \in Key, v \in Val : Put(k, v)

Spec == Init /\ [][Next]_dict
=============================================================================

------------------------------- MODULE YmdList -------------------------------
(***************************************************************************)
(* What an array promises: a sequence of values that grows at its end or   *)
(* in its middle, is overwritten in place, and is emptied as a whole.      *)
(***************************************************************************)
EXTENDS Naturals, Sequences, SequencesExt

CONSTANTS Val, Nil

VARIABLE list

Init == list = <<>>

Append1(v) == list' = Append(list, v)

Insert(i, v) == i \in DOMAIN list /\ list' = InsertAt(list, i, v)

Set(i, v) == i \in DOMAIN list /\ list' = [list EXCEPT ![i] = v]

Clear == list' = <<>>

Next ==
    \/ \E v \in Val \cup {Nil} : Append1(v)
    \/ \E i \in DOMAIN list, v \in Val : Insert(i, v) \/ Set(i, v)
    \/ Clear

Spec == Init /\ [][Next]_list
=============================================================================

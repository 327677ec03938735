---------------------------- MODULE MCSkipList ------------------------------
(* Instances of YmdSkipList for TLC. *)
EXTENDS YmdSkipList, YmdValue, TLC

CONSTANTS p, q, a, b, m, v, w

Number(i) == [tt |-> T_INT, i |-> i]
Text == [tt |-> T_KSTR, z |-> <<1>>]
Array(s) == [tt |-> T_DYAY, kids |-> s]
List(s) == [tt |-> T_SKLS, kids |-> s]
AMap == [tt |-> T_HMAP, size |-> 2, kids |-> <<<<Text, Number(1)>>>>]

\* Two pointers, two arrays of which one begins like the other, and a list that is empty
\* or has a map in it.
Values ==
    p :> {[tt |-> T_EXT, p |-> p]} @@ q :> {[tt |-> T_EXT, p |-> q]}
    @@ a :> {Array(<<Text>>)} @@ b :> {Array(<<Text, Number(0)>>)}
    @@ m :> {List(<<>>), List(<<<<Number(1), AMap>>>>)}

AllValues == UNION {Values[k] : k \in Key}
LessPairs == {d \in AllValues \X AllValues : compare(d[1], d[2]) < 0}
SamePairs == {d \in AllValues \X AllValues : equals(d[1], d[2])}

Symm == Permutations({v, w}) \cup Permutations({p, q})
=============================================================================

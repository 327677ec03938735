------------------------------ MODULE MCPickle -------------------------------
(* Instances of YmdPickle for TLC. *)
EXTENDS YmdPickle

CONSTANTS a, b

SomeKeys == {[tt |-> T_INT, i |-> -1], [tt |-> T_KSTR, z |-> <<3, 1, 0>>]}

OneOfEach == a :> T_DYAY @@ b :> T_HMAP

\* Numbers of one, two and three bytes, the least among them; the booleans; a string
\* that fits the buffer once it has doubled and one that never does; a function with the
\* array among its bound variables, one of C, and a value that cannot be dumped.
Leaves ==
    {[tt |-> T_NIL], [tt |-> T_EXT]}
    \cup {[tt |-> T_INT, i |-> i] : i \in {-16, -1, 6, 14}}
    \cup {[tt |-> T_BOOL, b |-> b01] : b01 \in {0, 1}}
    \cup {[tt |-> T_KSTR, z |-> <<3, 1, 0>>], [tt |-> T_KSTR, z |-> [j \in 1 .. 7 |-> 1]]}
    \cup
    {[tt |-> T_FUNC, is_c |-> TRUE],
     [tt |-> T_FUNC, is_c |-> FALSE, proto |-> <<1>>, bind |-> <<[tt |-> T_DYAY, ref |-> a]>>,
      inst |-> <<2>>, line |-> <<1>>, kval |-> <<>>, lz |-> <<>>, file |-> <<>>,
      kargs |-> 0]}

\* A load and a text change neither containers nor marks: what may follow them may also
\* follow what was before them.
Continued == res.op \notin {"load", "show"}
=============================================================================

------------------------------- MODULE MCCall -------------------------------
(* Instances of YmdCall for TLC. *)
EXTENDS YmdCall, TLC, FiniteSets

CONSTANT script

Params == (script :> 1)
Variables == (script :> 2)

\* Bounds of the runs: script is active at most twice and is the only callable kept in
\* a local; a function has at most MaxOperands operands pending; MaxArgv bounds
\* what the argument arrays hold together; the host makes no further call once a
\* failed one has left arguments in an array.
CONSTANT MaxOperands
Small ==
    /\ Cardinality({i \in DOMAIN frames : frames[i].fn = script}) <= 2
    /\ \A i \in DOMAIN loc : loc[i] \notin {PCall, Error}
    /\ \A i \in DOMAIN frames : frames[i].depth <= MaxOperands
    /\ frames = <<>> => mixed = {}
    /\ Len(argv[script]) + Len(argv[PCall]) + Len(argv[Error]) <= MaxArgv
=============================================================================

------------------------------- MODULE MCTest --------------------------------
(* Instances of YmdTest for TLC. *)
EXTENDS YmdTest

\* A list with a test and every other function the harness calls, one with a key that is no string, and
\* a value that is no list.
Samples ==
    {[type |-> "skls", tests |-> {2}, odd |-> FALSE, has |-> {"init", "setup", "teardown", "final"}],
     [type |-> "skls", tests |-> {1}, odd |-> TRUE, has |-> {}],
     [type |-> "other", tests |-> {}, odd |-> FALSE, has |-> {}]}
=============================================================================

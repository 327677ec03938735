------------------------------- MODULE MCLex ---------------------------------
(* Instances of YmdLex for TLC. *)
EXTENDS YmdLex

Every == Letter \cup Digit \cup TermChar \cup PrexChar \cup Space \cup Alone \cup {MinusOne}
=============================================================================

------------------------------- MODULE YmdTest -------------------------------
(***************************************************************************)
(* `ymd --test': the main script and what it imports (libx_import, libc.c) *)
(* runs, then the functions of every global whose name has "Test" in it    *)
(* are called as test cases (libtest.c).                                   *)
(*                                                                         *)
(* A script may do anything at any time: each step of one is chosen among  *)
(* all it can do that matters here.  An error goes to a pcall anywhere on  *)
(* the way out, a panic past them all to the xcall of the harness.  A      *)
(* failed assertion of the library `Assert' jumps to where yut_test has    *)
(* called setjmp.                                                          *)
(*                                                                         *)
(* The harness keeps raw pointers across the calls: kend, the end of the   *)
(* table of globals as it was before the main script; i and test, into the *)
(* table; setup and the other functions, and the node of the test it is    *)
(* at.  `shifted' and `loose' say when they are not what they were.        *)
(*                                                                         *)
(* ReachedNever, GoesOnWhenRaised, SetJumpLate and AfterNext are faulty    *)
(* variants of the definition after each, for mutation tests; nothing else *)
(* uses them.                                                              *)
(***************************************************************************)
EXTENDS Integers, Sequences, SequencesExt, FiniteSetsExt

CONSTANTS
    File,       \* the files scripts import
    Suite,      \* the global names with "Test" in them
    Contents,   \* values for them: a type, tests, other methods, is there a key that
                \* is no string?
    Test,       \* test names, numbered in their order
    Rooms,      \* free entries in the table of globals at first
    MaxCalls,   \* bound on the depth of calls
    None

Contained == [type : {"skls", "other"}, tests : SUBSET Test, odd : BOOLEAN,
              has : SUBSET {"init", "setup", "teardown", "final"}]

ASSUME TestAssumption ==
    /\ None \notin Suite \cup Contained /\ {"main", "other", "test"} \cap File = {}
    /\ Test \subseteq Nat \ {0} /\ Rooms \subseteq Nat
    /\ Contents \subseteq Contained

VARIABLES
    reached,    \* the keys of __reached__
    fate,       \* of the first import of each file: "none", "running", "over"
    calls,      \* the scripts and functions being run, the outermost first
    table,      \* the global of each name of Suite
    room,       \* free entries in the table
    shifted,    \* "moved": an entry has been evicted, "resized": the table is another
    step,       \* what the harness does, or waits for
    todo,       \* the suites from i to kend
    at, cur,    \* the suite being tested and its contents
    node,       \* the test the loop of yut_test is at, or 0
    loose,      \* may something the harness holds of this suite be gone?
    cookie,     \* the suite whose yut_test has called setjmp last
    log,        \* the methods called of this suite
    owed,       \* the tests the loop has had or has before it
    visited,    \* the globals of Suite ymd_test has looked at
    promised,   \* those there were when ymd_main had returned, None before
    raised,     \* has an assertion failed?
    result      \* of the program

importVars == <<reached, fate>>
tableVars == <<table, room, shifted>>
walkVars == <<step, todo, at, node, cookie, log, visited>>
suiteVars == <<cur, loose, owed>>
endVars == <<raised, result, promised>>
testVars == <<importVars, calls, tableVars, walkVars, suiteVars, endVars>>

Top == Last(calls)
Running == calls # <<>> /\ step \notin {"done", "stopped"}

\* What there may be under the name of a file, as ymd_compilef sees it.
OnDisk == {"absent", "empty", "bad", "good"}

\* Outcomes of the whole program.
Exits(r) == step' = "done" /\ result' = r
Stops == step' = "stopped" /\ UNCHANGED result

-----------------------------------------------------------------------------
(* What scripts do *)

\* The innermost n calls are gone; imports among them are over.
Unwound(n) ==
    LET gone == ToSet(SubSeq(calls, Len(calls) - n + 1, Len(calls)))
    IN /\ calls' = SubSeq(calls, 1, Len(calls) - n)
       /\ fate' = [f \in File |-> IF f \in gone THEN "over" ELSE fate[f]]

\* ymd_main gives up when its script fails; yut_call does not look at what ymd_xcall
\* returns.
Caught ==
    IF step = "main" THEN Exits(-1) ELSE UNCHANGED <<step, result>>

\* ymd_panic: out of every call, to ymd_main or ymd_xcall.
Panics(marked, fates) ==
    /\ calls' = <<>>
    /\ reached' = marked
    /\ fate' = [f \in File |-> IF f \in ToSet(calls) THEN "over" ELSE fates[f]]
    /\ Caught

Panic ==
    /\ Running
    /\ Panics(reached, fate)
    /\ UNCHANGED <<tableVars, todo, at, node, cookie, log, visited, suiteVars, raised, promised>>

\* ymd_error: out of n calls, the last of them called by pcall, or all of them.
Throw(n) ==
    /\ Running /\ n \in 1 .. Len(calls)
    /\ Unwound(n)
    /\ IF n = Len(calls) THEN Caught ELSE UNCHANGED <<step, result>>
    /\ UNCHANGED <<reached, tableVars, todo, at, node, cookie, log, visited, suiteVars,
                   raised, promised>>

Return ==
    /\ Running
    /\ calls' = Front(calls)
    /\ fate' = IF Top \in File THEN [fate EXCEPT ![Top] = "over"] ELSE fate
    /\ UNCHANGED <<reached, tableVars, walkVars, suiteVars, endVars>>

\* vm_reached: the file is marked before it is opened.
ReachedNever(f) == reached
Reached(f) == reached \cup {f}

\* libx_import of a file not marked (of a marked one it does nothing), whatever there is
\* now under its name.  The function called is what is on the top of the stack: the last
\* argument after the name if there is one, what the caller had there if the file is
\* empty; that may be a function or not.  A file that is not called will never be.
Import(f, content, args) ==
    /\ Running /\ f \notin reached /\ Len(calls) < MaxCalls
    /\ \/ /\ content = "good" /\ ~args
          /\ calls' = Append(calls, f)
          /\ reached' = Reached(f) /\ fate' = [fate EXCEPT ![f] = "running"]
          /\ UNCHANGED <<step, result>>
       \/ /\ content = "empty" \/ (content = "good" /\ args)
          /\ calls' = Append(calls, "other")
          /\ reached' = Reached(f) /\ fate' = [fate EXCEPT ![f] = "over"]
          /\ UNCHANGED <<step, result>>
       \/ /\ content # "good" \/ args
          /\ Panics(Reached(f), [fate EXCEPT ![f] = "over"])
    /\ UNCHANGED <<tableVars, todo, at, node, cookie, log, visited, suiteVars, raised,
                   promised>>

\* libx_eval of a text without syntax errors, or a call of any function.
Eval ==
    /\ Running /\ Len(calls) < MaxCalls
    /\ calls' = Append(calls, "other")
    /\ UNCHANGED <<importVars, tableVars, walkVars, suiteVars, endVars>>

-----------------------------------------------------------------------------
(* Globals and suites *)

\* A global of a new name: where it goes nobody knows.  An entry evicted for it may be
\* one the harness has passed or has not, or the one it is at.  Bound: the table is
\* resized once.
Placed(g) ==
    LET suites == {s \in Suite : table[s] # None} \cup ({g} \cap Suite)
    IN \/ /\ room > 0
          /\ room' = room - 1
          /\ \/ /\ step # "main"
                /\ todo' \in {todo, todo \cup ({g} \cap Suite)}
                /\ UNCHANGED <<shifted, loose>>
             \/ /\ step # "main"
                /\ shifted' = IF shifted = "no" THEN "moved" ELSE shifted
                /\ todo' \in SUBSET suites
                /\ loose' \in {loose, TRUE}
             \/ step = "main" /\ UNCHANGED <<todo, shifted, loose>>
       \/ /\ room = 0 /\ shifted # "resized"
          /\ room' = Max(Rooms)
          /\ shifted' = "resized" /\ loose' = (at # None)
          /\ UNCHANGED todo

\* A script binds a global; the suite the harness is at is then another's.
Define(g, c) ==
    /\ Running
    /\ table' = IF g \in Suite THEN [table EXCEPT ![g] = c] ELSE table
    /\ IF g \in Suite /\ table[g] # None
       THEN /\ loose' = (loose \/ g = at)
            /\ UNCHANGED <<room, shifted, todo>>
       ELSE Placed(g)
    /\ UNCHANGED <<importVars, calls, step, at, cur, node, cookie, log, owed, visited, endVars>>

\* A function of the suite puts a new test into it; the loop is over when final is called.
AddTest(t) ==
    /\ Running /\ at # None /\ ~loose /\ t \notin cur.tests
    /\ cur' = [cur EXCEPT !.tests = @ \cup {t}]
    /\ table' = [table EXCEPT ![at] = cur']
    /\ owed' = IF t > node /\ step # "final" THEN owed \cup {t} ELSE owed
    /\ UNCHANGED <<importVars, calls, room, shifted, walkVars, loose, endVars>>

\* A function of the suite replaces one of the functions the harness holds.
Replace ==
    /\ Running /\ at # None
    /\ loose' = TRUE
    /\ UNCHANGED <<importVars, calls, tableVars, walkVars, cur, owed, endVars>>

\* An assertion of the library fails (yut_raise): without a setjmp the buffer is all
\* zeros; with that of a yut_test that has returned it is no better.
GoesOnWhenRaised == calls' = <<>> /\ UNCHANGED <<step, result>>
GivesUp == calls' = <<>> /\ Exits(-1)
Raise ==
    /\ Running
    /\ fate' = [f \in File |-> IF f \in ToSet(calls) THEN "over" ELSE fate[f]]
    /\ IF at # None /\ cookie = at THEN raised' = TRUE /\ GivesUp
       ELSE calls' = <<>> /\ Stops /\ UNCHANGED raised
    /\ UNCHANGED <<reached, tableVars, todo, at, node, cookie, log, visited, suiteVars,
                   promised>>

-----------------------------------------------------------------------------
(* The program and the harness *)

\* main: no file and a syntax error end it; an empty file leaves the stack empty, and
\* the panic for that finds nobody to jump to.
Start(content) ==
    /\ step = "start"
    /\ \/ content = "absent" /\ Exits(0) /\ UNCHANGED calls
       \/ content = "bad" /\ Exits(1) /\ UNCHANGED calls
       \/ content = "empty" /\ Stops /\ UNCHANGED calls
       \/ content = "good" /\ step' = "main" /\ calls' = <<"main">> /\ UNCHANGED result
    /\ UNCHANGED <<importVars, tableVars, todo, at, node, cookie, log, visited, suiteVars,
                   raised, promised>>

\* The harness goes on when what it has called is over and what it holds is still there;
\* Astray is for when it is not.
Waiting(s) == step = s /\ calls = <<>> /\ ~loose

\* ymd_test, after ymd_main.
MainEnds ==
    /\ Waiting("main")
    /\ step' = "walk" /\ todo' = {g \in Suite : table[g] # None}
    /\ promised' = todo'
    /\ UNCHANGED <<importVars, calls, tableVars, at, node, cookie, log, visited, suiteVars,
                   raised, result>>

\* yut_call: nothing for a method that is not there.
Calls(m, t, has) ==
    IF m = "unit" \/ m \in has
    THEN calls' = <<"test">> /\ log' = Append(log, <<m, t>>)
    ELSE UNCHANGED <<calls, log>>

SetJumpLate(g) == cookie
SetJump(g) == g

\* yut_test, up to the call of init.
BeginSuite(g) ==
    /\ Waiting("walk") /\ g \in todo /\ table[g].type = "skls"
    /\ at' = g /\ cur' = table[g] /\ owed' = cur'.tests
    /\ node' = 0 /\ cookie' = SetJump(g)
    /\ todo' = todo \ {g}
    /\ step' = "init" /\ Calls("init", 0, table[g].has)
    /\ UNCHANGED <<importVars, tableVars, loose, visited, endVars>>

\* yut_test leaves every other value alone.
SkipSuite(g) ==
    /\ Waiting("walk") /\ g \in todo /\ table[g].type # "skls"
    /\ todo' = todo \ {g} /\ visited' = Append(visited, g)
    /\ UNCHANGED <<importVars, calls, tableVars, step, at, node, cookie, log, suiteVars,
                   endVars>>

\* The next test of the loop, and its setup; kstr_of panics for a key that is no string,
\* outside of any call.
AfterNext == {t \in cur.tests : t > node + 1}
After == {t \in cur.tests : t > node}
NextCase ==
    /\ Waiting("init") \/ Waiting("teardown")
    /\ IF cur.odd /\ step = "init"
       THEN Stops /\ UNCHANGED <<calls, log, node>>
       ELSE /\ After # {}
            /\ node' = Min(After)
            /\ step' = "setup"
            /\ Calls("setup", node', cur.has)
            /\ UNCHANGED result
    /\ UNCHANGED <<importVars, tableVars, todo, at, cookie, visited, suiteVars, raised, promised>>

\* yut_case
CaseGoesOn(s, next) ==
    /\ Waiting(s)
    /\ step' = next
    /\ Calls(next, node, cur.has)
    /\ UNCHANGED <<importVars, tableVars, todo, at, node, cookie, visited, suiteVars, endVars>>

LastCase ==
    /\ Waiting("init") \/ Waiting("teardown")
    /\ ~(cur.odd /\ step = "init") /\ After = {}
    /\ step' = "final" /\ Calls("final", 0, cur.has)
    /\ UNCHANGED <<importVars, tableVars, todo, at, node, cookie, visited, suiteVars, endVars>>

EndSuite ==
    /\ Waiting("final")
    /\ visited' = Append(visited, at)
    /\ step' = "walk" /\ at' = None /\ cur' = None /\ log' = <<>> /\ owed' = {}
    /\ node' = 0
    /\ UNCHANGED <<importVars, calls, tableVars, todo, cookie, loose, endVars>>

\* The loop of ymd_test ends at kend.
Done ==
    /\ Waiting("walk") /\ todo = {} /\ shifted # "resized"
    /\ Exits(0)
    /\ UNCHANGED <<importVars, calls, tableVars, todo, at, node, cookie, log, visited,
                   suiteVars, raised, promised>>

\* What the harness holds is gone, or kend is not the end of the table it has walked: a
\* read of freed memory, or past the table.  Whatever comes of it is shown as a stop.
Astray ==
    /\ calls = <<>> /\ step \notin {"start", "main", "done", "stopped"}
    /\ loose \/ (step = "walk" /\ todo = {} /\ shifted = "resized")
    /\ Stops
    /\ UNCHANGED <<importVars, calls, tableVars, todo, at, node, cookie, log, visited,
                   suiteVars, raised, promised>>

-----------------------------------------------------------------------------
TestInit ==
    /\ reached = {} /\ fate = [f \in File |-> "none"]
    /\ calls = <<>>
    /\ table = [g \in Suite |-> None] /\ room \in Rooms /\ shifted = "no"
    /\ step = "start" /\ todo = {} /\ at = None /\ cur = None /\ node = 0 /\ loose = FALSE
    /\ cookie = None /\ log = <<>> /\ owed = {} /\ visited = <<>> /\ promised = None
    /\ raised = FALSE /\ result = None

TestNext ==
    \/ \E c \in OnDisk : Start(c)
    \/ Return \/ Panic \/ Eval \/ Raise \/ Replace
    \/ \E n \in 1 .. MaxCalls : Throw(n)
    \/ \E f \in File, c \in OnDisk, args \in BOOLEAN : Import(f, c, args)
    \/ \E g \in Suite \cup {None}, c \in Contents : Define(g, c)
    \/ \E t \in Test : AddTest(t)
    \/ MainEnds
    \/ \E g \in Suite : BeginSuite(g) \/ SkipSuite(g)
    \/ NextCase \/ CaseGoesOn("setup", "unit") \/ CaseGoesOn("unit", "teardown")
    \/ LastCase \/ EndSuite \/ Done \/ Astray

TestSpec == TestInit /\ [][TestNext]_testVars

-----------------------------------------------------------------------------
(* Properties *)

Code == File \cup {"main", "other", "test"}
TestTypeOK ==
    /\ calls \in Seq(Code)
    /\ reached \subseteq File
    /\ fate \in [File -> {"none", "running", "over"}]

\* libx_import, vm_reached: a file is marked before anything can go wrong or come back
\* to it, so however files import each other and whatever fails on the way, no file
\* is being run twice; a file on its way is on the call stack, and one that is not is
\* there no more.
ImportedOnce ==
    /\ TestTypeOK
    /\ \A f \in File : /\ fate[f] # "none" <=> f \in reached
                       /\ fate[f] = "running" <=> f \in ToSet(calls)
    /\ \A i, j \in DOMAIN calls : calls[i] \in File /\ calls[i] = calls[j] => i = j

\* yut_test, yut_case: whichever functions of a suite panic, and whichever tests they add
\* to it, when the loop is over every test that was there, or has been added after the
\* place of the one being run, has been called once, in the order of names, between setup
\* and teardown, after init; unless something the harness holds was taken away.
Wanted == {c \in ({"init", "final"} \X {0}) \cup ({"setup", "unit", "teardown"} \X owed) :
               c[1] = "unit" \/ c[1] \in cur.has}
Before(c, d) ==
    \/ c[1] = "init" /\ d[1] # "init"
    \/ c[1] # "final" /\ d[1] = "final"
    \/ /\ {c[1], d[1]} \cap {"init", "final"} = {}
       /\ \/ c[2] < d[2]
          \/ c[2] = d[2] /\ <<c[1], d[1]>> \in
                 {<<"setup", "unit">>, <<"setup", "teardown">>, <<"unit", "teardown">>}
CasesInOrder ==
    step = "final" /\ ~loose =>
        /\ ToSet(log) = Wanted
        /\ \A i, j \in DOMAIN log : i < j => Before(log[i], log[j])

\* ymd_test: 0 means that the main script came to its end, no assertion failed, and each
\* global of Suite there was then has been looked at once, if none has been moved since;
\* -1 that the main script or an assertion failed.  (A case that panics changes nothing.)
ResultTells ==
    step = "done" /\ promised # None =>
        /\ result = IF raised THEN -1 ELSE 0
        /\ result = 0 /\ shifted = "no" =>
               \A g \in promised : Cardinality({j \in DOMAIN visited : visited[j] = g}) = 1

\* yut_raise: an assertion that fails in a suite never jumps to a yut_test that has
\* returned: nothing else stops the program than a key that is no string, a table the
\* harness has lost, or what happens before the main script has ended.
StopsForCause ==
    step = "stopped" =>
        promised = None \/ loose \/ shifted = "resized" \/ (at # None /\ cur.odd)
=============================================================================

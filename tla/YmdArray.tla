------------------------------ MODULE YmdArray -------------------------------
(***************************************************************************)
(* The array (dynamic_array.c): a block of memory that grows by half and   *)
(* MaxAdd elements whenever it is full, and the loops of the library       *)
(* (libc.c): over an array with `range', `rank' and `ranki', and over      *)
(* numbers.                                                                *)
(*                                                                         *)
(* An iterator over an array is a native function bound to two pointers    *)
(* into the block the array had when the loop began.  The loop's body may  *)
(* append to the array, insert into it and overwrite it between two calls  *)
(* of the iterator; when the block has moved the iterator reads memory     *)
(* that was freed, which may hold anything.  The array of a function's     *)
(* arguments loses its block when a call of the function ends, although    *)
(* the program may hold the array and loop over it.                        *)
(*                                                                         *)
(* ShiftedUp, EndOfBlock and WithinUntilEqual are faulty variants of the   *)
(* definition after each, for mutation tests; nothing else uses them.      *)
(***************************************************************************)
EXTENDS Integers, Sequences, SequencesExt

CONSTANTS
    Val,        \* values of elements
    Nil,
    Junk,       \* what memory holds that nobody has written
    MaxAdd,     \* MAX_ADD
    Capacities, \* arguments of dyay_new
    MaxCount,   \* bound on the number of elements
    Half        \* 2 ^ (w - 1), where w is the number of bits of an ymd_int_t

ASSUME ArrayAssumption ==
    /\ Nil \notin Val /\ Junk \notin Val \cup {Nil}
    /\ MaxAdd \in Nat \ {0}
    /\ Capacities \subseteq Nat
    /\ MaxCount \in Nat /\ Half \in Nat \ {0}

VARIABLES
    isArgv,  \* is this the array of a function's arguments?
    count,   \* arr->count
    max,     \* arr->max
    elem,    \* the block arr->elem, a function on 0 .. max - 1
    charged, \* elements charged to the collector's account for the block
    iter,    \* the bound values of the iterator of a loop, Nil outside of one
    met,     \* what the loop was given, for the properties ...
    due,     \* ... what an array had when it began, as overwritten ahead of it ...
    spoiled  \* ... and did its body insert, or the array lose its block?

array == <<isArgv, count, max, elem, charged>>
loop == <<iter, met, due, spoiled>>
vars == <<isArgv, count, max, elem, charged, iter, met, due, spoiled>>

Content == [i \in 1 .. count |-> elem[i - 1]]
Looping == iter # Nil
OverArray == Looping /\ iter.kind # "step"
OverRange == Looping /\ iter.kind = "step"

-----------------------------------------------------------------------------
(* The array *)

Zeroed(n) == [i \in 0 .. n - 1 |-> Nil]

\* resize: the new arr->max.
NewMax(n) == (n * 3) \div 2 + MaxAdd

\* A full array is given a longer block with mm_realloc, which charges the
\* difference and leaves the added elements unwritten.
Full == count >= max
Roomy(n) == [i \in 0 .. n - 1 |-> IF i \in DOMAIN elem THEN elem[i] ELSE Junk]
Resized == IF Full THEN Roomy(NewMax(count)) ELSE elem
Resize ==
    IF Full
    THEN max' = NewMax(count) /\ charged' = charged + (NewMax(count) - max)
    ELSE UNCHANGED <<max, charged>>

\* The block of a loop's iterator may be freed when it grows; an iterator with
\* another block is not concerned.
Spoil(s) == spoiled' = (OverArray /\ (spoiled \/ s))
Grown ==
    \/ UNCHANGED iter /\ Spoil(FALSE)
    \/ /\ OverArray /\ Full /\ max > 0
       /\ iter' = [iter EXCEPT !.live = FALSE] /\ Spoil(TRUE)

\* dyay_add and the write through the pointer it returns.
Add(v) ==
    /\ count < MaxCount
    /\ elem' = [Resized EXCEPT ![count] = v]
    /\ count' = count + 1
    /\ Resize /\ Grown
    /\ UNCHANGED <<isArgv, met, due>>

\* libx_append, for each of its arguments: nil is not refused.  Likewise the copying
\* of arguments to argv.
AppendArg(v) == v \in Val \cup {Nil} /\ Add(v)

\* do_insert without a position; nil panics.
InsertLast(v) == v \in Val /\ Add(v)

ShiftedUp(t, i) ==
    [j \in DOMAIN t |-> IF j > i /\ j <= count THEN t[i] ELSE t[j]]
\* The elements from i on move up by one, the last one first.
Shifted(t, i) ==
    [j \in DOMAIN t |-> IF j > i /\ j <= count THEN t[j - 1] ELSE t[j]]

\* do_insert with a position, which it has checked, and dyay_insert.
Insert(i, v) ==
    /\ count < MaxCount
    /\ i \in 0 .. count - 1
    /\ elem' = [Shifted(Resized, i) EXCEPT ![i] = v]
    /\ count' = count + 1
    /\ Resize
    /\ \/ UNCHANGED iter
       \/ OverArray /\ Full /\ iter' = [iter EXCEPT !.live = FALSE]
    /\ Spoil(TRUE)
    /\ UNCHANGED <<isArgv, met, due>>

\* vm_put and the write: dyay_get asserts that there is an element i, and the
\* whole program stops when there is not.
Set(i, v) ==
    /\ i \in 0 .. count - 1
    /\ elem' = [elem EXCEPT ![i] = v]
    /\ due' = IF OverArray /\ i >= iter.i /\ i + 1 \in DOMAIN due
              THEN [due EXCEPT ![i + 1] = v] ELSE due
    /\ UNCHANGED <<isArgv, count, max, charged, iter, met, spoiled>>

\* dyay_final: vm_call when a call has ended, ymd_error when it is left.
Final ==
    /\ isArgv /\ max > 0
    /\ elem' = <<>> /\ count' = 0 /\ max' = 0
    /\ charged' = charged - max
    /\ iter' = IF OverArray THEN [iter EXCEPT !.live = FALSE] ELSE iter
    /\ Spoil(TRUE)
    /\ UNCHANGED <<isArgv, met, due>>

-----------------------------------------------------------------------------
(* Loops *)

\* What an iterator gives for its idx'th element v.
Given(kind, idx, v) ==
    CASE kind = "value" -> v [] kind = "key" -> idx [] kind = "kv" -> <<idx, v>>

\* new_contain_iter: bind[0] and bind[1] are places in the block as it is now.
EndOfBlock == max
EndOfArray == count
BeginArray(kind) ==
    /\ ~Looping
    /\ iter' = [kind |-> kind, i |-> 0, m |-> EndOfArray, idx |-> 0, live |-> TRUE]
    /\ met' = <<>> /\ due' = Content /\ spoiled' = FALSE
    /\ UNCHANGED array

\* A loop that has met all, or is left by its body.
Left == iter' = Nil /\ met' = <<>> /\ due' = <<>> /\ spoiled' = FALSE

\* dyay_iter; a nil value ends the loop like the end of the array (I_FOREACH).
MeetElement ==
    /\ OverArray /\ iter.i < iter.m
    /\ \E v \in IF iter.live THEN {elem[iter.i]} ELSE Val \cup {Nil, Junk} :
          IF Given(iter.kind, iter.idx, v) = Nil THEN Left
          ELSE /\ met' = Append(met, Given(iter.kind, iter.idx, v))
               /\ iter' = [iter EXCEPT !.i = @ + 1,
                                       !.idx = IF iter.kind = "value" THEN @ ELSE @ + 1]
               /\ UNCHANGED <<due, spoiled>>
    /\ UNCHANGED array

EndArray == OverArray /\ iter.i >= iter.m /\ Left /\ UNCHANGED array

Numbers == -Half .. Half - 1
\* An addition on ymd_int_t as the build does it: modulo 2 ^ w.
Wrapped(n) == ((n + Half) % (2 * Half)) - Half

\* new_step_iter; the loop over an empty range is given `libx_end'.
BeginRange(i, m, s) ==
    /\ ~Looping
    /\ s # 0 /\ i # m /\ ~(i > m /\ s > 0) /\ ~(i < m /\ s < 0)
    /\ iter' = [kind |-> "step", first |-> i, i |-> i, m |-> m, s |-> s]
    /\ met' = <<>> /\ UNCHANGED <<due, spoiled>> /\ UNCHANGED array

\* libx_range with two arguments counts towards the second.
RangeStep(i, m) == IF i > m THEN -1 ELSE 1

WithinUntilEqual(i) == i # iter.m
Within(i) == IF iter.s > 0 THEN i < iter.m ELSE i > iter.m

\* step_iter.  Near the end of the numbers the sum wraps and the loop may go on for
\* ever: met is bounded by the count of numbers there are.
MeetNumber ==
    /\ OverRange /\ Within(iter.i) /\ Len(met) < 2 * Half
    /\ met' = Append(met, iter.i)
    /\ iter' = [iter EXCEPT !.i = Wrapped(@ + iter.s)]
    /\ UNCHANGED <<due, spoiled>> /\ UNCHANGED array

EndRange == OverRange /\ ~Within(iter.i) /\ Left /\ UNCHANGED array

\* `break', or a panic or an error that leaves the loop.
Break == Looping /\ Left /\ UNCHANGED array

-----------------------------------------------------------------------------
Init ==
    /\ isArgv \in BOOLEAN
    /\ max \in Capacities /\ charged = max
    /\ count = 0 /\ elem = Zeroed(max)
    /\ iter = Nil /\ met = <<>> /\ due = <<>> /\ spoiled = FALSE

Next ==
    \/ \E v \in Val \cup {Nil} : AppendArg(v) \/ InsertLast(v)
    \/ \E i \in 0 .. count - 1, v \in Val : Insert(i, v) \/ Set(i, v)
    \/ Final
    \/ \E kind \in {"value", "key", "kv"} : BeginArray(kind)
    \/ MeetElement \/ EndArray
    \/ \E i, m \in Numbers :
          BeginRange(i, m, RangeStep(i, m)) \/ \E s \in Numbers : BeginRange(i, m, s)
    \/ MeetNumber \/ EndRange \/ Break

Spec == Init /\ [][Next]_vars

\* The interpreter calls the iterator again when the loop's body has ended.
FairSpec ==
    /\ Spec
    /\ WF_vars(MeetElement) /\ WF_vars(EndArray)
    /\ WF_vars(MeetNumber) /\ WF_vars(EndRange)

-----------------------------------------------------------------------------
(* Properties *)

TypeOK ==
    /\ count \in 0 .. max
    /\ elem \in [0 .. max - 1 -> Val \cup {Nil, Junk}]
    /\ charged = max
    /\ \A i \in 0 .. count - 1 : elem[i] # Junk

\* Through every resize and every shift the array is the sequence its operations
\* describe.
List == INSTANCE YmdList WITH list <- Content
IsList == List!Spec

\* Types: the block has the length arr->max says and the account was charged for, and
\* what lies below arr->count has been written (resize).  And a loop is given each
\* element the array had when it began once, in order, with its index, as overwritten
\* ahead of it, whatever its body appends in place: unless the body inserts or the block
\* is freed (dyay_iter).
LoopIsWhole ==
    /\ TypeOK
    /\ OverArray /\ ~spoiled =>
          /\ Len(due) = iter.m
          /\ met = [k \in 1 .. iter.i |-> Given(iter.kind, k - 1, due[k])]
          /\ \A k \in iter.i .. iter.m - 1 : elem[k] = due[k + 1]

\* The numbers of a range: libc.c, libx_range, "range(1,100,2) = 1,3,5,...99".
InRange ==
    {n \in Numbers : /\ \E k \in 0 .. 2 * Half : n = iter.first + k * iter.s
                     /\ (n - iter.m) * iter.s < 0}
AtEdge == OverRange /\ \E n \in InRange : n + iter.s \notin Numbers

\* A loop over a range is given its numbers in order, all of them and no other:
\* unless the step after the last one leaves ymd_int_t, which a step of one never
\* does (step_iter).
RangeIsExact ==
    OverRange =>
        /\ iter.s \in {1, -1} => ~AtEdge
        /\ AtEdge \/ /\ met = [k \in 1 .. Len(met) |-> iter.first + (k - 1) * iter.s]
                     /\ ToSet(met) \subseteq InRange
                     /\ ~Within(iter.i) => ToSet(met) = InRange

\* Every loop ends, even if its body appends to the array it goes over, but for a
\* range whose last step leaves ymd_int_t.
LoopEnds == Looping /\ ~AtEdge ~> ~Looping
=============================================================================

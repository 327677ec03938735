----------------------------- MODULE YmdAccount -----------------------------
(***************************************************************************)
(* The memory account of the machine (memory.c) and the objects with the   *)
(* most intricate one: functions and the chunks of code they share         *)
(* (closure.c), grown while they are compiled and shrunk when they are     *)
(* done (compiler.c).                                                      *)
(*                                                                         *)
(* `m' is the memory: the counter gc->used and the threshold of the        *)
(* collector, and the blocks that are really there, the capacity of every  *)
(* array of every chunk among them.  The operators that take m and the     *)
(* roots are the C functions that may collect; they are composed in the    *)
(* order of the code.  The collector is not paused (module YmdHeap does    *)
(* that), and what is neither a function nor a chunk is counted in units.  *)
(*                                                                         *)
(* FinalUnshared, RecordedLate and CloseDropping are faulty                *)
(* variants of the definition after each, for the mutation tests; nothing  *)
(* else uses them.                                                         *)
(***************************************************************************)
EXTENDS Naturals, Sequences, FiniteSetsExt, Functions

CONSTANTS
    Fn, Chunk, Nil,
    Align,      \* INST_ALIGN (inst and line), KVAL_ALIGN and LVAR_ALIGN
    ChunkSize,  \* sizeof(struct chunk)
    FuncSize,   \* sizeof(struct func)
    Threshold,  \* GC_THESHOLD
    Words,      \* the threshold is a word with so many values
    MaxCount,   \* bound on the items the parser adds to an array
    MaxDepth,   \* bound on the nesting of functions
    MaxFailed,  \* bound on the number of compilations that fail
    MaxUnits    \* bound on the units of other objects

ASSUME AccountAssumption ==
    /\ IsFiniteSet(Fn) /\ IsFiniteSet(Chunk) /\ Nil \notin Chunk
    /\ DOMAIN Align = {"inst", "line", "kval", "lz"} /\ Align["inst"] = Align["line"]
    /\ \A a \in DOMAIN Align : Align[a] \in Nat \ {0}
    /\ ChunkSize \in Nat \ {0} /\ FuncSize \in Nat \ {0}
    /\ Words \in Nat \ {0} /\ Threshold \in 0 .. Words - 1
    /\ MaxFailed \in Nat /\ MaxUnits \in Nat

VARIABLES
    m,      \* the memory, see Memory
    stk,    \* the functions on the value stack
    kept,   \* the functions that globals and containers refer to
    blk,    \* the chunks being compiled, p->blk and its chain, innermost last
    failed, \* auxiliary: the number of compilations that failed
    over    \* the machine was finalized

vars == <<m, stk, kept, blk, failed, over>>

Array == DOMAIN Align

Memory == [
    used : Nat,                           \* gc->used
    threshold : 0 .. Words - 1,           \* gc->threshold
    core : [Fn -> Chunk \cup {Nil}],      \* fn->u.core; Nil: no such function
    ref : [Chunk -> Nat],                 \* core->ref; 0: no such chunk
    num : [Chunk -> [Array -> Nat]],      \* core->kinst, kkval, klz
    cap : [Chunk -> [Array -> Nat]],      \* the size of the array, 0: none
    consts : [Chunk -> SUBSET Fn],        \* the functions in core->kval
    live : Nat,                           \* units of other reachable objects ...
    junk : Nat]                           \* ... and of unreachable ones

Empty == [a \in Array |-> 0]
Sharing(c) == {f \in Fn : m.core[f] = c}

-----------------------------------------------------------------------------
(* Collection *)

\* The functions reachable from R through the constants of their chunks.
Reached(n, R) ==
    {f \in Fn : \A C \in SUBSET Fn :
        (R \subseteq C /\ \A g \in C : n.core[g] # Nil => n.consts[n.core[g]] \subseteq C)
            => f \in C}

\* func_final, once for every dead function, and blk_final: a chunk goes with the
\* last of the functions that share it.  What is given back for an array is the
\* number of its items.
Bytes(size, C) == SumFunction([c \in C |-> ChunkSize + SumFunction(size[c])])

FinalUnshared(n, dead) ==
    LET gone == {c \in Chunk : \E f \in dead : n.core[f] = c}
        freed == FuncSize * Cardinality(dead) + Bytes(n.num, gone)
    IN [n EXCEPT !.used = @ - freed,
                 !.core = [f \in Fn |-> IF f \in dead THEN Nil ELSE @[f]],
                 !.ref = [c \in Chunk |-> IF c \in gone THEN 0 ELSE @[c]],
                 !.num = [c \in Chunk |-> IF c \in gone THEN Empty ELSE @[c]],
                 !.cap = [c \in Chunk |-> IF c \in gone THEN Empty ELSE @[c]],
                 !.consts = [c \in Chunk |-> IF c \in gone THEN {} ELSE @[c]]]
Final(n, dead) ==
    LET drops(c) == Cardinality({f \in dead : n.core[f] = c})
        gone == {c \in Chunk : drops(c) > 0 /\ n.ref[c] <= drops(c)}
        freed == FuncSize * Cardinality(dead) + Bytes(n.num, gone)
    IN [n EXCEPT !.used = @ - freed,
                 !.core = [f \in Fn |-> IF f \in dead THEN Nil ELSE @[f]],
                 !.ref = [c \in Chunk |-> @[c] - drops(c)],
                 !.num = [c \in Chunk |-> IF c \in gone THEN Empty ELSE @[c]],
                 !.cap = [c \in Chunk |-> IF c \in gone THEN Empty ELSE @[c]],
                 !.consts = [c \in Chunk |-> IF c \in gone THEN {} ELSE @[c]]]

\* gc_mark and gc_sweep
Swept(n, R) ==
    LET dead == {f \in Fn : n.core[f] # Nil} \ Reached(n, R)
        swept == Final(n, dead)
    IN [swept EXCEPT !.used = @ - n.junk, !.junk = 0]

\* gc_adjust: the rate is of what was collected to what is left.
Adjusted(n, freed) ==
    CASE 10 * freed < n.used -> [n EXCEPT !.threshold = (2 * @) % Words]
      [] 10 * freed >= 6 * n.used /\ freed > 0 -> [n EXCEPT !.threshold = @ \div 2]
      [] OTHER -> n

Collected(n, R) == LET left == Swept(n, R) IN Adjusted(left, n.used - left.used)

\* gc_record of `size' new units.
RecordedLate(n, size, R) ==
    [(IF n.used > n.threshold THEN Collected(n, R) ELSE n) EXCEPT !.used = @ + size]
Recorded(n, size, R) ==
    LET more == [n EXCEPT !.used = @ + size]
    IN IF more.used > more.threshold THEN Collected(more, R) ELSE more

-----------------------------------------------------------------------------
(* The arrays of a chunk *)

\* mm_need and the item stored: the array is reallocated first, then recorded.
Needed(n, c, a, R) ==
    LET full == n.num[c][a] % Align[a] = 0
        size == n.num[c][a] + Align[a]
    IN [(IF full THEN Recorded([n EXCEPT !.cap[c][a] = size], Align[a], R) ELSE n)
            EXCEPT !.num[c][a] = @ + 1]

\* blk_emit
Emitted(n, c, R) == Needed(Needed(n, c, "inst", R), c, "line", R)

\* blk_shrink and mm_shrink
Slack(n, c) == [a \in Array |-> IF n.num[c][a] % Align[a] = 0 THEN 0
                                ELSE Align[a] - (n.num[c][a] % Align[a])]
Shrunk(n, c) ==
    [n EXCEPT !.used = @ - SumFunction(Slack(n, c)), !.cap[c] = n.num[c]]

-----------------------------------------------------------------------------
(* Compilation *)

Compiling == blk # <<>>
Innermost == blk[Len(blk)]
Held == Range(stk) \cup kept
May(c, a) == m.num[c][a] < MaxCount

\* ymk_chunk, ymd_func, ymk_enter and ymk_chunk_reserved: of ymd_compile, and of
\* parse_func and parse_closure inside a function.  The function is grabbed until
\* the value stack holds it.
Open(f, c) ==
    /\ ~over /\ Len(blk) < MaxDepth
    /\ m.core[f] = Nil /\ m.ref[c] = 0
    /\ LET chunk == Recorded(m, ChunkSize, Held)
           func == Recorded(chunk, FuncSize, Held)
           linked == [func EXCEPT !.core[f] = c, !.ref[c] = @ + 1]
       IN m' = Needed(linked, c, "lz", Held \cup {f})
    /\ stk' = Append(stk, f)
    /\ blk' = Append(blk, c)
    /\ UNCHANGED <<kept, failed, over>>

\* An instruction, a constant that is not a function, a local variable.
Emit ==
    /\ Compiling /\ May(Innermost, "inst")
    /\ m' = Emitted(m, Innermost, Held)
    /\ UNCHANGED <<stk, kept, blk, failed, over>>

AddItem(a) ==
    /\ Compiling /\ May(Innermost, a)
    /\ m' = Needed(m, Innermost, a, Held)
    /\ UNCHANGED <<stk, kept, blk, failed, over>>

\* ymk_emit_end, unless the last instruction returns, and ymk_leave.
Left(end) ==
    LET c == Innermost
    IN Shrunk(IF end THEN Emitted(m, c, Held) ELSE m, c)

\* The end of parse_func and parse_closure: blk_kf makes the function a constant
\* of the one around it, and only then it leaves the value stack.
CloseDropping(end) ==
    /\ Len(blk) > 1 /\ (~end => m.num[Innermost]["inst"] > 0)
    /\ LET p == blk[Len(blk) - 1]
           f == stk[Len(stk)]
           rest == SubSeq(stk, 1, Len(stk) - 1)
       IN /\ m' = [Needed(Left(end), p, "kval", Range(rest) \cup kept)
                      EXCEPT !.consts[p] = @ \cup {f}]
          /\ stk' = rest
    /\ blk' = SubSeq(blk, 1, Len(blk) - 1)
    /\ UNCHANGED <<kept, failed, over>>
Close(end) ==
    /\ Len(blk) > 1 /\ (~end => m.num[Innermost]["inst"] > 0)
    /\ LET p == blk[Len(blk) - 1]
           f == stk[Len(stk)]
       IN m' = [Needed(Left(end), p, "kval", Held) EXCEPT !.consts[p] = @ \cup {f}]
    /\ stk' = SubSeq(stk, 1, Len(stk) - 1)
    /\ blk' = SubSeq(blk, 1, Len(blk) - 1)
    /\ UNCHANGED <<kept, failed, over>>

\* The end of ymc_compile: the function stays on the value stack.
CloseLast(end) ==
    /\ Len(blk) = 1 /\ (~end => m.num[Innermost]["inst"] > 0)
    /\ m' = Left(end)
    /\ blk' = <<>>
    /\ UNCHANGED <<stk, kept, failed, over>>

\* ymc_fail: ymc_final frees the open chunks that no function refers to, and there
\* are none; ymd_compile pops one function, however many were open.
Fail ==
    /\ Compiling /\ failed < MaxFailed
    /\ blk' = <<>>
    /\ stk' = SubSeq(stk, 1, Len(stk) - 1)
    /\ failed' = failed + 1
    /\ UNCHANGED <<m, kept, over>>

-----------------------------------------------------------------------------
(* The running script *)

Scripting == ~over /\ ~Compiling

\* Store the function on top of the stack, or drop it.
Store ==
    /\ Scripting /\ stk # <<>>
    /\ kept' \in {kept, kept \cup {stk[Len(stk)]}}
    /\ stk' = SubSeq(stk, 1, Len(stk) - 1)
    /\ UNCHANGED <<m, blk, failed, over>>

Forget(f) ==
    /\ Scripting /\ f \in kept
    /\ kept' = kept \ {f}
    /\ UNCHANGED <<m, stk, blk, failed, over>>

\* func_clone of I_BIND: the clone g shares the chunk of f.
Clone(f, g) ==
    /\ Scripting
    /\ f \in kept /\ m.core[g] = Nil
    /\ LET room == Recorded(m, FuncSize, Held)
       IN m' = [room EXCEPT !.core[g] = m.core[f], !.ref[m.core[f]] = @ + 1]
    /\ kept' = kept \cup {g}
    /\ UNCHANGED <<stk, blk, failed, over>>

\* Other objects: made while a script runs or compiles, and left behind.
Make(size) ==
    /\ ~over /\ m.live + m.junk + size <= MaxUnits
    /\ m' = [Recorded(m, size, Held) EXCEPT !.live = @ + size]
    /\ UNCHANGED <<stk, kept, blk, failed, over>>

Leave(size) ==
    /\ Scripting /\ size <= m.live
    /\ m' = [m EXCEPT !.live = @ - size, !.junk = @ + size]
    /\ UNCHANGED <<stk, kept, blk, failed, over>>

\* gc("collect")
Collect ==
    /\ Scripting
    /\ m' = Collected(m, Held)
    /\ UNCHANGED <<stk, kept, blk, failed, over>>

\* ymd_final: gc_final frees every object there is.
Finish ==
    /\ Scripting
    /\ m' = [Final(m, {f \in Fn : m.core[f] # Nil})
                EXCEPT !.used = @ - (m.live + m.junk), !.live = 0, !.junk = 0]
    /\ stk' = <<>> /\ kept' = {} /\ over' = TRUE
    /\ UNCHANGED <<blk, failed>>

-----------------------------------------------------------------------------
Init ==
    /\ m = [used |-> 0, threshold |-> Threshold,
            core |-> [f \in Fn |-> Nil], ref |-> [c \in Chunk |-> 0],
            num |-> [c \in Chunk |-> Empty], cap |-> [c \in Chunk |-> Empty],
            consts |-> [c \in Chunk |-> {}], live |-> 0, junk |-> 0]
    /\ stk = <<>> /\ kept = {} /\ blk = <<>>
    /\ failed = 0 /\ over = FALSE

Next ==
    \/ \E f \in Fn, c \in Chunk : Open(f, c)
    \/ Emit
    \/ \E a \in {"kval", "lz"} : AddItem(a)
    \/ \E end \in BOOLEAN : Close(end) \/ CloseLast(end)
    \/ Fail
    \/ Store
    \/ \E f \in Fn : Forget(f)
    \/ \E f, g \in Fn : Clone(f, g)
    \/ \E size \in 1 .. MaxUnits : Make(size) \/ Leave(size)
    \/ Collect
    \/ Finish

Spec == Init /\ [][Next]_vars

-----------------------------------------------------------------------------
(* Properties *)

\* The memory is a memory: in particular no counter is taken below zero.
TypeOK ==
    /\ m \in Memory
    /\ stk \in Seq(Fn) /\ kept \subseteq Fn /\ blk \in Seq(Chunk)
    /\ failed \in Nat /\ over \in BOOLEAN

Chunks == {c \in Chunk : m.ref[c] > 0}

\* Types; and core->ref counts the functions that share the chunk, clones included, and
\* functions that can still be reached, and the chunks being compiled, are there.
RefCounted ==
    /\ TypeOK
    /\ \A c \in Chunk : m.ref[c] = Cardinality(Sharing(c))
    /\ \A f \in Reached(m, Held) : m.core[f] # Nil
    /\ Range(blk) \subseteq Chunks

\* Until a compilation fails gc->used is the size of the blocks there are, arrays
\* at their full capacity: what mm_need, mm_shrink and mm_free record agrees.
Accounted ==
    failed = 0 =>
        m.used = FuncSize * Cardinality({f \in Fn : m.core[f] # Nil})
                 + Bytes(m.cap, Chunks) + m.live + m.junk

\* state.c, ymd_final: `assert(vm->gc.used == 0); // Must free all memory!'
AllFreed == over => m.used = 0

\* An allocation leaves the machine below its threshold or without garbage.
Garbage == {f \in Fn : m.core[f] # Nil} \ Reached(m, Held)
Bounded == m'.used > m.used => m'.used <= m'.threshold \/ (Garbage' = {} /\ m'.junk = 0)
CollectsInTime == [][Bounded]_vars
=============================================================================

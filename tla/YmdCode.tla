------------------------------- MODULE YmdCode -------------------------------
(***************************************************************************)
(* The one-pass code generator (compiler.c) and the jumps of the machine   *)
(* that runs its code (vm_run, call.c).                                    *)
(*                                                                         *)
(* The parser is recursive: `todo' is its C stack, the pending rest of     *)
(* each parse function, the innermost last.  What the source program says  *)
(* next is a choice.  A jump whose target is not known yet is held: an     *)
(* I_PANIC stands in its place until it is patched (ymk_hold, ymk_hack).   *)
(*                                                                         *)
(* Each instruction carries, as ghost state, the number of operands the    *)
(* parser believes to be on the stack before it (h), and the loops of its  *)
(* own function around it (nest).  Positions count from 1.                 *)
(*                                                                         *)
(* LeftEarly, PartialOfIndexed and EndIfUnpatched are faulty variants of   *)
(* the definition after each, for mutation tests; nothing else uses them.  *)
(***************************************************************************)
EXTENDS Integers, SequencesExt

CONSTANTS
    OffsetLimit,  \* 2^16: the offset of a jump is a ushort_t
    MaxPhrases,   \* bound on the statements and compound expressions of a program
    MaxOperands   \* bound on the operands of one instruction

\* The arrays of jumps to patch, jmt of loop_info and jout of parse_if, hold 128.
ASSUME CodeAssumption ==
    OffsetLimit \in Nat \ {0} /\ MaxPhrases \in 0 .. 128 /\ MaxOperands \in Nat \ {0}

VARIABLES
    chunks,  \* p->blk and its chain: the functions being compiled, innermost last
    loops,   \* p->loop and its chain, innermost last
    todo,    \* the parser's C stack
    phrases, \* how many statements and compound expressions have begun
    slips,   \* auxiliary: what the program has of what the generator gets wrong
    out,     \* the compiled program, <<>> until it is
    pc,      \* the machine: the next instruction of out, 0 when it does not run ...
    depth    \* ... and the operands on its stack

vars == <<chunks, loops, todo, phrases, slips, out, pc, depth>>

Jumps == {"jmp", "jne", "jnt", "jnn", "foreach"}

\* `outer' is the length of the chain of loops when the function was entered.
Fresh == [inst |-> <<>>, h |-> 0, outer |-> Len(loops)]

Blk == Last(chunks)
InBlk(c) == chunks' = Append(Front(chunks), c)

\* ymk_ipos
Pos(c) == Len(c.inst) + 1

Own(c) == SubSeq(loops, c.outer + 1, Len(loops))
NestOf(c) == LET own == Own(c) IN [i \in DOMAIN own |-> own[i].id]

-----------------------------------------------------------------------------
(* Emitting and patching *)

Coded(c, op, takes, gives, to) ==
    [c EXCEPT !.inst = Append(@, [op |-> op, takes |-> takes, gives |-> gives, to |-> to,
                                  leaves |-> FALSE, h |-> c.h, nest |-> NestOf(c)]),
              !.h = @ - takes + gives]

\* ymk_emitO and its kind: an instruction that is not a jump.
Emit(c, takes, gives) == Coded(c, "data", takes, gives, 0)

\* n pushes, and n times the field of what is on top.
Pushes(c, n) ==
    [c EXCEPT !.inst = @ \o [i \in 1 .. n |->
                                [op |-> "data", takes |-> 0, gives |-> 1, to |-> 0,
                                 leaves |-> FALSE, h |-> c.h + i - 1, nest |-> NestOf(c)]],
              !.h = @ + n]
Fields(c, n) ==
    [c EXCEPT !.inst = @ \o [i \in 1 .. n |->
                                [op |-> "data", takes |-> 1, gives |-> 1, to |-> 0,
                                 leaves |-> FALSE, h |-> c.h, nest |-> NestOf(c)]]]

\* ymk_hold of what will take and give so many operands.
Hold(c, takes, gives) == Coded(c, "panic", takes, gives, 0)

\* ymk_hack_jmp of each of `positions': the jump held there goes to the next instruction.
Patched(c, positions, op, leaves) ==
    [c EXCEPT !.inst = [i \in DOMAIN c.inst |->
        IF i \in positions
        THEN [c.inst[i] EXCEPT !.op = op, !.to = i + ((Pos(c) - i) % OffsetLimit),
                               !.leaves = leaves]
        ELSE c.inst[i]]]

\* ymk_emit_jmp, backward.
JumpBack(c, target) ==
    Coded(c, "jmp", 0, 0, Pos(c) - ((Pos(c) - target) % OffsetLimit))

\* ymk_hack of the PUSH that loads a function.
Loaded(c, i) == [c EXCEPT !.inst[i].op = "data"]

\* ymk_emit_end
Ended(c) ==
    IF c.inst # <<>> /\ Last(c.inst).op = "ret" THEN c ELSE Coded(c, "ret", 0, 0, 0)

-----------------------------------------------------------------------------
(* The parser *)

Item(do) == [do |-> do, at |-> 0, outs |-> <<>>, n |-> 0, vt |-> "none"]
Exprs(n) == [i \in 1 .. n |-> Item("expr")]

Parsing(do) == todo # <<>> /\ Last(todo).do = do
It == Last(todo)

\* The pending function on top is replaced by `items', or they are put above it.
Go(items) == todo' = Front(todo) \o items
Descend(items) == todo' = todo \o items

Stopped == UNCHANGED <<out, pc, depth>>
Begins == phrases < MaxPhrases /\ phrases' = phrases + 1 /\ Stopped
Proceeds == UNCHANGED phrases /\ Stopped
Neutral == UNCHANGED <<loops, slips>>

(* Expressions: parse_expr, parse_simple, parse_suffixed *)

Leaf ==
    /\ Parsing("expr")
    /\ InBlk(Emit(Blk, 0, 1))
    /\ Go(<<>>) /\ Neutral /\ Proceeds

\* Operators, fields, calls, arrays and maps: so many operands, then one
\* instruction that leaves a value.
Operands(n) ==
    /\ Parsing("expr")
    /\ Go(<<[Item("apply") EXCEPT !.at = 1, !.n = n]>> \o Exprs(n))
    /\ UNCHANGED chunks /\ Neutral /\ Begins

\* The instruction, when its operands have been parsed; `at' is what it leaves.
Apply ==
    /\ Parsing("apply")
    /\ InBlk(Emit(Blk, It.n, It.at))
    /\ Go(<<>>) /\ Neutral /\ Proceeds

\* and, or: ymk_hold_logc after the left operand, ymk_binary after the right one.
Logic(op) ==
    /\ Parsing("expr")
    /\ Go(<<[Item("logic") EXCEPT !.vt = op], Item("expr")>>)
    /\ UNCHANGED chunks /\ Neutral /\ Begins

LogicHold ==
    /\ Parsing("logic")
    /\ InBlk(Hold(Blk, 1, 0))
    /\ Go(<<[It EXCEPT !.do = "logc", !.at = Pos(Blk)], Item("expr")>>)
    /\ Neutral /\ Proceeds

LogicEnd ==
    /\ Parsing("logc")
    /\ InBlk(Patched(Blk, {It.at}, It.vt, FALSE))
    /\ Go(<<>>) /\ Neutral /\ Proceeds

(* Functions: parse_closure, parse_bind, parse_func, parse_func_decl *)

\* ymd_func and ymk_enter: a new chunk above c, whose function is loaded at `load'.
Enter(c, load) ==
    /\ chunks' = Append(Append(Front(chunks), c), Fresh)
    /\ Go((IF Parsing("block") THEN <<It>> ELSE <<>>)
          \o <<[Item("func") EXCEPT !.at = load], Item("block")>>)

Binds(c, n) ==
    IF n = 0 THEN c
    ELSE Emit(Pushes(c, n), n + 1, 1)

Closure(binds) ==
    /\ Parsing("expr")
    /\ Enter(Binds(Hold(Blk, 0, 1), binds), Pos(Blk))
    /\ Neutral /\ Begins

\* func f() {} and func a.b.c() {}, with so many names.
FuncDecl(names) ==
    /\ Parsing("block")
    /\ LET path == Fields(Emit(Blk, 0, 1), names - 2)
           held == Hold(IF names = 1 THEN Blk ELSE path, 0, 1)
       IN Enter(IF names = 1 THEN Emit(held, 1, 0) ELSE Emit(held, 2, 0), Len(held.inst))
    /\ Neutral /\ Begins

EndFunc ==
    /\ Parsing("func")
    /\ LET outer == chunks[Len(chunks) - 1]
       IN chunks' = Append(SubSeq(chunks, 1, Len(chunks) - 2), Loaded(outer, It.at))
    /\ Go(<<>>) /\ Neutral /\ Proceeds

(* Statements: parse_block, parse_stmt *)

EndBlock ==
    /\ Parsing("block") /\ Len(todo) > 1
    /\ Go(<<>>) /\ UNCHANGED chunks /\ Neutral /\ Proceeds

Return ==
    /\ Parsing("block")
    /\ Descend(<<Item("ret"), Item("expr")>>)
    /\ UNCHANGED chunks /\ Neutral /\ Begins

EmitRet ==
    /\ Parsing("ret")
    /\ InBlk(Coded(Blk, "ret", 1, 0, 0))
    /\ Go(<<>>) /\ Neutral /\ Proceeds

\* parse_expr_stat, parse_decl: an assignment or a call.  `vt' says what the last
\* part of the left side is; ymk_lval_partial emits it once more follows.
PartialOfIndexed(c, vt) ==
    CASE vt = "symbol" -> Emit(c, 0, 1)
      [] vt = "dot" -> Emit(c, 1, 1)
      [] vt = "index" -> c
      [] vt = "call" -> c
Partial(c, vt) ==
    CASE vt = "symbol" -> Emit(c, 0, 1)
      [] vt = "dot" -> Emit(c, 1, 1)
      [] vt = "index" -> Emit(c, 2, 1)
      [] vt = "call" -> c

Lval == [Item("lval") EXCEPT !.vt = "symbol"]
BeginStat ==
    /\ Parsing("block")
    /\ Descend(<<Lval>>)
    /\ UNCHANGED chunks /\ Neutral /\ Begins

\* The left side goes on: `.name', `[expr]', or the arguments of a call, whose
\* results are adjusted to none.
Suffix(vt, args) ==
    /\ Parsing("lval")
    /\ InBlk(Partial(Blk, It.vt))
    /\ Go(<<[Lval EXCEPT !.vt = vt]>>
          \o (CASE vt = "dot" -> <<>>
                [] vt = "index" -> Exprs(1)
                [] vt = "call" -> <<[Item("apply") EXCEPT !.n = args + 1]>> \o Exprs(args)))
    /\ slips' = IF It.vt = "call" THEN slips \cup {"chain"} ELSE slips
    /\ UNCHANGED loops /\ Begins

Assign ==
    /\ Parsing("lval") /\ It.vt # "call"
    /\ Go(<<[It EXCEPT !.do = "assign"], Item("expr")>>)
    /\ UNCHANGED chunks /\ Neutral /\ Proceeds

AssignEnd ==
    /\ Parsing("assign")
    /\ InBlk(Emit(Blk, CASE It.vt = "symbol" -> 1
                          [] It.vt = "dot" -> 2
                          [] It.vt = "index" -> 3, 0))
    /\ Go(<<>>) /\ Neutral /\ Proceeds

EndStat ==
    /\ Parsing("lval") /\ It.vt = "call"
    /\ Go(<<>>) /\ UNCHANGED chunks /\ Neutral /\ Proceeds

(* if, elif, else: parse_if.  `at' is jnxt, `outs' is jout, `n' is nsub. *)

BeginIf ==
    /\ Parsing("block")
    /\ Descend(<<Item("cond"), Item("expr")>>)
    /\ UNCHANGED chunks /\ Neutral /\ Begins

Cond ==
    /\ Parsing("cond")
    /\ InBlk(Hold(Blk, 1, 0))
    /\ Go(<<[It EXCEPT !.do = "branch", !.at = Pos(Blk)], Item("block")>>)
    /\ Neutral /\ Proceeds

\* Both hold a jump to the end, and the last condition goes on behind it.
Branched == Patched(Hold(Blk, 0, 0), {It.at}, "jne", FALSE)
Outs == Append(It.outs, Pos(Blk))

Elif ==
    /\ Parsing("branch")
    /\ InBlk(Branched)
    /\ Go(<<[It EXCEPT !.do = "cond", !.outs = Outs, !.n = @ + 1], Item("expr")>>)
    /\ Neutral /\ Begins

Else ==
    /\ Parsing("branch")
    /\ InBlk(Branched)
    /\ Go(<<[It EXCEPT !.do = "else", !.outs = Outs, !.n = @ + 1], Item("block")>>)
    /\ Neutral /\ Begins

EndElse ==
    /\ Parsing("else")
    /\ InBlk(Patched(Blk, Range(It.outs), "jmp", FALSE))
    /\ Go(<<>>) /\ Neutral /\ Proceeds

\* Without an else: the last condition is patched only if there was no elif.
EndIfUnpatched ==
    /\ Parsing("branch")
    /\ InBlk(Patched(Blk, Range(It.outs), "jmp", FALSE))
    /\ Go(<<>>)
    /\ slips' = IF It.n > 0 THEN slips \cup {"elif"} ELSE slips
    /\ UNCHANGED loops /\ Proceeds
EndIf ==
    /\ Parsing("branch")
    /\ LET c == Patched(Blk, Range(It.outs), "jmp", FALSE)
       IN InBlk(IF It.n = 0 THEN Patched(c, {It.at}, "jne", FALSE) ELSE c)
    /\ Go(<<>>)
    /\ slips' = IF It.n > 0 THEN slips \cup {"elif"} ELSE slips
    /\ UNCHANGED loops /\ Proceeds

(* for, break, continue: parse_for, parse_goto *)

\* ymk_loop_enter
Loop(retry, death) ==
    [retry |-> retry, jcond |-> 1, breaks |-> <<>>, death |-> death,
     id |-> <<Pos(Blk), Len(loops)>>]

For ==
    /\ Parsing("block")
    /\ loops' = Append(loops, Loop(Pos(Blk), TRUE))
    /\ Descend(<<Item("loop"), Item("block")>>)
    /\ UNCHANGED <<chunks, slips>> /\ Begins

\* for x in expr: the loop is entered before the expression is parsed.
ForIn ==
    /\ Parsing("block")
    /\ loops' = Append(loops, Loop(1, FALSE))
    /\ Descend(<<Item("iter"), Item("expr")>>)
    /\ UNCHANGED <<chunks, slips>> /\ Begins

\* Store the iterator; then, every time: push it, call it, leave when it gives nil,
\* store what it gives.
Iter ==
    /\ Parsing("iter")
    /\ LET called == Emit(Emit(Emit(Blk, 1, 0), 0, 1), 1, 1)
       IN /\ InBlk(Emit(Hold(called, 1, 1), 1, 0))
          /\ loops' = Append(Front(loops), [Last(loops) EXCEPT !.retry = Pos(Blk) + 1,
                                                               !.jcond = Pos(called)])
    /\ Go(<<Item("loop"), Item("block")>>)
    /\ UNCHANGED slips /\ Proceeds

\* ymk_loop_leave: jump back, then patch the breaks and the condition.
CondLeft(c, loop) == IF loop.death THEN c ELSE Patched(c, {loop.jcond}, "foreach", TRUE)
LeftEarly(c, loop) ==
    JumpBack(CondLeft(Patched(c, Range(loop.breaks), "jmp", TRUE), loop), loop.retry)
Left(c, loop) ==
    CondLeft(Patched(JumpBack(c, loop.retry), Range(loop.breaks), "jmp", TRUE), loop)

\* Its assertions: the positions it patches are behind it.
EndLoop ==
    /\ Parsing("loop")
    /\ \A i \in Range(Last(loops).breaks) \cup {Last(loops).retry} : i <= Pos(Blk)
    /\ InBlk(Left(Blk, Last(loops)))
    /\ loops' = Front(loops)
    /\ Go(<<>>)
    /\ UNCHANGED slips /\ Proceeds

\* p->loop is not reset in a nested function: it may be a loop of an outer one.
\* Without any loop p->loop is NULL, and break and continue are undefined.
Slipped == slips' = IF Own(Blk) = <<>> THEN slips \cup {"outer"} ELSE slips

Break ==
    /\ Parsing("block") /\ loops # <<>>
    /\ InBlk(Hold(Blk, 0, 0))
    /\ loops' = Append(Front(loops), [Last(loops) EXCEPT !.breaks = Append(@, Pos(Blk))])
    /\ Slipped /\ UNCHANGED todo /\ Begins

Continue ==
    /\ Parsing("block") /\ loops # <<>>
    /\ Last(loops).retry <= Pos(Blk)
    /\ InBlk(JumpBack(Blk, Last(loops).retry))
    /\ Slipped /\ UNCHANGED <<loops, todo>> /\ Begins

\* The end of ymc_compile, and of ymd_compile; the machine is about to run.
Finish ==
    /\ Parsing("block") /\ Len(todo) = 1
    /\ out' = Ended(Blk).inst
    /\ chunks' = <<>> /\ Go(<<>>)
    /\ pc' = 1 /\ depth' = 0
    /\ UNCHANGED phrases /\ Neutral

-----------------------------------------------------------------------------
(* The machine: vm_run *)

Now == out[pc]
Executing(ops) == pc \in DOMAIN out /\ Now.op \in ops /\ depth >= Now.takes
Machine(next, operands) ==
    /\ pc' = next /\ depth' = operands
    /\ UNCHANGED <<chunks, loops, todo, phrases, slips, out>>

RunData == Executing({"data"}) /\ Machine(pc + 1, depth - Now.takes + Now.gives)

RunJmp == Executing({"jmp"}) /\ Machine(Now.to, depth)

\* I_JNE takes the condition in either case, I_JNT and I_JNN leave it as the value
\* of the expression when they jump.
RunJne ==
    /\ Executing({"jne"})
    /\ \E next \in {pc + 1, Now.to} : Machine(next, depth - 1)
RunLogic ==
    /\ Executing({"jnt", "jnn"})
    /\ \/ Machine(pc + 1, depth - 1)
       \/ Machine(Now.to, depth)

\* I_FOREACH looks at the top: nil is dropped and ends the loop, anything else is stored next.
RunForeach ==
    /\ Executing({"foreach"})
    /\ \/ Machine(pc + 1, depth)
       \/ Machine(Now.to, depth - 1)

\* I_RET, and the end of the code.
RunEnd ==
    /\ Executing({"ret"}) \/ (out # <<>> /\ pc = Len(out) + 1)
    /\ Machine(0, depth)

-----------------------------------------------------------------------------
Init ==
    /\ chunks = <<[inst |-> <<>>, h |-> 0, outer |-> 0]>> /\ loops = <<>>
    /\ todo = <<Item("block")>>
    /\ phrases = 0 /\ slips = {} /\ out = <<>> /\ pc = 0 /\ depth = 0

Compile ==
    \/ Leaf \/ Apply
    \/ \E n \in 1 .. MaxOperands : Operands(n)
    \/ \E op \in {"jnt", "jnn"} : Logic(op)
    \/ LogicHold \/ LogicEnd
    \/ \E n \in 0 .. MaxOperands - 1 : Closure(n)
    \/ \E n \in 1 .. 3 : FuncDecl(n)
    \/ EndFunc \/ EndBlock
    \/ Return \/ EmitRet
    \/ BeginStat \/ Assign \/ AssignEnd \/ EndStat
    \/ \E vt \in {"dot", "index"} : Suffix(vt, 0)
    \/ \E n \in 0 .. MaxOperands - 1 : Suffix("call", n)
    \/ BeginIf \/ Cond \/ Elif \/ Else \/ EndElse \/ EndIf
    \/ For \/ ForIn \/ Iter \/ EndLoop \/ Break \/ Continue
    \/ Finish

Run == RunData \/ RunJmp \/ RunJne \/ RunLogic \/ RunForeach \/ RunEnd

Next == Compile \/ Run

Spec == Init /\ [][Next]_vars

-----------------------------------------------------------------------------
(* Properties *)

Where == Nat
LoopId == Where \X Nat
Inst == [op : Jumps \cup {"data", "panic", "ret"}, takes : Nat, gives : Nat,
         to : Where, leaves : BOOLEAN, h : Int, nest : Seq(LoopId)]

\* What a pending function is, and the kind of a left side or of a logical operator.
Doings == {"expr", "apply", "logic", "logc", "func", "block", "ret", "lval", "assign",
           "cond", "branch", "else", "loop", "iter"}
Kinds == {"none", "symbol", "dot", "index", "call", "jnt", "jnn"}

\* Jumps included: they go to an instruction or to the end of the code.
TypeOK ==
    /\ chunks \in Seq([inst : Seq(Inst), h : Int, outer : Nat])
    /\ loops \in Seq([retry : Where, jcond : Where, breaks : Seq(Where), death : BOOLEAN,
                      id : LoopId])
    /\ todo \in Seq([do : Doings, at : Where, outs : Seq(Where), n : Nat, vt : Kinds])
    /\ slips \subseteq {"elif", "outer", "chain"}
    /\ out \in Seq(Inst)
    /\ pc \in Where /\ depth \in Nat
    /\ \A i \in DOMAIN out : out[i].to <= Len(out) + 1

\* A function whose code is complete: the program, or the innermost one when its
\* block has been parsed.
Complete == IF Parsing("func") THEN Ended(Blk).inst ELSE out

\* compiler.c, ymk_hold: `ymk_emitO(p, I_PANIC)' holds a place until it is patched.
NothingHeld == \A i \in DOMAIN Complete : Complete[i].op # "panic"

\* No held jump is forgotten, in any nesting of the constructs that hold one; but
\* for an elif without an else, and for a break out of an outer function.
NothingHeldUnlessSlipped == slips \cap {"elif", "outer"} = {} => NothingHeld

\* Types; and what ymk_loop_leave and parse_goto patch: a jump stays in the loops of the
\* place it leaves from, but those of a break and of the end of a loop, which leave
\* the innermost one and no other.
NestAt(code, i) == IF i \in DOMAIN code THEN code[i].nest ELSE <<>>
LoopsKept ==
    /\ TypeOK
    /\ "outer" \notin slips =>
        \A i \in DOMAIN Complete : Complete[i].op \in Jumps =>
            LET from == Complete[i].nest
                to == NestAt(Complete, Complete[i].to)
            IN IF Complete[i].leaves
               THEN /\ from # <<>> /\ IsPrefix(Front(from), to)
                    /\ Last(from) \notin Range(to)
               ELSE IsPrefix(from, to)

\* Whatever path vm_run has taken to an instruction, it finds on the stack the
\* operands the parse functions counted on; a return has its result and nothing
\* else, and the end of the code is reached with nothing.
OperandsAgree ==
    slips = {} =>
        /\ pc \in DOMAIN out => /\ depth = Now.h /\ depth >= Now.takes
                                /\ Now.op = "ret" => depth = Now.takes
        /\ out # <<>> /\ pc > Len(out) => depth = 0
=============================================================================

------------------------------ MODULE YmdCall ------------------------------
(***************************************************************************)
(* Calls: the chain of call_info, the windows of local variables, the      *)
(* value stack all calls share, the argument array each function owns, and *)
(* the chain of jump buffers behind pcall, error and panic (call.c; the    *)
(* fake stack of state.h; ymd_panic and ymd_error of state.c; libx_pcall   *)
(* and libx_error of libc.c; yut_call of libtest.c).                       *)
(*                                                                         *)
(* A compiled function may do anything the compiler emits: push an operand,*)
(* pop it into a local, call a callable on the stack, return, or panic     *)
(* (a type error, a division by zero, a full stack).  Natives run to their *)
(* next call or return in one step.                                        *)
(*                                                                         *)
(* RoomForOneMore, ZeroedFromBase, NotLeft, NotEmptied, SurplusKept and    *)
(* NilsForgotten are faulty variants of a definition after each, for the   *)
(* mutation tests; nothing else uses them.                                 *)
(***************************************************************************)
EXTENDS Naturals, SequencesExt

CONSTANTS
    Fun,        \* compiled functions
    PCall,      \* the native pcall
    Error,      \* the native error
    Data,       \* values that cannot be called
    Ref,        \* any table or array
    Nil,
    NParams,    \* chunk->kargs of each compiled function
    NLocals,    \* func_nlocal: parameters, argv and the other locals
    MaxStack,   \* MAX_STACK
    MaxLocal,   \* MAX_LOCAL; nothing checks it, so calls beyond it are left out
    MaxFrames,  \* bound on the depth of calls
    MaxArgs,    \* bound on the arguments of a call
    MaxArgv     \* bound on the length of an argument array

Callable == Fun \cup {PCall, Error}
Value == Callable \cup Data \cup {Ref, Nil}

ASSUME CallAssumption ==
    /\ PCall # Error /\ {PCall, Error} \cap Fun = {}
    /\ ({Nil, Ref} \cup Data) \cap Callable = {}
    /\ NParams \in [Fun -> Nat] /\ NLocals \in [Fun -> Nat]
    /\ \A f \in Fun : NParams[f] < NLocals[f]
    /\ MaxStack \in Nat /\ MaxLocal \in Nat /\ MaxArgs \in Nat
    /\ MaxStack > 0

VARIABLES
    stk,     \* the value stack, l->stk .. l->top
    loc,     \* the local variables, l->loc
    frames,  \* the call chain, oldest first
    jpts,    \* the chain of jump buffers, oldest first
    argv,    \* fn->argv of each callable
    mixed,   \* auxiliary: callables whose argv holds more than one call's arguments
    dirty    \* auxiliary: a pcall returned on top of operands of unwound calls

vars == <<stk, loc, frames, jpts, argv, mixed, dirty>>

\* A frame: the callable; where its locals start; how far it is; its arguments;
\* the results its caller asked for (asm_aret); and, as the compiler counts
\* them, the height of the stack under its operands and how many they are.
FrameSet == [fn : Callable, base : Nat, at : {"run", "enter", "wait", "ok", "err"},
             args : Seq(Value), aret : {0, 1}, h : Nat, depth : Nat]

Running == Last(frames)
InScript == frames # <<>> /\ Running.fn \in Fun
InNative(f, at) == frames # <<>> /\ Running.fn = f /\ Running.at = at
RoomForOneMore(n) == Len(stk) + n <= MaxStack + 1
Room(n) == Len(stk) + n <= MaxStack
Topmost(n) == SubSeq(stk, Len(stk) - n + 1, Len(stk))
Popped(n) == SubSeq(stk, 1, Len(stk) - n)
Active(f) == \E i \in DOMAIN frames : frames[i].fn = f
Locals(f) == IF f \in Fun THEN NLocals[f] ELSE 0
WithDepth(fr, d) == [fr EXCEPT ![Len(fr)].depth = d]
WithAt(fr, place) == [fr EXCEPT ![Len(fr)].at = place]

-----------------------------------------------------------------------------
(* Linking a call: call_init, vm_call up to the first instruction *)

\* The slots call_init zeroes.
ZeroedFromBase(base, n) == base .. base + n - 1
Zeroed(base, n) == base + 1 .. base + n

\* As many locals as the CALLER has are zeroed; then the parameters and argv
\* are set, from the last arguments when there are too many.
EntryLocals(f, args, base, zeroed) ==
    [i \in 1 .. MaxLocal |->
        LET k == IF f \in Fun THEN IF NParams[f] < Len(args) THEN NParams[f] ELSE Len(args)
                              ELSE 0
        IN IF i \in base + 1 .. base + k THEN args[Len(args) - k + i - base]
           ELSE IF f \in Fun /\ i = base + NParams[f] + 1
                THEN IF args = <<>> THEN Nil ELSE Ref
           ELSE IF i \in Zeroed(base, zeroed) THEN Nil
           ELSE loc[i]]

\* func_nlocal, and call_init's place for the locals of a callee.
Above(callers) ==
    IF callers = <<>> THEN 0 ELSE Last(callers).base + Locals(Last(callers).fn)

\* call_jenter and call_jleave.
Entered(level, at) == Append(jpts, [level |-> level, at |-> at])
NotLeft == jpts
Left == Front(jpts)

\* dyay_final on fn->argv.
NotEmptied(f) == argv
Emptied(f) == [argv EXCEPT ![f] = <<>>]

\* ymd_adjust: rv results on top of `from', and `aret' asked for.
SurplusKept(from, rv, aret) ==
    IF aret < rv THEN from ELSE from \o [i \in 1 .. aret - rv |-> Nil]
NilsForgotten(from, rv, aret) ==
    IF aret < rv THEN SubSeq(from, 1, Len(from) - (rv - aret)) ELSE from
Adjusted(from, rv, aret) ==
    IF aret < rv THEN SubSeq(from, 1, Len(from) - (rv - aret))
    ELSE from \o [i \in 1 .. aret - rv |-> Nil]

\* f is called with args by the last frame of `callers'; the operands left under
\* the call are `below'.
Link(f, args, callers, below, aret) ==
    LET caller == IF callers = <<>> THEN 0 ELSE Locals(Last(callers).fn)
        base == Above(callers)
    IN /\ Len(callers) < MaxFrames
       /\ base + Locals(f) <= MaxLocal /\ base + caller <= MaxLocal
       /\ Len(argv[f]) + Len(args) <= MaxArgv
       /\ stk' = below
       /\ loc' = EntryLocals(f, args, base, caller)
       /\ frames' = Append(callers, [fn |-> f, base |-> base, args |-> args, aret |-> aret,
                                     at |-> IF f \in Fun THEN "run" ELSE "enter",
                                     h |-> Len(below), depth |-> 0])
       /\ argv' = [argv EXCEPT ![f] = @ \o args]
       /\ mixed' = IF Active(f) THEN mixed \cup {f} ELSE mixed

\* yut_call and ymd_xcall: the host pushes a function and its arguments, and
\* enters the machine behind the first jump buffer.
HostCall(f, args) ==
    /\ frames = <<>> /\ Room(1 + Len(args))
    /\ Link(f, args, <<>>, stk, 0)
    /\ jpts' = Entered(1, 0)
    /\ dirty' = FALSE

\* I_CALL, I_SELFCALL: the callable is under its arguments; a method is found in
\* the first of them instead.
Call(argc, aret) ==
    /\ InScript /\ Running.depth > argc
    /\ LET f == stk[Len(stk) - argc]
           caller == WithDepth(frames, Running.depth - (argc + 1))
       IN f \in Callable /\ Link(f, Topmost(argc), caller, Popped(argc + 1), aret)
    /\ UNCHANGED <<jpts, dirty>>

SelfCall(f, argc, aret) ==
    /\ InScript /\ Running.depth > argc
    /\ LET caller == WithDepth(frames, Running.depth - (argc + 1))
       IN Link(f, Topmost(argc + 1), caller, Popped(argc + 1), aret)
    /\ UNCHANGED <<jpts, dirty>>

-----------------------------------------------------------------------------
(* A compiled function at work *)

Push(v) ==
    /\ InScript /\ Room(1)
    /\ stk' = Append(stk, v)
    /\ frames' = WithDepth(frames, Running.depth + 1)
    /\ UNCHANGED <<loc, jpts, argv, mixed, dirty>>

\* I_STORE; with i = 0 a store to a global or a conditional jump.
Store(i) ==
    /\ InScript /\ Running.depth > 0 /\ i <= NLocals[Running.fn]
    /\ loc' = IF i = 0 THEN loc ELSE [loc EXCEPT ![Running.base + i] = Last(stk)]
    /\ stk' = Popped(1)
    /\ frames' = WithDepth(frames, Running.depth - 1)
    /\ UNCHANGED <<jpts, argv, mixed, dirty>>

\* The end of vm_call with rv results, in ymd_xcall (then ymd_adjust to none), in
\* libx_pcall, or in a compiled caller (then ymd_adjust to aret).  `from' is the
\* stack with the results on it.
Leave(rv, from) ==
    LET f == Running.fn
        rest == Front(frames)
    IN /\ argv' = Emptied(f)
       /\ mixed' = IF \E i \in DOMAIN rest : rest[i].fn = f THEN mixed ELSE mixed \ {f}
       /\ \/ /\ rest = <<>>
             /\ stk' = Adjusted(from, rv, 0) /\ frames' = <<>> /\ jpts' = Left
          \/ /\ rest # <<>> /\ Last(rest).fn = PCall
             /\ stk' = from /\ jpts' = Left
             /\ frames' = WithDepth(WithAt(rest, "ok"), rv)
          \/ /\ rest # <<>> /\ Last(rest).fn \in Fun
             /\ Len(Adjusted(from, rv, Running.aret)) <= MaxStack
             /\ stk' = Adjusted(from, rv, Running.aret) /\ UNCHANGED jpts
             /\ frames' = WithDepth(rest, Last(rest).depth + Running.aret)

\* I_RET: compiled code has nothing but the result on its part of the stack.
Return ==
    /\ InScript /\ Running.depth \in {0, 1}
    /\ Leave(Running.depth, stk)
    /\ UNCHANGED <<loc, dirty>>

-----------------------------------------------------------------------------
(* pcall, error, panic *)

\* libx_pcall: push the function and the arguments it finds in argv, and call it
\* behind a jump buffer one level deeper.
Protect ==
    /\ InNative(PCall, "enter") /\ argv[PCall] # <<>>
    /\ Head(argv[PCall]) \in Callable /\ Room(Len(argv[PCall]))
    /\ Link(Head(argv[PCall]), Tail(argv[PCall]), WithAt(frames, "wait"), stk, 0)
    /\ jpts' = Entered(Last(jpts).level + 1, Len(frames))
    /\ UNCHANGED dirty

\* The rest of libx_pcall: a table takes the result, or the three values error
\* left on top, and is returned.
Answer ==
    /\ InNative(PCall, "ok") \/ InNative(PCall, "err")
    /\ Room(1)
    /\ LET taken == IF Running.at = "err" THEN 3 ELSE Running.depth
       IN /\ Leave(1, Append(Popped(taken), Ref))
          /\ dirty' = (dirty \/ Len(stk) - taken > Running.h)
    /\ UNCHANGED loc

\* libx_error and ymd_error: push the message, the place and the back trace (one
\* slot more while that is built), empty the argument array of error itself, and
\* jump to the nearest buffer.  ymd_pcall returns to libx_pcall, on top of what
\* the calls in between had on the stack; ymd_xcall empties the stack.
Raise ==
    /\ InNative(Error, "enter") /\ Room(4)
    /\ argv' = Emptied(Error)
    /\ LET j == Last(jpts)
           gone == {frames[i].fn : i \in j.at + 1 .. Len(frames) - 1}
       IN /\ jpts' = Left
          /\ mixed' = mixed \cup gone
          /\ IF j.level > 1
             THEN /\ frames' = WithAt(SubSeq(frames, 1, j.at), "err")
                  /\ stk' = stk \o <<Ref, Ref, Ref>>
             ELSE frames' = <<>> /\ stk' = <<Nil>>
    /\ UNCHANGED <<loc, dirty>>

\* ymd_panic: jump to the nearest buffer with 1; ymd_pcall passes it on as long
\* as that is below its level.  The host empties the stack; ymd_adjust then takes
\* the negative result for a missing one and pushes nil.
Panic ==
    /\ frames # <<>>
    /\ \E t \in DOMAIN jpts :
          /\ jpts[t].level <= 1 /\ \A i \in DOMAIN jpts : i > t => jpts[i].level > 1
          /\ jpts' = SubSeq(jpts, 1, t - 1)
          /\ frames' = SubSeq(frames, 1, jpts[t].at)
    /\ mixed' = mixed \cup {frames[i].fn : i \in DOMAIN frames}
    /\ stk' = <<Nil>>
    /\ UNCHANGED <<loc, argv, dirty>>

-----------------------------------------------------------------------------
Init ==
    /\ stk = <<>> /\ frames = <<>> /\ jpts = <<>>
    /\ loc = [i \in 1 .. MaxLocal |-> Nil]
    /\ argv = [f \in Callable |-> <<>>]
    /\ mixed = {} /\ dirty = FALSE

Next ==
    \/ \E f \in Fun, args \in UNION {[1 .. n -> Data] : n \in 0 .. MaxArgs} : HostCall(f, args)
    \/ \E argc \in 0 .. MaxArgs, aret \in {0, 1} :
          \/ Call(argc, aret)
          \/ argc < MaxArgs /\ \E f \in Callable : SelfCall(f, argc, aret)
    \/ \E v \in Callable \cup Data : Push(v)
    \/ \E i \in 0 .. MaxLocal : Store(i)
    \/ Return \/ Protect \/ Answer \/ Raise \/ Panic

Spec == Init /\ [][Next]_vars

-----------------------------------------------------------------------------
(* Properties *)

TypeOK ==
    /\ stk \in Seq(Value) /\ Len(stk) <= MaxStack
    /\ loc \in [1 .. MaxLocal -> Value]
    /\ frames \in Seq(FrameSet)
    /\ jpts \in Seq([level : Nat, at : Nat])
    /\ argv \in [Callable -> Seq(Value)]
    /\ mixed \subseteq Callable /\ dirty \in BOOLEAN

\* Every jump buffer belongs to a C function that has not returned: the first to
\* the host's ymd_xcall, each other to a pcall on the call chain that waits for
\* its callee, so ymd_error and ymd_panic never jump into a dead frame; and
\* levels count the buffers, so a panic reaches the host.
JumpTargets ==
    /\ (frames = <<>>) <=> (jpts = <<>>)
    /\ \A i \in DOMAIN jpts :
          /\ jpts[i].level = i /\ jpts[i].at < Len(frames)
          /\ IF i = 1 THEN jpts[i].at = 0
             ELSE /\ frames[jpts[i].at].fn = PCall /\ frames[jpts[i].at].at = "wait"
                  /\ jpts[i - 1].at < jpts[i].at
    /\ \A k \in DOMAIN frames : frames[k].at = "wait" => \E i \in DOMAIN jpts : jpts[i].at = k

\* The stack holds what the compiler counted on, call by call: a call takes its
\* arguments, leaves the results asked for, and nothing else (ymd_adjust).
Height(i) == IF i < Len(frames) THEN frames[i + 1].h ELSE Len(stk)
Balanced == \A i \in DOMAIN frames :
    frames[i].at # "err" => Height(i) = frames[i].h + frames[i].depth

\* That is so until a pcall catches an error raised under pending operands: those
\* stay on the stack, below its result.
BalancedUnlessDirty == ~dirty => Balanced

\* The argument array of a function holds the arguments of its call, unless the
\* function was entered again meanwhile, or left by an error or a panic.
ArgvOfCall ==
    /\ \A f \in Callable \ mixed : ~Active(f) => argv[f] = <<>>
    /\ \A i \in DOMAIN frames : frames[i].fn \notin mixed => argv[frames[i].fn] = frames[i].args

\* No pop of a call, by an instruction, a return, libx_pcall or a jump, takes an
\* operand of the calls below it: each keeps what it put on the stack, and what
\* ymd_error left for it.
Owed(fr) == IF fr.at = "err" THEN 3 ELSE fr.depth
NeverShort == \A i \in DOMAIN frames : frames[i].h + Owed(frames[i]) <= Height(i)

\* A call never writes the locals of the calls below it, nor a callee's entry
\* those of its caller (call_init's windows).
LocalsOfCallers ==
    [][frames # <<>> =>
          \A i \in DOMAIN loc :
             i <= (IF Len(frames') > Len(frames) THEN Above(frames) ELSE Running.base)
             => loc'[i] = loc[i]]_vars
=============================================================================

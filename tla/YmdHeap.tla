------------------------------ MODULE YmdHeap ------------------------------
(***************************************************************************)
(* The garbage-collected heap of the machine: the objects, the mark bits,  *)
(* the roots, the interned strings, and the C functions that allocate,     *)
(* link, grab and release them (memory.c, string.c, state.h, state.c).     *)
(*                                                                         *)
(* Collection is stop-the-world, but it may run inside ANY allocation      *)
(* (gc_record), so a C function that allocates twice gives the collector a *)
(* chance between its two halves.  Those functions are split here at each  *)
(* allocation; `op` is the C function in progress and the pointers that    *)
(* live only in its C locals.  Whether an allocation collects depends on   *)
(* byte counts (module YmdAccount); here it is a choice, unless paused.    *)
(*                                                                         *)
(* RoomForOneMore, RootsWithoutLocals, SurvivorsNotGrabbed, PushMadeKept,  *)
(* MissAlways are faulty variants of the definition after each, for the    *)
(* mutation tests; nothing else uses them.                                 *)
(***************************************************************************)
EXTENDS Naturals, Sequences, Functions

CONSTANTS
    Obj,        \* addresses of heap objects
    Global,     \* the hash map of global variables, vm->global
    Text,       \* spellings of interned strings (shorter than MAX_KPOOL_LEN)
    Nil,        \* the value nil, or no object
    Argv,       \* the slot of a function that holds its argument array
    MaxStack,   \* MAX_STACK
    MaxLocal,   \* MAX_LOCAL
    MaxFrames,  \* bound on the depth of calls
    MaxPause    \* bound on the pause counter

ASSUME HeapAssumption ==
    /\ Global \in Obj
    /\ Nil \notin Obj
    /\ Argv \notin Obj \cup {Nil}
    /\ Text \cap {"free", "hmap", "func"} = {}
    /\ MaxStack \in Nat /\ MaxLocal \in Nat

VARIABLES
    cell,     \* what each address holds: "free", a container, a function or a string
    kids,     \* the <<slot, value>> pairs the object refers to
    gray,     \* objects with GC_GRAY_BIT0: grabbed, spared by the sweep
    stk,      \* the value stack, l->stk .. l->top
    loc,      \* the array of local variables, l->loc
    frames,   \* the call chain, l->info, oldest first
    pause,    \* gc->pause
    op,       \* the C function in progress
    leaked,   \* auxiliary: grabbed objects whose holder was unwound
    exposed   \* auxiliary: some C code relied on an object nothing protects

vars == <<cell, kids, gray, stk, loc, frames, pause, op, leaked, exposed>>

Value == Obj \cup {Nil}
Alloced == {o \in Obj : cell[o] # "free"}
Interned(t) == {s \in Obj : cell[s] = t}
IsString(o) == cell[o] \in Text

Idle == [at |-> "idle", obj |-> Nil, key |-> Nil]
Held == {op.obj, op.key} \ {Nil}

Top(i) == stk[Len(stk) - i]
Popped(n) == SubSeq(stk, 1, Len(stk) - n)
RoomForOneMore == Len(stk) <= MaxStack
Room == Len(stk) < MaxStack

-----------------------------------------------------------------------------
(* Marking and sweeping *)

\* In a heap with references k: what object o refers to.
Children(k, o) == {x \in Obj : \E e \in k[o] : x \in {e[1], e[2]}}

\* One past the last local of the running frame: info->loc + func_nlocal.
Window == IF frames = <<>> THEN 0
          ELSE frames[Len(frames)].base + frames[Len(frames)].n

Locals == {loc[i] : i \in 1 .. Window}
Running == {frames[i].run : i \in DOMAIN frames}
RootsWithoutLocals == ({Global} \cup Range(stk) \cup Running) \ {Nil}
Roots == ({Global} \cup Range(stk) \cup Locals \cup Running) \ {Nil}

\* What the recursive gc_mark_* functions mark: the least set that holds the
\* roots and, with an object, everything the object refers to.
Closed(k, C) == \A o \in C : Children(k, o) \subseteq C
Reach(k, R) ==
    {o \in Obj : \A C \in SUBSET Obj : R \subseteq C /\ Closed(k, C) => o \in C}

Reached == Reach(kids, Roots)
SurvivorsNotGrabbed == Alloced \cap Reached
Survivors == Alloced \cap (Reached \cup gray)

\* The objects left when an allocation has (gc) or has not collected.
Live(gc) == IF gc /\ pause = 0 THEN Survivors ELSE Alloced

\* The heap once only `live' is left and, unless o is Nil, o is created.
Heap(live, o, what, refs) ==
    /\ cell' = [x \in Obj |-> IF x = o THEN what
                              ELSE IF x \in live THEN cell[x] ELSE "free"]
    /\ kids' = [x \in Obj |-> IF x = o THEN refs
                              ELSE IF x \in live THEN kids[x] ELSE {}]

Sweep(live) == Heap(live, Nil, "free", {})

\* After the sweep, object c refers to `refs'.
SweepAndSet(live, c, refs) ==
    /\ cell' = [x \in Obj |-> IF x \in live THEN cell[x] ELSE "free"]
    /\ kids' = [x \in Obj |-> IF x = c THEN refs
                              ELSE IF x \in live THEN kids[x] ELSE {}]

\* A map or a list with key k bound to v; in an array or a chunk (k = Nil) v is added.
Bound(c, k, v) ==
    (IF k = Nil THEN kids[c] ELSE {e \in kids[c] : e[1] # k}) \cup {<<k, v>>}

\* ymd_panic: longjmp to the outermost protected call, which empties the stack
\* and the call chain.  What op had grabbed is never released.  `leaked' has the
\* objects only; a string so abandoned is still in the pool, to be found again.
Unwind ==
    /\ stk' = <<>> /\ frames' = <<>>
    /\ op' = Idle
    /\ leaked' = leaked \cup (IF op.obj = Nil THEN {} ELSE {op.obj})
    /\ UNCHANGED <<loc, pause>>

-----------------------------------------------------------------------------
(* Allocation *)

\* gc_new for a container or a native function: the object is born grabbed.
NewObject(o, what, gc) ==
    /\ op = Idle
    /\ o \notin Alloced
    /\ Heap(Live(gc), o, what, {})
    /\ gray' = gray \cup {o}
    /\ op' = [at |-> "made", obj |-> o, key |-> Nil]
    /\ UNCHANGED <<stk, loc, frames, pause, leaked, exposed>>

\* hmap_new, skls_new, dyay_new: a second allocation, for the items.
AllocItems(gc) ==
    /\ op.at = "made" /\ cell[op.obj] = "hmap"
    /\ Sweep(Live(gc))
    /\ op' = [op EXCEPT !.at = "full"]
    /\ UNCHANGED <<gray, stk, loc, frames, pause, leaked, exposed>>

\* do_put of I_NEWMAP, I_NEWSKL, for a literal of one pair: key and value stay on
\* the stack meanwhile.
FillLiteral(gc) ==
    /\ op.at = "full" /\ Len(stk) >= 2
    /\ Nil \notin {Top(0), Top(1)}
    /\ SweepAndSet(Live(gc), op.obj, {<<Top(1), Top(0)>>})
    /\ op' = [op EXCEPT !.at = "filled"]
    /\ UNCHANGED <<gray, stk, loc, frames, pause, leaked, exposed>>

\* Push the new object, then release it.
PushMadeKept ==
    /\ op.at \in {"made", "full"} /\ cell[op.obj] = "hmap" /\ Room
    /\ stk' = Append(stk, op.obj)
    /\ op' = Idle
    /\ UNCHANGED <<cell, kids, gray, loc, frames, pause, leaked, exposed>>
PushMade ==
    /\ op.at \in {"made", "full"} /\ cell[op.obj] = "hmap" /\ Room
    /\ stk' = Append(stk, op.obj)
    /\ gray' = gray \ {op.obj}
    /\ op' = Idle
    /\ UNCHANGED <<cell, kids, loc, frames, pause, leaked, exposed>>

PushFilled ==
    /\ op.at = "filled"
    /\ stk' = Append(Popped(2), op.obj)
    /\ gray' = gray \ {op.obj}
    /\ op' = Idle
    /\ UNCHANGED <<cell, kids, loc, frames, pause, leaked, exposed>>

\* ymd_push finds the stack full after gc_new: gc_release is skipped.
PushOverflow ==
    /\ op.at \in {"made", "full"} /\ cell[op.obj] = "hmap" /\ ~Room
    /\ Unwind
    /\ UNCHANGED <<cell, kids, gray, exposed>>

\* The panic of do_put on a nil key or value, which leaves the literal grabbed, and
\* those of instructions and natives that hold nothing (a type error).
NilInLiteral == op.at = "full" /\ Len(stk) >= 2 /\ Nil \in {Top(0), Top(1)}
Panic ==
    /\ op = Idle \/ NilInLiteral
    /\ frames # <<>>
    /\ Unwind
    /\ UNCHANGED <<cell, kids, gray, exposed>>

\* kstr_fetch: the interned string if there is one, left as it is; otherwise a
\* new one, grabbed.  The collection comes before the string is allocated.
Hit(t, s) == s \in Interned(t) /\ UNCHANGED <<cell, kids>>
MissAlways(t, s, gc) ==
    /\ s \notin Live(gc)
    /\ Heap(Live(gc), s, t, {})
Miss(t, s, gc) ==
    /\ Interned(t) = {}
    /\ s \notin Live(gc)
    /\ Heap(Live(gc), s, t, {})
Fetch(t, s, gc) == Hit(t, s) \/ Miss(t, s, gc)

\* ymd_kstr, ymd_format: push the string, then release it.
PushString(t, s, gc) ==
    /\ op = Idle /\ Room
    /\ Fetch(t, s, gc)
    /\ stk' = Append(stk, s)
    /\ gray' = gray \ {s}
    /\ UNCHANGED <<loc, frames, pause, op, leaked, exposed>>

PushStringOverflow(t, s, gc) ==
    /\ op = Idle /\ ~Room
    /\ \/ Hit(t, s) /\ UNCHANGED gray
       \/ Miss(t, s, gc) /\ gray' = gray \cup {s}
    /\ Unwind
    /\ UNCHANGED exposed

\* I_ADD of two strings: vm_strcat fetches the new one while both are on the stack.
Concat(t, s, gc) ==
    /\ op = Idle /\ Len(stk) >= 2
    /\ \A v \in {Top(0), Top(1)} : v \in Obj /\ IsString(v)
    /\ Fetch(t, s, gc)
    /\ stk' = Append(Popped(2), s)
    /\ gray' = gray \ {s}
    /\ UNCHANGED <<loc, frames, pause, op, leaked, exposed>>

\* I_TYPEOF: the value on the top gives way to the name of its type, typeof_kstr,
\* which nothing releases: a name that is new to the pool stays grabbed.
TypeOf(t, s, gc) ==
    /\ op = Idle /\ stk # <<>>
    /\ \/ Hit(t, s) /\ UNCHANGED gray
       \/ Miss(t, s, gc) /\ gray' = gray \cup {s}
    /\ stk' = Append(Popped(1), s)
    /\ UNCHANGED <<loc, frames, pause, op, leaked, exposed>>

-----------------------------------------------------------------------------
(* Functions *)

\* ymk_chunk: the file name is fetched and released at once, and only the
\* chunk, which is not a heap object, points at it.
ChunkFile(t, s, gc) ==
    /\ op = Idle
    /\ Fetch(t, s, gc)
    /\ gray' = gray \ {s}
    /\ op' = [at |-> "chunk", obj |-> Nil, key |-> s]
    /\ exposed' = (exposed \/ s \notin Reached)
    /\ UNCHANGED <<stk, loc, frames, pause, leaked>>

\* func_new: the function owns the chunk, and through it the file name.
NewFunction(o, gc) ==
    /\ op.at = "chunk"
    /\ o \notin Alloced
    /\ Heap(Live(gc), o, "func", {<<Nil, op.key>>})
    /\ gray' = gray \cup {o}
    /\ op' = [at |-> "made", obj |-> o, key |-> Nil]
    /\ UNCHANGED <<stk, loc, frames, pause, leaked, exposed>>

\* kstr_fetch whose result is stored at once in function f, which is kept alive.
Link(f, t, s, gc) ==
    \/ /\ s \in Interned(t) /\ UNCHANGED cell
       /\ kids' = [kids EXCEPT ![f] = @ \cup {<<Nil, s>>}]
    \/ /\ Interned(t) = {} /\ s \notin Live(gc)
       /\ LET made == Live(gc) \cup {s}
          IN /\ cell' = [x \in Obj |-> IF x = s THEN t
                                  ELSE IF x \in made THEN cell[x] ELSE "free"]
             /\ kids' = [x \in Obj |-> IF x = s THEN {}
                           ELSE IF x = f THEN kids[x] \cup {<<Nil, s>>}
                           ELSE IF x \in made THEN kids[x] ELSE {}]

\* func_init, then the push and release of ymd_func and ymd_nafn: the
\* prototype string is fetched and linked while the function is grabbed.
FuncInit(t, s, gc) ==
    /\ op.at = "made" /\ cell[op.obj] = "func"
    /\ Link(op.obj, t, s, gc)
    /\ \/ /\ Room
          /\ stk' = Append(stk, op.obj)
          /\ gray' = gray \ {s, op.obj}
          /\ op' = Idle
          /\ UNCHANGED <<loc, frames, pause, leaked>>
       \/ ~Room /\ gray' = gray \ {s} /\ Unwind
    /\ UNCHANGED exposed

\* The compiler keeps the functions it is compiling on the stack (ymd_compile,
\* parse_func, parse_closure); blk_kz and blk_add_lz fill their chunks.
Compiled == {f \in Range(stk) : f # Nil /\ cell[f] = "func"}

\* blk_add_lz: the name of a local variable is fetched into its place.
AddLocal(t, s, gc) ==
    /\ op = Idle
    /\ \E f \in Compiled : Link(f, t, s, gc)
    /\ gray' = gray \ {s}
    /\ UNCHANGED <<stk, loc, frames, pause, op, leaked, exposed>>

\* blk_kz: the constant fetched by NameFetch is stored behind the others, once
\* blk_klast has made room, which may collect, and then released.
AddConst(gc) ==
    /\ op.at = "named"
    /\ \E f \in Compiled : SweepAndSet(Live(gc), f, Bound(f, Nil, op.key))
    /\ gray' = gray \ {op.key}
    /\ op' = Idle
    /\ UNCHANGED <<stk, loc, frames, pause, leaked, exposed>>

\* func_clone and func_bind of I_BIND: the clone shares the prototype and the
\* chunk; its bind array is a second allocation.
CloneFunction(o, gc) ==
    /\ op = Idle /\ Len(stk) >= 2
    /\ Top(1) \in Obj /\ cell[Top(1)] = "func"
    /\ o \notin Alloced
    /\ Heap(Live(gc), o, "func", {e \in kids[Top(1)] : e[1] = Nil})
    /\ gray' = gray \cup {o}
    /\ op' = [at |-> "cloned", obj |-> o, key |-> Nil]
    /\ UNCHANGED <<stk, loc, frames, pause, leaked, exposed>>

BindClone(gc) ==
    /\ op.at = "cloned"
    /\ SweepAndSet(Live(gc), op.obj, kids[op.obj] \cup {<<Nil, Top(0)>>})
    /\ stk' = Append(Popped(2), op.obj)
    /\ gray' = gray \ {op.obj}
    /\ op' = Idle
    /\ UNCHANGED <<loc, frames, pause, leaked, exposed>>

-----------------------------------------------------------------------------
(* Containers and globals *)

\* ymd_putf, I_SETF: bind the key to the value in the map under them.  Storing
\* may allocate (a list node, a bigger table); all three are on the stack.
PutField(gc) ==
    /\ op = Idle /\ Len(stk) >= 3
    /\ Top(2) \in Obj /\ cell[Top(2)] = "hmap" /\ Top(1) # Nil
    /\ SweepAndSet(Live(gc), Top(2), Bound(Top(2), Top(1), Top(0)))
    /\ stk' = Popped(2)
    /\ UNCHANGED <<gray, loc, frames, pause, op, leaked, exposed>>

\* ymd_add: append the value to the array under it.
AddElem(gc) ==
    /\ op = Idle /\ Len(stk) >= 2
    /\ Top(1) \in Obj /\ cell[Top(1)] = "hmap"
    /\ SweepAndSet(Live(gc), Top(1), Bound(Top(1), Nil, Top(0)))
    /\ stk' = Popped(1)
    /\ UNCHANGED <<gray, loc, frames, pause, op, leaked, exposed>>

\* I_GETF: replace map and key by the value, nil when the key is not bound.
GetField ==
    /\ op = Idle /\ Len(stk) >= 2
    /\ Top(1) \in Obj /\ cell[Top(1)] = "hmap" /\ Top(0) # Nil
    /\ \E v \in Value :
          /\ IF \E e \in kids[Top(1)] : e[1] = Top(0) THEN <<Top(0), v>> \in kids[Top(1)]
                                                   ELSE v = Nil
          /\ stk' = Append(Popped(2), v)
    /\ UNCHANGED <<cell, kids, gray, loc, frames, pause, op, leaked, exposed>>

\* vm_putg, vm_def, and blk_kz for a new constant: fetch the name ...
NameFetch(t, s, gc) ==
    /\ op = Idle /\ stk # <<>>
    /\ \/ Hit(t, s) /\ UNCHANGED gray
       \/ Miss(t, s, gc) /\ gray' = gray \cup {s}
    /\ op' = [at |-> "named", obj |-> Nil, key |-> s]
    /\ exposed' = (exposed \/ s \notin Reached \cup gray')
    /\ UNCHANGED <<stk, loc, frames, pause, leaked>>

\* ... then store under it, which may allocate, and release the name.
NamePut(gc) ==
    /\ op.at = "named"
    /\ \E c \in {Global} \cup {stk[i] : i \in 1 .. Len(stk) - 1} :
          /\ c \in Obj /\ cell[c] = "hmap"
          /\ SweepAndSet(Live(gc), c, Bound(c, op.key, Top(0)))
    /\ gray' = gray \ {op.key}
    /\ stk' = Popped(1)
    /\ op' = Idle
    /\ UNCHANGED <<loc, frames, pause, leaked, exposed>>

\* ymd_getg: fetch the name, look it up, release it, push what was found.
GetGlobal(t, s, gc) ==
    /\ op = Idle /\ Room
    /\ Fetch(t, s, gc)
    /\ gray' = gray \ {s}
    /\ \E v \in Value :
          /\ IF \E e \in kids[Global] : e[1] = s THEN <<s, v>> \in kids[Global]
                                             ELSE v = Nil
          /\ stk' = Append(stk, v)
    /\ UNCHANGED <<loc, frames, pause, op, leaked, exposed>>

-----------------------------------------------------------------------------
(* Calls, locals and the stack *)

Pop ==
    /\ op = Idle /\ stk # <<>>
    /\ stk' = Popped(1)
    /\ UNCHANGED <<cell, kids, gray, loc, frames, pause, op, leaked, exposed>>

\* call_init / call_root_init and the link of vm_call: the callee's n locals
\* start where the caller's end, and as many of them are zeroed as the CALLER
\* has.  A slot past those keeps what an earlier call left in it.
Call(argc, n) ==
    /\ op = Idle /\ Len(stk) > argc /\ Len(frames) < MaxFrames
    /\ Top(argc) \in Obj /\ cell[Top(argc)] = "func"
    /\ LET caller == IF frames = <<>> THEN 0 ELSE frames[Len(frames)].n
           fresh == Window + 1 .. Window + caller
           new == Window + 1 .. Window + n
       IN /\ fresh \cup new \subseteq 1 .. MaxLocal
          /\ loc' = [i \in 1 .. MaxLocal |-> IF i \in fresh THEN Nil ELSE loc[i]]
          /\ frames' = Append(frames, [run |-> Top(argc), base |-> Window, n |-> n])
          /\ exposed' = (exposed \/ \E i \in new : loc'[i] \notin Reached \cup {Nil})
    /\ op' = [Idle EXCEPT !.at = IF argc = 0 THEN "call0" ELSE "call1"]
    /\ UNCHANGED <<cell, kids, gray, stk, pause, leaked>>

\* vm_copy_args and the pop of vm_call: the argument goes to the first local
\* and to the argument array, which belongs to the function, not to the call.
CopyArgs(gc) ==
    /\ op.at \in {"call0", "call1"}
    /\ LET f == frames[Len(frames)]
       IN IF op.at = "call1"
          THEN /\ SweepAndSet(Live(gc), f.run, kids[f.run] \cup {<<Argv, Top(0)>>})
               /\ loc' = [i \in 1 .. MaxLocal |->
                             IF i = f.base + 1 /\ f.n > 0 THEN Top(0) ELSE loc[i]]
               /\ stk' = Popped(2)
          ELSE Sweep(Live(gc)) /\ UNCHANGED loc /\ stk' = Popped(1)
    /\ op' = Idle
    /\ UNCHANGED <<gray, frames, pause, leaked, exposed>>

\* The end of vm_call: dyay_final empties the argument array, call_final
\* unlinks the frame.  The locals are left as they are.
Return ==
    /\ op = Idle /\ frames # <<>>
    /\ LET f == frames[Len(frames)].run
       IN kids' = [kids EXCEPT ![f] = {e \in @ : e[1] # Argv}]
    /\ frames' = SubSeq(frames, 1, Len(frames) - 1)
    /\ UNCHANGED <<cell, gray, stk, loc, pause, op, leaked, exposed>>

\* I_STORE and I_PUSH with F_LOCAL
StoreLocal(i) ==
    /\ op = Idle /\ stk # <<>> /\ frames # <<>>
    /\ i \in frames[Len(frames)].base + 1 .. Window
    /\ loc' = [loc EXCEPT ![i] = Top(0)]
    /\ stk' = Popped(1)
    /\ UNCHANGED <<cell, kids, gray, frames, pause, op, leaked, exposed>>

PushLocal(i) ==
    /\ op = Idle /\ Room /\ frames # <<>>
    /\ i \in frames[Len(frames)].base + 1 .. Window
    /\ stk' = Append(stk, loc[i])
    /\ UNCHANGED <<cell, kids, gray, loc, frames, pause, op, leaked, exposed>>

-----------------------------------------------------------------------------
(* The script's gc(...) : pause, resume, collect.  Resuming a collector that is
   not paused fails the assertion of gc_active. *)

Pause ==
    /\ op = Idle /\ pause < MaxPause
    /\ pause' = pause + 1
    /\ UNCHANGED <<cell, kids, gray, stk, loc, frames, op, leaked, exposed>>

Resume ==
    /\ op = Idle /\ pause > 0
    /\ pause' = pause - 1
    /\ UNCHANGED <<cell, kids, gray, stk, loc, frames, op, leaked, exposed>>

Collect ==
    /\ op = Idle
    /\ Sweep(Live(TRUE))
    /\ UNCHANGED <<gray, stk, loc, frames, pause, op, leaked, exposed>>

-----------------------------------------------------------------------------
Init ==
    /\ cell = [o \in Obj |-> IF o = Global THEN "hmap" ELSE "free"]
    /\ kids = [o \in Obj |-> {}]
    /\ gray = {}
    /\ stk = <<>> /\ frames = <<>>
    /\ loc = [i \in 1 .. MaxLocal |-> Nil]
    /\ pause = 0
    /\ op = Idle
    /\ leaked = {}
    /\ exposed = FALSE

Allocate ==
    \E gc \in BOOLEAN :
        \/ \E o \in Obj : \/ NewObject(o, "hmap", gc)
                          \/ NewObject(o, "func", gc)
                          \/ NewFunction(o, gc)
                          \/ CloneFunction(o, gc)
        \/ \E t \in Text, s \in Obj : \/ PushString(t, s, gc)
                                     \/ PushStringOverflow(t, s, gc)
                                     \/ Concat(t, s, gc)
                                     \/ TypeOf(t, s, gc)
                                     \/ AddLocal(t, s, gc)
                                     \/ ChunkFile(t, s, gc)
                                     \/ FuncInit(t, s, gc)
                                     \/ NameFetch(t, s, gc)
                                     \/ GetGlobal(t, s, gc)
        \/ AllocItems(gc)
        \/ FillLiteral(gc)
        \/ BindClone(gc)
        \/ PutField(gc)
        \/ AddElem(gc)
        \/ NamePut(gc)
        \/ AddConst(gc)
        \/ CopyArgs(gc)

Next ==
    \/ Allocate
    \/ PushMade \/ PushFilled \/ PushOverflow \/ Panic \/ GetField \/ Pop
    \/ \E argc \in {0, 1}, n \in 0 .. MaxLocal : Call(argc, n)
    \/ Return
    \/ \E i \in 1 .. MaxLocal : StoreLocal(i) \/ PushLocal(i)
    \/ Pause \/ Resume \/ Collect

Spec == Init /\ [][Next]_vars

-----------------------------------------------------------------------------
(* Properties *)

Frame == {f \in [run : Obj, base : 0 .. MaxLocal, n : 0 .. MaxLocal] :
             f.base + f.n <= MaxLocal}

TypeOK ==
    /\ cell \in [Obj -> {"free", "hmap", "func"} \cup Text]
    /\ kids \in [Obj -> SUBSET ((Value \cup {Argv}) \X Value)]
    /\ gray \subseteq Alloced
    /\ stk \in Seq(Value) /\ Len(stk) <= MaxStack
    /\ loc \in [1 .. MaxLocal -> Value]
    /\ frames \in Seq(Frame)
    /\ pause \in Nat
    /\ op \in [at : {"idle", "made", "full", "filled", "cloned", "chunk", "named",
                     "call0", "call1"}, obj : Value, key : Value]
    /\ leaked \subseteq Obj
    /\ exposed \in BOOLEAN

\* Whatever the program can still reach, and whatever the C function in
\* progress holds, has not been freed by a collection (gc_mark, gc_sweep).
NoDangling == Reached \cup Held \subseteq Alloced

\* A freed object is reached only after some C code relied on an object that
\* nothing protected: a name or a constant found in the pool by kpool_index (which
\* does not grab it), the file name of a chunk (ymk_chunk releases it too early), a
\* local slot that call_init did not zero.  Every other allocation is safe.
SafeUnlessExposed == ~exposed => NoDangling

\* An object whose holder was unwound by a panic stays grabbed for ever, but no
\* reference to it survives.
LeakedUnreachable == ~exposed => leaked \cap Reached = {} /\ leaked \subseteq gray

\* At most one live string per spelling, although kpool_insert may collect
\* between the look-up in the pool and the insertion.
PoolUnique == \A t \in Text : \A s1, s2 \in Interned(t) : s1 = s2

\* A grabbed object that no C function holds any more was abandoned by a panic, on
\* a full value stack or on a nil in a literal, or it is the string typeof_kstr made
\* for I_TYPEOF, which stands where the value was: every other path reaches its
\* gc_release.
Abandoned == (gray \ Held)' \ (gray \ Held)
Panicked == stk' = <<>> /\ (~Room \/ NilInLiteral)
TypeNamed(s) ==
    /\ op = Idle /\ stk # <<>> /\ stk' = Append(Popped(1), s)
    /\ \E t \in Text : Interned(t) = {} /\ cell'[s] = t
Releases == Abandoned = {} \/ Panicked \/ \E s \in Obj : Abandoned = {s} /\ TypeNamed(s)
GrabsReleased == [][Releases]_vars

\* What the global map refers to is live: memory.c, "Mark all reached variable
\* from global".
GlobalsLive == Children(kids, Global) \subseteq Alloced

=============================================================================

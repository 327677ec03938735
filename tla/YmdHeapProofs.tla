--------------------------- MODULE YmdHeapProofs ---------------------------
(* Theorems about the heap, for every number of objects, strings and frames. *)
EXTENDS YmdHeap, TLAPS

\* The pointers of the C function in progress, for each point it can be at.
OpShape ==
    /\ op.at \in {"idle", "call0", "call1"} => op.obj = Nil /\ op.key = Nil
    /\ op.at \in {"chunk", "named"} => op.obj = Nil /\ op.key \in Obj
    /\ op.at \in {"made", "full", "filled", "cloned"} =>
          op.obj \in gray /\ cell[op.obj] \in {"hmap", "func"} /\ op.key = Nil
    /\ op.at \in {"call0", "call1"} => frames # <<>>
    /\ op.at \in {"call0", "named"} => Len(stk) >= 1
    /\ op.at \in {"call1", "filled", "cloned"} => Len(stk) >= 2

TInv == TypeOK /\ OpShape

USE HeapAssumption

LEMMA InitTInv == Init => TInv
<1> SUFFICES ASSUME Init PROVE TInv  OBVIOUS
<1>1. cell \in [Obj -> {"free", "hmap", "func"} \cup Text] /\ gray \subseteq Alloced
  BY DEF Init
<1>2. kids \in [Obj -> SUBSET ((Value \cup {Argv}) \X Value)]
  BY DEF Init
<1>3. stk \in Seq(Value) /\ Len(stk) <= MaxStack /\ frames \in Seq(Frame)
  BY DEF Init
<1>4. loc \in [1 .. MaxLocal -> Value] /\ pause \in Nat
  BY DEF Init, Value
<1>5. op \in [at : {"idle", "made", "full", "filled", "cloned", "chunk", "named",
                     "call0", "call1"}, obj : Value, key : Value]
  BY DEF Init, Idle, Value
<1>6. OpShape
  BY DEF Init, Idle, OpShape
<1>7. QED
  BY <1>1, <1>2, <1>3, <1>4, <1>5, <1>6 DEF Init, TInv, TypeOK

LEMMA LiveKeeps ==
    ASSUME TypeOK, NEW gc
    PROVE  Live(gc) \subseteq Alloced /\ gray \subseteq Live(gc)
  BY DEF TypeOK, Live, Survivors

Cells == [Obj -> {"free", "hmap", "func"} \cup Text]
Refs == SUBSET ((Value \cup {Argv}) \X Value)

\* The heap after a collection that left `live', o created or not.
LEMMA HeapFacts ==
    ASSUME TypeOK, NEW live \in SUBSET Alloced, NEW o \in Obj,
           NEW what \in {"hmap", "func"} \cup Text, NEW refs \in Refs,
           Heap(live, o, what, refs)
    PROVE  /\ cell' \in Cells /\ kids' \in [Obj -> Refs]
           /\ Alloced' = live \cup {o}
           /\ cell'[o] = what /\ kids'[o] = refs
           /\ \A x \in live \ {o} : cell'[x] = cell[x] /\ kids'[x] = kids[x]
  BY DEF TypeOK, Heap, Alloced, Cells, Refs

LEMMA SweepFacts ==
    ASSUME TypeOK, NEW live \in SUBSET Alloced, Sweep(live)
    PROVE  /\ cell' \in Cells /\ kids' \in [Obj -> Refs]
           /\ Alloced' = live
           /\ \A x \in live : cell'[x] = cell[x] /\ kids'[x] = kids[x]
  BY DEF TypeOK, Sweep, Heap, Alloced, Cells, Refs

LEMMA SetFacts ==
    ASSUME TypeOK, NEW live \in SUBSET Alloced, NEW c \in Obj, NEW refs \in Refs,
           SweepAndSet(live, c, refs)
    PROVE  /\ cell' \in Cells /\ kids' \in [Obj -> Refs]
           /\ Alloced' = live
           /\ kids'[c] = refs
           /\ \A x \in live : cell'[x] = cell[x] /\ (x # c => kids'[x] = kids[x])
  BY DEF TypeOK, SweepAndSet, Alloced, Cells, Refs

LEMMA HitFacts ==
    ASSUME TypeOK, NEW t \in Text, NEW s \in Obj, Hit(t, s)
    PROVE  /\ s \in Alloced /\ cell[s] = t /\ cell' = cell /\ kids' = kids
           /\ Alloced' = Alloced
  BY DEF Hit, Interned, Alloced

LEMMA MissFacts ==
    ASSUME TypeOK, NEW t \in Text, NEW s \in Obj, NEW gc, Miss(t, s, gc)
    PROVE  /\ cell' \in Cells /\ kids' \in [Obj -> Refs]
           /\ s \notin Live(gc) /\ Alloced' = Live(gc) \cup {s}
           /\ cell'[s] = t /\ kids'[s] = {}
           /\ \A x \in Live(gc) : cell'[x] = cell[x] /\ kids'[x] = kids[x]
<1>1. Live(gc) \in SUBSET Alloced
  BY LiveKeeps
<1>2. {} \in Refs
  BY DEF Refs
<1>3. s \notin Live(gc) /\ Heap(Live(gc), s, t, {})
  BY DEF Miss
<1> DEFINE L == Live(gc)
<1>4. t \in {"hmap", "func"} \cup Text
  OBVIOUS
<1> HIDE DEF L
<1>5. L \in SUBSET Alloced /\ s \notin L /\ Heap(L, s, t, {})
  BY <1>1, <1>3 DEF L
<1>6. /\ cell' \in Cells /\ kids' \in [Obj -> Refs]
      /\ Alloced' = L \cup {s}
      /\ cell'[s] = t /\ kids'[s] = {}
      /\ \A x \in L \ {s} : cell'[x] = cell[x] /\ kids'[x] = kids[x]
  BY <1>2, <1>4, <1>5, HeapFacts
<1>7. QED
  BY <1>5, <1>6 DEF L

LEMMA StackFacts ==
    ASSUME TypeOK
    PROVE  /\ \A v \in Value : /\ Append(stk, v) \in Seq(Value)
                              /\ Len(Append(stk, v)) = Len(stk) + 1
           /\ \A n \in Nat : n <= Len(stk) => /\ Popped(n) \in Seq(Value)
                                            /\ Len(Popped(n)) = Len(stk) - n
           /\ \A i \in Nat : i < Len(stk) => Top(i) \in Value
  BY DEF TypeOK, Popped, Top


LEMMA FetchFacts ==
    ASSUME TypeOK, NEW t \in Text, NEW s \in Obj, NEW gc, Fetch(t, s, gc)
    PROVE  /\ cell' \in Cells /\ kids' \in [Obj -> Refs]
           /\ s \in Alloced' /\ cell'[s] = t /\ gray \subseteq Alloced'
           /\ \A x \in gray : cell'[x] = cell[x]
<1>1. CASE Hit(t, s)
  BY <1>1, HitFacts DEF TypeOK, Cells, Refs
<1>2. CASE Miss(t, s, gc)
  BY <1>2, MissFacts, LiveKeeps
<1>3. QED
  BY <1>1, <1>2 DEF Fetch

LEMMA NewObjectT ==
    ASSUME TInv, NEW o \in Obj, NEW what \in {"hmap", "func"}, NEW gc \in BOOLEAN, NewObject(o, what, gc)
    PROVE  TInv'
  BY LiveKeeps DEF TInv, TypeOK, OpShape, NewObject, Heap, Alloced, Idle, Value

LEMMA AllocItemsT ==
    ASSUME TInv, NEW gc \in BOOLEAN, AllocItems(gc)
    PROVE  TInv'
  BY LiveKeeps DEF TInv, TypeOK, OpShape, AllocItems, Sweep, Heap, Alloced, Idle, Value

LEMMA FillLiteralT ==
    ASSUME TInv, NEW gc \in BOOLEAN, FillLiteral(gc)
    PROVE  TInv'
<1> DEFINE refs == {<<Top(1), Top(0)>>}
<1>1. op \in [at : {"full"}, obj : Obj, key : {Nil}] /\ op.obj \in gray
  BY DEF TInv, TypeOK, OpShape, FillLiteral, Alloced
<1>2. Top(0) \in Value /\ Top(1) \in Value /\ refs \in Refs
  BY StackFacts DEF TInv, FillLiteral, Refs
<1>3. /\ cell' \in Cells /\ kids' \in [Obj -> Refs] /\ Alloced' = Live(gc)
      /\ \A x \in Live(gc) : cell'[x] = cell[x]
  BY <1>1, <1>2, LiveKeeps, SetFacts DEF TInv, FillLiteral
<1>4. op' = [at |-> "filled", obj |-> op.obj, key |-> Nil]
  BY <1>1 DEF FillLiteral
<1>5. QED
  BY <1>1, <1>3, <1>4, LiveKeeps DEF TInv, TypeOK, OpShape, FillLiteral, Cells, Refs, Value

LEMMA PushMadeT ==
    ASSUME TInv, PushMade
    PROVE  TInv'
  BY LiveKeeps DEF TInv, TypeOK, OpShape, PushMade, Room, Alloced, Idle, Value

LEMMA PushFilledT ==
    ASSUME TInv, PushFilled
    PROVE  TInv'
  BY LiveKeeps DEF TInv, TypeOK, OpShape, PushFilled, Popped, Alloced, Idle, Value

LEMMA PushOverflowT ==
    ASSUME TInv, PushOverflow
    PROVE  TInv'
  BY LiveKeeps DEF TInv, TypeOK, OpShape, PushOverflow, Unwind, Alloced, Idle, Value

LEMMA PanicT ==
    ASSUME TInv, Panic
    PROVE  TInv'
  BY LiveKeeps DEF TInv, TypeOK, OpShape, Panic, NilInLiteral, Unwind, Alloced, Idle, Value

LEMMA PushStringT ==
    ASSUME TInv, NEW t \in Text, NEW s \in Obj, NEW gc \in BOOLEAN, PushString(t, s, gc)
    PROVE  TInv'
<1>1. /\ cell' \in Cells /\ kids' \in [Obj -> Refs]
      /\ gray' \subseteq Alloced'
  BY FetchFacts DEF TInv, PushString
<1>2. stk' \in Seq(Value) /\ Len(stk') <= MaxStack
  BY StackFacts DEF TInv, TypeOK, PushString, Room, Value
<1>3. QED
  BY <1>1, <1>2 DEF TInv, TypeOK, OpShape, PushString, Idle, Cells, Refs

LEMMA PushStringOverflowT ==
    ASSUME TInv, NEW t \in Text, NEW s \in Obj, NEW gc \in BOOLEAN, PushStringOverflow(t, s, gc)
    PROVE  TInv'
<1>1. cell' \in Cells /\ kids' \in [Obj -> Refs] /\ gray' \subseteq Alloced'
  BY FetchFacts DEF TInv, PushStringOverflow, Fetch
<1>2. leaked' \subseteq Obj /\ op' = Idle /\ stk' = <<>> /\ frames' = <<>>
  BY DEF TInv, TypeOK, PushStringOverflow, Unwind, Idle
<1>3. QED
  BY <1>1, <1>2
     DEF TInv, TypeOK, OpShape, PushStringOverflow, Unwind, Idle, Cells, Refs, Value

LEMMA ChunkFileT ==
    ASSUME TInv, NEW t \in Text, NEW s \in Obj, NEW gc \in BOOLEAN, ChunkFile(t, s, gc)
    PROVE  TInv'
<1>1. cell' \in Cells /\ kids' \in [Obj -> Refs] /\ gray' \subseteq Alloced'
  BY FetchFacts DEF TInv, ChunkFile
<1>2. op' = [at |-> "chunk", obj |-> Nil, key |-> s] /\ exposed' \in BOOLEAN
  BY DEF ChunkFile
<1>3. QED
  BY <1>1, <1>2 DEF TInv, TypeOK, OpShape, ChunkFile, Cells, Refs, Value

LEMMA NewFunctionT ==
    ASSUME TInv, NEW o \in Obj, NEW gc \in BOOLEAN, NewFunction(o, gc)
    PROVE  TInv'
  BY LiveKeeps DEF TInv, TypeOK, OpShape, NewFunction, Heap, Alloced, Idle, Value

LEMMA LinkFacts ==
    ASSUME TypeOK, NEW f \in Obj, NEW t \in Text, NEW s \in Obj, NEW gc \in BOOLEAN,
           Link(f, t, s, gc)
    PROVE  cell' \in Cells /\ kids' \in [Obj -> Refs] /\ gray \cup {s} \subseteq Alloced'
<1>2. <<Nil, s>> \in (Value \cup {Argv}) \X Value
  BY DEF Value
<1> DEFINE made == Live(gc) \cup {s}
<1>3. kids[f] \cup {<<Nil, s>>} \in Refs
  BY <1>2 DEF TypeOK, Refs
<1>4. CASE s \in Interned(t) /\ UNCHANGED cell /\ kids' = [kids EXCEPT ![f] = @ \cup {<<Nil, s>>}]
  <2>1. cell' \in Cells /\ kids' \in [Obj -> Refs]
    BY <1>3, <1>4 DEF TypeOK, Cells, Refs
  <2>2. gray \cup {s} \subseteq Alloced
    BY <1>4 DEF TypeOK, Interned, Alloced
  <2>3. QED
    BY <1>4, <2>1, <2>2 DEF Alloced
<1>5. CASE /\ cell' = [x \in Obj |-> IF x = s THEN t
                          ELSE IF x \in made THEN cell[x] ELSE "free"]
           /\ kids' = [x \in Obj |-> IF x = s THEN {}
                          ELSE IF x = f THEN kids[x] \cup {<<Nil, s>>}
                          ELSE IF x \in made THEN kids[x] ELSE {}]
  <2>1. gray \subseteq made /\ gray \subseteq Alloced
    BY LiveKeeps DEF TypeOK
  <2> HIDE DEF made
  <2>2. cell' \in Cells
    BY <1>5 DEF TypeOK, Cells
  <2>3. kids' \in [Obj -> Refs]
    BY <1>3, <1>5 DEF TypeOK, Refs
  <2>4. gray \cup {s} \subseteq Alloced'
    BY <1>5, <2>1 DEF Alloced
  <2>5. QED
    BY <2>2, <2>3, <2>4
<1>6. QED
  BY <1>4, <1>5 DEF Link

LEMMA FuncInitT ==
    ASSUME TInv, NEW t \in Text, NEW s \in Obj, NEW gc \in BOOLEAN, FuncInit(t, s, gc)
    PROVE  TInv'
<1>1. op.obj \in gray /\ op.obj \in Obj /\ cell[op.obj] = "func"
  BY DEF TInv, TypeOK, OpShape, FuncInit, Alloced
<1>2. cell' \in Cells /\ kids' \in [Obj -> Refs] /\ gray \cup {s} \subseteq Alloced'
  <2>1. TypeOK /\ Link(op.obj, t, s, gc)
    BY DEF TInv, FuncInit
  <2>2. QED
    BY <1>1, <2>1, LinkFacts
<1>3. CASE Room /\ stk' = Append(stk, op.obj) /\ gray' = gray \ {s, op.obj} /\ op' = Idle
           /\ UNCHANGED <<loc, frames, pause, leaked>>
  <2>1. stk' \in Seq(Value) /\ Len(stk') <= MaxStack
    BY <1>1, <1>3, StackFacts DEF TInv, TypeOK, Room, Value
  <2>2. QED
    BY <1>2, <1>3, <2>1
       DEF TInv, TypeOK, OpShape, FuncInit, Idle, Cells, Refs, Value
<1>4. CASE ~Room /\ gray' = gray \ {s} /\ Unwind
  <2>1. stk' \in Seq(Value) /\ Len(stk') <= MaxStack /\ frames' \in Seq(Frame)
    BY <1>4 DEF Unwind
  <2>2. QED
    BY <1>1, <1>2, <1>4, <2>1
       DEF TInv, TypeOK, OpShape, FuncInit, Unwind, Idle, Cells, Refs, Value
<1>5. QED
  BY <1>3, <1>4 DEF FuncInit

\* A function being compiled is on the stack.
LEMMA CompiledFacts ==
    ASSUME TypeOK
    PROVE  \A f \in Compiled : f \in Obj /\ f \in Range(stk) /\ cell[f] = "func" /\ f \in Alloced
  BY DEF TypeOK, Compiled, Range, Value, Alloced

LEMMA AddLocalT ==
    ASSUME TInv, NEW t \in Text, NEW s \in Obj, NEW gc \in BOOLEAN, AddLocal(t, s, gc)
    PROVE  TInv'
<1>1. PICK f \in Compiled : Link(f, t, s, gc)
  BY DEF AddLocal
<1>2. f \in Obj
  BY CompiledFacts DEF TInv
<1>3. cell' \in Cells /\ kids' \in [Obj -> Refs] /\ gray \cup {s} \subseteq Alloced'
  BY <1>1, <1>2, LinkFacts DEF TInv
<1>4. QED
  BY <1>3 DEF TInv, TypeOK, OpShape, AddLocal, Idle, Cells, Refs

LEMMA AddConstT == ASSUME TInv, NEW gc \in BOOLEAN, AddConst(gc) PROVE TInv'
<1>1. PICK f \in Compiled : SweepAndSet(Live(gc), f, Bound(f, Nil, op.key))
  BY DEF AddConst
<1>2. f \in Obj /\ op.key \in Obj
  BY CompiledFacts DEF TInv, OpShape, AddConst
<1>3. Bound(f, Nil, op.key) \in Refs
  BY <1>2 DEF Bound, Refs, Value, TInv, TypeOK
<1>4. Live(gc) \in SUBSET Alloced /\ gray \subseteq Live(gc)
  BY LiveKeeps DEF TInv
<1>5. cell' \in Cells /\ kids' \in [Obj -> Refs] /\ Alloced' = Live(gc)
  BY <1>1, <1>2, <1>3, <1>4, SetFacts DEF TInv
<1>6. QED
  BY <1>4, <1>5 DEF TInv, TypeOK, OpShape, AddConst, Idle, Cells, Refs, Value

LEMMA ConcatT ==
    ASSUME TInv, NEW t \in Text, NEW s \in Obj, NEW gc \in BOOLEAN, Concat(t, s, gc)
    PROVE  TInv'
<1>1. cell' \in Cells /\ kids' \in [Obj -> Refs] /\ gray' \subseteq Alloced'
  BY FetchFacts DEF TInv, Concat
<1>2. stk' \in Seq(Value) /\ Len(stk') <= MaxStack
  BY DEF TInv, TypeOK, Concat, Popped, Value
<1>3. QED
  BY <1>1, <1>2 DEF TInv, TypeOK, OpShape, Concat, Idle, Cells, Refs

LEMMA TypeOfT ==
    ASSUME TInv, NEW t \in Text, NEW s \in Obj, NEW gc \in BOOLEAN, TypeOf(t, s, gc)
    PROVE  TInv'
<1>1. cell' \in Cells /\ kids' \in [Obj -> Refs] /\ gray' \subseteq Alloced'
  BY FetchFacts DEF TInv, TypeOf, Fetch
<1>2. stk' \in Seq(Value) /\ Len(stk') <= MaxStack
  BY DEF TInv, TypeOK, TypeOf, Popped, Value
<1>3. QED
  BY <1>1, <1>2 DEF TInv, TypeOK, OpShape, TypeOf, Idle, Cells, Refs

LEMMA CloneFunctionT ==
    ASSUME TInv, NEW o \in Obj, NEW gc \in BOOLEAN, CloneFunction(o, gc)
    PROVE  TInv'
  BY LiveKeeps DEF TInv, TypeOK, OpShape, CloneFunction, Heap, Top, Alloced, Idle, Value

LEMMA BindCloneT ==
    ASSUME TInv, NEW gc \in BOOLEAN, BindClone(gc)
    PROVE  TInv'
  BY LiveKeeps DEF TInv, TypeOK, OpShape, BindClone, SweepAndSet, Top, Popped, Alloced, Idle, Value

LEMMA PutFieldT ==
    ASSUME TInv, NEW gc \in BOOLEAN, PutField(gc)
    PROVE  TInv'
  BY LiveKeeps DEF TInv, TypeOK, OpShape, PutField, SweepAndSet, Top, Popped, Bound, Alloced, Idle, Value

LEMMA AddElemT ==
    ASSUME TInv, NEW gc \in BOOLEAN, AddElem(gc)
    PROVE  TInv'
  BY LiveKeeps DEF TInv, TypeOK, OpShape, AddElem, SweepAndSet, Top, Popped, Bound, Alloced, Idle, Value

LEMMA GetFieldT ==
    ASSUME TInv, GetField
    PROVE  TInv'
  BY LiveKeeps DEF TInv, TypeOK, OpShape, GetField, Top, Popped, Alloced, Idle, Value

LEMMA NameFetchT ==
    ASSUME TInv, NEW t \in Text, NEW s \in Obj, NEW gc \in BOOLEAN, NameFetch(t, s, gc)
    PROVE  TInv'
  BY SMTT(60), LiveKeeps DEF TInv, TypeOK, OpShape, NameFetch, Hit, Miss, Heap, Interned, Alloced, Idle, Value

LEMMA NamePutT ==
    ASSUME TInv, NEW gc \in BOOLEAN, NamePut(gc)
    PROVE  TInv'
  BY LiveKeeps DEF TInv, TypeOK, OpShape, NamePut, SweepAndSet, Top, Popped, Bound, Alloced, Idle, Value

LEMMA GetGlobalT ==
    ASSUME TInv, NEW t \in Text, NEW s \in Obj, NEW gc \in BOOLEAN, GetGlobal(t, s, gc)
    PROVE  TInv'
<1>1. cell' \in Cells /\ kids' \in [Obj -> Refs] /\ gray' \subseteq Alloced'
  BY FetchFacts DEF TInv, GetGlobal
<1>2. stk' \in Seq(Value) /\ Len(stk') <= MaxStack
  BY StackFacts DEF TInv, TypeOK, GetGlobal, Room
<1>3. QED
  BY <1>1, <1>2 DEF TInv, TypeOK, OpShape, GetGlobal, Idle, Cells, Refs

LEMMA PopT ==
    ASSUME TInv, Pop
    PROVE  TInv'
  BY LiveKeeps DEF TInv, TypeOK, OpShape, Pop, Popped, Alloced, Idle, Value

LEMMA CallT ==
    ASSUME TInv, NEW argc \in {0, 1}, NEW n \in 0 .. MaxLocal, Call(argc, n)
    PROVE  TInv'
<1> DEFINE caller == IF frames = <<>> THEN 0 ELSE frames[Len(frames)].n
           fresh == Window + 1 .. Window + caller
           callee == [run |-> Top(argc), base |-> Window, n |-> n]
<1>1. Window \in 0 .. MaxLocal
  BY SMTT(60) DEF TInv, TypeOK, Window, Frame
<1>2. callee \in Frame
  <2>1. Window + n <= MaxLocal
    <3>1. Window + 1 .. Window + n \subseteq 1 .. MaxLocal
      BY DEF Call
    <3>2. CASE n = 0
      BY <1>1, <3>2, HeapAssumption
    <3>3. CASE n # 0
      <4>1. Window + n \in Window + 1 .. Window + n
        BY <1>1, <3>3, HeapAssumption
      <4>2. QED
        BY <1>1, <3>1, <4>1, HeapAssumption
    <3>4. QED
      BY <3>2, <3>3
  <2>2. Top(argc) \in Obj
    BY DEF Call
  <2>3. QED
    BY <1>1, <2>1, <2>2 DEF Frame
<1>3. frames' \in Seq(Frame) /\ frames' # <<>>
  BY <1>2 DEF TInv, TypeOK, Call
<1>4. loc' \in [1 .. MaxLocal -> Value]
  <2>1. loc' = [i \in 1 .. MaxLocal |-> IF i \in fresh THEN Nil ELSE loc[i]]
    BY DEF Call
  <2>2. QED
    BY <2>1 DEF TInv, TypeOK, Value
<1>5. exposed' \in BOOLEAN
  BY DEF Call
<1>6. op' = [at |-> IF argc = 0 THEN "call0" ELSE "call1", obj |-> Nil, key |-> Nil]
  BY DEF Call, Idle
<1>7. Len(stk) > argc
  BY DEF Call
<1>8. OpShape'
  BY <1>3, <1>6, <1>7 DEF OpShape, Call, TInv, TypeOK
<1>9. UNCHANGED <<cell, kids, gray, stk, pause, leaked>>
  BY DEF Call
<1>10. QED
  BY <1>3, <1>4, <1>5, <1>6, <1>8, <1>9 DEF TInv, TypeOK, Alloced, Value

LEMMA CopyArgsT ==
    ASSUME TInv, NEW gc \in BOOLEAN, CopyArgs(gc)
    PROVE  TInv'
<1> DEFINE f == frames[Len(frames)]
<1>1. f \in Frame /\ f.run \in Obj
  BY DEF TInv, TypeOK, OpShape, CopyArgs, Frame
<1>2. CASE op.at = "call1"
  <2> DEFINE refs == kids[f.run] \cup {<<Argv, Top(0)>>}
  <2>1. Len(stk) >= 2 /\ Top(0) \in Value
    BY <1>2, StackFacts DEF TInv, OpShape
  <2>2. refs \in Refs
    BY <1>1, <2>1 DEF TInv, TypeOK, Refs
  <2>3. SweepAndSet(Live(gc), f.run, refs)
    BY <1>2 DEF CopyArgs
  <2> HIDE DEF refs
  <2>4. cell' \in Cells /\ kids' \in [Obj -> Refs] /\ Alloced' = Live(gc)
    BY <1>1, <2>2, <2>3, LiveKeeps, SetFacts DEF TInv
  <2>5. loc' \in [1 .. MaxLocal -> Value]
    BY <1>2, <2>1 DEF CopyArgs, TInv, TypeOK
  <2>6. stk' \in Seq(Value) /\ Len(stk') <= MaxStack
    BY <1>2, <2>1, StackFacts DEF CopyArgs, TInv, TypeOK
  <2>7. QED
    BY <2>4, <2>5, <2>6, LiveKeeps
       DEF CopyArgs, TInv, TypeOK, OpShape, Idle, Cells, Refs, Value
<1>3. CASE op.at = "call0"
  <2>1. cell' \in Cells /\ kids' \in [Obj -> Refs] /\ Alloced' = Live(gc)
    BY <1>3, LiveKeeps, SweepFacts DEF CopyArgs, TInv
  <2>2. stk' \in Seq(Value) /\ Len(stk') <= MaxStack
    BY <1>3, StackFacts DEF CopyArgs, TInv, TypeOK, OpShape
  <2>3. QED
    BY <1>3, <2>1, <2>2, LiveKeeps
       DEF CopyArgs, TInv, TypeOK, OpShape, Idle, Cells, Refs, Value
<1>4. QED
  BY <1>2, <1>3 DEF CopyArgs

LEMMA ReturnT ==
    ASSUME TInv, Return
    PROVE  TInv'
<1> DEFINE f == frames[Len(frames)].run
<1>1. f \in Obj
  BY DEF TInv, TypeOK, Return, Frame
<1>2. kids' = [kids EXCEPT ![f] = {e \in @ : e[1] # Argv}]
  BY DEF Return
<1>3. kids' \in [Obj -> SUBSET ((Value \cup {Argv}) \X Value)]
  BY <1>1, <1>2 DEF TInv, TypeOK
<1>4. frames' \in Seq(Frame)
  BY DEF TInv, TypeOK, Return
<1>5. QED
  BY <1>3, <1>4 DEF TInv, TypeOK, OpShape, Return, Idle, Alloced

LEMMA StoreLocalT ==
    ASSUME TInv, NEW i \in 1 .. MaxLocal, StoreLocal(i)
    PROVE  TInv'
  BY LiveKeeps DEF TInv, TypeOK, OpShape, StoreLocal, Top, Popped, Alloced, Idle, Value

LEMMA PushLocalT ==
    ASSUME TInv, NEW i \in 1 .. MaxLocal, PushLocal(i)
    PROVE  TInv'
  BY LiveKeeps DEF TInv, TypeOK, OpShape, PushLocal, Room, Alloced, Idle, Value

LEMMA PauseT ==
    ASSUME TInv, Pause
    PROVE  TInv'
  BY LiveKeeps DEF TInv, TypeOK, OpShape, Pause, Alloced, Idle, Value

LEMMA ResumeT ==
    ASSUME TInv, Resume
    PROVE  TInv'
  BY LiveKeeps DEF TInv, TypeOK, OpShape, Resume, Alloced, Idle, Value

LEMMA CollectT ==
    ASSUME TInv, Collect
    PROVE  TInv'
  BY LiveKeeps DEF TInv, TypeOK, OpShape, Collect, Sweep, Heap, Alloced, Idle, Value

LEMMA StepTInv == TInv /\ [Next]_vars => TInv'
<1> SUFFICES ASSUME TInv, [Next]_vars PROVE TInv'  OBVIOUS
<1>1. CASE UNCHANGED vars
  BY <1>1 DEF vars, TInv, TypeOK, OpShape, Alloced
<1>2. CASE Next
  BY <1>2, NewObjectT, AllocItemsT, FillLiteralT, PushMadeT, PushFilledT,
     PushOverflowT, PanicT, PushStringT, PushStringOverflowT, ChunkFileT,
     NewFunctionT, FuncInitT, CloneFunctionT, BindCloneT, PutFieldT,
     AddElemT, GetFieldT, NameFetchT, NamePutT, GetGlobalT, PopT, CallT,
     CopyArgsT, ReturnT, StoreLocalT, PushLocalT, PauseT, ResumeT, CollectT,
     ConcatT, TypeOfT, AddLocalT, AddConstT
     DEF Next, Allocate
<1>3. QED
  BY <1>1, <1>2

\* Every reachable state has the shape the C declarations promise: grabbed
\* objects are allocated, frames lie within the array of locals, the stack
\* holds at most MAX_STACK values.
THEOREM TypeCorrect == Spec => []TypeOK
<1>1. TInv => TypeOK
  BY DEF TInv
<1>2. QED
  BY InitTInv, StepTInv, <1>1, PTL DEF Spec

-----------------------------------------------------------------------------
(* The pool of strings holds one string per spelling; every grab has a release. *)

\* No string appears, or one whose spelling had none.
KeepsText(x) == cell'[x] \in Text => cell'[x] = cell[x]
NoneInterned == \A x \in Obj : KeepsText(x)
OneInterned == \E t \in Text, s \in Obj :
    Interned(t) = {} /\ cell'[s] = t /\ \A x \in Obj \ {s} : KeepsText(x)

LEMMA SweepInterns ==
    ASSUME TypeOK, NEW gc, NEW c, NEW refs, Sweep(Live(gc)) \/ SweepAndSet(Live(gc), c, refs)
    PROVE  NoneInterned
  BY DEF TypeOK, Sweep, SweepAndSet, Heap, NoneInterned, KeepsText

LEMMA MakeInterns ==
    ASSUME TypeOK, NEW gc, NEW o \in Obj, NEW what \in {"hmap", "func"}, NEW refs,
           Heap(Live(gc), o, what, refs)
    PROVE  NoneInterned
  BY DEF TypeOK, Heap, NoneInterned, KeepsText

LEMMA FetchInterns ==
    ASSUME TypeOK, NEW t \in Text, NEW s \in Obj, NEW gc, Fetch(t, s, gc)
    PROVE  NoneInterned \/ OneInterned
<1>1. CASE Hit(t, s)
  BY <1>1 DEF Hit, NoneInterned, KeepsText
<1>2. CASE Miss(t, s, gc)
  BY <1>2 DEF TypeOK, Miss, Heap, OneInterned, KeepsText
<1>3. QED
  BY <1>1, <1>2 DEF Fetch

LEMMA LinkInterns ==
    ASSUME TypeOK, NEW t \in Text, NEW s \in Obj, NEW gc, NEW f, Link(f, t, s, gc)
    PROVE  NoneInterned \/ OneInterned
<1>1. CASE cell' = cell
  BY <1>1 DEF NoneInterned, KeepsText
<1>2. CASE cell' # cell
  <2>1. /\ Interned(t) = {}
        /\ cell' = [x \in Obj |-> IF x = s THEN t
                       ELSE IF x \in Live(gc) \cup {s} THEN cell[x] ELSE "free"]
    BY <1>2 DEF Link
  <2>2. QED
    BY <2>1 DEF TypeOK, OneInterned, KeepsText
<1>3. QED
  BY <1>1, <1>2

LEMMA StepInterns == TInv /\ [Next]_vars => NoneInterned \/ OneInterned
<1> SUFFICES ASSUME TInv, [Next]_vars PROVE NoneInterned \/ OneInterned  OBVIOUS
<1>1. CASE cell' = cell
  BY <1>1 DEF NoneInterned, KeepsText
<1>2. CASE Allocate
  <2>1. PICK gc \in BOOLEAN :
          \/ \E o \in Obj : \/ NewObject(o, "hmap", gc) \/ NewObject(o, "func", gc)
                            \/ NewFunction(o, gc) \/ CloneFunction(o, gc)
          \/ \E t \in Text, s \in Obj :
                \/ PushString(t, s, gc) \/ PushStringOverflow(t, s, gc)
                \/ ChunkFile(t, s, gc) \/ FuncInit(t, s, gc)
                \/ NameFetch(t, s, gc) \/ GetGlobal(t, s, gc)
                \/ Concat(t, s, gc) \/ TypeOf(t, s, gc) \/ AddLocal(t, s, gc)
          \/ AllocItems(gc) \/ FillLiteral(gc) \/ BindClone(gc) \/ PutField(gc)
          \/ AddElem(gc) \/ NamePut(gc) \/ AddConst(gc) \/ CopyArgs(gc)
    BY <1>2 DEF Allocate
  <2>2. \A o \in Obj : NewObject(o, "hmap", gc) \/ NewObject(o, "func", gc)
                       \/ NewFunction(o, gc) \/ CloneFunction(o, gc) => NoneInterned
    BY MakeInterns DEF TInv, NewObject, NewFunction, CloneFunction
  <2>3. \A t \in Text, s \in Obj :
           PushString(t, s, gc) \/ PushStringOverflow(t, s, gc) \/ ChunkFile(t, s, gc)
           \/ NameFetch(t, s, gc) \/ GetGlobal(t, s, gc) \/ Concat(t, s, gc)
           \/ TypeOf(t, s, gc) => NoneInterned \/ OneInterned
    BY FetchInterns DEF TInv, PushString, PushStringOverflow, ChunkFile, NameFetch,
       GetGlobal, Concat, TypeOf, Fetch
  <2>4. \A t \in Text, s \in Obj : FuncInit(t, s, gc) \/ AddLocal(t, s, gc) => NoneInterned \/ OneInterned
    BY LinkInterns DEF TInv, FuncInit, AddLocal
  <2>5. AllocItems(gc) \/ FillLiteral(gc) \/ BindClone(gc) \/ PutField(gc)
          \/ AddElem(gc) \/ NamePut(gc) \/ AddConst(gc) \/ CopyArgs(gc) => NoneInterned
    BY SweepInterns DEF TInv, AllocItems, FillLiteral, BindClone, PutField, AddElem, NamePut,
       AddConst, CopyArgs
  <2>6. QED
    BY <2>1, <2>2, <2>3, <2>4, <2>5
<1>3. CASE Collect
  BY <1>3, SweepInterns DEF TInv, Collect
<1>4. CASE Next /\ ~Allocate /\ ~Collect
  BY <1>4, <1>1 DEF Next, PushMade, PushFilled, PushOverflow, Panic, GetField, Pop, Call, Return,
     StoreLocal, PushLocal, Pause, Resume
<1>5. CASE UNCHANGED vars
  BY <1>1, <1>5 DEF vars
<1>6. QED
  BY <1>2, <1>3, <1>4, <1>5

\* Two live strings never share a spelling, although kpool_insert may collect
\* between the look-up in the pool and the insertion.
THEOREM PoolHasNoTwins == Spec => []PoolUnique
<1>1. Init => PoolUnique
  BY DEF Init, PoolUnique, Interned
<1>2. TInv /\ PoolUnique /\ [Next]_vars => PoolUnique'
  BY StepInterns DEF PoolUnique, Interned, NoneInterned, OneInterned, KeepsText
<1>3. QED
  BY InitTInv, StepTInv, <1>1, <1>2, PTL DEF Spec

-----------------------------------------------------------------------------
\* The file name of a chunk is no longer grabbed.
NameReleased == op.at = "chunk" => op.key \notin gray
Calm == Releases /\ NameReleased'

LEMMA NewObjectR ==
    ASSUME TInv, NameReleased, NEW o \in Obj, NEW what \in {"hmap", "func"}, NEW gc \in BOOLEAN,
           NewObject(o, what, gc)
    PROVE  Calm
  BY DEF TInv, TypeOK, OpShape, NameReleased, Calm, Releases, Abandoned, Panicked, NewObject, Held, Idle, Room

LEMMA AllocItemsR ==
    ASSUME TInv, NameReleased, NEW gc \in BOOLEAN, AllocItems(gc)
    PROVE  Calm
  BY DEF TInv, TypeOK, OpShape, NameReleased, Calm, Releases, Abandoned, Panicked, AllocItems, Sweep, Held,
     Idle, Room

LEMMA FillLiteralR ==
    ASSUME TInv, NameReleased, NEW gc \in BOOLEAN, FillLiteral(gc)
    PROVE  Calm
  BY DEF TInv, TypeOK, OpShape, NameReleased, Calm, Releases, Abandoned, Panicked, FillLiteral, Held, Idle,
     Room

LEMMA PushMadeR == ASSUME TInv, NameReleased, PushMade PROVE Calm
  BY DEF TInv, TypeOK, OpShape, NameReleased, Calm, Releases, Abandoned, Panicked, PushMade, Held, Idle, Room

LEMMA PushFilledR == ASSUME TInv, NameReleased, PushFilled PROVE Calm
  BY DEF TInv, TypeOK, OpShape, NameReleased, Calm, Releases, Abandoned, Panicked, PushFilled, Held, Idle,
     Room

LEMMA PushOverflowR == ASSUME TInv, NameReleased, PushOverflow PROVE Calm
  BY DEF TInv, TypeOK, OpShape, NameReleased, Calm, Releases, Abandoned, Panicked, PushOverflow, Unwind, Held,
     Idle, Room

LEMMA PanicR == ASSUME TInv, NameReleased, Panic PROVE Calm
  BY DEF TInv, TypeOK, OpShape, NameReleased, Calm, Releases, Abandoned, Panicked, Panic, NilInLiteral, Unwind,
     Held, Idle

LEMMA PushStringR ==
    ASSUME TInv, NameReleased, NEW t \in Text, NEW s \in Obj, NEW gc \in BOOLEAN,
           PushString(t, s, gc)
    PROVE  Calm
  BY DEF TInv, TypeOK, OpShape, NameReleased, Calm, Releases, Abandoned, Panicked, PushString, Held, Idle,
     Room

LEMMA PushStringOverflowR ==
    ASSUME TInv, NameReleased, NEW t \in Text, NEW s \in Obj, NEW gc \in BOOLEAN,
           PushStringOverflow(t, s, gc)
    PROVE  Calm
  BY DEF TInv, TypeOK, OpShape, NameReleased, Calm, Releases, Abandoned, Panicked, PushStringOverflow, Unwind,
     Held, Idle, Room

LEMMA ConcatR ==
    ASSUME TInv, NameReleased, NEW t \in Text, NEW s \in Obj, NEW gc \in BOOLEAN,
           Concat(t, s, gc)
    PROVE  Calm
  BY DEF TInv, TypeOK, OpShape, NameReleased, Calm, Releases, Abandoned, Concat, Held, Idle

\* The one step that abandons an object without a panic.
LEMMA TypeOfR ==
    ASSUME TInv, NameReleased, NEW t \in Text, NEW s \in Obj, NEW gc \in BOOLEAN,
           TypeOf(t, s, gc)
    PROVE  Calm
<1>1. Held = {} /\ Held' = {} /\ NameReleased'
  BY DEF TypeOf, Held, Idle, NameReleased
<1>2. CASE Hit(t, s) /\ UNCHANGED gray
  BY <1>1, <1>2 DEF Calm, Releases, Abandoned
<1>3. CASE Miss(t, s, gc) /\ gray' = gray \cup {s}
  <2>1. Interned(t) = {} /\ cell'[s] = t
    BY <1>3 DEF Miss, Heap
  <2>2. TypeNamed(s)
    BY <2>1 DEF TypeOf, TypeNamed
  <2>3. Abandoned = {} \/ Abandoned = {s}
    BY <1>1, <1>3 DEF Abandoned
  <2>4. QED
    BY <1>1, <2>2, <2>3 DEF Calm, Releases
<1>4. QED
  BY <1>2, <1>3 DEF TypeOf

LEMMA AddLocalR ==
    ASSUME TInv, NameReleased, NEW t \in Text, NEW s \in Obj, NEW gc \in BOOLEAN,
           AddLocal(t, s, gc)
    PROVE  Calm
  BY DEF TInv, TypeOK, OpShape, NameReleased, Calm, Releases, Abandoned, AddLocal, Held, Idle

LEMMA AddConstR == ASSUME TInv, NameReleased, NEW gc \in BOOLEAN, AddConst(gc) PROVE Calm
  BY DEF TInv, TypeOK, OpShape, NameReleased, Calm, Releases, Abandoned, AddConst, Held, Idle

LEMMA ChunkFileR ==
    ASSUME TInv, NameReleased, NEW t \in Text, NEW s \in Obj, NEW gc \in BOOLEAN,
           ChunkFile(t, s, gc)
    PROVE  Calm
  BY DEF TInv, TypeOK, OpShape, NameReleased, Calm, Releases, Abandoned, Panicked, ChunkFile, Held, Idle, Room

LEMMA NewFunctionR ==
    ASSUME TInv, NameReleased, NEW o \in Obj, NEW gc \in BOOLEAN, NewFunction(o, gc)
    PROVE  Calm
  BY DEF TInv, TypeOK, OpShape, NameReleased, Calm, Releases, Abandoned, Panicked, NewFunction, Held, Idle,
     Room

LEMMA FuncInitR ==
    ASSUME TInv, NameReleased, NEW t \in Text, NEW s \in Obj, NEW gc \in BOOLEAN,
           FuncInit(t, s, gc)
    PROVE  Calm
  BY DEF TInv, TypeOK, OpShape, NameReleased, Calm, Releases, Abandoned, Panicked, FuncInit, Unwind, Held,
     Idle, Room

LEMMA CloneFunctionR ==
    ASSUME TInv, NameReleased, NEW o \in Obj, NEW gc \in BOOLEAN, CloneFunction(o, gc)
    PROVE  Calm
  BY DEF TInv, TypeOK, OpShape, NameReleased, Calm, Releases, Abandoned, Panicked, CloneFunction, Held, Idle,
     Room

LEMMA BindCloneR == ASSUME TInv, NameReleased, NEW gc \in BOOLEAN, BindClone(gc) PROVE Calm
  BY DEF TInv, TypeOK, OpShape, NameReleased, Calm, Releases, Abandoned, Panicked, BindClone, Held, Idle, Room

LEMMA PutFieldR == ASSUME TInv, NameReleased, NEW gc \in BOOLEAN, PutField(gc) PROVE Calm
  BY DEF TInv, TypeOK, OpShape, NameReleased, Calm, Releases, Abandoned, Panicked, PutField, Held, Idle, Room

LEMMA AddElemR == ASSUME TInv, NameReleased, NEW gc \in BOOLEAN, AddElem(gc) PROVE Calm
  BY DEF TInv, TypeOK, OpShape, NameReleased, Calm, Releases, Abandoned, Panicked, AddElem, Held, Idle, Room

LEMMA GetFieldR == ASSUME TInv, NameReleased, GetField PROVE Calm
  BY DEF TInv, TypeOK, OpShape, NameReleased, Calm, Releases, Abandoned, Panicked, GetField, Held, Idle, Room

LEMMA NameFetchR ==
    ASSUME TInv, NameReleased, NEW t \in Text, NEW s \in Obj, NEW gc \in BOOLEAN,
           NameFetch(t, s, gc)
    PROVE  Calm
  BY DEF TInv, TypeOK, OpShape, NameReleased, Calm, Releases, Abandoned, Panicked, NameFetch, Held, Idle, Room

LEMMA NamePutR == ASSUME TInv, NameReleased, NEW gc \in BOOLEAN, NamePut(gc) PROVE Calm
  BY DEF TInv, TypeOK, OpShape, NameReleased, Calm, Releases, Abandoned, Panicked, NamePut, Held, Idle, Room

LEMMA GetGlobalR ==
    ASSUME TInv, NameReleased, NEW t \in Text, NEW s \in Obj, NEW gc \in BOOLEAN,
           GetGlobal(t, s, gc)
    PROVE  Calm
  BY DEF TInv, TypeOK, OpShape, NameReleased, Calm, Releases, Abandoned, Panicked, GetGlobal, Held, Idle, Room

LEMMA PopR == ASSUME TInv, NameReleased, Pop PROVE Calm
  BY DEF TInv, TypeOK, OpShape, NameReleased, Calm, Releases, Abandoned, Panicked, Pop, Held, Idle, Room

LEMMA CallR ==
    ASSUME TInv, NameReleased, NEW argc \in {0, 1}, NEW n \in 0 .. MaxLocal, Call(argc, n)
    PROVE  Calm
  BY DEF TInv, TypeOK, OpShape, NameReleased, Calm, Releases, Abandoned, Panicked, Call, Held, Idle, Room

LEMMA CopyArgsR == ASSUME TInv, NameReleased, NEW gc \in BOOLEAN, CopyArgs(gc) PROVE Calm
  BY DEF TInv, TypeOK, OpShape, NameReleased, Calm, Releases, Abandoned, Panicked, CopyArgs, Held, Idle, Room

LEMMA ReturnR == ASSUME TInv, NameReleased, Return PROVE Calm
  BY DEF TInv, TypeOK, OpShape, NameReleased, Calm, Releases, Abandoned, Panicked, Return, Held, Idle, Room

LEMMA StoreLocalR ==
    ASSUME TInv, NameReleased, NEW i \in 1 .. MaxLocal, StoreLocal(i)
    PROVE  Calm
  BY DEF TInv, TypeOK, OpShape, NameReleased, Calm, Releases, Abandoned, Panicked, StoreLocal, Held, Idle,
     Room

LEMMA PushLocalR ==
    ASSUME TInv, NameReleased, NEW i \in 1 .. MaxLocal, PushLocal(i)
    PROVE  Calm
  BY DEF TInv, TypeOK, OpShape, NameReleased, Calm, Releases, Abandoned, Panicked, PushLocal, Held, Idle, Room

LEMMA PauseR == ASSUME TInv, NameReleased, Pause PROVE Calm
  BY DEF TInv, TypeOK, OpShape, NameReleased, Calm, Releases, Abandoned, Panicked, Pause, Held, Idle, Room

LEMMA ResumeR == ASSUME TInv, NameReleased, Resume PROVE Calm
  BY DEF TInv, TypeOK, OpShape, NameReleased, Calm, Releases, Abandoned, Panicked, Resume, Held, Idle, Room

LEMMA CollectR == ASSUME TInv, NameReleased, Collect PROVE Calm
  BY DEF TInv, TypeOK, OpShape, NameReleased, Calm, Releases, Abandoned, Panicked, Collect, Held, Idle, Room

LEMMA StepReleases == TInv /\ NameReleased /\ [Next]_vars => [Releases]_vars /\ NameReleased'
<1> SUFFICES ASSUME TInv, NameReleased, [Next]_vars PROVE [Releases]_vars /\ NameReleased'
  OBVIOUS
<1>1. CASE UNCHANGED vars
  BY <1>1 DEF vars, NameReleased
<1>2. CASE Next
  BY <1>2, NewObjectR, AllocItemsR, FillLiteralR, PushMadeR, PushFilledR, PushOverflowR,
     PanicR, PushStringR, PushStringOverflowR, ChunkFileR, NewFunctionR, FuncInitR, CloneFunctionR,
     BindCloneR, PutFieldR, AddElemR, GetFieldR, NameFetchR, NamePutR, GetGlobalR, PopR,
     CallR, CopyArgsR, ReturnR, StoreLocalR, PushLocalR, PauseR, ResumeR, CollectR,
     ConcatR, TypeOfR, AddLocalR, AddConstR
     DEF Next, Allocate, Calm
<1>3. QED
  BY <1>1, <1>2

\* Whatever an allocation grabs is released by the end of the C function, with two
\* exceptions.  The function panics: its push finds the value stack full (ymd_push),
\* or the literal it builds has a nil in it (do_put).  Or it is typeof_kstr, whose
\* caller I_TYPEOF has no gc_release: the one new string it made stays grabbed.
THEOREM GrabsAreReleased == Spec => GrabsReleased
<1>1. Init => NameReleased
  BY DEF Init, NameReleased, Idle
<1>2. QED
  BY InitTInv, StepTInv, <1>1, StepReleases, PTL DEF Spec, GrabsReleased

-----------------------------------------------------------------------------
(* No collection frees what the program can still reach, as long as no C code *)
(* has relied on an unprotected object: the inductive invariant and its proof. *)


\* The objects a pointer may point to: allocated, not abandoned by a panic, and
\* not the object under construction, which only `op' knows.
Sound == Alloced \ (leaked \cup {op.obj})

RootsSound == Roots \subseteq Sound
KidsSound == \A o \in Sound : Children(kids, o) \subseteq Sound

\* The name in hand is grabbed or reached.
KeySound ==
    /\ op.key # Nil => op.key \in Sound /\ op.key \in gray \cup Reached
    /\ op.at = "chunk" => op.key \in Reached

\* The object under construction refers only to what is reached anyway.
NewSound == op.obj # Nil => op.obj \notin leaked /\ Children(kids, op.obj) \subseteq Reached

\* Grabbed objects are not traced: apart from the object under construction and
\* those abandoned they are strings, which refer to nothing.
GrayKinds ==
    /\ leaked \subseteq gray
    /\ \A o \in gray : o \in leaked \cup {op.obj} \/ IsString(o)
    /\ \A o \in leaked : ~IsString(o)
StringsBare == \A o \in Obj : IsString(o) => kids[o] = {}

\* Each frame's locals start where its caller's end.
FramesLinked ==
    \A i \in DOMAIN frames :
        /\ cell[frames[i].run] = "func"
        /\ frames[i].base = IF i = 1 THEN 0 ELSE frames[i - 1].base + frames[i - 1].n

SInv == /\ RootsSound /\ KidsSound /\ KeySound /\ NewSound
        /\ GrayKinds /\ StringsBare /\ FramesLinked
HInv == ~exposed => SInv

USE HeapAssumption

-----------------------------------------------------------------------------
(* Reachability *)

LEMMA ReachLeast ==
    ASSUME NEW k, NEW R \in SUBSET Obj, NEW C \in SUBSET Obj, R \subseteq C, Closed(k, C)
    PROVE  Reach(k, R) \subseteq C
  BY DEF Reach

LEMMA ReachClosed ==
    ASSUME NEW k, NEW R \in SUBSET Obj
    PROVE  /\ Reach(k, R) \in SUBSET Obj /\ R \subseteq Reach(k, R)
           /\ Closed(k, Reach(k, R))
<1>1. Reach(k, R) \in SUBSET Obj /\ R \subseteq Reach(k, R)
  BY DEF Reach
<1>2. ASSUME NEW o \in Reach(k, R), NEW x \in Children(k, o), NEW C \in SUBSET Obj,
             R \subseteq C, Closed(k, C)
      PROVE  x \in C
  <2>1. o \in C
    BY <1>2 DEF Reach
  <2>2. QED
    BY <1>2, <2>1 DEF Closed
<1>3. ASSUME NEW o \in Reach(k, R), NEW x \in Children(k, o)
      PROVE  x \in Reach(k, R)
  <2>1. x \in Obj
    BY DEF Children
  <2>2. QED
    BY <1>2, <2>1 DEF Reach
<1>4. QED
  BY <1>1, <1>3 DEF Closed

\* What is reached stays reached when no reference of a reached object is lost.
LEMMA ReachKept ==
    ASSUME NEW k, NEW k2, NEW R \in SUBSET Obj, NEW R2 \in SUBSET Obj, R \subseteq R2,
           \A o \in Reach(k, R) : Children(k, o) \subseteq Children(k2, o)
    PROVE  Reach(k, R) \subseteq Reach(k2, R2)
<1> DEFINE C == Reach(k, R) \cap Reach(k2, R2)
<1>1. C \in SUBSET Obj /\ R \subseteq C
  BY ReachClosed
<1>2. Closed(k, C)
  <2> SUFFICES ASSUME NEW o \in C PROVE Children(k, o) \subseteq C
    BY DEF Closed
  <2>1. Children(k, o) \subseteq Reach(k, R)
    BY ReachClosed DEF Closed
  <2>2. Children(k2, o) \subseteq Reach(k2, R2)
    BY ReachClosed DEF Closed
  <2>3. QED
    BY <2>1, <2>2
<1>3. QED
  BY <1>1, <1>2, ReachLeast

LEMMA RootsType == ASSUME TInv PROVE Roots \in SUBSET Obj
<1>1. Window \in 0 .. MaxLocal
  BY DEF TInv, TypeOK, Window, Frame
<1>2. Range(stk) \subseteq Value
  BY DEF TInv, TypeOK, Range
<1>3. Locals \subseteq Value
  BY <1>1 DEF TInv, TypeOK, Locals
<1>4. Running \subseteq Obj
  BY SMTT(60) DEF TInv, TypeOK, Running, Frame
<1>5. QED
  BY <1>2, <1>3, <1>4 DEF Roots, Value

LEMMA ReachedFacts ==
    ASSUME TInv
    PROVE  Reached \in SUBSET Obj /\ Roots \subseteq Reached /\ Closed(kids, Reached)
  BY RootsType, ReachClosed DEF Reached

-----------------------------------------------------------------------------
(* What survives an allocation *)

Keep(gc) == Live(gc) \ (leaked \cup {op.obj})

\* Everything reached, and the name in hand, survives; the survivors refer only
\* to survivors.
LEMMA KeepFacts ==
    ASSUME TInv, SInv, NEW gc
    PROVE  /\ Reached \subseteq Keep(gc) /\ Keep(gc) \subseteq Sound
           /\ op.key # Nil => op.key \in Keep(gc)
           /\ \A o \in Keep(gc) : Children(kids, o) \subseteq Keep(gc)
           /\ leaked \cup gray \subseteq Live(gc) /\ Live(gc) \subseteq Alloced
           /\ op.obj # Nil => op.obj \in Live(gc)
<1>1. Sound \in SUBSET Obj /\ Closed(kids, Sound)
  BY DEF SInv, KidsSound, Closed, Sound, Alloced
<1>2. Reached \subseteq Sound
  BY <1>1, RootsType, ReachLeast DEF SInv, RootsSound, Reached
<1>3. Reached \subseteq Live(gc) /\ gray \subseteq Live(gc) /\ Live(gc) \subseteq Alloced
  BY <1>2, LiveKeeps DEF TInv, Live, Survivors, Sound
<1>4. Reached \subseteq Keep(gc) /\ Keep(gc) \subseteq Sound
  BY <1>2, <1>3 DEF Keep, Sound
<1>5. op.key # Nil => op.key \in Keep(gc)
  BY <1>3 DEF SInv, KeySound, Keep, Sound
<1>6. \A o \in Keep(gc) : Children(kids, o) \subseteq Keep(gc)
  <2> SUFFICES ASSUME NEW o \in Keep(gc) PROVE Children(kids, o) \subseteq Keep(gc)
    OBVIOUS
  <2>1. CASE o \in Reached
    BY <1>4, <2>1, ReachedFacts DEF Closed
  <2>2. CASE o \in gray \ Reached
    <3>1. kids[o] = {}
      BY <1>3, <2>2 DEF Keep, SInv, GrayKinds, StringsBare, TInv, TypeOK, Alloced
    <3>2. QED
      BY <3>1 DEF Children
  <2>3. CASE o \notin Reached \cup gray
    <3>1. Live(gc) = Alloced
      BY <2>3 DEF Live, Survivors, Keep
    <3>2. Keep(gc) = Sound
      BY <3>1 DEF Keep, Sound
    <3>3. QED
      BY <3>2 DEF SInv, KidsSound
  <2>4. QED
    BY <2>1, <2>2, <2>3
<1>7. leaked \subseteq gray /\ (op.obj # Nil => op.obj \in gray)
  BY DEF SInv, GrayKinds, TInv, TypeOK, OpShape
<1>8. QED
  BY <1>3, <1>4, <1>5, <1>6, <1>7

\* A step that adds roots and sets references only to survivors, or to the
\* objects N it publishes; c is the object whose references it sets.
HeapOK(gc, N, c) ==
    /\ N \subseteq Obj /\ Sound' = Keep(gc) \cup N
    /\ Range(stk') \cup Locals' \cup Running' \subseteq Keep(gc) \cup N \cup {Nil}
    /\ \A x \in Keep(gc) \ ({c} \cup N) : kids'[x] = kids[x]
    /\ \A x \in N \cup (Keep(gc) \cap {c}) :
          \A e \in kids'[x] : {e[1], e[2]} \cap Obj \subseteq Keep(gc) \cup N

LEMMA HeapStep ==
    ASSUME TInv, SInv, NEW gc, NEW N, NEW c, HeapOK(gc, N, c)
    PROVE  RootsSound' /\ KidsSound'
<1>1. Global \in Keep(gc)
  BY KeepFacts, ReachedFacts DEF Roots
<1>2. RootsSound'
  BY <1>1 DEF RootsSound, Roots, HeapOK
<1>3. ASSUME NEW o \in Sound' PROVE Children(kids', o) \subseteq Sound'
  <2>1. CASE o \in N \cup (Keep(gc) \cap {c})
    BY <2>1 DEF Children, HeapOK
  <2>2. CASE o \in Keep(gc) \ ({c} \cup N)
    <3>1. Children(kids', o) = Children(kids, o)
      BY <2>2 DEF Children, HeapOK
    <3>2. QED
      BY <2>2, <3>1, KeepFacts DEF HeapOK
  <2>3. QED
    BY <1>3, <2>1, <2>2 DEF HeapOK
<1>4. QED
  BY <1>2, <1>3 DEF KidsSound

\* A step that moves no root keeps what was reached within reach.
LEMMA ReachedKept ==
    ASSUME TInv, SInv, NEW gc, UNCHANGED <<stk, loc, frames>>,
           \A x \in Keep(gc) : kids'[x] = kids[x]
    PROVE  Reached \subseteq Reached' /\ Range(stk') \cup Locals' \cup Running' \subseteq Keep(gc) \cup {Nil}
<1>1. Roots' = Roots
  BY DEF Roots, Locals, Running, Window
<1>2. \A o \in Reached : Children(kids, o) \subseteq Children(kids', o)
  BY KeepFacts DEF Children
<1>3. Reached \subseteq Reached'
  BY <1>1, <1>2, RootsType, ReachKept DEF Reached
<1>4. Range(stk') \cup Locals' \cup Running' \subseteq Roots \cup {Nil}
  BY <1>1 DEF Roots
<1>5. QED
  BY <1>3, <1>4, KeepFacts, ReachedFacts

\* The roots before the step survive it.
LEMMA RootsKept ==
    ASSUME TInv, SInv, NEW gc
    PROVE  /\ \A i \in Nat : i < Len(stk) => Top(i) \in Keep(gc) \cup {Nil}
           /\ Range(stk) \subseteq Keep(gc) \cup {Nil}
           /\ \A n \in Nat : n <= Len(stk) => Range(Popped(n)) \subseteq Range(stk)
           /\ Locals \cup Running \subseteq Keep(gc) \cup {Nil}
<1>1. Roots \subseteq Keep(gc)
  BY KeepFacts, ReachedFacts
<1>2. \A i \in Nat : i < Len(stk) => Top(i) \in Range(stk)
  BY DEF TInv, TypeOK, Top, Range
<1>3. \A n \in Nat : n <= Len(stk) => Range(Popped(n)) \subseteq Range(stk)
  BY DEF TInv, TypeOK, Popped, Range
<1>4. QED
  BY <1>1, <1>2, <1>3 DEF Roots

LEMMA PushedRange ==
    ASSUME NEW s \in Seq(Value), NEW v \in Value
    PROVE  Range(Append(s, v)) = Range(s) \cup {v}
<1> DEFINE a == Append(s, v)
<1>1. DOMAIN a = 1 .. Len(s) + 1 /\ DOMAIN s = 1 .. Len(s)
  OBVIOUS
<1>2. a[Len(s) + 1] = v /\ \A i \in 1 .. Len(s) : a[i] = s[i]
  OBVIOUS
<1> HIDE DEF a
<1>3. \A x \in Range(a) : x \in Range(s) \cup {v}
  BY <1>1, <1>2 DEF Range
<1>4. \A x \in Range(s) \cup {v} : x \in Range(a)
  <2>1. Len(s) \in Nat
    OBVIOUS
  <2>2. Len(s) + 1 \in DOMAIN a /\ \A i \in DOMAIN s : i \in DOMAIN a
    BY <1>1, <2>1
  <2>3. QED
    BY <1>1, <1>2, <2>2 DEF Range
<1>5. QED
  BY <1>3, <1>4 DEF a

LEMMA KeepNow == Keep(FALSE) = Sound
  BY DEF Keep, Live, Sound

\* What a step that does not touch the heap has to show.
LEMMA Untouched ==
    ASSUME TInv, SInv, op = Idle, UNCHANGED <<cell, kids, gray, op, leaked>>,
           Range(stk') \cup Locals' \cup Running' \subseteq Sound \cup {Nil}, FramesLinked'
    PROVE  SInv'
<1>1. HeapOK(FALSE, {}, Nil)
  BY KeepNow DEF HeapOK, Sound, Alloced
<1>2. KeySound' /\ NewSound'
  BY DEF KeySound, NewSound, Idle
<1>3. GrayKinds' /\ StringsBare'
  BY DEF SInv, GrayKinds, StringsBare, IsString
<1>4. QED
  BY <1>1, <1>2, <1>3, HeapStep DEF SInv

LEMMA FramesKept ==
    ASSUME TInv, SInv, NEW gc, UNCHANGED frames, \A x \in Live(gc) : cell'[x] = cell[x]
    PROVE  FramesLinked'
<1>1. \A i \in DOMAIN frames : frames[i].run \in Keep(gc) \cup {Nil} /\ frames[i].run \in Obj
  BY SMTT(60), RootsKept DEF Running, TInv, TypeOK, Frame
<1>2. QED
  BY <1>1 DEF SInv, FramesLinked, Keep

LEMMA StackOnly ==
    ASSUME TInv, SInv, NEW gc, NEW N, UNCHANGED <<loc, frames>>,
           Range(stk') \subseteq Keep(gc) \cup N \cup {Nil}
    PROVE  Range(stk') \cup Locals' \cup Running' \subseteq Keep(gc) \cup N \cup {Nil}
<1>1. Locals' = Locals /\ Running' = Running
  BY DEF Locals, Running, Window
<1>2. QED
  BY <1>1, RootsKept

LEMMA StackKept ==
    ASSUME TInv, SInv, NEW gc
    PROVE  /\ \A n \in Nat : n <= Len(stk) =>
                 /\ Range(Popped(n)) \subseteq Keep(gc) \cup {Nil}
                 /\ \A v \in Value : Range(Append(Popped(n), v)) = Range(Popped(n)) \cup {v}
           /\ \A v \in Value : Range(Append(stk, v)) = Range(stk) \cup {v}
  BY RootsKept, StackFacts, PushedRange DEF TInv, TypeOK

-----------------------------------------------------------------------------
(* Steps that do not touch the heap *)

LEMMA PopS == ASSUME TInv, SInv, Pop PROVE SInv'
<1>1. 1 \in Nat /\ 1 <= Len(stk)
  BY DEF Pop, TInv, TypeOK
<1>2. Range(stk') \subseteq Sound \cup {Nil}
  BY <1>1, KeepNow, StackKept DEF Pop
<1>3. FramesLinked'
  BY DEF Pop, SInv, FramesLinked
<1>4. QED
  BY <1>2, <1>3, KeepNow, StackOnly, Untouched DEF Pop

LEMMA GetFieldS == ASSUME TInv, SInv, GetField PROVE SInv'
<1>1. 0 < Len(stk) /\ 1 < Len(stk) /\ 2 <= Len(stk)
  BY DEF GetField, TInv, TypeOK
<1>2. PICK v \in Value : /\ stk' = Append(Popped(2), v)
                         /\ v = Nil \/ <<Top(0), v>> \in kids[Top(1)]
  BY DEF GetField
<1>3. v \in Sound \cup {Nil}
  <2>1. CASE <<Top(0), v>> \in kids[Top(1)] /\ v # Nil
    <3>1. Top(1) \in Sound
      BY <1>1, KeepNow, RootsKept DEF GetField
    <3>2. v \in Children(kids, Top(1))
      BY <2>1 DEF Children, Value
    <3>3. QED
      BY <3>1, <3>2 DEF SInv, KidsSound
  <2>2. QED
    BY <1>2, <2>1
<1>4. Range(stk') \subseteq Sound \cup {Nil}
  <2>1. Range(Popped(2)) \subseteq Sound \cup {Nil} /\ Range(stk') = Range(Popped(2)) \cup {v}
    BY <1>1, <1>2, KeepNow, StackKept
  <2>2. QED
    BY <2>1, <1>3
<1>5. FramesLinked'
  BY DEF GetField, SInv, FramesLinked
<1>6. QED
  BY <1>4, <1>5, KeepNow, StackOnly, Untouched DEF GetField

LEMMA StoreLocalS ==
    ASSUME TInv, SInv, NEW i \in 1 .. MaxLocal, StoreLocal(i) PROVE SInv'
<1>1. 0 < Len(stk) /\ 1 \in Nat /\ 1 <= Len(stk)
  BY DEF StoreLocal, TInv, TypeOK
<1>2. Range(stk') \subseteq Sound \cup {Nil} /\ Top(0) \in Sound \cup {Nil}
  BY <1>1, KeepNow, StackKept, RootsKept DEF StoreLocal
<1>3. Running' = Running /\ Window' = Window /\ Window \in 0 .. MaxLocal
  BY SMTT(60) DEF StoreLocal, Running, Window, TInv, TypeOK, Frame
<1>4. Locals' \subseteq Locals \cup {Top(0)}
  BY <1>3 DEF StoreLocal, Locals, TInv, TypeOK
<1>5. FramesLinked'
  BY DEF StoreLocal, SInv, FramesLinked
<1>6. QED
  BY <1>2, <1>3, <1>4, <1>5, KeepNow, RootsKept, Untouched DEF StoreLocal

LEMMA PushLocalS ==
    ASSUME TInv, SInv, NEW i \in 1 .. MaxLocal, PushLocal(i) PROVE SInv'
<1>1. loc[i] \in Value /\ loc[i] \in Locals
  BY DEF PushLocal, Locals, TInv, TypeOK
<1>2. Range(stk') \subseteq Sound \cup {Nil}
  <2>1. Range(stk') = Range(stk) \cup {loc[i]}
    BY <1>1, StackKept DEF PushLocal
  <2>2. QED
    BY <1>1, <2>1, KeepNow, RootsKept
<1>3. FramesLinked'
  BY DEF PushLocal, SInv, FramesLinked
<1>4. QED
  BY <1>2, <1>3, KeepNow, StackOnly, Untouched DEF PushLocal

LEMMA PauseS == ASSUME TInv, SInv, Pause \/ Resume PROVE SInv'
<1>1. Range(stk') \subseteq Sound \cup {Nil}
  BY KeepNow, RootsKept DEF Pause, Resume
<1>2. FramesLinked'
  BY DEF Pause, Resume, SInv, FramesLinked
<1>3. QED
  BY <1>1, <1>2, KeepNow, StackOnly, Untouched DEF Pause, Resume

LEMMA CallS ==
    ASSUME TInv, SInv, NEW argc \in {0, 1}, NEW n \in 0 .. MaxLocal, Call(argc, n), ~exposed'
    PROVE  SInv'
<1> DEFINE callee == [run |-> Top(argc), base |-> Window, n |-> n]
<1>1. Window \in 0 .. MaxLocal
  BY SMTT(60) DEF TInv, TypeOK, Window, Frame
<1>2. /\ frames' = Append(frames, callee) /\ argc < Len(stk) /\ argc \in Nat
      /\ Top(argc) \in Obj /\ cell[Top(argc)] = "func"
  BY DEF Call
<1>3. Running' \subseteq Running \cup {Top(argc)}
  BY <1>2 DEF Running, TInv, TypeOK
<1>4. Window' = Window + n
  BY <1>2 DEF Window, TInv, TypeOK
<1>5. Locals' \subseteq Locals \cup Reached \cup {Nil}
  <2> SUFFICES ASSUME NEW i \in 1 .. Window + n PROVE loc'[i] \in Locals \cup Reached \cup {Nil}
    BY <1>4 DEF Locals
  <2>1. CASE i \in 1 .. Window
    BY <1>1, <2>1 DEF Call, Locals
  <2>2. CASE i \in Window + 1 .. Window + n
    BY <2>2 DEF Call
  <2>3. QED
    BY <1>1, <2>1, <2>2
<1>6. FramesLinked'
  <2>1. \A i \in DOMAIN frames : frames'[i] = frames[i]
    BY <1>2 DEF TInv, TypeOK
  <2>2. DOMAIN frames' = 1 .. Len(frames) + 1 /\ frames'[Len(frames) + 1] = callee
    BY <1>2 DEF TInv, TypeOK
  <2>3. DOMAIN frames = 1 .. Len(frames) /\ Len(frames) \in Nat
    BY DEF TInv, TypeOK
  <2>4. Window = IF Len(frames) + 1 = 1 THEN 0
                 ELSE frames'[Len(frames)].base + frames'[Len(frames)].n
    BY <2>1, <2>3 DEF Window
  <2>5. cell' = cell
    BY DEF Call
  <2>6. SUFFICES ASSUME NEW i \in DOMAIN frames'
                 PROVE  /\ cell[frames'[i].run] = "func"
                        /\ frames'[i].base = IF i = 1 THEN 0
                              ELSE frames'[i - 1].base + frames'[i - 1].n
    BY <2>5 DEF FramesLinked
  <2>7. CASE i = Len(frames) + 1
    BY <1>2, <2>2, <2>4, <2>7
  <2>8. CASE i \in DOMAIN frames
    <3>1. i # 1 => i - 1 \in DOMAIN frames
      BY <2>3, <2>8
    <3>2. QED
      BY <2>1, <2>8, <3>1 DEF SInv, FramesLinked
  <2>9. QED
    BY <2>2, <2>3, <2>7, <2>8
<1>7. Range(stk') \cup Locals' \cup Running' \subseteq Keep(FALSE) \cup {Nil}
  BY ZenonT(60), <1>2, <1>3, <1>5, KeepFacts, RootsKept DEF Call
<1>8. op.obj = Nil /\ op'.obj = Nil /\ op'.key = Nil /\ op'.at # "chunk"
  BY DEF Call, Idle
<1>9. HeapOK(FALSE, {}, Nil)
  BY ZenonT(60), <1>7, <1>8, KeepNow DEF HeapOK, Call, Sound, Alloced
<1>10. KeySound' /\ NewSound' /\ GrayKinds' /\ StringsBare'
  BY <1>8 DEF Call, SInv, KeySound, NewSound, GrayKinds, StringsBare, IsString
<1>11. QED
  BY <1>6, <1>9, <1>10, HeapStep DEF SInv

LEMMA ReturnS == ASSUME TInv, SInv, Return PROVE SInv'
<1> DEFINE f == frames[Len(frames)].run
<1>1. /\ Len(frames) \in Nat \ {0} /\ f \in Obj /\ DOMAIN frames = 1 .. Len(frames)
      /\ DOMAIN frames' = 1 .. Len(frames) - 1
      /\ \A i \in 1 .. Len(frames) - 1 : frames'[i] = frames[i]
  BY SMTT(60) DEF Return, TInv, TypeOK, Frame
<1>2. kids' = [kids EXCEPT ![f] = {e \in @ : e[1] # Argv}]
  BY DEF Return
<1>3. \A x \in Obj : kids'[x] \subseteq kids[x] /\ (x # f => kids'[x] = kids[x])
  BY <1>1, <1>2 DEF TInv, TypeOK
<1>4. FramesLinked'
  BY <1>1 DEF Return, SInv, FramesLinked
<1>5. Running' \subseteq Running
  BY <1>1 DEF Running
<1>6. Window' <= Window /\ Window' \in Nat
  <2>1. CASE Len(frames) = 1
    BY <1>1, <2>1 DEF Window, TInv, TypeOK, Frame, Return
  <2>2. CASE Len(frames) > 1
    <3>1. Len(frames') = Len(frames) - 1 /\ frames' # <<>>
      <4>1. frames \in Seq(Frame) /\ frames' = SubSeq(frames, 1, Len(frames) - 1)
        BY DEF Return, TInv, TypeOK
      <4>2. Len(frames) - 1 \in Nat /\ Len(frames) - 1 > 0
        BY <1>1, <2>2
      <4>3. Len(frames') = Len(frames) - 1
        <5> HIDE DEF f
        <5> QED BY ONLY <4>1, <4>2
      <4>4. frames' # <<>>
        BY ONLY <4>2, <4>3
      <4>5. QED
        BY <4>3, <4>4
    <3>2. Window' = frames[Len(frames) - 1].base + frames[Len(frames) - 1].n
      BY <1>1, <2>2, <3>1 DEF Window
    <3>3. frames[Len(frames)].base = Window'
      BY <1>1, <2>2, <3>2 DEF SInv, FramesLinked
    <3>4. frames[Len(frames)].n \in Nat /\ frames[Len(frames)].base \in Nat
      BY <1>1 DEF TInv, TypeOK, Frame
    <3>5. QED
      BY <1>1, <3>3, <3>4 DEF Window, Return
  <2>3. QED
    BY <1>1, <2>1, <2>2
<1>7. Locals' \subseteq Locals
  <2>1. 1 .. Window' \subseteq 1 .. Window
    <3>1. Window \in Nat
      BY DEF Window, TInv, TypeOK, Frame
    <3>2. QED
      BY <1>6, <3>1
  <2>2. QED
    BY <2>1 DEF Return, Locals
<1>8. \A e \in kids'[f] : f \in Sound => {e[1], e[2]} \cap Obj \subseteq Sound
  BY <1>1, <1>3 DEF SInv, KidsSound, Children
<1>9. HeapOK(FALSE, {}, f)
  <2>1. Sound' = Sound /\ Range(stk') = Range(stk)
    BY DEF Return, Sound, Alloced
  <2>2. Range(stk') \cup Locals' \cup Running' \subseteq Sound \cup {Nil}
    BY <1>5, <1>7, <2>1, KeepNow, RootsKept
  <2>3. \A x \in Sound \ {f} : kids'[x] = kids[x]
    BY <1>3 DEF Sound, Alloced
  <2>4. QED
    BY <1>8, <2>1, <2>2, <2>3, KeepNow DEF HeapOK
<1>10. KeySound' /\ NewSound' /\ GrayKinds' /\ StringsBare'
  BY <1>1, <1>3 DEF Return, Idle, SInv, KeySound, NewSound, GrayKinds, StringsBare, IsString
<1>11. QED
  BY <1>4, <1>9, <1>10, HeapStep DEF SInv

-----------------------------------------------------------------------------
(* Stores that may collect *)

\* A collection, then a store of survivors into one surviving container.
LEMMA ContainerSet ==
    ASSUME TInv, TInv', SInv, NEW gc, NEW c \in Keep(gc), NEW refs \in Refs,
           ~IsString(c), \A e \in refs : {e[1], e[2]} \cap Obj \subseteq Keep(gc),
           SweepAndSet(Live(gc), c, refs), op.obj = Nil, op' = Idle,
           Range(stk') \cup Locals' \cup Running' \subseteq Keep(gc) \cup {Nil},
           UNCHANGED <<frames, leaked>>, gray' \subseteq gray, leaked \subseteq gray'
    PROVE  SInv'
<1>1. /\ Alloced' = Live(gc) /\ kids'[c] = refs
      /\ \A x \in Live(gc) : cell'[x] = cell[x] /\ (x # c => kids'[x] = kids[x])
  BY LiveKeeps, SetFacts DEF TInv, Keep, Alloced
<1>2. HeapOK(gc, {}, c)
  BY <1>1 DEF HeapOK, Sound, Keep, Idle
<1>3. KeySound' /\ NewSound'
  BY DEF KeySound, NewSound, Idle
<1>4. FramesLinked'
  BY <1>1, FramesKept
<1>5. GrayKinds'
  BY <1>1, KeepFacts DEF SInv, GrayKinds, IsString, Idle
<1>6. StringsBare'
  <2>1. \A o \in Obj : IsString(o)' => o \in Live(gc)
    BY <1>1 DEF IsString, Alloced
  <2>2. QED
    BY <1>1, <2>1 DEF SInv, StringsBare, IsString
<1>7. QED
  BY <1>2, <1>3, <1>4, <1>5, <1>6, HeapStep DEF SInv

\* A collection and nothing else.
LEMMA SweptOnly ==
    ASSUME TInv, TInv', SInv, NEW gc, Sweep(Live(gc)), op.obj = Nil, op' = Idle,
           Range(stk') \cup Locals' \cup Running' \subseteq Keep(gc) \cup {Nil},
           UNCHANGED <<frames, leaked, gray>>
    PROVE  SInv'
<1>1. /\ Alloced' = Live(gc)
      /\ \A x \in Live(gc) : cell'[x] = cell[x] /\ kids'[x] = kids[x]
  BY LiveKeeps, SweepFacts DEF TInv
<1>2. HeapOK(gc, {}, Nil)
  BY <1>1, KeepFacts DEF HeapOK, Sound, Keep, Idle, Alloced
<1>3. KeySound' /\ NewSound'
  BY DEF KeySound, NewSound, Idle
<1>4. FramesLinked'
  BY <1>1, FramesKept
<1>5. GrayKinds'
  BY <1>1, KeepFacts DEF SInv, GrayKinds, IsString, Idle
<1>6. StringsBare'
  <2>1. \A o \in Obj : IsString(o)' => o \in Live(gc)
    BY <1>1 DEF IsString, Alloced
  <2>2. QED
    BY <1>1, <2>1 DEF SInv, StringsBare, IsString
<1>7. QED
  BY <1>2, <1>3, <1>4, <1>5, <1>6, HeapStep DEF SInv

LEMMA BoundFacts ==
    ASSUME TInv, SInv, NEW gc, NEW c \in Keep(gc), NEW k \in Keep(gc) \cup {Nil},
           NEW v \in Keep(gc) \cup {Nil}
    PROVE  /\ Bound(c, k, v) \in Refs
           /\ \A e \in Bound(c, k, v) : {e[1], e[2]} \cap Obj \subseteq Keep(gc)
<1>1. Keep(gc) \subseteq Obj
  BY KeepFacts DEF Keep, Alloced
<1>2. <<k, v>> \in (Value \cup {Argv}) \X Value
  BY <1>1 DEF Value
<1>3. kids[c] \in Refs
  BY <1>1 DEF TInv, TypeOK, Refs
<1>4. Bound(c, k, v) \in Refs
  BY <1>2, <1>3 DEF Bound, Refs
<1>5. ASSUME NEW e \in Bound(c, k, v) PROVE {e[1], e[2]} \cap Obj \subseteq Keep(gc)
  <2>1. CASE e \in kids[c]
    BY <2>1, KeepFacts DEF Children
  <2>2. CASE e = <<k, v>>
    BY <2>2
  <2>3. QED
    BY <2>1, <2>2 DEF Bound
<1>6. QED
  BY <1>4, <1>5

LEMMA PutFieldS == ASSUME TInv, TInv', SInv, NEW gc \in BOOLEAN, PutField(gc) PROVE SInv'
<1>1. 0 < Len(stk) /\ 1 < Len(stk) /\ 2 < Len(stk) /\ 2 <= Len(stk)
  BY DEF PutField, TInv, TypeOK
<1>2. /\ Top(0) \in Keep(gc) \cup {Nil} /\ Top(1) \in Keep(gc) \cup {Nil}
      /\ Top(2) \in Keep(gc) /\ Range(stk') \subseteq Keep(gc) \cup {Nil}
  BY <1>1, RootsKept DEF PutField
<1>3. Range(stk') \cup Locals' \cup Running' \subseteq Keep(gc) \cup {Nil}
  BY <1>2, StackOnly DEF PutField
<1>4. ~IsString(Top(2))
  BY DEF PutField, IsString
<1>5. QED
  BY <1>2, <1>3, <1>4, BoundFacts, ContainerSet DEF PutField, Idle, SInv, GrayKinds

LEMMA AddElemS == ASSUME TInv, TInv', SInv, NEW gc \in BOOLEAN, AddElem(gc) PROVE SInv'
<1>1. 0 < Len(stk) /\ 1 < Len(stk) /\ 1 <= Len(stk)
  BY DEF AddElem, TInv, TypeOK
<1>2. /\ Top(0) \in Keep(gc) \cup {Nil} /\ Top(1) \in Keep(gc)
      /\ Range(stk') \subseteq Keep(gc) \cup {Nil}
  BY <1>1, RootsKept DEF AddElem
<1>3. Range(stk') \cup Locals' \cup Running' \subseteq Keep(gc) \cup {Nil}
  BY <1>2, StackOnly DEF AddElem
<1>4. ~IsString(Top(1))
  BY DEF AddElem, IsString
<1>5. QED
  BY <1>2, <1>3, <1>4, BoundFacts, ContainerSet DEF AddElem, Idle, SInv, GrayKinds

LEMMA NamePutS == ASSUME TInv, TInv', SInv, NEW gc \in BOOLEAN, NamePut(gc) PROVE SInv'
<1>1. /\ op.at = "named" /\ op.obj = Nil /\ op.key \in Obj /\ op.key # Nil
      /\ 0 < Len(stk) /\ 1 <= Len(stk)
  BY DEF NamePut, TInv, TypeOK, OpShape
<1>2. PICK c \in {Global} \cup {stk[i] : i \in 1 .. Len(stk) - 1} :
          /\ c \in Obj /\ cell[c] = "hmap"
          /\ SweepAndSet(Live(gc), c, Bound(c, op.key, Top(0)))
  BY DEF NamePut
<1>3. c \in Keep(gc)
  <2>1. Global \in Keep(gc)
    BY KeepFacts, ReachedFacts DEF Roots
  <2>2. CASE c \in {stk[i] : i \in 1 .. Len(stk) - 1}
    <3>1. c \in Range(stk)
      BY <2>2 DEF Range, TInv, TypeOK
    <3>2. QED
      BY <1>2, <3>1, RootsKept
  <2>3. QED
    BY <1>2, <2>1, <2>2
<1>4. Top(0) \in Keep(gc) \cup {Nil} /\ op.key \in Keep(gc)
  BY <1>1, KeepFacts, RootsKept
<1>5. Range(stk') \subseteq Keep(gc) \cup {Nil}
  BY <1>1, StackKept DEF NamePut
<1>6. Range(stk') \cup Locals' \cup Running' \subseteq Keep(gc) \cup {Nil}
  BY <1>5, StackOnly DEF NamePut
<1>7. ~IsString(c)
  BY <1>2 DEF IsString
<1>8. op.key \notin leaked
  BY <1>1 DEF SInv, KeySound, Sound
<1>9. QED
  BY <1>1, <1>2, <1>3, <1>4, <1>6, <1>7, <1>8, BoundFacts, ContainerSet
     DEF NamePut, SInv, GrayKinds

LEMMA AddConstS == ASSUME TInv, TInv', SInv, NEW gc \in BOOLEAN, AddConst(gc) PROVE SInv'
<1>1. op.obj = Nil /\ op.key \in Obj /\ op.key # Nil
  BY DEF AddConst, TInv, TypeOK, OpShape
<1>2. PICK f \in Compiled : SweepAndSet(Live(gc), f, Bound(f, Nil, op.key))
  BY DEF AddConst
<1>3. f \in Keep(gc) /\ ~IsString(f)
  BY CompiledFacts, RootsKept DEF TInv, IsString
<1>4. op.key \in Keep(gc) /\ op.key \notin leaked
  BY <1>1, KeepFacts DEF Keep
<1>5. Range(stk') \cup Locals' \cup Running' \subseteq Keep(gc) \cup {Nil}
  BY RootsKept DEF AddConst, Locals, Running, Window
<1>6. gray' \subseteq gray /\ leaked \subseteq gray' /\ op' = Idle /\ UNCHANGED <<frames, leaked>>
  BY <1>4 DEF AddConst, SInv, GrayKinds
<1>7. QED
  BY <1>1, <1>2, <1>3, <1>4, <1>5, <1>6, BoundFacts, ContainerSet

LEMMA CopyArgsS == ASSUME TInv, TInv', SInv, NEW gc \in BOOLEAN, CopyArgs(gc) PROVE SInv'
<1> DEFINE f == frames[Len(frames)]
<1>1. /\ frames # <<>> /\ f \in Frame /\ op.obj = Nil /\ f.run \in Running /\ f.run \in Obj
      /\ cell[f.run] = "func" /\ f.run \in Keep(gc)
  <2>1. frames # <<>> /\ f \in Frame /\ op.obj = Nil /\ Len(frames) \in DOMAIN frames
    BY DEF CopyArgs, TInv, TypeOK, OpShape
  <2>2. f.run \in Running /\ f.run \in Obj /\ cell[f.run] = "func"
    BY <2>1 DEF Running, Frame, SInv, FramesLinked
  <2>3. QED
    BY <2>1, <2>2, RootsKept
<1>2. Running' = Running /\ Window' = Window /\ Window \in 0 .. MaxLocal
  BY SMTT(60) DEF CopyArgs, Running, Window, TInv, TypeOK, Frame
<1>3. CASE op.at = "call1"
  <2> DEFINE refs == kids[f.run] \cup {<<Argv, Top(0)>>}
  <2>1. 0 < Len(stk) /\ 2 \in Nat /\ 2 <= Len(stk)
    BY <1>3 DEF TInv, TypeOK, OpShape
  <2>2. Top(0) \in Keep(gc) \cup {Nil} /\ Top(0) \in Value
    BY <2>1, RootsKept, StackFacts DEF TInv
  <2>3. refs \in Refs
    BY <1>1, <2>2 DEF TInv, TypeOK, Refs
  <2>4. \A e \in refs : {e[1], e[2]} \cap Obj \subseteq Keep(gc)
    <3>1. \A e \in kids[f.run] : {e[1], e[2]} \cap Obj \subseteq Keep(gc)
      BY <1>1, KeepFacts DEF Children
    <3>2. QED
      BY <2>2, <3>1
  <2>5. Range(stk') \subseteq Keep(gc) \cup {Nil}
    BY <1>3, <2>1, StackKept DEF CopyArgs
  <2>6. Locals' \subseteq Locals \cup {Top(0)}
    BY <1>2, <1>3 DEF CopyArgs, Locals
  <2>7. ~IsString(f.run) /\ SweepAndSet(Live(gc), f.run, refs)
    BY <1>1, <1>3 DEF CopyArgs, IsString
  <2>8. Range(stk') \cup Locals' \cup Running' \subseteq Keep(gc) \cup {Nil}
    BY <1>2, <2>2, <2>5, <2>6, RootsKept
  <2>9. op' = Idle /\ UNCHANGED <<frames, leaked, gray>> /\ leaked \subseteq gray'
    BY DEF CopyArgs, SInv, GrayKinds
  <2> HIDE DEF refs
  <2>10. QED
    BY <1>1, <2>3, <2>4, <2>7, <2>8, <2>9, ContainerSet
<1>4. CASE op.at = "call0"
  <2>1. 1 \in Nat /\ 1 <= Len(stk)
    BY <1>4 DEF TInv, TypeOK, OpShape
  <2>2. Range(stk') \subseteq Keep(gc) \cup {Nil}
    BY <1>4, <2>1, StackKept DEF CopyArgs
  <2>3. Range(stk') \cup Locals' \cup Running' \subseteq Keep(gc) \cup {Nil}
    BY <1>4, <2>2, StackOnly DEF CopyArgs
  <2>4. QED
    BY <1>1, <1>4, <2>3, SweptOnly DEF CopyArgs
<1>5. QED
  BY <1>3, <1>4 DEF CopyArgs

LEMMA CollectS == ASSUME TInv, TInv', SInv, Collect PROVE SInv'
<1>1. Range(stk') \cup Locals' \cup Running' \subseteq Keep(TRUE) \cup {Nil}
  BY RootsKept, StackOnly DEF Collect
<1>2. QED
  BY <1>1, SweptOnly DEF Collect, Idle

-----------------------------------------------------------------------------
(* Objects under construction *)

\* An object is published on the stack, nothing else changes.
LEMMA PushMadeS == ASSUME TInv, SInv, PushMade \/ PushFilled PROVE SInv'
<1>1. /\ op.obj \in Obj /\ op.obj # Nil /\ op.obj \in gray /\ op.obj \in Alloced
      /\ op.obj \notin leaked /\ Children(kids, op.obj) \subseteq Reached
      /\ op' = Idle /\ UNCHANGED <<cell, kids, loc, frames, leaked>> /\ gray' = gray \ {op.obj}
  BY DEF PushMade, PushFilled, TInv, TypeOK, OpShape, Alloced, SInv, NewSound
<1>2. Range(stk') \subseteq Keep(FALSE) \cup {op.obj} \cup {Nil}
  <2>1. op.obj \in Value
    BY <1>1 DEF Value
  <2>2. CASE PushMade
    <3>1. Range(stk') = Range(stk) \cup {op.obj}
      BY <2>1, <2>2, StackKept DEF PushMade
    <3>2. QED
      BY <3>1, RootsKept
  <2>3. CASE PushFilled
    <3>1. 2 \in Nat /\ 2 <= Len(stk)
      BY <2>3 DEF PushFilled, TInv, TypeOK, OpShape
    <3>2. Range(stk') = Range(Popped(2)) \cup {op.obj}
      BY <2>1, <2>3, <3>1, StackKept DEF PushFilled
    <3>3. QED
      BY <3>1, <3>2, StackKept
  <2>4. QED
    BY <2>2, <2>3
<1>3. Sound' = Sound \cup {op.obj}
  BY <1>1 DEF Sound, Alloced, Idle
<1>4. \A e \in kids[op.obj] : {e[1], e[2]} \cap Obj \subseteq Keep(FALSE)
  BY <1>1, KeepFacts DEF Children
<1>5. HeapOK(FALSE, {op.obj}, Nil)
  <2>1. Range(stk') \cup Locals' \cup Running' \subseteq Keep(FALSE) \cup {op.obj} \cup {Nil}
    BY <1>1, <1>2, StackOnly
  <2>2. Nil \notin Keep(FALSE)
    BY KeepFacts DEF Keep, Alloced
  <2>3. QED
    BY <1>1, <1>3, <1>4, <2>1, <2>2, KeepNow DEF HeapOK
<1>6. KeySound' /\ NewSound' /\ FramesLinked'
  BY <1>1 DEF KeySound, NewSound, Idle, SInv, FramesLinked
<1>7. GrayKinds' /\ StringsBare'
  BY <1>1 DEF SInv, GrayKinds, StringsBare, IsString, Idle
<1>8. QED
  BY <1>5, <1>6, <1>7, HeapStep DEF SInv

\* After a panic there are no roots but the global map.
LEMMA Unwound ==
    ASSUME Unwind
    PROVE  Range(stk') = {} /\ Locals' = {} /\ Running' = {} /\ FramesLinked'
  BY DEF Unwind, Range, Locals, Running, Window, FramesLinked

LEMMA PushOverflowS == ASSUME TInv, SInv, PushOverflow PROVE SInv'
<1>1. /\ op.obj \in Obj /\ op.obj # Nil /\ op.obj \in gray /\ ~IsString(op.obj)
      /\ op' = Idle /\ UNCHANGED <<cell, kids, gray>> /\ leaked' = leaked \cup {op.obj}
  BY DEF PushOverflow, Unwind, TInv, TypeOK, OpShape, Alloced, IsString
<1>2. Sound' = Sound
  <2>1. Alloced' = Alloced /\ leaked' \cup {op'.obj} = leaked \cup {op.obj} \cup {Nil}
    BY <1>1 DEF Alloced, Idle
  <2>2. QED
    BY <2>1 DEF Sound, Alloced
<1>3. HeapOK(FALSE, {}, Nil)
  BY <1>1, <1>2, KeepNow, Unwound DEF HeapOK, PushOverflow, Sound, Alloced
<1>4. KeySound' /\ NewSound' /\ FramesLinked'
  BY <1>1, Unwound DEF KeySound, NewSound, Idle, PushOverflow
<1>5. GrayKinds' /\ StringsBare'
  BY <1>1 DEF SInv, GrayKinds, StringsBare, IsString, Idle
<1>6. QED
  BY <1>3, <1>4, <1>5, HeapStep DEF SInv

LEMMA PanicS == ASSUME TInv, SInv, Panic PROVE SInv'
<1>1. /\ op' = Idle /\ UNCHANGED <<cell, kids, gray>>
      /\ leaked' = leaked \cup (IF op.obj = Nil THEN {} ELSE {op.obj})
      /\ op.obj # Nil => op.obj \in Obj /\ op.obj \in gray /\ ~IsString(op.obj)
  BY DEF Panic, NilInLiteral, Unwind, TInv, TypeOK, OpShape, Alloced, IsString, Idle
<1>2. /\ Alloced' = Alloced /\ Nil \notin Alloced
      /\ leaked' \subseteq leaked \cup {op.obj} /\ leaked \subseteq leaked'
      /\ op.obj # Nil => op.obj \in leaked'
  BY <1>1, HeapAssumption DEF Alloced
<1>3. Sound' = Sound
  BY <1>1, <1>2 DEF Sound, Idle
<1>4. HeapOK(FALSE, {}, Nil)
  BY <1>1, <1>3, KeepNow, Unwound DEF HeapOK, Panic, Sound, Alloced
<1>5. KeySound' /\ NewSound' /\ FramesLinked'
  BY <1>1, Unwound DEF KeySound, NewSound, Idle, Panic
<1>6. GrayKinds'
  <2>1. leaked' \subseteq gray'
    BY <1>1 DEF SInv, GrayKinds
  <2>2. \A o \in gray : IsString(o)' = IsString(o)
    BY <1>1 DEF IsString
  <2>3. QED
    BY <1>1, <1>2, <2>1, <2>2 DEF SInv, GrayKinds, IsString, Idle
<1>7. StringsBare'
  BY <1>1 DEF SInv, StringsBare, IsString, Idle
<1>8. QED
  BY <1>4, <1>5, <1>6, <1>7, HeapStep DEF SInv

\* A collection, then a grabbed object that refers to reached objects only.
LEMMA Constructed ==
    ASSUME TInv, TInv', SInv, NEW gc, NEW o \in Obj, NEW what \in {"hmap", "func"},
           NEW refs \in Refs, \A e \in refs : {e[1], e[2]} \cap Obj \subseteq Reached,
           op.obj = Nil, o \notin Alloced, Heap(Live(gc), o, what, refs),
           gray' = gray \cup {o}, UNCHANGED <<stk, loc, frames, leaked>>,
           op'.obj = o, op'.key = Nil, op'.at # "chunk"
    PROVE  SInv'
<1>1. /\ Alloced' = Live(gc) \cup {o} /\ cell'[o] = what /\ kids'[o] = refs
      /\ \A x \in Live(gc) : cell'[x] = cell[x] /\ kids'[x] = kids[x]
  <2> DEFINE L == Live(gc)
  <2>1. TypeOK /\ what \in {"hmap", "func"} \cup Text
    BY DEF TInv
  <2>2. L \in SUBSET Alloced /\ Heap(L, o, what, refs)
    BY <2>1, LiveKeeps
  <2> HIDE DEF L
  <2>3. /\ Alloced' = L \cup {o} /\ cell'[o] = what /\ kids'[o] = refs
        /\ \A x \in L \ {o} : cell'[x] = cell[x] /\ kids'[x] = kids[x]
    BY SMTT(60), <2>1, <2>2, HeapFacts
  <2>4. QED
    BY <2>2, <2>3 DEF L
<1>2. o \notin Live(gc) /\ o \notin leaked /\ o # Nil /\ Nil \notin Live(gc) /\ gray \subseteq Live(gc)
  BY KeepFacts, LiveKeeps DEF TInv, Alloced
<1>3. Reached \subseteq Reached'
      /\ Range(stk') \cup Locals' \cup Running' \subseteq Keep(gc) \cup {Nil}
  BY <1>1, ReachedKept DEF Keep
<1>4. HeapOK(gc, {}, Nil)
  <2>1. Sound' = Keep(gc)
    <3>1. Sound' = (Live(gc) \cup {o}) \ (leaked \cup {o})
      BY <1>1 DEF Sound
    <3>2. Keep(gc) = Live(gc) \ (leaked \cup {Nil})
      BY DEF Keep
    <3>3. QED
      BY <1>2, <3>1, <3>2
  <2>2. Nil \notin Keep(gc)
    BY KeepFacts DEF Keep, Alloced
  <2>3. QED
    BY <1>1, <1>3, <2>1, <2>2 DEF HeapOK, Keep
<1>5. KeySound' /\ NewSound'
  BY <1>1, <1>2, <1>3 DEF KeySound, NewSound, Children
<1>6. FramesLinked'
  BY <1>1, FramesKept
<1>7. GrayKinds'
  <2>1. ~IsString(o)' /\ \A x \in gray : IsString(x)' = IsString(x)
    BY <1>1, <1>2 DEF IsString
  <2>2. leaked \subseteq Live(gc) /\ leaked \subseteq gray
    BY <1>2 DEF SInv, GrayKinds
  <2>3. \A x \in gray : x # op.obj
    BY <1>2
  <2>4. QED
    BY <1>1, <1>2, <2>1, <2>2, <2>3 DEF SInv, GrayKinds
<1>8. StringsBare'
  <2>1. \A x \in Obj : IsString(x)' => x \in Live(gc)
    BY <1>1 DEF IsString, Alloced
  <2>2. QED
    BY <1>1, <2>1 DEF SInv, StringsBare, IsString
<1>9. QED
  BY <1>4, <1>5, <1>6, <1>7, <1>8, HeapStep DEF SInv

LEMMA NewObjectS ==
    ASSUME TInv, TInv', SInv, NEW o \in Obj, NEW what \in {"hmap", "func"}, NEW gc \in BOOLEAN,
           NewObject(o, what, gc)
    PROVE  SInv'
<1>1. {} \in Refs
  BY DEF Refs
<1>2. QED
  BY <1>1, Constructed DEF NewObject, Idle

LEMMA NewFunctionS ==
    ASSUME TInv, TInv', SInv, NEW o \in Obj, NEW gc \in BOOLEAN, NewFunction(o, gc)
    PROVE  SInv'
<1>1. op.obj = Nil /\ op.key \in Reached /\ op.key \in Obj
  BY DEF NewFunction, TInv, TypeOK, OpShape, SInv, KeySound
<1>2. {<<Nil, op.key>>} \in Refs
  BY <1>1 DEF Refs, Value
<1>3. \A e \in {<<Nil, op.key>>} : {e[1], e[2]} \cap Obj \subseteq Reached
  BY <1>1
<1>4. QED
  BY <1>1, <1>2, <1>3, Constructed DEF NewFunction

LEMMA CloneFunctionS ==
    ASSUME TInv, TInv', SInv, NEW o \in Obj, NEW gc \in BOOLEAN, CloneFunction(o, gc)
    PROVE  SInv'
<1> DEFINE refs == {e \in kids[Top(1)] : e[1] = Nil}
<1>1. Top(1) \in Reached
  <2>1. Len(stk) - 1 \in DOMAIN stk
    BY DEF CloneFunction, TInv, TypeOK
  <2>2. Top(1) \in Range(stk)
    BY <2>1 DEF Top, Range
  <2>3. Top(1) # Nil
    BY DEF CloneFunction
  <2>4. QED
    BY <2>2, <2>3, ReachedFacts DEF Roots
<1>2. Children(kids, Top(1)) \subseteq Reached
  BY <1>1, ReachedFacts DEF Closed
<1>3. \A e \in refs : {e[1], e[2]} \cap Obj \subseteq Reached
  BY <1>2 DEF Children
<1>4. refs \in Refs
  BY DEF CloneFunction, TInv, TypeOK, Refs
<1>5. op.obj = Nil /\ o \notin Alloced /\ Heap(Live(gc), o, "func", refs)
  BY DEF CloneFunction, Idle
<1> HIDE DEF refs
<1>6. QED
  BY <1>3, <1>4, <1>5, Constructed DEF CloneFunction

\* A collection, then references of the object under construction to reached
\* objects; the object stays grabbed.
LEMMA Filled ==
    ASSUME TInv, TInv', SInv, NEW gc, NEW refs \in Refs,
           \A e \in refs : {e[1], e[2]} \cap Obj \subseteq Reached,
           op.obj # Nil, op.obj \in Obj, ~IsString(op.obj), op'.obj = op.obj,
           op'.key = Nil, op'.at # "chunk", UNCHANGED <<gray, stk, loc, frames, leaked>>,
           Alloced' = Live(gc), kids'[op.obj] = refs,
           \A x \in Live(gc) : cell'[x] = cell[x] /\ (x # op.obj => kids'[x] = kids[x])
    PROVE  SInv'
<1>1. Reached \subseteq Reached'
      /\ Range(stk') \cup Locals' \cup Running' \subseteq Keep(gc) \cup {Nil}
  BY ReachedKept DEF Keep
<1>2. Sound' = Keep(gc)
  BY DEF Sound, Keep
<1>3. HeapOK(gc, {}, Nil)
  BY <1>1, <1>2, KeepFacts DEF HeapOK, Keep, Alloced
<1>4. KeySound' /\ NewSound'
  BY <1>1 DEF SInv, NewSound, KeySound, Children
<1>5. FramesLinked'
  BY FramesKept
<1>6. GrayKinds'
  BY KeepFacts DEF SInv, GrayKinds, IsString
<1>7. StringsBare'
  <2>1. \A x \in Obj : IsString(x)' => x \in Live(gc)
    BY DEF IsString, Alloced
  <2>2. QED
    BY <2>1 DEF SInv, StringsBare, IsString
<1>8. QED
  BY <1>3, <1>4, <1>5, <1>6, <1>7, HeapStep DEF SInv

LEMMA AllocItemsS == ASSUME TInv, TInv', SInv, NEW gc \in BOOLEAN, AllocItems(gc) PROVE SInv'
<1>1. /\ op.obj \in Obj /\ op.obj # Nil /\ op.key = Nil /\ ~IsString(op.obj)
      /\ op.obj \in Live(gc)
  BY KeepFacts DEF AllocItems, TInv, TypeOK, OpShape, Alloced, IsString
<1>2. /\ Alloced' = Live(gc)
      /\ \A x \in Live(gc) : cell'[x] = cell[x] /\ kids'[x] = kids[x]
  BY LiveKeeps, SweepFacts DEF AllocItems, TInv
<1>3. op'.obj = op.obj /\ op'.key = Nil /\ op'.at = "full"
  BY <1>1 DEF AllocItems, TInv, TypeOK
<1>4. \A e \in kids[op.obj] : {e[1], e[2]} \cap Obj \subseteq Reached
  BY <1>1 DEF SInv, NewSound, Children
<1>5. kids[op.obj] \in Refs
  BY <1>1 DEF TInv, TypeOK, Refs
<1>6. QED
  BY <1>1, <1>2, <1>3, <1>4, <1>5, Filled DEF AllocItems

LEMMA FillLiteralS == ASSUME TInv, TInv', SInv, NEW gc \in BOOLEAN, FillLiteral(gc) PROVE SInv'
<1> DEFINE refs == {<<Top(1), Top(0)>>}
<1>1. /\ op.obj \in Obj /\ op.obj # Nil /\ op.key = Nil /\ op.obj \in gray
      /\ op.obj \in Live(gc)
  BY KeepFacts DEF FillLiteral, TInv, TypeOK, OpShape, Alloced
<1>2. ~IsString(op.obj)
  BY <1>1 DEF FillLiteral, TInv, TypeOK, OpShape, IsString
<1>3. Len(stk) \in DOMAIN stk /\ Len(stk) - 1 \in DOMAIN stk /\ stk \in Seq(Value)
  BY DEF FillLiteral, TInv, TypeOK
<1>4. {Top(0), Top(1)} \subseteq Range(stk) /\ Top(0) \in Value /\ Top(1) \in Value
  BY <1>3 DEF Top, Range
<1>5. Range(stk) \subseteq Reached \cup {Nil}
  BY ReachedFacts DEF Roots
<1>6. refs \in Refs
  BY <1>4 DEF Refs
<1>7. \A e \in refs : {e[1], e[2]} \cap Obj \subseteq Reached
  BY <1>4, <1>5
<1>8. SweepAndSet(Live(gc), op.obj, refs)
  BY DEF FillLiteral
<1> HIDE DEF refs
<1>9. /\ Alloced' = Live(gc) /\ kids'[op.obj] = refs
      /\ \A x \in Live(gc) : cell'[x] = cell[x] /\ (x # op.obj => kids'[x] = kids[x])
  BY ZenonT(60), <1>1, <1>6, <1>8, LiveKeeps, SetFacts DEF TInv
<1>10. op'.obj = op.obj /\ op'.key = Nil /\ op'.at = "filled"
  BY <1>1 DEF FillLiteral, TInv, TypeOK
<1>11. QED
  BY <1>1, <1>2, <1>6, <1>7, <1>9, <1>10, Filled DEF FillLiteral

LEMMA BindCloneS == ASSUME TInv, TInv', SInv, NEW gc \in BOOLEAN, BindClone(gc) PROVE SInv'
<1> DEFINE refs == kids[op.obj] \cup {<<Nil, Top(0)>>}
<1>1. /\ op.obj \in Obj /\ op.obj # Nil /\ op.key = Nil /\ op.obj \in gray
      /\ op.obj \in Live(gc) /\ op.obj \notin leaked
  BY KeepFacts DEF BindClone, TInv, TypeOK, OpShape, Alloced, SInv, NewSound
<1>2. ~IsString(op.obj)
  BY <1>1 DEF BindClone, TInv, TypeOK, OpShape, IsString
<1>3. 0 < Len(stk) /\ 2 \in Nat /\ 2 <= Len(stk)
  BY DEF BindClone, TInv, TypeOK, OpShape
<1>4. Top(0) \in Value /\ Top(0) \in Keep(gc) \cup {Nil}
  BY <1>3, RootsKept, StackFacts DEF TInv
<1>5. refs \in Refs
  BY <1>1, <1>4 DEF TInv, TypeOK, Refs, Value
<1>6. \A e \in refs : {e[1], e[2]} \cap Obj \subseteq Keep(gc)
  <2>1. \A e \in kids[op.obj] : {e[1], e[2]} \cap Obj \subseteq Keep(gc)
    BY <1>1, KeepFacts DEF SInv, NewSound, Children
  <2>2. QED
    BY <1>4, <2>1
<1>7. SweepAndSet(Live(gc), op.obj, refs) /\ op' = Idle
  BY DEF BindClone
<1> HIDE DEF refs
<1>8. /\ Alloced' = Live(gc) /\ kids'[op.obj] = refs
      /\ \A x \in Live(gc) : cell'[x] = cell[x] /\ (x # op.obj => kids'[x] = kids[x])
  BY SMTT(60), <1>1, <1>5, <1>7, LiveKeeps, SetFacts DEF TInv
<1>9. Range(stk') \cup Locals' \cup Running' \subseteq Keep(gc) \cup {op.obj} \cup {Nil}
  <2>1. Range(stk') = Range(Popped(2)) \cup {op.obj}
    BY <1>1, <1>3, StackKept DEF BindClone, Value
  <2>2. Range(Popped(2)) \subseteq Keep(gc) \cup {Nil}
    BY <1>3, StackKept
  <2>3. QED
    BY <2>1, <2>2, StackOnly DEF BindClone
<1>10. Nil \notin Live(gc) /\ Sound' = Keep(gc) \cup {op.obj}
  <2>1. Nil \notin Live(gc)
    BY KeepFacts DEF Alloced
  <2>2. Sound' = Live(gc) \ (leaked \cup {Nil})
    BY <1>7, <1>8 DEF Sound, Idle, BindClone
  <2>3. QED
    BY <1>1, <2>1, <2>2 DEF Keep
<1>11. HeapOK(gc, {op.obj}, op.obj)
  BY <1>1, <1>6, <1>8, <1>9, <1>10 DEF HeapOK, Keep
<1>12. KeySound' /\ NewSound'
  BY <1>7 DEF KeySound, NewSound, Idle
<1>13. FramesLinked'
  BY <1>8, FramesKept DEF BindClone
<1>14. GrayKinds'
  BY <1>1, <1>7, <1>8, KeepFacts DEF SInv, GrayKinds, IsString, BindClone
<1>15. StringsBare'
  <2>1. \A x \in Obj : IsString(x)' => x \in Live(gc)
    BY <1>8 DEF IsString, Alloced
  <2>2. QED
    BY <1>2, <1>8, <2>1 DEF SInv, StringsBare, IsString
<1>16. QED
  BY <1>11, <1>12, <1>13, <1>14, <1>15, HeapStep DEF SInv

-----------------------------------------------------------------------------
(* Interned strings *)

\* A fetch leaves the survivors of some collection, or of none, and the string.
Fetched(g, t, s) ==
    /\ Alloced' = Live(g) \cup {s} /\ cell'[s] = t /\ kids'[s] = {} /\ s \notin leaked
    /\ \A x \in Live(g) : cell'[x] = cell[x] /\ kids'[x] = kids[x]

LEMMA FetchSafe ==
    ASSUME TInv, SInv, NEW t \in Text, NEW s \in Obj, NEW gc, Fetch(t, s, gc)
    PROVE  \E g : Fetched(g, t, s)
<1>1. CASE Hit(t, s)
  <2>1. s \in Alloced /\ cell[s] = t /\ cell' = cell /\ kids' = kids /\ Alloced' = Alloced
    BY <1>1, HitFacts DEF TInv
  <2>2. IsString(s) /\ kids[s] = {} /\ s \notin leaked
    BY <2>1 DEF IsString, SInv, StringsBare, GrayKinds
  <2>3. Live(FALSE) = Alloced
    BY DEF Live
  <2>4. Fetched(FALSE, t, s)
    BY <2>1, <2>2, <2>3 DEF Fetched
  <2>5. QED
    BY <2>4
<1>2. CASE Miss(t, s, gc)
  <2>1. /\ s \notin Live(gc) /\ Alloced' = Live(gc) \cup {s}
        /\ cell'[s] = t /\ kids'[s] = {}
        /\ \A x \in Live(gc) : cell'[x] = cell[x] /\ kids'[x] = kids[x]
    BY <1>2, MissFacts DEF TInv
  <2>2. Fetched(gc, t, s)
    BY <2>1, KeepFacts DEF Fetched
  <2>3. QED
    BY <2>2
<1>3. QED
  BY <1>1, <1>2 DEF Fetch

LEMMA FetchStep ==
    ASSUME TInv, TInv', SInv, NEW t \in Text, NEW s \in Obj, NEW g, Fetched(g, t, s),
           op.obj = Nil, op'.obj = Nil, UNCHANGED leaked, gray' \subseteq gray \cup {s},
           gray \subseteq gray' \cup {s},
           Range(stk') \cup Locals' \cup Running' \subseteq Reached \cup {s, Nil}
    PROVE  /\ RootsSound' /\ KidsSound' /\ NewSound' /\ GrayKinds' /\ StringsBare'
           /\ s \in Sound'
<1>1. Nil \notin Live(g) /\ leaked \subseteq Live(g) /\ gray \subseteq Live(g)
  BY KeepFacts DEF Alloced
<1>2. Sound' = Keep(g) \cup {s}
  <2>1. Sound' = (Live(g) \cup {s}) \ (leaked \cup {Nil})
    BY DEF Sound, Fetched
  <2>2. QED
    BY <1>1, <2>1 DEF Keep, Fetched
<1>3. Range(stk') \cup Locals' \cup Running' \subseteq Keep(g) \cup {s} \cup {Nil}
  BY KeepFacts
<1>4. HeapOK(g, {s}, Nil)
  BY <1>1, <1>2, <1>3 DEF HeapOK, Fetched, Keep
<1>5. GrayKinds'
  <2>1. IsString(s)' /\ \A x \in Live(g) : IsString(x)' = IsString(x)
    BY DEF IsString, Fetched
  <2>2. leaked \subseteq gray /\ s \notin leaked
    BY DEF SInv, GrayKinds, Fetched
  <2>3. QED
    BY <1>1, <2>1, <2>2 DEF SInv, GrayKinds
<1>6. StringsBare'
  <2>1. \A x \in Obj : IsString(x)' => x \in Live(g) \cup {s}
    BY DEF IsString, Alloced, Fetched
  <2>2. QED
    BY <2>1 DEF SInv, StringsBare, IsString, Fetched
<1>7. QED
  BY <1>2, <1>4, <1>5, <1>6, HeapStep DEF NewSound

LEMMA RootsReached ==
    ASSUME TInv PROVE Range(stk) \cup Locals \cup Running \subseteq Reached \cup {Nil}
  BY ReachedFacts DEF Roots

LEMMA FetchFrames ==
    ASSUME TInv, SInv, NEW t, NEW s, NEW g, Fetched(g, t, s), UNCHANGED frames
    PROVE  FramesLinked'
  BY FramesKept DEF Fetched

\* Values are popped and an object takes their place.
LEMMA ReplacedRange ==
    ASSUME TInv, NEW n \in Nat, n <= Len(stk), NEW s \in Obj, stk' = Append(Popped(n), s)
    PROVE  Range(stk') \subseteq Range(stk) \cup {s}
<1>1. Popped(n) \in Seq(Value) /\ s \in Value
  BY StackFacts DEF TInv, Value
<1>2. Range(stk') = Range(Popped(n)) \cup {s}
  BY <1>1, PushedRange
<1>3. Range(Popped(n)) \subseteq Range(stk)
  BY DEF TInv, TypeOK, Popped, Range
<1>4. QED
  BY <1>2, <1>3

LEMMA PushStringS ==
    ASSUME TInv, TInv', SInv, NEW t \in Text, NEW s \in Obj, NEW gc \in BOOLEAN,
           PushString(t, s, gc)
    PROVE  SInv'
<1>1. PICK g : Fetched(g, t, s)
  BY FetchSafe DEF PushString
<1>2. Range(stk') = Range(stk) \cup {s}
  BY StackKept DEF PushString, Value
<1>3. Locals' = Locals /\ Running' = Running
  BY DEF PushString, Locals, Running, Window
<1>4. FramesLinked'
  BY <1>1, FetchFrames DEF PushString
<1>5. KeySound'
  BY DEF PushString, KeySound, Idle
<1>6. QED
  BY <1>1, <1>2, <1>3, <1>4, <1>5, RootsReached, FetchStep DEF PushString, SInv, Idle

LEMMA ConcatS ==
    ASSUME TInv, TInv', SInv, NEW t \in Text, NEW s \in Obj, NEW gc \in BOOLEAN,
           Concat(t, s, gc)
    PROVE  SInv'
<1>1. PICK g : Fetched(g, t, s)
  BY FetchSafe DEF Concat
<1>2. Range(stk') \subseteq Range(stk) \cup {s}
  BY ReplacedRange DEF Concat, TInv, TypeOK
<1>3. Locals' = Locals /\ Running' = Running
  BY DEF Concat, Locals, Running, Window
<1>4. FramesLinked'
  BY <1>1, FetchFrames DEF Concat
<1>5. KeySound'
  BY DEF Concat, KeySound, Idle
<1>6. QED
  BY <1>1, <1>2, <1>3, <1>4, <1>5, RootsReached, FetchStep DEF Concat, SInv, Idle

LEMMA TypeOfS ==
    ASSUME TInv, TInv', SInv, NEW t \in Text, NEW s \in Obj, NEW gc \in BOOLEAN,
           TypeOf(t, s, gc)
    PROVE  SInv'
<1>1. PICK g : Fetched(g, t, s)
  BY FetchSafe DEF TypeOf, Fetch
<1>2. Range(stk') \subseteq Range(stk) \cup {s}
  <2>1. 1 \in Nat /\ 1 <= Len(stk)
    BY DEF TypeOf, TInv, TypeOK
  <2>2. QED
    BY <2>1, ReplacedRange DEF TypeOf
<1>3. Locals' = Locals /\ Running' = Running
  BY DEF TypeOf, Locals, Running, Window
<1>4. FramesLinked'
  BY <1>1, FetchFrames DEF TypeOf
<1>5. KeySound'
  BY DEF TypeOf, KeySound, Idle
<1>6. gray \subseteq gray' /\ gray' \subseteq gray \cup {s} /\ op.obj = Nil /\ op'.obj = Nil
  BY DEF TypeOf, Idle
<1>7. QED
  BY <1>1, <1>2, <1>3, <1>4, <1>5, <1>6, RootsReached, FetchStep DEF TypeOf, SInv

LEMMA PushStringOverflowS ==
    ASSUME TInv, TInv', SInv, NEW t \in Text, NEW s \in Obj, NEW gc \in BOOLEAN,
           PushStringOverflow(t, s, gc)
    PROVE  SInv'
<1>1. PICK g : Fetched(g, t, s)
  BY FetchSafe DEF PushStringOverflow, Fetch
<1>2. /\ Range(stk') = {} /\ Locals' = {} /\ Running' = {} /\ FramesLinked'
      /\ op' = Idle /\ leaked' = leaked
  BY Unwound DEF PushStringOverflow, Unwind, Idle
<1>3. KeySound'
  BY <1>2 DEF KeySound, Idle
<1>4. gray \subseteq gray' /\ gray' \subseteq gray \cup {s} /\ op.obj = Nil /\ op'.obj = Nil
  BY <1>2 DEF PushStringOverflow, Idle
<1>5. QED
  BY <1>1, <1>2, <1>3, <1>4, FetchStep DEF SInv

LEMMA GetGlobalS ==
    ASSUME TInv, TInv', SInv, NEW t \in Text, NEW s \in Obj, NEW gc \in BOOLEAN,
           GetGlobal(t, s, gc)
    PROVE  SInv'
<1>1. PICK g : Fetched(g, t, s)
  BY FetchSafe DEF GetGlobal
<1>2. PICK v \in Value : /\ stk' = Append(stk, v)
                         /\ v = Nil \/ <<s, v>> \in kids[Global]
  BY DEF GetGlobal
<1>3. v \in Reached \cup {Nil}
  <2>1. CASE <<s, v>> \in kids[Global] /\ v # Nil
    <3>1. Global \in Reached
      BY ReachedFacts DEF Roots
    <3>2. v \in Children(kids, Global)
      BY <2>1 DEF Children, Value
    <3>3. QED
      BY <3>1, <3>2, ReachedFacts DEF Closed
  <2>2. QED
    BY <1>2, <2>1
<1>4. Range(stk') = Range(stk) \cup {v}
  BY <1>2, StackKept
<1>5. Locals' = Locals /\ Running' = Running
  BY DEF GetGlobal, Locals, Running, Window
<1>6. FramesLinked'
  BY <1>1, FetchFrames DEF GetGlobal
<1>7. KeySound'
  BY DEF GetGlobal, KeySound, Idle
<1>8. QED
  BY <1>1, <1>3, <1>4, <1>5, <1>6, <1>7, RootsReached, FetchStep DEF GetGlobal, SInv, Idle

LEMMA FetchReached ==
    ASSUME TInv, SInv, NEW t, NEW s, NEW g, Fetched(g, t, s), UNCHANGED <<stk, loc, frames>>
    PROVE  /\ Reached \subseteq Reached'
           /\ Range(stk') \cup Locals' \cup Running' \subseteq Reached \cup {s, Nil}
<1>1. \A x \in Keep(g) : kids'[x] = kids[x]
  BY DEF Fetched, Keep
<1>2. Range(stk') = Range(stk) /\ Locals' = Locals /\ Running' = Running
  BY DEF Locals, Running, Window
<1>3. QED
  BY <1>1, <1>2, ReachedKept, RootsReached

LEMMA ChunkFileS ==
    ASSUME TInv, TInv', SInv, NEW t \in Text, NEW s \in Obj, NEW gc \in BOOLEAN,
           ChunkFile(t, s, gc), ~exposed'
    PROVE  SInv'
<1>1. PICK g : Fetched(g, t, s)
  BY FetchSafe DEF ChunkFile
<1>2. /\ op.obj = Nil /\ op'.obj = Nil /\ op'.key = s /\ s \in Reached
      /\ gray' = gray \ {s} /\ UNCHANGED <<stk, loc, frames, leaked>>
  BY DEF ChunkFile, Idle
<1>3. /\ Reached \subseteq Reached'
      /\ Range(stk') \cup Locals' \cup Running' \subseteq Reached \cup {s, Nil}
  BY <1>1, <1>2, FetchReached
<1>4. FramesLinked'
  BY <1>1, <1>2, FetchFrames
<1>5. /\ RootsSound' /\ KidsSound' /\ NewSound' /\ GrayKinds' /\ StringsBare' /\ s \in Sound'
  BY <1>1, <1>2, <1>3, FetchStep
<1>6. KeySound'
  BY <1>2, <1>3, <1>5 DEF KeySound
<1>7. QED
  BY <1>4, <1>5, <1>6 DEF SInv

LEMMA NameFetchS ==
    ASSUME TInv, TInv', SInv, NEW t \in Text, NEW s \in Obj, NEW gc \in BOOLEAN,
           NameFetch(t, s, gc), ~exposed'
    PROVE  SInv'
<1>1. PICK g : Fetched(g, t, s)
  BY FetchSafe DEF NameFetch, Fetch
<1>2. /\ op.obj = Nil /\ op'.obj = Nil /\ op'.key = s /\ s \in Reached \cup gray'
      /\ op'.at = "named" /\ gray \subseteq gray' /\ gray' \subseteq gray \cup {s}
      /\ UNCHANGED <<stk, loc, frames, leaked>>
  BY DEF NameFetch, Idle
<1>3. /\ Reached \subseteq Reached'
      /\ Range(stk') \cup Locals' \cup Running' \subseteq Reached \cup {s, Nil}
  BY <1>1, <1>2, FetchReached
<1>4. FramesLinked'
  BY <1>1, <1>2, FetchFrames
<1>5. /\ RootsSound' /\ KidsSound' /\ NewSound' /\ GrayKinds' /\ StringsBare' /\ s \in Sound'
  BY <1>1, <1>2, <1>3, FetchStep
<1>6. KeySound'
  BY <1>2, <1>3, <1>5 DEF KeySound
<1>7. QED
  BY <1>4, <1>5, <1>6 DEF SInv

\* The string is fetched and linked to function f.
Linked(g, f, t, s) ==
    /\ Alloced' = Live(g) \cup {s} /\ cell'[s] = t /\ kids'[s] = {}
    /\ s \notin leaked /\ s # f
    /\ kids'[f] = kids[f] \cup {<<Nil, s>>}
    /\ \A x \in Live(g) : cell'[x] = cell[x] /\ (x # f => kids'[x] = kids[x])

LEMMA LinkSafe ==
    ASSUME TInv, SInv, NEW t \in Text, NEW s \in Obj, NEW gc, NEW f, cell[f] = "func",
           \A g : f \in Live(g), Link(f, t, s, gc)
    PROVE  \E g : Linked(g, f, t, s)
<1>1. /\ f \in Obj /\ cell[f] # t
      /\ f \in Live(gc) /\ f \in Alloced /\ t # "free"
  BY KeepFacts DEF Alloced
<1>2. CASE s \in Interned(t) /\ UNCHANGED cell
           /\ kids' = [kids EXCEPT ![f] = @ \cup {<<Nil, s>>}]
  <2>1. s \in Alloced /\ cell[s] = t /\ Alloced' = Alloced
    BY <1>1, <1>2 DEF Interned, Alloced
  <2>2. kids[s] = {} /\ s \notin leaked /\ s # f
    BY <1>1, <2>1 DEF IsString, SInv, StringsBare, GrayKinds
  <2>3. \A x \in Obj : kids'[x] = IF x = f THEN kids[x] \cup {<<Nil, s>>} ELSE kids[x]
    BY <1>2 DEF TInv, TypeOK
  <2>4. Live(FALSE) = Alloced /\ Alloced \subseteq Obj
    BY DEF Live, Alloced
  <2>5. Linked(FALSE, f, t, s)
    BY <1>1, <1>2, <2>1, <2>2, <2>3, <2>4 DEF Linked
  <2>6. QED
    BY <2>5
<1>3. CASE /\ Interned(t) = {} /\ s \notin Live(gc)
           /\ cell' = [x \in Obj |-> IF x = s THEN t
                          ELSE IF x \in Live(gc) \cup {s} THEN cell[x] ELSE "free"]
           /\ kids' = [x \in Obj |-> IF x = s THEN {}
                          ELSE IF x = f THEN kids[x] \cup {<<Nil, s>>}
                          ELSE IF x \in Live(gc) \cup {s} THEN kids[x] ELSE {}]
  <2>1. Live(gc) \subseteq Alloced /\ Live(gc) \subseteq Obj /\ leaked \subseteq Live(gc)
    BY KeepFacts DEF Alloced
  <2> DEFINE L == Live(gc)
  <2>2. /\ L \subseteq Alloced /\ L \subseteq Obj /\ s \notin L /\ f \in L
        /\ cell' = [x \in Obj |-> IF x = s THEN t
                       ELSE IF x \in L \cup {s} THEN cell[x] ELSE "free"]
        /\ kids' = [x \in Obj |-> IF x = s THEN {}
                       ELSE IF x = f THEN kids[x] \cup {<<Nil, s>>}
                       ELSE IF x \in L \cup {s} THEN kids[x] ELSE {}]
    BY <1>1, <1>3, <2>1
  <2> HIDE DEF L
  <2>3. Alloced' = L \cup {s}
    BY <1>1, <2>2 DEF Alloced
  <2>4. /\ cell'[s] = t /\ kids'[s] = {} /\ s # f
        /\ kids'[f] = kids[f] \cup {<<Nil, s>>}
        /\ \A x \in L : cell'[x] = cell[x] /\ (x # f => kids'[x] = kids[x])
    BY <1>1, <2>2
  <2>5. Linked(gc, f, t, s)
    BY <1>3, <2>1, <2>3, <2>4 DEF Linked, L
  <2>6. QED
    BY <2>5
<1>4. QED
  BY <1>2, <1>3 DEF Link

LEMMA FuncInitS ==
    ASSUME TInv, TInv', SInv, NEW t \in Text, NEW s \in Obj, NEW gc \in BOOLEAN,
           FuncInit(t, s, gc)
    PROVE  SInv'
<1>1. PICK g : Linked(g, op.obj, t, s)
  <2>1. cell[op.obj] = "func" /\ \A g : op.obj \in Live(g)
    BY KeepFacts DEF FuncInit, TInv, TypeOK, OpShape, Alloced
  <2>2. QED
    BY <2>1, LinkSafe DEF FuncInit
<1>2. /\ op.obj \in Obj /\ op.obj # Nil /\ op.obj \in Live(g) /\ op.obj \notin leaked
      /\ ~IsString(op.obj) /\ op' = Idle /\ UNCHANGED loc
  BY KeepFacts
     DEF FuncInit, Unwind, TInv, TypeOK, OpShape, Alloced, SInv, NewSound, IsString
<1>3. /\ Nil \notin Live(g) /\ leaked \subseteq Live(g) /\ gray \subseteq Live(g)
      /\ leaked \subseteq gray
  BY KeepFacts DEF Alloced, SInv, GrayKinds
<1>4. KeySound' /\ NewSound'
  BY <1>2 DEF KeySound, NewSound, Idle
<1>5. IsString(s)' /\ \A x \in Live(g) : IsString(x)' = IsString(x)
  BY <1>1 DEF IsString, Linked
<1>6. StringsBare'
  <2>1. \A x \in Obj : IsString(x)' => x \in (Live(g) \cup {s}) \ {op.obj}
    BY <1>1, <1>2, <1>5 DEF IsString, Alloced, Linked
  <2>2. QED
    BY <1>1, <1>5, <2>1 DEF SInv, StringsBare, Linked
<1>7. \A e \in kids'[op.obj] : {e[1], e[2]} \cap Obj \subseteq Keep(g) \cup {s}
  <2>1. \A e \in kids[op.obj] : {e[1], e[2]} \cap Obj \subseteq Keep(g)
    BY <1>2, KeepFacts DEF SInv, NewSound, Children
  <2>2. QED
    BY <1>1, <2>1 DEF Linked
<1>8. \A x \in Keep(g) : x # op.obj /\ kids'[x] = kids[x]
  BY <1>1 DEF Linked, Keep
<1>9. CASE /\ Room /\ stk' = Append(stk, op.obj) /\ gray' = gray \ {s, op.obj}
           /\ UNCHANGED <<frames, leaked>>
  <2>1. Range(stk') = Range(stk) \cup {op.obj}
    BY <1>2, <1>9, StackKept DEF Value
  <2>2. Range(stk') \cup Locals' \cup Running' \subseteq Keep(g) \cup {op.obj, s} \cup {Nil}
    <3>1. Range(stk') \subseteq Keep(g) \cup {op.obj, s} \cup {Nil}
      BY <2>1, RootsKept
    <3>2. QED
      BY <1>2, <1>9, <3>1, StackOnly
  <2>3. Sound' = Keep(g) \cup {op.obj, s}
    <3>1. Sound' = (Live(g) \cup {s}) \ (leaked \cup {Nil})
      BY <1>1, <1>2, <1>9 DEF Sound, Linked, Idle
    <3>2. QED
      BY <1>1, <1>2, <1>3, <3>1 DEF Keep, Linked
  <2>4. HeapOK(g, {op.obj, s}, Nil)
    <3>1. \A x \in {op.obj, s} : \A e \in kids'[x] :
              {e[1], e[2]} \cap Obj \subseteq Keep(g) \cup {op.obj, s}
      BY <1>1, <1>7 DEF Linked
    <3>2. Nil \notin Keep(g)
      BY <1>3 DEF Keep
    <3>3. QED
      BY <1>2, <1>8, <2>2, <2>3, <3>1, <3>2 DEF HeapOK
  <2>5. GrayKinds'
    BY <1>1, <1>2, <1>3, <1>5, <1>9 DEF SInv, GrayKinds, Linked
  <2>6. FramesLinked'
    BY <1>1, <1>9, FramesKept DEF Linked
  <2>7. QED
    BY <1>4, <1>6, <2>4, <2>5, <2>6, HeapStep DEF SInv
<1>10. CASE ~Room /\ gray' = gray \ {s} /\ Unwind
  <2>1. leaked' = leaked \cup {op.obj}
    BY <1>2, <1>10 DEF Unwind
  <2>2. Sound' = Keep(g) \cup {s}
    <3>1. Sound' = (Live(g) \cup {s}) \ (leaked \cup {op.obj} \cup {Nil})
      BY <1>1, <1>2, <2>1 DEF Sound, Linked, Idle
    <3>2. QED
      BY <1>1, <1>3, <3>1 DEF Keep, Linked
  <2>3. HeapOK(g, {s}, Nil)
    BY <1>1, <1>3, <1>8, <1>10, <2>2, Unwound DEF HeapOK, Linked, Keep
  <2>4. GrayKinds'
    <3>1. op.obj \in gray /\ op.obj # s
      BY <1>1 DEF FuncInit, TInv, OpShape, Linked
    <3>2. QED
      BY <1>1, <1>2, <1>3, <1>5, <1>10, <2>1, <3>1 DEF SInv, GrayKinds, Linked
  <2>5. QED
    BY <1>4, <1>6, <1>10, <2>3, <2>4, Unwound, HeapStep DEF SInv
<1>11. QED
  BY <1>9, <1>10 DEF FuncInit

LEMMA AddLocalS ==
    ASSUME TInv, TInv', SInv, NEW t \in Text, NEW s \in Obj, NEW gc \in BOOLEAN,
           AddLocal(t, s, gc)
    PROVE  SInv'
<1>1. PICK f \in Compiled : Link(f, t, s, gc)
  BY DEF AddLocal
<1>2. f # Nil /\ cell[f] = "func" /\ ~IsString(f) /\ \A g : f \in Keep(g)
  BY CompiledFacts, RootsKept DEF TInv, IsString
<1>3. PICK g : Linked(g, f, t, s)
  <2>1. \A g : f \in Live(g)
    BY <1>2 DEF Keep
  <2>2. QED
    BY <1>1, <1>2, <2>1, LinkSafe
<1>4. /\ op = Idle /\ op' = Idle /\ gray' = gray \ {s}
      /\ UNCHANGED <<stk, loc, frames, leaked>>
  BY DEF AddLocal
<1>5. /\ leaked \subseteq Live(g) /\ gray \subseteq Live(g) /\ Nil \notin Live(g)
      /\ Keep(g) \subseteq Live(g)
  BY KeepFacts DEF Alloced, Keep
<1>6. IsString(s)' /\ \A x \in Live(g) : IsString(x)' = IsString(x)
  BY <1>3 DEF IsString, Linked
<1>7. KeySound' /\ NewSound'
  BY <1>4 DEF KeySound, NewSound, Idle
<1>8. GrayKinds'
  BY <1>3, <1>4, <1>5, <1>6 DEF SInv, GrayKinds, Linked
<1>9. StringsBare'
  <2>1. \A x \in Obj : IsString(x)' => x \in (Live(g) \cup {s}) \ {f}
    BY <1>2, <1>3, <1>5, <1>6 DEF IsString, Alloced, Linked, Keep
  <2>2. QED
    BY <1>3, <1>6, <2>1 DEF SInv, StringsBare, Linked
<1>10. HeapOK(g, {s}, f)
  <2>1. Sound' = Keep(g) \cup {s}
    BY <1>3, <1>4, <1>5 DEF Sound, Linked, Keep, Idle
  <2>2. Range(stk') \cup Locals' \cup Running' \subseteq Keep(g) \cup {s} \cup {Nil}
    BY <1>4, RootsKept DEF Locals, Running, Window
  <2>3. \A x \in Keep(g) \ {f, s} : kids'[x] = kids[x]
    BY <1>3, <1>5 DEF Linked
  <2>4. \A e \in kids'[f] : {e[1], e[2]} \cap Obj \subseteq Keep(g) \cup {s}
    <3>1. \A e \in kids[f] : {e[1], e[2]} \cap Obj \subseteq Keep(g)
      BY <1>2, KeepFacts DEF Children
    <3>2. QED
      BY <1>3, <3>1 DEF Linked
  <2>5. kids'[s] = {}
    BY <1>3 DEF Linked
  <2>6. QED
    BY <2>1, <2>2, <2>3, <2>4, <2>5 DEF HeapOK
<1>11. FramesLinked'
  BY <1>3, <1>4, FramesKept DEF Linked
<1>12. QED
  BY <1>7, <1>8, <1>9, <1>10, <1>11, HeapStep DEF SInv

-----------------------------------------------------------------------------
(* The theorems *)

LEMMA InitHInv == Init => HInv
<1> SUFFICES ASSUME Init PROVE SInv
  BY DEF HInv
<1>1. Range(stk) = {} /\ Locals = {} /\ Running = {} /\ Window = 0
  BY DEF Init, Range, Locals, Running, Window
<1>2. Roots = {Global}
  BY <1>1 DEF Roots
<1>3. Sound = {Global}
  BY DEF Init, Sound, Alloced, Idle
<1>4. QED
  BY <1>2, <1>3 DEF Init, Idle, SInv, RootsSound, KidsSound, KeySound, NewSound, GrayKinds,
                    StringsBare, FramesLinked, Children, IsString

LEMMA StepHInv == TInv /\ TInv' /\ HInv /\ [Next]_vars => HInv'
<1> SUFFICES ASSUME TInv, TInv', SInv, Next, ~exposed' PROVE SInv'
  <2>1. SUFFICES ASSUME TInv, TInv', HInv, [Next]_vars, ~exposed' PROVE SInv'
    BY DEF HInv
  <2>2. ~exposed
    <3>1. CASE Allocate
      <4>1. PICK gc \in BOOLEAN :
              \/ \E o \in Obj : \/ NewObject(o, "hmap", gc) \/ NewObject(o, "func", gc)
                                \/ NewFunction(o, gc) \/ CloneFunction(o, gc)
              \/ \E t \in Text, s \in Obj :
                    \/ PushString(t, s, gc) \/ PushStringOverflow(t, s, gc)
                    \/ ChunkFile(t, s, gc) \/ FuncInit(t, s, gc)
                    \/ NameFetch(t, s, gc) \/ GetGlobal(t, s, gc)
                    \/ Concat(t, s, gc) \/ TypeOf(t, s, gc) \/ AddLocal(t, s, gc)
              \/ AllocItems(gc) \/ FillLiteral(gc) \/ BindClone(gc) \/ PutField(gc)
              \/ AddElem(gc) \/ NamePut(gc) \/ AddConst(gc) \/ CopyArgs(gc)
        BY <3>1 DEF Allocate
      <4>2. \A o \in Obj : NewObject(o, "hmap", gc) \/ NewObject(o, "func", gc)
                           \/ NewFunction(o, gc) \/ CloneFunction(o, gc) => ~exposed
        BY <2>1 DEF NewObject, NewFunction, CloneFunction
      <4>3. \A t \in Text, s \in Obj :
               PushString(t, s, gc) \/ PushStringOverflow(t, s, gc) \/ ChunkFile(t, s, gc)
               \/ FuncInit(t, s, gc) \/ NameFetch(t, s, gc) \/ GetGlobal(t, s, gc) => ~exposed
        BY ZenonT(60), <2>1 DEF PushString, PushStringOverflow, ChunkFile, FuncInit, NameFetch, GetGlobal
      <4>6. \A t \in Text, s \in Obj :
               Concat(t, s, gc) \/ TypeOf(t, s, gc) \/ AddLocal(t, s, gc) => ~exposed
        BY <2>1 DEF Concat, TypeOf, AddLocal
      <4>4. AllocItems(gc) \/ FillLiteral(gc) \/ BindClone(gc) \/ PutField(gc)
              \/ AddElem(gc) \/ NamePut(gc) \/ AddConst(gc) \/ CopyArgs(gc) => ~exposed
        BY <2>1 DEF AllocItems, FillLiteral, BindClone, PutField, AddElem, NamePut, AddConst, CopyArgs
      <4>5. QED
        BY <4>1, <4>2, <4>3, <4>4, <4>6
    <3>2. CASE Next /\ ~Allocate
      BY <2>1, <3>2 DEF Next, PushMade, PushFilled, PushOverflow, Panic, GetField, Pop, Call,
         Return, StoreLocal, PushLocal, Pause, Resume, Collect
    <3>3. CASE UNCHANGED vars
      BY <2>1, <3>3 DEF vars
    <3>4. QED
      BY <2>1, <3>1, <3>2, <3>3
  <2>3. CASE UNCHANGED vars
    BY <2>1, <2>2, <2>3
       DEF vars, HInv, SInv, RootsSound, KidsSound, KeySound, NewSound, GrayKinds,
           StringsBare, FramesLinked, Sound, Alloced, Roots, Locals, Running, Window,
           Reached, IsString
  <2>4. QED
    BY <2>1, <2>2, <2>3 DEF HInv
<1>1. CASE Allocate
  BY <1>1, NewObjectS, NewFunctionS, CloneFunctionS, PushStringS, PushStringOverflowS,
     ChunkFileS, FuncInitS, NameFetchS, GetGlobalS, AllocItemsS, FillLiteralS, BindCloneS,
     PutFieldS, AddElemS, NamePutS, CopyArgsS, ConcatS, TypeOfS,
     AddLocalS, AddConstS DEF Allocate
<1>2. CASE ~Allocate
  BY <1>2, PushMadeS, PushOverflowS, PanicS, GetFieldS, PopS, CallS, ReturnS,
     StoreLocalS, PushLocalS, PauseS, CollectS DEF Next
<1>3. QED
  BY <1>1, <1>2

LEMMA HInvSafe == TInv /\ HInv => SafeUnlessExposed /\ LeakedUnreachable
<1> SUFFICES ASSUME TInv, SInv, ~exposed
             PROVE  NoDangling /\ leaked \cap Reached = {} /\ leaked \subseteq gray
  BY DEF HInv, SafeUnlessExposed, LeakedUnreachable
<1>1. Reached \subseteq Alloced /\ Reached \cap leaked = {}
  BY KeepFacts DEF Sound
<1>2. Held \subseteq Alloced
  BY KeepFacts DEF Held, Sound
<1>3. QED
  BY <1>1, <1>2 DEF NoDangling, SInv, GrayKinds

\* No collection, wherever it falls inside a C function, frees an object the
\* program can reach or the function holds, until some C code has relied on an
\* object nothing protected.
THEOREM HeapSafety == Spec => []SafeUnlessExposed
<1>1. Spec => [](TInv /\ HInv)
  BY InitTInv, InitHInv, StepTInv, StepHInv, PTL DEF Spec
<1>2. QED
  BY <1>1, HInvSafe, PTL

\* What a panic abandons is never reachable again, nor ever freed.
THEOREM LeaksStayApart == Spec => []LeakedUnreachable
<1>1. Spec => [](TInv /\ HInv)
  BY InitTInv, InitHInv, StepTInv, StepHInv, PTL DEF Spec
<1>2. QED
  BY <1>1, HInvSafe, PTL

=============================================================================

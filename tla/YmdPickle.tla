------------------------------ MODULE YmdPickle ------------------------------
(***************************************************************************)
(* Pickling (pickle.c): a value is written to a stream of bytes and read   *)
(* back to the top of the value stack.  Numbers are written in groups of   *)
(* bits, the highest first (encoding.c), into a buffer that doubles when   *)
(* it is full (zstream.h).                                                 *)
(*                                                                         *)
(* A dump marks the containers it is inside of, as `tostring' does, and a  *)
(* container met again while marked fails it.  Whatever fails the dump,    *)
(* every CHECK_OK returns at once: the containers it was inside of stay    *)
(* marked.                                                                 *)
(*                                                                         *)
(* A value is a record with its type tt; a container is a reference to an  *)
(* object, and `kids' has what the object holds.  What has been read is a  *)
(* tree of such records without references.                                *)
(*                                                                         *)
(* DecodedShort, ReservedLate, LeaveNever and PutTopOnce are faulty        *)
(* variants of the definition after each, for mutation tests; nothing else *)
(* uses them.                                                              *)
(***************************************************************************)
EXTENDS Integers, Sequences, SequencesExt, FiniteSets

CONSTANTS
    Obj,        \* the containers of the program
    Kind,       \* the type of each
    Leaf,       \* the values that are no containers
    Keys,       \* those that are used as keys
    Base,       \* 128: a byte is a digit, or a digit + Base when more follow
    Width,      \* bits of an ymd_int_t
    Width32,    \* bits of an int and of an ymd_u32_t
    Width16,    \* bits of an unsigned short
    MaxVarint64, MaxVarint32,  \* MAX_VARINT64_LEN, MAX_VARINT32_LEN
    MaxStatic,  \* MAX_STATIC_LEN
    MaxArgs,    \* 16: a function has fewer arguments
    Byte,       \* the bytes that may stand in a stream instead of others
    MaxKids,    \* bound on the number of elements of all the containers
    Depth       \* values on the stack of whoever pickles and loads

T_NIL == 0
T_INT == 1
T_BOOL == 2
T_EXT == 3
T_KSTR == 4
T_FUNC == 5
T_DYAY == 6
T_HMAP == 7
T_SKLS == 8
T_MAND == 9

ASSUME PickleAssumption ==
    /\ Kind \in [Obj -> {T_DYAY, T_HMAP, T_SKLS}]
    /\ Base > 1 /\ 2 ^ Width32 > T_MAND /\ Width >= Width32 /\ Width32 >= Width16
    /\ MaxVarint32 > 0 /\ MaxVarint64 >= MaxVarint32 /\ MaxStatic >= MaxVarint64
    /\ Keys \subseteq {k \in Leaf : k.tt # T_NIL}
    /\ \A v \in Leaf : v.tt \notin {T_DYAY, T_HMAP, T_SKLS}

VARIABLES
    kids,   \* what the containers hold: values, or pairs of them
    mark,   \* the containers with GC_GRAY_BIT1, between two operations
    res,    \* the result of the last operation
    depth,  \* the depth of the stack after it
    failed  \* has a dump failed yet?  For the properties

vars == <<kids, mark, res, depth, failed>>

Ref(o) == [tt |-> Kind[o], ref |-> o]
Value == Leaf \cup {Ref(o) : o \in Obj}
IsRef(v) == v.tt \in {T_DYAY, T_HMAP, T_SKLS}

-----------------------------------------------------------------------------
(* Numbers *)

\* zigzag64encode: the sign in the lowest bit, above it -i shifted out of an
\* ymd_int_t.
Zigzag(i) == IF i < 0 THEN ((-2 * i) % 2 ^ Width) + 1 ELSE (2 * i) % 2 ^ Width
Unzigzag(u) == IF u % 2 = 1 THEN -(u \div 2) ELSE u \div 2

\* uint64encode, uint32encode: the first byte is the highest group of bits that is not 0.
Encoded(x) ==
    LET n == CHOOSE n \in 1 .. Width : x < Base ^ n /\ (n = 1 \/ x >= Base ^ (n - 1))
    IN [j \in 1 .. n |->
           ((x \div Base ^ (n - j)) % Base) + IF j < n THEN Base ELSE 0]

\* uint64decode.
Decoded(bytes) ==
    FoldLeft(LAMBDA x, by : (x * Base + (by % Base)) % 2 ^ Width, 0, bytes)

\* What is made of a number: an ymd_u64_t, an ymd_u32_t, an int of it, an unsigned short.
Whole(u) == u
Cut32(u) == u % 2 ^ Width32
Cut16(u) == u % 2 ^ Width16
Signed(u) == IF Cut32(u) < 2 ^ (Width32 - 1) THEN Cut32(u) ELSE Cut32(u) - 2 ^ Width32

-----------------------------------------------------------------------------
(* The stream and the state of a dump: the bytes written, os->max, was a byte   *)
(* written past it, *ok, and the marks                                          *)

Start(marks) ==
    [buf |-> <<>>, max |-> MaxStatic, over |-> FALSE, ok |-> TRUE, mark |-> marks]

\* zos_reserved
ReservedLate(d, k) == IF Len(d.buf) <= d.max THEN d ELSE [d EXCEPT !.max = 2 * @]
Reserved(d, k) == IF Len(d.buf) + k <= d.max THEN d ELSE [d EXCEPT !.max = 2 * @]

\* zos_u32; zos_u64, zos_i64
PutNumber(d, x, k) ==
    LET r == Reserved(d, k)
    IN [r EXCEPT !.buf = @ \o Encoded(x),
                 !.over = @ \/ Len(r.buf) + Len(Encoded(x)) > r.max]
Put(d, x) == PutNumber(d, x, MaxVarint32)
Put64(d, x) == PutNumber(d, x, MaxVarint64)

\* zos_append: zos_advance reserves again, when the bytes have been written.
PutBytes(d, z) ==
    LET r == Reserved(d, Len(z))
    IN [Reserved(r, Len(z)) EXCEPT !.buf = @ \o z,
                                   !.over = @ \/ Len(r.buf) + Len(z) > r.max]

DumpKstr(d, z) == PutBytes(Put(Put(d, T_KSTR), Len(z)), z)

LeaveNever(d, o) == d
\* fg_leave, unless CHECK_OK has returned before.
Leave(d, o) == IF d.ok THEN [d EXCEPT !.mark = @ \ {o}] ELSE d

\* The number of items in a container, and what is dumped of it in turn.
Items(o) == IF Kind[o] = T_DYAY THEN kids[o] ELSE FlattenSeq(kids[o])

RECURSIVE Serialize(_, _)
SerializeAll(d, vs) ==
    FoldLeft(LAMBDA e, v : IF e.ok THEN Serialize(e, v) ELSE e, d, vs)

\* ymd_dump_dyay, ymd_dump_hmap, ymd_dump_skls
DumpContainer(d, o) ==
    IF o \in d.mark THEN [d EXCEPT !.ok = FALSE]
    ELSE LET entered == [d EXCEPT !.mark = @ \cup {o}]
             headed == Put(Put(entered, Kind[o]), Len(kids[o]))
         IN Leave(SerializeAll(headed, Items(o)), o)

\* ymd_dump_chunk
DumpChunk(d, f) ==
    LET insts == PutBytes(Put(d, Len(f.inst)), f.inst)
        lines == FoldLeft(LAMBDA e, n : Put(e, n), insts, f.line)
        kvals == SerializeAll(Put(lines, Len(f.kval)), f.kval)
        names == FoldLeft(DumpKstr, Put(kvals, Len(f.lz)), f.lz)
    IN IF kvals.ok THEN Put(DumpKstr(names, f.file), f.kargs) ELSE kvals

\* ymd_dump_func: nothing at all for a native function.
DumpFunc(d, f) ==
    IF f.is_c THEN d
    ELSE LET bound == SerializeAll(Put(DumpKstr(Put(d, T_FUNC), f.proto),
                                       Len(f.bind)), f.bind)
         IN IF bound.ok THEN DumpChunk(bound, f) ELSE bound

\* ymd_serialize
Serialize(d, v) ==
    CASE v.tt = T_NIL  -> Put(d, T_NIL)
      [] v.tt = T_INT  -> Put64(Put(d, T_INT), Zigzag(v.i))
      [] v.tt = T_BOOL -> Put64(Put(d, T_BOOL), v.b)
      [] v.tt = T_KSTR -> DumpKstr(d, v.z)
      [] v.tt = T_FUNC -> DumpFunc(d, v)
      [] IsRef(v)      -> DumpContainer(d, v.ref)
      [] OTHER         -> [d EXCEPT !.ok = FALSE]

-----------------------------------------------------------------------------
(* The state of a load: the stream, is->last, how it goes on ("go", "fail": *ok *)
(* is 0, "stop": an assertion, "panic", "back": see LoadKstr), the number read  *)
(* last, what it has pushed, and has it allocated with a function on the stack  *)
(* that has no prototype?                                                       *)

Opened(z) ==
    [z |-> z, last |-> 0, how |-> "go", x |-> 0, stk |-> <<>>, bare |-> FALSE]
Goes(s) == s.how = "go"
\* What comes next, if the load goes on so far.
Then(s, Step(_)) == CHOOSE r \in {IF Goes(t) THEN Step(t) ELSE t : t \in {s}} : TRUE
Ended(s, how) == IF Goes(s) THEN [s EXCEPT !.how = how] ELSE s
Checked(s, cond) == IF cond THEN s ELSE Ended(s, "fail")

Pushed(s, v) ==
    Then(s, LAMBDA t :
        [t EXCEPT !.stk = Append(@, v),
                  !.bare = @ \/ (t.stk # <<>> /\ "bare" \in DOMAIN Last(t.stk))])

\* zis_u64, zis_i64, and zis_u32, which is cut, as their callers take them: without a last
\* byte in what is left zis_advance's assertion stops the program.
LastBytes(s) ==
    {e \in s.last + 1 .. Len(s.z) :
        s.z[e] < Base /\ \A j \in s.last + 1 .. e - 1 : s.z[j] >= Base}
DecodedShort(s, e) == Decoded(SubSeq(s.z, s.last + 1, e - 1))
DecodedAt(s, e) == Decoded(SubSeq(s.z, s.last + 1, e))
Read(s, As(_)) ==
    Then(s, LAMBDA t :
        IF LastBytes(t) = {} THEN Ended(t, "stop")
        ELSE LET e == CHOOSE e \in LastBytes(t) : TRUE
             IN [t EXCEPT !.x = As(DecodedAt(t, e)), !.last = e])

\* zis_fetch, with instructions of one byte.
Skip(s, k) ==
    Then(s, LAMBDA t : IF Len(t.z) - t.last < k THEN Ended(t, "stop")
                       ELSE [t EXCEPT !.last = @ + k])

\* What ymd_kstr makes of the bytes that are left: n of them or, for a negative n, those
\* before the first 0 (kstr_fetch asks strlen).
Spelled(s, n) ==
    LET left == SubSeq(s.z, s.last + 1, Len(s.z))
        ends == {e \in 0 .. Len(left) :
                    /\ \A j \in 1 .. e : left[j] # 0
                    /\ e = Len(left) \/ left[e + 1] = 0}
    IN SubSeq(left, 1, IF n >= 0 THEN n ELSE CHOOSE e \in ends : TRUE)

\* ymd_load_kstr.  A negative length passes the check of what remains, and zis_advance
\* goes back by as much: the load reads on from there, which may be before the stream and
\* may have no end.  How it goes on is left out, and it ends "back".
LoadBytes(t) ==
    LET fits == Checked(t, Len(t.z) - t.last >= t.x)
        pushed == Pushed(fits, [tt |-> T_KSTR, z |-> Spelled(t, t.x)])
    IN IF t.x < 0 THEN Ended(pushed, "back") ELSE Skip(pushed, t.x)
LoadKstr(s) == Then(Read(s, Signed), LoadBytes)

RECURSIVE Parse(_)

\* The loops of the loads: n times Step, until one fails.
Repeat(Step(_), s, n) == FoldLeft(LAMBDA t, j : IF Goes(t) THEN Step(t) ELSE t,
                                  s, [j \in 1 .. n |-> j])

\* ymd_add, ymd_putf: the top of the stack goes into the container below it; a nil
\* key panics in vm_put.
AddTop(s) ==
    LET n == Len(s.stk)
    IN [s EXCEPT !.stk = [SubSeq(@, 1, n - 1) EXCEPT ![n - 1].kids = Append(@, s.stk[n])]]
PutTopOnce(s) ==
    LET n == Len(s.stk)
    IN IF s.stk[n - 1].tt = T_NIL THEN Ended(s, "panic")
       ELSE [s EXCEPT !.stk = [SubSeq(@, 1, n - 1) EXCEPT ![n - 2].kids =
                                   Append(@, <<s.stk[n - 1], s.stk[n]>>)]]
PutTop(s) ==
    LET n == Len(s.stk)
        k == s.stk[n - 1]
        others == SelectSeq(s.stk[n - 2].kids, LAMBDA kv : kv[1] # k)
    IN IF k.tt = T_NIL THEN Ended(s, "panic")
       ELSE [s EXCEPT !.stk = [SubSeq(@, 1, n - 2) EXCEPT ![n - 2].kids =
                                   Append(others, <<k, s.stk[n]>>)]]

\* ymd_load_dyay, ymd_load_hmap, ymd_load_skls.  With a negative count the loop of the
\* array only ends when an element fails, those of map and list do not begin.  log2x
\* finds no power of two above a count of the highest bit.
LoadElem(s) == Then(Parse(s), AddTop)
LoadPair(s) == Then(Then(Parse(s), Parse), PutTop)
LoadItems(t, tt) ==
    LET sized == IF tt = T_HMAP /\ t.x >= 2 ^ (Width32 - 2) THEN Ended(t, "stop") ELSE t
        opened == Pushed(sized, [tt |-> tt, kids |-> <<>>])
        toEnd == Len(t.z) + 1
    IN IF tt = T_DYAY THEN Repeat(LoadElem, opened, IF t.x < 0 THEN toEnd ELSE t.x)
       ELSE Repeat(LoadPair, opened, t.x)
LoadContainer(s, tt) == Then(Read(s, Signed), LAMBDA t : LoadItems(t, tt))

\* The function at the top or below it gets what has been loaded.
WithTop(s, field) ==
    Then(s, LAMBDA t :
        LET n == Len(t.stk)
        IN [t EXCEPT !.stk = [SubSeq(@, 1, n - 1) EXCEPT ![n - 1] =
                                  [f \in DOMAIN @ \cup {field} |->
                                      IF f # field THEN @[f]
                                      ELSE IF field \notin DOMAIN @ THEN <<t.stk[n]>>
                                      ELSE Append(@[f], t.stk[n])]]])
LoadBind(s) == WithTop(Parse(s), "bind")
LoadKval(s) == WithTop(Parse(s), "kval")
LoadLz(s) == WithTop(LoadKstr(s), "lz")

\* ymd_load_chunk: each part is preceded by how much of it there is.
LoadInsts(t) ==
    Repeat(LAMBDA u : Read(u, Cut32), Skip(Checked(t, t.x > 0), t.x), t.x)
LoadKvals(t) == Repeat(LoadKval, t, t.x)
LoadNames(t) == Repeat(LoadLz, Checked(t, t.x < 2 ^ Width16 - 1), t.x)
LoadChunk(s) ==
    LET coded == Then(Read(s, Signed), LoadInsts)
        valued == Then(Read(coded, Signed), LoadKvals)
        named == Then(Read(valued, Signed), LoadNames)
        filed == WithTop(LoadKstr(named), "file")
    IN Then(Read(filed, Cut16), LAMBDA t : Checked(t, t.x < MaxArgs))

\* ymd_load_func: the strings are read without the tag ymd_dump_kstr has written, and
\* n_bind is an unsigned short.
LoadBinds(t) == Repeat(LoadBind, t, t.x)
LoadFunc(s) ==
    LET named == WithTop(LoadKstr(Pushed(s, [tt |-> T_FUNC, bare |-> TRUE])), "proto")
    IN LoadChunk(Then(Read(named, Cut16), LoadBinds))

\* ymd_parse
ParseAs(t) ==
    CASE t.x = T_NIL  -> Pushed(t, [tt |-> T_NIL])
      [] t.x = T_INT  ->
             Then(Read(t, Whole), LAMBDA u : Pushed(u, [tt |-> T_INT, i |-> Unzigzag(u.x)]))
      [] t.x = T_BOOL ->
             Then(Read(t, Signed), LAMBDA u : Pushed(u, [tt |-> T_BOOL, b |-> u.x]))
      [] t.x = T_KSTR -> LoadKstr(t)
      [] t.x = T_FUNC -> LoadFunc(t)
      [] t.x \in {T_DYAY, T_HMAP, T_SKLS} -> LoadContainer(t, t.x)
      [] OTHER        -> Ended(t, "fail")
Parse(s) == Then(Read(s, Cut32), ParseAs)

-----------------------------------------------------------------------------
(* tostring: the containers it writes as "..[self].." *)

RECURSIVE Selves(_, _)
Selves(v, marks) ==
    IF ~IsRef(v) THEN {}
    ELSE IF v.ref \in marks THEN {v.ref}
    ELSE UNION {Selves(w, marks \cup {v.ref}) : w \in ToSet(Items(v.ref))}

-----------------------------------------------------------------------------
(* What a value is, for the properties *)

Within(v) == IF IsRef(v) THEN ToSet(Items(v.ref))
             ELSE IF v.tt = T_FUNC /\ ~v.is_c THEN ToSet(v.bind) \cup ToSet(v.kval)
             ELSE {}
RECURSIVE Inside(_, _)
Inside(vs, n) == IF n = 0 THEN vs ELSE Inside(vs \cup UNION {Within(v) : v \in vs}, n - 1)
Reached(v) == Inside({v}, 2 * Cardinality(Obj))
HoldsItself(o) == Ref(o) \in Inside(Within(Ref(o)), 2 * Cardinality(Obj))

\* A dump can say everything about the value, and there is no function in it.
Dumpable(v) ==
    /\ \A w \in Reached(v) : w.tt \notin {T_EXT, T_MAND}
    /\ \A w \in Reached(v) : IsRef(w) => ~HoldsItself(w.ref)
Plain(v) == \A w \in Reached(v) : w.tt # T_FUNC

RECURSIVE Tree(_)
Tree(v) ==
    IF ~IsRef(v) THEN v
    ELSE [tt |-> v.tt,
          kids |-> IF v.tt = T_DYAY THEN [j \in DOMAIN kids[v.ref] |-> Tree(kids[v.ref][j])]
                   ELSE [j \in DOMAIN kids[v.ref] |->
                            <<Tree(kids[v.ref][j][1]), Tree(kids[v.ref][j][2])>>]]

-----------------------------------------------------------------------------
(* The operations *)

NoRes == [op |-> "none", how |-> "go"]
Able == depth = Depth /\ res.how \in {"go", "fail"}

\* The program changes a container: an element is added or changed, or the value of a
\* key is put; keys are no containers here.  No variable of a map is set to nil.
Fill(o, k, v) ==
    LET with == IF Kind[o] = T_DYAY
                THEN {Append(kids[o], v)} \cup {[kids[o] EXCEPT ![j] = v] : j \in DOMAIN kids[o]}
                ELSE {Append(SelectSeq(kids[o], LAMBDA kv : kv[1] # k), <<k, v>>)}
    IN
    /\ Able
    /\ Kind[o] = T_DYAY \/ v.tt # T_NIL
    /\ \E s \in with : kids' = [kids EXCEPT ![o] = s]
    /\ MapThenSumSet(LAMBDA p : Len(kids'[p]), Obj) <= MaxKids
    /\ res' = NoRes
    /\ UNCHANGED <<mark, depth, failed>>

\* ymd_pdump of the value on the top, which it pops; it pushes a string only if
\* something was written and nothing failed.
PDump(v) ==
    /\ Able
    /\ LET d == Serialize(Start(mark), v)
       IN /\ mark' = d.mark
          /\ failed' = (failed \/ ~d.ok)
          /\ res' = [op |-> "dump", how |-> IF d.ok THEN "go" ELSE "fail", v |-> v,
                     z |-> IF d.ok THEN d.buf ELSE <<>>, clean |-> ~failed,
                     over |-> d.over]
    /\ UNCHANGED <<kids, depth>>

\* What there may be to load: a whole dump, the first part of one, and one with another
\* byte somewhere in it.
Dumped == {res.z} \cup {SubSeq(res.z, 1, n) : n \in 0 .. Len(res.z) - 1}
          \cup {[res.z EXCEPT ![j] = b] : j \in DOMAIN res.z, b \in Byte}

\* ymd_pload of what the dump before gave, if none has failed yet (a load looks at no
\* marks) and it stayed within its buffer (beyond it the bytes are anyone's).  When the
\* load has given a value, whoever asked for it takes it; otherwise it pops one value.
\* A collection during an allocation of ymd_load_func follows the prototype the function
\* does not have.
PLoad ==
    /\ Able /\ res.op = "dump" /\ res.z # <<>> /\ res.clean /\ ~res.over
    /\ \E z \in Dumped :
       \E s \in LET p == Parse(Opened(z))
                IN {p} \cup {[p EXCEPT !.how = "stop"] : b \in {TRUE} \cap {p.bare}} :
          /\ depth' = Depth + Len(s.stk) - 1
          /\ res' = [op |-> "load", how |-> s.how, v |-> res.v, whole |-> z = res.z,
                     rest |-> Len(z) - s.last, stk |-> s.stk]
    /\ UNCHANGED <<kids, mark, failed>>

\* tostring
Show(v) ==
    /\ Able
    /\ res' = [op |-> "show", how |-> "go", v |-> v, clean |-> ~failed,
                selves |-> Selves(v, mark)]
    /\ UNCHANGED <<kids, mark, depth, failed>>

-----------------------------------------------------------------------------
Init ==
    /\ kids = [o \in Obj |-> <<>>]
    /\ mark = {} /\ res = NoRes /\ depth = Depth /\ failed = FALSE

Next ==
    \/ \E o \in Obj, k \in Keys, v \in Value : Fill(o, k, v)
    \/ \E v \in Value : PDump(v) \/ Show(v)
    \/ PLoad

Spec == Init /\ [][Next]_vars

-----------------------------------------------------------------------------
(* Properties *)

Did(op) == res.op = op
HasMin(v) == \E w \in Reached(v) : w.tt = T_INT /\ w.i = -(2 ^ (Width - 1))

\* pdump and pload, through encoding.c and zstream.h: what is read back from a whole
\* dump that stayed within its buffer is the value that was dumped, and the dump is read
\* to its end; except for a nil, which is dropped, for the least integer, whose dump is
\* that of 0 with a sign, and for functions.
RoundTrip ==
    Did("load") =>
        LET v == res.v
        IN res.whole /\ v.tt # T_NIL /\ Plain(v) /\ ~HasMin(v) =>
               res.how = "go" /\ res.stk = <<Tree(v)>> /\ res.rest = 0

\* zos_reserved makes room by one doubling, before the bytes are written: a dump writes
\* past its buffer only if a single string, or the instructions of one function, are
\* longer than the buffer was at first.
Long(v) == CASE v.tt = T_KSTR -> Len(v.z) > MaxStatic
             [] v.tt = T_FUNC -> ~v.is_c /\ Len(v.inst) > MaxStatic
             [] OTHER -> FALSE
NoOverrun == Did("dump") /\ res.over => \E w \in Reached(res.v) : Long(w)

\* fg_enter and fg_leave: as long as no dump has failed no mark is left behind, so a
\* dump fails only for a container that holds itself or a value that cannot be written,
\* and tostring writes "self" only for containers that hold themselves and whenever
\* there is one.  (It does not look into a function.)
MarksMeanSelf ==
    /\ ~failed => mark = {}
    /\ Did("dump") /\ res.clean => (res.how = "go" <=> Dumpable(res.v))
    /\ Did("show") /\ res.clean /\ Plain(res.v) =>
           LET selfish == {o \in Obj : Ref(o) \in Reached(res.v) /\ HoldsItself(o)}
           IN res.selves \subseteq selfish /\ (res.selves = {} => selfish = {})

\* pload, whatever the bytes: a load that succeeds leaves the stack as deep as it was;
\* one that fails takes at most one value from its caller, and that only if it had
\* opened no container, and leaves on the stack only the chain of containers it was
\* inside of, with the key of the pair being read.
LoadKeepsCaller ==
    Did("load") =>
        /\ res.how = "go" => depth = Depth
        /\ \A j \in 1 .. Len(res.stk) - 1 :
               \/ IsRef(res.stk[j]) \/ res.stk[j].tt = T_FUNC
               \/ j > 1 /\ res.stk[j - 1].tt \in {T_HMAP, T_SKLS}
=============================================================================

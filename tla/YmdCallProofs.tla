--------------------------- MODULE YmdCallProofs ---------------------------
(* Theorems about calls, for every nesting, stack and number of arguments. *)
EXTENDS YmdCall, TLAPS

LEMMA StackSize == MaxStack \in Nat /\ MaxStack > 0
  BY CallAssumption

-----------------------------------------------------------------------------
(* The inductive invariant *)

\* How far a frame can be: only a pcall waits, and all but the last frame do or
\* are compiled functions.
Lower(r) == r.fn \in Fun \/ (r.fn = PCall /\ r.at = "wait")
ShapeOf(fr) ==
    /\ \A k \in DOMAIN fr : (fr[k].fn \in Fun) <=> (fr[k].at = "run")
    /\ \A k \in DOMAIN fr : k < Len(fr) => Lower(fr[k])
    /\ \A k \in DOMAIN fr : fr[k].at = "wait" => k < Len(fr)

\* The part of the stack of each frame ends where that of any later one begins,
\* and the last one's at the top, n.
SpansOf(fr, n) ==
    /\ \A i, k \in DOMAIN fr : i < k => fr[i].h + Owed(fr[i]) <= fr[k].h
    /\ \A i \in DOMAIN fr : fr[i].h + Owed(fr[i]) <= n

\* Jump buffers are those of waiting pcalls, in the order of the call chain.
BuffersOf(fr, js) ==
    /\ (fr = <<>>) <=> (js = <<>>)
    /\ \A i \in DOMAIN js : js[i].level = i /\ js[i].at < Len(fr)
    /\ js # <<>> => js[1].at = 0
    /\ \A i \in DOMAIN js : i > 1 => js[i].at \in DOMAIN fr /\ fr[js[i].at].at = "wait"
    /\ \A i, k \in DOMAIN js : i < k => js[i].at < js[k].at
    /\ \A k \in DOMAIN fr : fr[k].at = "wait" => \E i \in DOMAIN js : js[i].at = k

CInv == TypeOK /\ ShapeOf(frames) /\ SpansOf(frames, Len(stk)) /\ BuffersOf(frames, jpts)

-----------------------------------------------------------------------------
(* Sequences *)

LEMMA Prefix ==
    ASSUME NEW S, NEW s \in Seq(S), NEW n \in Nat, n <= Len(s)
    PROVE  /\ SubSeq(s, 1, n) \in Seq(S) /\ Len(SubSeq(s, 1, n)) = n
           /\ \A i \in 1 .. n : SubSeq(s, 1, n)[i] = s[i]
  OBVIOUS

LEMMA TopmostType ==
    ASSUME stk \in Seq(Value), NEW n \in Nat, n <= Len(stk)
    PROVE  Topmost(n) \in Seq(Value)
<1>1. Len(stk) - n + 1 \in Nat /\ Len(stk) - n + 1 > 0
  OBVIOUS
<1>2. \A i \in Len(stk) - n + 1 .. Len(stk) : stk[i] \in Value
  OBVIOUS
<1>3. QED
  BY <1>1, <1>2 DEF Topmost

LEMMA Appending ==
    ASSUME NEW S, NEW s \in Seq(S), NEW e \in S
    PROVE  /\ Append(s, e) \in Seq(S) /\ Len(Append(s, e)) = Len(s) + 1
           /\ Append(s, e)[Len(s) + 1] = e
           /\ \A i \in 1 .. Len(s) : Append(s, e)[i] = s[i]
  OBVIOUS

LEMMA Joining ==
    ASSUME NEW S, NEW s \in Seq(S), NEW t \in Seq(S)
    PROVE  s \o t \in Seq(S) /\ Len(s \o t) = Len(s) + Len(t)
  BY SMTT(60)

Fields(r, q) == /\ r.fn = q.fn /\ r.base = q.base /\ r.args = q.args
                /\ r.aret = q.aret /\ r.h = q.h

LEMMA DepthFacts ==
    ASSUME NEW fr \in Seq(FrameSet), fr # <<>>, NEW d \in Nat
    PROVE  /\ WithDepth(fr, d) \in Seq(FrameSet) /\ Len(WithDepth(fr, d)) = Len(fr)
           /\ \A i \in 1 .. Len(fr) - 1 : WithDepth(fr, d)[i] = fr[i]
           /\ Fields(WithDepth(fr, d)[Len(fr)], fr[Len(fr)])
           /\ WithDepth(fr, d)[Len(fr)].at = fr[Len(fr)].at
           /\ WithDepth(fr, d)[Len(fr)].depth = d
<1> DEFINE r == [fr[Len(fr)] EXCEPT !.depth = d]
<1>1. Len(fr) \in 1 .. Len(fr) /\ fr[Len(fr)] \in FrameSet
  OBVIOUS
<1>2. /\ r \in FrameSet /\ Fields(r, fr[Len(fr)]) /\ r.depth = d
      /\ r.at = fr[Len(fr)].at
  BY <1>1 DEF FrameSet, Fields
<1>3. WithDepth(fr, d) = [fr EXCEPT ![Len(fr)] = r]
  BY DEF WithDepth
<1> HIDE DEF r
<1>4. /\ [fr EXCEPT ![Len(fr)] = r] \in Seq(FrameSet)
      /\ Len([fr EXCEPT ![Len(fr)] = r]) = Len(fr)
      /\ \A i \in 1 .. Len(fr) - 1 : [fr EXCEPT ![Len(fr)] = r][i] = fr[i]
      /\ [fr EXCEPT ![Len(fr)] = r][Len(fr)] = r
  BY <1>1, <1>2
<1>5. QED
  BY <1>2, <1>3, <1>4

LEMMA AtFacts ==
    ASSUME NEW fr \in Seq(FrameSet), fr # <<>>,
           NEW place \in {"run", "enter", "wait", "ok", "err"}
    PROVE  /\ WithAt(fr, place) \in Seq(FrameSet) /\ Len(WithAt(fr, place)) = Len(fr)
           /\ \A i \in 1 .. Len(fr) - 1 : WithAt(fr, place)[i] = fr[i]
           /\ Fields(WithAt(fr, place)[Len(fr)], fr[Len(fr)])
           /\ WithAt(fr, place)[Len(fr)].at = place
           /\ WithAt(fr, place)[Len(fr)].depth = fr[Len(fr)].depth
<1> DEFINE r == [fr[Len(fr)] EXCEPT !.at = place]
<1>1. Len(fr) \in 1 .. Len(fr) /\ fr[Len(fr)] \in FrameSet
  OBVIOUS
<1>2. /\ r \in FrameSet /\ Fields(r, fr[Len(fr)]) /\ r.at = place
      /\ r.depth = fr[Len(fr)].depth
  BY <1>1 DEF FrameSet, Fields
<1>3. WithAt(fr, place) = [fr EXCEPT ![Len(fr)] = r]
  BY DEF WithAt
<1> HIDE DEF r
<1>4. /\ [fr EXCEPT ![Len(fr)] = r] \in Seq(FrameSet)
      /\ Len([fr EXCEPT ![Len(fr)] = r]) = Len(fr)
      /\ \A i \in 1 .. Len(fr) - 1 : [fr EXCEPT ![Len(fr)] = r][i] = fr[i]
      /\ [fr EXCEPT ![Len(fr)] = r][Len(fr)] = r
  BY <1>1, <1>2
<1>5. QED
  BY <1>2, <1>3, <1>4
-----------------------------------------------------------------------------
(* Linking a call and leaving one *)

\* What a step must establish, but for the jump buffers.
TypeNext ==
    /\ stk' \in Seq(Value) /\ Len(stk') <= MaxStack
    /\ loc' \in [1 .. MaxLocal -> Value]
    /\ frames' \in Seq(FrameSet)
    /\ argv' \in [Callable -> Seq(Value)]
    /\ mixed' \subseteq Callable
FrameNext == ShapeOf(frames') /\ SpansOf(frames', Len(stk'))

\* The frames `fr' can be under a call, with `n' operands on the stack in all.
Pending(fr, n) ==
    /\ \A k \in DOMAIN fr : Lower(fr[k]) /\ ((fr[k].fn \in Fun) <=> (fr[k].at = "run"))
    /\ SpansOf(fr, n)

LEMMA LocalsNat == \A f \in Callable : Locals(f) \in Nat
  BY CallAssumption DEF Locals, Callable

LEMMA AboveNat ==
    ASSUME NEW fr \in Seq(FrameSet)
    PROVE  Above(fr) \in Nat
<1>1. fr # <<>> => fr[Len(fr)] \in FrameSet
  OBVIOUS
<1>2. QED
  BY SMTT(60), <1>1, LocalsNat DEF Above, Last, FrameSet

LEMMA EntryLocalsType ==
    ASSUME TypeOK, NEW f \in Callable, NEW args \in Seq(Value), NEW base \in Nat,
           NEW zeroed
    PROVE  /\ EntryLocals(f, args, base, zeroed) \in [1 .. MaxLocal -> Value]
           /\ zeroed \in Nat =>
                \A i \in 1 .. base : i <= MaxLocal =>
                   EntryLocals(f, args, base, zeroed)[i] = loc[i]
<1> DEFINE k == IF f \in Fun THEN IF NParams[f] < Len(args) THEN NParams[f] ELSE Len(args)
                ELSE 0
<1>1. k \in Nat /\ k <= Len(args) /\ (f \in Fun => NParams[f] \in Nat)
  BY CallAssumption
<1>2. \A i \in base + 1 .. base + k : Len(args) - k + i - base \in 1 .. Len(args)
  BY <1>1
<1>3. \A i \in base + 1 .. base + k : args[Len(args) - k + i - base] \in Value
  BY <1>2
<1>4. {Nil, Ref} \subseteq Value /\ \A i \in 1 .. MaxLocal : loc[i] \in Value
  BY DEF TypeOK, Value
<1>5. EntryLocals(f, args, base, zeroed) \in [1 .. MaxLocal -> Value]
  BY <1>1, <1>3, <1>4, Zenon DEF EntryLocals, Zeroed
<1>6. \A i \in 1 .. base : i \notin base + 1 .. base + k /\ (f \in Fun => i # base + NParams[f] + 1)
  BY <1>1
<1>7. zeroed \in Nat => \A i \in 1 .. base : i \notin base + 1 .. base + zeroed
  OBVIOUS
<1>8. QED
  BY <1>5, <1>6, <1>7 DEF EntryLocals, Zeroed

LEMMA Linked ==
    ASSUME TypeOK, NEW f \in Callable, NEW args \in Seq(Value),
           NEW callers \in Seq(FrameSet), NEW below \in Seq(Value), Len(below) <= MaxStack,
           NEW aret \in {0, 1}, Pending(callers, Len(below)),
           Link(f, args, callers, below, aret)
    PROVE  /\ TypeNext /\ FrameNext
           /\ Len(frames') = Len(callers) + 1
           /\ \A i \in 1 .. Len(callers) : frames'[i] = callers[i]
           /\ frames'[Len(callers) + 1].at # "wait"
<1> DEFINE new == [fn |-> f, base |-> Above(callers), args |-> args, aret |-> aret,
                   at |-> IF f \in Fun THEN "run" ELSE "enter", h |-> Len(below), depth |-> 0]
<1>1. /\ stk' = below /\ frames' = Append(callers, new)
      /\ argv' = [argv EXCEPT ![f] = @ \o args]
      /\ mixed' = IF Active(f) THEN mixed \cup {f} ELSE mixed
      /\ \E z : loc' = EntryLocals(f, args, Above(callers), z)
  BY DEF Link
<1>2. new \in FrameSet
  <2>1. Above(callers) \in Nat /\ Len(below) \in Nat
    BY AboveNat
  <2>2. (IF f \in Fun THEN "run" ELSE "enter") \in {"run", "enter", "wait", "ok", "err"}
    OBVIOUS
  <2>3. QED
    BY <2>1, <2>2 DEF FrameSet
<1>3. new.fn = f /\ new.h = Len(below) /\ new.depth = 0 /\ (new.at = "run" <=> f \in Fun)
      /\ new.at # "wait" /\ new.at # "err"
  OBVIOUS
<1> HIDE DEF new
<1>4. /\ frames' \in Seq(FrameSet) /\ Len(frames') = Len(callers) + 1
      /\ frames'[Len(callers) + 1] = new
      /\ \A i \in 1 .. Len(callers) : frames'[i] = callers[i]
  BY <1>1, <1>2
<1>5. loc' \in [1 .. MaxLocal -> Value]
  BY <1>1, EntryLocalsType, AboveNat
<1>6. argv' \in [Callable -> Seq(Value)] /\ mixed' \subseteq Callable
  <2>1. argv[f] \o args \in Seq(Value)
    BY DEF TypeOK
  <2>2. QED
    BY <1>1, <2>1 DEF TypeOK
<1>7. TypeNext
  BY <1>1, <1>4, <1>5, <1>6 DEF TypeNext
<1>8. DOMAIN frames' = 1 .. Len(callers) + 1 /\ DOMAIN callers = 1 .. Len(callers)
      /\ Len(callers) \in Nat /\ Len(below) \in Nat
  BY <1>4
<1> DEFINE fr == frames'
<1>a. /\ DOMAIN fr = 1 .. Len(callers) + 1 /\ Len(fr) = Len(callers) + 1
      /\ fr[Len(callers) + 1] = new /\ \A i \in 1 .. Len(callers) : fr[i] = callers[i]
  BY <1>4, <1>8 DEF fr
<1> HIDE DEF fr
<1>9. ShapeOf(fr)
  <2>1. \A k \in DOMAIN fr : k \in 1 .. Len(callers) \/ k = Len(callers) + 1
    BY <1>a, <1>8
  <2>2. \A k \in 1 .. Len(callers) :
           /\ Lower(fr[k]) /\ ((fr[k].fn \in Fun) <=> (fr[k].at = "run")) /\ k < Len(fr)
    BY <1>a, <1>8 DEF Pending
  <2>3. \A k \in DOMAIN fr : k < Len(fr) => k \in 1 .. Len(callers)
    BY <1>a, <1>8
  <2>4. QED
    BY <1>3, <1>a, <2>1, <2>2, <2>3 DEF ShapeOf
<1>10. SpansOf(fr, Len(below))
  <2>1. \A i \in 1 .. Len(callers) : fr[i].h + Owed(fr[i]) <= Len(below)
    BY <1>a, <1>8 DEF Pending, SpansOf
  <2>2. \A i, k \in 1 .. Len(callers) : i < k => fr[i].h + Owed(fr[i]) <= fr[k].h
    BY <1>a, <1>8 DEF Pending, SpansOf
  <2>3. fr[Len(callers) + 1].h = Len(below) /\ Owed(fr[Len(callers) + 1]) = 0
    BY <1>3, <1>a DEF Owed
  <2>4. \A i, k \in DOMAIN fr : i < k => i \in 1 .. Len(callers)
                                         /\ (k \in 1 .. Len(callers) \/ k = Len(callers) + 1)
    BY <1>a, <1>8
  <2>5. \A i \in DOMAIN fr : i \in 1 .. Len(callers) \/ i = Len(callers) + 1
    BY <1>a, <1>8
  <2>6. \A i, k \in DOMAIN fr : i < k => fr[i].h + Owed(fr[i]) <= fr[k].h
    BY <2>1, <2>2, <2>3, <2>4
  <2>7. fr[Len(callers) + 1].h + Owed(fr[Len(callers) + 1]) <= Len(below)
    BY <1>8, <2>3
  <2>8. \A i \in DOMAIN fr : fr[i].h + Owed(fr[i]) <= Len(below)
    BY <2>1, <2>5, <2>7
  <2>9. QED
    BY <2>6, <2>8 DEF SpansOf
<1>11. QED
  BY <1>1, <1>3, <1>4, <1>7, <1>9, <1>10 DEF FrameNext, fr
-----------------------------------------------------------------------------
(* The call chain cut back to its first p frames, the last of them changed *)

LEMMA OwedNat == \A r \in FrameSet : Owed(r) \in Nat /\ r.h \in Nat /\ r.depth \in Nat
  BY DEF Owed, FrameSet

LEMMA SpansPrefix ==
    ASSUME NEW fr \in Seq(FrameSet), NEW q \in Seq(FrameSet), NEW m, NEW n \in Nat,
           SpansOf(fr, m), q # <<>>, Len(q) <= Len(fr),
           \A i \in 1 .. Len(q) - 1 : q[i] = fr[i],
           q[Len(q)].h = fr[Len(q)].h, q[Len(q)].h + Owed(q[Len(q)]) <= n
    PROVE  SpansOf(q, n)
<1> DEFINE p == Len(q)
<1>1. /\ p \in Nat /\ p > 0 /\ Len(fr) \in Nat /\ p <= Len(fr)
      /\ DOMAIN q = 1 .. p /\ DOMAIN fr = 1 .. Len(fr)
  OBVIOUS
<1>2. \A i \in 1 .. p : q[i] \in FrameSet
  OBVIOUS
<1>a. q[p].h = fr[p].h /\ q[p].h + Owed(q[p]) <= n /\ \A i \in 1 .. p - 1 : q[i] = fr[i]
  OBVIOUS
<1> HIDE DEF p
<1>3. \A i \in 1 .. p : q[i].h \in Nat /\ Owed(q[i]) \in Nat
  BY <1>2, OwedNat
<1>4. q[p].h <= n
  BY <1>1, <1>3, <1>a
<1>5. \A i, k \in 1 .. p : i < k => q[i].h + Owed(q[i]) <= q[k].h
  <2>1. \A i, k \in 1 .. Len(fr) : i < k => fr[i].h + Owed(fr[i]) <= fr[k].h
    BY <1>1 DEF SpansOf
  <2> SUFFICES ASSUME NEW i \in 1 .. p, NEW k \in 1 .. p, i < k
               PROVE  q[i].h + Owed(q[i]) <= q[k].h
    OBVIOUS
  <2>2. i \in 1 .. p - 1 /\ i \in 1 .. Len(fr) /\ k \in 1 .. Len(fr)
    BY <1>1
  <2>3. q[i] = fr[i] /\ q[k].h = fr[k].h
    BY <1>1, <1>a, <2>2
  <2>4. QED
    BY <2>1, <2>2, <2>3
<1>6. \A i \in 1 .. p : q[i].h + Owed(q[i]) <= n
  <2> SUFFICES ASSUME NEW i \in 1 .. p, i # p PROVE q[i].h + Owed(q[i]) <= n
    BY <1>a
  <2>1. i < p /\ p \in 1 .. p
    BY <1>1
  <2>2. q[i].h + Owed(q[i]) <= q[p].h
    BY <1>5, <2>1
  <2>3. QED
    BY SMTT(60), <1>1, <1>3, <1>4, <2>1, <2>2
<1>7. QED
  BY <1>1, <1>5, <1>6 DEF SpansOf

LEMMA ShapePrefix ==
    ASSUME NEW fr \in Seq(FrameSet), NEW q \in Seq(FrameSet), ShapeOf(fr), q # <<>>,
           Len(q) <= Len(fr), \A i \in 1 .. Len(q) - 1 : q[i] = fr[i],
           (q[Len(q)].fn \in Fun) <=> (q[Len(q)].at = "run"), q[Len(q)].at # "wait"
    PROVE  ShapeOf(q)
<1>1. /\ DOMAIN q = 1 .. Len(q) /\ DOMAIN fr = 1 .. Len(fr)
      /\ \A k \in 1 .. Len(q) : k \in 1 .. Len(q) - 1 \/ k = Len(q)
      /\ \A k \in 1 .. Len(q) - 1 : k \in 1 .. Len(fr) /\ k < Len(fr) /\ k < Len(q)
      /\ \A k \in 1 .. Len(q) : k < Len(q) => k \in 1 .. Len(q) - 1
  OBVIOUS
<1>2. QED
  BY <1>1 DEF ShapeOf

BufferSet == [level : Nat, at : Nat]

\* The jump buffers stay when the frames that wait do.
LEMMA BuffersKept ==
    ASSUME NEW fr \in Seq(FrameSet), NEW q \in Seq(FrameSet), NEW js \in Seq(BufferSet),
           BuffersOf(fr, js), fr # <<>>, q # <<>>,
           \A k \in DOMAIN q : q[k].at = "wait" => k \in DOMAIN fr /\ fr[k].at = "wait",
           \A k \in DOMAIN fr : fr[k].at = "wait" => k \in DOMAIN q /\ q[k].at = "wait",
           \A k \in DOMAIN fr : fr[k].at = "wait" => k < Len(q)
    PROVE  BuffersOf(q, js)
<1>1. /\ DOMAIN js = 1 .. Len(js) /\ DOMAIN q = 1 .. Len(q) /\ Len(q) > 0
      /\ js # <<>> /\ 1 \in DOMAIN js
  BY DEF BuffersOf
<1>2. \A i \in DOMAIN js : i > 1 => js[i].at \in DOMAIN q /\ q[js[i].at].at = "wait"
                                    /\ js[i].at < Len(q)
  BY DEF BuffersOf
<1>3. js[1].at < Len(q)
  BY <1>1 DEF BuffersOf
<1>4. \A i \in DOMAIN js : js[i].level = i /\ js[i].at < Len(q)
  BY <1>1, <1>2, <1>3 DEF BuffersOf
<1>5. \A k \in DOMAIN q : q[k].at = "wait" => \E i \in DOMAIN js : js[i].at = k
  BY DEF BuffersOf
<1>6. QED
  BY <1>1, <1>2, <1>4, <1>5 DEF BuffersOf

\* The last buffer goes when the chain is cut back to the frame that waits at it.
LEMMA BuffersLeft ==
    ASSUME NEW fr \in Seq(FrameSet), NEW q \in Seq(FrameSet), NEW js \in Seq(BufferSet),
           BuffersOf(fr, js), Len(js) > 1, Len(q) = js[Len(js)].at,
           \A i \in 1 .. Len(q) - 1 : q[i] = fr[i], q[Len(q)].at # "wait"
    PROVE  BuffersOf(q, Front(js))
<1> DEFINE m == Len(js)
           b == Front(js)
<1>1. /\ m \in Nat /\ m > 1 /\ DOMAIN js = 1 .. m
      /\ b \in Seq(BufferSet) /\ DOMAIN b = 1 .. m - 1 /\ Len(b) = m - 1
      /\ \A i \in 1 .. m - 1 : b[i] = js[i]
  BY DEF Front
<1>a. Len(q) = js[m].at /\ m \in DOMAIN js /\ \A i \in DOMAIN js : js[i] \in BufferSet
  BY <1>1
<1> HIDE DEF m, b
<1>b. /\ \A i \in DOMAIN js : js[i].level = i /\ js[i].at \in Nat
      /\ \A i, k \in DOMAIN js : i < k => js[i].at < js[k].at
  BY <1>a DEF BuffersOf, BufferSet
<1>c. \A i \in 1 .. m - 1 : i \in DOMAIN js /\ i < m
  BY <1>1
<1>2. Len(q) \in DOMAIN fr /\ Len(q) \in Nat /\ Len(q) > 0
  <2>1. \A i \in DOMAIN js : i > 1 => js[i].at \in DOMAIN fr
    BY DEF BuffersOf
  <2>2. js[m].at \in DOMAIN fr
    BY <1>1, <1>a, <2>1
  <2>3. QED
    BY <1>a, <2>2
<1>3. \A i \in 1 .. m - 1 : js[i].at < Len(q) /\ js[i].level = i
  BY <1>a, <1>b, <1>c
<1>4. \A i \in 1 .. m - 1 : js[i].at \in Nat
  BY <1>b, <1>c
<1>5. /\ DOMAIN q = 1 .. Len(q) /\ DOMAIN fr = 1 .. Len(fr) /\ q # <<>> /\ b # <<>>
      /\ b[1].at = 0
  BY <1>1, <1>2 DEF BuffersOf
<1>6. \A i \in 1 .. m - 1 : i > 1 => b[i].at \in DOMAIN q /\ q[b[i].at].at = "wait"
  <2> SUFFICES ASSUME NEW i \in 1 .. m - 1, i > 1
               PROVE  b[i].at \in DOMAIN q /\ q[b[i].at].at = "wait"
    OBVIOUS
  <2>1. js[i].at \in DOMAIN fr /\ fr[js[i].at].at = "wait"
    BY <1>c DEF BuffersOf
  <2>2. js[i].at \in 1 .. Len(q) - 1
    BY <1>2, <1>3, <1>4, <1>5, <2>1
  <2>3. QED
    BY <1>1, <1>5, <2>1, <2>2
<1>7. \A i, k \in 1 .. m - 1 : i < k => b[i].at < b[k].at
  BY <1>1, <1>b, <1>c
<1>8. \A k \in DOMAIN q : q[k].at = "wait" => \E i \in DOMAIN b : b[i].at = k
  <2> SUFFICES ASSUME NEW k \in DOMAIN q, q[k].at = "wait"
               PROVE  \E i \in DOMAIN b : b[i].at = k
    OBVIOUS
  <2>1. k \in 1 .. Len(q) - 1
    BY <1>2, <1>5
  <2>2. k \in DOMAIN fr /\ fr[k].at = "wait"
    BY <1>2, <1>5, <2>1
  <2>3. PICK i \in DOMAIN js : js[i].at = k
    BY <2>2 DEF BuffersOf
  <2>4. i # m
    BY <1>2, <1>a, <2>1, <2>3
  <2>5. i \in 1 .. m - 1
    BY <1>1, <2>4
  <2>6. QED
    BY <1>1, <2>3, <2>5
<1>9. QED
  <2>1. \A i \in DOMAIN b : b[i].level = i /\ b[i].at < Len(q)
    BY <1>1, <1>3
  <2>2. QED
    BY <1>1, <1>5, <1>6, <1>7, <1>8, <2>1 DEF BuffersOf, b
LEMMA OnlyBuffer ==
    ASSUME NEW fr \in Seq(FrameSet), NEW js \in Seq(BufferSet), BuffersOf(fr, js), Len(fr) = 1
    PROVE  Front(js) = <<>>
<1>1. \A i \in DOMAIN js : js[i] \in BufferSet
  OBVIOUS
<1>2. \A i \in DOMAIN js : js[i].at = 0
  <2>1. \A i \in DOMAIN js : js[i].at \in Nat
    BY <1>1 DEF BufferSet
  <2>2. \A i \in DOMAIN js : js[i].at < 1
    BY DEF BuffersOf
  <2>3. QED
    BY <2>1, <2>2
<1>3. \A i, k \in DOMAIN js : ~(i < k)
  <2>1. \A i, k \in DOMAIN js : i < k => js[i].at < js[k].at
    BY DEF BuffersOf
  <2>2. QED
    BY <1>2, <2>1
<1>4. js # <<>>
  BY DEF BuffersOf
<1>5. Len(js) \in Nat /\ Len(js) >= 1 /\ DOMAIN js = 1 .. Len(js)
  BY <1>4
<1>6. Len(js) = 1
  BY <1>3, <1>5
<1>7. QED
  BY <1>6 DEF Front

\* The frame below the last one, when it is a pcall, is where the last buffer is.
LEMMA LastWaits ==
    ASSUME NEW fr \in Seq(FrameSet), NEW js \in Seq(BufferSet), BuffersOf(fr, js),
           Len(fr) > 1, fr[Len(fr) - 1].at = "wait"
    PROVE  Len(js) > 1 /\ js[Len(js)].at = Len(fr) - 1
<1>1. \A i \in DOMAIN js : js[i] \in BufferSet
  OBVIOUS
<1>2. \A i \in DOMAIN js : js[i].at \in Nat /\ js[i].at < Len(fr)
  BY <1>1 DEF BufferSet, BuffersOf
<1>3. Len(fr) \in Nat /\ Len(fr) - 1 \in DOMAIN fr
  OBVIOUS
<1>4. PICK i \in DOMAIN js : js[i].at = Len(fr) - 1
  BY <1>3 DEF BuffersOf
<1>5. DOMAIN js = 1 .. Len(js) /\ Len(js) \in Nat /\ Len(js) \in DOMAIN js /\ 1 \in DOMAIN js
  BY <1>4
<1>6. i # 1
  <2>1. js[1].at = 0
    BY <1>5 DEF BuffersOf
  <2>2. QED
    BY <1>4, <2>1
<1>7. i = Len(js)
  <2>1. i < Len(js) => js[i].at < js[Len(js)].at
    BY <1>4, <1>5 DEF BuffersOf
  <2>2. QED
    BY <1>2, <1>3, <1>4, <1>5, <2>1
<1>8. QED
  BY <1>4, <1>5, <1>6, <1>7

LEMMA AdjustedFacts ==
    ASSUME NEW from \in Seq(Value), NEW rv \in {0, 1}, NEW aret \in {0, 1}, rv <= Len(from)
    PROVE  /\ Adjusted(from, rv, aret) \in Seq(Value)
           /\ Len(Adjusted(from, rv, aret)) = Len(from) - rv + aret
<1>1. CASE aret < rv
  <2>1. rv = 1 /\ aret = 0 /\ Len(from) - 1 \in Nat /\ Len(from) - 1 <= Len(from)
    BY <1>1
  <2>2. Adjusted(from, rv, aret) = SubSeq(from, 1, Len(from) - 1)
    BY <2>1 DEF Adjusted
  <2>3. /\ SubSeq(from, 1, Len(from) - 1) \in Seq(Value)
        /\ Len(SubSeq(from, 1, Len(from) - 1)) = Len(from) - 1
    BY <2>1, Prefix
  <2>4. QED
    BY SMTT(60), <2>1, <2>2, <2>3
<1>2. CASE ~(aret < rv)
  <2>1. aret - rv \in Nat /\ Nil \in Value
    BY <1>2 DEF Value
  <2>2. [i \in 1 .. aret - rv |-> Nil] \in Seq(Value) /\ Len([i \in 1 .. aret - rv |-> Nil]) = aret - rv
    BY <2>1
  <2> DEFINE nils == [i \in 1 .. aret - rv |-> Nil]
  <2>3. Adjusted(from, rv, aret) = from \o nils
    BY <1>2 DEF Adjusted
  <2> HIDE DEF nils
  <2>4. nils \in Seq(Value) /\ Len(nils) = aret - rv
    BY <2>2 DEF nils
  <2>5. from \o nils \in Seq(Value) /\ Len(from \o nils) = Len(from) + Len(nils)
    BY <2>4, Joining
  <2>6. QED
    BY <2>3, <2>4, <2>5
<1>3. QED
  BY <1>1, <1>2
CNext == /\ TypeNext /\ FrameNext /\ jpts' \in Seq(BufferSet) /\ BuffersOf(frames', jpts')
         /\ dirty' \in BOOLEAN

LEMMA NextInv == CNext => CInv'
  BY DEF CNext, CInv, TypeOK, TypeNext, FrameNext, BufferSet

\* Facts of CInv in the shape the steps use them.
LEMMA RunningFacts ==
    ASSUME CInv, frames # <<>>
    PROVE  /\ Len(frames) \in Nat /\ Len(frames) > 0 /\ DOMAIN frames = 1 .. Len(frames)
           /\ Running = frames[Len(frames)] /\ Running \in FrameSet
           /\ frames \in Seq(FrameSet) /\ jpts \in Seq(BufferSet) /\ stk \in Seq(Value)
           /\ Running.h \in Nat /\ Running.depth \in Nat /\ Running.h + Owed(Running) <= Len(stk)
           /\ Running.at # "wait" /\ ((Running.fn \in Fun) <=> (Running.at = "run"))
<1>1. frames \in Seq(FrameSet) /\ jpts \in Seq(BufferSet) /\ stk \in Seq(Value)
  BY DEF CInv, TypeOK, BufferSet
<1>2. Len(frames) \in Nat /\ Len(frames) > 0 /\ DOMAIN frames = 1 .. Len(frames)
  BY <1>1
<1>3. Running = frames[Len(frames)] /\ Running \in FrameSet
  BY <1>1, <1>2 DEF Running, Last
<1>4. Running.h + Owed(Running) <= Len(stk)
  BY <1>2, <1>3 DEF CInv, SpansOf
<1>5. Running.at # "wait" /\ ((Running.fn \in Fun) <=> (Running.at = "run"))
  BY <1>2, <1>3 DEF CInv, ShapeOf
<1>6. QED
  BY <1>1, <1>2, <1>3, <1>4, <1>5, OwedNat

LEMMA FrontFacts ==
    ASSUME CInv, frames # <<>>
    PROVE  /\ Front(frames) \in Seq(FrameSet) /\ Len(Front(frames)) = Len(frames) - 1
           /\ \A i \in 1 .. Len(frames) - 1 : Front(frames)[i] = frames[i]
           /\ Front(frames) # <<>> => /\ Len(frames) - 1 \in 1 .. Len(frames)
                                      /\ Last(Front(frames)) = frames[Len(frames) - 1]
                                      /\ frames[Len(frames) - 1] \in FrameSet
                                      /\ Lower(frames[Len(frames) - 1])
                                      /\ frames[Len(frames) - 1].h <= Running.h
                                      /\ frames[Len(frames) - 1].h
                                            + Owed(frames[Len(frames) - 1]) <= Running.h
<1>1. /\ Len(frames) \in Nat /\ Len(frames) > 0 /\ DOMAIN frames = 1 .. Len(frames)
      /\ frames \in Seq(FrameSet) /\ Running = frames[Len(frames)]
  BY RunningFacts
<1>2. /\ Front(frames) \in Seq(FrameSet) /\ Len(Front(frames)) = Len(frames) - 1
      /\ \A i \in 1 .. Len(frames) - 1 : Front(frames)[i] = frames[i]
  <2>1. Len(frames) - 1 \in Nat /\ Len(frames) - 1 <= Len(frames)
    BY <1>1
  <2>2. QED
    BY <1>1, <2>1, Prefix DEF Front
<1>3. ASSUME Front(frames) # <<>>
      PROVE  /\ Len(frames) - 1 \in 1 .. Len(frames) - 1
             /\ Last(Front(frames)) = frames[Len(frames) - 1]
  <2>1. Len(Front(frames)) # 0
    BY <1>2, <1>3
  <2>2. Len(frames) - 1 \in 1 .. Len(frames) - 1
    BY <1>1, <1>2, <2>1
  <2>3. QED
    BY <1>2, <2>2 DEF Last
<1>4. ASSUME Len(frames) - 1 \in 1 .. Len(frames) - 1
      PROVE  /\ Len(frames) - 1 \in 1 .. Len(frames)
             /\ frames[Len(frames) - 1] \in FrameSet /\ Lower(frames[Len(frames) - 1])
             /\ frames[Len(frames) - 1].h + Owed(frames[Len(frames) - 1]) <= Running.h
             /\ frames[Len(frames) - 1].h <= Running.h
  <2>1. Len(frames) - 1 \in DOMAIN frames /\ Len(frames) - 1 < Len(frames)
        /\ Len(frames) \in DOMAIN frames
    BY <1>1, <1>4
  <2>2. frames[Len(frames) - 1] \in FrameSet
    BY <1>1, <2>1
  <2>3. Lower(frames[Len(frames) - 1])
    BY <2>1 DEF CInv, ShapeOf
  <2>4. frames[Len(frames) - 1].h + Owed(frames[Len(frames) - 1]) <= Running.h
    BY <1>1, <2>1 DEF CInv, SpansOf
  <2>5. Running.h \in Nat
    BY RunningFacts
  <2>6. frames[Len(frames) - 1].h <= Running.h
    BY <2>2, <2>4, <2>5, OwedNat
  <2>7. QED
    BY <1>1, <2>1, <2>2, <2>3, <2>4, <2>6
<1>5. QED
  BY <1>2, <1>3, <1>4
LEMMA Leaving ==
    ASSUME CInv, frames # <<>>, NEW rv \in {0, 1}, NEW from \in Seq(Value),
           Len(from) <= MaxStack, Running.h + rv <= Len(from), Leave(rv, from),
           loc' = loc, dirty' \in BOOLEAN
    PROVE  CNext
<1> DEFINE rest == Front(frames)
           n == Len(frames)
<1>1. /\ n \in Nat /\ n > 0 /\ DOMAIN frames = 1 .. n /\ frames \in Seq(FrameSet)
      /\ jpts \in Seq(BufferSet) /\ Running \in FrameSet /\ Running.h \in Nat
      /\ Running = frames[n]
  BY RunningFacts
<1>2. Len(from) \in Nat /\ rv <= Len(from) /\ Running.h <= Len(from) - rv
  BY <1>1
<1>3. Running.aret \in {0, 1} /\ Running.fn \in Callable
  BY <1>1 DEF FrameSet
<1>4. /\ loc' \in [1 .. MaxLocal -> Value]
      /\ argv' \in [Callable -> Seq(Value)] /\ mixed' \subseteq Callable
  <2>1. argv \in [Callable -> Seq(Value)] /\ <<>> \in Seq(Value) /\ mixed \subseteq Callable
        /\ loc \in [1 .. MaxLocal -> Value]
    BY DEF CInv, TypeOK
  <2>2. argv' = [argv EXCEPT ![Running.fn] = <<>>]
    BY DEF Leave, Emptied
  <2>3. mixed' \subseteq mixed
    BY DEF Leave
  <2>4. QED
    BY <2>1, <2>2, <2>3
<1>5. rest \in Seq(FrameSet) /\ Len(rest) = n - 1 /\ \A i \in 1 .. n - 1 : rest[i] = frames[i]
  BY FrontFacts
<1>6. ShapeOf(frames) /\ SpansOf(frames, Len(stk)) /\ BuffersOf(frames, jpts)
  BY DEF CInv
<1>7. CASE /\ rest = <<>> /\ stk' = Adjusted(from, rv, 0) /\ frames' = <<>> /\ jpts' = Left
  <2>1. stk' \in Seq(Value) /\ Len(stk') <= MaxStack
    <3>1. 0 \in {0, 1} /\ MaxStack \in Nat
      BY StackSize
    <3>2. /\ Adjusted(from, rv, 0) \in Seq(Value)
          /\ Len(Adjusted(from, rv, 0)) = Len(from) - rv + 0
      BY <1>2, <3>1, AdjustedFacts
    <3>3. Len(from) - rv + 0 <= MaxStack
      BY <1>2, <3>1
    <3>4. QED
      BY <1>7, <3>2, <3>3
  <2>2. TypeNext
    BY <1>4, <1>7, <2>1 DEF TypeNext
  <2>3. jpts' = <<>>
    BY <1>1, <1>5, <1>6, <1>7, OnlyBuffer DEF Left
  <2>4. FrameNext /\ BuffersOf(frames', jpts')
    BY <1>7, <2>3 DEF FrameNext, ShapeOf, SpansOf, BuffersOf
  <2>5. QED
    BY <2>2, <2>3, <2>4 DEF CNext
<1>a. \/ /\ rest = <<>> /\ stk' = Adjusted(from, rv, 0) /\ frames' = <<>> /\ jpts' = Left
      \/ /\ rest # <<>> /\ Last(rest).fn = PCall /\ stk' = from /\ jpts' = Left
         /\ frames' = WithDepth(WithAt(rest, "ok"), rv)
      \/ /\ rest # <<>> /\ Last(rest).fn \in Fun
         /\ Len(Adjusted(from, rv, Running.aret)) <= MaxStack
         /\ stk' = Adjusted(from, rv, Running.aret) /\ jpts' = jpts
         /\ frames' = WithDepth(rest, Last(rest).depth + Running.aret)
  BY DEF Leave
<1>8. ASSUME rest # <<>>
      PROVE  /\ n - 1 \in 1 .. n /\ n - 1 > 0 /\ Last(rest) = frames[n - 1]
             /\ Last(rest) \in FrameSet /\ Lower(Last(rest))
             /\ Last(rest).h + Owed(Last(rest)) <= Running.h /\ Last(rest).h <= Running.h
             /\ Last(rest).h \in Nat /\ Last(rest).depth \in Nat
             /\ rest[n - 1] = Last(rest)
  <2>1. /\ n - 1 \in 1 .. n /\ Last(rest) = frames[n - 1] /\ frames[n - 1] \in FrameSet
        /\ Lower(frames[n - 1]) /\ frames[n - 1].h <= Running.h
        /\ frames[n - 1].h + Owed(frames[n - 1]) <= Running.h
    BY <1>8, FrontFacts
  <2>2. frames[n - 1].h \in Nat /\ frames[n - 1].depth \in Nat
    BY <2>1, OwedNat
  <2>3. n - 1 > 0
    BY <1>1, <2>1
  <2>4. n - 1 \in 1 .. n - 1
    BY <1>1, <2>3
  <2> HIDE DEF rest
  <2>5. rest[n - 1] = frames[n - 1]
    BY <1>5, <2>4
  <2>6. QED
    BY <2>1, <2>2, <2>3, <2>5
<1> HIDE DEF rest
<1>9. CASE /\ rest # <<>> /\ Last(rest).fn = PCall /\ stk' = from /\ jpts' = Left
           /\ frames' = WithDepth(WithAt(rest, "ok"), rv)
  <2> DEFINE q == WithDepth(WithAt(rest, "ok"), rv)
  <2>1. /\ q \in Seq(FrameSet) /\ Len(q) = n - 1 /\ \A i \in 1 .. n - 2 : q[i] = frames[i]
        /\ q[n - 1].fn = PCall /\ q[n - 1].h = Last(rest).h
        /\ q[n - 1].at = "ok" /\ q[n - 1].depth = rv /\ q # <<>>
    <3> DEFINE w == WithAt(rest, "ok")
    <3>0. /\ w \in Seq(FrameSet) /\ Len(w) = Len(rest)
          /\ \A i \in 1 .. Len(rest) - 1 : w[i] = rest[i]
          /\ Fields(w[Len(rest)], rest[Len(rest)]) /\ w[Len(rest)].at = "ok"
      BY <1>5, <1>9, AtFacts
    <3>a. Len(rest) - 1 = n - 2 /\ \A i \in 1 .. n - 2 : rest[i] = frames[i]
      BY <1>1, <1>5
    <3> HIDE DEF w
    <3>1. /\ w \in Seq(FrameSet) /\ Len(w) = n - 1 /\ \A i \in 1 .. n - 2 : w[i] = frames[i]
          /\ w[n - 1].fn = PCall /\ w[n - 1].h = Last(rest).h /\ w[n - 1].at = "ok"
      BY <1>5, <1>8, <1>9, <3>0, <3>a DEF Fields
    <3>2. w # <<>> /\ n - 1 \in Nat /\ n - 1 > 0 /\ rv \in Nat /\ Len(w) - 1 = n - 2
      BY <1>8, <1>9, <3>1
    <3>3. /\ WithDepth(w, rv) \in Seq(FrameSet) /\ Len(WithDepth(w, rv)) = Len(w)
          /\ \A i \in 1 .. Len(w) - 1 : WithDepth(w, rv)[i] = w[i]
          /\ Fields(WithDepth(w, rv)[Len(w)], w[Len(w)])
          /\ WithDepth(w, rv)[Len(w)].at = w[Len(w)].at
          /\ WithDepth(w, rv)[Len(w)].depth = rv
      BY <3>1, <3>2, DepthFacts
    <3>4. QED
      BY <3>1, <3>2, <3>3 DEF w, Fields
  <2> HIDE DEF q
  <2>2. frames' = q /\ stk' = from /\ jpts' = Front(jpts)
    BY <1>9 DEF q, Left
  <2>3. q[n - 1].at # "wait" /\ ((q[n - 1].fn \in Fun) <=> (q[n - 1].at = "run"))
        /\ Owed(q[n - 1]) = rv
    BY <2>1, CallAssumption DEF Owed
  <2>4. ShapeOf(q)
    <3>1. Len(q) <= Len(frames) /\ Len(q) - 1 = n - 2
      BY <1>1, <2>1
    <3>2. QED
      BY <1>1, <1>6, <2>1, <2>3, <3>1, ShapePrefix
  <2>5. SpansOf(q, Len(from))
    <3>1. q[n - 1].h = frames[n - 1].h /\ q[n - 1].h + Owed(q[n - 1]) <= Len(from)
          /\ Len(q) <= Len(frames) /\ Len(q) - 1 = n - 2
      BY SMTT(60), <1>1, <1>2, <1>8, <1>9, <2>1, <2>3
    <3>2. QED
      BY <1>1, <1>2, <1>6, <2>1, <3>1, SpansPrefix
  <2>6. Len(jpts) > 1 /\ jpts[Len(jpts)].at = n - 1
    <3>1. frames[n - 1].at = "wait"
      BY <1>8, <1>9, CallAssumption DEF Lower
    <3>2. Len(frames) > 1
      BY <1>1, <1>8, <1>9
    <3>3. QED
      BY <1>1, <1>6, <3>1, <3>2, LastWaits
  <2>7. BuffersOf(q, Front(jpts)) /\ Front(jpts) \in Seq(BufferSet)
    <3>1. Len(q) = jpts[Len(jpts)].at /\ Len(q) - 1 = n - 2
      BY <1>1, <2>1, <2>6
    <3>2. BuffersOf(q, Front(jpts))
      BY <1>1, <1>6, <2>1, <2>3, <2>6, <3>1, BuffersLeft
    <3>3. Len(jpts) - 1 \in Nat /\ Len(jpts) - 1 <= Len(jpts)
      BY <1>1, <2>6
    <3>4. Front(jpts) \in Seq(BufferSet)
      BY <1>1, <3>3, Prefix DEF Front
    <3>5. QED
      BY <3>2, <3>4
  <2>8. QED
    BY <1>4, <2>1, <2>2, <2>4, <2>5, <2>7 DEF CNext, TypeNext, FrameNext
<1>10. CASE /\ rest # <<>> /\ Last(rest).fn \in Fun
            /\ Len(Adjusted(from, rv, Running.aret)) <= MaxStack
            /\ stk' = Adjusted(from, rv, Running.aret) /\ jpts' = jpts
            /\ frames' = WithDepth(rest, Last(rest).depth + Running.aret)
  <2> DEFINE a == Running.aret
             q == WithDepth(rest, Last(rest).depth + a)
  <2>1. a \in Nat /\ a \in {0, 1} /\ Last(rest).depth + a \in Nat
    BY SMTT(60), <1>3, <1>8, <1>10
  <2>2. /\ stk' \in Seq(Value) /\ Len(stk') = Len(from) - rv + a /\ Len(stk') <= MaxStack
    BY <1>2, <1>10, <2>1, AdjustedFacts
  <2> HIDE DEF a
  <2>3. /\ q \in Seq(FrameSet) /\ Len(q) = n - 1 /\ \A i \in 1 .. n - 2 : q[i] = frames[i]
        /\ q[n - 1].fn = Last(rest).fn /\ q[n - 1].h = Last(rest).h
        /\ q[n - 1].at = Last(rest).at /\ q[n - 1].depth = Last(rest).depth + a /\ q # <<>>
    <3>1. Len(rest) - 1 = n - 2 /\ \A i \in 1 .. n - 2 : rest[i] = frames[i]
      BY SMTT(60), <1>1, <1>5
    <3>2. /\ q \in Seq(FrameSet) /\ Len(q) = Len(rest)
          /\ \A i \in 1 .. Len(rest) - 1 : q[i] = rest[i]
          /\ Fields(q[Len(rest)], rest[Len(rest)])
          /\ q[Len(rest)].at = rest[Len(rest)].at
          /\ q[Len(rest)].depth = Last(rest).depth + a
      BY <1>5, <1>10, <2>1, DepthFacts
    <3> HIDE DEF q
    <3>3. QED
      BY SMTT(60), <1>5, <1>8, <1>10, <3>1, <3>2 DEF Fields
  <2>4. frames' = q
    BY <1>10 DEF a
  <2> HIDE DEF q
  <2>5. frames[n - 1].at = "run" /\ q[n - 1].at = "run" /\ q[n - 1].fn \in Fun
    <3>1. n - 1 \in DOMAIN frames
      BY <1>1, <1>8, <1>10
    <3>2. QED
      BY <1>6, <1>8, <1>10, <2>3, <3>1 DEF ShapeOf
  <2>6. ShapeOf(q)
    <3>1. Len(q) <= Len(frames) /\ Len(q) - 1 = n - 2
      BY <1>1, <2>3
    <3>2. QED
      BY <1>1, <1>6, <2>3, <2>5, <3>1, ShapePrefix
  <2>7. SpansOf(q, Len(stk'))
    <3>1. Owed(q[n - 1]) = Last(rest).depth + a /\ Owed(Last(rest)) = Last(rest).depth
      BY <1>8, <1>10, <2>3, <2>5 DEF Owed
    <3>a. Last(rest).h + Last(rest).depth <= Len(from) - rv
      BY SMTT(60), <1>1, <1>2, <1>8, <1>10, <3>1
    <3>b. Last(rest).h + (Last(rest).depth + a) <= Len(from) - rv + a
      BY SMTT(60), <1>2, <1>8, <1>10, <2>1, <3>a
    <3>2. q[n - 1].h + Owed(q[n - 1]) <= Len(stk')
      BY <2>2, <2>3, <3>1, <3>b
    <3>3. q[n - 1].h = frames[n - 1].h /\ Len(q) <= Len(frames) /\ Len(q) - 1 = n - 2
          /\ Len(stk') \in Nat
      BY <1>1, <1>8, <1>10, <2>2, <2>3
    <3> DEFINE height == Len(stk')
    <3> HIDE DEF height
    <3>4. SpansOf(q, height)
      BY <1>1, <1>6, <2>3, <3>2, <3>3, SpansPrefix DEF height
    <3>5. QED
      BY <3>4 DEF height
  <2>8. BuffersOf(q, jpts)
    <3>1. \A k \in DOMAIN q : k \in 1 .. n - 2 \/ k = n - 1
      BY <1>1, <2>3
    <3>a. \A k \in 1 .. n - 2 : k \in 1 .. n /\ k \in 1 .. n - 1 /\ k < n - 1
      BY <1>1
    <3>2. \A k \in DOMAIN q : q[k].at = "wait" => k \in DOMAIN frames /\ frames[k].at = "wait"
      BY <1>1, <2>3, <2>5, <3>1, <3>a
    <3>3. \A k \in DOMAIN frames : frames[k].at = "wait" => k < n /\ k # n - 1
      BY <1>6, <2>5 DEF ShapeOf
    <3>4. \A k \in DOMAIN frames : frames[k].at = "wait" => k \in 1 .. n - 2
      BY <1>1, <3>3
    <3>5. \A k \in DOMAIN frames : frames[k].at = "wait" =>
             k \in DOMAIN q /\ q[k].at = "wait" /\ k < Len(q)
      <4>1. DOMAIN q = 1 .. n - 1 /\ Len(q) = n - 1
        BY <2>3
      <4>2. QED
        BY <2>3, <3>4, <3>a, <4>1
    <3>6. QED
      BY <1>1, <1>6, <2>3, <3>2, <3>5, BuffersKept
  <2>9. TypeNext
    BY <1>4, <2>2, <2>3, <2>4 DEF TypeNext
  <2>10. QED
    BY <1>1, <1>10, <2>4, <2>6, <2>7, <2>8, <2>9 DEF CNext, FrameNext
<1>11. QED
  BY <1>7, <1>9, <1>10, <1>a
-----------------------------------------------------------------------------
(* Every action keeps the invariant *)

LEMMA InitCInv == Init => CInv
<1> SUFFICES ASSUME Init PROVE CInv  OBVIOUS
<1>1. /\ stk = <<>> /\ frames = <<>> /\ jpts = <<>>
      /\ loc = [i \in 1 .. MaxLocal |-> Nil] /\ argv = [f \in Callable |-> <<>>]
      /\ mixed = {} /\ dirty = FALSE
  BY DEF Init
<1>2. Nil \in Value
  BY DEF Value
<1>3. TypeOK
  <2>1. stk \in Seq(Value) /\ frames \in Seq(FrameSet) /\ jpts \in Seq([level : Nat, at : Nat])
        /\ Len(stk) = 0
    BY <1>1
  <2>2. loc \in [1 .. MaxLocal -> Value]
    BY <1>1, <1>2
  <2>3. argv \in [Callable -> Seq(Value)]
    BY <1>1
  <2>4. Len(stk) <= MaxStack /\ mixed \subseteq Callable
    BY <1>1, <2>1, StackSize
  <2>5. dirty \in BOOLEAN
    BY <1>1, Zenon
  <2>6. QED
    BY <2>1, <2>2, <2>3, <2>4, <2>5 DEF TypeOK
<1>4. QED
  BY <1>1, <1>3 DEF CInv, ShapeOf, SpansOf, BuffersOf

LEMMA HostCallInv ==
    ASSUME CInv, NEW f \in Fun, NEW n \in Nat, NEW args \in [1 .. n -> Data], HostCall(f, args)
    PROVE  CNext
<1>1. /\ frames = <<>> /\ Link(f, args, <<>>, stk, 0) /\ dirty' = FALSE
      /\ jpts' = Append(jpts, [level |-> 1, at |-> 0])
  BY DEF HostCall, Entered
<1>2. args \in Seq(Value) /\ f \in Callable /\ <<>> \in Seq(FrameSet)
  BY DEF Value, Callable
<1>3. stk \in Seq(Value) /\ Len(stk) <= MaxStack /\ TypeOK /\ jpts = <<>>
  BY <1>1 DEF CInv, TypeOK, BuffersOf
<1>4. Pending(<<>>, Len(stk))
  BY DEF Pending, SpansOf
<1>5. /\ TypeNext /\ FrameNext /\ Len(frames') = 0 + 1
      /\ frames'[0 + 1].at # "wait"
  <2>1. 0 \in {0, 1} /\ Len(<<>>) = 0
    OBVIOUS
  <2>2. /\ TypeNext /\ FrameNext /\ Len(frames') = Len(<<>>) + 1
        /\ frames'[Len(<<>>) + 1].at # "wait"
    BY <1>1, <1>2, <1>3, <1>4, <2>1, Linked
  <2>3. QED
    BY <2>1, <2>2
<1>6. /\ jpts' \in Seq(BufferSet) /\ Len(jpts') = 1 /\ jpts'[1] = [level |-> 1, at |-> 0]
  BY <1>1, <1>3 DEF BufferSet
<1>7. frames' \in Seq(FrameSet)
  BY <1>5 DEF TypeNext
<1>8. DOMAIN frames' = {1} /\ DOMAIN jpts' = {1} /\ frames' # <<>> /\ jpts' # <<>>
  <2>1. DOMAIN frames' = 1 .. Len(frames') /\ DOMAIN jpts' = 1 .. Len(jpts')
    BY <1>6, <1>7
  <2>2. 1 .. 1 = {1} /\ 0 + 1 = 1
    OBVIOUS
  <2>3. frames' # <<>> /\ jpts' # <<>>
    <3>1. Len(frames') = 1
      BY <1>5
    <3>2. Len(<<>>) = 0 /\ 1 # 0 /\ Len(jpts') = 1
      BY <1>6
    <3>3. QED
      BY <3>1, <3>2, Zenon
  <2>4. QED
    BY <1>5, <1>6, <2>1, <2>2, <2>3
<1>9. BuffersOf(frames', jpts')
  BY SMTT(60), <1>5, <1>6, <1>8 DEF BuffersOf
<1>10. QED
  BY <1>1, <1>5, <1>6, <1>9 DEF CNext

\* A compiled caller of which d operands are left.
LEMMA CallerPending ==
    ASSUME CInv, InScript, NEW d \in Nat, d <= Running.depth
    PROVE  /\ WithDepth(frames, d) \in Seq(FrameSet) /\ Len(WithDepth(frames, d)) = Len(frames)
           /\ \A i \in 1 .. Len(frames) : WithDepth(frames, d)[i].at = frames[i].at
           /\ ShapeOf(WithDepth(frames, d))
           /\ \A n \in Nat : Running.h + d <= n => /\ SpansOf(WithDepth(frames, d), n)
                                                  /\ Pending(WithDepth(frames, d), n)
<1> DEFINE q == WithDepth(frames, d)
           m == Len(frames)
<1>1. /\ m \in Nat /\ m > 0 /\ DOMAIN frames = 1 .. m /\ frames \in Seq(FrameSet)
      /\ Running = frames[m] /\ frames # <<>> /\ Running.fn \in Fun /\ Running.at = "run"
      /\ Running.h \in Nat
  BY RunningFacts DEF InScript
<1>2. /\ q \in Seq(FrameSet) /\ Len(q) = m /\ \A i \in 1 .. m - 1 : q[i] = frames[i]
      /\ q[m].fn = Running.fn /\ q[m].h = Running.h /\ q[m].at = "run" /\ q[m].depth = d
  BY <1>1, DepthFacts DEF Fields
<1> HIDE DEF q, m
<1>3. /\ q # <<>> /\ DOMAIN q = 1 .. m /\ m = Len(frames) /\ m <= m
      /\ \A i \in 1 .. m : i \in 1 .. m - 1 \/ i = m
  <2>1. DOMAIN q = 1 .. m /\ q # <<>>
    BY <1>1, <1>2
  <2>2. m = Len(frames)
    BY DEF m
  <2>3. m <= m /\ \A i \in 1 .. m : i \in 1 .. m - 1 \/ i = m
    BY SMTT(60), <1>1
  <2>4. QED
    BY <2>1, <2>2, <2>3
<1>4. \A i \in 1 .. m : q[i].at = frames[i].at
  BY <1>1, <1>2, <1>3
<1>5. ShapeOf(frames) /\ SpansOf(frames, Len(stk))
  BY SMTT(60) DEF CInv
<1>6. ShapeOf(q)
  BY ZenonT(60), <1>1, <1>2, <1>3, <1>5, ShapePrefix
<1>7. ASSUME NEW n \in Nat, Running.h + d <= n
      PROVE  SpansOf(q, n)
  <2>1. Owed(q[m]) = d
    BY <1>2 DEF Owed
  <2>2. QED
    BY <1>1, <1>2, <1>3, <1>5, <1>7, <2>1, SpansPrefix
<1>8. \A k \in DOMAIN q : Lower(q[k]) /\ ((q[k].fn \in Fun) <=> (q[k].at = "run"))
  <2>1. Lower(q[m])
    BY <1>1, <1>2 DEF Lower
  <2>2. \A k \in 1 .. m - 1 : Lower(frames[k])
    <3>1. \A k \in 1 .. m - 1 : k \in DOMAIN frames /\ k < Len(frames)
      <4>1. \A k \in 1 .. m - 1 : k \in 1 .. m /\ k < m
        BY SMTT(60), <1>1
      <4>2. DOMAIN frames = 1 .. m /\ m = Len(frames)
        BY ZenonT(60), <1>1, <1>3
      <4>3. QED
        BY <4>1, <4>2
    <3>2. QED
      BY <1>5, <3>1 DEF ShapeOf
  <2>3. \A k \in 1 .. m : Lower(q[k])
    BY <1>2, <1>3, <2>1, <2>2
  <2>4. QED
    BY <1>3, <1>6, <2>3 DEF ShapeOf
<1>9. QED
  BY <1>2, <1>3, <1>4, <1>6, <1>7, <1>8 DEF Pending, q, m

\* The buffers stay when the frames keep their places, or one is added.
LEMMA SamePlaces ==
    ASSUME CInv, frames # <<>>, frames' \in Seq(FrameSet), Len(frames) <= Len(frames'),
           \A i \in 1 .. Len(frames) : frames'[i].at = frames[i].at,
           \A i \in 1 .. Len(frames') : i > Len(frames) => frames'[i].at # "wait"
    PROVE  BuffersOf(frames', jpts)
<1> DEFINE q == frames'
<1>1. q \in Seq(FrameSet) /\ Len(frames) <= Len(q)
      /\ (\A i \in 1 .. Len(frames) : q[i].at = frames[i].at)
      /\ (\A i \in 1 .. Len(q) : i > Len(frames) => q[i].at # "wait")
  OBVIOUS
<1> HIDE DEF q
<1>2. /\ Len(frames) \in Nat /\ Len(frames) > 0 /\ DOMAIN frames = 1 .. Len(frames)
      /\ frames \in Seq(FrameSet) /\ jpts \in Seq(BufferSet)
      /\ BuffersOf(frames, jpts) /\ ShapeOf(frames)
  BY RunningFacts DEF CInv
<1>3. Len(q) \in Nat /\ DOMAIN q = 1 .. Len(q) /\ q # <<>>
  BY <1>1, <1>2
<1>4. \A k \in DOMAIN q : q[k].at = "wait" => k \in DOMAIN frames /\ frames[k].at = "wait"
  BY <1>1, <1>2, <1>3
<1>5. \A k \in DOMAIN frames : frames[k].at = "wait" => k \in DOMAIN q /\ q[k].at = "wait"
  BY <1>1, <1>2, <1>3
<1>6. \A k \in DOMAIN frames : frames[k].at = "wait" => k < Len(q)
  <2>1. \A k \in DOMAIN frames : frames[k].at = "wait" => k < Len(frames)
    BY <1>2 DEF ShapeOf
  <2>2. QED
    BY <1>1, <1>2, <1>3, <2>1
<1>7. BuffersOf(q, jpts)
  BY <1>1, <1>2, <1>3, <1>4, <1>5, <1>6, BuffersKept
<1>8. QED
  BY <1>7 DEF q
\* CNext of a step that leaves the jump buffers alone.
LEMMA QuietNext ==
    ASSUME CInv, TypeNext, FrameNext, BuffersOf(frames', jpts), UNCHANGED <<jpts, dirty>>
    PROVE  CNext
<1>1. jpts \in Seq(BufferSet) /\ dirty \in BOOLEAN
  BY DEF CInv, TypeOK, BufferSet
<1>2. dirty' \in BOOLEAN
  BY <1>1, Zenon
<1>3. QED
  BY <1>1, <1>2 DEF CNext

\* A call from compiled code with `taken' arguments, n operands of the caller gone.
LEMMA CallingInv ==
    ASSUME CInv, InScript, NEW f \in Callable, NEW taken \in Nat, NEW n \in Nat,
           taken <= n, n <= Running.depth, NEW aret \in {0, 1},
           NEW args \in Seq(Value),
           Link(f, args, WithDepth(frames, Running.depth - n), Popped(n), aret),
           UNCHANGED <<jpts, dirty>>
    PROVE  CNext
<1> DEFINE d == Running.depth - n
           caller == WithDepth(frames, d)
           below == Popped(n)
<1>1. /\ Len(frames) \in Nat /\ Len(frames) > 0 /\ frames \in Seq(FrameSet)
      /\ stk \in Seq(Value) /\ Running.h \in Nat /\ Running.depth \in Nat
      /\ Running.h + Owed(Running) <= Len(stk) /\ Running.at = "run" /\ frames # <<>>
  BY RunningFacts DEF InScript
<1>2. d \in Nat /\ d <= Running.depth /\ Owed(Running) = Running.depth /\ n <= Len(stk)
  BY <1>1 DEF Owed
<1>3. below \in Seq(Value) /\ Len(below) = Len(stk) - n
  BY SMTT(60), <1>1, <1>2, Prefix DEF Popped
<1>4. Len(below) \in Nat /\ Len(below) <= MaxStack /\ Running.h + d <= Len(below) /\ TypeOK
  <2>1. TypeOK /\ Len(stk) <= MaxStack
    BY DEF CInv, TypeOK
  <2>2. Len(below) \in Nat /\ Len(below) <= MaxStack
    BY <1>1, <1>2, <1>3, <2>1, StackSize
  <2>3. d = Running.depth - n /\ Running.h + Running.depth <= Len(stk)
    BY <1>1, <1>2
  <2>4. Running.h + d <= Len(below)
    BY SMTT(60), <1>1, <1>2, <1>3, <2>3
  <2>5. QED
    BY <2>1, <2>2, <2>4
<1> HIDE DEF d, below
<1>5. Link(f, args, caller, below, aret)
  BY DEF below, d
<1>6. /\ caller \in Seq(FrameSet) /\ Len(caller) = Len(frames) /\ Pending(caller, Len(below))
      /\ \A i \in 1 .. Len(frames) : caller[i].at = frames[i].at
  BY <1>2, <1>4, CallerPending
<1> HIDE DEF caller
<1>7. /\ TypeNext /\ FrameNext
      /\ Len(frames') = Len(caller) + 1
      /\ \A i \in 1 .. Len(caller) : frames'[i] = caller[i]
      /\ frames'[Len(caller) + 1].at # "wait"
  BY <1>3, <1>4, <1>5, <1>6, Linked
<1>8. BuffersOf(frames', jpts)
  <2>1. frames' \in Seq(FrameSet)
    BY <1>7 DEF TypeNext
  <2>2. Len(frames) <= Len(frames') /\ \A i \in 1 .. Len(frames) : frames'[i].at = frames[i].at
    BY SMTT(60), <1>1, <1>6, <1>7
  <2>3. \A i \in 1 .. Len(frames') : i > Len(frames) => i = Len(caller) + 1
    BY <1>1, <1>6, <1>7
  <2>4. QED
    BY <1>1, <1>7, <2>1, <2>2, <2>3, SamePlaces
<1>9. QED
  BY <1>7, <1>8, QuietNext

LEMMA CallInv ==
    ASSUME CInv, NEW argc \in Nat, NEW aret \in {0, 1}, Call(argc, aret)
    PROVE  CNext
<1> DEFINE f == stk[Len(stk) - argc]
<1>1. /\ InScript /\ Running.depth > argc /\ f \in Callable /\ UNCHANGED <<jpts, dirty>>
      /\ Link(f, Topmost(argc), WithDepth(frames, Running.depth - (argc + 1)),
              Popped(argc + 1), aret)
  BY DEF Call
<1>2. /\ Running.depth \in Nat /\ stk \in Seq(Value) /\ Running.h + Owed(Running) <= Len(stk)
      /\ Running.at = "run" /\ Running.h \in Nat
  BY <1>1, RunningFacts DEF InScript
<1>3. argc <= argc + 1 /\ argc + 1 <= Running.depth /\ argc <= Len(stk) /\ argc + 1 \in Nat
  BY <1>1, <1>2 DEF Owed
<1>4. Topmost(argc) \in Seq(Value)
  BY <1>2, <1>3, TopmostType
<1> HIDE DEF f
<1>5. QED
  BY <1>1, <1>3, <1>4, CallingInv

LEMMA SelfCallInv ==
    ASSUME CInv, NEW f \in Callable, NEW argc \in Nat, NEW aret \in {0, 1},
           SelfCall(f, argc, aret)
    PROVE  CNext
<1>1. /\ InScript /\ Running.depth > argc /\ UNCHANGED <<jpts, dirty>>
      /\ Link(f, Topmost(argc + 1), WithDepth(frames, Running.depth - (argc + 1)),
              Popped(argc + 1), aret)
  BY DEF SelfCall
<1>2. /\ Running.depth \in Nat /\ stk \in Seq(Value) /\ Running.h + Owed(Running) <= Len(stk)
      /\ Running.at = "run" /\ Running.h \in Nat
  BY <1>1, RunningFacts DEF InScript
<1>3. argc + 1 <= argc + 1 /\ argc + 1 <= Running.depth /\ argc + 1 <= Len(stk)
      /\ argc + 1 \in Nat
  BY <1>1, <1>2 DEF Owed
<1>4. Topmost(argc + 1) \in Seq(Value)
  BY <1>2, <1>3, TopmostType
<1>5. QED
  BY <1>1, <1>3, <1>4, CallingInv

\* An instruction that leaves d operands to the running function and n on the stack.
LEMMA WorkingInv ==
    ASSUME CInv, InScript, NEW d \in Nat, frames' = WithDepth(frames, d),
           stk' \in Seq(Value), Len(stk') <= MaxStack, Running.h + d <= Len(stk'),
           loc' \in [1 .. MaxLocal -> Value], UNCHANGED <<jpts, argv, mixed, dirty>>
    PROVE  CNext
<1> DEFINE q == WithDepth(frames, d)
           m == Len(frames)
           n == Len(stk')
<1>1. /\ m \in Nat /\ m > 0 /\ DOMAIN frames = 1 .. m /\ frames \in Seq(FrameSet)
      /\ Running = frames[m] /\ frames # <<>> /\ Running.fn \in Fun /\ Running.at = "run"
  BY RunningFacts DEF InScript
<1>2. /\ q \in Seq(FrameSet) /\ Len(q) = m /\ \A i \in 1 .. m - 1 : q[i] = frames[i]
      /\ q[m].fn = Running.fn /\ q[m].h = Running.h /\ q[m].at = "run" /\ q[m].depth = d
  BY <1>1, DepthFacts DEF Fields
<1>3. n \in Nat /\ Running.h + d <= n /\ m = Len(frames)
  OBVIOUS
<1>4. ShapeOf(frames) /\ SpansOf(frames, Len(stk)) /\ Owed(q[m]) = d
  BY <1>2 DEF CInv, Owed
<1> HIDE DEF q, m, n
<1>5. q # <<>> /\ m <= Len(frames)
  BY <1>1, <1>2, <1>3
<1>6. ShapeOf(q) /\ SpansOf(q, n)
  BY <1>1, <1>2, <1>3, <1>4, <1>5, ShapePrefix, SpansPrefix
<1>7. frames' = q /\ n = Len(stk')
  BY DEF q, n
<1>8. TypeNext /\ FrameNext
  BY <1>2, <1>6, <1>7 DEF TypeNext, FrameNext, CInv, TypeOK
<1>9. \A i \in 1 .. m : q[i].at = frames[i].at
  <2>1. \A i \in 1 .. m : i \in 1 .. m - 1 \/ i = m
    BY <1>1
  <2>2. QED
    BY <1>1, <1>2, <2>1
<1>10. BuffersOf(frames', jpts)
  <2>1. Len(frames) <= Len(frames')
        /\ \A i \in 1 .. Len(frames') : i > Len(frames) => frames'[i].at # "wait"
    BY <1>1, <1>2, <1>3, <1>7
  <2>2. QED
    BY <1>1, <1>2, <1>3, <1>7, <1>9, <2>1, SamePlaces
<1>11. QED
  BY <1>8, <1>10, QuietNext
LEMMA PushInv ==
    ASSUME CInv, NEW v \in Value, Push(v)
    PROVE  CNext
<1>1. /\ InScript /\ Len(stk) + 1 <= MaxStack /\ stk' = Append(stk, v)
      /\ frames' = WithDepth(frames, Running.depth + 1)
      /\ UNCHANGED <<loc, jpts, argv, mixed, dirty>>
  BY DEF Push, Room
<1>2. /\ stk \in Seq(Value) /\ Running.h \in Nat /\ Running.depth \in Nat
      /\ Running.h + Owed(Running) <= Len(stk) /\ Running.at = "run"
  BY <1>1, RunningFacts DEF InScript
<1>3. stk' \in Seq(Value) /\ Len(stk') = Len(stk) + 1
  BY <1>1, <1>2, Appending
<1>4. Running.depth + 1 \in Nat /\ Running.h + (Running.depth + 1) <= Len(stk')
      /\ Len(stk') <= MaxStack
  BY <1>1, <1>2, <1>3 DEF Owed
<1>5. loc' \in [1 .. MaxLocal -> Value]
  BY <1>1 DEF CInv, TypeOK
<1>6. QED
  BY <1>1, <1>3, <1>4, <1>5, WorkingInv

LEMMA StoreInv ==
    ASSUME CInv, NEW i \in Nat, Store(i)
    PROVE  CNext
<1>1. /\ InScript /\ Running.depth > 0 /\ stk' = Popped(1)
      /\ loc' = IF i = 0 THEN loc ELSE [loc EXCEPT ![Running.base + i] = Last(stk)]
      /\ frames' = WithDepth(frames, Running.depth - 1)
      /\ UNCHANGED <<jpts, argv, mixed, dirty>>
  BY DEF Store
<1>2. /\ stk \in Seq(Value) /\ Running.h \in Nat /\ Running.depth \in Nat
      /\ Running.h + Owed(Running) <= Len(stk) /\ Running.at = "run"
  BY <1>1, RunningFacts DEF InScript
<1>3. Len(stk) \in Nat /\ Len(stk) >= 1 /\ Running.h + Running.depth <= Len(stk)
  BY <1>1, <1>2 DEF Owed
<1>4. stk' \in Seq(Value) /\ Len(stk') = Len(stk) - 1
  <2>1. Len(stk) - 1 \in Nat /\ Len(stk) - 1 <= Len(stk)
    BY <1>3
  <2>2. QED
    BY <1>1, <1>2, <2>1, Prefix DEF Popped
<1>5. Running.depth - 1 \in Nat /\ Running.h + (Running.depth - 1) <= Len(stk')
      /\ Len(stk') <= MaxStack
  <2>1. Len(stk) <= MaxStack
    BY DEF CInv, TypeOK
  <2>2. QED
    BY SMTT(60), <1>1, <1>2, <1>3, <1>4, <2>1, StackSize
<1>6. loc' \in [1 .. MaxLocal -> Value]
  <2>1. Last(stk) \in Value
    BY <1>2, <1>3 DEF Last
  <2>2. QED
    BY <1>1, <2>1 DEF CInv, TypeOK
<1>7. QED
  BY <1>1, <1>4, <1>5, <1>6, WorkingInv

LEMMA ReturnInv ==
    ASSUME CInv, Return
    PROVE  CNext
<1>1. /\ InScript /\ Running.depth \in {0, 1} /\ Leave(Running.depth, stk)
      /\ loc' = loc /\ dirty' = dirty
  BY DEF Return
<1>2. /\ stk \in Seq(Value) /\ Running.h + Owed(Running) <= Len(stk) /\ Running.at = "run"
      /\ frames # <<>>
  BY <1>1, RunningFacts DEF InScript
<1>3. Running.h + Running.depth <= Len(stk)
  BY <1>2 DEF Owed
<1>4. Len(stk) <= MaxStack /\ dirty \in BOOLEAN
  BY DEF CInv, TypeOK
<1>5. dirty' \in BOOLEAN
  BY <1>1, <1>4, Zenon
<1>6. QED
  BY <1>1, <1>2, <1>3, <1>4, <1>5, Leaving

LEMMA AnswerInv ==
    ASSUME CInv, Answer
    PROVE  CNext
<1> DEFINE taken == IF Running.at = "err" THEN 3 ELSE Running.depth
           from == Append(Popped(taken), Ref)
<1>1. /\ frames # <<>> /\ Len(stk) + 1 <= MaxStack /\ Leave(1, from)
      /\ loc' = loc /\ dirty' = (dirty \/ Len(stk) - taken > Running.h)
      /\ Running.at \in {"ok", "err"}
  BY DEF Answer, InNative, Room
<1>2. /\ stk \in Seq(Value) /\ Running.h + Owed(Running) <= Len(stk)
      /\ Running.h \in Nat /\ Running.depth \in Nat
  BY <1>1, RunningFacts
<1>3. taken \in Nat /\ Running.h + taken <= Len(stk) /\ taken <= Len(stk)
  BY <1>2 DEF Owed
<1> HIDE DEF taken
<1>4. Popped(taken) \in Seq(Value) /\ Len(Popped(taken)) = Len(stk) - taken
  BY <1>2, <1>3, Prefix DEF Popped
<1>5. from \in Seq(Value) /\ Len(from) = Len(stk) - taken + 1
  <2>1. Ref \in Value
    BY DEF Value
  <2>2. QED
    BY <1>4, <2>1, Appending
<1>6. Len(from) <= MaxStack /\ Running.h + 1 <= Len(from)
  BY SMTT(60), <1>1, <1>2, <1>3, <1>5, StackSize
<1>7. dirty' \in BOOLEAN
  BY <1>1
<1> HIDE DEF from
<1>8. 1 \in {0, 1}
  OBVIOUS
<1>9. QED
  BY <1>1, <1>5, <1>6, <1>7, <1>8, Leaving
LEMMA ProtectInv ==
    ASSUME CInv, Protect
    PROVE  CNext
<1> DEFINE f == Head(argv[PCall])
           args == Tail(argv[PCall])
           callers == WithAt(frames, "wait")
           m == Len(frames)
<1>1. /\ frames # <<>> /\ Running.fn = PCall /\ Running.at = "enter"
      /\ argv[PCall] # <<>> /\ f \in Callable /\ dirty' = dirty
      /\ Link(f, args, callers, stk, 0)
      /\ jpts' = Append(jpts, [level |-> Last(jpts).level + 1, at |-> m])
  BY DEF Protect, InNative, Entered
<1>2. /\ m \in Nat /\ m > 0 /\ DOMAIN frames = 1 .. m /\ frames \in Seq(FrameSet)
      /\ jpts \in Seq(BufferSet) /\ stk \in Seq(Value) /\ Running = frames[m]
      /\ Running.h \in Nat /\ Running.depth \in Nat /\ Running.h + Owed(Running) <= Len(stk)
  BY <1>1, RunningFacts
<1>3. args \in Seq(Value)
  <2>1. argv[PCall] \in Seq(Value)
    BY DEF CInv, TypeOK, Callable
  <2>2. QED
    BY <1>1, <2>1
<1>4. /\ callers \in Seq(FrameSet) /\ Len(callers) = m
      /\ \A i \in 1 .. m - 1 : callers[i] = frames[i]
      /\ callers[m].fn = PCall /\ callers[m].h = Running.h /\ callers[m].at = "wait"
      /\ callers[m].depth = Running.depth
  BY <1>1, <1>2, AtFacts DEF Fields
<1>c. m = Len(frames)
  OBVIOUS
<1> HIDE DEF f, args, callers, m
<1>a. m = Len(frames) /\ \A k \in 1 .. m - 1 : k \in 1 .. m /\ k < m /\ k \in 1 .. m + 1
  BY <1>2, <1>c
<1>b. \A k \in 1 .. m : k \in 1 .. m - 1 \/ k = m
  BY <1>2
<1>5. ShapeOf(frames) /\ SpansOf(frames, Len(stk)) /\ BuffersOf(frames, jpts) /\ TypeOK
      /\ Len(stk) <= MaxStack /\ dirty \in BOOLEAN
  BY DEF CInv, TypeOK
<1>6. Pending(callers, Len(stk))
  <2>1. Owed(callers[m]) = Running.depth /\ Owed(Running) = Running.depth
    BY <1>1, <1>4 DEF Owed
  <2>2. SpansOf(callers, Len(stk))
    <3>1. Len(stk) \in Nat /\ callers # <<>> /\ Len(callers) <= Len(frames)
          /\ callers[m].h + Owed(callers[m]) <= Len(stk)
      BY <1>2, <1>4, <1>a, <2>1
    <3>2. QED
      BY <1>2, <1>4, <1>5, <3>1, SpansPrefix
  <2>3. \A k \in 1 .. m - 1 : Lower(frames[k]) /\ ((frames[k].fn \in Fun) <=> (frames[k].at = "run"))
    <3>1. \A k \in 1 .. m - 1 : k \in DOMAIN frames /\ k < Len(frames)
      BY <1>2, <1>a
    <3>2. QED
      BY <1>5, <3>1 DEF ShapeOf
  <2>4. Lower(callers[m]) /\ ((callers[m].fn \in Fun) <=> (callers[m].at = "run"))
    BY <1>4, CallAssumption DEF Lower
  <2>5. DOMAIN callers = 1 .. m
    BY <1>4
  <2>6. QED
    BY <1>4, <1>b, <2>2, <2>3, <2>4, <2>5 DEF Pending
<1>7. /\ TypeNext /\ FrameNext /\ Len(frames') = m + 1
      /\ \A i \in 1 .. m : frames'[i] = callers[i]
      /\ frames'[m + 1].at # "wait"
  <2>1. 0 \in {0, 1}
    OBVIOUS
  <2>2. /\ TypeNext /\ FrameNext /\ Len(frames') = Len(callers) + 1
        /\ \A i \in 1 .. Len(callers) : frames'[i] = callers[i]
        /\ frames'[Len(callers) + 1].at # "wait"
    BY <1>1, <1>2, <1>3, <1>4, <1>5, <1>6, <2>1, Linked
  <2>3. QED
    BY <1>4, <2>2
<1> DEFINE b == Len(jpts)
           js == jpts'
           q == frames'
<1>8. b \in Nat /\ b > 0 /\ DOMAIN jpts = 1 .. b /\ Last(jpts).level = b /\ jpts # <<>>
  <2>1. jpts # <<>>
    BY <1>1, <1>5 DEF BuffersOf
  <2>2. b \in Nat /\ b > 0 /\ DOMAIN jpts = 1 .. b
    BY <1>2, <2>1
  <2>3. b \in DOMAIN jpts /\ Last(jpts) = jpts[b]
    BY <2>2 DEF Last
  <2>4. QED
    BY <1>5, <2>1, <2>2, <2>3 DEF BuffersOf
<1>9. /\ js \in Seq(BufferSet) /\ Len(js) = b + 1 /\ DOMAIN js = 1 .. b + 1
      /\ js[b + 1].level = b + 1 /\ js[b + 1].at = m
      /\ \A i \in 1 .. b : js[i] = jpts[i]
  <2> DEFINE new == [level |-> b + 1, at |-> m]
  <2>1. new \in BufferSet /\ new.level = b + 1 /\ new.at = m
    BY <1>2, <1>8 DEF BufferSet
  <2>2. js = Append(jpts, new)
    BY <1>1, <1>8
  <2> HIDE DEF new, js
  <2>3. /\ js \in Seq(BufferSet) /\ Len(js) = Len(jpts) + 1 /\ js[Len(jpts) + 1] = new
        /\ \A i \in 1 .. Len(jpts) : js[i] = jpts[i]
    BY <1>2, <2>1, <2>2, Appending
  <2>4. DOMAIN js = 1 .. Len(js)
    BY <2>3
  <2>5. QED
    BY <2>1, <2>3, <2>4
<1>10. /\ q \in Seq(FrameSet) /\ DOMAIN q = 1 .. m + 1 /\ Len(q) = m + 1
       /\ \A i \in 1 .. m - 1 : q[i] = frames[i]
       /\ q[m].at = "wait" /\ q[m + 1].at # "wait"
  <2>1. q \in Seq(FrameSet) /\ Len(q) = m + 1 /\ q[m + 1].at # "wait"
    BY <1>7 DEF TypeNext
  <2>2. \A i \in 1 .. m : q[i] = callers[i]
    BY <1>7
  <2> HIDE DEF q
  <2>3. DOMAIN q = 1 .. m + 1 /\ m \in 1 .. m
    BY <1>2, <2>1
  <2>4. QED
    BY <1>4, <1>a, <2>1, <2>2, <2>3
<1> HIDE DEF b, js, q
<1>11. \A i \in 1 .. b : js[i].level = i /\ js[i].at \in Nat /\ js[i].at < m
  <2>1. \A i \in 1 .. b : jpts[i] \in BufferSet
    BY <1>2, <1>8
  <2>2. \A i \in 1 .. b : jpts[i].level = i /\ jpts[i].at < m
    BY <1>5, <1>8, <1>a DEF BuffersOf
  <2>3. QED
    BY <1>9, <2>1, <2>2 DEF BufferSet
<1>12. \A i \in 1 .. b + 1 : i \in 1 .. b \/ i = b + 1
  BY <1>8
<1>13. BuffersOf(q, js)
  <2>1. \A i \in 1 .. b + 1 : js[i].level = i /\ js[i].at < m + 1
    BY <1>2, <1>9, <1>11, <1>12
  <2>2. js[1].at = 0
    BY <1>5, <1>8, <1>9 DEF BuffersOf
  <2>3. \A i \in 1 .. b : i > 1 => js[i].at \in 1 .. m + 1 /\ q[js[i].at].at = "wait"
    <3> SUFFICES ASSUME NEW i \in 1 .. b, i > 1
                 PROVE  js[i].at \in 1 .. m + 1 /\ q[js[i].at].at = "wait"
      OBVIOUS
    <3>1. jpts[i].at \in 1 .. m /\ frames[jpts[i].at].at = "wait"
      BY <1>2, <1>5, <1>8 DEF BuffersOf
    <3>a. js[i] = jpts[i] /\ js[i].at \in Nat /\ js[i].at < m
      BY <1>9, <1>11
    <3>2. js[i].at \in 1 .. m - 1 /\ js[i] = jpts[i]
      BY <1>2, <3>1, <3>a
    <3>3. QED
      BY <1>10, <1>a, <3>1, <3>2
  <2>4. \A i \in 1 .. b + 1 : i > 1 => js[i].at \in DOMAIN q /\ q[js[i].at].at = "wait"
    <3>1. m \in 1 .. m + 1
      BY <1>2
    <3>2. QED
      BY <1>9, <1>10, <1>12, <2>3, <3>1
  <2>5. \A i, k \in 1 .. b + 1 : i < k => js[i].at < js[k].at
    <3> SUFFICES ASSUME NEW i \in 1 .. b + 1, NEW k \in 1 .. b + 1, i < k
                 PROVE  js[i].at < js[k].at
      OBVIOUS
    <3>1. i \in 1 .. b /\ i \in DOMAIN jpts
      BY <1>8
    <3>2. CASE k = b + 1
      BY <1>9, <1>11, <3>1, <3>2
    <3>3. CASE k \in 1 .. b
      <4>1. jpts[i].at < jpts[k].at
        BY <1>5, <1>8, <3>1, <3>3 DEF BuffersOf
      <4>2. QED
        BY <1>9, <3>1, <3>3, <4>1
    <3>4. QED
      BY <1>12, <3>2, <3>3
  <2>6. \A k \in DOMAIN q : q[k].at = "wait" => \E i \in DOMAIN js : js[i].at = k
    <3> SUFFICES ASSUME NEW k \in DOMAIN q, q[k].at = "wait"
                 PROVE  \E i \in DOMAIN js : js[i].at = k
      OBVIOUS
    <3>1. k = m \/ k \in 1 .. m - 1
      BY <1>2, <1>10
    <3>2. CASE k = m
      <4>1. b + 1 \in DOMAIN js
        BY <1>8, <1>9
      <4>2. QED
        BY <1>9, <3>2, <4>1
    <3>3. CASE k \in 1 .. m - 1
      <4>1. k \in DOMAIN frames /\ frames[k].at = "wait"
        BY <1>2, <1>10, <1>a, <3>3
      <4>2. PICK i \in DOMAIN jpts : jpts[i].at = k
        BY <1>5, <4>1 DEF BuffersOf
      <4>3. i \in 1 .. b /\ i \in 1 .. b + 1
        BY <1>8, <4>2
      <4>4. QED
        BY <1>9, <4>2, <4>3
    <3>4. QED
      BY <3>1, <3>2, <3>3
  <2>7. q # <<>> /\ js # <<>>
    BY <1>2, <1>8, <1>9, <1>10
  <2>8. QED
    BY <1>9, <1>10, <2>1, <2>2, <2>4, <2>5, <2>6, <2>7 DEF BuffersOf
<1>14. dirty' \in BOOLEAN
  BY <1>1, <1>5, Zenon
<1>15. QED
  BY <1>7, <1>9, <1>13, <1>14 DEF CNext, js, q
LEMMA RaiseInv ==
    ASSUME CInv, Raise
    PROVE  CNext
<1> DEFINE j == Last(jpts)
           cut == SubSeq(frames, 1, j.at)
           q == WithAt(cut, "err")
           m == Len(frames)
           b == Len(jpts)
           gone == {frames[i].fn : i \in j.at + 1 .. m - 1}
<1>1. /\ frames # <<>> /\ Len(stk) + 4 <= MaxStack /\ argv' = [argv EXCEPT ![Error] = <<>>]
      /\ jpts' = Front(jpts) /\ mixed' = mixed \cup gone /\ loc' = loc /\ dirty' = dirty
      /\ IF j.level > 1 THEN frames' = q /\ stk' = stk \o <<Ref, Ref, Ref>>
                        ELSE frames' = <<>> /\ stk' = <<Nil>>
  BY DEF Raise, InNative, Room, Emptied, Left
<1>2. /\ m \in Nat /\ m > 0 /\ DOMAIN frames = 1 .. m /\ frames \in Seq(FrameSet)
      /\ jpts \in Seq(BufferSet) /\ stk \in Seq(Value) /\ m = Len(frames)
  BY <1>1, RunningFacts
<1>3. ShapeOf(frames) /\ SpansOf(frames, Len(stk)) /\ BuffersOf(frames, jpts)
      /\ dirty \in BOOLEAN
  BY DEF CInv, TypeOK
<1>4. b \in Nat /\ b > 0 /\ DOMAIN jpts = 1 .. b /\ j = jpts[b] /\ b \in DOMAIN jpts
      /\ j \in BufferSet /\ b = Len(jpts)
  <2>1. jpts # <<>>
    BY <1>1, <1>3 DEF BuffersOf
  <2>2. QED
    BY <1>2, <2>1 DEF Last
<1> HIDE DEF b
<1>5. j.level = b /\ j.at \in Nat /\ j.at < m /\ j.at = jpts[Len(jpts)].at
      /\ (b > 1 => j.at \in 1 .. m)
  BY <1>2, <1>3, <1>4 DEF BuffersOf, BufferSet
<1>6. Front(jpts) \in Seq(BufferSet)
  <2>1. Len(jpts) - 1 \in Nat /\ Len(jpts) - 1 <= Len(jpts)
    BY <1>4
  <2>2. QED
    BY <1>2, <2>1, Prefix DEF Front
<1>7. argv' \in [Callable -> Seq(Value)] /\ loc' \in [1 .. MaxLocal -> Value]
  <2>1. argv \in [Callable -> Seq(Value)] /\ loc \in [1 .. MaxLocal -> Value]
    BY DEF CInv, TypeOK
  <2>2. <<>> \in Seq(Value)
    OBVIOUS
  <2>3. QED
    BY <1>1, <2>1, <2>2
<1> HIDE DEF m, j
<1>8. mixed' \subseteq Callable
  <2>1. \A i \in j.at + 1 .. m - 1 : i \in 1 .. m
    BY <1>2, <1>5
  <2>2. \A i \in 1 .. m : frames[i].fn \in Callable
    <3>1. \A i \in DOMAIN frames : frames[i] \in FrameSet
      BY <1>2
    <3>2. QED
      BY <1>2, <3>1 DEF FrameSet
  <2>a. gone \subseteq Callable
    BY <2>1, <2>2
  <2>3. mixed \subseteq Callable
    BY DEF CInv, TypeOK
  <2> HIDE DEF gone
  <2>4. QED
    BY <1>1, <2>a, <2>3
<1>9. dirty' \in BOOLEAN
  BY <1>1, <1>3, Zenon
<1> HIDE DEF gone
<1>10. CASE b > 1
  <2>1. /\ j.at \in 1 .. m /\ j.at <= m /\ j.at > 0 /\ j.level > 1
    BY <1>2, <1>5, <1>10
  <2>2. /\ cut \in Seq(FrameSet) /\ Len(cut) = j.at /\ \A i \in 1 .. j.at : cut[i] = frames[i]
    BY <1>2, <1>5, <2>1, Prefix
  <2> HIDE DEF cut
  <2>3. /\ q \in Seq(FrameSet) /\ Len(q) = j.at /\ q # <<>> /\ q[j.at].at = "err"
        /\ \A i \in 1 .. j.at - 1 : q[i] = frames[i]
        /\ q[j.at].fn = frames[j.at].fn /\ q[j.at].h = frames[j.at].h
    <3>1. cut # <<>>
      BY <2>1, <2>2
    <3>2. /\ q \in Seq(FrameSet) /\ Len(q) = Len(cut)
          /\ \A i \in 1 .. Len(cut) - 1 : q[i] = cut[i]
          /\ Fields(q[Len(cut)], cut[Len(cut)]) /\ q[Len(cut)].at = "err"
      BY <2>2, <3>1, AtFacts
    <3> HIDE DEF q
    <3>3. j.at \in 1 .. j.at /\ \A i \in 1 .. j.at - 1 : i \in 1 .. j.at
      BY <2>1
    <3>4. q # <<>>
      BY <2>1, <2>2, <3>2
    <3>5. QED
      BY <2>2, <3>2, <3>3, <3>4 DEF Fields
  <2> HIDE DEF q
  <2>4. frames' = q /\ stk' = stk \o <<Ref, Ref, Ref>>
    BY <1>1, <2>1
  <2>5. stk' \in Seq(Value) /\ Len(stk') = Len(stk) + 3 /\ Len(stk') <= MaxStack
    <3>1. <<Ref, Ref, Ref>> \in Seq(Value) /\ Len(<<Ref, Ref, Ref>>) = 3
      BY DEF Value
    <3>2. Len(stk) \in Nat
      BY <1>2
    <3>3. QED
      BY <1>1, <1>2, <2>4, <3>1, <3>2, Joining, StackSize
  <2>6. frames[j.at].at = "wait"
    BY <1>3, <1>4, <1>5, <1>10 DEF BuffersOf
  <2>7. frames[j.at].fn \notin Fun
    BY <1>2, <1>3, <2>1, <2>6 DEF ShapeOf
  <2>8. ShapeOf(q)
    BY <1>2, <1>3, <2>1, <2>3, <2>7, ShapePrefix
  <2>9. SpansOf(q, Len(stk) + 3)
    <3>1. frames[j.at].h + Owed(frames[j.at]) <= Len(stk) /\ frames[j.at] \in FrameSet
      BY <1>2, <1>3, <2>1 DEF SpansOf
    <3>2. frames[j.at].h \in Nat /\ Owed(frames[j.at]) \in Nat /\ Len(stk) \in Nat
      BY <1>2, <3>1, OwedNat
    <3>3. Owed(q[j.at]) = 3
      BY <2>3 DEF Owed
    <3>4. q[j.at].h + Owed(q[j.at]) <= Len(stk) + 3 /\ Len(stk) + 3 \in Nat
      BY <2>3, <3>1, <3>2, <3>3
    <3> DEFINE n == Len(stk) + 3
    <3>5. n \in Nat /\ q[j.at].h + Owed(q[j.at]) <= n
      BY <3>4
    <3> HIDE DEF n
    <3>6. SpansOf(q, n)
      BY <1>2, <1>3, <2>1, <2>3, <3>5, SpansPrefix
    <3>7. QED
      BY <3>6 DEF n
  <2>10. BuffersOf(q, Front(jpts))
    BY <1>2, <1>3, <1>4, <1>5, <1>10, <2>3, BuffersLeft
  <2>11. TypeNext /\ FrameNext
    BY <1>7, <1>8, <2>3, <2>4, <2>5, <2>8, <2>9 DEF TypeNext, FrameNext
  <2>12. QED
    BY <1>1, <1>6, <1>9, <2>4, <2>10, <2>11 DEF CNext
<1>11. CASE b = 1
  <2>1. frames' = <<>> /\ stk' = <<Nil>> /\ Nil \in Value
    BY <1>1, <1>5, <1>11 DEF Value
  <2>2. Front(jpts) = <<>>
    BY <1>2, <1>4, <1>11 DEF Front
  <2>3. stk' \in Seq(Value) /\ Len(stk') = 1 /\ Len(stk) \in Nat
    BY <1>2, <2>1
  <2>4. Len(stk') <= MaxStack
    BY <1>1, <2>3, CallAssumption
  <2>5. TypeNext /\ FrameNext
    BY <1>7, <1>8, <2>1, <2>3, <2>4 DEF TypeNext, FrameNext, ShapeOf, SpansOf
  <2>6. BuffersOf(frames', Front(jpts))
    BY <2>1, <2>2 DEF BuffersOf
  <2>7. QED
    BY <1>1, <1>6, <1>9, <2>5, <2>6 DEF CNext
<1>12. QED
  BY <1>4, <1>10, <1>11
LEMMA PanicInv ==
    ASSUME CInv, Panic
    PROVE  CNext
<1>1. PICK t \in DOMAIN jpts :
         /\ jpts[t].level <= 1 /\ jpts' = SubSeq(jpts, 1, t - 1)
         /\ frames' = SubSeq(frames, 1, jpts[t].at)
  BY DEF Panic
<1>2. /\ frames # <<>> /\ stk' = <<Nil>> /\ UNCHANGED <<loc, argv, dirty>>
      /\ mixed' = mixed \cup {frames[i].fn : i \in DOMAIN frames}
  BY DEF Panic
<1>3. /\ frames \in Seq(FrameSet) /\ jpts \in Seq(BufferSet) /\ BuffersOf(frames, jpts)
      /\ mixed \subseteq Callable /\ dirty \in BOOLEAN
  BY DEF CInv, TypeOK, BufferSet
<1>4. t = 1 /\ jpts[1].at = 0
  <2>1. t \in Nat /\ t >= 1 /\ 1 \in DOMAIN jpts /\ jpts # <<>>
    BY <1>3
  <2>2. jpts[t].level = t /\ jpts[1].at = 0
    BY <1>3, <2>1 DEF BuffersOf
  <2>3. QED
    BY <1>1, <2>1, <2>2
<1>5. jpts' = <<>> /\ frames' = <<>>
  BY <1>1, <1>3, <1>4
<1>6. Nil \in Value /\ stk' \in Seq(Value) /\ Len(stk') = 1
  BY <1>2 DEF Value
<1>7. Len(stk') <= MaxStack /\ mixed' \subseteq Callable
  <2>1. \A i \in DOMAIN frames : frames[i].fn \in Callable
    <3>1. \A i \in DOMAIN frames : frames[i] \in FrameSet
      BY <1>3
    <3>2. QED
      BY <3>1 DEF FrameSet
  <2>2. mixed' \subseteq Callable
    BY <1>2, <1>3, <2>1
  <2>3. QED
    BY <1>6, <2>2, StackSize
<1>8. TypeNext
  BY <1>2, <1>5, <1>6, <1>7 DEF TypeNext, CInv, TypeOK
<1>9. dirty' \in BOOLEAN
  BY <1>2, <1>3, Zenon
<1>10. QED
  BY <1>5, <1>8, <1>9 DEF CNext, FrameNext, ShapeOf, SpansOf, BuffersOf

LEMMA StepCInv ==
    ASSUME CInv, [Next]_vars
    PROVE  CInv'
<1>1. CASE \E f \in Fun, args \in UNION {[1 .. n -> Data] : n \in 0 .. MaxArgs} :
              HostCall(f, args)
  <2>a. PICK f \in Fun, n \in 0 .. MaxArgs : \E args \in [1 .. n -> Data] : HostCall(f, args)
    BY <1>1
  <2>1. PICK args \in [1 .. n -> Data] : HostCall(f, args)
    BY <2>a
  <2>2. n \in Nat
    OBVIOUS
  <2>3. QED
    BY <2>1, <2>2, HostCallInv, NextInv
<1>2. CASE \E argc \in 0 .. MaxArgs, aret \in {0, 1} :
              \/ Call(argc, aret)
              \/ argc < MaxArgs /\ \E f \in Callable : SelfCall(f, argc, aret)
  <2>1. PICK argc \in 0 .. MaxArgs, aret \in {0, 1} :
           Call(argc, aret) \/ \E f \in Callable : SelfCall(f, argc, aret)
    BY <1>2
  <2>2. argc \in Nat
    OBVIOUS
  <2>3. QED
    BY <2>1, <2>2, CallInv, SelfCallInv, NextInv
<1>3. CASE \E v \in Callable \cup Data : Push(v)
  <2>1. Callable \cup Data \subseteq Value
    BY DEF Value
  <2>2. QED
    BY <1>3, <2>1, PushInv, NextInv
<1>4. CASE \E i \in 0 .. MaxLocal : Store(i)
  <2>1. \A i \in 0 .. MaxLocal : i \in Nat
    OBVIOUS
  <2>2. QED
    BY <1>4, <2>1, StoreInv, NextInv
<1>5. CASE Return
  BY <1>5, ReturnInv, NextInv
<1>6. CASE Protect
  BY <1>6, ProtectInv, NextInv
<1>7. CASE Answer
  BY <1>7, AnswerInv, NextInv
<1>8. CASE Raise
  BY <1>8, RaiseInv, NextInv
<1>9. CASE Panic
  BY <1>9, PanicInv, NextInv
<1>10. CASE UNCHANGED vars
  BY <1>10 DEF vars, CInv, TypeOK, ShapeOf, SpansOf, BuffersOf
<1>11. QED
  BY <1>1, <1>2, <1>3, <1>4, <1>5, <1>6, <1>7, <1>8, <1>9, <1>10 DEF Next

LEMMA AlwaysCInv == Spec => []CInv
<1>1. Init => CInv
  BY InitCInv
<1>2. CInv /\ [Next]_vars => CInv'
  BY StepCInv
<1>3. QED
  BY <1>1, <1>2, PTL DEF Spec

-----------------------------------------------------------------------------
(* The theorems *)

\* The machine keeps its shape: the value stack within its MAX_STACK slots
\* (ymd_push), and every frame, buffer and argument array as declared.
THEOREM CallTypes == Spec => []TypeOK
<1>1. CInv => TypeOK
  BY DEF CInv
<1>2. QED
  BY <1>1, AlwaysCInv, PTL

\* ymd_error and ymd_panic always jump into a libx_pcall that still waits for its
\* callee, or into the host's ymd_xcall: call_jenter and call_jleave are paired on
\* every way out of a call.
THEOREM JumpsAreSafe == Spec => []JumpTargets
<1>1. CInv => JumpTargets
  <2> SUFFICES ASSUME CInv PROVE JumpTargets  OBVIOUS
  <2>1. BuffersOf(frames, jpts) /\ ShapeOf(frames) /\ jpts \in Seq(BufferSet)
    BY DEF CInv, TypeOK, BufferSet
  <2>2. ASSUME NEW i \in DOMAIN jpts
        PROVE  /\ jpts[i].level = i /\ jpts[i].at < Len(frames)
               /\ IF i = 1 THEN jpts[i].at = 0
                  ELSE /\ frames[jpts[i].at].fn = PCall /\ frames[jpts[i].at].at = "wait"
                       /\ jpts[i - 1].at < jpts[i].at
    <3>1. i \in 1 .. Len(jpts) /\ jpts # <<>> /\ DOMAIN jpts = 1 .. Len(jpts)
          /\ Len(jpts) \in Nat
      BY <2>1, <2>2
    <3>2. CASE i = 1
      BY <2>1, <3>1, <3>2 DEF BuffersOf
    <3>3. CASE i # 1
      <4>1. i > 1 /\ i - 1 \in DOMAIN jpts /\ i - 1 < i
        BY <3>1, <3>3
      <4>2. jpts[i].at \in DOMAIN frames /\ frames[jpts[i].at].at = "wait"
            /\ jpts[i].level = i /\ jpts[i].at < Len(frames)
        BY <2>1, <4>1 DEF BuffersOf
      <4>3. Lower(frames[jpts[i].at])
        BY <2>1, <4>2 DEF ShapeOf
      <4>4. frames[jpts[i].at].fn = PCall
        BY <2>1, <4>2, <4>3 DEF ShapeOf, Lower
      <4>5. jpts[i - 1].at < jpts[i].at
        BY <2>1, <4>1 DEF BuffersOf
      <4>6. QED
        BY <3>3, <4>2, <4>4, <4>5
    <3>4. QED
      BY <3>2, <3>3
  <2>3. (frames = <<>>) <=> (jpts = <<>>)
    BY <2>1 DEF BuffersOf
  <2>4. \A k \in DOMAIN frames : frames[k].at = "wait" => \E i \in DOMAIN jpts : jpts[i].at = k
    BY <2>1 DEF BuffersOf
  <2>5. QED
    BY <2>2, <2>3, <2>4 DEF JumpTargets
<1>2. QED
  BY <1>1, AlwaysCInv, PTL

\* Neither compiled code, nor a return, nor pcall's unpacking of an error ever pops
\* an operand of a call further down, whatever errors were caught before.
THEOREM OperandsAreKept == Spec => []NeverShort
<1>1. CInv => NeverShort
  <2> SUFFICES ASSUME CInv, NEW i \in DOMAIN frames
               PROVE  frames[i].h + Owed(frames[i]) <= Height(i)
    BY DEF NeverShort
  <2>1. SpansOf(frames, Len(stk)) /\ frames \in Seq(FrameSet)
    BY DEF CInv, TypeOK
  <2>2. i < Len(frames) => i + 1 \in DOMAIN frames /\ i < i + 1
    BY <2>1
  <2>3. QED
    BY <2>1, <2>2 DEF Height, SpansOf
<1>2. QED
  BY <1>1, AlwaysCInv, PTL
KeepsLocals ==
    frames # <<>> =>
       \A i \in DOMAIN loc :
          i <= (IF Len(frames') > Len(frames) THEN Above(frames) ELSE Running.base)
          => loc'[i] = loc[i]

LEMMA LinkKeepsLocals ==
    ASSUME CInv, frames # <<>>, NEW f \in Callable, NEW args \in Seq(Value),
           NEW callers \in Seq(FrameSet), NEW below, NEW aret,
           Len(callers) = Len(frames), Fields(callers[Len(frames)], frames[Len(frames)]),
           Link(f, args, callers, below, aret)
    PROVE  KeepsLocals
<1>1. Len(frames) \in Nat /\ Len(frames) > 0 /\ callers # <<>>
  BY RunningFacts
<1>2. Above(callers) = Above(frames)
  BY <1>1 DEF Above, Last, Fields
<1>3. Above(callers) \in Nat
  BY AboveNat
<1>4. Locals(Last(callers).fn) \in Nat
  <2>1. Last(callers) \in FrameSet
    BY <1>1 DEF Last
  <2>2. QED
    BY <2>1, LocalsNat DEF FrameSet
<1>5. /\ loc' = EntryLocals(f, args, Above(callers), Locals(Last(callers).fn))
      /\ Len(frames') = Len(callers) + 1
  BY <1>1 DEF Link
<1>6. TypeOK /\ DOMAIN loc = 1 .. MaxLocal /\ MaxLocal \in Nat
  BY CallAssumption DEF CInv, TypeOK
<1>7. \A i \in 1 .. Above(callers) : i <= MaxLocal => loc'[i] = loc[i]
  BY <1>3, <1>4, <1>5, <1>6, EntryLocalsType
<1>8. Len(frames') > Len(frames)
  BY <1>1, <1>5
<1>9. \A i \in DOMAIN loc : i <= Above(frames) => loc'[i] = loc[i]
  BY <1>2, <1>3, <1>6, <1>7
<1>10. QED
  BY <1>8, <1>9 DEF KeepsLocals

\* A callee's entry, its stores and its return leave every local variable of the
\* calls below it alone: windows of l->loc never overlap (call_init).
THEOREM CallersKeepLocals == Spec => LocalsOfCallers
<1>1. ASSUME CInv, [Next]_vars PROVE [KeepsLocals]_vars
  <2> SUFFICES ASSUME CInv, Next, frames # <<>> PROVE KeepsLocals
    BY <1>1 DEF KeepsLocals
  <2>1. /\ frames \in Seq(FrameSet) /\ Len(frames) \in Nat /\ Len(frames) > 0
        /\ stk \in Seq(Value) /\ Running = frames[Len(frames)] /\ Running \in FrameSet
        /\ Running.h \in Nat /\ Running.depth \in Nat /\ Running.h + Owed(Running) <= Len(stk)
        /\ ((Running.fn \in Fun) <=> (Running.at = "run"))
    BY RunningFacts
  <2>2. loc' = loc => KeepsLocals
    BY DEF KeepsLocals
  <2>3. ASSUME NEW argc \in Nat, NEW aret, NEW f \in Callable, NEW args \in Seq(Value),
               NEW below, argc + 1 <= Running.depth,
               Link(f, args, WithDepth(frames, Running.depth - (argc + 1)), below, aret)
        PROVE  KeepsLocals
    <3>1. Running.depth - (argc + 1) \in Nat
      BY <2>1, <2>3
    <3> DEFINE d == Running.depth - (argc + 1)
    <3> HIDE DEF d
    <3>2. d \in Nat /\ Link(f, args, WithDepth(frames, d), below, aret)
      BY <2>3, <3>1 DEF d
    <3>3. WithDepth(frames, d) \in Seq(FrameSet) /\ Len(WithDepth(frames, d)) = Len(frames)
          /\ Fields(WithDepth(frames, d)[Len(frames)], frames[Len(frames)])
      BY <2>1, <3>2, DepthFacts
    <3>4. QED
      BY <3>2, <3>3, LinkKeepsLocals
  <2>4. ASSUME NEW argc \in 0 .. MaxArgs, NEW aret, Call(argc, aret) PROVE KeepsLocals
    <3> DEFINE f == stk[Len(stk) - argc]
    <3>1. /\ InScript /\ Running.depth > argc /\ f \in Callable
          /\ Link(f, Topmost(argc), WithDepth(frames, Running.depth - (argc + 1)),
                  Popped(argc + 1), aret)
      BY <2>4 DEF Call
    <3>2. argc \in Nat /\ argc + 1 <= Running.depth /\ argc <= Len(stk)
      BY SMTT(60), <2>1, <3>1 DEF Owed, InScript
    <3>3. Topmost(argc) \in Seq(Value)
      BY <2>1, <3>2, TopmostType
    <3> HIDE DEF f
    <3>4. QED
      BY <2>3, <3>1, <3>2, <3>3
  <2>5. ASSUME NEW f \in Callable, NEW argc \in 0 .. MaxArgs, NEW aret, SelfCall(f, argc, aret)
        PROVE  KeepsLocals
    <3>1. /\ InScript /\ Running.depth > argc
          /\ Link(f, Topmost(argc + 1), WithDepth(frames, Running.depth - (argc + 1)),
                  Popped(argc + 1), aret)
      BY <2>5 DEF SelfCall
    <3>2. argc \in Nat /\ argc + 1 \in Nat /\ argc + 1 <= Running.depth /\ argc + 1 <= Len(stk)
      BY SMTT(60), <2>1, <3>1 DEF Owed, InScript
    <3>3. Topmost(argc + 1) \in Seq(Value)
      BY <2>1, <3>2, TopmostType
    <3>4. QED
      BY <2>3, <3>1, <3>2, <3>3
  <2>6. ASSUME NEW i \in 0 .. MaxLocal, Store(i) PROVE KeepsLocals
    <3>1. /\ frames' = WithDepth(frames, Running.depth - 1) /\ Running.depth > 0
          /\ loc' = IF i = 0 THEN loc ELSE [loc EXCEPT ![Running.base + i] = Last(stk)]
      BY <2>6 DEF Store
    <3>2. Running.depth - 1 \in Nat /\ Running.base \in Nat /\ i \in Nat
      BY SMTT(60), <2>1, <3>1 DEF FrameSet
    <3>3. ~(Len(frames') > Len(frames))
      <4> DEFINE d == Running.depth - 1
      <4>1. d \in Nat /\ frames' = WithDepth(frames, d)
        BY <3>1, <3>2
      <4> HIDE DEF d
      <4>2. Len(frames') = Len(frames)
        BY <2>1, <4>1, DepthFacts
      <4>3. QED
        BY <2>1, <4>2
    <3>4. DOMAIN loc = 1 .. MaxLocal /\ loc \in [1 .. MaxLocal -> Value]
      BY DEF CInv, TypeOK
    <3>5. \A k \in 1 .. MaxLocal : k <= Running.base => (i = 0 \/ k # Running.base + i)
      BY <3>2
    <3>6. \A k \in DOMAIN loc : k <= Running.base => loc'[k] = loc[k]
      BY <3>1, <3>4, <3>5
    <3>7. QED
      BY <3>3, <3>6 DEF KeepsLocals
  <2>7. ASSUME Protect PROVE KeepsLocals
    <3>1. /\ Head(argv[PCall]) \in Callable /\ argv[PCall] # <<>>
          /\ Link(Head(argv[PCall]), Tail(argv[PCall]), WithAt(frames, "wait"), stk, 0)
      BY <2>7 DEF Protect
    <3>2. Tail(argv[PCall]) \in Seq(Value)
      <4>1. argv[PCall] \in Seq(Value)
        BY DEF CInv, TypeOK, Callable
      <4>2. QED
        BY <3>1, <4>1
    <3>3. WithAt(frames, "wait") \in Seq(FrameSet) /\ Len(WithAt(frames, "wait")) = Len(frames)
          /\ Fields(WithAt(frames, "wait")[Len(frames)], frames[Len(frames)])
      BY <2>1, AtFacts
    <3>4. QED
      BY <3>1, <3>2, <3>3, LinkKeepsLocals
  <2>8. CASE \E f \in Fun, args \in UNION {[1 .. n -> Data] : n \in 0 .. MaxArgs} :
                HostCall(f, args)
    BY <2>8 DEF HostCall
  <2>9. QED
    BY <2>2, <2>4, <2>5, <2>6, <2>7, <2>8
       DEF Next, Push, Return, Answer, Raise, Panic
<1>2. [KeepsLocals]_vars => [frames # <<>> =>
          \A i \in DOMAIN loc :
             i <= (IF Len(frames') > Len(frames) THEN Above(frames) ELSE Running.base)
             => loc'[i] = loc[i]]_vars
  BY DEF KeepsLocals
<1>3. QED
  BY <1>1, <1>2, AlwaysCInv, PTL DEF Spec, LocalsOfCallers

-----------------------------------------------------------------------------
(* What is on the stack, and what is in the argument arrays *)

\* A native that has just been entered, or waits, has left nothing on the stack.
Idle(fr) == \A i \in DOMAIN fr : fr[i].at \in {"enter", "wait"} => fr[i].depth = 0

\* Each frame has on the stack what it believes to have there.
Even(fr, n) == \A i \in DOMAIN fr :
    fr[i].at # "err" => (IF i < Len(fr) THEN fr[i + 1].h ELSE n) = fr[i].h + fr[i].depth

\* A function that is called once has its arguments, one that is not called has none.
Owns(fr, av, mx) ==
    /\ \A g \in Callable \ mx : (\A i \in DOMAIN fr : fr[i].fn # g) => av[g] = <<>>
    /\ \A i \in DOMAIN fr : fr[i].fn \notin mx => av[fr[i].fn] = fr[i].args
    /\ \A i, k \in DOMAIN fr : i # k /\ fr[i].fn = fr[k].fn => fr[i].fn \in mx

DInv == CInv /\ Idle(frames) /\ (~dirty => Even(frames, Len(stk))) /\ Owns(frames, argv, mixed)
DNext == Idle(frames') /\ (~dirty' => Even(frames', Len(stk'))) /\ Owns(frames', argv', mixed')

\* Frames that agree with others but for the depth and the place of the last one.
Like(q, fr) ==
    /\ q \in Seq(FrameSet) /\ Len(q) = Len(fr)
    /\ \A i \in 1 .. Len(fr) - 1 : q[i] = fr[i]
    /\ Len(fr) > 0 => Fields(q[Len(fr)], fr[Len(fr)])

LEMMA LastIndex == \A n \in Nat : \A i \in 1 .. n : i \in 1 .. n - 1 \/ (i = n /\ n > 0)
  BY SMTT(60)

LEMMA LikeFields ==
    ASSUME NEW fr \in Seq(FrameSet), NEW q, Like(q, fr)
    PROVE  /\ Len(fr) \in Nat /\ DOMAIN q = 1 .. Len(fr) /\ DOMAIN fr = 1 .. Len(fr)
           /\ \A i \in 1 .. Len(fr) : Fields(q[i], fr[i])
<1>1. Len(fr) \in Nat /\ DOMAIN q = 1 .. Len(fr) /\ DOMAIN fr = 1 .. Len(fr)
  BY SMTT(60) DEF Like
<1>2. \A i \in 1 .. Len(fr) : i \in 1 .. Len(fr) - 1 \/ (i = Len(fr) /\ Len(fr) > 0)
  BY <1>1, LastIndex
<1>3. \A i \in 1 .. Len(fr) - 1 : Fields(q[i], fr[i])
  BY DEF Like, Fields
<1>4. Len(fr) > 0 => Fields(q[Len(fr)], fr[Len(fr)])
  BY DEF Like
<1> HIDE DEF Fields
<1> QED BY <1>1, <1>2, <1>3, <1>4

LEMMA LikeOwns ==
    ASSUME NEW fr \in Seq(FrameSet), NEW q, Like(q, fr), NEW av, NEW mx, Owns(fr, av, mx)
    PROVE  Owns(q, av, mx)
<1>1. /\ DOMAIN q = DOMAIN fr
      /\ \A i \in DOMAIN fr : q[i].fn = fr[i].fn /\ q[i].args = fr[i].args
  BY LikeFields DEF Fields
<1> QED BY <1>1 DEF Owns

\* The stack still has the right heights when only the last frame has changed, and it
\* believes what there is.
LEMMA LikeEven ==
    ASSUME NEW fr \in Seq(FrameSet), NEW q, Like(q, fr), Len(fr) > 0, NEW n, NEW m, Even(fr, n),
           \A i \in DOMAIN fr : i < Len(fr) => fr[i].at # "err",
           q[Len(fr)].at # "err" => m = q[Len(fr)].h + q[Len(fr)].depth
    PROVE  Even(q, m)
<1>1. /\ Len(fr) \in Nat /\ DOMAIN q = 1 .. Len(fr) /\ DOMAIN fr = 1 .. Len(fr)
      /\ \A i \in 1 .. Len(fr) : q[i].h = fr[i].h
      /\ \A i \in 1 .. Len(fr) - 1 : q[i] = fr[i]
      /\ Len(q) = Len(fr)
  BY LikeFields DEF Fields, Like
<1>2. ASSUME NEW i \in 1 .. Len(fr) - 1
      PROVE  q[i + 1].h = q[i].h + q[i].depth /\ i < Len(q)
  <2>1. i \in DOMAIN fr /\ i < Len(fr) /\ i + 1 \in 1 .. Len(fr)
    BY <1>1
  <2>2. fr[i + 1].h = fr[i].h + fr[i].depth
    BY <2>1 DEF Even
  <2> QED BY <1>1, <2>1, <2>2
<1>3. \A i \in DOMAIN q : i \in 1 .. Len(fr) - 1 \/ i = Len(fr)
  BY <1>1
<1>4. ~(Len(fr) < Len(q))
  BY <1>1
<1> QED BY <1>2, <1>3, <1>4 DEF Even

LEMMA LikeIdle ==
    ASSUME NEW fr \in Seq(FrameSet), NEW q, Like(q, fr), Len(fr) > 0, Idle(fr),
           q[Len(fr)].at \in {"enter", "wait"} => q[Len(fr)].depth = 0
    PROVE  Idle(q)
<1>1. /\ Len(fr) \in Nat /\ DOMAIN q = 1 .. Len(fr) /\ DOMAIN fr = 1 .. Len(fr)
      /\ \A i \in 1 .. Len(fr) - 1 : q[i] = fr[i]
  BY SMTT(60), LikeFields DEF Like
<1>2. \A i \in DOMAIN q : (i \in DOMAIN fr /\ q[i] = fr[i]) \/ i = Len(fr)
  <2>1. \A i \in 1 .. Len(fr) : i \in 1 .. Len(fr) - 1 \/ i = Len(fr)
    BY <1>1, LastIndex
  <2> QED BY ZenonT(60), <1>1, <2>1
<1> QED BY <1>2 DEF Idle

-----------------------------------------------------------------------------
(* A call *)

\* The frame of a call on top of its callers, which have on the stack what they believe.
LEMMA LinkTidy ==
    ASSUME CInv, Owns(frames, argv, mixed), NEW f \in Callable, NEW args \in Seq(Value),
           NEW callers, Like(callers, frames), Idle(callers), NEW below \in Seq(Value), NEW aret,
           Link(f, args, callers, below, aret)
    PROVE  /\ Idle(frames') /\ Owns(frames', argv', mixed') /\ stk' = below
           /\ Even(callers, Len(below)) => Even(frames', Len(below))
<1> DEFINE new == [fn |-> f, base |-> Above(callers), args |-> args, aret |-> aret,
                   at |-> IF f \in Fun THEN "run" ELSE "enter", h |-> Len(below), depth |-> 0]
           n == Len(callers)
           q == frames'
<1>1. /\ stk' = below /\ q = Append(callers, new)
      /\ argv' = [argv EXCEPT ![f] = @ \o args]
      /\ mixed' = IF Active(f) THEN mixed \cup {f} ELSE mixed
  BY DEF Link
<1>2. new.fn = f /\ new.h = Len(below) /\ new.depth = 0 /\ new.args = args /\ new.at # "err"
  OBVIOUS
<1>3. /\ frames \in Seq(FrameSet) /\ callers \in Seq(FrameSet) /\ argv \in [Callable -> Seq(Value)]
  BY DEF CInv, TypeOK, Like
<1>4. /\ n \in Nat /\ n = Len(callers) /\ n = Len(frames) /\ DOMAIN callers = 1 .. n
      /\ DOMAIN frames = 1 .. n
      /\ \A i \in 1 .. n : callers[i].fn = frames[i].fn /\ callers[i].args = frames[i].args
  <2>1. \A i \in 1 .. Len(frames) : Fields(callers[i], frames[i])
    BY <1>3, LikeFields
  <2>2. Len(callers) = Len(frames)
    BY DEF Like
  <2> QED BY <1>3, <2>1, <2>2 DEF Fields
<1> HIDE DEF new
<1>5. /\ DOMAIN q = 1 .. n + 1 /\ Len(q) = n + 1 /\ q[n + 1] = new
      /\ \A i \in 1 .. n : q[i] = callers[i]
  BY <1>1, <1>3, <1>4
<1> HIDE DEF n, q
<1>6. \A i \in 1 .. n + 1 : i \in 1 .. n \/ i = n + 1
  BY <1>4
<1>7. \A i \in 1 .. n : i # n + 1 /\ i \in 1 .. n + 1 /\ i < n + 1
  BY <1>4
<1>a. n + 1 \in 1 .. n + 1 /\ ~(n + 1 < n + 1)
  BY <1>4
<1>8. Idle(q)
  BY <1>2, <1>4, <1>5, <1>6 DEF Idle
<1>9. ASSUME Even(callers, Len(below)) PROVE Even(q, Len(below))
  <2>1. ASSUME NEW i \in 1 .. n, q[i].at # "err" PROVE q[i + 1].h = q[i].h + q[i].depth
    <3>1. callers[i].at # "err"
      BY <1>5, <2>1
    <3>2. (IF i < n THEN callers[i + 1].h ELSE Len(below)) = callers[i].h + callers[i].depth
      BY <1>4, <1>9, <3>1 DEF Even
    <3>3. CASE i < n
      <4>1. i + 1 \in 1 .. n
        BY <1>4, <3>3
      <4> QED BY <1>5, <3>2, <3>3, <4>1
    <3>4. CASE i = n
      BY <1>2, <1>5, <3>2, <3>4
    <3> QED BY <1>4, <3>3, <3>4
  <2>2. Len(below) = q[n + 1].h + q[n + 1].depth
    BY <1>2, <1>5
  <2> QED BY <1>5, <1>6, <1>7, <1>a, <2>1, <2>2 DEF Even
<1>10. Owns(q, argv', mixed')
  <2>1. Active(f) <=> \E i \in 1 .. n : q[i].fn = f
    BY <1>4, <1>5 DEF Active
  <2>2. \A g \in Callable : g # f => argv'[g] = argv[g]
    BY <1>1, <1>3
  <2>3. argv'[f] = argv[f] \o args
    BY <1>1, <1>3
  <2>4. mixed \subseteq mixed' /\ (Active(f) => f \in mixed') /\ \A g : g # f => (g \in mixed' <=> g \in mixed)
        /\ (~Active(f) => mixed' = mixed)
    BY <1>1
  <2>5. \A i \in 1 .. n : q[i].fn = frames[i].fn /\ q[i].args = frames[i].args /\ q[i].fn \in Callable
    <3>1. \A i \in 1 .. n : callers[i] \in FrameSet
      BY <1>3, <1>4
    <3> QED BY <1>4, <1>5, <3>1 DEF FrameSet
  <2>6. ASSUME NEW g \in Callable \ mixed', \A i \in DOMAIN q : q[i].fn # g
        PROVE  argv'[g] = <<>>
    <3>1. g # f
      BY <1>2, <1>5, <1>a, <2>6
    <3>2. \A i \in DOMAIN frames : frames[i].fn # g
      BY <1>4, <1>5, <1>7, <2>5, <2>6
    <3>3. argv[g] = <<>>
      BY <2>4, <2>6, <3>2 DEF Owns
    <3> QED BY <2>2, <2>6, <3>1, <3>3
  <2>7. ASSUME NEW i \in DOMAIN q, q[i].fn \notin mixed' PROVE argv'[q[i].fn] = q[i].args
    <3>1. CASE i = n + 1
      <4>1. ~Active(f) /\ f \notin mixed
        BY <1>2, <1>5, <2>4, <2>7, <3>1
      <4>2. \A k \in DOMAIN frames : frames[k].fn # f
        BY <1>4, <2>1, <2>5, <4>1
      <4>3. argv[f] = <<>>
        BY <4>1, <4>2 DEF Owns
      <4>4. <<>> \o args = args
        OBVIOUS
      <4> QED BY <1>2, <1>5, <2>3, <3>1, <4>3, <4>4
    <3>2. CASE i \in 1 .. n
      <4>1. q[i].fn # f /\ frames[i].fn \notin mixed
        BY <2>1, <2>4, <2>5, <2>7, <3>2
      <4>2. argv[frames[i].fn] = frames[i].args
        BY <1>4, <3>2, <4>1 DEF Owns
      <4> QED BY <2>2, <2>5, <3>2, <4>1, <4>2
    <3> QED BY <1>5, <1>6, <3>1, <3>2
  <2>8. ASSUME NEW i \in DOMAIN q, NEW k \in DOMAIN q, i # k, q[i].fn = q[k].fn
        PROVE  q[i].fn \in mixed'
    <3>1. CASE i \in 1 .. n /\ k \in 1 .. n
      <4>1. frames[i].fn \in mixed
        BY <1>4, <2>5, <2>8, <3>1 DEF Owns
      <4> QED BY <2>4, <2>5, <3>1, <4>1
    <3>2. CASE i = n + 1
      BY <1>2, <1>5, <1>6, <2>1, <2>4, <2>8, <3>2
    <3>3. CASE k = n + 1
      BY <1>2, <1>5, <1>6, <2>1, <2>4, <2>8, <3>3
    <3> QED BY <1>5, <1>6, <3>1, <3>2, <3>3
  <2> QED BY <2>6, <2>7, <2>8 DEF Owns
<1> QED BY <1>1, <1>8, <1>9, <1>10 DEF q

-----------------------------------------------------------------------------
(* A return, an answer, and instructions *)

LEMMA BelowLast ==
    ASSUME NEW n \in Nat, n > 0
    PROVE  /\ \A i \in 1 .. n - 1 : i \in 1 .. n /\ i # n
           /\ n \in 1 .. n /\ (n - 1) + 1 = n /\ n - 1 < n
  OBVIOUS

LEMMA DepthLike ==
    ASSUME NEW fr \in Seq(FrameSet), fr # <<>>, NEW d \in Nat
    PROVE  /\ Like(WithDepth(fr, d), fr) /\ WithDepth(fr, d)[Len(fr)].at = fr[Len(fr)].at
           /\ WithDepth(fr, d)[Len(fr)].depth = d /\ WithDepth(fr, d)[Len(fr)].h = fr[Len(fr)].h
<1>1. /\ WithDepth(fr, d) \in Seq(FrameSet) /\ Len(WithDepth(fr, d)) = Len(fr)
      /\ \A i \in 1 .. Len(fr) - 1 : WithDepth(fr, d)[i] = fr[i]
      /\ Fields(WithDepth(fr, d)[Len(fr)], fr[Len(fr)])
      /\ WithDepth(fr, d)[Len(fr)].at = fr[Len(fr)].at
      /\ WithDepth(fr, d)[Len(fr)].depth = d
  BY DepthFacts
<1> QED BY <1>1 DEF Like, Fields

LEMMA AtLike ==
    ASSUME NEW fr \in Seq(FrameSet), fr # <<>>,
           NEW place \in {"run", "enter", "wait", "ok", "err"}
    PROVE  /\ Like(WithAt(fr, place), fr) /\ WithAt(fr, place)[Len(fr)].at = place
           /\ WithAt(fr, place)[Len(fr)].depth = fr[Len(fr)].depth
           /\ WithAt(fr, place)[Len(fr)].h = fr[Len(fr)].h
<1>1. /\ WithAt(fr, place) \in Seq(FrameSet) /\ Len(WithAt(fr, place)) = Len(fr)
      /\ \A i \in 1 .. Len(fr) - 1 : WithAt(fr, place)[i] = fr[i]
      /\ Fields(WithAt(fr, place)[Len(fr)], fr[Len(fr)])
      /\ WithAt(fr, place)[Len(fr)].at = place
      /\ WithAt(fr, place)[Len(fr)].depth = fr[Len(fr)].depth
  BY AtFacts
<1> QED BY <1>1 DEF Like, Fields

LEMMA LowerRuns ==
    ASSUME CInv
    PROVE  \A i \in DOMAIN frames : i < Len(frames) => frames[i].at \in {"run", "wait"}
  BY DEF CInv, ShapeOf, Lower

\* The frames up to the p-th have on the stack what they believe, up to where the
\* next one begins.
LEMMA CutEven ==
    ASSUME NEW fr \in Seq(FrameSet), NEW p \in Nat, p < Len(fr), NEW q \in Seq(FrameSet),
           Len(q) = p, \A i \in 1 .. p : q[i] = fr[i]
    PROVE  /\ \A n : Even(fr, n) => Even(q, fr[p + 1].h)
           /\ Idle(fr) => Idle(q)
<1>1. Len(fr) \in Nat /\ DOMAIN fr = 1 .. Len(fr) /\ DOMAIN q = 1 .. p
  OBVIOUS
<1>2. \A i \in 1 .. p : i \in DOMAIN fr /\ i < Len(fr) /\ (i < p \/ i = p) /\ ~(p < p)
                        /\ (i < p => i + 1 \in 1 .. p)
  BY <1>1
<1>3. Idle(fr) => Idle(q)
  BY <1>1, <1>2 DEF Idle
<1>4. ASSUME NEW n, Even(fr, n), NEW i \in 1 .. p, q[i].at # "err"
      PROVE  (IF i < p THEN q[i + 1].h ELSE fr[p + 1].h) = q[i].h + q[i].depth
  <2>1. fr[i + 1].h = q[i].h + q[i].depth
    BY <1>2, <1>4 DEF Even
  <2> QED BY <1>2, <2>1
<1> QED BY <1>1, <1>3, <1>4 DEF Even

LEMMA WorkingTidy ==
    ASSUME DInv, InScript, NEW d \in Nat, frames' = WithDepth(frames, d),
           UNCHANGED <<argv, mixed, dirty>>,
           Even(frames, Len(stk)) => Len(stk') = Running.h + d
    PROVE  DNext
<1> DEFINE q == WithDepth(frames, d)
<1>1. /\ frames \in Seq(FrameSet) /\ frames # <<>> /\ Len(frames) > 0
      /\ Running = frames[Len(frames)] /\ CInv /\ Running.at = "run"
  BY RunningFacts DEF DInv, InScript
<1>2. /\ Like(q, frames) /\ q[Len(frames)].at = "run" /\ q[Len(frames)].depth = d
      /\ q[Len(frames)].h = Running.h
  BY <1>1, DepthLike
<1>3. frames' = q
  OBVIOUS
<1> HIDE DEF q
<1>4. Idle(q)
  BY <1>1, <1>2, LikeIdle DEF DInv
<1>5. Owns(q, argv, mixed)
  BY <1>1, <1>2, LikeOwns DEF DInv
<1>6. ASSUME ~dirty PROVE Even(q, Len(stk'))
  <2>1. Even(frames, Len(stk)) /\ \A i \in DOMAIN frames : i < Len(frames) => frames[i].at # "err"
    BY <1>1, <1>6, LowerRuns DEF DInv
  <2>2. Len(stk') = q[Len(frames)].h + q[Len(frames)].depth
    BY <1>2, <2>1
  <2> QED BY <1>1, <1>2, <2>1, <2>2, LikeEven
<1> QED BY <1>3, <1>4, <1>5, <1>6 DEF DNext

LEMMA LeavingTidy ==
    ASSUME DInv, frames # <<>>, NEW rv \in {0, 1}, NEW from \in Seq(Value), rv <= Len(from),
           Leave(rv, from),
           ~dirty' => Even(frames, Len(stk)) /\ Len(from) = Running.h + rv
    PROVE  DNext
<1> DEFINE rest == Front(frames)
           n == Len(frames)
           f == Running.fn
<1>1. /\ n \in Nat /\ n > 0 /\ DOMAIN frames = 1 .. n /\ frames \in Seq(FrameSet)
      /\ Running \in FrameSet /\ Running.h \in Nat /\ Running = frames[n] /\ CInv /\ n = Len(frames)
  BY SMTT(60), RunningFacts DEF DInv
<1>2. /\ rest \in Seq(FrameSet) /\ Len(rest) = n - 1 /\ \A i \in 1 .. n - 1 : rest[i] = frames[i]
      /\ rest # <<>> => Last(rest) = frames[n - 1] /\ Lower(frames[n - 1])
                        /\ frames[n - 1] \in FrameSet
  BY ZenonT(60), <1>1, FrontFacts
<1>3. f \in Callable /\ Running.aret \in {0, 1}
  BY SMTT(60), <1>1 DEF FrameSet
<1>4. /\ argv' = [argv EXCEPT ![f] = <<>>]
      /\ mixed' = IF \E i \in DOMAIN rest : rest[i].fn = f THEN mixed ELSE mixed \ {f}
      /\ \/ rest = <<>> /\ frames' = <<>>
         \/ /\ rest # <<>> /\ Last(rest).fn = PCall /\ stk' = from
            /\ frames' = WithDepth(WithAt(rest, "ok"), rv)
         \/ /\ rest # <<>> /\ Last(rest).fn \in Fun
            /\ stk' = Adjusted(from, rv, Running.aret)
            /\ frames' = WithDepth(rest, Last(rest).depth + Running.aret)
  BY DEF Leave, Emptied
<1>5. argv \in [Callable -> Seq(Value)] /\ Owns(frames, argv, mixed) /\ Idle(frames)
  BY DEF DInv, CInv, TypeOK
<1>a. DOMAIN rest = 1 .. n - 1 /\ n - 1 \in Nat
  BY <1>1, <1>2
<1>b. \A i \in 1 .. n : i \in 1 .. n - 1 \/ i = n
  BY ZenonT(60), <1>1, LastIndex
<1>c. /\ \A i \in 1 .. n - 1 : i \in 1 .. n /\ i # n
      /\ n \in 1 .. n /\ (n - 1) + 1 = n /\ n - 1 < n
  BY <1>1, BelowLast
<1> HIDE DEF rest, n, f
<1>6. Owns(rest, argv', mixed')
  <2>1. \A i \in 1 .. n - 1 : frames[i].fn = f => f \in mixed
    BY <1>1, <1>5, <1>c DEF Owns, f
  <2>2. mixed' = mixed \/ (mixed' = mixed \ {f} /\ \A i \in DOMAIN rest : rest[i].fn # f)
    BY <1>4
  <2>3. ASSUME NEW g \in Callable \ mixed', \A i \in DOMAIN rest : rest[i].fn # g
        PROVE  argv'[g] = <<>>
    <3>1. CASE g = f
      BY <1>4, <1>5, <3>1
    <3>2. CASE g # f
      <4>1. \A i \in DOMAIN frames : frames[i].fn # g
        BY <1>1, <1>2, <1>a, <1>b, <2>3, <3>2 DEF f
      <4>2. g \notin mixed
        BY <2>2, <2>3, <3>2
      <4>3. argv[g] = <<>>
        BY <1>5, <2>3, <4>1, <4>2 DEF Owns
      <4> QED BY SMTT(60), <1>4, <1>5, <2>3, <3>2, <4>3
    <3> QED BY <3>1, <3>2
  <2>4. ASSUME NEW i \in DOMAIN rest, rest[i].fn \notin mixed'
        PROVE  argv'[rest[i].fn] = rest[i].args
    <3>1. rest[i] = frames[i] /\ i \in DOMAIN frames /\ i \in 1 .. n - 1
      BY <1>1, <1>2, <1>a, <1>c
    <3>2. rest[i].fn # f
      BY <2>1, <2>2, <2>4, <3>1
    <3>3. frames[i].fn \notin mixed
      BY <2>2, <2>4, <3>1, <3>2
    <3>4. argv[frames[i].fn] = frames[i].args
      BY <1>5, <3>1, <3>3 DEF Owns
    <3>5. frames[i].fn \in Callable
      <4>1. frames[i] \in FrameSet
        BY <1>1, <3>1
      <4> QED BY <4>1 DEF FrameSet
    <3> QED BY SMTT(60), <1>4, <1>5, <3>1, <3>2, <3>4, <3>5
  <2>5. ASSUME NEW i \in DOMAIN rest, NEW k \in DOMAIN rest, i # k, rest[i].fn = rest[k].fn
        PROVE  rest[i].fn \in mixed'
    <3>1. rest[i] = frames[i] /\ i \in DOMAIN frames /\ rest[k] = frames[k] /\ k \in DOMAIN frames
      BY <1>1, <1>2, <1>a, <1>c
    <3>2. rest[i].fn \in mixed
      BY <1>5, <2>5, <3>1 DEF Owns
    <3> QED BY SMTT(60), <2>2, <3>2
  <2> QED BY SMTT(60), <2>3, <2>4, <2>5 DEF Owns
<1>7. Idle(rest) /\ (~dirty' => Even(rest, Running.h))
  <2>1. n - 1 < Len(frames) /\ frames[(n - 1) + 1] = Running
    BY <1>1, <1>c
  <2> QED BY SMTT(60), <1>1, <1>2, <1>5, <1>a, <2>1, CutEven
<1>8. ASSUME rest # <<>>
      PROVE  /\ Len(rest) > 0 /\ rest[Len(rest)] = frames[n - 1] /\ Last(rest) = frames[n - 1]
             /\ \A i \in DOMAIN rest : rest[i].at # "err"
             /\ frames[n - 1] \in FrameSet /\ Lower(frames[n - 1]) /\ n - 1 \in DOMAIN frames
             /\ frames[n - 1].depth \in Nat /\ frames[n - 1].h \in Nat
             /\ ~dirty' => Running.h = frames[n - 1].h + frames[n - 1].depth
  <2>1. Len(rest) > 0 /\ n - 1 \in 1 .. n - 1
    <3>1. Len(rest) # 0
      BY <1>2, <1>8
    <3>2. n - 1 \in Nat /\ n - 1 # 0 /\ Len(rest) = n - 1
      BY <1>2, <1>a, <3>1
    <3>3. \A m \in Nat : m # 0 => m > 0 /\ m \in 1 .. m
      OBVIOUS
    <3> QED BY <3>2, <3>3
  <2>2. \A i \in 1 .. n - 1 : i \in DOMAIN frames /\ i < Len(frames)
    BY <1>1
  <2>3. \A i \in DOMAIN rest : rest[i].at # "err"
    BY <1>1, <1>2, <1>a, <2>2, LowerRuns
  <2>4. rest[Len(rest)] = frames[n - 1] /\ frames[n - 1] \in FrameSet
    BY <1>2, <1>8, <2>1
  <2>5. ~dirty' => Running.h = frames[n - 1].h + frames[n - 1].depth
    <3> SUFFICES ASSUME ~dirty' PROVE Running.h = frames[n - 1].h + frames[n - 1].depth
      OBVIOUS
    <3>1. Even(rest, Running.h) /\ n - 1 \in DOMAIN rest /\ ~(n - 1 < Len(rest))
      BY <1>2, <1>7, <1>a, <2>1
    <3>2. rest[n - 1].at # "err" /\ rest[n - 1] = frames[n - 1]
      BY <1>2, <2>1, <2>3, <3>1
    <3> QED BY <3>1, <3>2 DEF Even
  <2> QED BY <1>2, <1>8, <2>1, <2>2, <2>3, <2>4, <2>5 DEF FrameSet
<1>9. CASE rest = <<>> /\ frames' = <<>>
  <2>1. Owns(frames', argv', mixed')
    BY <1>6, <1>9
  <2>2. Idle(frames') /\ Even(frames', Len(stk'))
    BY <1>9 DEF Idle, Even
  <2> QED BY <2>1, <2>2 DEF DNext
<1>10. CASE /\ rest # <<>> /\ Last(rest).fn = PCall /\ stk' = from
            /\ frames' = WithDepth(WithAt(rest, "ok"), rv)
  <2> DEFINE w == WithAt(rest, "ok")
             q == WithDepth(w, rv)
  <2>1. /\ Like(w, rest) /\ w[Len(rest)].at = "ok" /\ w[Len(rest)].h = frames[n - 1].h
    BY <1>2, <1>8, <1>10, AtLike
  <2>2. w \in Seq(FrameSet) /\ Len(w) = Len(rest) /\ w # <<>> /\ rv \in Nat
    BY <1>2, <1>8, <1>10, <2>1 DEF Like
  <2>3. /\ Like(q, w) /\ q[Len(w)].at = "ok" /\ q[Len(w)].depth = rv
        /\ q[Len(w)].h = frames[n - 1].h
    <3> HIDE DEF w
    <3> QED BY <2>1, <2>2, DepthLike
  <2> HIDE DEF q, w
  <2>4. Like(q, rest)
    <3>1. /\ Len(q) = Len(rest) /\ q \in Seq(FrameSet)
          /\ \A i \in 1 .. Len(rest) - 1 : q[i] = rest[i]
      BY <2>1, <2>2, <2>3 DEF Like
    <3>2. Fields(q[Len(rest)], w[Len(rest)]) /\ Fields(w[Len(rest)], rest[Len(rest)])
      BY <1>8, <1>10, <2>1, <2>2, <2>3 DEF Like
    <3>3. Fields(q[Len(rest)], rest[Len(rest)])
      BY <3>2 DEF Fields
    <3> QED BY <3>1, <3>3 DEF Like
  <2>5. Idle(q)
    BY <1>2, <1>7, <1>8, <1>10, <2>2, <2>3, <2>4, LikeIdle
  <2>6. Owns(q, argv', mixed')
    BY <1>2, <1>6, <2>4, LikeOwns
  <2>7. ASSUME ~dirty' PROVE Even(q, Len(from))
    <3>1. frames[n - 1].at = "wait"
      BY <1>8, <1>10, CallAssumption DEF Lower
    <3>2. frames[n - 1].depth = 0
      BY <1>5, <1>8, <1>10, <3>1 DEF Idle
    <3>3. Len(from) = q[Len(rest)].h + q[Len(rest)].depth
      BY <1>8, <1>10, <2>2, <2>3, <2>7, <3>2
    <3> QED BY <1>2, <1>7, <1>8, <1>10, <2>4, <2>7, <3>3, LikeEven
  <2>8. frames' = q /\ stk' = from
    BY <1>10 DEF q, w
  <2> QED BY <2>5, <2>6, <2>7, <2>8 DEF DNext
<1>11. CASE /\ rest # <<>> /\ Last(rest).fn \in Fun
            /\ stk' = Adjusted(from, rv, Running.aret)
            /\ frames' = WithDepth(rest, Last(rest).depth + Running.aret)
  <2> DEFINE d == Last(rest).depth + Running.aret
             q == WithDepth(rest, d)
  <2>1. d \in Nat /\ d = frames[n - 1].depth + Running.aret
    BY <1>3, <1>8, <1>11
  <2>2. frames' = q
    BY <1>11
  <2> HIDE DEF d
  <2>3. /\ Like(q, rest) /\ q[Len(rest)].at = frames[n - 1].at /\ q[Len(rest)].depth = d
        /\ q[Len(rest)].h = frames[n - 1].h
    BY <1>2, <1>8, <1>11, <2>1, DepthLike
  <2> HIDE DEF q
  <2>4. frames[n - 1].at = "run"
    BY <1>1, <1>8, <1>11 DEF CInv, ShapeOf
  <2>5. Idle(q)
    BY <1>2, <1>7, <1>8, <1>11, <2>3, <2>4, LikeIdle
  <2>6. Owns(q, argv', mixed')
    BY <1>2, <1>6, <2>3, LikeOwns
  <2>7. ASSUME ~dirty' PROVE Even(q, Len(stk'))
    <3>1. Len(stk') = Len(from) - rv + Running.aret
      BY <1>3, <1>11, AdjustedFacts
    <3>2. Len(from) = Running.h + rv /\ Running.h = frames[n - 1].h + frames[n - 1].depth
          /\ frames[n - 1].h \in Nat /\ frames[n - 1].depth \in Nat
      BY <1>8, <1>11, <2>7
    <3>3. Len(stk') = q[Len(rest)].h + q[Len(rest)].depth
      BY SMTT(60), <1>3, <2>1, <2>3, <3>1, <3>2
    <3> QED BY <1>2, <1>7, <1>8, <1>11, <2>3, <2>7, <3>3, LikeEven
  <2> QED BY <2>2, <2>5, <2>6, <2>7 DEF DNext
<1> QED BY <1>4, <1>9, <1>10, <1>11

-----------------------------------------------------------------------------
(* Each action *)

\* What the running frame has on the stack.
LEMMA RunningEven ==
    ASSUME CInv, frames # <<>>, Running.at # "err", Even(frames, Len(stk))
    PROVE  Len(stk) = Running.h + Running.depth
<1>1. Len(frames) \in DOMAIN frames /\ ~(Len(frames) < Len(frames)) /\ Running = frames[Len(frames)]
  BY RunningFacts
<1> QED BY <1>1 DEF Even

\* What LinkTidy and the frames of the callers give.
LEMMA LinkedTidy ==
    ASSUME DInv, NEW f \in Callable, NEW args \in Seq(Value), NEW callers, Like(callers, frames),
           Idle(callers), NEW below \in Seq(Value), NEW aret, Link(f, args, callers, below, aret),
           ~dirty' => Even(callers, Len(below))
    PROVE  DNext
<1>1. CInv /\ Owns(frames, argv, mixed)
  BY DEF DInv
<1>2. /\ Idle(frames') /\ Owns(frames', argv', mixed') /\ stk' = below
      /\ Even(callers, Len(below)) => Even(frames', Len(below))
  BY <1>1, LinkTidy
<1> QED BY <1>2 DEF DNext

LEMMA HostCallTidy ==
    ASSUME DInv, NEW f \in Fun, NEW n \in Nat, NEW args \in [1 .. n -> Data], HostCall(f, args)
    PROVE  DNext
<1>1. frames = <<>> /\ Link(f, args, <<>>, stk, 0) /\ stk \in Seq(Value)
  BY DEF HostCall, DInv, CInv, TypeOK
<1>2. args \in Seq(Value) /\ f \in Callable
  BY DEF Value, Callable
<1>3. Like(<<>>, frames) /\ Idle(<<>>) /\ Even(<<>>, Len(stk))
  BY <1>1 DEF Like, Idle, Even
<1> QED BY <1>1, <1>2, <1>3, LinkedTidy

LEMMA CallingTidy ==
    ASSUME DInv, InScript, NEW f \in Callable, NEW n \in Nat, n <= Running.depth, NEW aret,
           NEW args \in Seq(Value),
           Link(f, args, WithDepth(frames, Running.depth - n), Popped(n), aret), dirty' = dirty
    PROVE  DNext
<1> DEFINE d == Running.depth - n
           caller == WithDepth(frames, d)
           below == Popped(n)
<1>1. /\ Len(frames) > 0 /\ frames \in Seq(FrameSet) /\ stk \in Seq(Value) /\ Running.h \in Nat
      /\ Running.depth \in Nat /\ Running.h + Owed(Running) <= Len(stk) /\ Running.at = "run"
      /\ frames # <<>> /\ Running = frames[Len(frames)] /\ CInv
  BY RunningFacts DEF InScript, DInv
<1>2. d \in Nat /\ Owed(Running) = Running.depth /\ n <= Len(stk)
  BY <1>1 DEF Owed
<1>3. below \in Seq(Value) /\ Len(below) = Len(stk) - n
  <2>1. Len(stk) - n \in Nat /\ Len(stk) - n <= Len(stk)
    BY <1>1, <1>2
  <2> QED BY <1>1, <2>1, Prefix DEF Popped
<1>a. ASSUME Even(frames, Len(stk)) PROVE Len(below) = Running.h + d
  <2>1. Len(stk) = Running.h + Running.depth
    BY <1>1, <1>a, RunningEven
  <2>2. \A x, h, b, k \in Nat : x = h + b => x - k = h + (b - k)
    OBVIOUS
  <2>3. Len(stk) \in Nat
    BY <1>1
  <2>4. Len(stk) - n = Running.h + (Running.depth - n)
    BY <1>1, <2>1, <2>2, <2>3
  <2> QED BY <1>3, <2>4
<1>b. Link(f, args, caller, below, aret)
  OBVIOUS
<1> HIDE DEF d, below
<1>4. /\ Like(caller, frames) /\ caller[Len(frames)].at = "run" /\ caller[Len(frames)].depth = d
      /\ caller[Len(frames)].h = Running.h
  BY <1>1, <1>2, DepthLike
<1> HIDE DEF caller
<1>5. Idle(caller)
  BY <1>1, <1>4, LikeIdle DEF DInv
<1>6. ~dirty' => Even(caller, Len(below))
  <2> SUFFICES ASSUME ~dirty PROVE Even(caller, Len(below))
    OBVIOUS
  <2>1. Even(frames, Len(stk)) /\ \A i \in DOMAIN frames : i < Len(frames) => frames[i].at # "err"
    BY <1>1, LowerRuns DEF DInv
  <2> QED BY <1>1, <1>4, <1>a, <2>1, LikeEven
<1> QED BY <1>3, <1>4, <1>5, <1>6, <1>b, LinkedTidy

LEMMA CallTidy ==
    ASSUME DInv, NEW argc \in Nat, NEW aret \in {0, 1}, Call(argc, aret)
    PROVE  DNext
<1> DEFINE f == stk[Len(stk) - argc]
<1>1. /\ InScript /\ Running.depth > argc /\ f \in Callable /\ dirty' = dirty
      /\ Link(f, Topmost(argc), WithDepth(frames, Running.depth - (argc + 1)),
              Popped(argc + 1), aret)
  BY DEF Call
<1>2. /\ Running.depth \in Nat /\ stk \in Seq(Value) /\ Running.h + Owed(Running) <= Len(stk)
      /\ Running.at = "run" /\ Running.h \in Nat
  BY <1>1, RunningFacts DEF InScript, DInv
<1>3. argc + 1 <= Running.depth /\ argc <= Len(stk) /\ argc + 1 \in Nat
  BY <1>1, <1>2 DEF Owed
<1>4. Topmost(argc) \in Seq(Value)
  BY <1>2, <1>3, TopmostType
<1> HIDE DEF f
<1> QED BY <1>1, <1>3, <1>4, CallingTidy

LEMMA SelfCallTidy ==
    ASSUME DInv, NEW f \in Callable, NEW argc \in Nat, NEW aret \in {0, 1},
           SelfCall(f, argc, aret)
    PROVE  DNext
<1>1. /\ InScript /\ Running.depth > argc /\ dirty' = dirty
      /\ Link(f, Topmost(argc + 1), WithDepth(frames, Running.depth - (argc + 1)),
              Popped(argc + 1), aret)
  BY DEF SelfCall
<1>2. /\ Running.depth \in Nat /\ stk \in Seq(Value) /\ Running.h + Owed(Running) <= Len(stk)
      /\ Running.at = "run" /\ Running.h \in Nat
  BY <1>1, RunningFacts DEF InScript, DInv
<1>3. argc + 1 <= Running.depth /\ argc + 1 <= Len(stk) /\ argc + 1 \in Nat
  BY <1>1, <1>2 DEF Owed
<1>4. Topmost(argc + 1) \in Seq(Value)
  BY <1>2, <1>3, TopmostType
<1> QED BY <1>1, <1>3, <1>4, CallingTidy

LEMMA PushTidy ==
    ASSUME DInv, NEW v \in Value, Push(v)
    PROVE  DNext
<1>1. /\ InScript /\ stk' = Append(stk, v) /\ frames' = WithDepth(frames, Running.depth + 1)
      /\ UNCHANGED <<argv, mixed, dirty>> /\ CInv /\ frames # <<>>
  BY DEF Push, DInv, InScript
<1>2. stk \in Seq(Value) /\ Running.h \in Nat /\ Running.depth \in Nat /\ Running.at = "run"
  BY <1>1, RunningFacts DEF InScript
<1>3. Even(frames, Len(stk)) => Len(stk) = Running.h + Running.depth
  BY <1>1, <1>2, RunningEven
<1>4. Running.depth + 1 \in Nat /\ Len(stk') = Len(stk) + 1
  BY <1>1, <1>2
<1>5. Even(frames, Len(stk)) => Len(stk') = Running.h + (Running.depth + 1)
  BY <1>2, <1>3, <1>4
<1> QED BY <1>1, <1>4, <1>5, WorkingTidy

LEMMA StoreTidy ==
    ASSUME DInv, NEW i \in Nat, Store(i)
    PROVE  DNext
<1>1. /\ InScript /\ Running.depth > 0 /\ stk' = Popped(1)
      /\ frames' = WithDepth(frames, Running.depth - 1)
      /\ UNCHANGED <<argv, mixed, dirty>> /\ CInv /\ frames # <<>>
  BY DEF Store, DInv, InScript
<1>2. /\ stk \in Seq(Value) /\ Running.h \in Nat /\ Running.depth \in Nat /\ Running.at = "run"
      /\ Running.h + Owed(Running) <= Len(stk)
  BY <1>1, RunningFacts DEF InScript
<1>3. Even(frames, Len(stk)) => Len(stk) = Running.h + Running.depth
  BY <1>1, <1>2, RunningEven
<1>4. Len(stk) - 1 \in Nat /\ Len(stk) - 1 <= Len(stk) /\ Running.depth - 1 \in Nat
  BY <1>1, <1>2 DEF Owed
<1>5. Len(stk') = Len(stk) - 1
  BY <1>1, <1>2, <1>4, Prefix DEF Popped
<1>6. Even(frames, Len(stk)) => Len(stk') = Running.h + (Running.depth - 1)
  BY <1>2, <1>3, <1>5
<1> QED BY <1>1, <1>4, <1>6, WorkingTidy

LEMMA ReturnTidy ==
    ASSUME DInv, Return
    PROVE  DNext
<1>1. /\ InScript /\ Running.depth \in {0, 1} /\ Leave(Running.depth, stk)
      /\ dirty' = dirty /\ CInv /\ frames # <<>>
  BY DEF Return, DInv, InScript
<1>2. /\ stk \in Seq(Value) /\ Running.h + Owed(Running) <= Len(stk) /\ Running.at = "run"
      /\ Running.h \in Nat
  BY <1>1, RunningFacts DEF InScript
<1>3. Running.depth <= Len(stk)
  BY <1>1, <1>2 DEF Owed
<1>4. ~dirty' => Even(frames, Len(stk)) /\ Len(stk) = Running.h + Running.depth
  BY <1>1, <1>2, RunningEven DEF DInv
<1> QED BY <1>1, <1>2, <1>3, <1>4, LeavingTidy

LEMMA AnswerTidy ==
    ASSUME DInv, Answer
    PROVE  DNext
<1> DEFINE taken == IF Running.at = "err" THEN 3 ELSE Running.depth
           from == Append(Popped(taken), Ref)
<1>1. /\ frames # <<>> /\ Leave(1, from) /\ dirty' = (dirty \/ Len(stk) - taken > Running.h)
      /\ CInv
  BY DEF Answer, InNative, DInv
<1>2. /\ stk \in Seq(Value) /\ Running.h + Owed(Running) <= Len(stk)
      /\ Running.h \in Nat /\ Running.depth \in Nat
  BY <1>1, RunningFacts
<1>3. /\ taken \in Nat /\ Running.h + taken <= Len(stk) /\ taken <= Len(stk)
      /\ Len(stk) - taken \in Nat
  BY <1>2 DEF Owed
<1> HIDE DEF taken
<1>4. Popped(taken) \in Seq(Value) /\ Len(Popped(taken)) = Len(stk) - taken
  BY <1>2, <1>3, Prefix DEF Popped
<1>5. from \in Seq(Value) /\ Len(from) = Len(stk) - taken + 1
  <2>1. Ref \in Value
    BY DEF Value
  <2> QED BY <1>4, <2>1, Appending
<1> HIDE DEF from
<1>6. ~dirty' => ~dirty /\ ~(Len(stk) - taken > Running.h)
  BY <1>1
<1>7. ~dirty' => Len(from) = Running.h + 1
  BY <1>2, <1>3, <1>5, <1>6
<1>8. 1 \in {0, 1} /\ 1 <= Len(from) /\ (~dirty' => Even(frames, Len(stk)))
  BY <1>3, <1>5, <1>6 DEF DInv
<1> QED BY <1>1, <1>5, <1>7, <1>8, LeavingTidy

LEMMA ProtectTidy ==
    ASSUME DInv, Protect
    PROVE  DNext
<1> DEFINE callers == WithAt(frames, "wait")
<1>1. /\ frames # <<>> /\ Running.fn = PCall /\ Running.at = "enter"
      /\ argv[PCall] # <<>> /\ Head(argv[PCall]) \in Callable /\ dirty' = dirty
      /\ Link(Head(argv[PCall]), Tail(argv[PCall]), callers, stk, 0) /\ CInv
  BY DEF Protect, InNative, DInv
<1>2. /\ frames \in Seq(FrameSet) /\ Len(frames) > 0 /\ stk \in Seq(Value)
      /\ Running = frames[Len(frames)] /\ Running.h \in Nat /\ Len(frames) \in DOMAIN frames
  BY <1>1, RunningFacts
<1>3. Tail(argv[PCall]) \in Seq(Value)
  <2>1. argv[PCall] \in Seq(Value)
    BY <1>1 DEF CInv, TypeOK, Callable
  <2> QED BY <1>1, <2>1
<1>4. /\ Like(callers, frames) /\ callers[Len(frames)].at = "wait"
      /\ callers[Len(frames)].depth = Running.depth /\ callers[Len(frames)].h = Running.h
  BY <1>1, <1>2, AtLike
<1> HIDE DEF callers
<1>5. Running.depth = 0
  BY <1>1, <1>2 DEF DInv, Idle
<1>6. Idle(callers)
  BY <1>2, <1>4, <1>5, LikeIdle DEF DInv
<1>7. ~dirty' => Even(callers, Len(stk))
  <2> SUFFICES ASSUME ~dirty PROVE Even(callers, Len(stk))
    BY <1>1
  <2>1. Even(frames, Len(stk)) /\ \A i \in DOMAIN frames : i < Len(frames) => frames[i].at # "err"
    BY <1>1, LowerRuns DEF DInv
  <2>2. Len(stk) = Running.h + Running.depth
    BY <1>1, <2>1, RunningEven
  <2> QED BY <1>2, <1>4, <2>1, <2>2, LikeEven
<1> QED BY <1>1, <1>2, <1>3, <1>4, <1>6, <1>7, LinkedTidy

LEMMA RaiseTidy ==
    ASSUME DInv, Raise
    PROVE  DNext
<1> DEFINE j == Last(jpts)
           p == j.at
           m == Len(frames)
           cut == SubSeq(frames, 1, p)
           gone == {frames[i].fn : i \in p + 1 .. m - 1}
<1>1. /\ frames # <<>> /\ Running.fn = Error /\ argv' = [argv EXCEPT ![Error] = <<>>]
      /\ mixed' = mixed \cup gone /\ dirty' = dirty
      /\ \/ j.level > 1 /\ frames' = WithAt(cut, "err")
         \/ ~(j.level > 1) /\ frames' = <<>>
  BY DEF Raise, InNative, Emptied
<1>2. /\ m \in Nat /\ m > 0 /\ DOMAIN frames = 1 .. m /\ frames \in Seq(FrameSet)
      /\ jpts \in Seq(BufferSet) /\ m = Len(frames) /\ Running = frames[m] /\ CInv
      /\ BuffersOf(frames, jpts) /\ argv \in [Callable -> Seq(Value)]
      /\ Owns(frames, argv, mixed) /\ Idle(frames)
  BY <1>1, RunningFacts DEF DInv, CInv, TypeOK
<1>3. j = jpts[Len(jpts)] /\ j \in BufferSet /\ Len(jpts) \in DOMAIN jpts /\ Len(jpts) \in Nat
  <2>1. jpts # <<>>
    BY <1>1, <1>2 DEF BuffersOf
  <2> QED BY <1>2, <2>1 DEF Last
<1>4. p \in Nat /\ p < m /\ (j.level > 1 => p > 0) /\ (~(j.level > 1) => p = 0)
  <2>1. j.level = Len(jpts) /\ p < m /\ p \in Nat
    BY <1>2, <1>3 DEF BuffersOf, BufferSet
  <2>2. Len(jpts) > 1 => p \in DOMAIN frames
    BY <1>2, <1>3 DEF BuffersOf
  <2>3. ~(Len(jpts) > 1) => Len(jpts) = 1
    <3>1. Len(jpts) \in 1 .. Len(jpts)
      BY <1>2, <1>3
    <3>2. \A x \in Nat : x \in 1 .. x /\ ~(x > 1) => x = 1
      OBVIOUS
    <3>3. Len(jpts) \in Nat
      BY <1>2
    <3> QED BY <3>1, <3>2, <3>3
  <2>4. jpts # <<>> => jpts[1].at = 0
    BY <1>2 DEF BuffersOf
  <2>5. jpts # <<>>
    BY <1>1, <1>2 DEF BuffersOf
  <2> QED BY <1>2, <1>3, <2>1, <2>2, <2>3, <2>4, <2>5
<1>5. cut \in Seq(FrameSet) /\ Len(cut) = p /\ \A i \in 1 .. p : cut[i] = frames[i]
  <2>1. p <= Len(frames)
    BY <1>2, <1>4
  <2> HIDE DEF p
  <2> QED BY <1>2, <1>4, <2>1, Prefix
<1>6. /\ \A i \in 1 .. p : i \in 1 .. m /\ i # m /\ i < m
      /\ \A i \in 1 .. m : i \in 1 .. p \/ i \in p + 1 .. m - 1 \/ i = m
      /\ \A i \in p + 1 .. m - 1 : i \in 1 .. m
      /\ m \in 1 .. m
  <2>1. ASSUME NEW w \in Nat, NEW y \in Nat, y < w
        PROVE  /\ \A i \in 1 .. y : i \in 1 .. w /\ i # w /\ i < w
               /\ \A i \in 1 .. w : i \in 1 .. y \/ i \in y + 1 .. w - 1 \/ i = w
               /\ \A i \in y + 1 .. w - 1 : i \in 1 .. w
               /\ w \in 1 .. w
    BY <2>1
  <2>2. m \in Nat /\ p \in Nat /\ p < m
    BY <1>2, <1>4
  <2> HIDE DEF m, p
  <2> QED BY <2>1, <2>2
<1>a. DOMAIN cut = 1 .. p
  BY <1>5
<1>b. \A i \in 1 .. m - 1 : i \in p + 1 .. m - 1 => frames[i].fn \in gone
  OBVIOUS
<1>c. \A i \in p + 1 .. m - 1 : frames[i].fn \in gone
  OBVIOUS
<1> HIDE DEF j, p, m, cut, gone
<1>7. Owns(cut, argv', mixed')
  <2>1. \A i \in 1 .. p : frames[i].fn = Error => Error \in mixed
    BY ZenonT(60), <1>1, <1>2, <1>6 DEF Owns
  <2>2. \A i \in 1 .. m : frames[i].fn \in Callable
    <3>1. \A i \in 1 .. m : frames[i] \in FrameSet
      BY <1>2
    <3> QED BY <3>1 DEF FrameSet
  <2>3. ASSUME NEW g \in Callable \ mixed', \A i \in DOMAIN cut : cut[i].fn # g
        PROVE  argv'[g] = <<>>
    <3>1. CASE g = Error
      BY <1>1, <1>2, <3>1
    <3>2. CASE g # Error
      <4>1. \A i \in 1 .. m : frames[i].fn # g
        BY ZenonT(60), <1>1, <1>2, <1>5, <1>6, <1>a, <1>c, <2>3, <3>2
      <4>2. argv[g] = <<>>
        BY <1>1, <1>2, <2>3, <4>1 DEF Owns
      <4> QED BY SMTT(60), <1>1, <1>2, <2>3, <3>2, <4>2
    <3> QED BY <3>1, <3>2
  <2>4. ASSUME NEW i \in DOMAIN cut, cut[i].fn \notin mixed'
        PROVE  argv'[cut[i].fn] = cut[i].args
    <3>1. cut[i] = frames[i] /\ i \in 1 .. p /\ i \in 1 .. m /\ frames[i].fn \notin mixed
      BY <1>1, <1>5, <1>6, <1>a, <2>4
    <3>2. frames[i].fn # Error
      BY <2>1, <3>1
    <3>3. argv[frames[i].fn] = frames[i].args
      BY <1>2, <3>1 DEF Owns
    <3> QED BY <1>1, <1>2, <2>2, <3>1, <3>2, <3>3
  <2>5. ASSUME NEW i \in DOMAIN cut, NEW k \in DOMAIN cut, i # k, cut[i].fn = cut[k].fn
        PROVE  cut[i].fn \in mixed'
    <3>1. cut[i] = frames[i] /\ i \in 1 .. m /\ cut[k] = frames[k] /\ k \in 1 .. m
      BY <1>5, <1>6, <1>a
    <3>2. cut[i].fn \in mixed
      BY <1>2, <2>5, <3>1 DEF Owns
    <3> QED BY <1>1, <3>2
  <2> QED BY SMTT(60), <2>3, <2>4, <2>5 DEF Owns
<1>8. CASE j.level > 1 /\ frames' = WithAt(cut, "err")
  <2> DEFINE q == WithAt(cut, "err")
  <2>1. cut # <<>> /\ Len(cut) > 0
    <3>1. p > 0
      BY <1>4, <1>8
    <3> QED BY <1>5, <3>1
  <2>2. Like(q, cut) /\ q[Len(cut)].at = "err"
    BY <1>5, <2>1, AtLike
  <2>3. frames' = q
    BY <1>8
  <2> HIDE DEF q
  <2>4. /\ \A n : Even(frames, n) => Even(cut, frames[p + 1].h)
        /\ Idle(cut)
    BY SMTT(60), <1>2, <1>4, <1>5, CutEven
  <2>5. \A i \in DOMAIN cut : cut[i].at # "err"
    BY <1>2, <1>5, <1>6, <1>a, LowerRuns
  <2>6. Idle(q) /\ Owns(q, argv', mixed')
    BY <1>5, <1>7, <2>1, <2>2, <2>4, LikeIdle, LikeOwns
  <2>7. ASSUME Even(frames, Len(stk)) PROVE Even(q, Len(stk'))
    <3>1. Even(cut, frames[p + 1].h)
      BY <2>4, <2>7
    <3> QED BY <1>5, <2>1, <2>2, <2>5, <3>1, LikeEven
  <2> QED BY <1>1, <2>3, <2>6, <2>7 DEF DNext, DInv
<1>9. CASE ~(j.level > 1) /\ frames' = <<>>
  <2>1. cut = <<>>
    BY <1>4, <1>5, <1>9
  <2>2. Owns(frames', argv', mixed')
    BY <1>7, <1>9, <2>1
  <2>3. Idle(frames') /\ Even(frames', Len(stk'))
    BY <1>9 DEF Idle, Even
  <2> QED BY <2>2, <2>3 DEF DNext
<1> QED BY <1>1, <1>8, <1>9

LEMMA PanicTidy ==
    ASSUME DInv, Panic
    PROVE  DNext
<1>1. PICK t \in DOMAIN jpts : jpts[t].level <= 1 /\ frames' = SubSeq(frames, 1, jpts[t].at)
  BY DEF Panic
<1>2. /\ frames # <<>> /\ argv' = argv /\ mixed' = mixed \cup {frames[i].fn : i \in DOMAIN frames}
      /\ frames \in Seq(FrameSet) /\ jpts \in Seq(BufferSet) /\ BuffersOf(frames, jpts)
      /\ Owns(frames, argv, mixed)
  BY DEF Panic, DInv, CInv, TypeOK, BufferSet
<1>3. t = 1 /\ jpts[1].at = 0
  <2>1. t \in Nat /\ t >= 1 /\ 1 \in DOMAIN jpts /\ jpts # <<>>
    BY <1>2
  <2>2. jpts[t].level = t /\ jpts[1].at = 0
    BY <1>2, <2>1 DEF BuffersOf
  <2> QED BY <1>1, <2>1, <2>2
<1>4. frames' = <<>>
  BY <1>1, <1>2, <1>3
<1>5. \A g \in Callable \ mixed' : argv'[g] = <<>>
  BY <1>2 DEF Owns
<1>6. Owns(frames', argv', mixed')
  BY <1>4, <1>5 DEF Owns
<1> QED BY <1>4, <1>6 DEF DNext, Idle, Even

LEMMA StepDInv ==
    ASSUME DInv, [Next]_vars
    PROVE  DInv'
<1>1. CInv'
  BY StepCInv DEF DInv
<1>2. DNext => DInv'
  BY <1>1 DEF DNext, DInv
<1>3. CASE \E f \in Fun, args \in UNION {[1 .. n -> Data] : n \in 0 .. MaxArgs} :
              HostCall(f, args)
  <2>1. PICK f \in Fun, n \in 0 .. MaxArgs : \E args \in [1 .. n -> Data] : HostCall(f, args)
    BY <1>3
  <2>2. PICK args \in [1 .. n -> Data] : HostCall(f, args)
    BY <2>1
  <2>3. n \in Nat
    OBVIOUS
  <2> QED BY <1>2, <2>2, <2>3, HostCallTidy
<1>4. CASE \E argc \in 0 .. MaxArgs, aret \in {0, 1} :
              \/ Call(argc, aret)
              \/ argc < MaxArgs /\ \E f \in Callable : SelfCall(f, argc, aret)
  <2>1. PICK argc \in 0 .. MaxArgs, aret \in {0, 1} :
           Call(argc, aret) \/ \E f \in Callable : SelfCall(f, argc, aret)
    BY <1>4
  <2>2. argc \in Nat
    OBVIOUS
  <2> QED BY <1>2, <2>1, <2>2, CallTidy, SelfCallTidy
<1>5. CASE \E v \in Callable \cup Data : Push(v)
  <2>1. Callable \cup Data \subseteq Value
    BY DEF Value
  <2> QED BY <1>2, <1>5, <2>1, PushTidy
<1>6. CASE \E i \in 0 .. MaxLocal : Store(i)
  <2>1. \A i \in 0 .. MaxLocal : i \in Nat
    OBVIOUS
  <2> QED BY <1>2, <1>6, <2>1, StoreTidy
<1>7. CASE Return \/ Protect \/ Answer \/ Raise \/ Panic
  BY <1>2, <1>7, ReturnTidy, ProtectTidy, AnswerTidy, RaiseTidy, PanicTidy
<1>8. CASE UNCHANGED vars
  BY <1>1, <1>8 DEF vars, DInv, Idle, Even, Owns
<1> QED BY <1>3, <1>4, <1>5, <1>6, <1>7, <1>8 DEF Next

LEMMA AlwaysDInv == Spec => []DInv
<1>1. Init => DInv
  <2> SUFFICES ASSUME Init PROVE DInv
    OBVIOUS
  <2>1. frames = <<>> /\ argv = [f \in Callable |-> <<>>] /\ CInv
    BY InitCInv DEF Init
  <2> QED BY <2>1 DEF DInv, Idle, Even, Owns
<1> QED BY <1>1, StepDInv, PTL DEF Spec

\* Every call leaves the value stack as the compiler has counted (ymd_adjust), through any
\* nesting of calls, natives, errors and panics, until a pcall catches an error that
\* was raised under pending operands.
THEOREM StackIsBalanced == Spec => []BalancedUnlessDirty
<1>1. DInv => BalancedUnlessDirty
  BY DEF DInv, BalancedUnlessDirty, Balanced, Even, Height
<1> QED BY <1>1, AlwaysDInv, PTL

\* fn->argv holds the arguments of the one call of a function, and nothing once
\* that has ended (dyay_final in vm_call), unless the function was entered again meanwhile
\* or a jump left it.
THEOREM ArgvIsOfCall == Spec => []ArgvOfCall
<1>1. DInv => ArgvOfCall
  BY DEF DInv, ArgvOfCall, Owns, Active
<1> QED BY <1>1, AlwaysDInv, PTL

=============================================================================

---------------------------- MODULE YmdFlowProofs ----------------------------
(***************************************************************************)
(* Theorems of the code generator (YmdCode): where the jumps of the        *)
(* finished code land, and what is on the stack there.                     *)
(*                                                                         *)
(* FInv says of each chunk that is being written what LoopsKept and        *)
(* OperandsAgree say of the finished code (Flows); of each pending         *)
(* function of the parser, in which loops the instructions are that it     *)
(* will patch, how many operands there are, and how many there are when    *)
(* it goes on (Nested, Fed and Linked, in Going); of the loops around,     *)
(* that they are numbered as they are nested (Ranked); and of the finished *)
(* code and the machine that runs it, the two properties (Runs).           *)
(*                                                                         *)
(* The compiler cuts offsets to their field, unchecked; the theorems are   *)
(* about code that has fewer instructions than it can count.               *)
(***************************************************************************)
EXTENDS YmdCompilerProofs

-----------------------------------------------------------------------------
(* The code generator: where jumps land, and what is on the stack *)

\* s is the beginning of v.
Pre(s, v) == Len(s) <= Len(v) /\ \A i \in 1 .. Len(s) : s[i] = v[i]

\* s without its last is the beginning of v, and its last is not in v.
PreBut(s, v) ==
    /\ Len(s) # 0
    /\ \A i \in 1 .. Len(s) - 1 : i \in 1 .. Len(v) /\ s[i] = v[i]
    /\ \A i \in 1 .. Len(v) : v[i] # s[Len(s)]

\* The loops from behind a to b, by their names.
Slice(lp, a, b) == [i \in 1 .. b - a |-> lp[a + i].id]

\* At position p of the code s: the operands, and the loops; k and n at its end.
HAt(s, k, p) == IF p \in 1 .. Len(s) THEN s[p].h ELSE k
NAt(s, n, p) == IF p \in 1 .. Len(s) THEN s[p].nest ELSE n

\* Offsets are not cut.
Short(s) == Len(s) < OffsetLimit

\* The operands begin with none, and follow from one instruction to the next; a loop
\* is entered before the instructions in it.
Chained(s, k, n) ==
    /\ HAt(s, k, 1) = 0
    /\ \A i \in 1 .. Len(s) : HAt(s, k, i + 1) = s[i].h - s[i].takes + s[i].gives
    /\ \A i \in 1 .. Len(s) + 1 : \A q \in 1 .. Len(NAt(s, n, i)) : NAt(s, n, i)[q][1] \in 0 .. i

\* A jump lands in the loops of the place it leaves from.
LandsIn(s, n, i) ==
    /\ s[i].to \in 1 .. Len(s) + 1
    /\ IF s[i].leaves THEN PreBut(s[i].nest, NAt(s, n, s[i].to))
       ELSE Pre(s[i].nest, NAt(s, n, s[i].to))

\* A jump lands where the operands are counted on that it leaves; a return has but its result.
LandsOn(s, k, i) ==
    /\ s[i].op \in Jumps => s[i].to \in 1 .. Len(s) + 1
    /\ s[i].op \in {"jne", "jnt", "jnn"} => s[i].takes = 1 /\ s[i].gives = 0
    /\ s[i].op = "foreach" => s[i].takes = 1 /\ s[i].gives = 1
    /\ s[i].op \in {"jmp", "jnt", "jnn"} => HAt(s, k, s[i].to) = s[i].h
    /\ s[i].op \in {"jne", "foreach"} => HAt(s, k, s[i].to) = s[i].h - 1
    /\ s[i].op = "ret" => s[i].takes = s[i].h

Turns == Jumps \cup {"ret"}
FlowsIn(s, n) == \A i \in 1 .. Len(s) : s[i].op \in Jumps => LandsIn(s, n, i)
Feeds(s) == \A i \in 1 .. Len(s) : s[i].takes <= s[i].h
FlowsOn(s, k) == \A i \in 1 .. Len(s) : s[i].op \in Turns => LandsOn(s, k, i)

\* Code c, of which the end is in the loops n, when the program has slipped as in z.
Flows(z, c, n) ==
    /\ Chained(c.inst, c.h, n)
    /\ "outer" \notin z /\ Short(c.inst) => FlowsIn(c.inst, n)
    /\ z = {} => Feeds(c.inst)
    /\ z = {} /\ Short(c.inst) => FlowsOn(c.inst, c.h)

\* Instruction i of c is in the loops n; and has, takes and gives so many operands.
Has(c, i, n) == i \in 1 .. Len(c.inst) /\ c.inst[i].nest = n
Was(c, i, k, takes, gives) ==
    /\ i \in 1 .. Len(c.inst) /\ c.inst[i].h = k
    /\ c.inst[i].takes = takes /\ c.inst[i].gives = gives

\* The loop l, within the loops m that end with it, goes back to a place in them; without operands.
RetryIn(c, m, l) ==
    /\ l.retry \in 1 .. Len(c.inst) + 1
    /\ l.retry \in 1 .. Len(c.inst) => Pre(m, c.inst[l.retry].nest)
RetryOn(c, l) == l.retry \in 1 .. Len(c.inst) + 1 /\ HAt(c.inst, c.h, l.retry) = 0

\* The pending function `it' writes into c within the loops n, of which g is the last; l
\* is its own loop if it has one.  What it will patch is in the loops it will be in then.
Nested(it, c, n, l, g) ==
    /\ it.do \in {"logc", "branch"} => Has(c, it.at, n)
    /\ it.do \in {"cond", "branch", "else"} => \A o \in Range(it.outs) : Has(c, o, n)
    /\ it.do \in {"block", "cond", "branch", "else"} /\ Len(n) # 0 => RetryIn(c, n, g)
    /\ it.do \in {"loop", "iter"} => \A o \in Range(l.breaks) : Has(c, o, Append(n, l.id))
    /\ it.do = "loop" => (l.death \/ Has(c, l.jcond, Append(n, l.id))) /\ RetryIn(c, Append(n, l.id), l)

\* The operands on the stack when a statement goes on, and how many fewer when it has ended.
Parts(vt) == IF vt = "dot" THEN 1 ELSE IF vt = "index" THEN 2 ELSE 0
Want(it) ==
    IF it.do \in {"cond", "ret", "iter"} THEN 1
    ELSE IF it.do = "lval" THEN Parts(it.vt)
    ELSE IF it.do = "assign" THEN Parts(it.vt) + 1
    ELSE 0
Inner == {"expr", "apply", "logic", "logc", "func"}
Gap(it) ==
    IF it.do = "expr" THEN 1
    ELSE IF it.do = "apply" THEN it.at - it.n
    ELSE IF it.do \in {"logic", "logc", "func"} THEN 0
    ELSE 0 - Want(it)

\* It goes on with k operands, and what it will patch has those it counts on.
Fed(it, k, c, n, l, g) ==
    /\ it.do = "func" => k = c.h
    /\ it.do \notin Inner => k = Want(it)
    /\ it.do = "apply" => k >= it.n
    /\ it.do \in {"logic", "logc"} => k >= 1
    /\ it.do = "logc" => Was(c, it.at, k, 1, 0)
    /\ it.do = "branch" => Was(c, it.at, 1, 1, 0)
    /\ it.do \in {"cond", "branch", "else"} => \A o \in Range(it.outs) : Was(c, o, 0, 0, 0)
    /\ it.do \in {"block", "cond", "branch", "else"} /\ Len(n) # 0 => RetryOn(c, g)
    /\ it.do \in {"loop", "iter"} => \A o \in Range(l.breaks) : Was(c, o, 0, 0, 0)
    /\ it.do = "loop" => (l.death \/ Was(c, l.jcond, 1, 1, 1)) /\ RetryOn(c, l)

Stays(z, it, k, c, n, l, g) ==
    /\ it.do = "func" => Flows(z, c, n)
    /\ "outer" \notin z => Nested(it, c, n, l, g)
    /\ z = {} => Fed(it, k, c, n, l, g)

ItsNest(t, ch, lp, j) == Slice(lp, ch[Level(t, j)].outer, Around(t, j))

\* What is left on the stack of the function that `it' has above it, when that is entered or goes on.
Base(it, k) == IF it.do = "func" THEN 0 ELSE k

\* D: the operands on the stack when each item goes on.
Linked(t, ch, D) ==
    /\ \A j \in 1 .. Len(t) - 1 : Base(t[j], D[j]) = D[j + 1] + Gap(t[j + 1])
    /\ Base(t[Len(t)], D[Len(t)]) = ch[Len(ch)].h

Ranked(lp) == \A q \in 1 .. Len(lp) : lp[q].id[2] = q - 1

Going(t, ch, lp, z, D) ==
    /\ \A j \in 1 .. Len(t) :
          Stays(z, t[j], D[j], ch[Level(t, j)], ItsNest(t, ch, lp, j),
                lp[Around(t, j) + 1], lp[Around(t, j)])
    /\ Flows(z, ch[Len(ch)], Slice(lp, ch[Len(ch)].outer, Len(lp)))
    /\ z = {} => Linked(t, ch, D)

\* The machine
Runs ==
    /\ todo # <<>> => out = <<>> /\ pc = 0
    /\ pc \in 0 .. Len(out) + 1
    /\ "outer" \notin slips /\ Short(out) => FlowsIn(out, <<>>)
    /\ slips = {} /\ Short(out) =>
          /\ Feeds(out) /\ FlowsOn(out, 0)
          /\ \A i \in 1 .. Len(out) : HAt(out, 0, i + 1) = out[i].h - out[i].takes + out[i].gives
          /\ pc # 0 => depth = HAt(out, 0, pc)

-----------------------------------------------------------------------------
(* What emitting and patching leave of the flow of the code *)

\* From c to d, both in the loops n: what is new follows what was there, and other jumps and
\* returns than those at P are as they were.
Moves(c, d, n, P) ==
    /\ c \in Chunks /\ d \in Chunks /\ d.outer = c.outer
    /\ Len(c.inst) \in Nat /\ Len(d.inst) \in Nat /\ Len(c.inst) <= Len(d.inst)
    /\ \A i \in 1 .. Len(c.inst) :
          /\ d.inst[i].h = c.inst[i].h /\ d.inst[i].nest = c.inst[i].nest
          /\ d.inst[i].takes = c.inst[i].takes /\ d.inst[i].gives = c.inst[i].gives
    /\ HAt(d.inst, d.h, Len(c.inst) + 1) = c.h
    /\ \A i \in Len(c.inst) + 1 .. Len(d.inst) :
          /\ d.inst[i].nest = n
          /\ HAt(d.inst, d.h, i + 1) = d.inst[i].h - d.inst[i].takes + d.inst[i].gives
    /\ \A i \in 1 .. Len(d.inst) : i \notin P /\ d.inst[i].op \in Turns =>
          /\ i \in 1 .. Len(c.inst) /\ c.inst[i].op = d.inst[i].op
          /\ c.inst[i].to = d.inst[i].to /\ c.inst[i].leaves = d.inst[i].leaves

\* What is new has the operands it takes.
FedFrom(c, d) == \A i \in Len(c.inst) + 1 .. Len(d.inst) : d.inst[i].takes <= d.inst[i].h

LEMMA MovesNowhere ==
    ASSUME NEW c \in Chunks, NEW n
    PROVE  Moves(c, c, n, {}) /\ FedFrom(c, c)
<1>1. Len(c.inst) \in Nat
  BY DEF Chunks
<1>2. Len(c.inst) + 1 .. Len(c.inst) = {} /\ Len(c.inst) + 1 \notin 1 .. Len(c.inst)
  BY <1>1
<1> QED BY <1>1, <1>2 DEF Moves, FedFrom, HAt

\* What was at a position, and what is there.
LEMMA MovesAt ==
    ASSUME NEW c, NEW d, NEW n, NEW P, Moves(c, d, n, P), NEW p \in 1 .. Len(c.inst) + 1
    PROVE  /\ HAt(d.inst, d.h, p) = HAt(c.inst, c.h, p)
           /\ NAt(d.inst, n, p) = NAt(c.inst, n, p)
<1>1. /\ Len(c.inst) \in Nat /\ Len(d.inst) \in Nat /\ Len(c.inst) <= Len(d.inst)
      /\ HAt(d.inst, d.h, Len(c.inst) + 1) = c.h
  BY DEF Moves
<1>2. CASE p \in 1 .. Len(c.inst)
  <2>1. p \in 1 .. Len(d.inst) /\ d.inst[p].h = c.inst[p].h /\ d.inst[p].nest = c.inst[p].nest
    BY <1>1, <1>2 DEF Moves
  <2> QED BY <1>2, <2>1 DEF HAt, NAt
<1>3. CASE p = Len(c.inst) + 1
  <2>1. p \notin 1 .. Len(c.inst)
    BY <1>1, <1>3
  <2>2. HAt(d.inst, d.h, p) = HAt(c.inst, c.h, p)
    BY <1>1, <1>3, <2>1 DEF HAt
  <2>3. NAt(d.inst, n, p) = n
    <3>1. CASE p \in 1 .. Len(d.inst)
      <4>1. p \in Len(c.inst) + 1 .. Len(d.inst)
        BY <1>1, <1>3, <3>1
      <4> QED BY <3>1, <4>1 DEF Moves, NAt
    <3> QED BY <3>1 DEF NAt
  <2> QED BY <2>1, <2>2, <2>3 DEF NAt
<1> QED BY <1>1, <1>2, <1>3

\* One after the other.
LEMMA MovesOn ==
    ASSUME NEW c, NEW d, NEW e, NEW n, NEW P, NEW Q, Moves(c, d, n, P), Moves(d, e, n, Q)
    PROVE  Moves(c, e, n, P \cup Q) /\ (FedFrom(c, d) /\ FedFrom(d, e) => FedFrom(c, e))
<1>1. /\ c \in Chunks /\ e \in Chunks /\ e.outer = c.outer
      /\ Len(c.inst) \in Nat /\ Len(d.inst) \in Nat /\ Len(e.inst) \in Nat
      /\ Len(c.inst) <= Len(d.inst) /\ Len(d.inst) <= Len(e.inst)
  BY DEF Moves
<1>2. \A i \in 1 .. Len(c.inst) : i \in 1 .. Len(d.inst)
  BY <1>1
<1>3. ASSUME NEW i \in 1 .. Len(d.inst)
      PROVE  /\ e.inst[i].h = d.inst[i].h /\ e.inst[i].nest = d.inst[i].nest
             /\ e.inst[i].takes = d.inst[i].takes /\ e.inst[i].gives = d.inst[i].gives
             /\ HAt(e.inst, e.h, i) = HAt(d.inst, d.h, i) /\ HAt(e.inst, e.h, i + 1) = HAt(d.inst, d.h, i + 1)
  <2>1. i \in 1 .. Len(d.inst) + 1 /\ i + 1 \in 1 .. Len(d.inst) + 1
    BY <1>1
  <2>2. HAt(e.inst, e.h, i) = HAt(d.inst, d.h, i) /\ HAt(e.inst, e.h, i + 1) = HAt(d.inst, d.h, i + 1)
    BY <2>1, MovesAt
  <2> QED BY <2>2 DEF Moves
<1>4. HAt(e.inst, e.h, Len(c.inst) + 1) = c.h
  <2>1. Len(c.inst) + 1 \in 1 .. Len(d.inst) + 1
    BY <1>1
  <2>2. HAt(e.inst, e.h, Len(c.inst) + 1) = HAt(d.inst, d.h, Len(c.inst) + 1)
    BY <2>1, MovesAt
  <2> QED BY <2>2 DEF Moves
<1>5. ASSUME NEW i \in Len(c.inst) + 1 .. Len(e.inst)
      PROVE  /\ e.inst[i].nest = n
             /\ HAt(e.inst, e.h, i + 1) = e.inst[i].h - e.inst[i].takes + e.inst[i].gives
  <2>1. CASE i \in 1 .. Len(d.inst)
    <3>1. i \in Len(c.inst) + 1 .. Len(d.inst)
      BY <1>1, <2>1
    <3>2. d.inst[i].nest = n /\ HAt(d.inst, d.h, i + 1) = d.inst[i].h - d.inst[i].takes + d.inst[i].gives
      BY <3>1 DEF Moves
    <3> QED BY <1>3, <2>1, <3>2
  <2>2. CASE i \notin 1 .. Len(d.inst)
    <3>1. i \in Len(d.inst) + 1 .. Len(e.inst)
      BY <1>1, <2>2
    <3> QED BY <3>1 DEF Moves
  <2> QED BY <2>1, <2>2
<1>6. ASSUME NEW i \in 1 .. Len(e.inst), i \notin P \cup Q, e.inst[i].op \in Turns
      PROVE  /\ i \in 1 .. Len(c.inst) /\ c.inst[i].op = e.inst[i].op
             /\ c.inst[i].to = e.inst[i].to /\ c.inst[i].leaves = e.inst[i].leaves
  <2>1. /\ i \in 1 .. Len(d.inst) /\ d.inst[i].op = e.inst[i].op
        /\ d.inst[i].to = e.inst[i].to /\ d.inst[i].leaves = e.inst[i].leaves
    BY <1>6 DEF Moves
  <2>2. /\ i \in 1 .. Len(c.inst) /\ c.inst[i].op = d.inst[i].op
        /\ c.inst[i].to = d.inst[i].to /\ c.inst[i].leaves = d.inst[i].leaves
    BY <1>6, <2>1 DEF Moves
  <2> QED BY <2>1, <2>2
<1>7. ASSUME FedFrom(c, d), FedFrom(d, e), NEW i \in Len(c.inst) + 1 .. Len(e.inst)
      PROVE  e.inst[i].takes <= e.inst[i].h
  <2>1. CASE i \in 1 .. Len(d.inst)
    <3>1. i \in Len(c.inst) + 1 .. Len(d.inst)
      BY <1>1, <2>1
    <3>2. d.inst[i].takes <= d.inst[i].h
      BY <1>7, <3>1 DEF FedFrom
    <3> QED BY <1>3, <2>1, <3>2
  <2>2. CASE i \notin 1 .. Len(d.inst)
    <3>1. i \in Len(d.inst) + 1 .. Len(e.inst)
      BY <1>1, <2>2
    <3> QED BY <1>7, <3>1 DEF FedFrom
  <2> QED BY <2>1, <2>2
<1>8. FedFrom(c, d) /\ FedFrom(d, e) => FedFrom(c, e)
  BY <1>7 DEF FedFrom
<1>9. \A i \in 1 .. Len(c.inst) :
          /\ e.inst[i].h = c.inst[i].h /\ e.inst[i].nest = c.inst[i].nest
          /\ e.inst[i].takes = c.inst[i].takes /\ e.inst[i].gives = c.inst[i].gives
  BY <1>2, <1>3 DEF Moves
<1>10. Len(c.inst) <= Len(e.inst)
  BY <1>1
<1> QED BY <1>1, <1>4, <1>5, <1>6, <1>8, <1>9, <1>10 DEF Moves

\* More may be patched than is.
LEMMA MovesMore ==
    ASSUME NEW c, NEW d, NEW n, NEW P, NEW Q, Moves(c, d, n, P), P \subseteq Q
    PROVE  Moves(c, d, n, Q)
<1>1. \A i : i \notin Q => i \notin P
  OBVIOUS
<1> QED BY <1>1 DEF Moves

\* The operands follow on; the loops at the end may be others that were entered before it.
LEMMA MovesChained ==
    ASSUME NEW c, NEW d, NEW n, NEW P, Moves(c, d, n, P), Chained(c.inst, c.h, n),
           NEW m, \A q \in 1 .. Len(m) : m[q][1] \in 0 .. Len(d.inst) + 1
    PROVE  Chained(d.inst, d.h, m)
<1>1. /\ Len(c.inst) \in Nat /\ Len(d.inst) \in Nat /\ Len(c.inst) <= Len(d.inst)
  BY DEF Moves
<1>2. HAt(d.inst, d.h, 1) = 0
  <2>1. 1 \in 1 .. Len(c.inst) + 1
    BY <1>1
  <2> QED BY <2>1, MovesAt DEF Chained
<1>3. ASSUME NEW i \in 1 .. Len(d.inst)
      PROVE  HAt(d.inst, d.h, i + 1) = d.inst[i].h - d.inst[i].takes + d.inst[i].gives
  <2>1. CASE i \in 1 .. Len(c.inst)
    <3>1. i + 1 \in 1 .. Len(c.inst) + 1
      BY <1>1, <2>1
    <3>2. HAt(d.inst, d.h, i + 1) = HAt(c.inst, c.h, i + 1)
      BY <3>1, MovesAt
    <3>3. HAt(c.inst, c.h, i + 1) = c.inst[i].h - c.inst[i].takes + c.inst[i].gives
      BY <2>1 DEF Chained
    <3> QED BY <2>1, <3>2, <3>3 DEF Moves
  <2>2. CASE i \notin 1 .. Len(c.inst)
    <3>1. i \in Len(c.inst) + 1 .. Len(d.inst)
      BY <1>1, <2>2
    <3> QED BY <3>1 DEF Moves
  <2> QED BY <2>1, <2>2
<1>4. ASSUME NEW i \in 1 .. Len(d.inst) + 1, NEW q \in 1 .. Len(NAt(d.inst, m, i))
      PROVE  NAt(d.inst, m, i)[q][1] \in 0 .. i
  <2>1. CASE i \in 1 .. Len(c.inst)
    <3>1. i \in 1 .. Len(d.inst) /\ d.inst[i].nest = c.inst[i].nest
      BY SMTT(60), <1>1, <2>1 DEF Moves
    <3>2. NAt(d.inst, m, i) = NAt(c.inst, n, i) /\ i \in 1 .. Len(c.inst) + 1
      BY <1>1, <2>1, <3>1 DEF NAt
    <3> QED BY <3>2 DEF Chained
  <2>2. CASE i \in Len(c.inst) + 1 .. Len(d.inst)
    <3>1. i \in 1 .. Len(d.inst) /\ d.inst[i].nest = n
      BY <1>1, <2>2 DEF Moves
    <3>2. NAt(d.inst, m, i) = n
      BY <3>1 DEF NAt
    <3>3. Len(c.inst) + 1 \in 1 .. Len(c.inst) + 1 /\ NAt(c.inst, n, Len(c.inst) + 1) = n
      BY <1>1 DEF NAt
    <3>4. \A w \in 1 .. Len(n) : n[w][1] \in 0 .. Len(c.inst) + 1
      BY <3>3 DEF Chained
    <3>5. \A w \in 1 .. Len(n) : n[w][1] \in 0 .. i
      BY <1>1, <2>2, <3>4
    <3> QED BY <3>2, <3>5
  <2>3. CASE i = Len(d.inst) + 1
    <3>1. i \notin 1 .. Len(d.inst)
      BY <1>1, <2>3
    <3> QED BY <2>3, <3>1 DEF NAt
  <2> QED BY <1>1, <2>1, <2>2, <2>3
<1> QED BY <1>2, <1>3, <1>4 DEF Chained

\* Jumps that were there land where they did, before the end or at it.
LEMMA MovesFlowsIn ==
    ASSUME NEW c, NEW d, NEW n, NEW P, Moves(c, d, n, P), FlowsIn(c.inst, n),
           NEW m, m = n \/ Len(c.inst) < Len(d.inst),
           \A i \in 1 .. Len(d.inst) : i \in P /\ d.inst[i].op \in Jumps => LandsIn(d.inst, m, i)
    PROVE  FlowsIn(d.inst, m)
<1> SUFFICES ASSUME NEW i \in 1 .. Len(d.inst), d.inst[i].op \in Jumps, i \notin P
             PROVE  LandsIn(d.inst, m, i)
  BY DEF FlowsIn
<1>1. /\ Len(c.inst) \in Nat /\ Len(d.inst) \in Nat /\ Len(c.inst) <= Len(d.inst) /\ c \in Chunks
  BY DEF Moves
<1>2. /\ i \in 1 .. Len(c.inst) /\ c.inst[i].op = d.inst[i].op
      /\ c.inst[i].to = d.inst[i].to /\ c.inst[i].leaves = d.inst[i].leaves
  BY DEF Moves, Turns
<1>3. c.inst[i].to \in 1 .. Len(c.inst) + 1 /\ c.inst[i].to \in 1 .. Len(d.inst) + 1
  <2>1. c.inst[i].to \in 1 .. Len(c.inst) + 1
    BY <1>2 DEF FlowsIn, LandsIn
  <2> QED BY <1>1, <2>1
<1>4. NAt(d.inst, m, c.inst[i].to) = NAt(c.inst, n, c.inst[i].to)
  <2>1. NAt(d.inst, n, c.inst[i].to) = NAt(c.inst, n, c.inst[i].to)
    BY <1>3, MovesAt
  <2>2. CASE m = n
    BY <2>1, <2>2
  <2>3. CASE Len(c.inst) < Len(d.inst)
    <3>1. c.inst[i].to \in 1 .. Len(d.inst)
      BY <1>1, <1>3, <2>3
    <3> QED BY <2>1, <3>1 DEF NAt
  <2> QED BY <2>2, <2>3
<1>5. LandsIn(c.inst, n, i) /\ d.inst[i].nest = c.inst[i].nest
  BY <1>2 DEF FlowsIn, Moves
<1> QED BY <1>2, <1>3, <1>4, <1>5 DEF LandsIn

LEMMA MovesFlowsOn ==
    ASSUME NEW c, NEW d, NEW n, NEW P, Moves(c, d, n, P), FlowsOn(c.inst, c.h),
           \A i \in 1 .. Len(d.inst) : i \in P /\ d.inst[i].op \in Turns => LandsOn(d.inst, d.h, i)
    PROVE  FlowsOn(d.inst, d.h)
<1> SUFFICES ASSUME NEW i \in 1 .. Len(d.inst), i \notin P, d.inst[i].op \in Turns
             PROVE  LandsOn(d.inst, d.h, i)
  BY DEF FlowsOn
<1>1. /\ Len(c.inst) \in Nat /\ Len(d.inst) \in Nat /\ Len(c.inst) <= Len(d.inst)
  BY DEF Moves
<1>2. i \in 1 .. Len(c.inst) /\ c.inst[i].op = d.inst[i].op /\ c.inst[i].to = d.inst[i].to
  BY DEF Moves
<1>3. d.inst[i].h = c.inst[i].h /\ d.inst[i].takes = c.inst[i].takes /\ d.inst[i].gives = c.inst[i].gives
  BY <1>2 DEF Moves
<1>4. LandsOn(c.inst, c.h, i)
  BY <1>2 DEF FlowsOn
<1>5. CASE c.inst[i].op \in Jumps
  <2>1. c.inst[i].to \in 1 .. Len(c.inst) + 1
    BY <1>4, <1>5 DEF LandsOn
  <2>2. HAt(d.inst, d.h, c.inst[i].to) = HAt(c.inst, c.h, c.inst[i].to) /\ c.inst[i].to \in 1 .. Len(d.inst) + 1
    BY SMTT(60), <1>1, <2>1, MovesAt
  <2> QED BY <1>2, <1>3, <1>4, <2>2 DEF LandsOn
<1>6. CASE c.inst[i].op \notin Jumps
  BY <1>2, <1>3, <1>4, <1>6 DEF LandsOn, Jumps
<1> QED BY <1>5, <1>6

LEMMA MovesFeeds ==
    ASSUME NEW c, NEW d, NEW n, NEW P, Moves(c, d, n, P), FedFrom(c, d), Feeds(c.inst)
    PROVE  Feeds(d.inst)
<1> SUFFICES ASSUME NEW i \in 1 .. Len(d.inst) PROVE d.inst[i].takes <= d.inst[i].h
  BY DEF Feeds
<1>1. /\ Len(c.inst) \in Nat /\ Len(d.inst) \in Nat /\ Len(c.inst) <= Len(d.inst)
  BY DEF Moves
<1>2. CASE i \notin 1 .. Len(c.inst)
  <2>1. i \in Len(c.inst) + 1 .. Len(d.inst)
    BY <1>1, <1>2
  <2> QED BY <2>1 DEF FedFrom
<1>3. CASE i \in 1 .. Len(c.inst)
  BY <1>3 DEF Moves, Feeds
<1> QED BY <1>2, <1>3

\* What a pending function will patch stays where it is.
LEMMA MovesHas ==
    ASSUME NEW c, NEW d, NEW n, NEW P, Moves(c, d, n, P)
    PROVE  /\ \A i, m : Has(c, i, m) => Has(d, i, m)
           /\ \A i, k, takes, gives : Was(c, i, k, takes, gives) => Was(d, i, k, takes, gives)
           /\ \A l : RetryOn(c, l) => RetryOn(d, l)
           /\ \A m, l : RetryIn(c, m, l) /\ Pre(m, n) => RetryIn(d, m, l)
<1>1. /\ Len(c.inst) \in Nat /\ Len(d.inst) \in Nat /\ Len(c.inst) <= Len(d.inst)
      /\ \A i \in 1 .. Len(c.inst) : i \in 1 .. Len(d.inst)
      /\ \A i \in 1 .. Len(c.inst) + 1 : i \in 1 .. Len(d.inst) + 1
      /\ \A i \in 1 .. Len(c.inst) :
          /\ d.inst[i].h = c.inst[i].h /\ d.inst[i].nest = c.inst[i].nest
          /\ d.inst[i].takes = c.inst[i].takes /\ d.inst[i].gives = c.inst[i].gives
  <2>1. Len(c.inst) \in Nat /\ Len(d.inst) \in Nat /\ Len(c.inst) <= Len(d.inst)
    BY DEF Moves
  <2> QED BY <2>1 DEF Moves
<1>2. \A i, m : Has(c, i, m) => Has(d, i, m)
  BY <1>1 DEF Has
<1>3. \A i, k, takes, gives : Was(c, i, k, takes, gives) => Was(d, i, k, takes, gives)
  BY <1>1 DEF Was
<1>4. \A l : RetryOn(c, l) => RetryOn(d, l)
  BY <1>1, MovesAt DEF RetryOn
<1>5. ASSUME NEW m, NEW l, RetryIn(c, m, l), Pre(m, n)
      PROVE  RetryIn(d, m, l)
  <2>1. l.retry \in 1 .. Len(c.inst) + 1 /\ l.retry \in 1 .. Len(d.inst) + 1
    BY <1>1, <1>5 DEF RetryIn
  <2>2. ASSUME l.retry \in 1 .. Len(d.inst) PROVE Pre(m, d.inst[l.retry].nest)
    <3>1. CASE l.retry \in 1 .. Len(c.inst)
      BY <1>1, <1>5, <3>1 DEF RetryIn
    <3>2. CASE l.retry \notin 1 .. Len(c.inst)
      <4>1. l.retry \in Len(c.inst) + 1 .. Len(d.inst)
        BY <1>1, <2>1, <2>2, <3>2
      <4> QED BY <1>5, <4>1 DEF Moves
    <3> QED BY <3>1, <3>2
  <2> QED BY <2>1, <2>2 DEF RetryIn
<1> QED BY <1>2, <1>3, <1>4, <1>5

\* The instructions s, with k operands after them, follow c in the loops n.
Follows(c, s, k, n) ==
    /\ \A q \in 1 .. Len(s) : s[q].nest = n
    /\ IF Len(s) = 0 THEN k = c.h ELSE s[1].h = c.h
    /\ \A q \in 1 .. Len(s) : HAt(s, k, q + 1) = s[q].h - s[q].takes + s[q].gives

\* d is c and then s.
Appends(c, s, k, n, P, d) ==
    /\ Moves(c, d, n, P) /\ Len(d.inst) = Len(c.inst) + Len(s) /\ d.h = k
    /\ \A q \in 1 .. Len(s) : d.inst[Len(c.inst) + q] = s[q]
    /\ (\A q \in 1 .. Len(s) : s[q].takes <= s[q].h) => FedFrom(c, d)

LEMMA AppendedMoves ==
    ASSUME NEW c \in Chunks, NEW s \in Seq(Inst), NEW k \in Int, NEW n, Follows(c, s, k, n),
           NEW P, \A q \in 1 .. Len(s) : s[q].op \in Turns => Len(c.inst) + q \in P,
           NEW d, d = [inst |-> c.inst \o s, h |-> k, outer |-> c.outer]
    PROVE  Appends(c, s, k, n, P, d)
<1>1. c.inst \in Seq(Inst) /\ d = [inst |-> c.inst \o s, h |-> k, outer |-> c.outer] /\ c.outer \in Nat
  BY DEF Chunks
<1>2. PICK r : r = c.inst \o s
  OBVIOUS
<1>3. /\ r \in Seq(Inst) /\ Len(r) = Len(c.inst) + Len(s)
      /\ \A j \in 1 .. Len(c.inst) : r[j] = c.inst[j]
      /\ \A q \in 1 .. Len(s) : r[Len(c.inst) + q] = s[q]
      /\ Len(c.inst) \in Nat /\ Len(s) \in Nat
  BY SMTT(60), <1>1, <1>2, ConcatIs
<1>0. PICK a \in Nat, b \in Nat : a = Len(c.inst) /\ b = Len(s) /\ Len(r) = a + b
  BY <1>3
<1>4. d = [inst |-> r, h |-> k, outer |-> c.outer] /\ d \in Chunks /\ d.inst = r
      /\ d.outer = c.outer /\ d.h = k
  BY <1>1, <1>2, <1>3 DEF Chunks
<1>5. ASSUME NEW i \in Len(c.inst) + 1 .. Len(r)
      PROVE  \E q \in 1 .. Len(s) : i = Len(c.inst) + q /\ r[i] = s[q]
  <2>1. i - Len(c.inst) \in 1 .. Len(s) /\ i = Len(c.inst) + (i - Len(c.inst))
    BY <1>3, <1>5
  <2> QED BY <1>3, <2>1
<1>6. ASSUME NEW q \in 1 .. Len(s) + 1
      PROVE  HAt(r, k, Len(c.inst) + q) = HAt(s, k, q)
  <2>1. CASE q \in 1 .. Len(s)
    <3>1. Len(c.inst) + q \in 1 .. Len(r) /\ r[Len(c.inst) + q] = s[q]
      BY <1>3, <2>1
    <3> QED BY <2>1, <3>1 DEF HAt
  <2>2. CASE q = Len(s) + 1
    <3>1. a + (b + 1) \notin 1 .. a + b /\ b + 1 \notin 1 .. b
      OBVIOUS
    <3>2. Len(c.inst) + q \notin 1 .. Len(r) /\ q \notin 1 .. Len(s)
      BY <1>0, <2>2, <3>1
    <3> QED BY <3>2 DEF HAt
  <2> QED BY <1>3, <2>1, <2>2
<1>7. HAt(r, k, Len(c.inst) + 1) = c.h
  <2>1. 1 \in 1 .. Len(s) + 1
    BY <1>3
  <2>2. HAt(r, k, Len(c.inst) + 1) = HAt(s, k, 1)
    BY <1>6, <2>1
  <2>3. CASE Len(s) = 0
    <3>1. 1 \notin 1 .. Len(s) /\ k = c.h
      BY <2>3 DEF Follows
    <3> QED BY <2>2, <3>1 DEF HAt
  <2>4. CASE Len(s) # 0
    <3>1. 1 \in 1 .. Len(s) /\ s[1].h = c.h
      BY <1>3, <2>4 DEF Follows
    <3> QED BY <2>2, <3>1 DEF HAt
  <2> QED BY <2>3, <2>4
<1>8. ASSUME NEW i \in Len(c.inst) + 1 .. Len(r)
      PROVE  r[i].nest = n /\ HAt(r, k, i + 1) = r[i].h - r[i].takes + r[i].gives
  <2>1. PICK q \in 1 .. Len(s) : i = Len(c.inst) + q /\ r[i] = s[q]
    BY <1>5
  <2>2. q + 1 \in 1 .. Len(s) + 1 /\ i + 1 = Len(c.inst) + (q + 1)
    <3>1. q \in 1 .. b /\ i = a + q
      BY <1>0, <2>1
    <3>2. q + 1 \in 1 .. b + 1 /\ i + 1 = a + (q + 1)
      BY <3>1
    <3> QED BY <1>0, <3>2
  <2>3. HAt(r, k, i + 1) = HAt(s, k, q + 1)
    BY <1>6, <2>2
  <2> QED BY <2>1, <2>3 DEF Follows
<1>9. ASSUME NEW i \in 1 .. Len(r), i \notin P, r[i].op \in Turns
      PROVE  i \in 1 .. Len(c.inst) /\ c.inst[i] = r[i]
  <2>1. CASE i \in 1 .. Len(c.inst)
    BY <1>3, <2>1
  <2>2. CASE i \notin 1 .. Len(c.inst)
    <3>1. i \in Len(c.inst) + 1 .. Len(r)
      BY <1>3, <2>2
    <3>2. PICK q \in 1 .. Len(s) : i = Len(c.inst) + q /\ r[i] = s[q]
      BY <1>5, <3>1
    <3> QED BY <1>9, <3>2
  <2> QED BY <2>1, <2>2
<1>10. Moves(c, d, n, P)
  <2>1. Len(c.inst) <= Len(r) /\ Len(r) \in Nat
    BY <1>3
  <2> QED BY <1>3, <1>4, <1>7, <1>8, <1>9, <2>1 DEF Moves
<1>11. (\A q \in 1 .. Len(s) : s[q].takes <= s[q].h) => FedFrom(c, d)
  BY <1>4, <1>5 DEF FedFrom
<1> QED BY <1>3, <1>4, <1>10, <1>11 DEF Appends

\* One instruction more.
Codes(c, op, takes, gives, to, n, d) ==
    /\ Moves(c, d, n, IF op \in Turns THEN {Pos(c)} ELSE {})
    /\ Len(d.inst) = Len(c.inst) + 1 /\ d.h = c.h - takes + gives
    /\ Pos(c) = Len(c.inst) + 1 /\ Pos(c) \in 1 .. Len(d.inst)
    /\ d.inst[Pos(c)].op = op /\ d.inst[Pos(c)].takes = takes /\ d.inst[Pos(c)].gives = gives
    /\ d.inst[Pos(c)].h = c.h /\ d.inst[Pos(c)].nest = n
    /\ d.inst[Pos(c)].to = to /\ d.inst[Pos(c)].leaves = FALSE
    /\ takes <= c.h => FedFrom(c, d)

LEMMA CodedMoves ==
    ASSUME loops \in Seq(LoopInfos), NEW c \in Chunks,
           NEW op \in {"data", "jmp", "ret", "panic"}, NEW takes \in Nat, NEW gives \in Nat,
           NEW to \in Nat, NEW d, d = Coded(c, op, takes, gives, to)
    PROVE  Codes(c, op, takes, gives, to, NestOf(c), d)
<1>1. PICK e : e = [op |-> op, takes |-> takes, gives |-> gives, to |-> to,
                    leaves |-> FALSE, h |-> c.h, nest |-> NestOf(c)]
  OBVIOUS
<1>2. e \in Inst
  <2>1. NestOf(c) \in Seq(LoopId) /\ c.h \in Int /\ op \in Jumps \cup {"data", "panic", "ret"}
    BY NestIs DEF Chunks, Jumps
  <2> QED BY <1>1, <2>1 DEF Inst, Where
<1>3. c.inst \in Seq(Inst) /\ Len(c.inst) \in Nat /\ c.h \in Int
  BY DEF Chunks
<1>4. PICK s \in Seq(Inst) : s = <<e>> /\ Len(s) = 1 /\ s[1] = e
  <2>1. <<e>> \in Seq(Inst) /\ Len(<<e>>) = 1 /\ <<e>>[1] = e
    BY <1>2
  <2> QED BY <2>1
<1>5. PICK k \in Int : k = c.h - takes + gives
  BY <1>3
<1>6. d = [inst |-> c.inst \o s, h |-> k, outer |-> c.outer]
  <2>1. Append(c.inst, e) = c.inst \o <<e>>
    BY SMTT(60), <1>2, <1>3
  <2>2. c = [inst |-> c.inst, h |-> c.h, outer |-> c.outer]
    BY DEF Chunks
  <2> QED BY <1>1, <1>4, <1>5, <2>1, <2>2 DEF Coded
<1>7. \A q \in 1 .. Len(s) : q = 1
  BY <1>4
<1>8. Follows(c, s, k, NestOf(c))
  <2>1. HAt(s, k, 1 + 1) = k
    BY <1>4 DEF HAt
  <2>2. s[1].nest = NestOf(c) /\ s[1].h = c.h /\ Len(s) # 0
        /\ HAt(s, k, 1 + 1) = s[1].h - s[1].takes + s[1].gives
    BY <1>1, <1>4, <1>5, <2>1
  <2> QED BY <1>7, <2>2 DEF Follows
<1>9. PICK P : P = IF op \in Turns THEN {Pos(c)} ELSE {}
  OBVIOUS
<1>10. \A q \in 1 .. Len(s) : s[q].op \in Turns => Len(c.inst) + q \in P
  BY <1>1, <1>4, <1>7, <1>9 DEF Pos
<1>11. Appends(c, s, k, NestOf(c), P, d)
  BY <1>6, <1>8, <1>10, AppendedMoves
<1>12. d.inst[Pos(c)] = e /\ Pos(c) = Len(c.inst) + 1 /\ Pos(c) \in 1 .. Len(d.inst) /\ Len(d.inst) = Len(c.inst) + 1
  BY <1>3, <1>4, <1>11 DEF Appends, Pos
<1>13. takes <= c.h => FedFrom(c, d)
  BY <1>1, <1>4, <1>7, <1>11 DEF Appends
<1>14. Moves(c, d, NestOf(c), IF op \in Turns THEN {Pos(c)} ELSE {}) /\ d.h = c.h - takes + gives
  BY <1>5, <1>9, <1>11 DEF Appends
<1> QED BY <1>1, <1>12, <1>13, <1>14 DEF Codes

\* An instruction that is no jump and no return.
Adds(c, takes, gives, op, d) ==
    /\ Moves(c, d, NestOf(c), {}) /\ d \in Chunks /\ d.h = c.h - takes + gives
    /\ NestOf(d) = NestOf(c)
    /\ Len(d.inst) = Len(c.inst) + 1 /\ Pos(c) = Len(c.inst) + 1 /\ Pos(c) \in Nat
    /\ Has(d, Pos(c), NestOf(c)) /\ Was(d, Pos(c), c.h, takes, gives)
    /\ d.inst[Pos(c)].op = op
    /\ takes <= c.h => FedFrom(c, d)

LEMMA AddsSo ==
    ASSUME loops \in Seq(LoopInfos), NEW c \in Chunks, NEW op \in {"data", "panic"},
           NEW takes \in Nat, NEW gives \in Nat, NEW d, d = Coded(c, op, takes, gives, 0)
    PROVE  Adds(c, takes, gives, op, d)
<1>1. Codes(c, op, takes, gives, 0, NestOf(c), d)
  BY CodedMoves
<1>2. op \notin Turns
  BY DEF Turns, Jumps
<1>3. Moves(c, d, NestOf(c), {}) /\ d.outer = c.outer /\ d \in Chunks
  BY <1>1, <1>2 DEF Codes, Moves
<1>4. NestOf(d) = NestOf(c)
  BY <1>3 DEF NestOf, Own
<1>5. Has(d, Pos(c), NestOf(c)) /\ Was(d, Pos(c), c.h, takes, gives) /\ Pos(c) \in Nat
  BY <1>1 DEF Codes, Has, Was
<1> QED BY <1>1, <1>3, <1>4, <1>5 DEF Codes, Adds

LEMMA EmitMoves ==
    ASSUME loops \in Seq(LoopInfos), NEW c \in Chunks, NEW takes \in Nat, NEW gives \in Nat
    PROVE  Adds(c, takes, gives, "data", Emit(c, takes, gives))
BY AddsSo DEF Emit

LEMMA HoldMoves ==
    ASSUME loops \in Seq(LoopInfos), NEW c \in Chunks, NEW takes \in Nat, NEW gives \in Nat
    PROVE  Adds(c, takes, gives, "panic", Hold(c, takes, gives))
BY AddsSo DEF Hold

\* An offset that is not cut.
LEMMA Uncut ==
    ASSUME NEW n \in Nat, n < OffsetLimit
    PROVE  n % OffsetLimit = n
BY CodeAssumption

LEMMA JumpBackMoves ==
    ASSUME loops \in Seq(LoopInfos), NEW c \in Chunks, NEW target \in 0 .. Pos(c),
           NEW d, d = JumpBack(c, target)
    PROVE  \E to \in Nat : /\ Codes(c, "jmp", 0, 0, to, NestOf(c), d)
                           /\ Short(d.inst) => to = target
<1>1. Pos(c) = Len(c.inst) + 1 /\ Len(c.inst) \in Nat /\ Pos(c) \in Nat
  BY ElementOf DEF Chunks, Pos
<1>2. PICK n \in Nat : n = Pos(c) - target
  <2>1. PICK p \in Nat : p = Pos(c)
    BY <1>1
  <2>2. target \in 0 .. p
    BY <2>1
  <2> QED BY <2>1, <2>2
<1>3. n % OffsetLimit \in Nat /\ n % OffsetLimit <= n
  BY CodeAssumption
<1>4. PICK to \in Nat : to = Pos(c) - (n % OffsetLimit)
  BY <1>1, <1>2, <1>3
<1>5. d = Coded(c, "jmp", 0, 0, to)
  BY <1>2, <1>4 DEF JumpBack
<1>6. Codes(c, "jmp", 0, 0, to, NestOf(c), d)
  BY <1>5, CodedMoves
<1>7. ASSUME Short(d.inst) PROVE to = target
  <2>1. Len(d.inst) = Pos(c) /\ OffsetLimit \in Nat
    BY <1>1, <1>6, CodeAssumption DEF Codes
  <2>2. n < OffsetLimit
    BY <1>1, <1>2, <1>7, <2>1 DEF Short
  <2>3. n % OffsetLimit = n
    BY <2>2, Uncut
  <2> QED BY <1>1, <1>2, <1>4, <2>3
<1> QED BY <1>6, <1>7

LEMMA RetMoves ==
    ASSUME loops \in Seq(LoopInfos), NEW c \in Chunks, NEW takes \in Nat
    PROVE  Codes(c, "ret", takes, 0, 0, NestOf(c), Coded(c, "ret", takes, 0, 0))
BY CodedMoves

LEMMA NestSame ==
    ASSUME NEW c, NEW d, d.outer = c.outer
    PROVE  NestOf(d) = NestOf(c)
BY DEF NestOf, Own

\* d is c and data that is put behind it.
Data(c, k, d) ==
    /\ Moves(c, d, NestOf(c), {}) /\ d \in Chunks /\ d.h = k /\ NestOf(d) = NestOf(c)

LEMMA DataMoves ==
    ASSUME NEW c \in Chunks, NEW s \in Seq(Inst), NEW k \in Int, Follows(c, s, k, NestOf(c)),
           \A q \in 1 .. Len(s) : s[q].op = "data" /\ s[q].to = 0,
           NEW d, d = [c EXCEPT !.inst = @ \o s, !.h = k]
    PROVE  Data(c, k, d) /\ ((\A q \in 1 .. Len(s) : s[q].takes <= s[q].h) => FedFrom(c, d))
<1>1. d = [inst |-> c.inst \o s, h |-> k, outer |-> c.outer]
  BY DEF Chunks
<1>2. \A q \in 1 .. Len(s) : s[q].op \in Turns => Len(c.inst) + q \in {}
  BY DEF Turns, Jumps
<1>3. Appends(c, s, k, NestOf(c), {}, d)
  BY <1>1, <1>2, AppendedMoves
<1>4. d.outer = c.outer /\ d \in Chunks
  BY <1>3 DEF Appends, Moves
<1>5. NestOf(d) = NestOf(c)
  BY <1>4, NestSame
<1> QED BY <1>3, <1>4, <1>5 DEF Appends, Data

LEMMA PushesMoves ==
    ASSUME loops \in Seq(LoopInfos), NEW c \in Chunks, NEW n \in Nat
    PROVE  Data(c, c.h + n, Pushes(c, n)) /\ (c.h >= 0 => FedFrom(c, Pushes(c, n)))
<1>1. PICK w : w = [i \in 1 .. n |-> [op |-> "data", takes |-> 0, gives |-> 1, to |-> 0,
                                      leaves |-> FALSE, h |-> c.h + i - 1, nest |-> NestOf(c)]]
  OBVIOUS
<1>2. PICK b \in Int : b = c.h
  BY DEF Chunks
<1>3. NestOf(c) \in Seq(LoopId)
  BY NestIs
<1>4. ASSUME NEW i \in 1 .. n
      PROVE  /\ w[i] \in Inst /\ w[i].op = "data" /\ w[i].to = 0 /\ w[i].takes = 0 /\ w[i].gives = 1
             /\ w[i].h = b + i - 1 /\ w[i].nest = NestOf(c)
  BY <1>1, <1>2, <1>3 DEF Inst, Where
<1>5. w = [i \in 1 .. n |-> w[i]]
  BY <1>1
<1>6. w \in Seq(Inst) /\ Len(w) = n /\ \A q \in 1 .. Len(w) : w[q].op = "data" /\ w[q].to = 0
  BY SMTT(60), <1>4, <1>5, ManyAre
<1>7. Follows(c, w, b + n, NestOf(c))
  <2>1. IF Len(w) = 0 THEN b + n = c.h ELSE w[1].h = c.h
    <3>1. CASE n = 0
      BY <1>2, <1>6, <3>1
    <3>2. CASE n # 0
      <4>1. 1 \in 1 .. n
        BY <3>2
      <4>2. w[1].h = b + 1 - 1
        BY <1>4, <4>1
      <4> QED BY <1>2, <1>6, <3>2, <4>2
    <3> QED BY <3>1, <3>2
  <2>2. ASSUME NEW q \in 1 .. n PROVE HAt(w, b + n, q + 1) = w[q].h - w[q].takes + w[q].gives
    <3>1. w[q].h - w[q].takes + w[q].gives = b + q
      BY <1>4
    <3>2. CASE q + 1 \in 1 .. n
      <4>1. w[q + 1].h = b + (q + 1) - 1
        BY <1>4, <3>2
      <4> QED BY <1>6, <3>1, <3>2, <4>1 DEF HAt
    <3>3. CASE q + 1 \notin 1 .. n
      <4>1. q = n
        BY <3>3
      <4> QED BY <1>6, <3>1, <3>3, <4>1 DEF HAt
    <3> QED BY <3>2, <3>3
  <2> QED BY <1>4, <1>6, <2>1, <2>2 DEF Follows
<1>8. PICK k \in Int : k = b + n
  OBVIOUS
<1>9. Pushes(c, n) = [c EXCEPT !.inst = @ \o w, !.h = k]
  BY <1>1, <1>2, <1>8 DEF Pushes, Chunks
<1>10. PICK d : d = Pushes(c, n)
  OBVIOUS
<1>11. Data(c, k, d) /\ ((\A q \in 1 .. Len(w) : w[q].takes <= w[q].h) => FedFrom(c, d))
  <2>1. Follows(c, w, k, NestOf(c)) /\ d = [c EXCEPT !.inst = @ \o w, !.h = k]
    BY <1>7, <1>8, <1>9, <1>10
  <2> QED BY <1>6, <2>1, DataMoves
<1>12. c.h >= 0 => \A q \in 1 .. Len(w) : w[q].takes <= w[q].h
  <2> SUFFICES ASSUME b >= 0, NEW q \in 1 .. n PROVE w[q].takes <= w[q].h
    BY <1>2, <1>6
  <2> QED BY <1>4
<1> QED BY <1>2, <1>8, <1>10, <1>11, <1>12

LEMMA FieldsMoves ==
    ASSUME loops \in Seq(LoopInfos), NEW c \in Chunks, NEW n \in Int
    PROVE  Data(c, c.h, Fields(c, n)) /\ (c.h >= 1 => FedFrom(c, Fields(c, n)))
<1>1. PICK w : w = [i \in 1 .. n |-> [op |-> "data", takes |-> 1, gives |-> 1, to |-> 0,
                                      leaves |-> FALSE, h |-> c.h, nest |-> NestOf(c)]]
  OBVIOUS
<1>2. PICK b \in Int : b = c.h
  BY DEF Chunks
<1>3. NestOf(c) \in Seq(LoopId) /\ c = [inst |-> c.inst, h |-> c.h, outer |-> c.outer]
  BY NestIs DEF Chunks
<1>4. ASSUME NEW i \in 1 .. n
      PROVE  /\ w[i] \in Inst /\ w[i].op = "data" /\ w[i].to = 0 /\ w[i].takes = 1 /\ w[i].gives = 1
             /\ w[i].h = b /\ w[i].nest = NestOf(c)
  BY <1>1, <1>2, <1>3 DEF Inst, Where
<1>5. PICK p \in Nat : 1 .. n = 1 .. p
  <2>1. CASE n \in Nat
    BY <2>1
  <2>2. CASE n \notin Nat
    <3>1. 1 .. n = 1 .. 0
      BY <2>2
    <3> QED BY <3>1
  <2> QED BY <2>1, <2>2
<1>6. w \in Seq(Inst) /\ Len(w) = p /\ \A q \in 1 .. Len(w) : w[q].op = "data" /\ w[q].to = 0
  <2>1. w = [i \in 1 .. p |-> w[i]] /\ \A i \in 1 .. p : w[i] \in Inst /\ w[i].op = "data" /\ w[i].to = 0
    BY <1>1, <1>4, <1>5
  <2> QED BY <2>1, ManyAre
<1>7. Follows(c, w, b, NestOf(c))
  <2>1. IF Len(w) = 0 THEN b = c.h ELSE w[1].h = c.h
    <3>1. CASE p = 0
      BY <1>2, <1>6, <3>1
    <3>2. CASE p # 0
      <4>1. 1 \in 1 .. p
        BY <3>2
      <4>2. w[1].h = b
        BY <1>4, <1>5, <4>1
      <4> QED BY <1>2, <1>6, <3>2, <4>2
    <3> QED BY <3>1, <3>2
  <2>2. ASSUME NEW q \in 1 .. p PROVE HAt(w, b, q + 1) = w[q].h - w[q].takes + w[q].gives
    <3>1. w[q].h - w[q].takes + w[q].gives = b
      BY <1>4, <1>5
    <3>2. CASE q + 1 \in 1 .. p
      <4>1. w[q + 1].h = b
        BY <1>4, <1>5, <3>2
      <4> QED BY <1>6, <3>1, <3>2, <4>1 DEF HAt
    <3>3. CASE q + 1 \notin 1 .. p
      BY <1>6, <3>1, <3>3 DEF HAt
    <3> QED BY <3>2, <3>3
  <2> QED BY <1>4, <1>5, <1>6, <2>1, <2>2 DEF Follows
<1>8. Fields(c, n) = [c EXCEPT !.inst = @ \o w, !.h = b]
  BY <1>1, <1>2, <1>3 DEF Fields
<1>9. Data(c, b, Fields(c, n)) /\ ((\A q \in 1 .. Len(w) : w[q].takes <= w[q].h) => FedFrom(c, Fields(c, n)))
  BY <1>6, <1>7, <1>8, DataMoves
<1>10. c.h >= 1 => \A q \in 1 .. Len(w) : w[q].takes <= w[q].h
  <2> SUFFICES ASSUME b >= 1, NEW q \in 1 .. p PROVE w[q].takes <= w[q].h
    BY <1>2, <1>6
  <2> QED BY <1>4, <1>5
<1> QED BY <1>2, <1>9, <1>10

\* d is c with the jumps held at P patched: they go behind it.
Patches(c, P, op, leaves, d) ==
    /\ c \in Chunks /\ d \in Chunks /\ d.outer = c.outer /\ d.h = c.h
    /\ Len(d.inst) = Len(c.inst) /\ Len(c.inst) \in Nat
    /\ \A i \in 1 .. Len(c.inst) : i \notin P => d.inst[i] = c.inst[i]
    /\ \A i \in 1 .. Len(c.inst) :
          /\ d.inst[i].h = c.inst[i].h /\ d.inst[i].nest = c.inst[i].nest
          /\ d.inst[i].takes = c.inst[i].takes /\ d.inst[i].gives = c.inst[i].gives
          /\ i \in P => /\ d.inst[i].op = op /\ d.inst[i].leaves = leaves
                        /\ Short(c.inst) => d.inst[i].to = Len(c.inst) + 1

LEMMA PatchedIs ==
    ASSUME NEW c \in Chunks, NEW P, NEW op \in Jumps, NEW leaves \in BOOLEAN,
           NEW d, d = Patched(c, P, op, leaves)
    PROVE  Patches(c, P, op, leaves, d)
<1>1. c.inst \in Seq(Inst) /\ Len(c.inst) \in Nat /\ DOMAIN c.inst = 1 .. Len(c.inst)
  BY DEF Chunks
<1>2. PICK t : t = [i \in 1 .. Len(c.inst) |-> i + ((Pos(c) - i) % OffsetLimit)]
  OBVIOUS
<1>3. ASSUME NEW i \in 1 .. Len(c.inst)
      PROVE  t[i] \in Nat /\ (Short(c.inst) => t[i] = Len(c.inst) + 1)
  <2>0. Pos(c) - i \in Nat
    BY <1>1 DEF Pos
  <2>1. PICK n \in Nat : n = Pos(c) - i
    BY <2>0
  <2>2. n % OffsetLimit \in Nat /\ t[i] = i + (n % OffsetLimit)
    BY <1>2, <2>1, CodeAssumption
  <2>3. ASSUME Short(c.inst) PROVE t[i] = Len(c.inst) + 1
    <3>1. n < OffsetLimit
      BY <1>1, <2>1, <2>3, CodeAssumption DEF Short, Pos
    <3>2. n % OffsetLimit = n
      BY <3>1, Uncut
    <3> QED BY <1>1, <2>1, <2>2, <3>2 DEF Pos
  <2> QED BY <1>1, <2>2, <2>3
<1>4. PICK r : r = [i \in 1 .. Len(c.inst) |->
                      IF i \in P
                      THEN [c.inst[i] EXCEPT !.op = op, !.to = t[i], !.leaves = leaves]
                      ELSE c.inst[i]]
  OBVIOUS
<1>5. d = [inst |-> r, h |-> c.h, outer |-> c.outer]
  <2>1. r = [i \in DOMAIN c.inst |->
               IF i \in P
               THEN [c.inst[i] EXCEPT !.op = op, !.to = i + ((Pos(c) - i) % OffsetLimit), !.leaves = leaves]
               ELSE c.inst[i]]
    BY <1>1, <1>2, <1>4
  <2>2. d = [c EXCEPT !.inst = r]
    BY <2>1 DEF Patched
  <2> QED BY SMTT(60), <2>2 DEF Chunks
<1>6. ASSUME NEW i \in 1 .. Len(c.inst)
      PROVE  /\ r[i] \in Inst /\ r[i].takes = c.inst[i].takes /\ r[i].gives = c.inst[i].gives
             /\ r[i].h = c.inst[i].h /\ r[i].nest = c.inst[i].nest
             /\ i \in P => r[i].op = op /\ r[i].to = t[i] /\ r[i].leaves = leaves
             /\ i \notin P => r[i] = c.inst[i]
  <2>1. PICK e \in Inst : e = c.inst[i]
    BY <1>1, InstIs
  <2>2. CASE i \in P
    <3>1. r[i] = [c.inst[i] EXCEPT !.op = op, !.to = t[i], !.leaves = leaves]
      BY <1>4, <2>2
    <3>2. t[i] \in Nat /\ r[i] = Repatched(e, op, t[i], leaves)
      BY <1>3, <2>1, <3>1 DEF Repatched
    <3>3. IsPatched(e, op, t[i], leaves, r[i])
      BY <3>2, InstPatched
    <3> QED BY <2>1, <2>2, <3>3 DEF IsPatched
  <2>3. CASE i \notin P
    BY <1>4, <2>1, <2>3
  <2> QED BY <2>2, <2>3
<1>7. r \in Seq(Inst) /\ Len(r) = Len(c.inst)
  <2>1. DOMAIN r = 1 .. Len(c.inst)
    BY <1>4
  <2>2. \A i \in 1 .. Len(c.inst) : r[i] \in Inst
    BY SMTT(60), <1>6
  <2>3. r = [i \in 1 .. Len(c.inst) |-> r[i]]
    BY <1>4
  <2>4. r \in [1 .. Len(c.inst) -> Inst]
    BY <2>2, <2>3
  <2> QED BY <1>1, <2>1, <2>4
<1>8. d \in Chunks /\ d.inst = r /\ d.outer = c.outer /\ d.h = c.h
  BY <1>5, <1>7 DEF Chunks
<1> QED BY SMTT(60), <1>1, <1>3, <1>6, <1>7, <1>8 DEF Patches

\* Code of which only what the instructions do has changed, and that not in a jump but at P.
LEMMA SameMoves ==
    ASSUME NEW c \in Chunks, NEW d \in Chunks, d.outer = c.outer, d.h = c.h, Len(d.inst) = Len(c.inst),
           NEW n, NEW P,
           \A i \in 1 .. Len(c.inst) :
              /\ d.inst[i].h = c.inst[i].h /\ d.inst[i].nest = c.inst[i].nest
              /\ d.inst[i].takes = c.inst[i].takes /\ d.inst[i].gives = c.inst[i].gives
              /\ i \notin P /\ d.inst[i].op \in Turns => d.inst[i] = c.inst[i]
    PROVE  Moves(c, d, n, P) /\ FedFrom(c, d) /\ NestOf(d) = NestOf(c)
<1>1. Len(c.inst) \in Nat
  BY DEF Chunks
<1>2. Len(c.inst) + 1 .. Len(d.inst) = {} /\ Len(c.inst) + 1 \notin 1 .. Len(d.inst)
  BY <1>1
<1>3. NestOf(d) = NestOf(c)
  BY DEF NestOf, Own
<1>4. HAt(d.inst, d.h, Len(c.inst) + 1) = c.h
  BY <1>2 DEF HAt
<1>5. Len(d.inst) \in Nat /\ Len(c.inst) <= Len(d.inst)
  BY <1>1
<1>6. \A i \in Len(c.inst) + 1 .. Len(d.inst) : FALSE
  BY <1>2
<1>7. Moves(c, d, n, P)
  BY <1>1, <1>4, <1>5, <1>6 DEF Moves
<1>8. FedFrom(c, d)
  BY <1>6 DEF FedFrom
<1> QED BY <1>3, <1>7, <1>8

LEMMA PatchedMoves ==
    ASSUME NEW c, NEW d, NEW P, NEW op, NEW leaves, Patches(c, P, op, leaves, d), NEW n
    PROVE  Moves(c, d, n, P) /\ FedFrom(c, d) /\ NestOf(d) = NestOf(c)
<1>1. /\ c \in Chunks /\ d \in Chunks /\ d.outer = c.outer /\ d.h = c.h /\ Len(d.inst) = Len(c.inst)
      /\ \A i \in 1 .. Len(c.inst) :
              /\ d.inst[i].h = c.inst[i].h /\ d.inst[i].nest = c.inst[i].nest
              /\ d.inst[i].takes = c.inst[i].takes /\ d.inst[i].gives = c.inst[i].gives
              /\ i \notin P /\ d.inst[i].op \in Turns => d.inst[i] = c.inst[i]
  BY DEF Patches
<1> QED BY <1>1, SameMoves

LEMMA LoadedMoves ==
    ASSUME NEW c \in Chunks, NEW at \in 1 .. Len(c.inst), NEW n
    PROVE  /\ Moves(c, Loaded(c, at), n, {}) /\ FedFrom(c, Loaded(c, at)) /\ NestOf(Loaded(c, at)) = NestOf(c)
           /\ Loaded(c, at).h = c.h /\ Loaded(c, at).outer = c.outer /\ Loaded(c, at) \in Chunks
<1>1. c.inst \in Seq(Inst) /\ Len(c.inst) \in Nat /\ c = [inst |-> c.inst, h |-> c.h, outer |-> c.outer]
  BY DEF Chunks
<1>2. PICK e \in Inst : e = c.inst[at]
  BY <1>1, InstIs
<1>3. PICK p : p = [e EXCEPT !.op = "data"]
  OBVIOUS
<1>4. p \in Inst /\ p.op = "data" /\ p.takes = e.takes /\ p.gives = e.gives /\ p.h = e.h /\ p.nest = e.nest
  BY <1>3 DEF Inst
<1>5. PICK r : r = [c.inst EXCEPT ![at] = p]
  OBVIOUS
<1>6. /\ r \in Seq(Inst) /\ Len(r) = Len(c.inst) /\ r[at] = p
      /\ \A j \in 1 .. Len(c.inst) : j # at => r[j] = c.inst[j]
  BY <1>1, <1>4, <1>5
<1>7. Loaded(c, at) = [inst |-> r, h |-> c.h, outer |-> c.outer]
  <2>1. r = [c.inst EXCEPT ![at] = [c.inst[at] EXCEPT !.op = "data"]]
    BY <1>2, <1>3, <1>5
  <2>2. Loaded(c, at) = [c EXCEPT !.inst = r]
    BY <2>1 DEF Loaded
  <2> QED BY <2>2 DEF Chunks
<1>8. PICK d : d = Loaded(c, at)
  OBVIOUS
<1>9. d \in Chunks /\ d.inst = r /\ d.outer = c.outer /\ d.h = c.h
  BY <1>6, <1>7, <1>8 DEF Chunks
<1>10. \A i \in 1 .. Len(c.inst) :
              /\ r[i].h = c.inst[i].h /\ r[i].nest = c.inst[i].nest
              /\ r[i].takes = c.inst[i].takes /\ r[i].gives = c.inst[i].gives
              /\ i \notin {} /\ r[i].op \in Turns => r[i] = c.inst[i]
  <2>1. "data" \notin Turns
    BY DEF Turns, Jumps
  <2> QED BY <1>2, <1>4, <1>6, <2>1
<1>11. Moves(c, d, n, {}) /\ FedFrom(c, d) /\ NestOf(d) = NestOf(c)
  BY ZenonT(60), <1>6, <1>9, <1>10, SameMoves
<1> QED BY <1>8, <1>9, <1>11

\* What has been patched lands behind the code, in the loops n there.
LEMMA PatchedLands ==
    ASSUME NEW c, NEW d, NEW P, NEW op, NEW leaves, Patches(c, P, op, leaves, d), Short(c.inst),
           NEW i \in P, i \in 1 .. Len(c.inst), NEW n
    PROVE  /\ (leaves = FALSE /\ Pre(c.inst[i].nest, n)) => LandsIn(d.inst, n, i)
           /\ (leaves = TRUE /\ PreBut(c.inst[i].nest, n)) => LandsIn(d.inst, n, i)
           /\ op = "jmp" /\ c.inst[i].h = c.h => LandsOn(d.inst, d.h, i)
           /\ (op \in {"jnt", "jnn"} /\ Was(c, i, c.h, 1, 0)) => LandsOn(d.inst, d.h, i)
           /\ (op = "jne" /\ Was(c, i, c.h + 1, 1, 0)) => LandsOn(d.inst, d.h, i)
           /\ (op = "foreach" /\ Was(c, i, c.h + 1, 1, 1)) => LandsOn(d.inst, d.h, i)
<1>1. /\ Len(d.inst) = Len(c.inst) /\ Len(c.inst) \in Nat /\ d.h = c.h
      /\ d.inst[i].h = c.inst[i].h /\ d.inst[i].nest = c.inst[i].nest
      /\ d.inst[i].takes = c.inst[i].takes /\ d.inst[i].gives = c.inst[i].gives
      /\ d.inst[i].op = op /\ d.inst[i].leaves = leaves /\ d.inst[i].to = Len(c.inst) + 1
  BY DEF Patches
<1>2. d.inst[i].to \in 1 .. Len(d.inst) + 1 /\ d.inst[i].to \notin 1 .. Len(d.inst)
  BY <1>1
<1>3. NAt(d.inst, n, d.inst[i].to) = n /\ HAt(d.inst, d.h, d.inst[i].to) = c.h
  BY <1>1, <1>2 DEF NAt, HAt
<1>4. (leaves = FALSE /\ Pre(c.inst[i].nest, n)) => LandsIn(d.inst, n, i)
  BY <1>1, <1>2, <1>3 DEF LandsIn
<1>5. (leaves = TRUE /\ PreBut(c.inst[i].nest, n)) => LandsIn(d.inst, n, i)
  BY <1>1, <1>2, <1>3 DEF LandsIn
<1>6. op = "jmp" /\ c.inst[i].h = c.h => LandsOn(d.inst, d.h, i)
  BY <1>1, <1>2, <1>3 DEF LandsOn
<1>7. (op \in {"jnt", "jnn"} /\ Was(c, i, c.h, 1, 0)) => LandsOn(d.inst, d.h, i)
  BY <1>1, <1>2, <1>3 DEF LandsOn, Was
<1>8. c.h \in Int
  BY DEF Patches, Chunks
<1>9. (op = "jne" /\ Was(c, i, c.h + 1, 1, 0)) => LandsOn(d.inst, d.h, i)
  BY <1>1, <1>2, <1>3, <1>8 DEF LandsOn, Was
<1>10. (op = "foreach" /\ Was(c, i, c.h + 1, 1, 1)) => LandsOn(d.inst, d.h, i)
  BY <1>1, <1>2, <1>3, <1>8 DEF LandsOn, Was
<1> QED BY <1>4, <1>5, <1>6, <1>7, <1>9, <1>10

-----------------------------------------------------------------------------
(* The loops around a pending function *)

LEMMA SliceIs ==
    ASSUME NEW lp \in Seq(LoopInfos), NEW a \in Nat, NEW b \in Nat, a <= b, b <= Len(lp)
    PROVE  /\ Slice(lp, a, b) \in Seq(LoopId) /\ Len(Slice(lp, a, b)) = b - a
           /\ \A i \in 1 .. b - a : Slice(lp, a, b)[i] = lp[a + i].id
<1>1. PICK n \in Nat : n = b - a
  OBVIOUS
<1>2. \A i \in 1 .. n : a + i \in 1 .. Len(lp)
  BY <1>1
<1>3. \A i \in 1 .. n : lp[a + i].id \in LoopId
  <2>1. \A q \in 1 .. Len(lp) : lp[q] \in LoopInfos
    OBVIOUS
  <2>2. \A l \in LoopInfos : l.id \in LoopId
    BY DEF LoopInfos
  <2> QED BY <1>2, <2>1, <2>2
<1>4. Slice(lp, a, b) = [i \in 1 .. n |-> lp[a + i].id]
  BY <1>1 DEF Slice
<1>5. PICK s : s = [i \in 1 .. n |-> lp[a + i].id]
  OBVIOUS
<1>6. s \in Seq(LoopId) /\ Len(s) = n /\ \A i \in 1 .. n : s[i] = lp[a + i].id
  BY <1>3, <1>5
<1> QED BY <1>1, <1>4, <1>5, <1>6

LEMMA SlicePre ==
    ASSUME NEW lp \in Seq(LoopInfos), NEW a \in Nat, NEW b \in Nat, NEW e \in Nat,
           a <= b, b <= e, e <= Len(lp)
    PROVE  Pre(Slice(lp, a, b), Slice(lp, a, e))
<1>1. b <= Len(lp) /\ a <= e /\ Len(lp) \in Nat
  OBVIOUS
<1>2. /\ Len(Slice(lp, a, b)) = b - a /\ \A i \in 1 .. b - a : Slice(lp, a, b)[i] = lp[a + i].id
      /\ Len(Slice(lp, a, e)) = e - a /\ \A i \in 1 .. e - a : Slice(lp, a, e)[i] = lp[a + i].id
  BY <1>1, SliceIs
<1>3. b - a <= e - a /\ \A i \in 1 .. b - a : i \in 1 .. e - a
  OBVIOUS
<1> QED BY <1>2, <1>3 DEF Pre

LEMMA SameSequence ==
    ASSUME NEW S, NEW k \in Nat, NEW v \in Seq(S), NEW w \in Seq(S), Len(v) = k, Len(w) = k,
           \A i \in 1 .. k : v[i] = w[i]
    PROVE  v = w
<1>1. v \in [1 .. k -> S] /\ w \in [1 .. k -> S]
  BY SMTT(60)
<1>2. v = [i \in 1 .. k |-> v[i]] /\ w = [i \in 1 .. k |-> w[i]]
  BY ZenonT(60), <1>1
<1>3. [i \in 1 .. k |-> v[i]] = [i \in 1 .. k |-> w[i]]
  OBVIOUS
<1> QED BY <1>2, <1>3

LEMMA SliceNext ==
    ASSUME NEW lp \in Seq(LoopInfos), NEW a \in Nat, NEW b \in Nat, a <= b, b + 1 <= Len(lp)
    PROVE  Slice(lp, a, b + 1) = Append(Slice(lp, a, b), lp[b + 1].id)
<1>1. b <= Len(lp) /\ a <= b + 1 /\ Len(lp) \in Nat /\ b + 1 \in Nat /\ b + 1 \in 1 .. Len(lp)
  OBVIOUS
<1>2. lp[b + 1].id \in LoopId
  <2>1. \A q \in 1 .. Len(lp) : lp[q] \in LoopInfos
    OBVIOUS
  <2>2. \A l \in LoopInfos : l.id \in LoopId
    BY DEF LoopInfos
  <2> QED BY <1>1, <2>1, <2>2
<1>3. PICK n \in Nat : n = b - a
  OBVIOUS
<1>4. PICK s : s = Slice(lp, a, b)
  OBVIOUS
<1>5. PICK v : v = Slice(lp, a, b + 1)
  OBVIOUS
<1>6. s \in Seq(LoopId) /\ Len(s) = n /\ \A i \in 1 .. n : s[i] = lp[a + i].id
  BY ZenonT(60), <1>1, <1>3, <1>4, SliceIs
<1>7. (b + 1) - a = n + 1 /\ a + (n + 1) = b + 1
  BY <1>3
<1>8. v \in Seq(LoopId) /\ Len(v) = n + 1 /\ \A i \in 1 .. n + 1 : v[i] = lp[a + i].id
  <2>1. PICK e \in Nat : e = b + 1
    BY <1>1
  <2>2. e <= Len(lp) /\ a <= e /\ e - a = n + 1
    BY <1>1, <1>3, <2>1
  <2>3. /\ Slice(lp, a, e) \in Seq(LoopId) /\ Len(Slice(lp, a, e)) = e - a
        /\ \A i \in 1 .. e - a : Slice(lp, a, e)[i] = lp[a + i].id
    BY <2>2, SliceIs
  <2> QED BY <1>5, <2>1, <2>2, <2>3
<1>9. PICK w : w = Append(s, lp[b + 1].id)
  OBVIOUS
<1>10. w \in Seq(LoopId) /\ Len(w) = n + 1 /\ w[n + 1] = lp[b + 1].id /\ \A i \in 1 .. n : w[i] = s[i]
  BY <1>2, <1>6, <1>9
<1>11. \A i \in 1 .. n + 1 : v[i] = w[i]
  <2> SUFFICES ASSUME NEW i \in 1 .. n + 1 PROVE v[i] = w[i]
    OBVIOUS
  <2>1. i = n + 1 \/ i \in 1 .. n
    OBVIOUS
  <2> QED BY ZenonT(60), <1>6, <1>7, <1>8, <1>10, <2>1
<1>12. v = w
  BY <1>8, <1>10, <1>11, SameSequence
<1> QED BY <1>4, <1>5, <1>9, <1>12

\* Up to b the loops have the same names.
SameNames(lp, p, b) == \A q \in 1 .. b : p[q].id = lp[q].id

LEMMA SliceSame ==
    ASSUME NEW lp, NEW p, NEW a \in Nat, NEW b \in Nat, SameNames(lp, p, b)
    PROVE  Slice(p, a, b) = Slice(lp, a, b)
<1>1. \A i \in 1 .. b - a : a + i \in 1 .. b
  OBVIOUS
<1> QED BY <1>1 DEF Slice, SameNames

\* The loops of an instruction are those of the place it is emitted at.
LEMMA NestSlice ==
    ASSUME loops \in Seq(LoopInfos), NEW c \in Chunks, c.outer <= Len(loops)
    PROVE  NestOf(c) = Slice(loops, c.outer, Len(loops))
<1>1. PICK a \in Nat : a = c.outer
  BY DEF Chunks
<1>2. PICK m \in Nat : m = Len(loops)
  OBVIOUS
<1>3. PICK n \in Nat : n = m - a
  BY <1>1, <1>2
<1>4. PICK s : s = SubSeq(loops, a + 1, m)
  OBVIOUS
<1>5. DOMAIN s = 1 .. n /\ \A i \in 1 .. n : s[i] = loops[a + i]
  <2>1. s \in Seq(LoopInfos) /\ Len(s) = n /\ \A i \in 1 .. n : s[i] = loops[(a + 1) + i - 1]
    BY SMTT(60), <1>1, <1>2, <1>3, <1>4
  <2>2. \A i \in 1 .. n : (a + 1) + i - 1 = a + i
    OBVIOUS
  <2> QED BY <2>1, <2>2
<1>6. NestOf(c) = [i \in 1 .. n |-> s[i].id]
  BY <1>1, <1>2, <1>4, <1>5 DEF NestOf, Own
<1>7. [i \in 1 .. n |-> s[i].id] = [i \in 1 .. n |-> loops[a + i].id]
  BY <1>5
<1> QED BY <1>1, <1>2, <1>3, <1>6, <1>7 DEF Slice

\* The loops that were there when the function was entered are not of it.
LEMMA OuterBelow ==
    ASSUME NEW t \in Seq(Items), NEW ch \in Seq(Chunks), NEW lp \in Seq(LoopInfos), Aligned(t, ch, lp),
           NEW j \in 1 .. Len(t) + 1
    PROVE  ch[Level(t, j)].outer \in Nat /\ ch[Level(t, j)].outer <= Around(t, j)
<1>1. Len(t) \in Nat /\ j \in Nat \ {0} /\ j \in Nat
  OBVIOUS
<1>2. Level(t, j) = 1 + Opens(t, j, {"func"}) /\ Around(t, j) = Opens(t, j, {"loop", "iter"})
  BY DEF Level, Around
<1>3. Opens(t, j, {"func"}) \in Nat /\ Opens(t, j, {"loop", "iter"}) \in Nat
  BY <1>1, ThoseFinite
<1>4. CASE Opens(t, j, {"func"}) = 0
  <2>1. ch[1].outer = 0 /\ Level(t, j) = 1
    BY <1>2, <1>4 DEF Aligned
  <2> QED BY <1>2, <1>3, <2>1
<1>5. CASE Opens(t, j, {"func"}) # 0
  <2>1. PICK i \in 1 .. j - 1 : t[i].do \in {"func"} /\ Opens(t, i, {"func"}) + 1 = Opens(t, j, {"func"})
    BY <1>1, <1>5, OpensLast
  <2>2. i \in 1 .. Len(t) /\ i \in Nat /\ i <= j
    BY <1>1
  <2>3. ch[Level(t, i) + 1].outer = Around(t, i)
    BY <2>1, <2>2 DEF Aligned
  <2>4. Level(t, i) + 1 = Level(t, j)
    <3>1. Opens(t, i, {"func"}) \in Nat
      BY <2>2, ThoseFinite
    <3> QED BY <1>2, <2>1, <3>1 DEF Level
  <2>5. Opens(t, i, {"loop", "iter"}) <= Opens(t, j, {"loop", "iter"}) /\ Opens(t, i, {"loop", "iter"}) \in Nat
    BY <1>1, <2>2, OpensGrows, ThoseFinite
  <2> QED BY <1>2, <2>3, <2>4, <2>5 DEF Around
<1> QED BY <1>4, <1>5

-----------------------------------------------------------------------------
(* A step of the parser: what it leaves of the flow *)

\* The items below the top of t are where they were, and not above it.
Low(t, r, M, A) ==
    /\ \A j \in 1 .. Len(t) : Level(r, j) = Level(t, j) /\ Around(r, j) = Around(t, j)
    /\ \A j \in 1 .. Len(t) - 1 :
          /\ Level(t, j) \in 1 .. M /\ Around(t, j) \in 0 .. A
          /\ t[j].do \in {"loop", "iter"} => Around(t, j) + 1 \in 1 .. A
          /\ t[j].do = "func" => Level(t, j) + 1 \in 1 .. M

LEMMA LowLevels ==
    ASSUME NEW t \in Seq(Items), NEW u, NEW r, IsReplaced(Items, t, u, r)
    PROVE  Low(t, r, Level(t, Len(t)), Around(t, Len(t)))
<1>1. Len(t) \in Nat \ {0} /\ \A j \in 1 .. Len(t) - 1 : r[j] = t[j]
  BY DEF IsReplaced
<1>2. ASSUME NEW j \in 1 .. Len(t)
      PROVE  Level(r, j) = Level(t, j) /\ Around(r, j) = Around(t, j)
  <2>1. \A i \in 1 .. j - 1 : i \in 1 .. Len(t) - 1
    BY <1>1
  <2>2. SameBelow(t, r, j)
    BY <1>1, <2>1 DEF SameBelow
  <2>3. /\ Opens(r, j, {"func"}) = Opens(t, j, {"func"})
        /\ Opens(r, j, {"loop", "iter"}) = Opens(t, j, {"loop", "iter"})
    BY <2>2, OpensSame
  <2> QED BY <2>3 DEF Level, Around
<1>3. PICK M \in Nat, A \in Nat : M = Level(t, Len(t)) /\ A = Around(t, Len(t))
  BY <1>1, LevelType
<1>4. ASSUME NEW j \in 1 .. Len(t) - 1
      PROVE  /\ Level(t, j) \in 1 .. M /\ Around(t, j) \in 0 .. A
             /\ t[j].do \in {"loop", "iter"} => Around(t, j) + 1 \in 1 .. A
             /\ t[j].do = "func" => Level(t, j) + 1 \in 1 .. M
  <2>1. j \in Nat \ {0} /\ j + 1 \in Nat /\ j + 1 <= Len(t) /\ Len(t) \in Nat
    BY <1>1
  <2>2. /\ Opens(t, j, {"func"}) <= Opens(t, j + 1, {"func"})
        /\ Opens(t, j, {"loop", "iter"}) <= Opens(t, j + 1, {"loop", "iter"})
        /\ Opens(t, j + 1, {"func"}) <= Opens(t, Len(t), {"func"})
        /\ Opens(t, j + 1, {"loop", "iter"}) <= Opens(t, Len(t), {"loop", "iter"})
    BY <2>1, OpensGrows
  <2>3. /\ t[j].do \in {"func"} => Opens(t, j + 1, {"func"}) = Opens(t, j, {"func"}) + 1
        /\ t[j].do \in {"loop", "iter"} =>
              Opens(t, j + 1, {"loop", "iter"}) = Opens(t, j, {"loop", "iter"}) + 1
    BY <2>1, OpensNext
  <2>4. /\ Opens(t, j, {"func"}) \in Nat /\ Opens(t, j, {"loop", "iter"}) \in Nat
        /\ Opens(t, j + 1, {"func"}) \in Nat /\ Opens(t, j + 1, {"loop", "iter"}) \in Nat
        /\ Opens(t, Len(t), {"func"}) \in Nat /\ Opens(t, Len(t), {"loop", "iter"}) \in Nat
    BY <2>1, ThoseFinite
  <2>5. M = 1 + Opens(t, Len(t), {"func"}) /\ A = Opens(t, Len(t), {"loop", "iter"})
    BY <1>3 DEF Level, Around
  <2>6. Level(t, j) = 1 + Opens(t, j, {"func"}) /\ Around(t, j) = Opens(t, j, {"loop", "iter"})
    BY DEF Level, Around
  <2>7. Level(t, j) \in 1 .. M /\ Around(t, j) \in 0 .. A
    BY SMTT(60), <2>2, <2>4, <2>5, <2>6
  <2>8. t[j].do \in {"loop", "iter"} => Around(t, j) + 1 \in 1 .. A
    BY SMTT(60), <2>2, <2>3, <2>4, <2>5, <2>6
  <2>9. t[j].do = "func" => Level(t, j) + 1 \in 1 .. M
    BY SMTT(60), <2>2, <2>3, <2>4, <2>5, <2>6
  <2> QED BY <2>7, <2>8, <2>9
<1> QED BY <1>2, <1>3, <1>4 DEF Low

\* What the program has slipped in is not forgotten.
More(s, z) == ("outer" \notin z => "outer" \notin s) /\ (z = {} => s = {})

\* An item outlives what is emitted after it and patched.
LEMMA StaysBelow ==
    ASSUME NEW it, it.do # "func", NEW c, NEW d, NEW n, NEW P, Moves(c, d, n, P),
           NEW s, NEW z, More(s, z), NEW k, NEW m, NEW l, NEW g, Stays(s, it, k, c, m, l, g),
           Pre(m, n), it.do \in {"loop", "iter"} => Pre(Append(m, l.id), n)
    PROVE  Stays(z, it, k, d, m, l, g)
<1>1. /\ \A i, v : Has(c, i, v) => Has(d, i, v)
      /\ \A i, v, takes, gives : Was(c, i, v, takes, gives) => Was(d, i, v, takes, gives)
      /\ \A v : RetryOn(c, v) => RetryOn(d, v)
      /\ \A v, w : RetryIn(c, v, w) /\ Pre(v, n) => RetryIn(d, v, w)
  BY MovesHas
<1>2. ASSUME "outer" \notin z PROVE Nested(it, d, m, l, g)
  <2>1. Nested(it, c, m, l, g)
    BY <1>2 DEF Stays, More
  <2> QED BY <1>1, <2>1 DEF Nested
<1>3. ASSUME z = {} PROVE Fed(it, k, d, m, l, g)
  <2>1. Fed(it, k, c, m, l, g)
    BY <1>3 DEF Stays, More
  <2> QED BY <1>1, <2>1 DEF Fed
<1> QED BY <1>2, <1>3 DEF Stays

LEMMA FlowsMore ==
    ASSUME NEW s, NEW z, More(s, z), NEW c, NEW n, Flows(s, c, n)
    PROVE  Flows(z, c, n)
BY DEF Flows, More

LEMMA StaysMore ==
    ASSUME NEW s, NEW z, More(s, z), NEW it, NEW k, NEW c, NEW m, NEW l, NEW g, Stays(s, it, k, c, m, l, g)
    PROVE  Stays(z, it, k, c, m, l, g)
BY FlowsMore DEF Stays, More

\* Only a loop's item looks at its own loop, and only an item in a loop at that.
LEMMA StaysAlone ==
    ASSUME NEW z, NEW it, NEW k, NEW c, NEW m, NEW l, NEW g, NEW a, NEW b, Stays(z, it, k, c, m, l, g),
           it.do \in {"loop", "iter"} => a = l, Len(m) # 0 => b = g
    PROVE  Stays(z, it, k, c, m, a, b)
<1>1. Nested(it, c, m, l, g) => Nested(it, c, m, a, b)
  BY DEF Nested
<1>2. Fed(it, k, c, m, l, g) => Fed(it, k, c, m, a, b)
  BY DEF Fed
<1> QED BY <1>1, <1>2 DEF Stays

\* The loops of an item are the first of those in which code is emitted later.
LEMMA SliceBelow ==
    ASSUME NEW lp \in Seq(LoopInfos), NEW a \in Nat, NEW b \in Nat, NEW e \in Nat, a <= b, e <= Len(lp)
    PROVE  /\ b <= e => Pre(Slice(lp, a, b), Slice(lp, a, e))
           /\ b + 1 <= e => Pre(Append(Slice(lp, a, b), lp[b + 1].id), Slice(lp, a, e))
<1>1. b <= e => Pre(Slice(lp, a, b), Slice(lp, a, e))
  BY SlicePre
<1>2. ASSUME b + 1 <= e
      PROVE  Pre(Append(Slice(lp, a, b), lp[b + 1].id), Slice(lp, a, e))
  <2>1. Len(lp) \in Nat
    OBVIOUS
  <2>2. PICK f \in Nat : f = b + 1
    OBVIOUS
  <2>3. a <= f /\ f <= e /\ b + 1 <= Len(lp)
    BY <1>2, <2>1, <2>2
  <2>4. Pre(Slice(lp, a, f), Slice(lp, a, e))
    BY <2>3, SlicePre
  <2>5. Slice(lp, a, b + 1) = Append(Slice(lp, a, b), lp[b + 1].id)
    BY <2>3, SliceNext
  <2> QED BY <2>2, <2>4, <2>5
<1> QED BY <1>1, <1>2

\* The operands, from b to k, when the items u go on with E.
Chain(u, E, b, k) ==
    IF Len(u) = 0 THEN b = k
    ELSE /\ E[1] + Gap(u[1]) = b
         /\ \A q \in 1 .. Len(u) - 1 : Base(u[q], E[q]) = E[q + 1] + Gap(u[q + 1])
         /\ Base(u[Len(u)], E[Len(u)]) = k

\* The items u have their place in r above what is left of t.
Sits(t, u, r, h, p, z, E) ==
    \A q \in 1 .. Len(u) :
        Stays(z, u[q], E[q], h[Level(r, Len(t) - 1 + q)], ItsNest(r, h, p, Len(t) - 1 + q),
              p[Around(r, Len(t) - 1 + q) + 1], p[Around(r, Len(t) - 1 + q)])

\* F is D for what is left of t, and E for the items u above it.
Over(t, u, D, E, F) ==
    /\ \A j \in 1 .. Len(t) - 1 : F[j] = D[j]
    /\ \A q \in 1 .. Len(u) : F[Len(t) - 1 + q] = E[q]

\* The operands go on.
LEMMA LinkedOn ==
    ASSUME NEW t \in Seq(Items), NEW u, NEW r, IsReplaced(Items, t, u, r), r # <<>>,
           NEW ch, NEW D, Linked(t, ch, D), NEW h, NEW E,
           Chain(u, E, D[Len(t)] + Gap(t[Len(t)]), h[Len(h)].h),
           NEW F, Over(t, u, D, E, F)
    PROVE  Linked(r, h, F)
<1>1. PICK K \in Nat \ {0}, v \in Nat : K = Len(t) /\ v = Len(u)
  BY DEF IsReplaced
<1>2. /\ r \in Seq(Items) /\ Len(r) = K - 1 + v
      /\ \A j \in 1 .. K - 1 : r[j] = t[j] /\ F[j] = D[j]
      /\ \A q \in 1 .. v : r[K - 1 + q] = u[q] /\ F[K - 1 + q] = E[q]
  BY <1>1 DEF IsReplaced, Over
<1>3. \A j \in 1 .. K - 1 : Base(t[j], D[j]) = D[j + 1] + Gap(t[j + 1])
  BY <1>1 DEF Linked
<1>4. IF v = 0 THEN D[K] + Gap(t[K]) = h[Len(h)].h
      ELSE /\ E[1] + Gap(u[1]) = D[K] + Gap(t[K])
           /\ \A q \in 1 .. v - 1 : Base(u[q], E[q]) = E[q + 1] + Gap(u[q + 1])
           /\ Base(u[v], E[v]) = h[Len(h)].h
  BY <1>1 DEF Chain
<1>5. ASSUME NEW j \in 1 .. Len(r) - 1 PROVE Base(r[j], F[j]) = F[j + 1] + Gap(r[j + 1])
  <2>1. CASE j + 1 \in 1 .. K - 1
    <3>1. j \in 1 .. K - 1
      BY <2>1
    <3> QED BY <1>2, <1>3, <2>1, <3>1
  <2>2. CASE j = K - 1
    <3>1. v # 0 /\ 1 \in 1 .. v /\ K - 1 + 1 = j + 1 /\ j + 1 = K /\ j \in 1 .. K - 1
      BY <1>2, <2>2
    <3>2. r[j + 1] = u[1] /\ F[j + 1] = E[1]
      BY <1>2, <3>1
    <3> QED BY <1>2, <1>3, <1>4, <3>1, <3>2
  <2>3. CASE j \in K .. K - 1 + v - 1
    <3>1. PICK q \in 1 .. v - 1 : j = K - 1 + q
      <4>1. j - (K - 1) \in 1 .. v - 1 /\ j = K - 1 + (j - (K - 1))
        BY <2>3
      <4> QED BY <4>1
    <3>2. q \in 1 .. v /\ q + 1 \in 1 .. v /\ K - 1 + (q + 1) = j + 1 /\ v # 0
      BY <3>1
    <3>3. r[j] = u[q] /\ F[j] = E[q] /\ r[j + 1] = u[q + 1] /\ F[j + 1] = E[q + 1]
      BY <1>2, <3>1, <3>2
    <3> QED BY <1>4, <3>1, <3>2, <3>3
  <2> QED BY <1>2, <2>1, <2>2, <2>3
<1>6. Base(r[Len(r)], F[Len(r)]) = h[Len(h)].h
  <2>1. CASE v = 0
    <3>1. K - 1 \in 1 .. K - 1 /\ Len(r) = K - 1 /\ (K - 1) + 1 = K
      <4>1. Len(r) # 0 /\ Len(r) \in Nat
        BY <1>2
      <4> QED BY <1>2, <2>1, <4>1
    <3> QED BY <1>2, <1>3, <1>4, <2>1, <3>1
  <2>2. CASE v # 0
    <3>1. v \in 1 .. v /\ Len(r) = K - 1 + v
      BY <1>2, <2>2
    <3> QED BY <1>2, <1>4, <2>2, <3>1
  <2> QED BY <2>1, <2>2
<1> QED BY <1>5, <1>6 DEF Linked

\* A step that changes the top of the stack and the innermost function.
LEMMA StepGoes ==
    ASSUME NEW t \in Seq(Items), NEW ch \in Seq(Chunks), NEW lp \in Seq(LoopInfos), Aligned(t, ch, lp),
           NEW s, NEW z, More(s, z), NEW D, Going(t, ch, lp, s, D),
           NEW u, NEW r, NEW h, NEW p, NEW d, Below(t, ch, lp, u, r, h, p, d),
           NEW B \in Nat, Around(t, Len(t)) <= B, B <= Len(lp), NEW P,
           Moves(ch[Level(t, Len(t))], d, Slice(lp, ch[Level(t, Len(t))].outer, B), P),
           NEW E, Sits(t, u, r, h, p, z, E),
           Flows(z, h[Len(h)], Slice(p, h[Len(h)].outer, Len(p))),
           z = {} => Chain(u, E, D[Len(t)] + Gap(t[Len(t)]), h[Len(h)].h)
    PROVE  \E F : Going(r, h, p, z, F)
<1>1. /\ IsReplaced(Items, t, u, r) /\ r # <<>> /\ r \in Seq(Items)
      /\ \A j \in 1 .. Len(t) - 1 : r[j] = t[j]
      /\ \A q \in 1 .. Len(u) : r[Len(t) - 1 + q] = u[q]
  BY DEF Below, IsReplaced
<1>2. PICK K \in Nat \ {0}, v \in Nat : K = Len(t) /\ v = Len(u) /\ Len(r) = K - 1 + v
  BY DEF Below, IsReplaced
<1>3. PICK M \in Nat, A \in Nat : M = Level(t, K) /\ A = Around(t, K)
  BY <1>2, LevelType
<1>4. Low(t, r, M, A)
  BY <1>1, <1>2, <1>3, LowLevels
<1>5. /\ \A k \in 1 .. M - 1 : h[k] = ch[k]
      /\ h[M] = d /\ d.outer = ch[M].outer /\ \A k \in 1 .. A : p[k] = lp[k]
  BY <1>2, <1>3 DEF Below, Moves
<1>6. PICK F : F = [j \in 1 .. Len(r) |-> IF j \in 1 .. K - 1 THEN D[j] ELSE E[j - (K - 1)]]
  OBVIOUS
<1>7. \A j \in 1 .. K - 1 : F[j] = D[j]
  <2>1. \A j \in 1 .. K - 1 : j \in 1 .. Len(r)
    BY <1>2
  <2> QED BY <1>6, <2>1
<1>8. \A q \in 1 .. v : F[K - 1 + q] = E[q]
  <2>1. \A q \in 1 .. v : K - 1 + q \in 1 .. Len(r) /\ K - 1 + q \notin 1 .. K - 1 /\ (K - 1 + q) - (K - 1) = q
    BY <1>2
  <2> QED BY <1>6, <2>1
<1>9. ASSUME NEW j \in 1 .. K - 1
      PROVE  Stays(z, r[j], F[j], h[Level(r, j)], ItsNest(r, h, p, j), p[Around(r, j) + 1], p[Around(r, j)])
  <2>1. j \in 1 .. Len(t) /\ j \in 1 .. Len(t) + 1 /\ j \in 1 .. Len(t) - 1
    BY <1>2
  <2>2. PICK L \in Nat, a \in Nat : L = Level(t, j) /\ a = Around(t, j)
    BY SMTT(60), LevelType
  <2>3. /\ Level(r, j) = L /\ Around(r, j) = a /\ L \in 1 .. M /\ a \in 0 .. A
        /\ t[j].do \in {"loop", "iter"} => a + 1 \in 1 .. A
        /\ t[j].do = "func" => L + 1 \in 1 .. M
    BY <1>4, <2>1, <2>2 DEF Low
  <2>4. PICK b \in Nat : b = ch[L].outer /\ b <= a
    BY <2>1, <2>2, OuterBelow
  <2>5. h[L].outer = b
    <3>1. L = M \/ L \in 1 .. M - 1
      BY <2>3
    <3> QED BY <1>5, <2>4, <3>1
  <2>6. a <= Len(lp) /\ a <= B
    BY SMTT(60), <1>2, <1>3, <2>3
  <2>7. ItsNest(t, ch, lp, j) = Slice(lp, b, a) /\ ItsNest(r, h, p, j) = Slice(p, b, a)
    BY <2>2, <2>3, <2>4, <2>5 DEF ItsNest
  <2>8. Slice(p, b, a) = Slice(lp, b, a)
    <3>1. SameNames(lp, p, a)
      BY SMTT(60), <1>5, <2>3 DEF SameNames
    <3> QED BY <3>1, SliceSame
  <2>9. PICK m : m = Slice(lp, b, a)
    OBVIOUS
  <2>10. Stays(s, t[j], D[j], ch[L], m, lp[a + 1], lp[a])
    BY <2>1, <2>2, <2>7, <2>9 DEF Going
  <2>11. Stays(z, t[j], D[j], h[L], m, lp[a + 1], lp[a])
    <3>1. CASE L \in 1 .. M - 1
      BY <1>5, <2>10, <3>1, StaysMore
    <3>2. CASE L = M
      <4>1. t[j].do # "func"
        BY <2>3, <3>2
      <4>2. PICK n : n = Slice(lp, b, B)
        OBVIOUS
      <4>3. Pre(m, n) /\ (a + 1 <= B => Pre(Append(m, lp[a + 1].id), n))
        BY <2>4, <2>6, <2>9, <4>2, SliceBelow
      <4>4. t[j].do \in {"loop", "iter"} => Pre(Append(m, lp[a + 1].id), n)
        BY <1>2, <1>3, <2>3, <4>3
      <4>5. Moves(ch[L], d, n, P)
        BY <1>2, <1>3, <2>4, <3>2, <4>2
      <4>6. Stays(z, t[j], D[j], d, m, lp[a + 1], lp[a])
        BY SMTT(60), <2>10, <4>1, <4>3, <4>4, <4>5, StaysBelow
      <4> QED BY <1>5, <3>2, <4>6
    <3>3. L = M \/ L \in 1 .. M - 1
      BY <2>3
    <3> QED BY <3>1, <3>2, <3>3
  <2>12. t[j].do \in {"loop", "iter"} => p[a + 1] = lp[a + 1]
    BY <1>5, <2>3
  <2>13. Len(m) # 0 => p[a] = lp[a]
    <3>1. Len(m) = a - b
      BY <2>4, <2>6, <2>9, SliceIs
    <3>2. Len(m) # 0 => a \in 1 .. A
      BY SMTT(60), <2>3, <2>4, <3>1
    <3> QED BY <1>5, <3>2
  <2>14. Stays(z, t[j], D[j], h[L], m, p[a + 1], p[a])
    BY SMTT(60), <2>11, <2>12, <2>13, StaysAlone
  <2>15. r[j] = t[j] /\ F[j] = D[j]
    BY <1>1, <1>7, <2>1
  <2> QED BY <2>3, <2>7, <2>8, <2>9, <2>14, <2>15
<1>10. ASSUME NEW j \in 1 .. Len(r)
       PROVE  Stays(z, r[j], F[j], h[Level(r, j)], ItsNest(r, h, p, j), p[Around(r, j) + 1], p[Around(r, j)])
  <2>1. CASE j \in 1 .. K - 1
    BY <1>9, <2>1
  <2>2. CASE j \notin 1 .. K - 1
    <3>1. PICK q \in 1 .. v : j = K - 1 + q
      <4>1. j - (K - 1) \in 1 .. v /\ j = K - 1 + (j - (K - 1))
        BY <1>2, <2>2
      <4> QED BY <4>1
    <3>2. r[j] = u[q] /\ F[j] = E[q] /\ j = Len(t) - 1 + q /\ q \in 1 .. Len(u)
      BY <1>1, <1>2, <1>8, <3>1
    <3> QED BY <3>2 DEF Sits
  <2> QED BY <2>1, <2>2
<1>11. ASSUME z = {} PROVE Linked(r, h, F)
  <2>1. Linked(t, ch, D)
    BY <1>11 DEF Going, More
  <2>2. Chain(u, E, D[Len(t)] + Gap(t[Len(t)]), h[Len(h)].h)
    BY <1>11
  <2>3. Over(t, u, D, E, F)
    BY <1>2, <1>7, <1>8 DEF Over
  <2> QED BY <1>1, <2>1, <2>2, <2>3, LinkedOn
<1>12. Going(r, h, p, z, F)
  BY <1>10, <1>11 DEF Going
<1> QED BY <1>12

-----------------------------------------------------------------------------
(* The flow in the innermost function *)

\* What was set or patched in d, at P, lands where it should.
Settles(z, d, n, P) ==
    /\ "outer" \notin z /\ Short(d.inst) =>
          \A i \in 1 .. Len(d.inst) : i \in P /\ d.inst[i].op \in Jumps => LandsIn(d.inst, n, i)
    /\ z = {} /\ Short(d.inst) =>
          \A i \in 1 .. Len(d.inst) : i \in P /\ d.inst[i].op \in Turns => LandsOn(d.inst, d.h, i)

LEMMA SettlesNowhere ==
    ASSUME NEW z, NEW d, NEW n
    PROVE  Settles(z, d, n, {})
BY DEF Settles

LEMMA FlowMoves ==
    ASSUME NEW s, NEW z, More(s, z), NEW c, NEW d, NEW n, NEW P, Moves(c, d, n, P), Flows(s, c, n),
           NEW m, m = n \/ Len(c.inst) < Len(d.inst),
           \A q \in 1 .. Len(m) : m[q][1] \in 0 .. Len(d.inst) + 1,
           Settles(z, d, m, P), z = {} => FedFrom(c, d)
    PROVE  Flows(z, d, m)
<1>1. Chained(d.inst, d.h, m)
  BY MovesChained DEF Flows
<1>2. Short(d.inst) => Short(c.inst)
  BY CodeAssumption DEF Short, Moves
<1>3. ASSUME "outer" \notin z, Short(d.inst) PROVE FlowsIn(d.inst, m)
  <2>1. FlowsIn(c.inst, n)
    BY <1>2, <1>3 DEF Flows, More
  <2>2. \A i \in 1 .. Len(d.inst) : i \in P /\ d.inst[i].op \in Jumps => LandsIn(d.inst, m, i)
    BY <1>3 DEF Settles
  <2> QED BY <2>1, <2>2, MovesFlowsIn
<1>4. ASSUME z = {}, Short(d.inst) PROVE FlowsOn(d.inst, d.h)
  <2>1. FlowsOn(c.inst, c.h)
    BY <1>2, <1>4 DEF Flows, More
  <2>2. \A i \in 1 .. Len(d.inst) : i \in P /\ d.inst[i].op \in Turns => LandsOn(d.inst, d.h, i)
    BY <1>4 DEF Settles
  <2> QED BY <2>1, <2>2, MovesFlowsOn
<1>5. ASSUME z = {} PROVE Feeds(d.inst)
  <2>1. Feeds(c.inst)
    BY <1>5 DEF Flows, More
  <2> QED BY <1>5, <2>1, MovesFeeds
<1> QED BY <1>1, <1>3, <1>4, <1>5 DEF Flows

\* The end in the same loops.
LEMMA FlowOn ==
    ASSUME NEW s, NEW z, More(s, z), NEW c, NEW d, NEW n, NEW P, Moves(c, d, n, P), Flows(s, c, n),
           Settles(z, d, n, P), z = {} => FedFrom(c, d)
    PROVE  Flows(z, d, n)
<1>1. PICK a \in Nat, b \in Nat : a = Len(c.inst) /\ b = Len(d.inst) /\ a <= b
  BY DEF Moves
<1>2. a + 1 \in 1 .. a + 1 /\ a + 1 \notin 1 .. a /\ a + 1 <= b + 1
  BY <1>1
<1>3. NAt(c.inst, n, a + 1) = n
  BY <1>1, <1>2 DEF NAt
<1>4. \A q \in 1 .. Len(n) : n[q][1] \in 0 .. a + 1
  BY <1>1, <1>2, <1>3 DEF Flows, Chained
<1>5. \A q \in 1 .. Len(n) : n[q][1] \in 0 .. b + 1
  BY SMTT(60), <1>1, <1>4
<1> QED BY <1>1, <1>5, FlowMoves

-----------------------------------------------------------------------------
(* The top of the parser's stack *)

\* What is known of an item on top that has no function and no loop of its own.
Knows(s, it, c, n, g) ==
    /\ Flows(s, c, n)
    /\ "outer" \notin s => Nested(it, c, n, g, g)
    /\ s = {} => Fed(it, c.h, c, n, g, g)

LEMMA TopKnows ==
    ASSUME GInv, todo # <<>>, It.do \notin Deep, NEW D, Going(todo, chunks, loops, slips, D)
    PROVE  /\ Knows(slips, It, Blk, NestOf(Blk), loops[Len(loops)])
           /\ slips = {} => D[Len(todo)] = Blk.h
           /\ NestOf(Blk) = Slice(loops, Blk.outer, Len(loops)) /\ Blk.outer <= Len(loops)
<1>1. PICK K, M, A : Stands(K, M, A)
  BY StandsSo
<1>2. /\ M = Len(chunks) /\ A = Len(loops) /\ K \in Nat \ {0} /\ M \in Nat \ {0} /\ A \in Nat
      /\ Blk = chunks[M] /\ Blk \in Chunks /\ loops \in Seq(LoopInfos) /\ chunks \in Seq(Chunks)
      /\ todo \in Seq(Items) /\ It = todo[K] /\ K = Len(todo)
      /\ M = Level(todo, K) /\ A = Around(todo, K)
  BY <1>1 DEF Stands, Deep
<1>3. Aligned(todo, chunks, loops)
  BY DEF GInv, Parsed
<1>4. K \in 1 .. Len(todo) /\ K \in 1 .. Len(todo) + 1
  BY <1>2
<1>5. Blk.outer \in Nat /\ Blk.outer <= Len(loops)
  BY <1>2, <1>3, <1>4, OuterBelow
<1>6. PICK n : n = Slice(loops, Blk.outer, Len(loops))
  OBVIOUS
<1>7. NestOf(Blk) = n
  BY <1>2, <1>5, <1>6, NestSlice
<1>8. ItsNest(todo, chunks, loops, K) = n
  BY <1>2, <1>6 DEF ItsNest
<1>9. Stays(slips, It, D[K], Blk, n, loops[A + 1], loops[A])
  BY <1>2, <1>4, <1>8 DEF Going
<1>10. Stays(slips, It, D[K], Blk, n, loops[A], loops[A])
  BY <1>9, StaysAlone DEF Deep
<1>11. Flows(slips, Blk, n)
  BY <1>2, <1>6 DEF Going
<1>12. ASSUME slips = {} PROVE D[K] = Blk.h
  <2>1. Base(todo[Len(todo)], D[Len(todo)]) = chunks[Len(chunks)].h
    BY <1>12 DEF Going, Linked
  <2>2. It.do # "func"
    BY DEF Deep
  <2> QED BY <1>2, <2>1, <2>2 DEF Base
<1>13. Knows(slips, It, Blk, n, loops[A])
  BY <1>10, <1>11, <1>12 DEF Stays, Knows
<1> QED BY <1>2, <1>5, <1>6, <1>7, <1>12, <1>13

\* While nothing is taken that is not there, the count does not go below none.
LEMMA CountUp ==
    ASSUME NEW c \in Chunks, NEW n, Chained(c.inst, c.h, n), Feeds(c.inst)
    PROVE  c.h >= 0
<1>1. PICK a \in Nat : a = Len(c.inst)
  BY DEF Chunks
<1>2. HAt(c.inst, c.h, a + 1) = c.h
  BY <1>1 DEF HAt
<1>3. CASE a = 0
  <2>1. HAt(c.inst, c.h, 1) = 0 /\ a + 1 = 1
    BY <1>3 DEF Chained
  <2> QED BY <1>2, <2>1
<1>4. CASE a # 0
  <2>1. a \in 1 .. Len(c.inst)
    BY <1>1, <1>4
  <2>2. c.h = c.inst[a].h - c.inst[a].takes + c.inst[a].gives /\ c.inst[a].takes <= c.inst[a].h
    BY <1>2, <2>1 DEF Chained, Feeds
  <2>3. c.inst \in Seq(Inst)
    BY DEF Chunks
  <2>4. c.inst[a].takes \in Nat /\ c.inst[a].gives \in Nat /\ c.inst[a].h \in Int
    BY <2>1, <2>3, InstIs
  <2> QED BY <2>2, <2>4
<1> QED BY <1>3, <1>4

\* An item that is in the innermost function and in no loop of its own.
Lies(z, it, k, d, n, g) ==
    /\ it.do \notin Deep
    /\ "outer" \notin z => Nested(it, d, n, g, g)
    /\ z = {} => Fed(it, k, d, n, g, g)
Flat(z, u, E, d, n, g) == \A q \in 1 .. Len(u) : Lies(z, u[q], E[q], d, n, g)

\* A step that enters and leaves no function and no loop keeps the flow.
LEMMA PlainGoes ==
    ASSUME GInv, todo # <<>>, It.do \notin Deep, NEW D, Going(todo, chunks, loops, slips, D),
           More(slips, slips'),
           NEW u \in Seq(Items), IsReplaced(Items, todo, u, todo'), Len(todo) > 1 \/ (u # <<>> /\ u[1] = It),
           NEW d, IsTopped(Chunks, chunks, d, chunks'), NEW P, Moves(Blk, d, NestOf(Blk), P),
           NEW E, Flat(slips', u, E, d, NestOf(Blk), loops[Len(loops)]),
           Settles(slips', d, NestOf(Blk), P), slips' = {} => FedFrom(Blk, d),
           slips' = {} => Chain(u, E, Blk.h + Gap(It), d.h)
    PROVE  \E F : Going(todo', chunks', loops, slips', F)
<1>1. todo \in Seq(Items) /\ chunks \in Seq(Chunks) /\ loops \in Seq(LoopInfos) /\ Aligned(todo, chunks, loops)
  BY DEF GInv, Parsed
<1>2. Last(todo).do \notin Deep /\ (Len(todo) > 1 \/ (u # <<>> /\ u[1] = Last(todo)))
      /\ \A q \in 1 .. Len(u) : u[q].do \notin Deep
  BY DEF It, Flat, Lies
<1>3. Fits(todo, chunks, loops, u, todo', chunks', d)
  BY <1>1, <1>2, PlainFits
<1>4. PICK K, M, A : K = Len(todo) /\ M = Len(chunks) /\ A = Len(loops)
  OBVIOUS
<1>5. /\ Below(todo, chunks, loops, u, todo', chunks', loops, d)
      /\ Level(todo, K) = M /\ Around(todo, K) = A /\ It = todo[K]
      /\ K \in Nat \ {0} /\ M \in Nat \ {0} /\ A \in Nat /\ Blk = chunks[M]
      /\ chunks' \in Seq(Chunks) /\ Len(chunks') = M /\ chunks'[M] = d
      /\ \A q \in 1 .. Len(u) : Level(todo', K - 1 + q) = M /\ Around(todo', K - 1 + q) = A
  BY <1>3, <1>4 DEF Fits, It, Blk
<1>6. PICK n : n = NestOf(Blk)
  OBVIOUS
<1>7. /\ Flows(slips, Blk, n) /\ n = Slice(loops, Blk.outer, A) /\ (slips = {} => D[K] = Blk.h)
  BY <1>4, <1>6, TopKnows DEF Knows
<1>8. d.outer = Blk.outer
  BY DEF Moves
<1>9. Flows(slips', d, n)
  BY <1>6, <1>7, FlowOn
<1>10. Flows(slips', chunks'[Len(chunks')], Slice(loops, chunks'[Len(chunks')].outer, Len(loops)))
  BY <1>4, <1>5, <1>7, <1>8, <1>9
<1>11. Sits(todo, u, todo', chunks', loops, slips', E)
  <2> SUFFICES ASSUME NEW q \in 1 .. Len(u)
               PROVE  Stays(slips', u[q], E[q], chunks'[Level(todo', Len(todo) - 1 + q)],
                            ItsNest(todo', chunks', loops, Len(todo) - 1 + q),
                            loops[Around(todo', Len(todo) - 1 + q) + 1], loops[Around(todo', Len(todo) - 1 + q)])
    BY DEF Sits
  <2>1. Level(todo', Len(todo) - 1 + q) = M /\ Around(todo', Len(todo) - 1 + q) = A
    BY <1>4, <1>5
  <2>2. ItsNest(todo', chunks', loops, Len(todo) - 1 + q) = n
    BY <1>5, <1>7, <1>8, <2>1 DEF ItsNest
  <2>3. Stays(slips', u[q], E[q], d, n, loops[A], loops[A])
    BY <1>4, <1>6 DEF Flat, Lies, Stays, Deep
  <2>4. Stays(slips', u[q], E[q], d, n, loops[A + 1], loops[A])
    BY <2>3, StaysAlone DEF Flat, Lies, Deep
  <2> QED BY <1>5, <2>1, <2>2, <2>4
<1>12. slips' = {} => Chain(u, E, D[Len(todo)] + Gap(todo[Len(todo)]), chunks'[Len(chunks')].h)
  BY <1>4, <1>5, <1>7 DEF More
<1>13. Moves(chunks[Level(todo, Len(todo))], d, Slice(loops, chunks[Level(todo, Len(todo))].outer, A), P)
  BY <1>4, <1>5, <1>6, <1>7
<1>14. A \in Nat /\ Around(todo, Len(todo)) <= A /\ A <= Len(loops)
  BY <1>4, <1>5
<1> QED BY <1>1, <1>5, <1>10, <1>11, <1>12, <1>13, <1>14, StepGoes

-----------------------------------------------------------------------------
(* The steps within a function and its loops *)

\* The flow goes on.
Gone == \E F : Going(todo', chunks', loops', slips', F)

\* What such a step starts from.
Stood(n, g) ==
    /\ It \in Items /\ Blk \in Chunks /\ Blk.h \in Int /\ loops \in Seq(LoopInfos) /\ chunks # <<>>
    /\ n = NestOf(Blk) /\ g = loops[Len(loops)]
    /\ Lies(slips, It, Blk.h, Blk, n, g) /\ Flows(slips, Blk, n) /\ (slips = {} => Blk.h >= 0)
    /\ Pos(Blk) = Len(Blk.inst) + 1 /\ Len(Blk.inst) \in Nat

LEMMA StoodSo ==
    ASSUME GInv, todo # <<>>, It.do \notin Deep, NEW D, Going(todo, chunks, loops, slips, D)
    PROVE  \E n, g : Stood(n, g)
<1>1. PICK n, g : n = NestOf(Blk) /\ g = loops[Len(loops)]
  OBVIOUS
<1>2. It \in Items /\ Blk \in Chunks /\ loops \in Seq(LoopInfos) /\ chunks # <<>>
  BY WritesIs DEF Writes, GInv
<1>3. Knows(slips, It, Blk, n, g)
  BY <1>1, TopKnows
<1>4. Blk.h \in Int /\ Len(Blk.inst) \in Nat /\ Pos(Blk) = Len(Blk.inst) + 1
  BY <1>2 DEF Chunks, Pos
<1>5. slips = {} => Blk.h >= 0
  BY <1>2, <1>3, CountUp DEF Knows, Flows
<1>6. Lies(slips, It, Blk.h, Blk, n, g) /\ Flows(slips, Blk, n)
  BY <1>3 DEF Knows, Lies
<1>7. Stood(n, g)
  BY <1>1, <1>2, <1>4, <1>5, <1>6 DEF Stood
<1> QED BY <1>7

LEMMA NoItems ==
    /\ \A z, d, n, g : Flat(z, <<>>, <<>>, d, n, g)
    /\ \A b : Chain(<<>>, <<>>, b, b)
<1>1. Len(<<>>) = 0 /\ 1 .. Len(<<>>) = {}
  OBVIOUS
<1> QED BY <1>1 DEF Flat, Chain

LEMMA OneItem ==
    ASSUME NEW a, NEW e, NEW z, NEW d, NEW n, NEW g, Lies(z, a, e, d, n, g), NEW u, Len(u) = 1, u[1] = a
    PROVE  Flat(z, u, <<e>>, d, n, g) /\ Chain(u, <<e>>, e + Gap(a), e)
<1>1. <<e>>[1] = e /\ (\A q \in 1 .. 1 : q = 1) /\ 1 .. 1 - 1 = {}
  OBVIOUS
<1>2. a.do # "func"
  BY DEF Lies, Deep
<1> QED BY <1>1, <1>2 DEF Flat, Chain, Base

LEMMA TwoItems ==
    ASSUME NEW a, NEW b, NEW e, NEW f, NEW z, NEW d, NEW n, NEW g,
           Lies(z, a, e, d, n, g), Lies(z, b, f, d, n, g), NEW u, Len(u) = 2, u[1] = a, u[2] = b
    PROVE  Flat(z, u, <<e, f>>, d, n, g) /\ (e = f + Gap(b) => Chain(u, <<e, f>>, e + Gap(a), f))
<1>1. /\ <<e, f>>[1] = e /\ <<e, f>>[2] = f /\ (\A q \in 1 .. 2 : q = 1 \/ q = 2)
      /\ \A q \in 1 .. 2 - 1 : q = 1 /\ q + 1 = 2
  OBVIOUS
<1>2. a.do # "func" /\ b.do # "func"
  BY DEF Lies, Deep
<1>3. Flat(z, u, <<e, f>>, d, n, g)
  <2> SUFFICES ASSUME NEW q \in 1 .. Len(u) PROVE Lies(z, u[q], <<e, f>>[q], d, n, g)
    BY DEF Flat
  <2>1. q = 1 \/ q = 2
    BY <1>1
  <2> QED BY <1>1, <2>1
<1>4. ASSUME e = f + Gap(b) PROVE Chain(u, <<e, f>>, e + Gap(a), f)
  <2>1. \A q \in 1 .. Len(u) - 1 : Base(u[q], <<e, f>>[q]) = <<e, f>>[q + 1] + Gap(u[q + 1])
    BY <1>1, <1>2, <1>4 DEF Base
  <2> QED BY <1>1, <1>2, <2>1 DEF Chain, Base
<1> QED BY <1>3, <1>4

LEMMA ThreeItems ==
    ASSUME NEW a, NEW b, NEW c, NEW e, NEW f, NEW h, NEW z, NEW d, NEW n, NEW g,
           Lies(z, a, e, d, n, g), Lies(z, b, f, d, n, g), Lies(z, c, h, d, n, g),
           NEW u, Len(u) = 3, u[1] = a, u[2] = b, u[3] = c
    PROVE  /\ Flat(z, u, <<e, f, h>>, d, n, g)
           /\ e = f + Gap(b) /\ f = h + Gap(c) => Chain(u, <<e, f, h>>, e + Gap(a), h)
<1>1. /\ <<e, f, h>>[1] = e /\ <<e, f, h>>[2] = f /\ <<e, f, h>>[3] = h
      /\ (\A q \in 1 .. 3 : q = 1 \/ q = 2 \/ q = 3)
      /\ \A q \in 1 .. 3 - 1 : (q = 1 /\ q + 1 = 2) \/ (q = 2 /\ q + 1 = 3)
  OBVIOUS
<1>2. a.do # "func" /\ b.do # "func" /\ c.do # "func"
  BY DEF Lies, Deep
<1>3. Flat(z, u, <<e, f, h>>, d, n, g)
  <2> SUFFICES ASSUME NEW q \in 1 .. Len(u) PROVE Lies(z, u[q], <<e, f, h>>[q], d, n, g)
    BY DEF Flat
  <2>1. q = 1 \/ q = 2 \/ q = 3
    BY <1>1
  <2> QED BY <1>1, <2>1
<1>4. ASSUME e = f + Gap(b), f = h + Gap(c) PROVE Chain(u, <<e, f, h>>, e + Gap(a), h)
  <2>1. ASSUME NEW q \in 1 .. Len(u) - 1
        PROVE  Base(u[q], <<e, f, h>>[q]) = <<e, f, h>>[q + 1] + Gap(u[q + 1])
    <3>1. (q = 1 /\ q + 1 = 2) \/ (q = 2 /\ q + 1 = 3)
      BY <1>1
    <3> QED BY <1>1, <1>2, <1>4, <3>1 DEF Base
  <2> QED BY <1>1, <1>2, <2>1 DEF Chain, Base
<1> QED BY <1>3, <1>4

\* An item and then n expressions.
LEMMA ManyItems ==
    ASSUME NEW a \in Items, NEW e \in Int, NEW m \in Nat, NEW z, NEW d, NEW n, NEW g,
           Lies(z, a, e, d, n, g), NEW u, u = <<a>> \o Exprs(m)
    PROVE  \E E : Flat(z, u, E, d, n, g) /\ Chain(u, E, e + Gap(a), e - m)
<1> DEFINE w == <<a>>
<1>1. w \in Seq(Items) /\ Len(w) = 1 /\ w[1] = a /\ u = w \o Exprs(m)
  OBVIOUS
<1> HIDE DEF w
<1>2. Exprs(m) \in Seq(Items) /\ Len(Exprs(m)) = m /\ \A q \in 1 .. m : Exprs(m)[q] = Item("expr")
  <2>1. Exprs(m) \in Seq(Items)
    BY ExprsAre
  <2>2. PICK v : v = Item("expr")
    OBVIOUS
  <2>3. PICK s : s = [i \in 1 .. m |-> v]
    OBVIOUS
  <2>4. Exprs(m) = s
    BY <2>2, <2>3 DEF Exprs
  <2>5. Len(s) = m /\ \A q \in 1 .. m : s[q] = v
    BY <2>3
  <2> QED BY <2>1, <2>2, <2>4, <2>5
<1>3. Len(u) = 1 + m /\ u[1] = a /\ \A q \in 1 .. m : u[1 + q] = Item("expr")
  <2>1. IsConcat(w, Exprs(m), u)
    BY <1>1, <1>2, JoinIs
  <2>2. 1 \in 1 .. 1
    OBVIOUS
  <2> QED BY <1>1, <1>2, <2>1, <2>2 DEF IsConcat
<1>4. PICK E : E = [q \in 1 .. 1 + m |-> e - (q - 1)]
  OBVIOUS
<1>5. /\ 1 \in 1 .. 1 + m /\ \A q \in 1 .. 1 + m : E[q] = e - (q - 1)
      /\ \A q \in 2 .. 1 + m : u[q] = Item("expr")
  <2>1. \A q \in 2 .. 1 + m : q - 1 \in 1 .. m /\ 1 + (q - 1) = q
    OBVIOUS
  <2> QED BY <1>3, <1>4, <2>1
<1>6. Item("expr").do = "expr" /\ Gap(Item("expr")) = 1
  BY ItemIs DEF Doings, Gap
<1>7. Flat(z, u, E, d, n, g)
  <2> SUFFICES ASSUME NEW q \in 1 .. Len(u) PROVE Lies(z, u[q], E[q], d, n, g)
    BY DEF Flat
  <2>1. q = 1 \/ q \in 2 .. 1 + m
    BY <1>3
  <2>2. CASE q = 1
    <3>1. u[q] = a /\ E[q] = e
      BY SMTT(60), <1>3, <1>5, <2>2
    <3> QED BY <3>1
  <2>3. CASE q \in 2 .. 1 + m
    BY <1>5, <1>6, <2>3 DEF Lies, Nested, Fed, Inner, Deep
  <2> QED BY <2>1, <2>2, <2>3
<1>8. Chain(u, E, e + Gap(a), e - m)
  <2>1. \A q \in 1 .. Len(u) : Base(u[q], E[q]) = E[q]
    <3>1. \A q \in 1 .. Len(u) : u[q].do # "func"
      BY <1>7 DEF Flat, Lies, Deep
    <3> QED BY <3>1 DEF Base
  <2>2. \A q \in 1 .. Len(u) - 1 : E[q] = E[q + 1] + Gap(u[q + 1])
    <3> SUFFICES ASSUME NEW q \in 1 .. Len(u) - 1 PROVE E[q] = E[q + 1] + Gap(u[q + 1])
      OBVIOUS
    <3>1. q + 1 \in 2 .. 1 + m /\ q + 1 \in 1 .. 1 + m /\ q \in 1 .. 1 + m /\ (q + 1) - 1 = q
      BY <1>3
    <3>2. Gap(u[q + 1]) = 1 /\ E[q] = e - (q - 1) /\ E[q + 1] = e - q
      BY <1>5, <1>6, <3>1
    <3> QED BY <3>2
  <2>3. E[1] = e /\ E[Len(u)] = e - m
    <3>1. Len(u) \in 1 .. 1 + m /\ Len(u) - 1 = m
      BY <1>3
    <3> QED BY <1>5, <3>1
  <2>4. Len(u) # 0 /\ Len(u) \in 1 .. Len(u) /\ \A q \in 1 .. Len(u) - 1 : q \in 1 .. Len(u)
    BY <1>3
  <2>5. E[1] + Gap(u[1]) = e + Gap(a)
    BY <1>3, <2>3
  <2> QED BY <2>1, <2>2, <2>3, <2>4, <2>5 DEF Chain
<1> QED BY <1>7, <1>8

LEMMA GoGoes ==
    ASSUME GInv, todo # <<>>, It.do \notin Deep, It.do # "block", NEW D, Going(todo, chunks, loops, slips, D),
           UNCHANGED loops, More(slips, slips'),
           NEW u \in Seq(Items), Go(u), NEW d \in Chunks, InBlk(d),
           NEW P, Moves(Blk, d, NestOf(Blk), P),
           NEW E, Flat(slips', u, E, d, NestOf(Blk), loops[Len(loops)]),
           Settles(slips', d, NestOf(Blk), P), slips' = {} => FedFrom(Blk, d),
           slips' = {} => Chain(u, E, Blk.h + Gap(It), d.h)
    PROVE  Gone
<1>1. Len(todo) > 1 /\ chunks # <<>>
  BY WritesIs DEF Writes
<1>2. IsReplaced(Items, todo, u, todo')
  BY GoIs
<1>3. IsTopped(Chunks, chunks, d, chunks')
  BY <1>1, InBlkIs
<1>4. \E F : Going(todo', chunks', loops, slips', F)
  BY <1>1, <1>2, <1>3, PlainGoes
<1> QED BY <1>4 DEF Gone

\* A statement is begun: nothing is emitted yet.
LEMMA DescendGoes ==
    ASSUME GInv, Parsing("block"), NEW D, Going(todo, chunks, loops, slips, D),
           UNCHANGED <<chunks, loops, slips>>, NEW w \in Seq(Items), Descend(w),
           NEW v, v = <<It>> \o w,
           NEW E, Flat(slips, v, E, Blk, NestOf(Blk), loops[Len(loops)]),
           slips = {} => Chain(v, E, Blk.h + Gap(It), Blk.h)
    PROVE  Gone
<1>1. todo # <<>> /\ It.do \notin Deep /\ todo \in Seq(Items)
  BY DEF Parsing, It, Deep, GInv
<1>2. chunks # <<>> /\ Blk \in Chunks
  BY <1>1, WritesIs DEF Writes
<1>3. Grown(Items, todo, It, w, v, todo')
  BY <1>1, DescendIs
<1>4. v \in Seq(Items) /\ IsReplaced(Items, todo, v, todo') /\ v # <<>> /\ v[1] = It
  <2>1. v \in Seq(Items) /\ IsReplaced(Items, todo, v, todo') /\ Len(v) = Len(w) + 1 /\ Len(w) \in Nat /\ v[1] = It
    BY <1>3 DEF Grown
  <2>2. Len(v) # 0
    BY <2>1
  <2> QED BY <2>1, <2>2
<1>5. IsTopped(Chunks, chunks, Blk, chunks')
  BY <1>2, SameBlk
<1>6. Moves(Blk, Blk, NestOf(Blk), {}) /\ FedFrom(Blk, Blk) /\ Settles(slips', Blk, NestOf(Blk), {})
  BY <1>2, MovesNowhere, SettlesNowhere
<1>7. More(slips, slips')
  BY DEF More
<1>8. \E F : Going(todo', chunks', loops, slips', F)
  BY <1>1, <1>4, <1>5, <1>6, <1>7, PlainGoes
<1> QED BY <1>8 DEF Gone

\* An item below others.
Ahead(a, v, u) ==
    Len(v) \in Nat /\ Len(u) = Len(v) + 1 /\ u[1] = a /\ \A q \in 1 .. Len(v) : u[q + 1] = v[q]

LEMMA ItemAhead ==
    ASSUME NEW v, NEW E, NEW z, NEW d, NEW n, NEW g, NEW k, NEW a, NEW e,
           Lies(z, a, e, d, n, g), NEW u, Ahead(a, v, u)
    PROVE  \E F : (Flat(z, v, E, d, n, g) => Flat(z, u, F, d, n, g))
                  /\ (Chain(v, E, e, k) => Chain(u, F, e + Gap(a), k))
<1> USE DEF Ahead
<1>1. PICK m \in Nat : m = Len(v)
  OBVIOUS
<1>2. PICK F : F = [q \in 1 .. m + 1 |-> IF q = 1 THEN e ELSE E[q - 1]]
  OBVIOUS
<1>3. F[1] = e /\ \A q \in 1 .. m : F[q + 1] = E[q]
  <2>1. 1 \in 1 .. m + 1 /\ \A q \in 1 .. m : q + 1 \in 1 .. m + 1 /\ q + 1 # 1 /\ (q + 1) - 1 = q
    OBVIOUS
  <2> QED BY <1>2, <2>1
<1>4. \A q \in 1 .. m + 1 : q = 1 \/ \E p \in 1 .. m : q = p + 1
  <2> SUFFICES ASSUME NEW q \in 1 .. m + 1, q # 1 PROVE \E p \in 1 .. m : q = p + 1
    OBVIOUS
  <2>1. q - 1 \in 1 .. m /\ q = (q - 1) + 1
    OBVIOUS
  <2> QED BY <2>1
<1>5. ASSUME Flat(z, v, E, d, n, g) PROVE Flat(z, u, F, d, n, g)
  <2> SUFFICES ASSUME NEW q \in 1 .. Len(u) PROVE Lies(z, u[q], F[q], d, n, g)
    BY DEF Flat
  <2>1. CASE q = 1
    BY <1>3, <2>1
  <2>2. CASE q # 1
    <3>1. PICK p \in 1 .. m : q = p + 1
      BY <1>1, <1>4, <2>2
    <3> QED BY <1>1, <1>3, <1>5, <3>1 DEF Flat
  <2> QED BY <2>1, <2>2
<1>6. ASSUME Chain(v, E, e, k) PROVE Chain(u, F, e + Gap(a), k)
  <2>1. Base(a, e) = e
    BY DEF Base, Lies, Deep
  <2>2. CASE m = 0
    <3>1. e = k /\ Len(u) = 1 /\ 1 .. Len(u) - 1 = {}
      BY <1>1, <1>6, <2>2 DEF Chain
    <3> QED BY <1>3, <2>1, <3>1 DEF Chain
  <2>3. CASE m # 0
    <3>1. /\ E[1] + Gap(v[1]) = e
          /\ \A q \in 1 .. m - 1 : Base(v[q], E[q]) = E[q + 1] + Gap(v[q + 1])
          /\ Base(v[m], E[m]) = k
      BY <1>1, <1>6, <2>3 DEF Chain
    <3>2. Len(u) = m + 1 /\ Len(u) # 0 /\ Len(u) - 1 = m /\ m \in 1 .. m /\ 1 \in 1 .. m
      BY <1>1, <2>3
    <3>3. ASSUME NEW q \in 1 .. Len(u) - 1 PROVE Base(u[q], F[q]) = F[q + 1] + Gap(u[q + 1])
      <4>1. q \in 1 .. m /\ q + 1 \in 1 .. m + 1
        BY <3>2
      <4>2. u[q + 1] = v[q] /\ F[q + 1] = E[q]
        BY <1>1, <1>3, <4>1
      <4>3. CASE q = 1
        BY <1>3, <2>1, <3>1, <4>2, <4>3
      <4>4. CASE q # 1
        <5>1. PICK p \in 1 .. m : q = p + 1
          BY <1>4, <4>1, <4>4
        <5>2. p \in 1 .. m - 1
          BY <4>1, <5>1
        <5>3. u[q] = v[p] /\ F[q] = E[p]
          BY <1>1, <1>3, <5>1
        <5> QED BY <3>1, <4>2, <5>1, <5>2, <5>3
      <4> QED BY <4>3, <4>4
    <3>4. Base(u[Len(u)], F[Len(u)]) = k
      BY <1>1, <1>3, <3>1, <3>2
    <3> QED BY <1>3, <3>2, <3>3, <3>4 DEF Chain
  <2> QED BY <2>2, <2>3
<1> QED BY <1>5, <1>6

\* One instruction is emitted that is no jump yet.
LEMMA EmitGone ==
    ASSUME GInv, todo # <<>>, It.do \notin Deep, It.do # "block", NEW D, Going(todo, chunks, loops, slips, D),
           UNCHANGED loops, More(slips, slips'), NEW u \in Seq(Items), Go(u),
           NEW op \in {"data", "panic"}, NEW takes \in Nat, NEW gives \in Nat,
           NEW d, d = Coded(Blk, op, takes, gives, 0), InBlk(d),
           NEW E, Flat(slips', u, E, d, NestOf(Blk), loops[Len(loops)]),
           slips' = {} => takes <= Blk.h /\ Chain(u, E, Blk.h + Gap(It), Blk.h - takes + gives)
    PROVE  Gone
<1>1. Blk \in Chunks /\ loops \in Seq(LoopInfos)
  BY WritesIs DEF Writes, GInv
<1>2. Adds(Blk, takes, gives, op, d)
  BY <1>1, AddsSo
<1>3. /\ d \in Chunks /\ Moves(Blk, d, NestOf(Blk), {}) /\ d.h = Blk.h - takes + gives
      /\ (slips' = {} => FedFrom(Blk, d)) /\ Settles(slips', d, NestOf(Blk), {})
  BY <1>2, SettlesNowhere DEF Adds
<1> QED BY <1>3, GoGoes

\* Nothing is emitted.
LEMMA SameGone ==
    ASSUME GInv, todo # <<>>, It.do \notin Deep, It.do # "block", NEW D, Going(todo, chunks, loops, slips, D),
           UNCHANGED <<chunks, loops, slips>>, NEW u \in Seq(Items), Go(u),
           NEW E, Flat(slips, u, E, Blk, NestOf(Blk), loops[Len(loops)]),
           slips = {} => Chain(u, E, Blk.h + Gap(It), Blk.h)
    PROVE  Gone
<1>1. Blk \in Chunks /\ InBlk(Blk)
  BY WritesIs, SameIs DEF Writes
<1>2. Moves(Blk, Blk, NestOf(Blk), {}) /\ FedFrom(Blk, Blk) /\ Settles(slips', Blk, NestOf(Blk), {})
  BY <1>1, MovesNowhere, SettlesNowhere
<1>3. More(slips, slips') /\ slips' = slips
  BY DEF More
<1> QED BY <1>1, <1>2, <1>3, GoGoes

LEMMA LeafGone == ASSUME GInv, NEW D, Going(todo, chunks, loops, slips, D), Leaf PROVE Gone
<1>1. /\ todo # <<>> /\ It.do = "expr" /\ UNCHANGED <<loops, slips>> /\ Go(<<>>)
      /\ InBlk(Coded(Blk, "data", 0, 1, 0)) /\ More(slips, slips')
  BY DEF Leaf, Parsing, It, Neutral, Emit, More
<1>2. It.do \notin Deep /\ It.do # "block" /\ Gap(It) = 1
  BY <1>1 DEF Deep, Gap
<1>3. PICK n, g : Stood(n, g)
  BY <1>1, <1>2, StoodSo
<1>4. <<>> \in Seq(Items) /\ Blk.h \in Int /\ Blk.h - 0 + 1 = Blk.h + Gap(It) /\ (slips = {} => 0 <= Blk.h)
  BY <1>2, <1>3 DEF Stood
<1>5. PICK d : d = Coded(Blk, "data", 0, 1, 0)
  OBVIOUS
<1>6. /\ Flat(slips', <<>>, <<>>, d, NestOf(Blk), loops[Len(loops)])
      /\ Chain(<<>>, <<>>, Blk.h + Gap(It), Blk.h - 0 + 1)
  BY <1>4, NoItems
<1> QED BY <1>1, <1>2, <1>4, <1>5, <1>6, EmitGone

LEMMA ApplyIs ==
    ASSUME NEW at \in Nat, NEW m \in Nat
    PROVE  /\ [Item("apply") EXCEPT !.at = at, !.n = m] \in Items
           /\ [Item("apply") EXCEPT !.at = at, !.n = m].do = "apply"
           /\ Gap([Item("apply") EXCEPT !.at = at, !.n = m]) = at - m
           /\ [Item("apply") EXCEPT !.at = at, !.n = m].n = m
<1>1. PICK a : a = [Item("apply") EXCEPT !.at = at, !.n = m]
  OBVIOUS
<1>2. a = [do |-> "apply", at |-> at, outs |-> <<>>, n |-> m, vt |-> "none"]
  BY <1>1 DEF Item
<1>3. a \in Items
  BY <1>2 DEF Items, Doings, Where, Kinds
<1>4. a.do = "apply" /\ a.at = at /\ a.n = m
  BY <1>2
<1> QED BY <1>1, <1>3, <1>4 DEF Gap

LEMMA OperandsGone ==
    ASSUME GInv, NEW D, Going(todo, chunks, loops, slips, D), NEW m \in 1 .. MaxOperands, Operands(m)
    PROVE  Gone
<1>1. PICK a : a = [Item("apply") EXCEPT !.at = 1, !.n = m]
  OBVIOUS
<1>2. /\ todo # <<>> /\ It.do = "expr" /\ UNCHANGED <<chunks, loops, slips>> /\ Go(<<a>> \o Exprs(m))
      /\ m \in Nat
  BY <1>1, CodeAssumption DEF Operands, Parsing, It, Neutral
<1>3. It.do \notin Deep /\ It.do # "block" /\ Gap(It) = 1
  BY <1>2 DEF Deep, Gap
<1>4. PICK n, g : Stood(n, g)
  BY <1>2, <1>3, StoodSo
<1>5. a \in Items /\ a.do = "apply" /\ Gap(a) = 1 - m /\ a.n = m
  BY <1>1, <1>2, ApplyIs
<1>6. PICK e \in Int : e = Blk.h + m
  BY <1>2, <1>4 DEF Stood
<1>7. Blk.h \in Int /\ e + Gap(a) = Blk.h + Gap(It) /\ e - m = Blk.h /\ (slips = {} => e >= m)
  BY <1>2, <1>3, <1>4, <1>5, <1>6 DEF Stood
<1>8. Lies(slips, a, e, Blk, n, g)
  BY <1>5, <1>7 DEF Lies, Nested, Fed, Inner, Deep
<1>9. PICK u : u = <<a>> \o Exprs(m)
  OBVIOUS
<1>10. PICK E : Flat(slips, u, E, Blk, n, g) /\ Chain(u, E, e + Gap(a), e - m)
  BY <1>2, <1>5, <1>8, <1>9, ManyItems
<1>11. u \in Seq(Items)
  <2>1. <<a>> \in Seq(Items) /\ Exprs(m) \in Seq(Items)
    BY <1>2, <1>5, OneIs, ExprsAre
  <2> QED BY <1>9, <2>1, ConcatIs
<1>12. Flat(slips, u, E, Blk, NestOf(Blk), loops[Len(loops)]) /\ Chain(u, E, Blk.h + Gap(It), Blk.h)
  BY <1>4, <1>7, <1>10 DEF Stood
<1> QED BY <1>2, <1>3, <1>9, <1>11, <1>12, SameGone

LEMMA ApplyGone == ASSUME GInv, NEW D, Going(todo, chunks, loops, slips, D), Apply PROVE Gone
<1>1. /\ todo # <<>> /\ It.do = "apply" /\ UNCHANGED <<loops, slips>> /\ Go(<<>>)
      /\ InBlk(Coded(Blk, "data", It.n, It.at, 0)) /\ More(slips, slips')
  BY DEF Apply, Parsing, It, Neutral, Emit, More
<1>2. It.do \notin Deep /\ It.do # "block" /\ Gap(It) = It.at - It.n
  BY <1>1 DEF Deep, Gap
<1>3. PICK n, g : Stood(n, g)
  BY <1>1, <1>2, StoodSo
<1>4. It.n \in Nat /\ It.at \in Nat
  BY <1>3 DEF Stood, Items, Where
<1>5. /\ <<>> \in Seq(Items) /\ Blk.h - It.n + It.at = Blk.h + Gap(It)
      /\ (slips = {} => It.n <= Blk.h)
  <2>1. slips = {} => Blk.h >= It.n
    BY <1>1, <1>3 DEF Stood, Lies, Fed
  <2> QED BY <1>2, <1>3, <1>4, <2>1 DEF Stood
<1>6. PICK d : d = Coded(Blk, "data", It.n, It.at, 0)
  OBVIOUS
<1>7. /\ Flat(slips', <<>>, <<>>, d, NestOf(Blk), loops[Len(loops)])
      /\ Chain(<<>>, <<>>, Blk.h + Gap(It), Blk.h - It.n + It.at)
  BY <1>5, NoItems
<1> QED BY <1>1, <1>2, <1>4, <1>5, <1>6, <1>7, EmitGone

\* How many operands an item takes away, by what it is.
LEMMA GapIs ==
    ASSUME NEW it
    PROVE  /\ it.do = "expr" => Gap(it) = 1
           /\ it.do \in {"logic", "logc", "func"} => Gap(it) = 0
           /\ it.do \in {"block", "branch", "else", "loop"} => Want(it) = 0 /\ Gap(it) = 0
           /\ it.do \in {"cond", "ret", "iter"} => Want(it) = 1 /\ Gap(it) = -1
           /\ it.do = "lval" => Want(it) = Parts(it.vt) /\ Gap(it) = 0 - Parts(it.vt)
           /\ it.do = "assign" => Want(it) = Parts(it.vt) + 1 /\ Gap(it) = 0 - (Parts(it.vt) + 1)
<1>1. ASSUME it.do \in {"block", "branch", "else", "loop"} PROVE Want(it) = 0 /\ Gap(it) = 0
  <2>1. Want(it) = 0
    BY <1>1 DEF Want
  <2>2. Gap(it) = 0 - Want(it)
    BY <1>1 DEF Gap
  <2> QED BY <2>1, <2>2
<1>2. ASSUME it.do \in {"cond", "ret", "iter"} PROVE Want(it) = 1 /\ Gap(it) = -1
  <2>1. Want(it) = 1
    BY <1>2 DEF Want
  <2>2. Gap(it) = 0 - Want(it)
    BY <1>2 DEF Gap
  <2> QED BY <2>1, <2>2
<1>3. ASSUME it.do = "lval" PROVE Want(it) = Parts(it.vt) /\ Gap(it) = 0 - Parts(it.vt)
  <2>1. Want(it) = Parts(it.vt)
    BY <1>3 DEF Want
  <2>2. Gap(it) = 0 - Want(it)
    BY <1>3 DEF Gap
  <2> QED BY <2>1, <2>2
<1>4. ASSUME it.do = "assign" PROVE Want(it) = Parts(it.vt) + 1 /\ Gap(it) = 0 - (Parts(it.vt) + 1)
  <2>1. Want(it) = Parts(it.vt) + 1
    BY <1>4 DEF Want
  <2>2. Gap(it) = 0 - Want(it)
    BY <1>4 DEF Gap
  <2> QED BY <2>1, <2>2
<1>5. it.do = "expr" => Gap(it) = 1
  BY DEF Gap
<1>6. it.do \in {"logic", "logc", "func"} => Gap(it) = 0
  BY DEF Gap
<1> QED BY <1>1, <1>2, <1>3, <1>4, <1>5, <1>6

LEMMA LogicGone ==
    ASSUME GInv, NEW D, Going(todo, chunks, loops, slips, D), NEW op \in {"jnt", "jnn"}, Logic(op)
    PROVE  Gone
<1>1. PICK a : a = [Item("logic") EXCEPT !.vt = op]
  OBVIOUS
<1>2. PICK b : b = Item("expr")
  OBVIOUS
<1>3. /\ todo # <<>> /\ It.do = "expr" /\ UNCHANGED <<chunks, loops, slips>> /\ Go(<<a, b>>)
  BY <1>1, <1>2 DEF Logic, Parsing, It, Neutral
<1>4. It.do \notin Deep /\ It.do # "block" /\ Gap(It) = 1
  BY <1>3 DEF Deep, Gap
<1>5. PICK n, g : Stood(n, g)
  BY <1>3, <1>4, StoodSo
<1>6. a \in Items /\ a.do = "logic" /\ b \in Items /\ b.do = "expr"
  <2>1. Item("logic") \in Items /\ Item("logic").do = "logic" /\ op \in Kinds
    BY SMTT(60), ItemIs DEF Doings, Kinds
  <2>2. IsItem(a, "logic", Item("logic").at, Item("logic").outs, op)
    BY <1>1, <2>1, SetItem
  <2> QED BY <1>2, <2>2, ItemIs DEF IsItem, Doings
<1>7. PICK e \in Int : e = Blk.h + 1
  BY <1>5 DEF Stood
<1>8. Blk.h \in Int /\ Gap(a) = 0 /\ Gap(b) = 1 /\ (slips = {} => e >= 1)
  BY <1>5, <1>6, <1>7 DEF Stood, Gap
<1>9. Lies(slips, a, e, Blk, n, g) /\ Lies(slips, b, Blk.h, Blk, n, g)
  BY <1>6, <1>8 DEF Lies, Nested, Fed, Inner, Deep
<1>10. PICK u : u = <<a, b>>
  OBVIOUS
<1>11. u \in Seq(Items) /\ Len(u) = 2 /\ u[1] = a /\ u[2] = b
  BY <1>6, <1>10
<1>12. /\ Flat(slips, u, <<e, Blk.h>>, Blk, n, g) /\ Chain(u, <<e, Blk.h>>, e + Gap(a), Blk.h)
  BY <1>7, <1>8, <1>9, <1>11, TwoItems
<1>13. e + Gap(a) = Blk.h + Gap(It)
  BY <1>4, <1>7, <1>8
<1>14. /\ Flat(slips, u, <<e, Blk.h>>, Blk, NestOf(Blk), loops[Len(loops)])
       /\ Chain(u, <<e, Blk.h>>, Blk.h + Gap(It), Blk.h)
  BY <1>5, <1>12, <1>13 DEF Stood
<1>15. Go(u)
  BY <1>3, <1>10
<1> QED BY <1>3, <1>4, <1>11, <1>14, <1>15, SameGone

LEMMA EndBlockGone == ASSUME GInv, NEW D, Going(todo, chunks, loops, slips, D), EndBlock PROVE Gone
<1>1. /\ todo # <<>> /\ It.do = "block" /\ UNCHANGED <<chunks, loops, slips>> /\ Go(<<>>) /\ Len(todo) > 1
  BY DEF EndBlock, Parsing, It, Neutral
<1>2. It.do \notin Deep /\ Gap(It) = 0
  BY <1>1, GapIs DEF Deep
<1>3. PICK n, g : Stood(n, g)
  BY <1>1, <1>2, StoodSo
<1>4. <<>> \in Seq(Items) /\ Blk \in Chunks /\ chunks # <<>> /\ Blk.h = Blk.h + Gap(It)
  BY <1>2, <1>3 DEF Stood
<1>5. IsReplaced(Items, todo, <<>>, todo') /\ IsTopped(Chunks, chunks, Blk, chunks')
  BY <1>1, <1>4, GoIs, SameBlk
<1>6. Moves(Blk, Blk, NestOf(Blk), {}) /\ FedFrom(Blk, Blk) /\ Settles(slips', Blk, NestOf(Blk), {})
  BY <1>4, MovesNowhere, SettlesNowhere
<1>7. Flat(slips', <<>>, <<>>, Blk, NestOf(Blk), loops[Len(loops)]) /\ Chain(<<>>, <<>>, Blk.h + Gap(It), Blk.h)
  BY <1>4, NoItems
<1>8. More(slips, slips')
  BY <1>1 DEF More
<1>9. \E F : Going(todo', chunks', loops, slips', F)
  BY <1>1, <1>2, <1>4, <1>5, <1>6, <1>7, <1>8, PlainGoes
<1> QED BY <1>1, <1>9 DEF Gone

\* A statement that begins with an expression of its own.
LEMMA BeginGone ==
    ASSUME GInv, NEW D, Going(todo, chunks, loops, slips, D), Parsing("block"), UNCHANGED <<chunks, loops, slips>>,
           NEW do \in {"ret", "cond"}, Descend(<<Item(do), Item("expr")>>)
    PROVE  Gone
<1>1. PICK a, b : a = Item(do) /\ b = Item("expr")
  OBVIOUS
<1>2. a \in Items /\ a.do = do /\ a.outs = <<>> /\ b \in Items /\ b.do = "expr"
  BY <1>1, ItemIs DEF Doings
<1>3. It.do = "block" /\ todo # <<>> /\ It.do \notin Deep
  BY DEF Parsing, It, Deep
<1>4. PICK n, g : Stood(n, g)
  BY <1>3, StoodSo
<1>5. PICK k \in Int, e \in Int : k = Blk.h /\ e = k + 1
  BY <1>4 DEF Stood
<1>6. Gap(a) = -1 /\ Gap(b) = 1 /\ Gap(It) = 0 /\ k = e + Gap(a) /\ e = k + Gap(b)
  <2>1. Gap(a) = -1 /\ Gap(b) = 1 /\ Gap(It) = 0
    BY <1>2, <1>3, GapIs
  <2> QED BY <1>5, <2>1
<1>7. Lies(slips, It, k, Blk, n, g)
  BY <1>4, <1>5 DEF Stood
<1>8. Lies(slips, b, k, Blk, n, g)
  BY <1>2 DEF Lies, Nested, Fed, Inner, Deep
<1>9. Lies(slips, a, e, Blk, n, g)
  <2>1. \A o : o \notin Range(a.outs)
    <3>1. DOMAIN a.outs = {}
      BY <1>2
    <3> QED BY <3>1 DEF Range
  <2>2. "outer" \notin slips => Nested(a, Blk, n, g, g)
    BY <1>2, <1>3, <1>7, <2>1 DEF Lies, Nested
  <2>3. slips = {} => Fed(a, e, Blk, n, g, g)
    <3>1. ASSUME slips = {} PROVE k = 0 /\ (Len(n) # 0 => RetryOn(Blk, g))
      BY <1>3, <1>7, <3>1 DEF Lies, Fed, Want, Inner
    <3>2. slips = {} => e = 1
      BY <1>5, <3>1
    <3>3. Want(a) = 1
      BY <1>2 DEF Want
    <3>4. a.do # "func" /\ a.do # "apply" /\ a.do \notin {"logic", "logc"} /\ a.do # "branch"
          /\ a.do \notin {"loop", "iter"}
      BY <1>2
    <3> QED BY <2>1, <3>1, <3>2, <3>3, <3>4 DEF Fed
  <2>4. a.do \notin Deep
    BY <1>2 DEF Deep
  <2> QED BY <2>2, <2>3, <2>4 DEF Lies
<1>10. PICK w : w = <<a, b>>
  OBVIOUS
<1>11. w \in Seq(Items) /\ Len(w) = 2 /\ w[1] = a /\ w[2] = b /\ Descend(w)
  BY <1>1, <1>2, <1>10
<1>12. PICK v : v = <<It>> \o w
  OBVIOUS
<1>13. Len(v) = 3 /\ v[1] = It /\ v[2] = a /\ v[3] = b
  <2>1. Grown(Items, todo, It, w, v, todo')
    BY <1>3, <1>11, <1>12, DescendIs DEF GInv
  <2>2. 1 \in 1 .. 2 /\ 2 \in 1 .. 2 /\ 1 + 1 = 2 /\ 2 + 1 = 3
    OBVIOUS
  <2> QED BY <1>11, <2>1, <2>2 DEF Grown
<1>14. Flat(slips, v, <<k, e, k>>, Blk, n, g) /\ Chain(v, <<k, e, k>>, k + Gap(It), k)
  BY ZenonT(60), <1>6, <1>7, <1>8, <1>9, <1>13, ThreeItems
<1>15. /\ Flat(slips, v, <<k, e, k>>, Blk, NestOf(Blk), loops[Len(loops)])
       /\ Chain(v, <<k, e, k>>, Blk.h + Gap(It), Blk.h)
  BY <1>4, <1>5, <1>14 DEF Stood
<1> QED BY <1>11, <1>12, <1>15, DescendGoes

LEMMA ReturnGone == ASSUME GInv, NEW D, Going(todo, chunks, loops, slips, D), Return PROVE Gone
BY BeginGone DEF Return, Neutral

LEMMA BeginIfGone == ASSUME GInv, NEW D, Going(todo, chunks, loops, slips, D), BeginIf PROVE Gone
BY BeginGone DEF BeginIf, Neutral

LEMMA BeginStatGone == ASSUME GInv, NEW D, Going(todo, chunks, loops, slips, D), BeginStat PROVE Gone
<1>1. It.do = "block" /\ todo # <<>> /\ It.do \notin Deep /\ UNCHANGED <<chunks, loops, slips>> /\ Parsing("block")
  BY DEF BeginStat, Parsing, It, Deep, Neutral
<1>2. PICK n, g : Stood(n, g)
  BY <1>1, StoodSo
<1>3. PICK a : a = Lval
  OBVIOUS
<1>4. a \in Items /\ a.do = "lval" /\ a.vt = "symbol"
  <2>1. Lval.do = "lval"
    BY DEF Lval, Item
  <2> QED BY <1>3, <2>1, LvalIs
<1>5. Gap(a) = 0 /\ Gap(It) = 0
  <2>1. Parts(a.vt) = 0
    BY <1>4 DEF Parts
  <2> QED BY <1>1, <1>4, <2>1, GapIs
<1>6. PICK k \in Int : k = Blk.h
  BY <1>2 DEF Stood
<1>7. Lies(slips, It, k, Blk, n, g)
  BY <1>2, <1>6 DEF Stood
<1>8. Lies(slips, a, k, Blk, n, g)
  <2>1. slips = {} => k = 0
    BY <1>1, <1>7 DEF Lies, Fed, Want, Inner
  <2> QED BY <1>4, <2>1 DEF Lies, Nested, Fed, Inner, Deep, Want, Parts
<1>9. PICK w : w = <<a>>
  OBVIOUS
<1>10. w \in Seq(Items) /\ Len(w) = 1 /\ w[1] = a /\ Descend(w)
  <2>1. Descend(<<a>>)
    BY <1>3 DEF BeginStat
  <2> QED BY <1>4, <1>9, <2>1
<1>11. PICK v : v = <<It>> \o w
  OBVIOUS
<1>12. Len(v) = 2 /\ v[1] = It /\ v[2] = a
  <2>1. Grown(Items, todo, It, w, v, todo')
    BY <1>1, <1>10, <1>11, DescendIs DEF GInv
  <2>2. 1 \in 1 .. 1 /\ 1 + 1 = 2
    OBVIOUS
  <2> QED BY <1>10, <2>1, <2>2 DEF Grown
<1>13. k = k + Gap(a)
  BY <1>5
<1>14. Flat(slips, v, <<k, k>>, Blk, n, g) /\ Chain(v, <<k, k>>, k + Gap(It), k)
  BY <1>7, <1>8, <1>12, <1>13, TwoItems
<1>15. /\ Flat(slips, v, <<k, k>>, Blk, NestOf(Blk), loops[Len(loops)])
       /\ Chain(v, <<k, k>>, Blk.h + Gap(It), Blk.h)
  BY <1>2, <1>6, <1>14 DEF Stood
<1> QED BY <1>1, <1>10, <1>11, <1>15, DescendGoes

LEMMA EmitRetGone == ASSUME GInv, NEW D, Going(todo, chunks, loops, slips, D), EmitRet PROVE Gone
<1>1. /\ todo # <<>> /\ It.do = "ret" /\ UNCHANGED <<loops, slips>> /\ Go(<<>>)
      /\ InBlk(Coded(Blk, "ret", 1, 0, 0)) /\ More(slips, slips')
  BY DEF EmitRet, Parsing, It, Neutral, More
<1>2. It.do \notin Deep /\ It.do # "block" /\ Gap(It) = -1
  BY <1>1, GapIs DEF Deep
<1>3. PICK n, g : Stood(n, g)
  BY <1>1, <1>2, StoodSo
<1>4. PICK d : d = Coded(Blk, "ret", 1, 0, 0)
  OBVIOUS
<1>5. Codes(Blk, "ret", 1, 0, 0, n, d)
  BY <1>3, <1>4, RetMoves DEF Stood
<1>6. slips = {} => Blk.h = 1
  BY SMTT(60), <1>1, <1>3 DEF Stood, Lies, Fed, Want, Inner
<1>7. d \in Chunks /\ Moves(Blk, d, n, {Pos(Blk)}) /\ d.h = Blk.h + Gap(It) /\ (slips' = {} => FedFrom(Blk, d))
  BY <1>1, <1>2, <1>3, <1>5, <1>6 DEF Codes, Turns, Moves, Stood
<1>8. Settles(slips', d, n, {Pos(Blk)})
  <2>1. d.inst[Pos(Blk)].op = "ret" /\ d.inst[Pos(Blk)].takes = 1 /\ d.inst[Pos(Blk)].h = Blk.h
    BY <1>5 DEF Codes
  <2>2. slips' = {} => LandsOn(d.inst, d.h, Pos(Blk))
    BY <1>1, <1>6, <2>1 DEF LandsOn, Jumps
  <2>3. d.inst[Pos(Blk)].op \notin Jumps
    BY <2>1 DEF Jumps
  <2> QED BY <2>2, <2>3 DEF Settles
<1>9. /\ <<>> \in Seq(Items) /\ Flat(slips', <<>>, <<>>, d, NestOf(Blk), loops[Len(loops)])
      /\ Chain(<<>>, <<>>, Blk.h + Gap(It), d.h)
  BY <1>7, NoItems
<1>10. Moves(Blk, d, NestOf(Blk), {Pos(Blk)}) /\ Settles(slips', d, NestOf(Blk), {Pos(Blk)}) /\ InBlk(d)
  BY <1>1, <1>3, <1>4, <1>7, <1>8 DEF Stood
<1> QED BY <1>1, <1>2, <1>7, <1>9, <1>10, GoGoes

\* What a holds is what `it' held, or is held since.
Holding(z, it, a, d, n) ==
    /\ a.do # "block" =>
          \A o \in Range(a.outs) : \/ it.do # "block" /\ o \in Range(it.outs)
                                   \/ Has(d, o, n) /\ (z = {} => Was(d, o, 0, 0, 0))
    /\ a.do = "branch" => Has(d, a.at, n) /\ (z = {} => Was(d, a.at, 1, 1, 0))

\* What is pending of an if stays so, with what more it holds.
LEMMA IfLies ==
    ASSUME NEW s, NEW z, More(s, z), NEW c, NEW d, NEW n, NEW P, Moves(c, d, n, P),
           NEW it, it.do \in {"block", "cond", "branch", "else"}, NEW k, NEW g, Lies(s, it, k, c, n, g),
           NEW a, a.do \in {"block", "cond", "branch", "else"},
           Holding(z, it, a, d, n),
           NEW e, z = {} => e = Want(a)
    PROVE  Lies(z, a, e, d, n, g)
<1>1. /\ \A i, m : Has(c, i, m) => Has(d, i, m)
      /\ \A i, h, takes, gives : Was(c, i, h, takes, gives) => Was(d, i, h, takes, gives)
      /\ \A l : RetryOn(c, l) => RetryOn(d, l)
      /\ \A m, l : RetryIn(c, m, l) /\ Pre(m, n) => RetryIn(d, m, l)
  BY MovesHas
<1>2. Len(n) # 0 => Pre(n, n)
  <2>1. CASE Len(n) <= Len(n)
    BY <2>1 DEF Pre
  <2>2. Len(n) <= Len(n) \/ ~(Len(n) <= Len(n))
    OBVIOUS
  <2> QED BY <2>1, <2>2
<1>3. ASSUME "outer" \notin z PROVE Nested(a, d, n, g, g)
  <2>1. Nested(it, c, n, g, g)
    BY <1>3 DEF Lies, More
  <2>2. Len(n) # 0 => RetryIn(d, n, g)
    BY <1>1, <1>2, <2>1 DEF Nested
  <2>3. a.do # "block" => \A o \in Range(a.outs) : Has(d, o, n)
    BY <1>1, <2>1 DEF Nested, Holding
  <2> QED BY <2>2, <2>3 DEF Nested, Holding
<1>4. ASSUME z = {} PROVE Fed(a, e, d, n, g, g)
  <2>1. Fed(it, k, c, n, g, g)
    BY <1>4 DEF Lies, More
  <2>2. Len(n) # 0 => RetryOn(d, g)
    BY <1>1, <2>1 DEF Fed
  <2>3. a.do # "block" => \A o \in Range(a.outs) : Was(d, o, 0, 0, 0)
    BY <1>1, <1>4, <2>1 DEF Fed, Holding
  <2> QED BY <1>4, <2>2, <2>3 DEF Fed, Inner, Holding
<1> QED BY <1>3, <1>4 DEF Lies, Deep

LEMMA EndStatGone == ASSUME GInv, NEW D, Going(todo, chunks, loops, slips, D), EndStat PROVE Gone
<1>1. /\ todo # <<>> /\ It.do = "lval" /\ It.vt = "call" /\ UNCHANGED <<chunks, loops, slips>> /\ Go(<<>>)
  BY DEF EndStat, Parsing, It, Neutral
<1>2. It.do \notin Deep /\ It.do # "block" /\ Gap(It) = 0
  <2>1. Parts(It.vt) = 0
    BY <1>1 DEF Parts
  <2> QED BY <1>1, <2>1, GapIs DEF Deep
<1>3. PICK n, g : Stood(n, g)
  BY <1>1, <1>2, StoodSo
<1>4. Blk.h = Blk.h + Gap(It) /\ <<>> \in Seq(Items)
  BY <1>2, <1>3 DEF Stood
<1>5. Flat(slips, <<>>, <<>>, Blk, NestOf(Blk), loops[Len(loops)]) /\ Chain(<<>>, <<>>, Blk.h + Gap(It), Blk.h)
  BY <1>4, NoItems
<1> QED BY <1>1, <1>2, <1>4, <1>5, SameGone

LEMMA LogicHoldGone == ASSUME GInv, NEW D, Going(todo, chunks, loops, slips, D), LogicHold PROVE Gone
<1>1. PICK a : a = [It EXCEPT !.do = "logc", !.at = Pos(Blk)]
  OBVIOUS
<1>2. PICK b : b = Item("expr")
  OBVIOUS
<1>3. PICK d : d = Hold(Blk, 1, 0)
  OBVIOUS
<1>4. /\ todo # <<>> /\ It.do = "logic" /\ UNCHANGED <<loops, slips>> /\ Go(<<a, b>>)
      /\ InBlk(d) /\ More(slips, slips') /\ d = Coded(Blk, "panic", 1, 0, 0)
  BY <1>1, <1>2, <1>3 DEF LogicHold, Parsing, It, Neutral, More, Hold
<1>5. It.do \notin Deep /\ It.do # "block" /\ Gap(It) = 0
  BY <1>4, GapIs DEF Deep
<1>6. PICK n, g : Stood(n, g)
  BY <1>4, <1>5, StoodSo
<1>7. PICK k \in Int, e \in Int : k = Blk.h /\ e = k - 1 + 0 /\ k = e + 1
  <2>1. Blk.h \in Int
    BY <1>6 DEF Stood
  <2>2. Blk.h - 1 + 0 \in Int /\ Blk.h = (Blk.h - 1 + 0) + 1
    BY <2>1
  <2> QED BY <2>1, <2>2
<1>8. slips = {} => 1 <= k
  BY <1>4, <1>6, <1>7 DEF Stood, Lies, Fed
<1>9. Has(d, Pos(Blk), n) /\ Was(d, Pos(Blk), k, 1, 0) /\ Pos(Blk) \in Nat
  <2>1. Adds(Blk, 1, 0, "panic", d)
    BY <1>4, <1>6, AddsSo DEF Stood
  <2> QED BY <1>6, <1>7, <2>1 DEF Adds, Stood
<1>10. a \in Items /\ a.do = "logc" /\ a.at = Pos(Blk) /\ b \in Items /\ b.do = "expr"
  <2>1. IsItem(a, "logc", Pos(Blk), It.outs, It.vt)
    <3>1. It \in Items
      BY <1>6 DEF Stood
    <3> QED BY ZenonT(60), <1>1, <1>9, <3>1, SetItem DEF Doings
  <2> QED BY <1>2, <2>1, ItemIs DEF IsItem, Doings
<1>11. Lies(slips', a, k, d, n, g) /\ Lies(slips', b, e, d, n, g)
  <2>1. Lies(slips', a, k, d, n, g)
    BY <1>4, <1>8, <1>9, <1>10 DEF Lies, Nested, Fed, Inner, Deep
  <2> QED BY <1>10, <2>1 DEF Lies, Nested, Fed, Inner, Deep
<1>12. Gap(a) = 0 /\ Gap(b) = 1
  BY <1>10, GapIs
<1>13. PICK u : u = <<a, b>>
  OBVIOUS
<1>14. u \in Seq(Items) /\ Len(u) = 2 /\ u[1] = a /\ u[2] = b
  BY <1>10, <1>13
<1>15. Flat(slips', u, <<k, e>>, d, n, g) /\ Chain(u, <<k, e>>, k + Gap(a), e)
  BY ZenonT(60), <1>7, <1>11, <1>12, <1>14, TwoItems
<1>16. /\ Flat(slips', u, <<k, e>>, d, NestOf(Blk), loops[Len(loops)])
       /\ Chain(u, <<k, e>>, Blk.h + Gap(It), Blk.h - 1 + 0) /\ (slips' = {} => 1 <= Blk.h)
  BY <1>4, <1>5, <1>6, <1>7, <1>8, <1>12, <1>15 DEF Stood
<1>17. Go(u)
  BY <1>4, <1>13
<1> QED BY <1>4, <1>5, <1>14, <1>16, <1>17, EmitGone

\* The top has been parsed: what it held is patched, nothing takes its place.
LEMMA PatchGone ==
    ASSUME GInv, todo # <<>>, It.do \notin Deep, It.do # "block", NEW D, Going(todo, chunks, loops, slips, D),
           UNCHANGED loops, More(slips, slips'), Go(<<>>), NEW d \in Chunks, InBlk(d),
           NEW P, Moves(Blk, d, NestOf(Blk), P), Settles(slips', d, NestOf(Blk), P),
           slips' = {} => FedFrom(Blk, d), slips' = {} => Blk.h + Gap(It) = d.h
    PROVE  Gone
<1>1. /\ <<>> \in Seq(Items) /\ Flat(slips', <<>>, <<>>, d, NestOf(Blk), loops[Len(loops)])
      /\ (slips' = {} => Chain(<<>>, <<>>, Blk.h + Gap(It), d.h))
  BY NoItems
<1> QED BY <1>1, GoGoes

LEMMA LogicEndGone == ASSUME GInv, NEW D, Going(todo, chunks, loops, slips, D), LogicEnd PROVE Gone
<1>1. PICK d : d = Patched(Blk, {It.at}, It.vt, FALSE)
  OBVIOUS
<1>2. /\ todo # <<>> /\ It.do = "logc" /\ UNCHANGED <<loops, slips>> /\ Go(<<>>)
      /\ InBlk(d) /\ More(slips, slips')
  BY <1>1 DEF LogicEnd, Parsing, It, Neutral, More
<1>3. It.do \notin Deep /\ It.do # "block" /\ Gap(It) = 0
  BY <1>2, GapIs DEF Deep
<1>4. PICK n, g : Stood(n, g)
  BY <1>2, <1>3, StoodSo
<1>5. It.vt \in {"jnt", "jnn"} /\ It.vt \in Jumps
  <2>1. Writes(It, Blk)
    BY <1>2, WritesIs
  <2>2. Kept(It, Blk, 0)
    BY <1>3, <2>1 DEF Writes
  <2> QED BY <1>2, <2>2 DEF Kept, Jumps
<1>6. Patches(Blk, {It.at}, It.vt, FALSE, d)
  BY <1>1, <1>4, <1>5, PatchedIs DEF Stood
<1>7. Moves(Blk, d, n, {It.at}) /\ FedFrom(Blk, d) /\ d \in Chunks /\ d.h = Blk.h
  <2>1. Moves(Blk, d, n, {It.at}) /\ FedFrom(Blk, d)
    BY <1>6, PatchedMoves
  <2>2. d \in Chunks /\ d.h = Blk.h
    BY <1>6 DEF Patches
  <2> QED BY <2>1, <2>2
<1>8. Settles(slips', d, n, {It.at})
  <2>1. Len(d.inst) = Len(Blk.inst) /\ It.at \in {It.at}
    BY <1>6 DEF Patches
  <2>2. ASSUME "outer" \notin slips', Short(d.inst) PROVE LandsIn(d.inst, n, It.at)
    <3>1. It.at \in 1 .. Len(Blk.inst) /\ Blk.inst[It.at].nest = n
      BY <1>2, <1>4, <2>2 DEF Stood, Lies, Nested, Has
    <3>2. Pre(Blk.inst[It.at].nest, n)
      BY <3>1 DEF Pre
    <3> QED BY <1>6, <2>1, <2>2, <3>1, <3>2, PatchedLands DEF Short
  <2>3. ASSUME slips' = {}, Short(d.inst) PROVE LandsOn(d.inst, d.h, It.at)
    <3>1. Was(Blk, It.at, Blk.h, 1, 0)
      BY <1>2, <1>4, <2>3 DEF Stood, Lies, Fed
    <3>2. It.at \in 1 .. Len(Blk.inst) /\ Short(Blk.inst)
      BY <2>1, <2>3, <3>1 DEF Was, Short
    <3> QED BY <1>5, <1>6, <2>1, <3>1, <3>2, PatchedLands
  <2> QED BY <2>2, <2>3 DEF Settles
<1>9. Blk.h + Gap(It) = d.h
  BY <1>3, <1>4, <1>7 DEF Stood
<1>10. Moves(Blk, d, NestOf(Blk), {It.at}) /\ Settles(slips', d, NestOf(Blk), {It.at})
  BY <1>4, <1>7, <1>8 DEF Stood
<1> QED BY <1>2, <1>3, <1>7, <1>9, <1>10, PatchGone

LEMMA AssignEndGone == ASSUME GInv, NEW D, Going(todo, chunks, loops, slips, D), AssignEnd PROVE Gone
<1>1. PICK m : m = (CASE It.vt = "symbol" -> 1 [] It.vt = "dot" -> 2 [] It.vt = "index" -> 3)
  OBVIOUS
<1>2. PICK d : d = Emit(Blk, m, 0)
  OBVIOUS
<1>3. /\ todo # <<>> /\ It.do = "assign" /\ UNCHANGED <<loops, slips>> /\ Go(<<>>)
      /\ InBlk(d) /\ More(slips, slips') /\ d = Coded(Blk, "data", m, 0, 0)
  BY <1>1, <1>2 DEF AssignEnd, Parsing, It, Neutral, More, Emit
<1>4. It.do \notin Deep /\ It.do # "block" /\ Gap(It) = 0 - (Parts(It.vt) + 1) /\ Want(It) = Parts(It.vt) + 1
  BY <1>3, GapIs DEF Deep
<1>5. PICK n, g : Stood(n, g)
  BY <1>3, <1>4, StoodSo
<1>6. It.vt \in {"symbol", "dot", "index"}
  <2>1. Writes(It, Blk)
    BY <1>3, WritesIs
  <2>2. Kept(It, Blk, 0)
    BY <1>4, <2>1 DEF Writes
  <2> QED BY <1>3, <2>2 DEF Kept
<1>7. m = Parts(It.vt) + 1 /\ m \in Nat
  BY <1>1, <1>6 DEF Parts
<1>8. slips = {} => Blk.h = m
  BY <1>3, <1>4, <1>5, <1>7 DEF Stood, Lies, Fed, Inner
<1>9. Blk.h - m + 0 = Blk.h + Gap(It) /\ (slips' = {} => m <= Blk.h) /\ <<>> \in Seq(Items)
  <2>1. PICK p \in Int : p = Parts(It.vt)
    BY DEF Parts
  <2>2. PICK k \in Int : k = Blk.h
    BY <1>5 DEF Stood
  <2>3. m = p + 1 /\ Gap(It) = 0 - (p + 1)
    BY <1>4, <1>7, <2>1
  <2> QED BY <1>3, <1>8, <2>2, <2>3
<1>10. /\ Flat(slips', <<>>, <<>>, d, NestOf(Blk), loops[Len(loops)])
       /\ Chain(<<>>, <<>>, Blk.h + Gap(It), Blk.h - m + 0)
  BY <1>9, NoItems
<1> QED BY <1>3, <1>4, <1>7, <1>9, <1>10, EmitGone

LEMMA AssignGone == ASSUME GInv, NEW D, Going(todo, chunks, loops, slips, D), Assign PROVE Gone
<1>1. PICK a : a = [It EXCEPT !.do = "assign"]
  OBVIOUS
<1>2. PICK b : b = Item("expr")
  OBVIOUS
<1>3. /\ todo # <<>> /\ It.do = "lval" /\ It.vt # "call" /\ UNCHANGED <<chunks, loops, slips>> /\ Go(<<a, b>>)
  BY <1>1, <1>2 DEF Assign, Parsing, It, Neutral
<1>4. It.do \notin Deep /\ It.do # "block" /\ Gap(It) = 0 - Parts(It.vt) /\ Want(It) = Parts(It.vt)
  BY <1>3, GapIs DEF Deep
<1>5. PICK n, g : Stood(n, g)
  BY <1>3, <1>4, StoodSo
<1>6. a \in Items /\ a.do = "assign" /\ a.vt = It.vt /\ b \in Items /\ b.do = "expr"
  <2>1. IsItem(a, "assign", It.at, It.outs, It.vt)
    <3>1. It \in Items
      BY <1>5 DEF Stood
    <3> QED BY ZenonT(60), <1>1, <3>1, SetItem DEF Doings
  <2> QED BY <1>2, <2>1, ItemIs DEF IsItem, Doings
<1>7. PICK p \in Int : p = Parts(It.vt)
  BY DEF Parts
<1>8. Gap(a) = 0 - (p + 1) /\ Want(a) = p + 1 /\ Gap(b) = 1 /\ Gap(It) = 0 - p
  BY <1>4, <1>6, <1>7, GapIs
<1>9. PICK k \in Int, e \in Int : k = Blk.h /\ e = k + 1
  BY <1>5 DEF Stood
<1>10. slips = {} => k = p
  BY <1>3, <1>4, <1>5, <1>7, <1>9 DEF Stood, Lies, Fed, Inner
<1>11. Lies(slips, a, e, Blk, n, g) /\ Lies(slips, b, k, Blk, n, g)
  <2>1. slips = {} => e = Want(a)
    BY <1>8, <1>9, <1>10
  <2>2. Lies(slips, a, e, Blk, n, g)
    BY <1>6, <2>1 DEF Lies, Nested, Fed, Inner, Deep
  <2> QED BY <1>6, <2>2 DEF Lies, Nested, Fed, Inner, Deep
<1>12. PICK u : u = <<a, b>>
  OBVIOUS
<1>13. u \in Seq(Items) /\ Len(u) = 2 /\ u[1] = a /\ u[2] = b
  BY <1>6, <1>12
<1>14. e = k + Gap(b) /\ e + Gap(a) = k + Gap(It)
  BY <1>8, <1>9
<1>15. Flat(slips, u, <<e, k>>, Blk, n, g) /\ Chain(u, <<e, k>>, e + Gap(a), k)
  BY <1>11, <1>13, <1>14, TwoItems
<1>16. /\ Flat(slips, u, <<e, k>>, Blk, NestOf(Blk), loops[Len(loops)])
       /\ Chain(u, <<e, k>>, Blk.h + Gap(It), Blk.h)
  BY <1>5, <1>9, <1>14, <1>15 DEF Stood
<1>17. Go(u)
  BY <1>3, <1>12
<1> QED BY <1>3, <1>4, <1>13, <1>16, <1>17, SameGone

LEMMA PartialMoves ==
    ASSUME loops \in Seq(LoopInfos), NEW c \in Chunks, NEW vt \in {"symbol", "dot", "index", "call"},
           NEW d, d = Partial(c, vt)
    PROVE  /\ Moves(c, d, NestOf(c), {}) /\ d \in Chunks
           /\ vt # "call" /\ c.h = Parts(vt) => d.h = 1 /\ FedFrom(c, d)
<1>1. /\ Adds(c, 0, 1, "data", Emit(c, 0, 1)) /\ Adds(c, 1, 1, "data", Emit(c, 1, 1))
      /\ Adds(c, 2, 1, "data", Emit(c, 2, 1))
  BY EmitMoves
<1>2. CASE vt = "symbol"
  <2>1. d = Emit(c, 0, 1) /\ Parts(vt) = 0
    BY <1>2 DEF Partial, Parts
  <2> QED BY <1>1, <2>1 DEF Adds
<1>3. CASE vt = "dot"
  <2>1. d = Emit(c, 1, 1) /\ Parts(vt) = 1
    BY <1>3 DEF Partial, Parts
  <2> QED BY <1>1, <2>1 DEF Adds
<1>4. CASE vt = "index"
  <2>1. d = Emit(c, 2, 1) /\ Parts(vt) = 2
    BY <1>4 DEF Partial, Parts
  <2> QED BY <1>1, <2>1 DEF Adds
<1>5. CASE vt = "call"
  <2>1. d = c
    BY <1>5 DEF Partial
  <2> QED BY <1>5, <2>1, MovesNowhere
<1> QED BY <1>2, <1>3, <1>4, <1>5

LEMMA SuffixGone ==
    ASSUME GInv, NEW D, Going(todo, chunks, loops, slips, D),
           NEW vt \in {"dot", "index", "call"}, NEW args \in Nat, Suffix(vt, args)
    PROVE  Gone
<1>1. PICK a : a = [Lval EXCEPT !.vt = vt]
  OBVIOUS
<1>2. PICK b : b = [Item("apply") EXCEPT !.n = args + 1]
  OBVIOUS
<1>3. PICK d : d = Partial(Blk, It.vt)
  OBVIOUS
<1>4. PICK w : w = (CASE vt = "dot" -> <<>>
                      [] vt = "index" -> Exprs(1)
                      [] vt = "call" -> <<b>> \o Exprs(args))
  OBVIOUS
<1>5. PICK u : u = <<a>> \o w
  OBVIOUS
<1>6. /\ todo # <<>> /\ It.do = "lval" /\ UNCHANGED loops /\ Go(u) /\ InBlk(d)
      /\ slips' = (IF It.vt = "call" THEN slips \cup {"chain"} ELSE slips) /\ More(slips, slips')
      /\ Parsing("lval")
  BY <1>1, <1>2, <1>3, <1>4, <1>5 DEF Suffix, Parsing, It, More
<1>7. It.do \notin Deep /\ It.do # "block" /\ Gap(It) = 0 - Parts(It.vt) /\ Want(It) = Parts(It.vt)
  BY <1>6, GapIs DEF Deep
<1>8. PICK n, g : Stood(n, g)
  BY <1>6, <1>7, StoodSo
<1>9. It.vt \in {"symbol", "dot", "index", "call"}
  BY <1>6, LvalKind
<1>10. /\ Moves(Blk, d, NestOf(Blk), {}) /\ d \in Chunks
       /\ It.vt # "call" /\ Blk.h = Parts(It.vt) => d.h = 1 /\ FedFrom(Blk, d)
  BY <1>3, <1>8, <1>9, PartialMoves DEF Stood
<1>11. ASSUME slips' = {} PROVE d.h = 1 /\ FedFrom(Blk, d) /\ Blk.h + Gap(It) = 0
  <2>1. It.vt # "call" /\ slips = {}
    BY <1>6, <1>11
  <2>2. Blk.h = Parts(It.vt)
    BY <1>6, <1>7, <1>8, <2>1 DEF Stood, Lies, Fed, Inner
  <2>3. PICK p \in Int : p = Parts(It.vt)
    BY DEF Parts
  <2>4. Blk.h + Gap(It) = 0
    BY <1>7, <2>2, <2>3
  <2> QED BY <1>10, <2>1, <2>2, <2>4
<1>12. a \in Items /\ a.do = "lval" /\ a.vt = vt
  <2>1. Lval \in Items
    BY LvalIs
  <2>2. Lval.do = "lval"
    BY DEF Lval, Item
  <2>3. IsItem(a, Lval.do, Lval.at, Lval.outs, vt)
    <3>1. vt \in Kinds
      BY DEF Kinds
    <3> QED BY ZenonT(60), <1>1, <2>1, <3>1, SetItem
  <2> QED BY <2>2, <2>3 DEF IsItem
<1>13. Gap(a) = 0 - Parts(vt) /\ Want(a) = Parts(vt)
  BY <1>12, GapIs
<1>14. PICK p \in Nat : p = Parts(vt) /\ Gap(a) = 0 - p
  <2>1. Parts(vt) \in Nat
    BY DEF Parts
  <2> QED BY <1>13, <2>1
<1>15. \A z : Lies(z, a, p, d, n, g)
  BY <1>12, <1>13, <1>14 DEF Lies, Nested, Fed, Inner, Deep
<1>16. u \in Seq(Items) /\ \E E : Flat(slips', u, E, d, n, g) /\ Chain(u, E, 0, 1)
  <2>1. CASE vt = "dot"
    <3>1. u = <<a>> \o <<>> /\ p = 1
      BY <1>4, <1>5, <1>14, <2>1 DEF Parts
    <3>2. u \in Seq(Items) /\ Len(u) = 1 /\ u[1] = a
      BY <1>12, <3>1
    <3>3. Flat(slips', u, <<p>>, d, n, g) /\ Chain(u, <<p>>, p + Gap(a), p)
      BY <1>15, <3>2, OneItem
    <3>4. p + Gap(a) = 0
      BY <1>14
    <3> QED BY <3>1, <3>2, <3>3, <3>4
  <2>2. CASE vt = "index"
    <3>1. u = <<a>> \o Exprs(1) /\ p = 2
      BY <1>4, <1>5, <1>14, <2>2 DEF Parts
    <3>2. u \in Seq(Items)
      <4>1. <<a>> \in Seq(Items) /\ Exprs(1) \in Seq(Items)
        BY <1>12, OneIs, ExprsAre
      <4> QED BY <3>1, <4>1, ConcatIs
    <3>3. PICK E : Flat(slips', u, E, d, n, g) /\ Chain(u, E, p + Gap(a), p - 1)
      <4>1. p \in Int /\ 1 \in Nat
        OBVIOUS
      <4> QED BY <1>12, <1>15, <3>1, <4>1, ManyItems
    <3>4. p + Gap(a) = 0 /\ p - 1 = 1
      BY <1>14, <3>1
    <3> QED BY <3>2, <3>3, <3>4
  <2>3. CASE vt = "call"
    <3>1. PICK v : v = <<b>> \o Exprs(args)
      OBVIOUS
    <3>2. u = <<a>> \o v /\ p = 0
      BY <1>4, <1>5, <1>14, <2>3, <3>1 DEF Parts
    <3>3. PICK e \in Nat : e = args + 1
      OBVIOUS
    <3>4. b \in Items /\ b.do = "apply" /\ Gap(b) = 0 - e /\ b.n = e
      <4>1. b = [do |-> "apply", at |-> 0, outs |-> <<>>, n |-> e, vt |-> "none"]
        BY <1>2, <3>3 DEF Item
      <4>2. b \in Items
        BY <4>1 DEF Items, Doings, Where, Kinds
      <4>3. b.do = "apply" /\ b.at = 0 /\ b.n = e
        BY <4>1
      <4> QED BY <4>2, <4>3 DEF Gap
    <3>5. Lies(slips', b, e, d, n, g)
      BY <3>4 DEF Lies, Nested, Fed, Inner, Deep
    <3>6. PICK E : Flat(slips', v, E, d, n, g) /\ Chain(v, E, e + Gap(b), e - args)
      <4>1. e \in Int /\ args \in Nat
        OBVIOUS
      <4> QED BY <3>1, <3>4, <3>5, <4>1, ManyItems
    <3>7. e + Gap(b) = p /\ e - args = 1 /\ p + Gap(a) = 0
      BY <1>14, <3>2, <3>3, <3>4
    <3>8. v \in Seq(Items) /\ Exprs(args) \in Seq(Items) /\ <<b>> \in Seq(Items) /\ <<a>> \in Seq(Items)
      <4>1. <<b>> \in Seq(Items) /\ Exprs(args) \in Seq(Items) /\ <<a>> \in Seq(Items)
        BY <1>12, <3>4, OneIs, ExprsAre
      <4> QED BY <3>1, <4>1, ConcatIs
    <3>9. IsConcat(<<a>>, v, u)
      BY <3>2, <3>8, JoinIs
    <3>10. Len(v) \in Nat /\ Len(u) = Len(v) + 1 /\ u[1] = a /\ (\A q \in 1 .. Len(v) : u[q + 1] = v[q])
           /\ u \in Seq(Items)
      <4>1. Len(<<a>>) = 1 /\ <<a>>[1] = a /\ 1 \in 1 .. 1 /\ Len(v) \in Nat
        BY <3>8
      <4>2. /\ u \in Seq(Items) /\ Len(u) = 1 + Len(v) /\ u[1] = a
            /\ \A q \in 1 .. Len(v) : u[1 + q] = v[q]
        BY <3>9, <4>1 DEF IsConcat
      <4>3. \A q \in 1 .. Len(v) : 1 + q = q + 1
        OBVIOUS
      <4> QED BY <4>1, <4>2, <4>3
    <3>11. PICK F : (Flat(slips', v, E, d, n, g) => Flat(slips', u, F, d, n, g))
                    /\ (Chain(v, E, p, 1) => Chain(u, F, p + Gap(a), 1))
      <4>1. Lies(slips', a, p, d, n, g)
        BY <1>15
      <4>2. Ahead(a, v, u)
        BY <3>10 DEF Ahead
      <4> QED BY <4>1, <4>2, ItemAhead
    <3>12. Flat(slips', u, F, d, n, g) /\ Chain(u, F, 0, 1)
      BY <3>6, <3>7, <3>11
    <3> QED BY <3>10, <3>12
  <2> QED BY <2>1, <2>2, <2>3
<1>17. PICK E : Flat(slips', u, E, d, n, g) /\ Chain(u, E, 0, 1)
  BY <1>16
<1>18. /\ Flat(slips', u, E, d, NestOf(Blk), loops[Len(loops)])
       /\ (slips' = {} => Chain(u, E, Blk.h + Gap(It), d.h)) /\ (slips' = {} => FedFrom(Blk, d))
  BY <1>8, <1>11, <1>17 DEF Stood
<1>19. Settles(slips', d, NestOf(Blk), {})
  BY SettlesNowhere
<1> QED BY <1>6, <1>7, <1>10, <1>16, <1>18, <1>19, GoGoes

\* What is patched lands behind the code, where it should if what was held there was held so.
HeldIn(c, P, leaves, n) ==
    \A i \in P : i \in 1 .. Len(c.inst) =>
        IF leaves THEN PreBut(c.inst[i].nest, n) ELSE Pre(c.inst[i].nest, n)
HeldOn(c, P, op) ==
    \A i \in P :
        \/ op = "jmp" /\ Was(c, i, c.h, 0, 0)
        \/ op \in {"jnt", "jnn"} /\ Was(c, i, c.h, 1, 0)
        \/ op = "jne" /\ Was(c, i, c.h + 1, 1, 0)
        \/ op = "foreach" /\ Was(c, i, c.h + 1, 1, 1)

LEMMA PatchedSettles ==
    ASSUME NEW c, NEW d, NEW P, NEW op, NEW leaves \in BOOLEAN, Patches(c, P, op, leaves, d), NEW z, NEW n,
           "outer" \notin z => HeldIn(c, P, leaves, n), z = {} => HeldOn(c, P, op)
    PROVE  Settles(z, d, n, P)
<1>1. Len(d.inst) = Len(c.inst)
  BY DEF Patches
<1>2. ASSUME "outer" \notin z, Short(d.inst), NEW i \in 1 .. Len(d.inst), i \in P
      PROVE  LandsIn(d.inst, n, i)
  <2>1. Short(c.inst) /\ i \in 1 .. Len(c.inst)
    BY <1>1, <1>2 DEF Short
  <2>2. IF leaves THEN PreBut(c.inst[i].nest, n) ELSE Pre(c.inst[i].nest, n)
    BY <1>2, <2>1 DEF HeldIn
  <2>3. (leaves = FALSE /\ Pre(c.inst[i].nest, n)) \/ (leaves = TRUE /\ PreBut(c.inst[i].nest, n))
    BY <2>2
  <2> QED BY <1>2, <2>1, <2>3, PatchedLands
<1>3. ASSUME z = {}, Short(d.inst), NEW i \in 1 .. Len(d.inst), i \in P
      PROVE  LandsOn(d.inst, d.h, i)
  <2>1. Short(c.inst) /\ i \in 1 .. Len(c.inst)
    BY <1>1, <1>3 DEF Short
  <2>2. \/ op = "jmp" /\ Was(c, i, c.h, 0, 0)
        \/ op \in {"jnt", "jnn"} /\ Was(c, i, c.h, 1, 0)
        \/ op = "jne" /\ Was(c, i, c.h + 1, 1, 0)
        \/ op = "foreach" /\ Was(c, i, c.h + 1, 1, 1)
    BY <1>3 DEF HeldOn
  <2>3. /\ op = "jmp" /\ c.inst[i].h = c.h => LandsOn(d.inst, d.h, i)
        /\ (op \in {"jnt", "jnn"} /\ Was(c, i, c.h, 1, 0)) => LandsOn(d.inst, d.h, i)
        /\ (op = "jne" /\ Was(c, i, c.h + 1, 1, 0)) => LandsOn(d.inst, d.h, i)
        /\ (op = "foreach" /\ Was(c, i, c.h + 1, 1, 1)) => LandsOn(d.inst, d.h, i)
    BY <1>3, <2>1, PatchedLands
  <2>4. op = "jmp" /\ Was(c, i, c.h, 0, 0) => LandsOn(d.inst, d.h, i)
    BY <2>3 DEF Was
  <2> QED BY <2>2, <2>3, <2>4
<1> QED BY <1>2, <1>3 DEF Settles

\* What has landed in c has landed in what comes of it.
LEMMA SettlesOn ==
    ASSUME NEW c, NEW d, NEW n, NEW P, NEW Q, Moves(c, d, n, Q), NEW z,
           Settles(z, c, n, P), Settles(z, d, n, Q)
    PROVE  Settles(z, d, n, P \cup Q)
<1>1. PICK a \in Nat, b \in Nat : a = Len(c.inst) /\ b = Len(d.inst) /\ a <= b
  BY DEF Moves
<1>2. Short(d.inst) => Short(c.inst)
  BY <1>1, CodeAssumption DEF Short
<1>3. ASSUME NEW i \in 1 .. b, i \notin Q, d.inst[i].op \in Turns
      PROVE  /\ i \in 1 .. a /\ c.inst[i].op = d.inst[i].op /\ c.inst[i].to = d.inst[i].to
             /\ c.inst[i].leaves = d.inst[i].leaves /\ c.inst[i].nest = d.inst[i].nest
             /\ d.inst[i].h = c.inst[i].h /\ d.inst[i].takes = c.inst[i].takes /\ d.inst[i].gives = c.inst[i].gives
  BY <1>1, <1>3 DEF Moves
<1>4. \A p \in 1 .. a + 1 : /\ p \in 1 .. b + 1
                            /\ HAt(d.inst, d.h, p) = HAt(c.inst, c.h, p)
                            /\ NAt(d.inst, n, p) = NAt(c.inst, n, p)
  BY <1>1, MovesAt
<1>5. ASSUME "outer" \notin z, Short(d.inst), NEW i \in 1 .. b, i \in P, i \notin Q, d.inst[i].op \in Jumps
      PROVE  LandsIn(d.inst, n, i)
  <2>1. d.inst[i].op \in Turns
    BY <1>5 DEF Turns
  <2>2. LandsIn(c.inst, n, i)
    BY <1>1, <1>2, <1>3, <1>5, <2>1 DEF Settles
  <2> QED BY <1>1, <1>3, <1>4, <1>5, <2>1, <2>2 DEF LandsIn
<1>6. ASSUME z = {}, Short(d.inst), NEW i \in 1 .. b, i \in P, i \notin Q, d.inst[i].op \in Turns
      PROVE  LandsOn(d.inst, d.h, i)
  <2>1. LandsOn(c.inst, c.h, i)
    BY <1>1, <1>2, <1>3, <1>6 DEF Settles
  <2>2. c.inst[i].op \in Jumps => HAt(d.inst, d.h, c.inst[i].to) = HAt(c.inst, c.h, c.inst[i].to)
                                  /\ c.inst[i].to \in 1 .. b + 1
    BY <1>1, <1>4, <2>1 DEF LandsOn
  <2> QED BY <1>1, <1>3, <1>6, <2>1, <2>2 DEF LandsOn, Jumps
<1>7. ASSUME "outer" \notin z, Short(d.inst), NEW i \in 1 .. b, i \in P \cup Q, d.inst[i].op \in Jumps
      PROVE  LandsIn(d.inst, n, i)
  <2>1. CASE i \in Q
    BY <1>1, <1>7, <2>1 DEF Settles
  <2> QED BY <1>5, <1>7, <2>1
<1>8. ASSUME z = {}, Short(d.inst), NEW i \in 1 .. b, i \in P \cup Q, d.inst[i].op \in Turns
      PROVE  LandsOn(d.inst, d.h, i)
  <2>1. CASE i \in Q
    BY <1>1, <1>8, <2>1 DEF Settles
  <2> QED BY <1>6, <1>8, <2>1
<1> QED BY <1>1, <1>7, <1>8 DEF Settles

\* What is in the loops n is in them.
LEMMA PreSelf == ASSUME NEW n PROVE Pre(n, n)
BY DEF Pre

LEMMA CondGone == ASSUME GInv, NEW D, Going(todo, chunks, loops, slips, D), Cond PROVE Gone
<1>1. PICK a : a = [It EXCEPT !.do = "branch", !.at = Pos(Blk)]
  OBVIOUS
<1>2. PICK b : b = Item("block")
  OBVIOUS
<1>3. PICK d : d = Hold(Blk, 1, 0)
  OBVIOUS
<1>4. /\ todo # <<>> /\ It.do = "cond" /\ UNCHANGED <<loops, slips>> /\ Go(<<a, b>>)
      /\ InBlk(d) /\ More(slips, slips') /\ d = Coded(Blk, "panic", 1, 0, 0)
  BY <1>1, <1>2, <1>3 DEF Cond, Parsing, It, Neutral, More, Hold
<1>5. It.do \notin Deep /\ It.do # "block" /\ Gap(It) = -1 /\ Want(It) = 1
  BY <1>4, GapIs DEF Deep
<1>6. PICK n, g : Stood(n, g)
  BY <1>4, <1>5, StoodSo
<1>7. slips' = {} => Blk.h = 1
  BY <1>4, <1>5, <1>6 DEF Stood, Lies, Fed, Inner
<1>8. Has(d, Pos(Blk), n) /\ Was(d, Pos(Blk), Blk.h, 1, 0) /\ Pos(Blk) \in Nat /\ Moves(Blk, d, n, {})
  <2>1. Adds(Blk, 1, 0, "panic", d)
    BY <1>4, <1>6, AddsSo DEF Stood
  <2> QED BY <1>6, <2>1 DEF Adds, Stood
<1>9. a \in Items /\ a.do = "branch" /\ a.at = Pos(Blk) /\ a.outs = It.outs /\ b \in Items /\ b.do = "block"
  <2>1. IsItem(a, "branch", Pos(Blk), It.outs, It.vt)
    <3>1. It \in Items
      BY <1>6 DEF Stood
    <3> QED BY ZenonT(60), <1>1, <1>8, <3>1, SetItem DEF Doings
  <2> QED BY <1>2, <2>1, ItemIs DEF IsItem, Doings
<1>10. Gap(a) = 0 /\ Gap(b) = 0 /\ Want(a) = 0 /\ Want(b) = 0
  BY <1>9, GapIs
<1>11. Lies(slips, It, Blk.h, Blk, n, g)
  BY <1>6 DEF Stood
<1>12. Lies(slips', a, 0, d, n, g)
  <2>1. \A o \in Range(a.outs) : It.do # "block" /\ o \in Range(It.outs)
    BY <1>5, <1>9
  <2>2. Has(d, a.at, n) /\ (slips' = {} => Was(d, a.at, 1, 1, 0))
    BY <1>7, <1>8, <1>9
  <2>3. Holding(slips', It, a, d, n)
    BY <2>1, <2>2 DEF Holding
  <2> QED BY <1>4, <1>8, <1>9, <1>10, <1>11, <2>3, IfLies
<1>13. Lies(slips', b, 0, d, n, g)
  <2>1. Holding(slips', It, b, d, n)
    BY <1>9 DEF Holding
  <2> QED BY <1>4, <1>8, <1>9, <1>10, <1>11, <2>1, IfLies
<1>14. PICK u : u = <<a, b>>
  OBVIOUS
<1>15. u \in Seq(Items) /\ Len(u) = 2 /\ u[1] = a /\ u[2] = b
  BY <1>9, <1>14
<1>16. 0 = 0 + Gap(b) /\ 0 + Gap(a) = 0
  BY <1>10
<1>17. Flat(slips', u, <<0, 0>>, d, n, g) /\ Chain(u, <<0, 0>>, 0 + Gap(a), 0)
  BY <1>12, <1>13, <1>15, <1>16, TwoItems
<1>18. slips' = {} => 0 = Blk.h + Gap(It) /\ Blk.h - 1 + 0 = 0 /\ 1 <= Blk.h
  BY <1>5, <1>7
<1>19. /\ Flat(slips', u, <<0, 0>>, d, NestOf(Blk), loops[Len(loops)])
       /\ (slips' = {} => 1 <= Blk.h /\ Chain(u, <<0, 0>>, Blk.h + Gap(It), Blk.h - 1 + 0))
  BY <1>6, <1>16, <1>17, <1>18 DEF Stood
<1>20. Go(u)
  BY <1>4, <1>14
<1> QED BY <1>4, <1>5, <1>15, <1>19, <1>20, EmitGone

\* What is held at the end of a branch, and where its condition goes on.
LEMMA BranchedMoves ==
    ASSUME GInv, Parsing("branch"), NEW n, NEW g, Stood(n, g), More(slips, slips')
    PROVE  /\ Moves(Blk, Branched, n, {It.at}) /\ Branched \in Chunks
           /\ Settles(slips', Branched, n, {It.at})
           /\ Has(Branched, Pos(Blk), n)
           /\ slips' = {} => /\ FedFrom(Blk, Branched) /\ Branched.h = 0 /\ Blk.h = 0
                             /\ Was(Branched, Pos(Blk), 0, 0, 0)
<1>1. PICK e : e = Hold(Blk, 0, 0)
  OBVIOUS
<1>2. PICK d : d = Patched(e, {It.at}, "jne", FALSE)
  OBVIOUS
<1>3. d = Branched /\ It.do = "branch"
  BY <1>1, <1>2 DEF Branched, Parsing, It
<1>4. /\ Moves(Blk, e, n, {}) /\ e \in Chunks /\ e.h = Blk.h - 0 + 0 /\ Has(e, Pos(Blk), n)
      /\ Was(e, Pos(Blk), Blk.h, 0, 0) /\ (0 <= Blk.h => FedFrom(Blk, e))
  <2>1. Adds(Blk, 0, 0, "panic", e)
    BY <1>1, HoldMoves DEF Stood
  <2> QED BY <2>1 DEF Adds, Stood
<1>5. Patches(e, {It.at}, "jne", FALSE, d)
  <2>1. "jne" \in Jumps
    BY DEF Jumps
  <2> QED BY <1>2, <1>4, <2>1, PatchedIs
<1>6. Moves(e, d, n, {It.at}) /\ FedFrom(e, d)
  BY <1>5, PatchedMoves
<1>7. d \in Chunks /\ d.h = e.h
  BY <1>5 DEF Patches
<1>8. Moves(Blk, d, n, {It.at}) /\ (0 <= Blk.h => FedFrom(Blk, d))
  <2>1. Moves(Blk, d, n, {} \cup {It.at}) /\ (FedFrom(Blk, e) /\ FedFrom(e, d) => FedFrom(Blk, d))
    BY <1>4, <1>6, MovesOn
  <2>2. {} \cup {It.at} = {It.at}
    OBVIOUS
  <2> QED BY <1>4, <1>6, <2>1, <2>2
<1>9. slips' = {} => Blk.h = 0 /\ Was(Blk, It.at, 1, 1, 0)
  BY <1>3, GapIs DEF Stood, Lies, Fed, Inner, More
<1>10. "outer" \notin slips' => Has(Blk, It.at, n)
  BY <1>3 DEF Stood, Lies, Nested, More
<1>11. \A i : /\ Has(Blk, i, n) => Has(e, i, n)
              /\ Was(Blk, i, 1, 1, 0) => Was(e, i, 1, 1, 0)
  BY <1>4, MovesHas
<1>12. "outer" \notin slips' => HeldIn(e, {It.at}, FALSE, n)
  BY <1>10, <1>11, PreSelf DEF HeldIn, Has
<1>13. slips' = {} => HeldOn(e, {It.at}, "jne")
  <2>1. slips' = {} => e.h + 1 = 1
    BY <1>4, <1>9
  <2> QED BY <1>9, <1>11, <2>1 DEF HeldOn
<1>14. Settles(slips', d, n, {It.at})
  BY <1>5, <1>12, <1>13, PatchedSettles
<1>15. Has(d, Pos(Blk), n) /\ Was(d, Pos(Blk), Blk.h, 0, 0)
  BY <1>4, <1>6, MovesHas
<1>16. slips' = {} => FedFrom(Blk, d) /\ d.h = 0 /\ Blk.h = 0 /\ Was(d, Pos(Blk), 0, 0, 0)
  BY <1>4, <1>7, <1>8, <1>9, <1>15
<1> QED BY <1>3, <1>7, <1>8, <1>14, <1>15, <1>16

\* Another branch: its condition, or its block.
LEMMA BranchGone ==
    ASSUME GInv, NEW D, Going(todo, chunks, loops, slips, D), Parsing("branch"), Neutral, InBlk(Branched),
           NEW do \in {"cond", "else"}, NEW a, IsItem(a, do, It.at, Outs, It.vt),
           NEW b, b = Item(IF do = "cond" THEN "expr" ELSE "block"), Go(<<a, b>>)
    PROVE  Gone
<1>1. PICK d : d = Branched
  OBVIOUS
<1>2. /\ todo # <<>> /\ It.do = "branch" /\ UNCHANGED <<loops, slips>> /\ InBlk(d) /\ More(slips, slips')
  BY <1>1 DEF Parsing, It, Neutral, More
<1>3. It.do \notin Deep /\ It.do # "block" /\ Gap(It) = 0
  BY <1>2, GapIs DEF Deep
<1>4. PICK n, g : Stood(n, g)
  BY <1>2, <1>3, StoodSo
<1>5. /\ Moves(Blk, d, n, {It.at}) /\ d \in Chunks /\ Settles(slips', d, n, {It.at})
      /\ Has(d, Pos(Blk), n)
      /\ slips' = {} => FedFrom(Blk, d) /\ d.h = 0 /\ Blk.h = 0 /\ Was(d, Pos(Blk), 0, 0, 0)
  BY <1>1, <1>2, <1>4, BranchedMoves
<1>6. Outs \in Seq(Nat) /\ Range(Outs) = Range(It.outs) \cup {Pos(Blk)}
  BY BranchedGoes
<1>7. a \in Items /\ a.do = do /\ a.outs = Outs
  BY DEF IsItem
<1>8. b \in Items /\ b.do = (IF do = "cond" THEN "expr" ELSE "block")
  <2>1. (IF do = "cond" THEN "expr" ELSE "block") \in Doings
    BY DEF Doings
  <2> QED BY <2>1, ItemIs
<1>9. PICK e \in Int : e = Want(a) /\ e = 0 + Gap(b) /\ e + Gap(a) = 0
  <2>1. CASE do = "cond"
    <3>1. a.do = "cond" /\ b.do = "expr"
      BY <1>7, <1>8, <2>1
    <3>2. Want(a) = 1 /\ Gap(a) = -1 /\ Gap(b) = 1
      BY <3>1, GapIs
    <3> QED BY <3>2
  <2>2. CASE do = "else"
    <3>1. a.do = "else" /\ b.do = "block"
      BY <1>7, <1>8, <2>2
    <3>2. Want(a) = 0 /\ Gap(a) = 0 /\ Gap(b) = 0
      BY <3>1, GapIs
    <3> QED BY <3>2
  <2> QED BY <2>1, <2>2
<1>10. Lies(slips, It, Blk.h, Blk, n, g)
  BY <1>4 DEF Stood
<1>11. Lies(slips', a, e, d, n, g)
  <2>1. \A o \in Range(a.outs) : \/ It.do # "block" /\ o \in Range(It.outs)
                                 \/ Has(d, o, n) /\ (slips' = {} => Was(d, o, 0, 0, 0))
    BY <1>3, <1>5, <1>6, <1>7
  <2>2. a.do \in {"block", "cond", "branch", "else"} /\ a.do # "branch"
    BY <1>7
  <2>3. It.do \in {"block", "cond", "branch", "else"} /\ More(slips, slips') /\ Moves(Blk, d, n, {It.at})
        /\ e = Want(a)
    BY <1>2, <1>5, <1>9
  <2>4. Holding(slips', It, a, d, n)
    BY <2>1, <2>2 DEF Holding
  <2> QED BY <1>10, <2>2, <2>3, <2>4, IfLies
<1>12. Lies(slips', b, 0, d, n, g)
  <2>1. CASE b.do = "expr"
    BY <2>1 DEF Lies, Nested, Fed, Inner, Deep
  <2>2. CASE b.do = "block"
    <3>1. Want(b) = 0
      BY <2>2, GapIs
    <3>2. Holding(slips', It, b, d, n)
      BY <2>2 DEF Holding
    <3> QED BY <1>2, <1>5, <1>10, <2>2, <3>1, <3>2, IfLies
  <2> QED BY <1>8, <2>1, <2>2
<1>13. PICK u : u = <<a, b>>
  OBVIOUS
<1>14. u \in Seq(Items) /\ Len(u) = 2 /\ u[1] = a /\ u[2] = b
  BY <1>7, <1>8, <1>13
<1>15. Flat(slips', u, <<e, 0>>, d, n, g) /\ Chain(u, <<e, 0>>, e + Gap(a), 0)
  BY <1>9, <1>11, <1>12, <1>14, TwoItems
<1>16. slips' = {} => e + Gap(a) = Blk.h + Gap(It) /\ d.h = 0
  BY <1>3, <1>5, <1>9
<1>17. /\ Flat(slips', u, <<e, 0>>, d, NestOf(Blk), loops[Len(loops)]) /\ n = NestOf(Blk)
       /\ (slips' = {} => Chain(u, <<e, 0>>, Blk.h + Gap(It), d.h))
  BY <1>4, <1>15, <1>16 DEF Stood
<1>18. Go(u)
  BY <1>13
<1> QED BY <1>2, <1>3, <1>5, <1>14, <1>17, <1>18, GoGoes

LEMMA ElifGone == ASSUME GInv, NEW D, Going(todo, chunks, loops, slips, D), Elif PROVE Gone
<1>1. PICK a, b : a = [It EXCEPT !.do = "cond", !.outs = Outs, !.n = @ + 1] /\ b = Item("expr")
  OBVIOUS
<1>2. Parsing("branch") /\ Neutral /\ InBlk(Branched) /\ Go(<<a, b>>)
  BY <1>1 DEF Elif
<1>3. IsItem(a, "cond", It.at, Outs, It.vt)
  <2>1. It \in Items /\ Outs \in Seq(Nat)
    BY <1>2, BranchedGoes
  <2> QED BY ZenonT(60), <1>1, <2>1, SetItem DEF Doings
<1>4. b = Item(IF "cond" = "cond" THEN "expr" ELSE "block")
  BY <1>1
<1> QED BY <1>2, <1>3, <1>4, BranchGone

LEMMA ElseGone == ASSUME GInv, NEW D, Going(todo, chunks, loops, slips, D), Else PROVE Gone
<1>1. PICK a, b : a = [It EXCEPT !.do = "else", !.outs = Outs, !.n = @ + 1] /\ b = Item("block")
  OBVIOUS
<1>2. Parsing("branch") /\ Neutral /\ InBlk(Branched) /\ Go(<<a, b>>)
  BY <1>1 DEF Else
<1>3. IsItem(a, "else", It.at, Outs, It.vt)
  <2>1. It \in Items /\ Outs \in Seq(Nat)
    BY <1>2, BranchedGoes
  <2> QED BY ZenonT(60), <1>1, <2>1, SetItem DEF Doings
<1>4. b = Item(IF "else" = "cond" THEN "expr" ELSE "block")
  BY <1>1
<1> QED BY <1>2, <1>3, <1>4, BranchGone

\* What ends an if patches the jumps held behind its branches.
LEMMA OutsMoves ==
    ASSUME GInv, It.do \in {"branch", "else"}, NEW n, NEW g, Stood(n, g), More(slips, slips'),
           NEW d, d = Patched(Blk, Range(It.outs), "jmp", FALSE)
    PROVE  /\ Moves(Blk, d, n, Range(It.outs)) /\ FedFrom(Blk, d) /\ d \in Chunks /\ d.h = Blk.h
           /\ Settles(slips', d, n, Range(It.outs))
<1>1. Patches(Blk, Range(It.outs), "jmp", FALSE, d)
  <2>1. "jmp" \in Jumps
    BY DEF Jumps
  <2> QED BY <2>1, PatchedIs DEF Stood
<1>2. Moves(Blk, d, n, Range(It.outs)) /\ FedFrom(Blk, d)
  BY <1>1, PatchedMoves
<1>3. d \in Chunks /\ d.h = Blk.h
  BY <1>1 DEF Patches
<1>4. "outer" \notin slips' => HeldIn(Blk, Range(It.outs), FALSE, n)
  <2>1. "outer" \notin slips' => \A o \in Range(It.outs) : Has(Blk, o, n)
    BY DEF Stood, Lies, Nested, More
  <2> QED BY <2>1, PreSelf DEF HeldIn, Has
<1>5. slips' = {} => HeldOn(Blk, Range(It.outs), "jmp")
  <2>1. slips' = {} => Blk.h = 0 /\ \A o \in Range(It.outs) : Was(Blk, o, 0, 0, 0)
    BY GapIs DEF Stood, Lies, Fed, Inner, More
  <2> QED BY <2>1 DEF HeldOn
<1>6. Settles(slips', d, n, Range(It.outs))
  BY <1>1, <1>4, <1>5, PatchedSettles
<1> QED BY <1>2, <1>3, <1>6

LEMMA EndElseGone == ASSUME GInv, NEW D, Going(todo, chunks, loops, slips, D), EndElse PROVE Gone
<1>1. PICK d : d = Patched(Blk, Range(It.outs), "jmp", FALSE)
  OBVIOUS
<1>2. /\ todo # <<>> /\ It.do = "else" /\ UNCHANGED <<loops, slips>> /\ Go(<<>>) /\ InBlk(d) /\ More(slips, slips')
  BY <1>1 DEF EndElse, Parsing, It, Neutral, More
<1>3. It.do \notin Deep /\ It.do # "block" /\ Gap(It) = 0
  BY <1>2, GapIs DEF Deep
<1>4. PICK n, g : Stood(n, g)
  BY <1>2, <1>3, StoodSo
<1>5. /\ Moves(Blk, d, n, Range(It.outs)) /\ FedFrom(Blk, d) /\ d \in Chunks /\ d.h = Blk.h
      /\ Settles(slips', d, n, Range(It.outs))
  BY <1>1, <1>2, <1>4, OutsMoves
<1>6. Blk.h + Gap(It) = d.h /\ n = NestOf(Blk)
  BY <1>3, <1>4, <1>5 DEF Stood
<1> QED BY <1>2, <1>3, <1>5, <1>6, PatchGone

LEMMA EndIfGone == ASSUME GInv, NEW D, Going(todo, chunks, loops, slips, D), EndIf PROVE Gone
<1>1. PICK c : c = Patched(Blk, Range(It.outs), "jmp", FALSE)
  OBVIOUS
<1>2. PICK e : e = Patched(c, {It.at}, "jne", FALSE)
  OBVIOUS
<1>3. /\ todo # <<>> /\ It.do = "branch" /\ UNCHANGED loops /\ Go(<<>>) /\ InBlk(IF It.n = 0 THEN e ELSE c)
      /\ slips' = (IF It.n > 0 THEN slips \cup {"elif"} ELSE slips) /\ More(slips, slips')
  BY <1>1, <1>2 DEF EndIf, Parsing, It, More
<1>4. It.do \notin Deep /\ It.do # "block" /\ Gap(It) = 0
  BY <1>3, GapIs DEF Deep
<1>5. PICK n, g : Stood(n, g)
  BY <1>3, <1>4, StoodSo
<1>6. /\ Moves(Blk, c, n, Range(It.outs)) /\ FedFrom(Blk, c) /\ c \in Chunks /\ c.h = Blk.h
      /\ Settles(slips', c, n, Range(It.outs))
  BY <1>1, <1>3, <1>5, OutsMoves
<1>7. Blk.h + Gap(It) = Blk.h /\ n = NestOf(Blk) /\ It.n \in Nat
  BY <1>4, <1>5 DEF Stood, Items
<1>8. CASE It.n # 0
  BY <1>3, <1>4, <1>6, <1>7, <1>8, PatchGone
<1>9. CASE It.n = 0
  <2>1. Patches(c, {It.at}, "jne", FALSE, e)
    <3>1. "jne" \in Jumps
      BY DEF Jumps
    <3> QED BY <1>2, <1>6, <3>1, PatchedIs
  <2>2. Moves(c, e, n, {It.at}) /\ FedFrom(c, e)
    BY <2>1, PatchedMoves
  <2>3. e \in Chunks /\ e.h = c.h
    BY <2>1 DEF Patches
  <2>4. "outer" \notin slips' => HeldIn(c, {It.at}, FALSE, n)
    <3>1. "outer" \notin slips' => Has(Blk, It.at, n)
      BY <1>3, <1>5 DEF Stood, Lies, Nested, More
    <3>2. Has(Blk, It.at, n) => Has(c, It.at, n)
      BY <1>6, MovesHas
    <3> QED BY <3>1, <3>2, PreSelf DEF HeldIn, Has
  <2>5. slips' = {} => HeldOn(c, {It.at}, "jne")
    <3>1. slips' = {} => Blk.h = 0 /\ Was(Blk, It.at, 1, 1, 0)
      BY <1>3, <1>5, GapIs DEF Stood, Lies, Fed, Inner, More
    <3>2. Was(Blk, It.at, 1, 1, 0) => Was(c, It.at, 1, 1, 0)
      BY <1>6, MovesHas
    <3>3. slips' = {} => c.h + 1 = 1
      BY <1>6, <3>1
    <3> QED BY <3>1, <3>2, <3>3 DEF HeldOn
  <2>6. Settles(slips', e, n, {It.at})
    BY <2>1, <2>4, <2>5, PatchedSettles
  <2>7. Settles(slips', e, n, Range(It.outs) \cup {It.at})
    BY <1>6, <2>2, <2>6, SettlesOn
  <2>8. Moves(Blk, e, n, Range(It.outs) \cup {It.at}) /\ FedFrom(Blk, e)
    BY <1>6, <2>2, MovesOn
  <2>9. InBlk(e) /\ Blk.h + Gap(It) = e.h
    BY <1>3, <1>6, <1>7, <1>9, <2>3
  <2> QED BY <1>3, <1>4, <1>7, <2>3, <2>7, <2>8, <2>9, PatchGone
<1> QED BY <1>8, <1>9

\* A jump goes back to where the loop l says.
LEMMA JumpSettles ==
    ASSUME NEW c, NEW to \in Nat, NEW n, NEW d, Codes(c, "jmp", 0, 0, to, n, d),
           NEW l, Short(d.inst) => to = l.retry,
           NEW z, "outer" \notin z => RetryIn(c, n, l), z = {} => RetryOn(c, l) /\ c.h = 0, NEW m
    PROVE  Settles(z, d, m, {Pos(c)})
<1>1. PICK a \in Nat, p \in Nat : a = Len(c.inst) /\ p = Pos(c) /\ p = a + 1
  BY DEF Codes, Moves
<1>2. /\ Len(d.inst) = p /\ d.inst[p].op = "jmp" /\ d.inst[p].h = c.h /\ d.inst[p].nest = n
      /\ d.inst[p].to = to /\ d.inst[p].leaves = FALSE
  BY <1>1 DEF Codes
<1>3. \A i \in 1 .. a : d.inst[i].nest = c.inst[i].nest
  BY <1>1 DEF Codes, Moves
<1>4. ASSUME "outer" \notin z, Short(d.inst) PROVE LandsIn(d.inst, m, p)
  <2>1. to = l.retry /\ to \in 1 .. p
    BY <1>1, <1>4 DEF RetryIn
  <2>2. NAt(d.inst, m, to) = d.inst[to].nest
    BY <1>2, <2>1 DEF NAt
  <2>3. Pre(n, d.inst[to].nest)
    <3>1. CASE to = p
      BY <1>2, <3>1, PreSelf
    <3>2. CASE to \in 1 .. a
      BY <1>1, <1>3, <1>4, <2>1, <3>2 DEF RetryIn
    <3> QED BY <1>1, <2>1, <3>1, <3>2
  <2>4. to \in 1 .. Len(d.inst) + 1
    BY <1>2, <2>1
  <2> QED BY <1>2, <2>2, <2>3, <2>4 DEF LandsIn
<1>5. ASSUME z = {}, Short(d.inst) PROVE LandsOn(d.inst, d.h, p)
  <2>1. to = l.retry /\ to \in 1 .. a + 1 /\ HAt(c.inst, c.h, to) = 0 /\ c.h = 0
    BY <1>1, <1>5 DEF RetryOn
  <2>2. HAt(d.inst, d.h, to) = HAt(c.inst, c.h, to)
    BY <1>1, <2>1, MovesAt DEF Codes
  <2>3. to \in 1 .. Len(d.inst) + 1
    BY <1>1, <1>2, <2>1
  <2> QED BY <1>2, <2>1, <2>2, <2>3 DEF LandsOn
<1> QED BY <1>1, <1>4, <1>5 DEF Settles

\* In a loop of its own.
LEMMA OwnNest ==
    ASSUME loops \in Seq(LoopInfos), NEW c \in Chunks, Own(c) # <<>>
    PROVE  Len(NestOf(c)) # 0
<1>1. PICK o : o = Own(c)
  OBVIOUS
<1>2. o \in Seq(LoopInfos)
  BY SMTT(60), <1>1 DEF Own, Chunks
<1>3. Len(o) \in Nat \ {0} /\ DOMAIN o = 1 .. Len(o)
  BY <1>1, <1>2
<1>4. PICK m \in Nat \ {0} : m = Len(o)
  BY <1>3
<1>5. NestOf(c) = [i \in 1 .. m |-> o[i].id]
  BY <1>1, <1>3, <1>4 DEF NestOf
<1>6. Len([i \in 1 .. m |-> o[i].id]) = m
  OBVIOUS
<1> QED BY <1>4, <1>5, <1>6

LEMMA ContinueGone == ASSUME GInv, NEW D, Going(todo, chunks, loops, slips, D), Continue PROVE Gone
<1>1. PICK d : d = JumpBack(Blk, Last(loops).retry)
  OBVIOUS
<1>2. /\ todo # <<>> /\ It.do = "block" /\ UNCHANGED <<loops, todo>> /\ InBlk(d) /\ loops # <<>>
      /\ slips' = (IF Own(Blk) = <<>> THEN slips \cup {"outer"} ELSE slips) /\ More(slips, slips')
      /\ Last(loops).retry <= Pos(Blk)
  BY <1>1 DEF Continue, Parsing, It, Slipped, More
<1>3. It.do \notin Deep /\ Gap(It) = 0 /\ Want(It) = 0
  BY <1>2, GapIs DEF Deep
<1>4. PICK n, g : Stood(n, g)
  BY <1>2, <1>3, StoodSo
<1>5. g = Last(loops) /\ g.retry \in 0 .. Pos(Blk)
  <2>1. g = Last(loops)
    BY <1>2, <1>4 DEF Stood, Last
  <2>2. g \in LoopInfos
    BY <1>2, <1>4, <2>1, FrontOf DEF Stood
  <2>3. Pos(Blk) \in Nat /\ g.retry \in Nat
    BY <1>4, <2>2 DEF Stood, LoopInfos, Where
  <2> QED BY <1>2, <2>1, <2>3
<1>6. PICK to \in Nat : Codes(Blk, "jmp", 0, 0, to, n, d) /\ (Short(d.inst) => to = g.retry)
  BY SMTT(60), <1>1, <1>4, <1>5, JumpBackMoves DEF Stood
<1>7. /\ Moves(Blk, d, n, {Pos(Blk)}) /\ d.h = Blk.h /\ d \in Chunks /\ (0 <= Blk.h => FedFrom(Blk, d))
  BY <1>4, <1>6 DEF Codes, Turns, Jumps, Moves, Stood
<1>8. Lies(slips, It, Blk.h, Blk, n, g)
  BY <1>4 DEF Stood
<1>9. "outer" \notin slips' => Len(n) # 0 /\ "outer" \notin slips
  BY <1>2, <1>4, OwnNest DEF Stood
<1>10. "outer" \notin slips' => RetryIn(Blk, n, g)
  BY <1>2, <1>8, <1>9 DEF Lies, Nested
<1>11. slips' = {} => Len(n) # 0 /\ slips = {} /\ Blk.h = 0
  <2>1. slips' = {} => slips = {}
    BY <1>2 DEF More
  <2>2. slips = {} => Blk.h = 0
    BY <1>2, <1>3, <1>8 DEF Lies, Fed, Inner
  <2> QED BY <1>9, <2>1, <2>2
<1>12. slips' = {} => RetryOn(Blk, g) /\ Blk.h = 0
  BY <1>2, <1>8, <1>11 DEF Lies, Fed
<1>13. Settles(slips', d, n, {Pos(Blk)})
  BY <1>6, <1>10, <1>12, JumpSettles
<1>14. Lies(slips', It, Blk.h, d, n, g)
  <2>1. Holding(slips', It, It, d, n)
    BY <1>2 DEF Holding
  <2>2. slips' = {} => Blk.h = Want(It)
    BY <1>3, <1>11
  <2> QED BY <1>2, <1>7, <1>8, <2>1, <2>2, IfLies
<1>15. PICK u : u = <<It>>
  OBVIOUS
<1>16. u \in Seq(Items) /\ Len(u) = 1 /\ u[1] = It /\ u # <<>>
  BY <1>4, <1>15 DEF Stood
<1>17. IsReplaced(Items, todo, u, todo')
  <2>1. todo \in Seq(Items)
    BY DEF GInv
  <2> QED BY <1>2, <1>15, <1>16, <2>1, FrontOf DEF IsReplaced, It
<1>18. IsTopped(Chunks, chunks, d, chunks')
  BY <1>2, <1>4, <1>7, InBlkIs DEF Stood
<1>19. Flat(slips', u, <<Blk.h>>, d, n, g) /\ Chain(u, <<Blk.h>>, Blk.h + Gap(It), Blk.h)
  BY <1>14, <1>16, OneItem
<1>20. /\ Flat(slips', u, <<Blk.h>>, d, NestOf(Blk), loops[Len(loops)])
       /\ Chain(u, <<Blk.h>>, Blk.h + Gap(It), d.h) /\ n = NestOf(Blk) /\ (slips' = {} => FedFrom(Blk, d))
  BY <1>4, <1>7, <1>11, <1>19 DEF Stood
<1>21. \E F : Going(todo', chunks', loops, slips', F)
  BY <1>2, <1>3, <1>7, <1>13, <1>16, <1>17, <1>18, <1>20, PlainGoes
<1> QED BY <1>2, <1>21 DEF Gone

-----------------------------------------------------------------------------
(* break: the innermost loop has one jump more to patch *)

\* The item of the innermost loop writes into the innermost function, when that has one.
LEMMA ItsLoop ==
    ASSUME NEW t \in Seq(Items), NEW ch \in Seq(Chunks), NEW lp \in Seq(LoopInfos), Aligned(t, ch, lp),
           t[Len(t)].do = "block", ch[Len(ch)].outer < Len(lp),
           NEW j \in 1 .. Len(t), t[j].do \in {"loop", "iter"}, Around(t, j) + 1 = Len(lp)
    PROVE  Level(t, j) = Len(ch)
<1>1. PICK i \in 1 .. Len(t) :
         t[i].do \in {"loop", "iter"} /\ Around(t, i) + 1 = Len(lp) /\ Level(t, i) = Len(ch)
  BY OwnLoop
<1>2. Len(t) \in Nat /\ i \in Nat \ {0} /\ j \in Nat \ {0} /\ i + 1 \in Nat /\ j + 1 \in Nat
      /\ i \in Nat /\ j \in Nat /\ Len(lp) \in Nat
  OBVIOUS
<1>3. /\ Opens(t, i + 1, {"loop", "iter"}) = Opens(t, i, {"loop", "iter"}) + 1
      /\ Opens(t, j + 1, {"loop", "iter"}) = Opens(t, j, {"loop", "iter"}) + 1
  BY <1>1, <1>2, OpensNext
<1>4. Opens(t, i, {"loop", "iter"}) \in Nat /\ Opens(t, j, {"loop", "iter"}) \in Nat
  BY <1>2, ThoseFinite
<1>5. ~ (i + 1 <= j)
  <2>1. i + 1 <= j => Opens(t, i + 1, {"loop", "iter"}) <= Opens(t, j, {"loop", "iter"})
    BY <1>2, OpensGrows
  <2> QED BY SMTT(60), <1>1, <1>2, <1>3, <1>4, <2>1 DEF Around
<1>6. ~ (j + 1 <= i)
  <2>1. j + 1 <= i => Opens(t, j + 1, {"loop", "iter"}) <= Opens(t, i, {"loop", "iter"})
    BY <1>2, OpensGrows
  <2> QED BY SMTT(60), <1>1, <1>2, <1>3, <1>4, <2>1 DEF Around
<1>7. i = j
  BY <1>2, <1>5, <1>6
<1> QED BY <1>1, <1>7

\* The loop k is l and patches S too.
Wider(l, k, S) ==
    /\ k.id = l.id /\ k.retry = l.retry /\ k.jcond = l.jcond /\ k.death = l.death
    /\ Range(k.breaks) = Range(l.breaks) \cup S

LEMMA StaysWide ==
    ASSUME NEW z, NEW it, NEW k, NEW c, NEW n, NEW l, NEW g, NEW a, NEW b, NEW S, Stays(z, it, k, c, n, l, g),
           it.do \in {"loop", "iter"} =>
              /\ Wider(l, a, S)
              /\ \A o \in S : /\ "outer" \notin z => Has(c, o, Append(n, l.id))
                              /\ z = {} => Was(c, o, 0, 0, 0),
           Len(n) # 0 => b.retry = g.retry
    PROVE  Stays(z, it, k, c, n, a, b)
<1>1. ASSUME "outer" \notin z PROVE Nested(it, c, n, a, b)
  <2>1. Nested(it, c, n, l, g)
    BY <1>1 DEF Stays
  <2>2. it.do \in {"block", "cond", "branch", "else"} /\ Len(n) # 0 => RetryIn(c, n, b)
    BY <2>1 DEF Nested, RetryIn
  <2>3. it.do \in {"loop", "iter"} => \A o \in Range(a.breaks) : Has(c, o, Append(n, a.id))
    BY <1>1, <2>1 DEF Nested, Wider
  <2>4. it.do = "loop" => (a.death \/ Has(c, a.jcond, Append(n, a.id))) /\ RetryIn(c, Append(n, a.id), a)
    BY <2>1 DEF Nested, Wider, RetryIn
  <2> QED BY <2>1, <2>2, <2>3, <2>4 DEF Nested
<1>2. ASSUME z = {} PROVE Fed(it, k, c, n, a, b)
  <2>1. Fed(it, k, c, n, l, g)
    BY <1>2 DEF Stays
  <2>2. it.do \in {"block", "cond", "branch", "else"} /\ Len(n) # 0 => RetryOn(c, b)
    BY <2>1 DEF Fed, RetryOn
  <2>3. it.do \in {"loop", "iter"} => \A o \in Range(a.breaks) : Was(c, o, 0, 0, 0)
    BY <1>2, <2>1 DEF Fed, Wider
  <2>4. it.do = "loop" => (a.death \/ Was(c, a.jcond, 1, 1, 1)) /\ RetryOn(c, a)
    BY <2>1 DEF Fed, Wider, RetryOn
  <2> QED BY <2>1, <2>2, <2>3, <2>4 DEF Fed
<1> QED BY <1>1, <1>2 DEF Stays

\* The last of the loops patches S too.
LEMMA WidenGoes ==
    ASSUME NEW t \in Seq(Items), NEW h \in Seq(Chunks), NEW lp \in Seq(LoopInfos), Aligned(t, h, lp),
           NEW z, NEW F, Going(t, h, lp, z, F),
           NEW A \in Nat \ {0}, A = Len(lp), NEW p, Len(p) = A, \A q \in 1 .. A - 1 : p[q] = lp[q],
           NEW S, Wider(lp[A], p[A], S),
           \A j \in 1 .. Len(t) : t[j].do \in {"loop", "iter"} /\ Around(t, j) + 1 = A =>
              \A o \in S : /\ "outer" \notin z => Has(h[Level(t, j)], o, Append(ItsNest(t, h, lp, j), lp[A].id))
                           /\ z = {} => Was(h[Level(t, j)], o, 0, 0, 0)
    PROVE  Going(t, h, p, z, F)
<1>1. SameNames(lp, p, A)
  <2>1. \A q \in 1 .. A : q = A \/ q \in 1 .. A - 1
    OBVIOUS
  <2> QED BY <2>1 DEF SameNames, Wider
<1>2. ASSUME NEW j \in 1 .. Len(t)
      PROVE  Stays(z, t[j], F[j], h[Level(t, j)], ItsNest(t, h, p, j), p[Around(t, j) + 1], p[Around(t, j)])
  <2>1. j \in 1 .. Len(t) + 1 /\ j \in Nat
    OBVIOUS
  <2>2. PICK L \in Nat, a \in Nat : L = Level(t, j) /\ a = Around(t, j)
    BY <2>1, LevelType
  <2>3. a \in 0 .. A /\ (t[j].do \in {"loop", "iter"} => a + 1 \in 1 .. A)
    BY <2>2, LevelsIn
  <2>4. PICK b \in Nat : b = h[L].outer /\ b <= a
    BY <2>1, <2>2, OuterBelow
  <2>5. PICK n : n = Slice(lp, b, a)
    OBVIOUS
  <2>6. ItsNest(t, h, lp, j) = n /\ ItsNest(t, h, p, j) = n
    <3>1. Slice(p, b, a) = Slice(lp, b, a)
      <4>1. SameNames(lp, p, a)
        BY <1>1, <2>3 DEF SameNames
      <4> QED BY <4>1, SliceSame
    <3> QED BY <2>2, <2>4, <2>5, <3>1 DEF ItsNest
  <2>7. Stays(z, t[j], F[j], h[L], n, lp[a + 1], lp[a])
    BY <2>2, <2>6 DEF Going
  <2>8. Len(n) # 0 => p[a].retry = lp[a].retry
    <3>1. Len(n) = a - b
      <4>1. a <= Len(lp)
        BY <2>3
      <4> QED BY ZenonT(60), <2>2, <2>4, <2>5, <4>1, SliceIs
    <3>2. Len(n) # 0 => a = A \/ a \in 1 .. A - 1
      BY SMTT(60), <2>3, <2>4, <3>1
    <3> QED BY <3>2 DEF Wider
  <2>9. CASE t[j].do \in {"loop", "iter"} /\ a + 1 = A
    <3>1. \A o \in S : /\ "outer" \notin z => Has(h[L], o, Append(n, lp[a + 1].id))
                       /\ z = {} => Was(h[L], o, 0, 0, 0)
      BY <2>2, <2>6, <2>9
    <3>2. Wider(lp[a + 1], p[a + 1], S)
      BY <2>9
    <3>3. Stays(z, t[j], F[j], h[L], n, p[a + 1], p[a])
      BY SMTT(60), <2>7, <2>8, <3>1, <3>2, StaysWide
    <3> QED BY <2>2, <2>6, <3>3
  <2>10. CASE ~ (t[j].do \in {"loop", "iter"} /\ a + 1 = A)
    <3>0. PICK S0 : S0 = {}
      OBVIOUS
    <3>1. t[j].do \in {"loop", "iter"} => a + 1 \in 1 .. A - 1
      BY <2>3, <2>10
    <3>2. t[j].do \in {"loop", "iter"} =>
            /\ Wider(lp[a + 1], p[a + 1], S0)
            /\ \A o \in S0 : /\ "outer" \notin z => Has(h[L], o, Append(n, lp[a + 1].id))
                             /\ z = {} => Was(h[L], o, 0, 0, 0)
      BY <3>0, <3>1 DEF Wider
    <3>3. Stays(z, t[j], F[j], h[L], n, p[a + 1], p[a])
      <4>1. PICK w : w = lp[a + 1]
        OBVIOUS
      <4>2. PICK v, y : v = p[a + 1] /\ y = p[a]
        OBVIOUS
      <4>3. PICK ww : ww = lp[a]
        OBVIOUS
      <4>4. PICK it, k, c : it = t[j] /\ k = F[j] /\ c = h[L]
        OBVIOUS
      <4>5. Stays(z, it, k, c, n, w, ww) /\ (Len(n) # 0 => y.retry = ww.retry)
        BY <2>7, <2>8, <4>1, <4>2, <4>3, <4>4
      <4>6. it.do \in {"loop", "iter"} =>
              /\ Wider(w, v, S0)
              /\ \A o \in S0 : /\ "outer" \notin z => Has(c, o, Append(n, w.id))
                               /\ z = {} => Was(c, o, 0, 0, 0)
        BY <3>2, <4>1, <4>2, <4>4
      <4>7. Stays(z, it, k, c, n, v, y)
        BY ZenonT(60), <4>5, <4>6, StaysWide
      <4> QED BY <4>2, <4>4, <4>7
    <3> QED BY <2>2, <2>6, <3>3
  <2> QED BY <2>9, <2>10
<1>3. Flows(z, h[Len(h)], Slice(p, h[Len(h)].outer, Len(p)))
  <2>1. h # <<>> /\ Len(h) \in Nat
    <3>1. 1 \in 1 .. Len(t)
      <4>1. t # <<>>
        BY DEF Aligned
      <4> QED BY <4>1
    <3>2. Level(t, 1) \in 1 .. Len(h)
      BY <3>1, LevelsIn
    <3> QED BY <3>2
  <2>2. h[Len(h)].outer \in Nat
    <3>1. h[Len(h)] \in Chunks
      BY <2>1
    <3> QED BY <3>1 DEF Chunks
  <2>3. Slice(p, h[Len(h)].outer, A) = Slice(lp, h[Len(h)].outer, A)
    BY <1>1, <2>2, SliceSame
  <2>4. Flows(z, h[Len(h)], Slice(lp, h[Len(h)].outer, Len(lp)))
    BY DEF Going
  <2> QED BY <2>3, <2>4
<1>4. z = {} => Linked(t, h, F)
  BY DEF Going
<1> QED BY <1>2, <1>3, <1>4 DEF Going

LEMMA BreakGone == ASSUME GInv, GInv', NEW D, Going(todo, chunks, loops, slips, D), Break PROVE Gone
<1>1. PICK d : d = Hold(Blk, 0, 0)
  OBVIOUS
<1>2. /\ todo # <<>> /\ It.do = "block" /\ UNCHANGED todo /\ InBlk(d) /\ loops # <<>>
      /\ slips' = (IF Own(Blk) = <<>> THEN slips \cup {"outer"} ELSE slips) /\ More(slips, slips')
      /\ loops' = Append(Front(loops), [Last(loops) EXCEPT !.breaks = Append(@, Pos(Blk))])
  BY <1>1 DEF Break, Parsing, It, Slipped, More
<1>3. It.do \notin Deep /\ Gap(It) = 0 /\ Want(It) = 0
  BY <1>2, GapIs DEF Deep
<1>4. PICK n, g : Stood(n, g)
  BY SMTT(60), <1>2, <1>3, StoodSo
<1>5. /\ Has(d, Pos(Blk), n) /\ Was(d, Pos(Blk), Blk.h, 0, 0) /\ Pos(Blk) \in Nat /\ Moves(Blk, d, n, {})
      /\ d \in Chunks /\ d.h = Blk.h /\ (0 <= Blk.h => FedFrom(Blk, d)) /\ d.outer = Blk.outer
  <2>1. Adds(Blk, 0, 0, "panic", d)
    BY <1>1, <1>4, HoldMoves DEF Stood
  <2>2. d.h = Blk.h - 0 + 0 /\ Blk.h \in Int
    BY <1>4, <2>1 DEF Adds, Stood
  <2> QED BY <1>4, <2>1, <2>2 DEF Adds, Stood, Moves
<1>6. Lies(slips, It, Blk.h, Blk, n, g)
  BY <1>4 DEF Stood
<1>7. slips' = {} => slips = {} /\ Blk.h = 0
  <2>1. slips' = {} => slips = {}
    BY <1>2 DEF More
  <2>2. slips = {} => Blk.h = 0
    BY <1>2, <1>3, <1>6 DEF Lies, Fed, Inner
  <2> QED BY <2>1, <2>2
<1>8. Lies(slips', It, Blk.h, d, n, g)
  <2>1. Holding(slips', It, It, d, n)
    BY <1>2 DEF Holding
  <2>2. slips' = {} => Blk.h = Want(It)
    BY <1>3, <1>7
  <2> QED BY <1>2, <1>5, <1>6, <2>1, <2>2, IfLies
<1>9. PICK u : u = <<It>>
  OBVIOUS
<1>10. u \in Seq(Items) /\ Len(u) = 1 /\ u[1] = It /\ u # <<>>
  BY <1>4, <1>9 DEF Stood
<1>11. IsReplaced(Items, todo, u, todo')
  <2>1. todo \in Seq(Items)
    BY DEF GInv
  <2> QED BY <1>2, <1>9, <1>10, <2>1, FrontOf DEF IsReplaced, It
<1>12. IsTopped(Chunks, chunks, d, chunks')
  BY <1>2, <1>4, <1>5, InBlkIs DEF Stood
<1>13. Flat(slips', u, <<Blk.h>>, d, n, g) /\ Chain(u, <<Blk.h>>, Blk.h + Gap(It), Blk.h)
  BY <1>8, <1>10, OneItem
<1>14. /\ Flat(slips', u, <<Blk.h>>, d, NestOf(Blk), loops[Len(loops)])
       /\ Chain(u, <<Blk.h>>, Blk.h + Gap(It), d.h) /\ n = NestOf(Blk) /\ (slips' = {} => FedFrom(Blk, d))
  BY <1>4, <1>5, <1>7, <1>13 DEF Stood
<1>15. PICK P : P = {}
  OBVIOUS
<1>16. Moves(Blk, d, NestOf(Blk), P) /\ Settles(slips', d, NestOf(Blk), P)
  BY <1>5, <1>14, <1>15 DEF Settles
<1>17. PICK F : Going(todo', chunks', loops, slips', F)
  BY <1>2, <1>3, <1>10, <1>11, <1>12, <1>14, <1>16, PlainGoes
<1>18. PICK A \in Nat \ {0} : A = Len(loops) /\ loops # <<>> /\ loops \in Seq(LoopInfos)
  <2>1. loops \in Seq(LoopInfos) /\ loops # <<>>
    BY <1>2, <1>4 DEF Stood
  <2> QED BY <2>1
<1>19. PICK L : L = [Last(loops) EXCEPT !.breaks = Append(@, Pos(Blk))]
  OBVIOUS
<1>20. Last(loops) = loops[A] /\ Last(loops) \in LoopInfos
  BY <1>18, FrontOf
<1>21. PICK S : S = {Pos(Blk)}
  OBVIOUS
<1>22. Wider(loops[A], L, S) /\ L \in LoopInfos
  <2>1. PICK b : b = Append(Last(loops).breaks, Pos(Blk))
    OBVIOUS
  <2>2. b \in Seq(Nat) /\ Range(b) = Range(Last(loops).breaks) \cup {Pos(Blk)}
    <3>1. Last(loops).breaks \in Seq(Nat)
      BY <1>20 DEF LoopInfos, Where
    <3> QED BY <1>5, <2>1, <3>1, OutsAre
  <2>3. L = [Last(loops) EXCEPT !.breaks = b]
    BY <1>19, <2>1
  <2>4. L.id = Last(loops).id /\ L.retry = Last(loops).retry /\ L.jcond = Last(loops).jcond
        /\ L.death = Last(loops).death /\ L.breaks = b /\ L \in LoopInfos
    <3>1. PICK l \in LoopInfos : l = Last(loops)
      BY <1>20
    <3>2. L = [l EXCEPT !.breaks = b]
      BY <2>3, <3>1
    <3>3. /\ L.id = l.id /\ L.retry = l.retry /\ L.jcond = l.jcond /\ L.death = l.death /\ L.breaks = b
          /\ L \in LoopInfos
      BY <2>2, <3>2 DEF LoopInfos, Where
    <3> QED BY <3>1, <3>3
  <2> QED BY <1>20, <1>21, <2>2, <2>4 DEF Wider
<1>23. IsTopped(LoopInfos, loops, L, loops')
  BY <1>2, <1>18, <1>19, <1>22, ToppedIs
<1>24. Len(loops') = A /\ loops'[A] = L /\ \A q \in 1 .. A - 1 : loops'[q] = loops[q]
  BY <1>18, <1>23 DEF IsTopped
<1>25. Aligned(todo, chunks, loops) /\ todo \in Seq(Items) /\ chunks \in Seq(Chunks)
  BY <1>2 DEF GInv, Parsed
<1>26. Aligned(todo', chunks', loops') /\ todo' \in Seq(Items) /\ chunks' \in Seq(Chunks)
  BY <1>2 DEF GInv, Parsed
<1>27. Aligned(todo', chunks', loops)
  BY <1>18, <1>24, <1>26 DEF Aligned
<1>28. Blk = chunks[Len(chunks)] /\ Blk.outer \in Nat /\ Len(chunks') = Len(chunks) /\ chunks'[Len(chunks)] = d
       /\ It = todo[Len(todo)]
  <2>1. Blk \in Chunks /\ chunks # <<>>
    BY <1>4 DEF Stood
  <2>2. Blk.outer \in Nat
    BY <2>1 DEF Chunks
  <2>3. Len(chunks') = Len(chunks) /\ chunks'[Len(chunks)] = d
    BY <1>12 DEF IsTopped
  <2>4. Blk = chunks[Len(chunks)]
    BY <1>25, <2>1, FrontOf DEF Blk, Last
  <2>5. It = todo[Len(todo)]
    BY <1>2, <1>25, FrontOf DEF It, Last
  <2> QED BY <2>2, <2>3, <2>4, <2>5
<1>29. ASSUME NEW j \in 1 .. Len(todo'), todo'[j].do \in {"loop", "iter"}, Around(todo', j) + 1 = A
       PROVE  /\ "outer" \notin slips' =>
                   Has(chunks'[Level(todo', j)], Pos(Blk), Append(ItsNest(todo', chunks', loops, j), loops[A].id))
              /\ slips' = {} => Was(chunks'[Level(todo', j)], Pos(Blk), 0, 0, 0)
  <2>1. ASSUME "outer" \notin slips'
        PROVE  /\ Has(chunks'[Level(todo', j)], Pos(Blk), Append(ItsNest(todo', chunks', loops, j), loops[A].id))
               /\ slips' = {} => Was(chunks'[Level(todo', j)], Pos(Blk), 0, 0, 0)
    <3>1. PICK o \in Nat : o = Blk.outer /\ o < A
      <4>1. Own(Blk) # <<>>
        BY <1>2, <2>1
      <4>2. Own(Blk) = SubSeq(loops, Blk.outer + 1, A)
        BY <1>18 DEF Own
      <4> QED BY SMTT(60), <1>18, <1>28, <4>1, <4>2
    <3>2. Level(todo, j) = Len(chunks)
      <4>1. todo[Len(todo)].do = "block" /\ chunks[Len(chunks)].outer < Len(loops)
        BY <1>2, <1>18, <1>28, <3>1
      <4>2. j \in 1 .. Len(todo) /\ todo[j].do \in {"loop", "iter"} /\ Around(todo, j) + 1 = Len(loops)
        BY <1>2, <1>18, <1>29
      <4> QED BY <1>18, <1>25, <4>1, <4>2, ItsLoop
    <3>3. Level(todo', j) = Len(chunks) /\ chunks'[Level(todo', j)] = d
      BY <1>2, <1>28, <3>2
    <3>4. PICK a \in Nat : a = Around(todo', j) /\ a + 1 = A
      <4>1. j \in 1 .. Len(todo') + 1 /\ j \in Nat
        OBVIOUS
      <4> QED BY <1>29, <4>1, LevelType
    <3>5. ItsNest(todo', chunks', loops, j) = Slice(loops, o, a)
      BY <1>5, <3>1, <3>3, <3>4 DEF ItsNest
    <3>6. n = Append(Slice(loops, o, a), loops[A].id)
      <4>1. n = Slice(loops, o, A)
        <5>1. Blk \in Chunks /\ Blk.outer <= Len(loops)
          BY <1>4, <1>18, <3>1 DEF Stood
        <5> QED BY <1>14, <1>18, <3>1, <5>1, NestSlice
      <4>2. o <= a /\ a + 1 <= Len(loops)
        BY <1>18, <3>1, <3>4
      <4>3. Slice(loops, o, a + 1) = Append(Slice(loops, o, a), loops[a + 1].id)
        BY <1>18, <4>2, SliceNext
      <4> QED BY <3>4, <4>1, <4>3
    <3> QED BY <1>5, <1>7, <3>3, <3>5, <3>6
  <2> QED BY <2>1
<1>30. \A j \in 1 .. Len(todo') : todo'[j].do \in {"loop", "iter"} /\ Around(todo', j) + 1 = A =>
          \A o \in S : /\ "outer" \notin slips' =>
                              Has(chunks'[Level(todo', j)], o, Append(ItsNest(todo', chunks', loops, j), loops[A].id))
                       /\ slips' = {} => Was(chunks'[Level(todo', j)], o, 0, 0, 0)
  BY <1>21, <1>29
<1>31. Wider(loops[A], loops'[A], S)
  BY <1>22, <1>24
<1>32. PICK t, h, z, p : t = todo' /\ h = chunks' /\ z = slips' /\ p = loops'
  OBVIOUS
<1>33. /\ t \in Seq(Items) /\ h \in Seq(Chunks) /\ Aligned(t, h, loops) /\ Going(t, h, loops, z, F)
       /\ Len(p) = A /\ (\A q \in 1 .. A - 1 : p[q] = loops[q]) /\ Wider(loops[A], p[A], S)
  BY <1>17, <1>24, <1>26, <1>27, <1>31, <1>32
<1>34. \A j \in 1 .. Len(t) : t[j].do \in {"loop", "iter"} /\ Around(t, j) + 1 = A =>
          \A o \in S : /\ "outer" \notin z => Has(h[Level(t, j)], o, Append(ItsNest(t, h, loops, j), loops[A].id))
                       /\ z = {} => Was(h[Level(t, j)], o, 0, 0, 0)
  BY <1>30, <1>32
<1>35. Going(t, h, p, z, F)
  BY <1>18, <1>33, <1>34, WidenGoes
<1> QED BY <1>32, <1>35 DEF Gone

-----------------------------------------------------------------------------
(* for: a loop is entered *)

\* The end of c is in one more loop, entered there.
LEMMA FlowsEnter ==
    ASSUME NEW z, NEW c \in Chunks, NEW n \in Seq(LoopId), Flows(z, c, n), NEW e \in LoopId, e[1] = Len(c.inst) + 1
    PROVE  Flows(z, c, Append(n, e))
<1>1. PICK a \in Nat, b \in Nat : a = Len(c.inst) /\ b = Len(n)
  BY DEF Chunks
<1>2. PICK m : m = Append(n, e)
  OBVIOUS
<1>3. /\ Len(m) = b + 1 /\ m[b + 1] = e /\ \A q \in 1 .. b : m[q] = n[q]
      /\ \A q \in 1 .. b + 1 : q = b + 1 \/ q \in 1 .. b
  BY <1>1, <1>2
<1>4. NAt(c.inst, n, a + 1) = n /\ NAt(c.inst, m, a + 1) = m
  <2>1. a + 1 \notin 1 .. a
    BY <1>1
  <2> QED BY <1>1, <2>1 DEF NAt
<1>5. \A i \in 1 .. a : NAt(c.inst, n, i) = c.inst[i].nest /\ NAt(c.inst, m, i) = c.inst[i].nest
  BY <1>1 DEF NAt
<1>6. \A i \in 1 .. a + 1 : i = a + 1 \/ i \in 1 .. a
  BY <1>1
<1>7. \A i \in 1 .. a + 1 : \A q \in 1 .. Len(NAt(c.inst, n, i)) : NAt(c.inst, n, i)[q][1] \in 0 .. i
  BY <1>1 DEF Flows, Chained
<1>8. Chained(c.inst, c.h, m)
  <2>1. \A q \in 1 .. b : n[q][1] \in 0 .. a + 1
    <3>1. a + 1 \in 1 .. a + 1
      BY <1>1
    <3> QED BY <1>1, <1>4, <1>7, <3>1
  <2>2. \A q \in 1 .. b + 1 : m[q][1] \in 0 .. a + 1
    BY <1>1, <1>3, <2>1
  <2>3. ASSUME NEW i \in 1 .. a + 1
        PROVE  \A q \in 1 .. Len(NAt(c.inst, m, i)) : NAt(c.inst, m, i)[q][1] \in 0 .. i
    <3>1. CASE i = a + 1
      BY <1>3, <1>4, <2>2, <3>1
    <3>2. CASE i \in 1 .. a
      BY <1>5, <1>7, <3>2
    <3> QED BY <1>6, <3>1, <3>2
  <2> QED BY <1>1, <2>3 DEF Flows, Chained
<1>9. ASSUME FlowsIn(c.inst, n) PROVE FlowsIn(c.inst, m)
  <2> SUFFICES ASSUME NEW i \in 1 .. a, c.inst[i].op \in Jumps PROVE LandsIn(c.inst, m, i)
    BY <1>1 DEF FlowsIn
  <2>1. LandsIn(c.inst, n, i)
    BY <1>1, <1>9 DEF FlowsIn
  <2>2. c.inst[i].to \in 1 .. a + 1
    BY <1>1, <2>1 DEF LandsIn
  <2>3. CASE c.inst[i].to \in 1 .. a
    BY <1>5, <2>1, <2>3 DEF LandsIn
  <2>4. CASE c.inst[i].to = a + 1
    <3>1. PICK v : v = c.inst[i].nest
      OBVIOUS
    <3>2. \A q \in 1 .. Len(v) : v[q][1] \in 0 .. i
      <4>1. i \in 1 .. a + 1
        BY <1>1
      <4> QED BY <1>5, <1>7, <3>1, <4>1
    <3>3. v \in Seq(LoopId)
      <4>1. c.inst[i] \in Inst
        BY <1>1 DEF Chunks
      <4> QED BY <3>1, <4>1 DEF Inst
    <3>4. CASE c.inst[i].leaves
      <4>1. PreBut(v, n)
        BY <1>4, <2>1, <2>4, <3>1, <3>4 DEF LandsIn
      <4>2. Len(v) # 0 /\ Len(v) \in 1 .. Len(v)
        BY <3>3, <4>1 DEF PreBut
      <4>3. v[Len(v)] # e
        <5>1. v[Len(v)][1] \in 0 .. a
          BY <1>1, <3>2, <4>2
        <5> QED BY <1>1, <5>1
      <4>4. PreBut(v, m)
        <5>1. \A q \in 1 .. Len(v) - 1 : q \in 1 .. Len(m) /\ v[q] = m[q]
          <6>1. \A q \in 1 .. Len(v) - 1 : q \in 1 .. b /\ v[q] = n[q]
            BY <1>1, <4>1 DEF PreBut
          <6> QED BY <1>1, <1>3, <6>1
        <5>2. \A q \in 1 .. Len(m) : m[q] # v[Len(v)]
          <6>1. \A q \in 1 .. b : n[q] # v[Len(v)]
            BY <1>1, <4>1 DEF PreBut
          <6> QED BY <1>3, <4>3, <6>1
        <5> QED BY <4>2, <5>1, <5>2 DEF PreBut
      <4> QED BY <1>4, <2>1, <2>4, <3>1, <3>4, <4>4 DEF LandsIn
    <3>5. CASE ~ c.inst[i].leaves
      <4>1. Pre(v, n)
        BY <1>4, <2>1, <2>4, <3>1, <3>5 DEF LandsIn
      <4>2. PICK q \in Nat : q = Len(v)
        BY <3>3
      <4>3. q <= b /\ \A y \in 1 .. q : v[y] = n[y] /\ y \in 1 .. b
        BY <1>1, <4>1, <4>2 DEF Pre
      <4>4. Pre(v, m)
        BY <1>1, <1>3, <4>2, <4>3 DEF Pre
      <4> QED BY <1>4, <2>1, <2>4, <3>1, <3>5, <4>4 DEF LandsIn
    <3> QED BY <3>4, <3>5
  <2> QED BY <1>6, <2>2, <2>3, <2>4
<1> QED BY <1>2, <1>8, <1>9 DEF Flows

\* What stands at the beginning of a loop.
Opening(a, b, L) ==
    /\ L \in LoopInfos /\ L.breaks = <<>> /\ L.id[1] = Pos(Blk) /\ a \in Items /\ b \in Items
    /\ \/ a.do = "loop" /\ b.do = "block" /\ L.death /\ L.retry = Pos(Blk)
       \/ a.do = "iter" /\ b.do = "expr" /\ ~ L.death

LEMMA LoopGoes ==
    ASSUME GInv, NEW D, Going(todo, chunks, loops, slips, D), Parsing("block"),
           UNCHANGED <<chunks, slips>>, NEW L, NEW a, NEW b, Opening(a, b, L),
           loops' = Append(loops, L), Descend(<<a, b>>)
    PROVE  Gone
<1>1. todo # <<>> /\ It.do = "block" /\ More(slips, slips') /\ slips' = slips
  BY DEF Parsing, It, More
<1>2. It.do \notin Deep /\ Gap(It) = 0 /\ Want(It) = 0
  BY <1>1, GapIs DEF Deep
<1>3. PICK n, g : Stood(n, g)
  BY <1>1, <1>2, StoodSo
<1>4. L \in LoopInfos /\ a \in Items /\ b \in Items /\ Free(b) /\ Enters(a, L)
  BY DEF Opening, Free, Enters
<1>5. PICK K, M, A, u : Begun(K, M, A, L, a, b, u)
  BY <1>4, LoopBegun
<1>6. /\ todo \in Seq(Items) /\ chunks \in Seq(Chunks) /\ loops \in Seq(LoopInfos)
      /\ K = Len(todo) /\ K \in Nat \ {0} /\ todo[K] = It /\ M = Level(todo, K) /\ M \in Nat
      /\ A = Around(todo, K) /\ A \in Nat /\ M = Len(chunks) /\ A = Len(loops) /\ Blk = chunks[M]
  BY <1>5 DEF Begun, Stands
<1>7. /\ u \in Seq(Items) /\ Len(u) = 3 /\ u[1] = It /\ u[2] = a /\ u[3] = b
      /\ Level(todo', K) = M /\ Level(todo', K + 1) = M /\ Level(todo', K + 2) = M
      /\ Around(todo', K) = A /\ Around(todo', K + 1) = A /\ Around(todo', K + 2) = A + 1
      /\ loops' \in Seq(LoopInfos) /\ Len(loops') = A + 1 /\ loops'[A + 1] = L
      /\ \A k \in 1 .. A : loops'[k] = loops[k]
      /\ Below(todo, chunks, loops, u, todo', chunks', loops', Blk)
  BY <1>5 DEF Begun
<1>8. /\ Blk \in Chunks /\ Blk.h \in Int /\ n = NestOf(Blk) /\ g = loops[A] /\ Lies(slips, It, Blk.h, Blk, n, g)
      /\ Flows(slips, Blk, n) /\ Pos(Blk) = Len(Blk.inst) + 1 /\ Len(Blk.inst) \in Nat
  BY <1>3, <1>6 DEF Stood
<1>9. slips' = {} => Blk.h = 0 /\ slips = {}
  BY <1>1, <1>2, <1>8 DEF Lies, Fed, Inner
<1>10. Aligned(todo, chunks, loops)
  BY <1>1 DEF GInv, Parsed
<1>11. PICK o \in Nat : o = Blk.outer /\ o <= A
  <2>1. K \in 1 .. Len(todo) + 1
    BY <1>6
  <2> QED BY <1>6, <1>10, <2>1, OuterBelow
<1>12. n = Slice(loops, o, A)
  BY <1>6, <1>8, <1>11, NestSlice
<1>13. Slice(loops', o, A) = n
  <2>1. SameNames(loops, loops', A)
    BY <1>7 DEF SameNames
  <2> QED BY <1>11, <1>12, <2>1, <1>6, SliceSame
<1>14. Slice(loops', o, A + 1) = Append(n, L.id)
  <2>1. o <= A /\ A + 1 <= Len(loops')
    BY <1>7, <1>11, <1>6
  <2>2. PICK p \in Seq(LoopInfos) : p = loops'
    BY <1>7
  <2>3. Slice(p, o, A + 1) = Append(Slice(p, o, A), p[A + 1].id)
    BY ZenonT(60), <1>6, <1>11, <2>1, <2>2, SliceNext
  <2> QED BY <1>7, <1>13, <2>2, <2>3
<1>15. n \in Seq(LoopId) /\ L.id \in LoopId
  <2>1. A <= Len(loops)
    BY <1>6
  <2> QED BY <1>4, <1>6, <1>11, <1>12, <2>1, SliceIs DEF LoopInfos
<1>16. PICK m : m = Append(n, L.id)
  OBVIOUS
<1>17. Flows(slips', Blk, m)
  BY <1>1, <1>8, <1>15, <1>16, FlowsEnter DEF Opening
<1>18. chunks'[M] = Blk /\ Len(chunks') = M
  BY <1>6
<1>19. Flows(slips', chunks'[Len(chunks')], Slice(loops', chunks'[Len(chunks')].outer, Len(loops')))
  BY <1>7, <1>11, <1>14, <1>16, <1>17, <1>18
<1>20. Stays(slips', It, 0, Blk, n, loops'[A + 1], loops'[A])
  <2>1. Nested(It, Blk, n, g, g) => Nested(It, Blk, n, loops'[A + 1], g)
    BY <1>1 DEF Nested
  <2>2. Fed(It, 0, Blk, n, g, g) => Fed(It, 0, Blk, n, loops'[A + 1], g)
    BY <1>1 DEF Fed
  <2>3. Stays(slips', It, 0, Blk, n, loops'[A + 1], g)
    BY <1>1, <1>8, <1>9, <2>1, <2>2 DEF Lies, Stays
  <2>4. Len(n) # 0 => loops'[A] = g
    <3>1. Len(n) = A - o
      <4>1. A <= Len(loops)
        BY <1>6
      <4> QED BY ZenonT(60), <1>6, <1>11, <1>12, <4>1, SliceIs
    <3>2. Len(n) # 0 => A \in 1 .. A
      BY SMTT(60), <1>6, <1>11, <3>1
    <3> QED BY <1>7, <1>8, <3>2
  <2>5. It.do \notin {"loop", "iter"}
    BY <1>1
  <2> QED BY ZenonT(60), <2>3, <2>4, <2>5, StaysAlone
<1>21. \A v : L.retry = Pos(Blk) => RetryIn(Blk, v, L)
  BY <1>8 DEF RetryIn
<1>22. L.retry = Pos(Blk) /\ Blk.h = 0 => RetryOn(Blk, L)
  BY <1>8 DEF RetryOn, HAt
<1>23. Stays(slips', a, Want(a), Blk, n, L, loops'[A])
  <2>1. \A k : k \notin Range(L.breaks)
    BY DEF Opening, Range
  <2>2. a.do \in {"loop", "iter"} /\ (a.do = "loop" => L.death /\ L.retry = Pos(Blk))
    BY DEF Opening
  <2>3. Nested(a, Blk, n, L, loops'[A])
    BY <1>21, <2>1, <2>2 DEF Nested
  <2>4. slips' = {} => Fed(a, Want(a), Blk, n, L, loops'[A])
    BY <1>9, <1>22, <2>1, <2>2 DEF Fed, Inner
  <2> QED BY <2>2, <2>3, <2>4 DEF Stays
<1>24. Stays(slips', b, 0, Blk, m, loops'[A + 2], L)
  <2>1. b.do \in {"block", "expr"} /\ (b.do = "block" => L.retry = Pos(Blk))
    BY DEF Opening
  <2>2. Nested(b, Blk, m, loops'[A + 2], L)
    BY <1>21, <2>1 DEF Nested
  <2>3. b.do = "block" => Want(b) = 0
    BY GapIs
  <2>4. slips' = {} => Fed(b, 0, Blk, m, loops'[A + 2], L)
    BY <1>9, <1>22, <2>1, <2>3 DEF Fed, Inner
  <2> QED BY <2>1, <2>2, <2>4 DEF Stays
<1>25. PICK E : E = <<0, Want(a), 0>>
  OBVIOUS
<1>26. E[1] = 0 /\ E[2] = Want(a) /\ E[3] = 0
  BY <1>25
<1>27. Sits(todo, u, todo', chunks', loops', slips', E)
  <2> SUFFICES ASSUME NEW q \in 1 .. Len(u)
               PROVE  Stays(slips', u[q], E[q], chunks'[Level(todo', Len(todo) - 1 + q)],
                            ItsNest(todo', chunks', loops', Len(todo) - 1 + q),
                            loops'[Around(todo', Len(todo) - 1 + q) + 1], loops'[Around(todo', Len(todo) - 1 + q)])
    BY DEF Sits
  <2>1. q = 1 \/ q = 2 \/ q = 3
    BY <1>7
  <2>2. CASE q = 1
    <3>1. Len(todo) - 1 + q = K
      BY <1>6, <2>2
    <3>2. ItsNest(todo', chunks', loops', K) = n
      BY <1>7, <1>11, <1>13, <1>18 DEF ItsNest
    <3> QED BY <1>7, <1>18, <1>20, <1>26, <2>2, <3>1, <3>2
  <2>3. CASE q = 2
    <3>1. Len(todo) - 1 + q = K + 1
      BY <1>6, <2>3
    <3>2. ItsNest(todo', chunks', loops', K + 1) = n
      BY <1>7, <1>11, <1>13, <1>18 DEF ItsNest
    <3> QED BY <1>7, <1>18, <1>23, <1>26, <2>3, <3>1, <3>2
  <2>4. CASE q = 3
    <3>1. Len(todo) - 1 + q = K + 2 /\ (A + 1) + 1 = A + 2
      BY <1>6, <2>4
    <3>2. ItsNest(todo', chunks', loops', K + 2) = m
      BY <1>7, <1>11, <1>14, <1>16, <1>18 DEF ItsNest
    <3> QED BY <1>7, <1>18, <1>24, <1>26, <2>4, <3>1, <3>2
  <2> QED BY <2>1, <2>2, <2>3, <2>4
<1>28. slips' = {} => Chain(u, E, D[Len(todo)] + Gap(todo[Len(todo)]), chunks'[Len(chunks')].h)
  <2> SUFFICES ASSUME slips' = {} PROVE Chain(u, E, D[Len(todo)] + Gap(todo[Len(todo)]), chunks'[Len(chunks')].h)
    OBVIOUS
  <2>1. D[Len(todo)] = 0 /\ Blk.h = 0
    BY <1>1, <1>2, <1>9, TopKnows
  <2>2. Base(It, 0) = 0 /\ Base(a, Want(a)) = Want(a) /\ Base(b, 0) = 0 /\ Want(a) + Gap(a) = 0 /\ Want(a) = 0 + Gap(b)
    <3>1. It.do # "func" /\ a.do # "func" /\ b.do # "func"
      BY <1>1 DEF Opening
    <3>2. (Want(a) = 0 /\ Gap(a) = 0 /\ Gap(b) = 0) \/ (Want(a) = 1 /\ Gap(a) = -1 /\ Gap(b) = 1)
      BY GapIs DEF Opening
    <3> QED BY <3>1, <3>2 DEF Base
  <2>3. Len(u) # 0 /\ \A q \in 1 .. Len(u) - 1 : (q = 1 /\ q + 1 = 2) \/ (q = 2 /\ q + 1 = 3)
    BY <1>7
  <2>4. E[1] + Gap(u[1]) = D[Len(todo)] + Gap(todo[Len(todo)])
    BY <1>2, <1>6, <1>7, <1>26, <2>1
  <2>5. \A q \in 1 .. Len(u) - 1 : Base(u[q], E[q]) = E[q + 1] + Gap(u[q + 1])
    BY <1>7, <1>26, <2>2, <2>3
  <2>6. Base(u[Len(u)], E[Len(u)]) = chunks'[Len(chunks')].h
    BY <1>7, <1>18, <1>26, <2>1, <2>2
  <2> QED BY <2>3, <2>4, <2>5, <2>6 DEF Chain
<1>29. PICK P : P = {}
  OBVIOUS
<1>30. Moves(chunks[Level(todo, Len(todo))], Blk, Slice(loops, chunks[Level(todo, Len(todo))].outer, A), P)
  BY <1>6, <1>8, <1>29, MovesNowhere
<1>31. Around(todo, Len(todo)) <= A /\ A <= Len(loops)
  BY <1>6
<1>32. \E F : Going(todo', chunks', loops', slips', F)
  BY ZenonT(60), <1>1, <1>6, <1>7, <1>10, <1>19, <1>27, <1>28, <1>30, <1>31, StepGoes
<1> QED BY <1>32 DEF Gone

LEMMA ForGone == ASSUME GInv, NEW D, Going(todo, chunks, loops, slips, D), For PROVE Gone
<1>1. Parsing("block") /\ todo # <<>> /\ UNCHANGED <<chunks, slips>> /\ Descend(<<Item("loop"), Item("block")>>)
      /\ loops' = Append(loops, Loop(Pos(Blk), TRUE))
  BY DEF For, Parsing
<1>2. Pos(Blk) \in Nat /\ loops \in Seq(LoopInfos)
  <2>1. Blk \in Chunks
    BY <1>1, WritesIs DEF Writes
  <2> QED BY <2>1 DEF Chunks, Pos, GInv
<1>3. Opening(Item("loop"), Item("block"), Loop(Pos(Blk), TRUE))
  <2>1. Loop(Pos(Blk), TRUE) \in LoopInfos
    BY <1>1, <1>2, NewLoop
  <2>2. Loop(Pos(Blk), TRUE).breaks = <<>> /\ Loop(Pos(Blk), TRUE).id[1] = Pos(Blk)
        /\ Loop(Pos(Blk), TRUE).death = TRUE /\ Loop(Pos(Blk), TRUE).retry = Pos(Blk)
    BY DEF Loop
  <2>3. Item("loop") \in Items /\ Item("block") \in Items /\ Item("loop").do = "loop" /\ Item("block").do = "block"
    BY ItemIs DEF Doings
  <2> QED BY <2>1, <2>2, <2>3 DEF Opening
<1> QED BY <1>1, <1>3, LoopGoes

LEMMA ForInGone == ASSUME GInv, NEW D, Going(todo, chunks, loops, slips, D), ForIn PROVE Gone
<1>1. Parsing("block") /\ todo # <<>> /\ UNCHANGED <<chunks, slips>> /\ Descend(<<Item("iter"), Item("expr")>>)
      /\ loops' = Append(loops, Loop(1, FALSE))
  BY DEF ForIn, Parsing
<1>2. Opening(Item("iter"), Item("expr"), Loop(1, FALSE))
  <2>1. Loop(1, FALSE) \in LoopInfos
    BY <1>1, NewLoop
  <2>2. Loop(1, FALSE).breaks = <<>> /\ Loop(1, FALSE).id[1] = Pos(Blk) /\ Loop(1, FALSE).death = FALSE
    BY DEF Loop
  <2>3. Item("iter") \in Items /\ Item("expr") \in Items /\ Item("iter").do = "iter" /\ Item("expr").do = "expr"
    BY ItemIs DEF Doings
  <2> QED BY <2>1, <2>2, <2>3 DEF Opening
<1> QED BY <1>1, <1>2, LoopGoes

-----------------------------------------------------------------------------
(* A loop over values: its head *)

\* What is known when the innermost loop goes on: it is l, in g, within the loops m; and n with it.
Looped(k, m, n, l, g) ==
    /\ todo \in Seq(Items) /\ chunks \in Seq(Chunks) /\ loops \in Seq(LoopInfos) /\ Aligned(todo, chunks, loops)
    /\ Blk \in Chunks /\ Blk.h \in Int /\ Blk = chunks[Len(chunks)] /\ chunks # <<>> /\ It = todo[Len(todo)]
    /\ Len(loops) - 1 \in Nat /\ l = loops[Len(loops)] /\ g = loops[Len(loops) - 1] /\ l \in LoopInfos
    /\ Blk.outer \in Nat /\ Blk.outer <= Len(loops) - 1
    /\ m = Slice(loops, Blk.outer, Len(loops) - 1) /\ m \in Seq(LoopId)
    /\ Len(m) = (Len(loops) - 1) - Blk.outer
    /\ n = Slice(loops, Blk.outer, Len(loops)) /\ n = Append(m, l.id) /\ n = NestOf(Blk)
    /\ Level(todo, Len(todo)) = Len(chunks) /\ Around(todo, Len(todo)) = Len(loops) - 1
    /\ Stays(slips, It, k, Blk, m, l, g) /\ Flows(slips, Blk, n)
    /\ slips = {} => k = Blk.h /\ Blk.h = Want(It)
    /\ Pos(Blk) = Len(Blk.inst) + 1 /\ Len(Blk.inst) \in Nat

LEMMA LoopedSo ==
    ASSUME GInv, todo # <<>>, It.do \in {"loop", "iter"}, NEW D, Going(todo, chunks, loops, slips, D)
    PROVE  \E m, n, l, g : Looped(D[Len(todo)], m, n, l, g)
<1>1. PICK K, M, A : Stands(K, M, A)
  BY StandsSo
<1>2. /\ todo \in Seq(Items) /\ chunks \in Seq(Chunks) /\ loops \in Seq(LoopInfos)
      /\ K = Len(todo) /\ K \in Nat \ {0} /\ todo[K] = It /\ M = Level(todo, K) /\ M \in Nat
      /\ A = Around(todo, K) /\ A \in Nat /\ M = Len(chunks) /\ A = Len(loops) - 1 /\ Len(loops) \in Nat
      /\ Blk = chunks[M] /\ Blk \in Chunks /\ Len(chunks) \in Nat \ {0}
  <2>1. /\ todo \in Seq(Items) /\ chunks \in Seq(Chunks) /\ loops \in Seq(LoopInfos)
        /\ K = Len(todo) /\ K \in Nat \ {0} /\ todo[K] = It /\ M = Level(todo, K) /\ M \in Nat
        /\ A = Around(todo, K) /\ A \in Nat /\ Len(loops) \in Nat
        /\ Blk = chunks[Len(chunks)] /\ Len(chunks) \in Nat \ {0} /\ chunks[M] \in Chunks
    BY <1>1 DEF Stands
  <2>2. M = Len(chunks) /\ A = Len(loops) - 1
    BY <1>1 DEF Stands
  <2> QED BY <2>1, <2>2
<1>3. Aligned(todo, chunks, loops)
  BY DEF GInv, Parsed
<1>4. PICK l, g : l = loops[A + 1] /\ g = loops[A]
  OBVIOUS
<1>5. A + 1 = Len(loops) /\ l \in LoopInfos /\ l.id \in LoopId
  <2>1. A + 1 = Len(loops) /\ A + 1 \in 1 .. Len(loops)
    BY <1>2
  <2>2. l \in LoopInfos
    BY <1>2, <1>4, <2>1
  <2> QED BY <2>1, <2>2 DEF LoopInfos
<1>6. PICK o \in Nat : o = Blk.outer /\ o <= A
  <2>1. K \in 1 .. Len(todo) + 1
    BY <1>2
  <2> QED BY <1>2, <1>3, <2>1, OuterBelow
<1>7. PICK m, n : m = Slice(loops, o, A) /\ n = Slice(loops, o, A + 1)
  OBVIOUS
<1>8. m \in Seq(LoopId) /\ Len(m) = A - o
  <2>1. A <= Len(loops)
    BY <1>2
  <2> QED BY ZenonT(60), <1>2, <1>6, <1>7, <2>1, SliceIs
<1>9. n = Append(m, l.id)
  <2>1. A + 1 <= Len(loops)
    BY <1>2
  <2> QED BY SMTT(60), <1>2, <1>4, <1>6, <1>7, <2>1, SliceNext
<1>10. n = NestOf(Blk)
  <2>1. Blk.outer <= Len(loops)
    BY <1>2, <1>6
  <2> QED BY <1>2, <1>5, <1>6, <1>7, <2>1, NestSlice
<1>11. Stays(slips, It, D[K], Blk, m, l, g)
  <2>1. ItsNest(todo, chunks, loops, K) = m
    BY <1>2, <1>6, <1>7 DEF ItsNest
  <2>2. K \in 1 .. Len(todo)
    BY <1>2
  <2> QED BY <1>2, <1>4, <2>1, <2>2 DEF Going
<1>12. Flows(slips, Blk, n)
  BY <1>2, <1>5, <1>6, <1>7 DEF Going
<1>13. ASSUME slips = {} PROVE D[K] = Blk.h /\ Blk.h = Want(It)
  <2>1. Base(todo[Len(todo)], D[Len(todo)]) = chunks[Len(chunks)].h
    BY <1>13 DEF Going, Linked
  <2>2. D[K] = Blk.h
    BY <1>2, <2>1 DEF Base
  <2>3. It.do \notin Inner
    BY DEF Inner
  <2>4. D[K] = Want(It)
    BY <1>11, <1>13, <2>3 DEF Stays, Fed
  <2> QED BY <2>2, <2>4
<1>14. Pos(Blk) = Len(Blk.inst) + 1 /\ Len(Blk.inst) \in Nat /\ Blk.h \in Int
  BY SMTT(60), <1>2 DEF Pos, Chunks
<1>15. chunks # <<>>
  BY <1>2
<1>16. l = loops[Len(loops)] /\ g = loops[Len(loops) - 1] /\ Len(loops) - 1 \in Nat
       /\ Blk.outer \in Nat /\ Blk.outer <= Len(loops) - 1 /\ Len(m) = (Len(loops) - 1) - Blk.outer
       /\ m = Slice(loops, Blk.outer, Len(loops) - 1) /\ n = Slice(loops, Blk.outer, Len(loops))
       /\ Around(todo, Len(todo)) = Len(loops) - 1 /\ Level(todo, Len(todo)) = Len(chunks)
       /\ Blk = chunks[Len(chunks)] /\ It = todo[Len(todo)]
  BY <1>2, <1>4, <1>5, <1>6, <1>7, <1>8
<1>17. Looped(D[Len(todo)], m, n, l, g)
  BY <1>2, <1>3, <1>5, <1>8, <1>9, <1>10, <1>11, <1>12, <1>13, <1>14, <1>15, <1>16 DEF Looped
<1> QED BY <1>17

\* The five instructions of the head, the fourth of which is held.
Heads(c, d, n, y) ==
    /\ Moves(c, d, n, {}) /\ d \in Chunks /\ d.h = c.h - 1 /\ d.outer = c.outer
    /\ Has(d, y, n) /\ Was(d, y, c.h, 1, 1)
    /\ Has(d, Len(c.inst) + 2, n) /\ Was(d, Len(c.inst) + 2, c.h - 1, 0, 1)
    /\ c.h = 1 => FedFrom(c, d)

LEMMA HeadMoves ==
    ASSUME loops \in Seq(LoopInfos), NEW c \in Chunks, c.h \in Int,
           NEW y, y = Pos(Emit(Emit(Emit(c, 1, 0), 0, 1), 1, 1)),
           NEW d, d = Emit(Hold(Emit(Emit(Emit(c, 1, 0), 0, 1), 1, 1), 1, 1), 1, 0)
    PROVE  Heads(c, d, NestOf(c), y)
<1>1. PICK n, a : n = NestOf(c) /\ a = Emit(c, 1, 0)
  OBVIOUS
<1>2. PICK b : b = Emit(a, 0, 1)
  OBVIOUS
<1>3. PICK e : e = Emit(b, 1, 1)
  OBVIOUS
<1>4. PICK f : f = Hold(e, 1, 1)
  OBVIOUS
<1>5. y = Pos(e) /\ d = Emit(f, 1, 0)
  BY <1>1, <1>2, <1>3, <1>4
<1>6. Adds(c, 1, 0, "data", a) /\ a \in Chunks /\ NestOf(a) = n
  BY <1>1, EmitMoves DEF Adds
<1>7. Adds(a, 0, 1, "data", b) /\ b \in Chunks /\ NestOf(b) = n
  <2>1. Adds(a, 0, 1, "data", b)
    BY <1>2, <1>6, EmitMoves
  <2> QED BY <1>6, <2>1 DEF Adds
<1>8. Adds(b, 1, 1, "data", e) /\ e \in Chunks /\ NestOf(e) = n
  <2>1. Adds(b, 1, 1, "data", e)
    BY <1>3, <1>7, EmitMoves
  <2> QED BY <1>7, <2>1 DEF Adds
<1>9. Adds(e, 1, 1, "panic", f) /\ f \in Chunks /\ NestOf(f) = n
  <2>1. Adds(e, 1, 1, "panic", f)
    BY <1>4, <1>8, HoldMoves
  <2> QED BY <1>8, <2>1 DEF Adds
<1>10. Adds(f, 1, 0, "data", d) /\ d \in Chunks
  BY SMTT(60), <1>5, <1>9, EmitMoves DEF Adds
<1>11. PICK P : P = {}
  OBVIOUS
<1>12. Moves(c, a, n, P) /\ Moves(a, b, n, P) /\ Moves(b, e, n, P) /\ Moves(e, f, n, P) /\ Moves(f, d, n, P) /\ P \cup P = P
  BY <1>1, <1>6, <1>7, <1>8, <1>9, <1>10, <1>11 DEF Adds
<1>13. PICK k \in Int : k = c.h
  OBVIOUS
<1>14. a.h = k - 1 /\ b.h = k /\ e.h = k /\ f.h = k /\ d.h = k - 1
  <2>1. a.h = k - 1
    BY <1>6, <1>13 DEF Adds
  <2>2. b.h = k
    BY <1>7, <1>13, <2>1 DEF Adds
  <2>3. e.h = k
    BY <1>8, <1>13, <2>2 DEF Adds
  <2>4. f.h = k
    BY <1>9, <1>13, <2>3 DEF Adds
  <2>5. d.h = k - 1
    BY <1>10, <1>13, <2>4 DEF Adds
  <2> QED BY <2>1, <2>2, <2>3, <2>4, <2>5
<1>15. Moves(b, f, n, P) /\ (FedFrom(b, e) /\ FedFrom(e, f) => FedFrom(b, f))
  BY <1>12, MovesOn
<1>16. Moves(b, d, n, P) /\ (FedFrom(b, f) /\ FedFrom(f, d) => FedFrom(b, d))
  BY <1>12, <1>15, MovesOn
<1>17. Moves(a, d, n, P) /\ (FedFrom(a, b) /\ FedFrom(b, d) => FedFrom(a, d))
  BY <1>12, <1>16, MovesOn
<1>18. Moves(c, d, n, P) /\ (FedFrom(c, a) /\ FedFrom(a, d) => FedFrom(c, d))
  BY <1>12, <1>17, MovesOn
<1>19. ASSUME c.h = 1 PROVE FedFrom(c, d)
  <2>1. 1 <= c.h /\ 0 <= a.h /\ 1 <= b.h /\ 1 <= e.h /\ 1 <= f.h
    BY <1>13, <1>14, <1>19
  <2>2. FedFrom(c, a) /\ FedFrom(a, b) /\ FedFrom(b, e) /\ FedFrom(e, f) /\ FedFrom(f, d)
    BY <1>6, <1>7, <1>8, <1>9, <1>10, <2>1 DEF Adds
  <2> QED BY <1>15, <1>16, <1>17, <1>18, <2>2
<1>20. Has(d, y, n) /\ Was(d, y, c.h, 1, 1)
  <2>1. Has(f, y, n) /\ Was(f, y, c.h, 1, 1)
    BY <1>5, <1>8, <1>9, <1>13, <1>14 DEF Adds
  <2> QED BY <1>12, <2>1, MovesHas
<1>21. Has(d, Len(c.inst) + 2, n) /\ Was(d, Len(c.inst) + 2, c.h - 1, 0, 1)
  <2>1. Pos(a) = Len(c.inst) + 2
    <3>1. Len(a.inst) = Len(c.inst) + 1 /\ Pos(a) = Len(a.inst) + 1 /\ Len(c.inst) \in Nat
      BY <1>6, <1>7 DEF Adds, Moves
    <3> QED BY SMTT(60), <3>1
  <2>2. Has(b, Pos(a), n) /\ Was(b, Pos(a), c.h - 1, 0, 1)
    BY <1>6, <1>7, <1>13, <1>14 DEF Adds
  <2>3. Has(b, Len(c.inst) + 2, n) /\ Was(b, Len(c.inst) + 2, c.h - 1, 0, 1)
    BY <2>1, <2>2
  <2> QED BY <1>16, <2>3, MovesHas
<1>22. Moves(c, d, n, {}) /\ d \in Chunks /\ d.h = c.h - 1 /\ d.outer = c.outer
  BY <1>10, <1>11, <1>13, <1>14, <1>18 DEF Moves
<1> QED BY <1>1, <1>19, <1>20, <1>21, <1>22 DEF Heads

LEMMA IterGone == ASSUME GInv, NEW D, Going(todo, chunks, loops, slips, D), Iter PROVE Gone
<1>1. todo # <<>> /\ It.do = "iter" /\ More(slips, slips') /\ slips' = slips
  BY DEF Iter, Parsing, It, More
<1>2. PICK k : k = D[Len(todo)]
  OBVIOUS
<1>3. PICK m, n, l, g : Looped(k, m, n, l, g)
  BY <1>1, <1>2, LoopedSo
<1>4. PICK K, M, A, d, L, u : Headed(K, M, A, d, L, u)
  BY IterHeaded
<1>5. K = Len(todo) /\ K \in Nat \ {0} /\ A \in Nat /\ A + 1 = Len(loops) /\ A = Len(loops) - 1 /\ M = Len(chunks)
      /\ Last(loops) = loops[A + 1]
  <2>1. K = Len(todo) /\ K \in Nat \ {0} /\ A \in Nat /\ Len(loops) \in Nat
    BY <1>4 DEF Headed, Stands
  <2>2. A = Len(loops) - 1 /\ M = Len(chunks) /\ Last(loops) = loops[A + 1]
    BY SMTT(60), <1>4 DEF Headed
  <2> QED BY <2>1, <2>2
<1>6. /\ L.jcond = Pos(Emit(Emit(Emit(Blk, 1, 0), 0, 1), 1, 1))
      /\ d = Emit(Hold(Emit(Emit(Emit(Blk, 1, 0), 0, 1), 1, 1), 1, 1), 1, 0)
      /\ L.id = l.id /\ L.retry = Pos(Blk) + 1 /\ L.breaks = l.breaks /\ L \in LoopInfos
  BY <1>3, <1>4, <1>5 DEF Headed, IsLoop, Looped
<1>7. /\ loops' \in Seq(LoopInfos) /\ Len(loops') = A + 1 /\ loops'[A + 1] = L
      /\ \A q \in 1 .. A : loops'[q] = loops[q]
      /\ u \in Seq(Items) /\ Len(u) = 2 /\ u[1].do = "loop" /\ u[2].do = "block"
      /\ Level(todo', K) = M /\ Level(todo', K + 1) = M /\ Around(todo', K) = A /\ Around(todo', K + 1) = A + 1
      /\ chunks'[M] = d /\ Len(chunks') = M
      /\ Below(todo, chunks, loops, u, todo', chunks', loops', d)
  BY SMTT(60), <1>4 DEF Headed
<1>8. /\ todo \in Seq(Items) /\ chunks \in Seq(Chunks) /\ loops \in Seq(LoopInfos) /\ Aligned(todo, chunks, loops)
      /\ Blk \in Chunks /\ Blk.h \in Int /\ Blk = chunks[M] /\ It = todo[K]
      /\ l = loops[A + 1] /\ g = loops[A] /\ l \in LoopInfos
      /\ Blk.outer \in Nat /\ Blk.outer <= A /\ m = Slice(loops, Blk.outer, A) /\ m \in Seq(LoopId)
      /\ Len(m) = A - Blk.outer
      /\ n = Slice(loops, Blk.outer, A + 1) /\ n = Append(m, l.id) /\ n = NestOf(Blk)
      /\ Level(todo, Len(todo)) = M /\ Around(todo, Len(todo)) = A
      /\ Stays(slips, It, k, Blk, m, l, g) /\ Flows(slips, Blk, n)
      /\ Pos(Blk) = Len(Blk.inst) + 1 /\ Len(Blk.inst) \in Nat
  BY <1>3, <1>5 DEF Looped
<1>9. slips' = {} => k = 1 /\ Blk.h = 1
  <2>1. Want(It) = 1
    BY <1>1, GapIs
  <2> QED BY <1>1, <1>3, <2>1 DEF Looped
<1>10. Heads(Blk, d, n, L.jcond)
  BY <1>6, <1>8, HeadMoves
<1>11. /\ Moves(Blk, d, n, {}) /\ d \in Chunks /\ d.outer = Blk.outer /\ Has(d, L.jcond, n)
       /\ Has(d, L.retry, n) /\ (slips' = {} => d.h = 0 /\ FedFrom(Blk, d)
                                   /\ Was(d, L.jcond, 1, 1, 1) /\ Was(d, L.retry, 0, 0, 1))
  <2>1. L.retry = Len(Blk.inst) + 2
    BY <1>6, <1>8
  <2>2. slips' = {} => 1 - 1 = 0 /\ Blk.h - 1 = 0
    BY <1>9
  <2> QED BY <1>9, <1>10, <2>1, <2>2 DEF Heads
<1>12. RetryIn(d, n, L)
  <2>1. L.retry \in 1 .. Len(d.inst) + 1
    BY <1>11 DEF Has, Chunks
  <2>2. Pre(n, d.inst[L.retry].nest)
    BY <1>11, PreSelf DEF Has
  <2> QED BY <2>1, <2>2 DEF RetryIn
<1>13. slips' = {} => RetryOn(d, L)
  <2>1. L.retry \in 1 .. Len(d.inst) + 1
    BY <1>11 DEF Has, Chunks
  <2> QED BY <1>11, <2>1 DEF RetryOn, Was, HAt
<1>14. PICK a, b : a = u[1] /\ b = u[2]
  OBVIOUS
<1>15. Stays(slips', a, 0, d, m, L, loops'[A])
  <2>1. ASSUME "outer" \notin slips' PROVE Nested(a, d, m, L, loops'[A])
    <3>1. \A o \in Range(l.breaks) : Has(Blk, o, n)
      BY <1>1, <1>8, <2>1 DEF Stays, Nested
    <3>2. \A o \in Range(L.breaks) : Has(d, o, n)
      BY <1>6, <1>11, <3>1, MovesHas
    <3>3. Append(m, L.id) = n
      BY <1>6, <1>8
    <3> QED BY <1>7, <1>11, <1>12, <1>14, <3>2, <3>3 DEF Nested
  <2>2. ASSUME slips' = {} PROVE Fed(a, 0, d, m, L, loops'[A])
    <3>1. \A o \in Range(l.breaks) : Was(Blk, o, 0, 0, 0)
      BY <1>1, <1>8, <2>2 DEF Stays, Fed
    <3>2. \A o \in Range(L.breaks) : Was(d, o, 0, 0, 0)
      BY <1>6, <1>11, <3>1, MovesHas
    <3>3. Want(a) = 0
      BY <1>7, <1>14, GapIs
    <3> QED BY <1>7, <1>11, <1>13, <1>14, <2>2, <3>2, <3>3 DEF Fed, Inner
  <2> QED BY <1>7, <1>14, <2>1, <2>2 DEF Stays
<1>16. Stays(slips', b, 0, d, n, loops'[A + 2], L)
  <2>1. Nested(b, d, n, loops'[A + 2], L)
    BY <1>7, <1>12, <1>14 DEF Nested
  <2>2. Want(b) = 0
    BY <1>7, <1>14, GapIs
  <2>3. slips' = {} => Fed(b, 0, d, n, loops'[A + 2], L)
    BY <1>7, <1>13, <1>14, <2>2 DEF Fed, Inner
  <2> QED BY <1>7, <1>14, <2>1, <2>3 DEF Stays
<1>17. Slice(loops', Blk.outer, A) = m /\ Slice(loops', Blk.outer, A + 1) = n
  <2>1. SameNames(loops, loops', A + 1)
    <3>1. \A q \in 1 .. A + 1 : q = A + 1 \/ q \in 1 .. A
      <4>1. A \in Nat
        BY <1>5
      <4> QED BY <4>1
    <3> QED BY <1>6, <1>7, <1>8, <3>1 DEF SameNames
  <2>2. SameNames(loops, loops', A)
    BY <1>7 DEF SameNames
  <2> QED BY SMTT(60), <1>5, <1>8, <2>1, <2>2, SliceSame
<1>18. PICK E : E = <<0, 0>>
  OBVIOUS
<1>19. E[1] = 0 /\ E[2] = 0
  BY <1>18
<1>20. Sits(todo, u, todo', chunks', loops', slips', E)
  <2> SUFFICES ASSUME NEW q \in 1 .. Len(u)
               PROVE  Stays(slips', u[q], E[q], chunks'[Level(todo', Len(todo) - 1 + q)],
                            ItsNest(todo', chunks', loops', Len(todo) - 1 + q),
                            loops'[Around(todo', Len(todo) - 1 + q) + 1], loops'[Around(todo', Len(todo) - 1 + q)])
    BY DEF Sits
  <2>1. q = 1 \/ q = 2
    BY <1>7
  <2>2. CASE q = 1
    <3>1. Len(todo) - 1 + q = K
      BY <1>5, <2>2
    <3>2. ItsNest(todo', chunks', loops', K) = m
      BY <1>7, <1>11, <1>17 DEF ItsNest
    <3> QED BY <1>7, <1>14, <1>15, <1>19, <2>2, <3>1, <3>2
  <2>3. CASE q = 2
    <3>1. Len(todo) - 1 + q = K + 1 /\ (A + 1) + 1 = A + 2
      BY <1>5, <2>3
    <3>2. ItsNest(todo', chunks', loops', K + 1) = n
      BY <1>7, <1>11, <1>17 DEF ItsNest
    <3> QED BY <1>7, <1>14, <1>16, <1>19, <2>3, <3>1, <3>2
  <2> QED BY <2>1, <2>2, <2>3
<1>21. slips' = {} => Chain(u, E, D[Len(todo)] + Gap(todo[Len(todo)]), chunks'[Len(chunks')].h)
  <2> SUFFICES ASSUME slips' = {} PROVE Chain(u, E, D[Len(todo)] + Gap(todo[Len(todo)]), chunks'[Len(chunks')].h)
    OBVIOUS
  <2>1. D[Len(todo)] + Gap(todo[Len(todo)]) = 0
    <3>1. Gap(It) = -1
      BY <1>1, GapIs
    <3> QED BY <1>2, <1>5, <1>8, <1>9, <3>1
  <2>2. Gap(u[1]) = 0 /\ Gap(u[2]) = 0
    BY <1>7, GapIs
  <2>3. Base(u[1], 0) = 0 /\ Base(u[2], 0) = 0
    BY DEF Base
  <2>4. Len(u) # 0 /\ \A q \in 1 .. Len(u) - 1 : q = 1 /\ q + 1 = 2
    BY <1>7
  <2>5. chunks'[Len(chunks')].h = 0
    BY <1>7, <1>11
  <2> QED BY <1>7, <1>19, <2>1, <2>2, <2>3, <2>4, <2>5 DEF Chain
<1>22. PICK P : P = {}
  OBVIOUS
<1>23. Moves(chunks[Level(todo, Len(todo))], d, Slice(loops, chunks[Level(todo, Len(todo))].outer, A + 1), P)
  BY <1>8, <1>11, <1>22
<1>24. Settles(slips', d, n, P)
  BY <1>22, SettlesNowhere
<1>25. Flows(slips', d, n)
  <2>1. Moves(Blk, d, n, P)
    BY <1>11, <1>22
  <2> QED BY <1>1, <1>8, <1>11, <1>24, <2>1, FlowOn
<1>26. Flows(slips', chunks'[Len(chunks')], Slice(loops', chunks'[Len(chunks')].outer, Len(loops')))
  BY <1>7, <1>11, <1>17, <1>25
<1>27. PICK B \in Nat : B = A + 1
  <2>1. A \in Nat
    BY <1>5
  <2> QED BY <2>1
<1>28. Around(todo, Len(todo)) <= B /\ B <= Len(loops)
       /\ Moves(chunks[Level(todo, Len(todo))], d, Slice(loops, chunks[Level(todo, Len(todo))].outer, B), P)
  BY <1>5, <1>8, <1>23, <1>27
<1>29. \E F : Going(todo', chunks', loops', slips', F)
  BY ZenonT(60), <1>1, <1>7, <1>8, <1>20, <1>21, <1>26, <1>28, StepGoes
<1> QED BY <1>29 DEF Gone

-----------------------------------------------------------------------------
(* The end of a loop *)

\* Without its last, the loops n are m; and the last is not one of them.
LEMMA PreButLast ==
    ASSUME NEW m \in Seq(LoopId), NEW e, \A q \in 1 .. Len(m) : m[q] # e, NEW n, n = Append(m, e)
    PROVE  PreBut(n, m)
<1>1. PICK b \in Nat : b = Len(m)
  OBVIOUS
<1>2. Len(n) = b + 1 /\ n[b + 1] = e /\ \A q \in 1 .. b : n[q] = m[q]
  BY <1>1
<1>3. Len(n) # 0 /\ Len(n) - 1 = b /\ n[Len(n)] = e
  BY <1>1, <1>2
<1> QED BY <1>1, <1>2, <1>3 DEF PreBut

\* c has been ended with the jump back to where the loop l begins, all in the loops n.
LeftAt(z, c, d, n, m, P) ==
    /\ Moves(c, d, n, P) /\ Settles(z, d, m, P) /\ d.h = c.h /\ Len(c.inst) < Len(d.inst)
    /\ z = {} => FedFrom(c, d)

\* What the loop l has left to patch in c.
Leaving(z, c, n, m, l) ==
    /\ "outer" \notin z => /\ PreBut(n, m) /\ RetryIn(c, n, l) /\ \A o \in Range(l.breaks) : Has(c, o, n)
                           /\ l.death \/ Has(c, l.jcond, n)
    /\ z = {} => /\ c.h = 0 /\ RetryOn(c, l) /\ \A o \in Range(l.breaks) : Was(c, o, 0, 0, 0)
                 /\ l.death \/ Was(c, l.jcond, 1, 1, 1)

LEMMA LeftEnds ==
    ASSUME loops \in Seq(LoopInfos), NEW c \in Chunks, c.h \in Int, NEW l \in LoopInfos, l.retry <= Pos(c),
           NEW n, n = NestOf(c), NEW m, NEW z, Leaving(z, c, n, m, l), NEW d, d = Left(c, l)
    PROVE  \E P : LeftAt(z, c, d, n, m, P)
<1>1. PICK j : j = JumpBack(c, l.retry)
  OBVIOUS
<1>2. PICK Q, p : Q = Range(l.breaks) /\ p = Patched(j, Q, "jmp", TRUE)
  OBVIOUS
<1>3. d = (IF l.death THEN p ELSE Patched(p, {l.jcond}, "foreach", TRUE))
  BY <1>1, <1>2 DEF Left, CondLeft
<1>4. l.retry \in 0 .. Pos(c)
  <2>1. l.retry \in Nat /\ Pos(c) \in Nat
    BY DEF LoopInfos, Where, Chunks, Pos
  <2> QED BY <2>1
<1>5. PICK to \in Nat : Codes(c, "jmp", 0, 0, to, n, j) /\ (Short(j.inst) => to = l.retry)
  BY <1>1, <1>4, JumpBackMoves
<1>6. PICK R : R = {Pos(c)}
  OBVIOUS
<1>7. /\ Moves(c, j, n, R) /\ j \in Chunks /\ j.h = c.h /\ (0 <= c.h => FedFrom(c, j)) /\ Len(c.inst) < Len(j.inst)
  <2>1. "jmp" \in Turns
    BY DEF Turns, Jumps
  <2>2. j.h = c.h - 0 + 0 /\ Len(j.inst) = Len(c.inst) + 1 /\ Len(c.inst) \in Nat /\ j \in Chunks
    BY <1>5 DEF Codes, Moves
  <2> QED BY <1>5, <1>6, <2>1, <2>2 DEF Codes
<1>8. Settles(z, j, m, R)
  <2>1. "outer" \notin z => RetryIn(c, n, l)
    BY DEF Leaving
  <2>2. z = {} => RetryOn(c, l) /\ c.h = 0
    BY DEF Leaving
  <2> QED BY <1>5, <1>6, <2>1, <2>2, JumpSettles
<1>9. Patches(j, Q, "jmp", TRUE, p)
  <2>1. "jmp" \in Jumps
    BY DEF Jumps
  <2> QED BY <1>2, <1>7, <2>1, PatchedIs
<1>10. p \in Chunks /\ p.h = j.h /\ Len(p.inst) = Len(j.inst)
  BY <1>9 DEF Patches
<1>11. Moves(j, p, n, Q) /\ Moves(j, p, m, Q) /\ FedFrom(j, p)
  BY <1>9, PatchedMoves
<1>12. Settles(z, p, m, Q)
  <2>1. "outer" \notin z => HeldIn(j, Q, TRUE, m)
    <3>1. "outer" \notin z => \A o \in Q : Has(c, o, n)
      BY <1>2 DEF Leaving
    <3>2. "outer" \notin z => \A o \in Q : Has(j, o, n)
      BY <1>7, <3>1, MovesHas
    <3>3. "outer" \notin z => PreBut(n, m)
      BY DEF Leaving
    <3> QED BY <3>2, <3>3 DEF HeldIn, Has
  <2>2. z = {} => HeldOn(j, Q, "jmp")
    <3>1. z = {} => \A o \in Q : Was(c, o, 0, 0, 0)
      BY <1>2 DEF Leaving
    <3>2. z = {} => \A o \in Q : Was(j, o, 0, 0, 0)
      BY <1>7, <3>1, MovesHas
    <3>3. z = {} => j.h = 0
      BY <1>7 DEF Leaving
    <3> QED BY <3>2, <3>3 DEF HeldOn
  <2> QED BY <1>9, <2>1, <2>2, PatchedSettles
<1>13. Moves(c, p, n, R \cup Q) /\ (FedFrom(c, j) /\ FedFrom(j, p) => FedFrom(c, p))
  BY <1>7, <1>11, MovesOn
<1>14. Settles(z, p, m, R \cup Q)
  BY <1>8, <1>11, <1>12, SettlesOn
<1>15. PICK S : S = R \cup Q
  OBVIOUS
<1>16. z = {} => FedFrom(c, p)
  <2>1. z = {} => 0 <= c.h
    BY DEF Leaving
  <2> QED BY <1>7, <1>11, <1>13, <2>1
<1>17. LeftAt(z, c, p, n, m, S)
  BY <1>7, <1>10, <1>13, <1>14, <1>15, <1>16 DEF LeftAt
<1>18. CASE l.death
  BY <1>3, <1>17, <1>18
<1>19. CASE ~ l.death
  <2>1. PICK T : T = {l.jcond}
    OBVIOUS
  <2>2. d = Patched(p, T, "foreach", TRUE)
    BY <1>3, <1>19, <2>1
  <2>3. Patches(p, T, "foreach", TRUE, d)
    <3>1. "foreach" \in Jumps
      BY DEF Jumps
    <3> QED BY <1>10, <2>2, <3>1, PatchedIs
  <2>4. d.h = p.h /\ Len(d.inst) = Len(p.inst)
    BY <2>3 DEF Patches
  <2>5. Moves(p, d, n, T) /\ Moves(p, d, m, T) /\ FedFrom(p, d)
    BY <2>3, PatchedMoves
  <2>6. Settles(z, d, m, T)
    <3>1. "outer" \notin z => HeldIn(p, T, TRUE, m)
      <4>1. "outer" \notin z => Has(c, l.jcond, n)
        BY <1>19 DEF Leaving
      <4>2. "outer" \notin z => Has(p, l.jcond, n)
        BY <1>13, <4>1, MovesHas
      <4>3. "outer" \notin z => PreBut(n, m)
        BY DEF Leaving
      <4> QED BY <2>1, <4>2, <4>3 DEF HeldIn, Has
    <3>2. z = {} => HeldOn(p, T, "foreach")
      <4>1. z = {} => Was(c, l.jcond, 1, 1, 1)
        BY <1>19 DEF Leaving
      <4>2. z = {} => Was(p, l.jcond, 1, 1, 1)
        BY <1>13, <4>1, MovesHas
      <4>3. z = {} => p.h + 1 = 1
        BY <1>7, <1>10 DEF Leaving
      <4> QED BY <2>1, <4>2, <4>3 DEF HeldOn
    <3> QED BY <2>3, <3>1, <3>2, PatchedSettles
  <2>7. Moves(c, p, n, S) /\ Settles(z, p, m, S)
    BY <1>17 DEF LeftAt
  <2>8. Moves(c, d, n, S \cup T) /\ (FedFrom(c, p) /\ FedFrom(p, d) => FedFrom(c, d))
    BY <2>5, <2>7, MovesOn
  <2>9. Settles(z, d, m, S \cup T)
    BY <2>5, <2>6, <2>7, SettlesOn
  <2>10. d.h = c.h /\ Len(c.inst) < Len(d.inst)
    BY <1>7, <1>10, <2>4
  <2>11. z = {} => FedFrom(c, d)
    BY <1>16, <2>5, <2>8
  <2>12. LeftAt(z, c, d, n, m, S \cup T)
    BY <2>8, <2>9, <2>10, <2>11 DEF LeftAt
  <2> QED BY <2>12
<1> QED BY <1>18, <1>19

LEMMA EndLoopGone ==
    ASSUME GInv, Ranked(loops), NEW D, Going(todo, chunks, loops, slips, D), EndLoop PROVE Gone
<1>1. todo # <<>> /\ It.do = "loop" /\ More(slips, slips') /\ slips' = slips
  BY DEF EndLoop, Parsing, It, More
<1>2. PICK k : k = D[Len(todo)]
  OBVIOUS
<1>3. PICK m, n, l, g : Looped(k, m, n, l, g)
  BY <1>1, <1>2, LoopedSo
<1>4. PICK K, M, A, d, y : Leaves(K, M, A, d, y)
  BY LoopLeft
<1>5. K = Len(todo) /\ K \in Nat \ {0} /\ A \in Nat /\ A + 1 = Len(loops) /\ A = Len(loops) - 1 /\ M = Len(chunks)
  <2>1. K = Len(todo) /\ K \in Nat \ {0} /\ A \in Nat /\ Len(loops) \in Nat
    BY <1>4 DEF Leaves, Stands
  <2>2. A = Len(loops) - 1 /\ M = Len(chunks)
    BY SMTT(60), <1>4 DEF Leaves
  <2> QED BY <2>1, <2>2
<1>6. /\ todo \in Seq(Items) /\ chunks \in Seq(Chunks) /\ loops \in Seq(LoopInfos) /\ Aligned(todo, chunks, loops)
      /\ Blk \in Chunks /\ Blk.h \in Int /\ Blk = chunks[M] /\ It = todo[K]
      /\ l = loops[A + 1] /\ g = loops[A] /\ l \in LoopInfos
      /\ Blk.outer \in Nat /\ Blk.outer <= A /\ m = Slice(loops, Blk.outer, A) /\ m \in Seq(LoopId)
      /\ Len(m) = A - Blk.outer
      /\ n = Slice(loops, Blk.outer, A + 1) /\ n = Append(m, l.id) /\ n = NestOf(Blk)
      /\ Level(todo, Len(todo)) = M /\ Around(todo, Len(todo)) = A
      /\ Stays(slips, It, k, Blk, m, l, g) /\ Flows(slips, Blk, n)
      /\ Pos(Blk) = Len(Blk.inst) + 1 /\ Len(Blk.inst) \in Nat
  BY <1>3, <1>5 DEF Looped
<1>7. /\ l.retry <= Pos(Blk) /\ d = Left(Blk, l)
      /\ loops' \in Seq(LoopInfos) /\ Len(loops') = A /\ \A q \in 1 .. A : loops'[q] = loops[q]
      /\ chunks'[M] = d /\ Len(chunks') = M
      /\ Below(todo, chunks, loops, <<>>, todo', chunks', loops', d)
  <2>1. y = l
    BY <1>4, <1>6 DEF Leaves
  <2> QED BY SMTT(60), <1>4, <2>1 DEF Leaves
<1>8. slips' = {} => k = 0 /\ Blk.h = 0
  <2>1. Want(It) = 0
    BY <1>1, GapIs
  <2> QED BY <1>1, <1>3, <2>1 DEF Looped
<1>9. PreBut(n, m)
  <2>1. ASSUME NEW q \in 1 .. Len(m) PROVE m[q] # l.id
    <3>1. PICK o \in Nat : o = Blk.outer
      BY <1>6
    <3>2. q \in 1 .. A - o /\ o + q \in 1 .. A /\ o + q \in 1 .. Len(loops) /\ A + 1 \in 1 .. Len(loops)
      <4>1. A \in Nat /\ A + 1 = Len(loops)
        BY <1>5
      <4>2. Len(m) = A - o /\ o <= A
        BY <1>6, <3>1
      <4> QED BY SMTT(60), <3>1, <4>1, <4>2
    <3>3. m[q] = loops[o + q].id
      BY <1>6, <3>1, <3>2 DEF Slice
    <3>4. loops[o + q].id[2] = (o + q) - 1 /\ loops[A + 1].id[2] = (A + 1) - 1
      BY <3>2 DEF Ranked
    <3>5. (o + q) - 1 # (A + 1) - 1
      <4>1. A \in Nat
        BY <1>5
      <4>2. q \in Nat /\ o + q \in 1 .. A
        BY <3>2
      <4> QED BY <3>1, <4>1, <4>2
    <3> QED BY <1>6, <3>3, <3>4, <3>5
  <2> QED BY <1>6, <2>1, PreButLast
<1>10. Leaving(slips', Blk, n, m, l)
  <2>1. ASSUME "outer" \notin slips'
        PROVE  /\ RetryIn(Blk, n, l) /\ \A o \in Range(l.breaks) : Has(Blk, o, n)
               /\ l.death \/ Has(Blk, l.jcond, n)
    <3>1. Nested(It, Blk, m, l, g)
      BY <1>1, <1>6, <2>1 DEF Stays
    <3> QED BY <1>1, <1>6, <3>1 DEF Nested
  <2>2. ASSUME slips' = {}
        PROVE  /\ RetryOn(Blk, l) /\ \A o \in Range(l.breaks) : Was(Blk, o, 0, 0, 0)
               /\ l.death \/ Was(Blk, l.jcond, 1, 1, 1)
    <3>1. Fed(It, k, Blk, m, l, g)
      BY <1>1, <1>6, <2>2 DEF Stays
    <3> QED BY <1>1, <3>1 DEF Fed
  <2> QED BY <1>8, <1>9, <2>1, <2>2 DEF Leaving
<1>11. PICK P : LeftAt(slips', Blk, d, n, m, P)
  BY <1>6, <1>7, <1>10, LeftEnds
<1>12. /\ Moves(Blk, d, n, P) /\ Settles(slips', d, m, P) /\ d.h = Blk.h /\ Len(Blk.inst) < Len(d.inst)
       /\ (slips' = {} => FedFrom(Blk, d)) /\ d.outer = Blk.outer
  BY <1>11 DEF LeftAt, Moves
<1>13. Slice(loops', Blk.outer, A) = m
  <2>1. SameNames(loops, loops', A)
    BY <1>7 DEF SameNames
  <2> QED BY SMTT(60), <1>5, <1>6, <2>1, SliceSame
<1>14. Flows(slips', d, m)
  <2>1. PICK e \in Nat, f \in Nat : e = Len(Blk.inst) /\ f = Len(d.inst) /\ e <= f
    BY <1>12 DEF Moves
  <2>2. NAt(Blk.inst, n, e + 1) = n /\ e + 1 \in 1 .. e + 1
    <3>1. e + 1 \notin 1 .. e /\ e + 1 \in 1 .. e + 1
      BY <2>1
    <3> QED BY <2>1, <3>1 DEF NAt
  <2>3. \A q \in 1 .. Len(n) : n[q][1] \in 0 .. e + 1
    BY <1>6, <2>1, <2>2 DEF Flows, Chained
  <2>4. \A q \in 1 .. Len(m) : q \in 1 .. Len(n) /\ m[q] = n[q]
    <3>1. PICK b \in Nat : b = Len(m)
      BY <1>6
    <3>2. Len(n) = b + 1 /\ \A q \in 1 .. b : n[q] = m[q]
      <4>1. m \in Seq(LoopId) /\ n = Append(m, l.id)
        BY <1>6
      <4> QED BY <3>1, <4>1
    <3> QED BY <3>1, <3>2
  <2>5. \A q \in 1 .. Len(m) : m[q][1] \in 0 .. f + 1
    <3>1. \A q \in 1 .. Len(m) : m[q][1] \in 0 .. e + 1
      BY <2>3, <2>4
    <3>2. \A v \in 0 .. e + 1 : v \in 0 .. f + 1
      BY <2>1
    <3> QED BY <3>1, <3>2
  <2>6. Len(Blk.inst) < Len(d.inst) /\ \A q \in 1 .. Len(m) : m[q][1] \in 0 .. Len(d.inst) + 1
    BY <1>12, <2>1, <2>5
  <2>7. Flows(slips, Blk, n) /\ Moves(Blk, d, n, P) /\ Settles(slips', d, m, P) /\ (slips' = {} => FedFrom(Blk, d))
    BY <1>6, <1>12
  <2> QED BY <1>1, <2>6, <2>7, FlowMoves
<1>15. Flows(slips', chunks'[Len(chunks')], Slice(loops', chunks'[Len(chunks')].outer, Len(loops')))
  BY <1>7, <1>12, <1>13, <1>14
<1>16. PICK u : u = <<>>
  OBVIOUS
<1>17. Len(u) = 0
  BY <1>16
<1>18. Sits(todo, u, todo', chunks', loops', slips', u)
  BY <1>17 DEF Sits
<1>19. slips' = {} => Chain(u, u, D[Len(todo)] + Gap(todo[Len(todo)]), chunks'[Len(chunks')].h)
  <2>1. Gap(It) = 0
    BY <1>1, GapIs
  <2>2. slips' = {} => D[Len(todo)] = 0 /\ chunks'[Len(chunks')].h = 0 /\ todo[Len(todo)] = It
    BY <1>2, <1>5, <1>6, <1>7, <1>8, <1>12
  <2> QED BY <1>17, <2>1, <2>2 DEF Chain
<1>20. PICK B \in Nat : B = A + 1
  <2>1. A \in Nat
    BY <1>5
  <2> QED BY <2>1
<1>21. Around(todo, Len(todo)) <= B /\ B <= Len(loops)
       /\ Moves(chunks[Level(todo, Len(todo))], d, Slice(loops, chunks[Level(todo, Len(todo))].outer, B), P)
  BY <1>5, <1>6, <1>12, <1>20
<1>22. Below(todo, chunks, loops, u, todo', chunks', loops', d)
  BY <1>7, <1>16
<1>23. \E F : Going(todo', chunks', loops', slips', F)
  BY ZenonT(60), <1>1, <1>6, <1>15, <1>18, <1>19, <1>21, <1>22, StepGoes
<1> QED BY <1>23 DEF Gone

-----------------------------------------------------------------------------
(* Functions in functions *)

\* Code of a function that is entered.
LEMMA FlowsFresh ==
    ASSUME NEW z, NEW c, c.inst = <<>>, c.h = 0, NEW n, Len(n) = 0
    PROVE  Flows(z, c, n)
<1>1. Len(c.inst) = 0
  OBVIOUS
<1>2. 1 .. Len(c.inst) = {} /\ 1 \notin 1 .. Len(c.inst) /\ Len(c.inst) + 1 = 1
  BY <1>1
<1>3. Chained(c.inst, c.h, n)
  <2>1. HAt(c.inst, c.h, 1) = 0
    BY <1>2 DEF HAt
  <2>2. ASSUME NEW i \in 1 .. Len(c.inst) + 1
        PROVE  \A q \in 1 .. Len(NAt(c.inst, n, i)) : NAt(c.inst, n, i)[q][1] \in 0 .. i
    <3>1. i \notin 1 .. Len(c.inst)
      BY <1>2
    <3>2. NAt(c.inst, n, i) = n
      BY <3>1 DEF NAt
    <3> QED BY <3>2
  <2> QED BY <1>2, <2>1, <2>2 DEF Chained
<1> QED BY <1>2, <1>3 DEF Flows, FlowsIn, Feeds, FlowsOn

\* A function is entered from c, which comes of the innermost function.
LEMMA NestGoes ==
    ASSUME GInv, todo # <<>>, It.do \in {"expr", "block"}, NEW D, Going(todo, chunks, loops, slips, D),
           UNCHANGED <<loops, slips>>, NEW c \in Chunks, NEW load \in Nat, Enter(c, load),
           NEW P, P = {}, Moves(Blk, c, NestOf(Blk), P),
           slips = {} /\ Blk.h >= 0 => FedFrom(Blk, c) /\ c.h = Blk.h + Gap(It)
    PROVE  Gone
<1>1. It.do \notin Deep /\ More(slips, slips') /\ slips' = slips
  BY DEF Deep, More
<1>2. PICK n, g : Stood(n, g)
  BY <1>1, StoodSo
<1>3. PICK K, M, A, w, u : Nests(K, M, A, w, u, c, load)
  BY FuncNests
<1>4. /\ todo \in Seq(Items) /\ chunks \in Seq(Chunks) /\ loops \in Seq(LoopInfos)
      /\ K = Len(todo) /\ K \in Nat \ {0} /\ todo[K] = It /\ M = Level(todo, K) /\ M \in Nat \ {0}
      /\ A = Around(todo, K) /\ A \in Nat /\ M = Len(chunks) /\ A = Len(loops) /\ Blk = chunks[M]
  BY <1>3 DEF Nests, Stands
<1>5. /\ u \in Seq(Items) /\ w \in 0 .. 1 /\ Len(u) = w + 2 /\ w \in Nat
      /\ u[w + 1].do = "func" /\ u[w + 2].do = "block"
      /\ (w = 1 => u[1] = It /\ It.do = "block") /\ (w = 0 => It.do # "block")
  BY <1>3 DEF Nests, Entered, IsItem
<1>6. /\ Len(chunks') = M + 1 /\ chunks'[M] = c /\ chunks'[M + 1] = Fresh
      /\ Level(todo', K) = M /\ Level(todo', K + w) = M /\ Level(todo', K + w + 1) = M + 1
      /\ Around(todo', K) = A /\ Around(todo', K + w) = A /\ Around(todo', K + w + 1) = A
      /\ Len(todo) - 1 + (w + 1) = K + w /\ Len(todo) - 1 + (w + 2) = K + w + 1 /\ Len(todo) - 1 + 1 = K
      /\ \A q \in 1 .. Len(u) : (q = 1 /\ w = 1) \/ q = w + 1 \/ q = w + 2
      /\ Below(todo, chunks, loops, u, todo', chunks', loops', c)
  BY <1>3 DEF Nests
<1>7. /\ Blk \in Chunks /\ Blk.h \in Int /\ n = NestOf(Blk) /\ g = loops[A] /\ Lies(slips, It, Blk.h, Blk, n, g)
      /\ Flows(slips, Blk, n) /\ (slips = {} => Blk.h >= 0)
  BY <1>2, <1>4 DEF Stood
<1>8. Aligned(todo, chunks, loops) /\ loops' = loops
  BY DEF GInv, Parsed
<1>9. PICK o \in Nat : o = Blk.outer /\ o <= A
  <2>1. K \in 1 .. Len(todo) + 1
    BY <1>4
  <2> QED BY <1>4, <1>8, <2>1, OuterBelow
<1>10. n = Slice(loops, o, A)
  BY <1>4, <1>7, <1>9, NestSlice
<1>11. c.outer = o /\ Moves(Blk, c, n, P)
  BY <1>7, <1>9 DEF Moves
<1>12. Flows(slips', c, n)
  <2>1. Settles(slips', c, n, P)
    BY SettlesNowhere
  <2>2. slips' = {} => FedFrom(Blk, c)
    BY <1>1, <1>7
  <2> QED BY <1>1, <1>7, <1>11, <2>1, <2>2, FlowOn
<1>13. PICK b : b = Slice(loops, A, A)
  OBVIOUS
<1>14. Len(b) = 0
  <2>1. A \in Nat /\ A <= A /\ A <= Len(loops) /\ loops \in Seq(LoopInfos)
    BY <1>4
  <2>2. Len(Slice(loops, A, A)) = A - A
    BY <2>1, SliceIs
  <2> QED BY <1>13, <2>1, <2>2
<1>15. Fresh.inst = <<>> /\ Fresh.h = 0 /\ Fresh.outer = A
  BY <1>4 DEF Fresh
<1>16. Flows(slips', chunks'[Len(chunks')], Slice(loops', chunks'[Len(chunks')].outer, Len(loops')))
  BY <1>4, <1>6, <1>8, <1>13, <1>14, <1>15, FlowsFresh
<1>17. PICK E : E = [q \in 1 .. w + 2 |-> IF q = w + 1 THEN c.h ELSE 0]
  OBVIOUS
<1>18. E[w + 1] = c.h /\ E[w + 2] = 0 /\ (w = 1 => E[1] = 0)
  BY <1>5, <1>17
<1>19. ASSUME w = 1 PROVE Stays(slips', It, 0, c, n, loops[A + 1], loops[A])
  <2>1. It.do = "block"
    BY <1>5, <1>19
  <2>2. Want(It) = 0
    BY <2>1, GapIs
  <2>3. Holding(slips', It, It, c, n)
    BY <2>1 DEF Holding
  <2>4. Lies(slips', It, 0, c, n, g)
    BY <1>1, <1>7, <1>11, <2>1, <2>2, <2>3, IfLies
  <2>5. Stays(slips', It, 0, c, n, g, g)
    BY <2>1, <2>4 DEF Lies, Stays
  <2> QED BY <1>7, <2>1, <2>5, StaysAlone
<1>20. Stays(slips', u[w + 1], c.h, c, n, loops[A + 1], loops[A])
  <2>1. Nested(u[w + 1], c, n, loops[A + 1], loops[A])
    BY <1>5 DEF Nested
  <2>2. Fed(u[w + 1], c.h, c, n, loops[A + 1], loops[A])
    BY <1>5 DEF Fed, Inner
  <2> QED BY <1>12, <2>1, <2>2 DEF Stays
<1>21. Stays(slips', u[w + 2], 0, Fresh, b, loops[A + 1], loops[A])
  <2>1. Nested(u[w + 2], Fresh, b, loops[A + 1], loops[A])
    BY <1>5, <1>14 DEF Nested
  <2>2. Want(u[w + 2]) = 0
    BY <1>5, GapIs
  <2>3. Fed(u[w + 2], 0, Fresh, b, loops[A + 1], loops[A])
    BY <1>5, <1>14, <2>2 DEF Fed
  <2> QED BY <1>5, <2>1, <2>3 DEF Stays
<1>22. Sits(todo, u, todo', chunks', loops', slips', E)
  <2> SUFFICES ASSUME NEW q \in 1 .. Len(u)
               PROVE  Stays(slips', u[q], E[q], chunks'[Level(todo', Len(todo) - 1 + q)],
                            ItsNest(todo', chunks', loops', Len(todo) - 1 + q),
                            loops'[Around(todo', Len(todo) - 1 + q) + 1], loops'[Around(todo', Len(todo) - 1 + q)])
    BY DEF Sits
  <2>1. (q = 1 /\ w = 1) \/ q = w + 1 \/ q = w + 2
    BY <1>6
  <2>2. CASE q = 1 /\ w = 1
    <3>1. Len(todo) - 1 + q = K
      BY <1>6, <2>2
    <3>2. ItsNest(todo', chunks', loops', K) = n
      BY <1>6, <1>8, <1>10, <1>11 DEF ItsNest
    <3> QED BY <1>5, <1>6, <1>8, <1>18, <1>19, <2>2, <3>1, <3>2
  <2>3. CASE q = w + 1
    <3>1. Len(todo) - 1 + q = K + w
      BY <1>6, <2>3
    <3>2. ItsNest(todo', chunks', loops', K + w) = n
      BY <1>6, <1>8, <1>10, <1>11 DEF ItsNest
    <3> QED BY <1>6, <1>8, <1>18, <1>20, <2>3, <3>1, <3>2
  <2>4. CASE q = w + 2
    <3>1. Len(todo) - 1 + q = K + w + 1
      BY <1>6, <2>4
    <3>2. ItsNest(todo', chunks', loops', K + w + 1) = b
      BY <1>6, <1>8, <1>13, <1>15 DEF ItsNest
    <3> QED BY <1>6, <1>8, <1>18, <1>21, <2>4, <3>1, <3>2
  <2> QED BY <2>1, <2>2, <2>3, <2>4
<1>23. slips' = {} => Chain(u, E, D[Len(todo)] + Gap(todo[Len(todo)]), chunks'[Len(chunks')].h)
  <2> SUFFICES ASSUME slips' = {} PROVE Chain(u, E, D[Len(todo)] + Gap(todo[Len(todo)]), chunks'[Len(chunks')].h)
    OBVIOUS
  <2>1. D[Len(todo)] = Blk.h
    BY <1>1, TopKnows
  <2>2. c.h = Blk.h + Gap(It) /\ c.h \in Int
    <3>1. c.h \in Int
      BY DEF Chunks
    <3> QED BY <1>1, <1>7, <3>1
  <2>3. D[Len(todo)] + Gap(todo[Len(todo)]) = c.h
    BY <1>4, <2>1, <2>2
  <2>4. Gap(u[w + 1]) = 0 /\ Gap(u[w + 2]) = 0
    BY <1>5, GapIs
  <2>5. Base(u[w + 1], c.h) = 0 /\ Base(u[w + 2], 0) = 0
    BY <1>5 DEF Base
  <2>6. chunks'[Len(chunks')].h = 0
    BY <1>6, <1>15
  <2>7. CASE w = 0
    <3>1. Len(u) # 0 /\ w + 1 = 1 /\ w + 2 = 2 /\ Len(u) = 2 /\ \A q \in 1 .. Len(u) - 1 : q = 1 /\ q + 1 = 2
      BY <1>5, <2>7
    <3>2. E[1] = c.h /\ E[2] = 0 /\ Gap(u[1]) = 0 /\ Gap(u[2]) = 0 /\ Base(u[1], c.h) = 0 /\ Base(u[2], 0) = 0
      BY <1>18, <2>4, <2>5, <3>1
    <3> QED BY <2>2, <2>3, <2>6, <3>1, <3>2 DEF Chain
  <2>8. CASE w = 1
    <3>1. Len(u) # 0 /\ w + 1 = 2 /\ w + 2 = 3 /\ Len(u) = 3
          /\ \A q \in 1 .. Len(u) - 1 : (q = 1 /\ q + 1 = 2) \/ (q = 2 /\ q + 1 = 3)
      BY <1>5, <2>8
    <3>2. E[1] = 0 /\ E[2] = c.h /\ E[3] = 0 /\ Gap(u[2]) = 0 /\ Gap(u[3]) = 0
          /\ Base(u[2], c.h) = 0 /\ Base(u[3], 0) = 0
      BY <1>18, <2>4, <2>5, <2>8, <3>1
    <3>3. u[1] = It /\ It.do = "block" /\ Gap(It) = 0 /\ Base(u[1], 0) = 0
      <4>1. u[1] = It /\ It.do = "block"
        BY <1>5, <2>8
      <4> QED BY <4>1, GapIs DEF Base
    <3>4. c.h = 0
      <4>1. Blk.h = 0
        <5>1. Want(It) = 0
          BY <3>3, GapIs
        <5> QED BY <1>1, <1>7, <3>3, <5>1 DEF Lies, Fed, Inner
      <4> QED BY <2>2, <3>3, <4>1
    <3> QED BY <2>3, <2>6, <3>1, <3>2, <3>3, <3>4 DEF Chain
  <2> QED BY <1>5, <2>7, <2>8
<1>24. Moves(chunks[Level(todo, Len(todo))], c, Slice(loops, chunks[Level(todo, Len(todo))].outer, A), P)
  BY <1>4, <1>9, <1>10, <1>11
<1>25. Around(todo, Len(todo)) <= A /\ A <= Len(loops)
  BY <1>4
<1>26. \E F : Going(todo', chunks', loops', slips', F)
  BY <1>1, <1>4, <1>6, <1>8, <1>16, <1>22, <1>23, <1>24, <1>25, StepGoes
<1> QED BY <1>26 DEF Gone

\* n values are bound to the function just loaded.
LEMMA BindsMoves ==
    ASSUME loops \in Seq(LoopInfos), NEW c \in Chunks, c.h \in Int, NEW n \in Nat, NEW d, d = Binds(c, n)
    PROVE  /\ Moves(c, d, NestOf(c), {}) /\ d \in Chunks /\ d.h = c.h
           /\ c.h >= 1 => FedFrom(c, d)
<1>1. CASE n = 0
  <2>1. d = c
    BY <1>1 DEF Binds
  <2> QED BY <2>1, MovesNowhere
<1>2. CASE n # 0
  <2>1. PICK a, m : a = Pushes(c, n) /\ m = NestOf(c)
    OBVIOUS
  <2>2. d = Emit(a, n + 1, 1)
    BY <1>2, <2>1 DEF Binds
  <2>3. Data(c, c.h + n, a) /\ (c.h >= 0 => FedFrom(c, a))
    BY <2>1, PushesMoves
  <2>4. PICK k \in Int : k = c.h
    OBVIOUS
  <2>5. a \in Chunks /\ a.h = k + n /\ NestOf(a) = m /\ Moves(c, a, m, {})
    BY <2>1, <2>3, <2>4 DEF Data
  <2>6. PICK e \in Nat : e = n + 1
    OBVIOUS
  <2>7. Adds(a, e, 1, "data", d)
    BY <2>2, <2>5, <2>6, EmitMoves
  <2>8. d \in Chunks /\ d.h = a.h - e + 1 /\ Moves(a, d, m, {}) /\ (e <= a.h => FedFrom(a, d))
    BY <2>5, <2>7 DEF Adds
  <2>9. d.h = k
    BY <2>4, <2>5, <2>6, <2>8
  <2>10. PICK P : P = {}
    OBVIOUS
  <2>11. Moves(c, d, m, P \cup P) /\ (FedFrom(c, a) /\ FedFrom(a, d) => FedFrom(c, d))
    BY <2>5, <2>8, <2>10, MovesOn
  <2>12. c.h >= 1 => FedFrom(c, d)
    <3>1. k >= 1 => k >= 0 /\ e <= k + n
      BY <2>6
    <3> QED BY <2>3, <2>4, <2>5, <2>8, <2>11, <3>1
  <2> QED BY <2>1, <2>4, <2>8, <2>9, <2>10, <2>11, <2>12
<1> QED BY <1>1, <1>2

\* A function is loaded where it is held, and n values are bound to it.
LEMMA ClosureGone ==
    ASSUME GInv, NEW D, Going(todo, chunks, loops, slips, D), NEW n \in Nat, Closure(n) PROVE Gone
<1>1. PICK a, d : a = Hold(Blk, 0, 1) /\ d = Binds(a, n)
  OBVIOUS
<1>2. /\ todo # <<>> /\ It.do = "expr" /\ UNCHANGED <<loops, slips>> /\ Enter(d, Pos(Blk))
  BY <1>1 DEF Closure, Parsing, It, Neutral
<1>3. It.do \notin Deep /\ Gap(It) = 1
  BY <1>2, GapIs DEF Deep
<1>4. PICK m, g : Stood(m, g)
  BY <1>2, <1>3, StoodSo
<1>5. Blk \in Chunks /\ Blk.h \in Int /\ loops \in Seq(LoopInfos) /\ m = NestOf(Blk)
  BY <1>4 DEF Stood
<1>6. Adds(Blk, 0, 1, "panic", a)
  BY <1>1, <1>5, HoldMoves
<1>7. PICK k \in Int : k = Blk.h
  BY <1>5
<1>8. /\ a \in Chunks /\ a.h = k + 1 /\ NestOf(a) = m /\ Moves(Blk, a, m, {}) /\ (0 <= k => FedFrom(Blk, a))
      /\ Pos(Blk) \in Nat
  <2>1. a.h = k - 0 + 1
    BY <1>6, <1>7 DEF Adds
  <2> QED BY <1>5, <1>6, <1>7, <2>1 DEF Adds
<1>9. /\ Moves(a, d, m, {}) /\ d \in Chunks /\ d.h = a.h /\ (a.h >= 1 => FedFrom(a, d))
  <2>1. a.h \in Int
    BY <1>8
  <2> QED BY <1>1, <1>5, <1>8, <2>1, BindsMoves
<1>10. PICK P : P = {}
  OBVIOUS
<1>11. Moves(Blk, d, NestOf(Blk), P) /\ (FedFrom(Blk, a) /\ FedFrom(a, d) => FedFrom(Blk, d))
  <2>1. Moves(Blk, d, m, P \cup P) /\ (FedFrom(Blk, a) /\ FedFrom(a, d) => FedFrom(Blk, d))
    BY <1>8, <1>9, <1>10, MovesOn
  <2> QED BY <1>5, <1>10, <2>1
<1>12. slips = {} /\ Blk.h >= 0 => FedFrom(Blk, d) /\ d.h = Blk.h + Gap(It)
  <2>1. k >= 0 => 0 <= k /\ k + 1 >= 1
    OBVIOUS
  <2> QED BY <1>3, <1>7, <1>8, <1>9, <1>11, <2>1
<1> QED BY <1>2, <1>8, <1>9, <1>10, <1>11, <1>12, NestGoes

\* func f() {}, and func a.b.c() {}: what stores the function once it is loaded.
LEMMA PathMoves ==
    ASSUME loops \in Seq(LoopInfos), NEW c \in Chunks, c.h \in Int, NEW names \in Int,
           NEW e, e = Hold(IF names = 1 THEN c ELSE Fields(Emit(c, 0, 1), names - 2), 0, 1),
           NEW d, d = (IF names = 1 THEN Emit(e, 1, 0) ELSE Emit(e, 2, 0))
    PROVE  /\ Moves(c, d, NestOf(c), {}) /\ d \in Chunks /\ d.h = c.h /\ Len(e.inst) \in Nat
           /\ c.h >= 0 => FedFrom(c, d)
<1>0. PICK k \in Int : k = c.h
  OBVIOUS
<1>1. PICK m : m = NestOf(c) /\ k = c.h
  BY <1>0
<1>2. PICK P : P = {} /\ P \cup P = P
  OBVIOUS
<1>3. ASSUME NEW a \in Chunks, NEW j \in Nat, a.h = k + j, NestOf(a) = m, e = Hold(a, 0, 1), d = Emit(e, j + 1, 0)
      PROVE  /\ Moves(a, d, m, P) /\ d \in Chunks /\ d.h = k /\ Len(e.inst) \in Nat
             /\ k >= 0 => FedFrom(a, d)
  <2>1. Adds(a, 0, 1, "panic", e)
    BY <1>3, HoldMoves
  <2>2. PICK b \in Int : b = a.h
    BY <1>3
  <2>3. e.h = b - 0 + 1 /\ e \in Chunks /\ NestOf(e) = m /\ Moves(a, e, m, {}) /\ (0 <= b => FedFrom(a, e))
    BY <1>3, <2>1, <2>2 DEF Adds
  <2>4. PICK t \in Nat : t = j + 1
    OBVIOUS
  <2>5. Adds(e, t, 0, "data", d)
    BY <1>3, <2>3, <2>4, EmitMoves
  <2>6. d.h = e.h - t + 0 /\ d \in Chunks /\ Moves(e, d, m, {}) /\ (t <= e.h => FedFrom(e, d))
    BY <2>3, <2>5 DEF Adds
  <2>7. d.h = k /\ (k >= 0 => t <= e.h)
    BY <1>3, <2>2, <2>3, <2>4, <2>6
  <2>8. Moves(a, d, m, P \cup P) /\ (FedFrom(a, e) /\ FedFrom(e, d) => FedFrom(a, d))
    BY <1>2, <2>3, <2>6, MovesOn
  <2>9. k >= 0 => 0 <= b
    BY SMTT(60), <1>3, <2>2
  <2>10. Len(e.inst) \in Nat
    BY <2>6 DEF Moves
  <2> QED BY <1>2, <2>3, <2>6, <2>7, <2>8, <2>9, <2>10
<1>4. CASE names = 1
  <2>1. e = Hold(c, 0, 1) /\ d = Emit(e, 0 + 1, 0) /\ c.h = k + 0 /\ NestOf(c) = m
    BY <1>1, <1>4
  <2> QED BY <1>1, <1>2, <1>3, <2>1
<1>5. CASE names # 1
  <2>1. PICK a, b : a = Emit(c, 0, 1) /\ b = Fields(a, names - 2)
    OBVIOUS
  <2>2. e = Hold(b, 0, 1) /\ d = Emit(e, 1 + 1, 0)
    BY <1>5, <2>1
  <2>3. Adds(c, 0, 1, "data", a)
    BY <2>1, EmitMoves
  <2>4. a.h = k - 0 + 1 /\ a \in Chunks /\ NestOf(a) = m /\ Moves(c, a, m, P) /\ (0 <= k => FedFrom(c, a))
    BY <1>1, <1>2, <2>3 DEF Adds
  <2>5. PICK j \in Int : j = names - 2
    OBVIOUS
  <2>6. Data(a, a.h, b) /\ (a.h >= 1 => FedFrom(a, b))
    BY <2>1, <2>4, <2>5, FieldsMoves
  <2>7. b \in Chunks /\ b.h = k + 1 /\ NestOf(b) = m /\ Moves(a, b, m, P)
    BY <1>2, <2>4, <2>6 DEF Data
  <2>8. /\ Moves(b, d, m, P) /\ d \in Chunks /\ d.h = k /\ Len(e.inst) \in Nat
        /\ k >= 0 => FedFrom(b, d)
    BY <1>3, <2>2, <2>7
  <2>9. Moves(c, b, m, P \cup P) /\ (FedFrom(c, a) /\ FedFrom(a, b) => FedFrom(c, b))
    BY <2>4, <2>7, MovesOn
  <2>10. Moves(c, d, m, P \cup P) /\ (FedFrom(c, b) /\ FedFrom(b, d) => FedFrom(c, d))
    BY <1>2, <2>8, <2>9, MovesOn
  <2>11. k >= 0 => 0 <= k /\ a.h >= 1
    BY <2>4
  <2> QED BY <1>1, <1>2, <2>4, <2>6, <2>8, <2>9, <2>10, <2>11
<1> QED BY <1>4, <1>5

LEMMA FuncDeclGone ==
    ASSUME GInv, NEW D, Going(todo, chunks, loops, slips, D), NEW names \in Int, FuncDecl(names) PROVE Gone
<1>1. PICK e : e = Hold(IF names = 1 THEN Blk ELSE Fields(Emit(Blk, 0, 1), names - 2), 0, 1)
  OBVIOUS
<1>2. PICK d : d = (IF names = 1 THEN Emit(e, 1, 0) ELSE Emit(e, 2, 0))
  OBVIOUS
<1>3. todo # <<>> /\ It.do = "block" /\ UNCHANGED <<loops, slips>> /\ Enter(d, Len(e.inst))
  BY <1>1, <1>2 DEF FuncDecl, Parsing, It, Neutral
<1>4. It.do \notin Deep /\ Gap(It) = 0
  BY <1>3, GapIs DEF Deep
<1>5. PICK m, g : Stood(m, g)
  BY <1>3, <1>4, StoodSo
<1>6. Blk \in Chunks /\ Blk.h \in Int /\ loops \in Seq(LoopInfos)
  BY <1>5 DEF Stood
<1>7. /\ Moves(Blk, d, NestOf(Blk), {}) /\ d \in Chunks /\ d.h = Blk.h /\ Len(e.inst) \in Nat
      /\ Blk.h >= 0 => FedFrom(Blk, d)
  BY <1>1, <1>2, <1>6, PathMoves
<1>8. PICK P : P = {}
  OBVIOUS
<1>9. Moves(Blk, d, NestOf(Blk), P) /\ (slips = {} /\ Blk.h >= 0 => FedFrom(Blk, d) /\ d.h = Blk.h + Gap(It))
  BY <1>4, <1>6, <1>7, <1>8
<1> QED BY <1>3, <1>7, <1>8, <1>9, NestGoes

\* A function is left: the instruction that loads it is patched.
LEMMA EndFuncGone == ASSUME GInv, NEW D, Going(todo, chunks, loops, slips, D), EndFunc PROVE Gone
<1>1. todo # <<>> /\ It.do = "func" /\ UNCHANGED <<loops, slips>> /\ slips' = slips /\ loops' = loops /\ More(slips, slips')
  BY DEF EndFunc, Parsing, It, Neutral, More
<1>2. PICK K, M, A, d : Returns(K, M, A, d)
  BY FuncReturns
<1>3. /\ todo \in Seq(Items) /\ chunks \in Seq(Chunks) /\ loops \in Seq(LoopInfos)
      /\ K = Len(todo) /\ K \in Nat \ {0} /\ todo[K] = It /\ M = Level(todo, K) /\ M \in Nat \ {0}
      /\ A = Around(todo, K) /\ A \in Nat /\ A = Len(loops) /\ chunks[M] \in Chunks
  BY <1>2 DEF Returns, Stands
<1>4. /\ It.at \in 1 .. Len(chunks[M].inst) /\ d = Loaded(chunks[M], It.at)
      /\ chunks'[M] = d /\ Len(chunks') = M
      /\ Below(todo, chunks, loops, <<>>, todo', chunks', loops', d)
  BY <1>2 DEF Returns
<1>5. Aligned(todo, chunks, loops)
  BY <1>1 DEF GInv, Parsed
<1>6. PICK c \in Chunks : c = chunks[M]
  BY <1>3
<1>7. PICK n : n = Slice(loops, c.outer, A)
  OBVIOUS
<1>8. PICK P : P = {}
  OBVIOUS
<1>9. Moves(c, d, n, P) /\ FedFrom(c, d) /\ d.h = c.h /\ d.outer = c.outer
  BY ZenonT(60), <1>4, <1>6, <1>8, LoadedMoves
<1>10. Stays(slips, It, D[K], c, n, loops[A + 1], loops[A])
  <2>1. ItsNest(todo, chunks, loops, K) = n
    BY <1>3, <1>6, <1>7 DEF ItsNest
  <2>2. K \in 1 .. Len(todo)
    BY <1>3
  <2> QED BY <1>3, <1>6, <2>1, <2>2 DEF Going
<1>11. Flows(slips, c, n) /\ (slips = {} => D[K] = c.h)
  BY <1>1, <1>10 DEF Stays, Fed
<1>12. Flows(slips', d, n)
  <2>1. Settles(slips', d, n, P)
    BY <1>8, SettlesNowhere
  <2> QED BY <1>1, <1>9, <1>11, <2>1, FlowOn
<1>13. Flows(slips', chunks'[Len(chunks')], Slice(loops', chunks'[Len(chunks')].outer, Len(loops')))
  BY <1>1, <1>3, <1>4, <1>7, <1>9, <1>12
<1>14. PICK u : u = <<>>
  OBVIOUS
<1>15. Len(u) = 0
  BY <1>14
<1>16. Sits(todo, u, todo', chunks', loops', slips', u)
  BY <1>15 DEF Sits
<1>17. slips' = {} => Chain(u, u, D[Len(todo)] + Gap(todo[Len(todo)]), chunks'[Len(chunks')].h)
  <2> SUFFICES ASSUME slips' = {} PROVE Chain(u, u, D[Len(todo)] + Gap(todo[Len(todo)]), chunks'[Len(chunks')].h)
    OBVIOUS
  <2>1. Gap(It) = 0
    BY <1>1, GapIs
  <2>2. D[Len(todo)] = c.h /\ chunks'[Len(chunks')].h = c.h /\ todo[Len(todo)] = It /\ c.h \in Int
    BY <1>1, <1>3, <1>4, <1>9, <1>11 DEF Chunks
  <2> QED BY <1>15, <2>1, <2>2 DEF Chain
<1>18. Around(todo, Len(todo)) <= A /\ A <= Len(loops)
       /\ Moves(chunks[Level(todo, Len(todo))], d, Slice(loops, chunks[Level(todo, Len(todo))].outer, A), P)
  BY <1>3, <1>6, <1>7, <1>9
<1>19. Below(todo, chunks, loops, u, todo', chunks', loops', d)
  BY <1>4, <1>14
<1>20. \E F : Going(todo', chunks', loops', slips', F)
  BY <1>1, <1>3, <1>5, <1>13, <1>16, <1>17, <1>18, <1>19, StepGoes
<1> QED BY <1>20 DEF Gone

-----------------------------------------------------------------------------
(* Every step of the generator but the last *)

LEMMA CompileGone ==
    ASSUME GInv, GInv', Ranked(loops), NEW D, Going(todo, chunks, loops, slips, D), Compile, ~ Finish
    PROVE  Gone
<1>1. CASE Leaf
  BY <1>1, LeafGone
<1>2. CASE Apply
  BY <1>2, ApplyGone
<1>3. CASE \E n \in 1 .. MaxOperands : Operands(n)
  BY <1>3, OperandsGone
<1>4. CASE \E op \in {"jnt", "jnn"} : Logic(op)
  BY <1>4, LogicGone
<1>5. CASE LogicHold \/ LogicEnd
  BY <1>5, LogicHoldGone, LogicEndGone
<1>6. CASE \E n \in 0 .. MaxOperands - 1 : Closure(n)
  <2>1. PICK n \in 0 .. MaxOperands - 1 : Closure(n)
    BY <1>6
  <2>2. n \in Nat
    BY CodeAssumption
  <2> QED BY <2>1, <2>2, ClosureGone
<1>7. CASE \E n \in 1 .. 3 : FuncDecl(n)
  <2>1. PICK n \in 1 .. 3 : FuncDecl(n)
    BY <1>7
  <2>2. n \in Int
    OBVIOUS
  <2> QED BY <2>1, <2>2, FuncDeclGone
<1>8. CASE EndFunc \/ EndBlock
  BY <1>8, EndFuncGone, EndBlockGone
<1>9. CASE Return \/ EmitRet
  BY <1>9, ReturnGone, EmitRetGone
<1>10. CASE BeginStat \/ Assign \/ AssignEnd \/ EndStat
  BY <1>10, BeginStatGone, AssignGone, AssignEndGone, EndStatGone
<1>11. CASE \E vt \in {"dot", "index"} : Suffix(vt, 0)
  <2>1. PICK vt \in {"dot", "index", "call"} : Suffix(vt, 0)
    BY <1>11
  <2>2. 0 \in Nat
    OBVIOUS
  <2> QED BY <2>1, <2>2, SuffixGone
<1>12. CASE \E n \in 0 .. MaxOperands - 1 : Suffix("call", n)
  <2>1. PICK n \in 0 .. MaxOperands - 1 : Suffix("call", n)
    BY <1>12
  <2>2. n \in Nat
    BY CodeAssumption
  <2> QED BY <2>1, <2>2, SuffixGone
<1>13. CASE BeginIf \/ Cond \/ Elif \/ Else
  BY <1>13, BeginIfGone, CondGone, ElifGone, ElseGone
<1>14. CASE EndElse \/ EndIf
  BY <1>14, EndElseGone, EndIfGone
<1>15. CASE For \/ ForIn \/ Iter \/ EndLoop
  BY <1>15, ForGone, ForInGone, IterGone, EndLoopGone
<1>16. CASE Break \/ Continue
  BY <1>16, BreakGone, ContinueGone
<1> QED BY <1>1, <1>2, <1>3, <1>4, <1>5, <1>6, <1>7, <1>8, <1>9, <1>10, <1>11, <1>12, <1>13, <1>14,
           <1>15, <1>16 DEF Compile

\* The return that ends the code of c.
LEMMA EndedFlows ==
    ASSUME loops \in Seq(LoopInfos), NEW z, NEW c \in Chunks, NEW n, n = NestOf(c), Flows(z, c, n), z = {} => c.h = 0
    PROVE  Flows(z, Ended(c), n) /\ (z = {} => Ended(c).h = 0)
<1>1. CASE Ended(c) = c
  BY <1>1
<1>2. CASE Ended(c) # c
  <2>1. PICK d : d = Coded(c, "ret", 0, 0, 0)
    OBVIOUS
  <2>2. Ended(c) = d
    BY <1>2, <2>1 DEF Ended
  <2>3. Codes(c, "ret", 0, 0, 0, n, d)
    <3>1. 0 \in Nat
      OBVIOUS
    <3> QED BY <2>1, <3>1, RetMoves
  <2>4. PICK p : p = Pos(c)
    OBVIOUS
  <2>5. c.h \in Int
    BY DEF Chunks
  <2>6. Moves(c, d, n, {p}) /\ d.h = c.h /\ (z = {} => FedFrom(c, d))
    BY <2>3, <2>4, <2>5 DEF Codes, Turns
  <2>7. d.inst[p].op = "ret" /\ d.inst[p].takes = 0 /\ d.inst[p].h = c.h
    BY <2>3, <2>4 DEF Codes
  <2>8. z = {} => LandsOn(d.inst, d.h, p)
    BY <2>7 DEF LandsOn, Jumps
  <2>9. d.inst[p].op \notin Jumps
    BY <2>7 DEF Jumps
  <2>10. Settles(z, d, n, {p})
    BY <2>8, <2>9 DEF Settles
  <2>11. More(z, z)
    BY DEF More
  <2>12. Flows(z, d, n)
    BY <2>6, <2>10, <2>11, FlowOn
  <2> QED BY <2>2, <2>6, <2>12
<1> QED BY <1>1, <1>2

-----------------------------------------------------------------------------
(* The names of the loops *)

\* A loop is named by how many there are around it, too.
LEMMA RankedOn ==
    ASSUME NEW lp \in Seq(LoopInfos), Ranked(lp), NEW L, L.id[2] = Len(lp)
    PROVE  Ranked(Append(lp, L))
<1>1. PICK p : p = Append(lp, L)
  OBVIOUS
<1>2. PICK n \in Nat : n = Len(lp)
  OBVIOUS
<1>3. Len(p) = n + 1 /\ p[n + 1] = L /\ \A q \in 1 .. n : p[q] = lp[q]
  BY <1>1, <1>2
<1>4. ASSUME NEW q \in 1 .. n + 1 PROVE p[q].id[2] = q - 1
  <2>1. q \in 1 .. n \/ q = n + 1
    BY <1>2
  <2>2. CASE q \in 1 .. n
    BY <1>2, <1>3, <2>2 DEF Ranked
  <2>3. CASE q = n + 1
    <3>1. q - 1 = n
      BY <1>2, <2>3
    <3> QED BY <1>2, <1>3, <2>3, <3>1
  <2> QED BY <2>1, <2>2, <2>3
<1>5. Ranked(p)
  BY SMTT(60), <1>3, <1>4 DEF Ranked
<1> QED BY <1>1, <1>5

LEMMA CompileRanked ==
    ASSUME GInv, todo # <<>>, Ranked(loops), Compile
    PROVE  Ranked(loops')
<1>1. loops \in Seq(LoopInfos)
  BY DEF GInv
<1>2. CASE UNCHANGED loops
  BY <1>2
<1>3. CASE For
  <2>1. PICK L : L = Loop(Pos(Blk), TRUE)
    OBVIOUS
  <2>2. loops' = Append(loops, L) /\ L.id[2] = Len(loops)
    BY <1>3, <2>1 DEF For, Loop
  <2> QED BY <1>1, <2>2, RankedOn
<1>4. CASE ForIn
  <2>1. PICK L : L = Loop(1, FALSE)
    OBVIOUS
  <2>2. loops' = Append(loops, L) /\ L.id[2] = Len(loops)
    BY <1>4, <2>1 DEF ForIn, Loop
  <2> QED BY <1>1, <2>2, RankedOn
<1>5. CASE Iter
  <2>1. PICK K, M, A, d, L, u : Headed(K, M, A, d, L, u)
    BY <1>5, IterHeaded
  <2>2. L.id = Last(loops).id /\ Len(loops') = A + 1 /\ loops'[A + 1] = L
        /\ A = Len(loops) - 1 /\ Last(loops) = loops[A + 1] /\ Len(loops) \in Nat /\ loops # <<>>
        /\ \A q \in 1 .. A : loops'[q] = loops[q]
    BY <1>1, <2>1 DEF Headed
  <2>3. PICK n \in Nat : n = Len(loops) /\ A = n - 1
    BY <2>2
  <2>4. PICK p : p = loops'
    OBVIOUS
  <2>5. Len(p) = n /\ \A q \in 1 .. n : p[q].id = loops[q].id
    <3>1. n = A + 1 /\ \A q \in 1 .. n : q \in 1 .. A \/ q = A + 1
      BY <2>3
    <3>2. p[A + 1] = L /\ L.id = loops[A + 1].id /\ \A q \in 1 .. A : p[q] = loops[q]
      BY <2>2, <2>4
    <3> QED BY <2>2, <2>4, <3>1, <3>2
  <2>6. Ranked(p)
    BY <2>3, <2>5 DEF Ranked
  <2> QED BY <2>4, <2>6
<1>6. CASE EndLoop
  <2>1. PICK K, M, A, d, l : Leaves(K, M, A, d, l)
    BY <1>6, LoopLeft
  <2>2. A = Len(loops) - 1 /\ Len(loops') = A /\ \A q \in 1 .. A : loops'[q] = loops[q]
    BY <2>1 DEF Leaves
  <2>3. \A q \in 1 .. A : q \in 1 .. Len(loops)
    BY <1>1, <2>2
  <2> QED BY <2>2, <2>3 DEF Ranked
<1>7. CASE Break
  <2>1. PICK L : L = [Last(loops) EXCEPT !.breaks = Append(@, Pos(Blk))]
    OBVIOUS
  <2>2. loops # <<>> /\ loops' = Append(Front(loops), L)
    BY <1>7, <2>1 DEF Break
  <2>3. Last(loops) \in LoopInfos /\ Last(loops) = loops[Len(loops)] /\ Len(loops) \in Nat \ {0}
        /\ Front(loops) \in Seq(LoopInfos) /\ Len(Front(loops)) = Len(loops) - 1
        /\ \A q \in 1 .. Len(loops) - 1 : Front(loops)[q] = loops[q]
    BY <1>1, <2>2, FrontOf
  <2>4. L.id = Last(loops).id
    BY <2>1, <2>3 DEF LoopInfos
  <2>5. PICK f \in Seq(LoopInfos) : f = Front(loops)
    BY <2>3
  <2>6. PICK a \in Nat : a = Len(f) /\ Len(loops) = a + 1
    BY <2>3, <2>5
  <2>7. \A q \in 1 .. a : f[q] = loops[q]
    BY <2>3, <2>5, <2>6
  <2>8. loops' = Append(f, L) /\ \A q \in 1 .. a : q \in 1 .. a + 1
    BY <2>2, <2>5, <2>6
  <2>9. Ranked(f)
    BY <2>6, <2>7, <2>8 DEF Ranked
  <2>10. L.id[2] = Len(f)
    <3>1. loops[a + 1].id[2] = (a + 1) - 1
      BY <2>6 DEF Ranked
    <3>2. L.id = loops[a + 1].id
      BY <2>3, <2>4, <2>6
    <3> QED BY <2>6, <3>1, <3>2
  <2> QED BY <2>8, <2>9, <2>10, RankedOn
<1> QED BY <1>2, <1>3, <1>4, <1>5, <1>6, <1>7
     DEF Compile, Leaf, Apply, Operands, Logic, LogicHold, LogicEnd, Closure, FuncDecl, EndFunc, EndBlock,
         Return, EmitRet, BeginStat, Assign, AssignEnd, EndStat, Suffix, BeginIf, Cond, Elif, Else, EndElse,
         EndIf, Continue, Finish, Neutral

\* While the program is parsed the machine does not run.
LEMMA RunsNot ==
    ASSUME Runs, todo # <<>>, Compile, ~ Finish
    PROVE  out = <<>> /\ UNCHANGED <<out, pc, depth>> /\ Runs'
<1>1. out = <<>> /\ pc = 0
  BY SMTT(60) DEF Runs
<1>2. UNCHANGED <<out, pc, depth>>
  BY DEF Compile, Leaf, Apply, Operands, Logic, LogicHold, LogicEnd, Closure, FuncDecl, EndFunc, EndBlock,
         Return, EmitRet, BeginStat, Assign, AssignEnd, EndStat, Suffix, BeginIf, Cond, Elif, Else, EndElse,
         EndIf, For, ForIn, Iter, EndLoop, Break, Continue, Begins, Proceeds, Stopped
<1>3. PICK o : o = <<>>
  OBVIOUS
<1>4. Len(o) = 0 /\ 1 .. Len(o) = {}
  BY <1>3
<1>5. out' = o /\ pc' = 0
  BY <1>1, <1>2, <1>3
<1>6. FlowsIn(o, <<>>) /\ Feeds(o) /\ FlowsOn(o, 0)
  BY <1>4 DEF FlowsIn, Feeds, FlowsOn
<1>7. FlowsIn(out', <<>>) /\ Feeds(out') /\ FlowsOn(out', 0) /\ Len(out') = 0 /\ 1 .. Len(out') = {}
  BY <1>4, <1>5, <1>6
<1>8. Runs'
  BY <1>3, <1>5, <1>7 DEF Runs
<1> QED BY <1>1, <1>2, <1>8

-----------------------------------------------------------------------------
(* The machine *)

\* Code that is complete: no loop is around its end, and no operand is left there.
LEMMA EndedRuns ==
    ASSUME loops \in Seq(LoopInfos), NEW z, NEW c \in Chunks, NestOf(c) = <<>>, Flows(z, c, NestOf(c)),
           z = {} => c.h = 0
    PROVE  Flows(z, Ended(c), <<>>) /\ (z = {} => Ended(c).h = 0)
<1>1. PICK n : n = NestOf(c)
  OBVIOUS
<1>2. Flows(z, Ended(c), n) /\ (z = {} => Ended(c).h = 0)
  BY <1>1, EndedFlows
<1> QED BY <1>1, <1>2

LEMMA FinishRuns ==
    ASSUME GInv, NEW D, Going(todo, chunks, loops, slips, D), Finish
    PROVE  Runs' /\ loops' = <<>> /\ todo' = <<>>
<1>1. /\ todo # <<>> /\ It.do = "block" /\ Len(todo) = 1 /\ out' = Ended(Blk).inst
      /\ chunks' = <<>> /\ pc' = 1 /\ depth' = 0 /\ UNCHANGED <<loops, slips>>
  BY DEF Finish, Parsing, It, Go, Neutral
<1>2. It.do \notin Deep /\ Want(It) = 0
  BY <1>1, GapIs DEF Deep
<1>3. /\ Knows(slips, It, Blk, NestOf(Blk), loops[Len(loops)])
      /\ NestOf(Blk) = Slice(loops, Blk.outer, Len(loops)) /\ Blk.outer <= Len(loops)
  BY <1>1, <1>2, TopKnows
<1>4. PICK K, M, A : Stands(K, M, A)
  BY <1>1, StandsSo
<1>5. loops \in Seq(LoopInfos) /\ Blk \in Chunks /\ Len(loops) = 0
  <2>1. K = 1 /\ A = Around(todo, 1) /\ A = Len(loops) /\ loops \in Seq(LoopInfos) /\ Blk \in Chunks
    BY <1>1, <1>4 DEF Stands
  <2>2. Opens(todo, 1, {"loop", "iter"}) = 0
    BY OpensFirst
  <2> QED BY <2>1, <2>2 DEF Around
<1>6. NestOf(Blk) = <<>>
  <2>1. Blk.outer = 0
    <3>1. Blk.outer \in Nat
      BY <1>5 DEF Chunks
    <3> QED BY SMTT(60), <1>3, <1>5, <3>1
  <2>2. PICK s : s = Slice(loops, 0, 0)
    OBVIOUS
  <2>3. s \in Seq(LoopId) /\ Len(s) = 0
    <3>1. 0 \in Nat /\ 0 <= 0 /\ 0 <= Len(loops) /\ 0 - 0 = 0
      BY <1>5
    <3> QED BY <1>5, <2>2, <3>1, SliceIs
  <2>4. s = <<>>
    BY <2>3
  <2> QED BY <1>3, <1>5, <2>1, <2>2, <2>4
<1>7. Flows(slips, Blk, NestOf(Blk)) /\ (slips = {} => Blk.h = 0)
  <2>1. slips = {} => Blk.h = 0
    BY <1>1, <1>2, <1>3 DEF Knows, Fed, Inner
  <2> QED BY <1>3, <2>1 DEF Knows
<1>8. PICK e : e = Ended(Blk)
  OBVIOUS
<1>9. Flows(slips, e, <<>>) /\ (slips = {} => e.h = 0)
  BY <1>5, <1>6, <1>7, <1>8, EndedRuns
<1>10. PICK o : o = e.inst /\ out' = o
  BY <1>1, <1>8
<1>11. Len(o) \in Nat /\ todo' = <<>> /\ loops' = <<>>
  <2>1. GInv'
    BY FinishInv
  <2>2. o \in Seq(Inst)
    BY <1>10, <2>1 DEF GInv
  <2>3. loops' = <<>>
    BY <1>1, <1>5
  <2>4. todo' = <<>>
    <3>1. todo \in Seq(Items) /\ todo' = Front(todo) \o <<>>
      BY DEF GInv, Finish, Go
    <3>2. Front(todo) \in Seq(Items) /\ Len(Front(todo)) = 0
      BY SMTT(60), <1>1, <3>1, FrontOf
    <3>3. Front(todo) = <<>>
      BY <3>2
    <3> QED BY <3>1, <3>3
  <2> QED BY <2>2, <2>3, <2>4
<1>12. "outer" \notin slips /\ Short(o) => FlowsIn(o, <<>>)
  BY <1>9, <1>10 DEF Flows
<1>13. slips = {} /\ Short(o) =>
          /\ Feeds(o) /\ FlowsOn(o, 0) /\ HAt(o, 0, 1) = 0
          /\ \A i \in 1 .. Len(o) : HAt(o, 0, i + 1) = o[i].h - o[i].takes + o[i].gives
  BY <1>9, <1>10 DEF Flows, Chained
<1>14. pc' \in 0 .. Len(out') + 1
  BY <1>1, <1>10, <1>11
<1>15. slips' = slips /\ out' = o /\ pc' = 1 /\ depth' = 0 /\ todo' = <<>>
  BY <1>1, <1>10, <1>11
<1>16. Runs'
  BY <1>12, <1>13, <1>14, <1>15 DEF Runs
<1> QED BY <1>11, <1>16

\* The machine goes on to a place where the operands are counted that it has.
LEMMA MachineRuns ==
    ASSUME Runs, out # <<>>, NEW next \in 0 .. Len(out) + 1, NEW operands, Machine(next, operands),
           slips = {} /\ Short(out) /\ next # 0 => operands = HAt(out, 0, next)
    PROVE  Runs'
<1>1. UNCHANGED <<todo, slips, out>> /\ pc' = next /\ depth' = operands
  BY DEF Machine
<1>2. todo = <<>>
  BY DEF Runs
<1> QED BY <1>1, <1>2 DEF Runs

LEMMA RunRuns == ASSUME GInv, Runs, Run PROVE Runs'
<1>1. out \in Seq(Inst) /\ Sound(out) /\ pc \in Nat /\ depth \in Nat /\ Len(out) \in Nat
  BY DEF GInv
<1>2. ASSUME NEW ops, Executing(ops)
      PROVE  /\ pc \in 1 .. Len(out) /\ pc + 1 \in 0 .. Len(out) + 1 /\ Now.to \in 0 .. Len(out) + 1
             /\ Now = out[pc] /\ Now.op \in ops /\ out # <<>>
  <2>1. pc \in 1 .. Len(out) /\ Now = out[pc] /\ Now.op \in ops
    BY <1>1, <1>2 DEF Executing, Now
  <2>2. Now.to \in Nat /\ Now.to <= Len(out) + 1
    <3>1. pc \in DOMAIN out
      BY <1>1, <2>1
    <3>2. out[pc].to \in Nat
      BY <1>1, <3>1, SoundDoes
    <3> QED BY <1>1, <2>1, <3>2 DEF Sound
  <2> QED BY <1>1, <2>1, <2>2
<1>3. ASSUME NEW ops, Executing(ops), slips = {}, Short(out)
      PROVE  /\ depth = Now.h /\ HAt(out, 0, pc + 1) = Now.h - Now.takes + Now.gives
             /\ Now.op \in Turns => LandsOn(out, 0, pc)
             /\ Now = out[pc] /\ Now.op \in ops /\ Now.h \in Int /\ Now.takes \in Nat /\ Now.gives \in Nat
  <2>1. pc \in 1 .. Len(out) /\ Now = out[pc] /\ Now.op \in ops /\ pc # 0
    BY <1>2, <1>3
  <2>2. depth = HAt(out, 0, pc) /\ HAt(out, 0, pc + 1) = out[pc].h - out[pc].takes + out[pc].gives
        /\ (out[pc].op \in Turns => LandsOn(out, 0, pc))
    BY <1>3, <2>1 DEF Runs, FlowsOn
  <2>3. HAt(out, 0, pc) = out[pc].h
    BY <2>1 DEF HAt
  <2>4. out[pc].h \in Int /\ out[pc].takes \in Nat /\ out[pc].gives \in Nat
    BY <1>1, <2>1, InstIs
  <2> QED BY <2>1, <2>2, <2>3, <2>4
<1>4. CASE RunData
  <2>1. Executing({"data"}) /\ Machine(pc + 1, depth - Now.takes + Now.gives)
    BY <1>4 DEF RunData
  <2>2. slips = {} /\ Short(out) => depth - Now.takes + Now.gives = HAt(out, 0, pc + 1)
    BY <1>3, <2>1
  <2>3. pc + 1 \in 0 .. Len(out) + 1 /\ out # <<>>
    BY <1>2, <2>1
  <2> QED BY <2>1, <2>2, <2>3, MachineRuns
<1>5. CASE RunJmp
  <2>1. Executing({"jmp"}) /\ Machine(Now.to, depth)
    BY <1>5 DEF RunJmp
  <2>2. slips = {} /\ Short(out) => depth = HAt(out, 0, Now.to)
    BY <1>3, <2>1 DEF Turns, Jumps, LandsOn
  <2>3. Now.to \in 0 .. Len(out) + 1 /\ out # <<>>
    BY <1>2, <2>1
  <2> QED BY <2>1, <2>2, <2>3, MachineRuns
<1>6. CASE RunJne
  <2>1. Executing({"jne"})
    BY <1>6 DEF RunJne
  <2>2. PICK next \in {pc + 1, Now.to} : Machine(next, depth - 1)
    BY <1>6 DEF RunJne
  <2>3. slips = {} /\ Short(out) => depth - 1 = HAt(out, 0, next)
    <3> SUFFICES ASSUME slips = {}, Short(out) PROVE depth - 1 = HAt(out, 0, next)
      OBVIOUS
    <3>1. LandsOn(out, 0, pc) /\ Now = out[pc] /\ Now.op \in {"jne"} /\ depth = Now.h
          /\ HAt(out, 0, pc + 1) = Now.h - Now.takes + Now.gives /\ Now.h \in Int
      BY <1>3, <2>1 DEF Turns, Jumps
    <3>2. Now.takes = 1 /\ Now.gives = 0 /\ HAt(out, 0, Now.to) = Now.h - 1
      BY <3>1 DEF LandsOn
    <3> QED BY <2>2, <3>1, <3>2
  <2>4. next \in 0 .. Len(out) + 1 /\ out # <<>>
    BY <1>2, <2>1, <2>2
  <2> QED BY <2>2, <2>3, <2>4, MachineRuns
<1>7. CASE RunLogic
  <2>1. Executing({"jnt", "jnn"}) /\ (Machine(pc + 1, depth - 1) \/ Machine(Now.to, depth))
    BY <1>7 DEF RunLogic
  <2>2. slips = {} /\ Short(out) => depth - 1 = HAt(out, 0, pc + 1) /\ depth = HAt(out, 0, Now.to)
    <3> SUFFICES ASSUME slips = {}, Short(out)
                 PROVE  depth - 1 = HAt(out, 0, pc + 1) /\ depth = HAt(out, 0, Now.to)
      OBVIOUS
    <3>1. LandsOn(out, 0, pc) /\ Now = out[pc] /\ Now.op \in {"jnt", "jnn"} /\ depth = Now.h
          /\ HAt(out, 0, pc + 1) = Now.h - Now.takes + Now.gives /\ Now.h \in Int
      BY <1>3, <2>1 DEF Turns, Jumps
    <3>2. Now.takes = 1 /\ Now.gives = 0 /\ HAt(out, 0, Now.to) = Now.h
      BY <3>1 DEF LandsOn
    <3> QED BY <3>1, <3>2
  <2>3. pc + 1 \in 0 .. Len(out) + 1 /\ Now.to \in 0 .. Len(out) + 1 /\ out # <<>>
    BY <1>2, <2>1
  <2> QED BY <2>1, <2>2, <2>3, MachineRuns
<1>8. CASE RunForeach
  <2>1. Executing({"foreach"}) /\ (Machine(pc + 1, depth) \/ Machine(Now.to, depth - 1))
    BY <1>8 DEF RunForeach
  <2>2. slips = {} /\ Short(out) => depth = HAt(out, 0, pc + 1) /\ depth - 1 = HAt(out, 0, Now.to)
    <3> SUFFICES ASSUME slips = {}, Short(out)
                 PROVE  depth = HAt(out, 0, pc + 1) /\ depth - 1 = HAt(out, 0, Now.to)
      OBVIOUS
    <3>1. LandsOn(out, 0, pc) /\ Now = out[pc] /\ Now.op \in {"foreach"} /\ depth = Now.h
          /\ HAt(out, 0, pc + 1) = Now.h - Now.takes + Now.gives /\ Now.h \in Int
      BY <1>3, <2>1 DEF Turns, Jumps
    <3>2. Now.takes = 1 /\ Now.gives = 1 /\ HAt(out, 0, Now.to) = Now.h - 1
      BY <3>1 DEF LandsOn
    <3> QED BY <3>1, <3>2
  <2>3. pc + 1 \in 0 .. Len(out) + 1 /\ Now.to \in 0 .. Len(out) + 1 /\ out # <<>>
    BY <1>2, <2>1
  <2> QED BY <2>1, <2>2, <2>3, MachineRuns
<1>9. CASE RunEnd
  <2>1. out # <<>> /\ Machine(0, depth)
    BY <1>2, <1>9 DEF RunEnd
  <2>2. 0 \in 0 .. Len(out) + 1
    BY <1>1
  <2> QED BY <2>1, <2>2, MachineRuns
<1> QED BY <1>4, <1>5, <1>6, <1>7, <1>8, <1>9 DEF Run

-----------------------------------------------------------------------------
(* The flow, through every step *)

\* GInv, and where each instruction stands: its jump lands in the loops it leaves from, and
\* where the operands are counted on that it leaves.
FInv ==
    /\ GInv
    /\ todo # <<>> => \E D : Going(todo, chunks, loops, slips, D)
    /\ Ranked(loops)
    /\ Runs

LEMMA InitFInv == Init => FInv
<1> SUFFICES ASSUME Init PROVE FInv
  OBVIOUS
<1>1. GInv
  BY InitInv
<1>2. PICK b, c : b = Item("block") /\ c = [inst |-> <<>>, h |-> 0, outer |-> 0]
  OBVIOUS
<1>3. todo = <<b>> /\ chunks = <<c>> /\ loops = <<>> /\ slips = {} /\ out = <<>> /\ pc = 0 /\ depth = 0
  BY <1>2 DEF Init
<1>4. b.do = "block" /\ c.inst = <<>> /\ c.h = 0 /\ c.outer = 0
  BY <1>2, ItemIs DEF Doings
<1>5. /\ Len(todo) = 1 /\ todo[1] = b /\ Len(chunks) = 1 /\ chunks[1] = c /\ Len(loops) = 0
      /\ Len(out) = 0 /\ 1 .. Len(out) = {} /\ \A k : k \in 1 .. 1 <=> k = 1
  BY <1>3
<1>6. Level(todo, 1) = 1 /\ Around(todo, 1) = 0
  <2>1. Opens(todo, 1, {"func"}) = 0 /\ Opens(todo, 1, {"loop", "iter"}) = 0
    BY OpensFirst
  <2> QED BY <2>1 DEF Level, Around
<1>7. PICK n : n = Slice(loops, 0, 0)
  OBVIOUS
<1>8. Len(n) = 0
  <2>1. loops \in Seq(LoopInfos) /\ 0 \in Nat /\ 0 <= 0 /\ 0 <= Len(loops) /\ 0 - 0 = 0
    BY <1>1, <1>5 DEF GInv
  <2> QED BY <1>7, <2>1, SliceIs
<1>9. Flows(slips, c, n)
  BY <1>4, <1>8, FlowsFresh
<1>10. PICK D : D = <<0>>
  OBVIOUS
<1>11. D[1] = 0
  BY <1>10
<1>12. ItsNest(todo, chunks, loops, 1) = n
  BY <1>4, <1>5, <1>6, <1>7 DEF ItsNest
<1>13. Stays(slips, b, 0, c, n, loops[0 + 1], loops[0])
  BY <1>4, <1>8 DEF Stays, Nested, Fed, Want, Inner
<1>14. Linked(todo, chunks, D)
  BY <1>4, <1>5, <1>11 DEF Linked, Base
<1>15. Going(todo, chunks, loops, slips, D)
  BY <1>4, <1>5, <1>6, <1>7, <1>9, <1>11, <1>12, <1>13, <1>14 DEF Going
<1>16. Ranked(loops)
  BY <1>5 DEF Ranked
<1>17. Runs
  BY <1>3, <1>5 DEF Runs, FlowsIn, Feeds, FlowsOn
<1> QED BY <1>1, <1>15, <1>16, <1>17 DEF FInv

LEMMA NextFInv == FInv /\ [Next]_vars => FInv'
<1> SUFFICES ASSUME FInv, [Next]_vars PROVE FInv'
  OBVIOUS
<1>1. GInv /\ GInv' /\ Ranked(loops) /\ Runs
  BY NextInv DEF FInv
<1>2. CASE Finish
  <2>1. todo # <<>>
    BY <1>2 DEF Finish, Parsing
  <2>2. PICK D : Going(todo, chunks, loops, slips, D)
    BY <2>1 DEF FInv
  <2>3. Runs' /\ loops' = <<>> /\ todo' = <<>>
    BY <1>1, <1>2, <2>2, FinishRuns
  <2>4. Ranked(loops')
    BY <2>3 DEF Ranked
  <2> QED BY <1>1, <2>3, <2>4 DEF FInv
<1>3. CASE Compile /\ ~ Finish
  <2>1. todo # <<>>
    BY <1>3 DEF Compile, Leaf, Apply, Operands, Logic, LogicHold, LogicEnd, Closure, FuncDecl, EndFunc, EndBlock,
         Return, EmitRet, BeginStat, Assign, AssignEnd, EndStat, Suffix, BeginIf, Cond, Elif, Else, EndElse,
         EndIf, For, ForIn, Iter, EndLoop, Break, Continue, Parsing
  <2>2. PICK D : Going(todo, chunks, loops, slips, D)
    BY <2>1 DEF FInv
  <2>3. Gone
    BY <1>1, <1>3, <2>2, CompileGone
  <2>4. Ranked(loops')
    BY <1>1, <1>3, <2>1, CompileRanked
  <2>5. Runs'
    BY <1>1, <1>3, <2>1, RunsNot
  <2> QED BY SMTT(60), <1>1, <2>3, <2>4, <2>5 DEF FInv, Gone
<1>4. CASE Run
  <2>1. UNCHANGED <<todo, chunks, loops, slips>>
    BY <1>4 DEF Run, RunData, RunJmp, RunJne, RunLogic, RunForeach, RunEnd, Machine
  <2>2. Runs'
    BY <1>1, <1>4, RunRuns
  <2> QED BY <1>1, <2>1, <2>2 DEF FInv
<1>5. CASE UNCHANGED vars
  BY <1>1, <1>5 DEF FInv, vars, Runs
<1> QED BY <1>2, <1>3, <1>4, <1>5 DEF Next

\* compiler.c and the jumps of vm_run as a whole: how the code flows.
THEOREM Flowing == Spec => []FInv
BY InitFInv, NextFInv, PTL DEF Spec

-----------------------------------------------------------------------------
(* What the flow says of the code *)

\* Sequences: the beginning of another; and all but the last.
LEMMA PreIs ==
    ASSUME NEW S, NEW s \in Seq(S), NEW v \in Seq(S)
    PROVE  Pre(s, v) => IsPrefix(s, v)
<1> SUFFICES ASSUME Pre(s, v) PROVE IsPrefix(s, v)
  OBVIOUS
<1>1. PICK a \in Nat, b \in Nat : a = Len(s) /\ b = Len(v) /\ a <= b
  BY DEF Pre
<1>2. \A i \in 1 .. a : s[i] = v[i]
  BY <1>1 DEF Pre
<1>3. SubSeq(s, 1, a) = SubSeq(v, 1, a)
  BY SMTT(60), <1>1, <1>2
<1> QED BY <1>1, <1>3 DEF IsPrefix

LEMMA PreButIs ==
    ASSUME NEW S, NEW s \in Seq(S), NEW v \in Seq(S), PreBut(s, v)
    PROVE  s # <<>> /\ IsPrefix(Front(s), v) /\ Last(s) \notin Range(v)
<1>1. PICK a \in Nat, b \in Nat : a = Len(s) /\ b = Len(v) /\ a # 0
  BY DEF PreBut
<1>2. s # <<>>
  BY <1>1
<1>3. /\ Front(s) \in Seq(S) /\ Len(Front(s)) = a - 1 /\ \A i \in 1 .. a - 1 : Front(s)[i] = s[i]
  BY <1>1, <1>2, FrontOf
<1>4. Last(s) = s[a]
  BY <1>1, <1>2, FrontOf
<1>5. \A i \in 1 .. a - 1 : i \in 1 .. b /\ s[i] = v[i]
  BY <1>1 DEF PreBut
<1>6. PICK f \in Seq(S) : f = Front(s)
  BY <1>3
<1>7. Pre(f, v)
  <2>1. a - 1 <= b
    <3>1. CASE a = 1
      BY <1>1, <3>1
    <3>2. CASE a # 1
      <4>1. a - 1 \in 1 .. a - 1
        BY <1>1, <3>2
      <4>2. a - 1 \in 1 .. b
        BY <1>5, <4>1
      <4> QED BY <4>2
    <3> QED BY <3>1, <3>2
  <2>2. Len(f) = a - 1 /\ \A i \in 1 .. a - 1 : f[i] = v[i]
    BY <1>3, <1>5, <1>6
  <2> QED BY <1>1, <2>1, <2>2 DEF Pre
<1>8. IsPrefix(Front(s), v)
  BY <1>6, <1>7, PreIs
<1>9. s[a] \notin Range(v)
  <2>1. \A i \in 1 .. b : v[i] # s[a]
    BY <1>1 DEF PreBut
  <2>2. DOMAIN v = 1 .. b
    BY <1>1
  <2> QED BY <2>1, <2>2 DEF Range
<1> QED BY <1>2, <1>4, <1>8, <1>9

\* A complete function: no loop of its own is open, and no operand is left.
LEMMA FuncComplete ==
    ASSUME FInv, Parsing("func")
    PROVE  /\ Complete = Ended(Blk).inst /\ Complete \in Seq(Inst)
           /\ Flows(slips, Ended(Blk), <<>>) /\ (slips = {} => Ended(Blk).h = 0)
<1>1. todo # <<>> /\ It.do = "func" /\ GInv
  BY DEF FInv, Parsing, It
<1>2. PICK K, M, A : Stands(K, M, A)
  BY <1>1, StandsSo
<1>3. /\ M = Level(todo, K) /\ A = Around(todo, K) /\ A = Len(loops) /\ M + 1 = Len(chunks)
      /\ K = Len(todo) /\ K \in Nat \ {0} /\ M \in Nat \ {0} /\ A \in Nat
      /\ Blk = chunks[Len(chunks)] /\ Blk \in Chunks /\ todo[K] = It
      /\ todo \in Seq(Items) /\ chunks \in Seq(Chunks) /\ loops \in Seq(LoopInfos)
  BY SMTT(60), <1>1, <1>2 DEF Stands
<1>4. Aligned(todo, chunks, loops)
  BY <1>1 DEF GInv, Parsed
<1>5. Blk.outer = A
  <2>1. K \in 1 .. Len(todo)
    BY <1>3
  <2>2. chunks[Level(todo, K) + 1].outer = Around(todo, K)
    BY <1>1, <1>3, <1>4, <2>1 DEF Aligned
  <2> QED BY <1>3, <2>2
<1>6. PICK n : n = Slice(loops, A, A)
  OBVIOUS
<1>7. n = <<>>
  <2>1. A <= A /\ A <= Len(loops) /\ A - A = 0
    BY <1>3
  <2>2. n \in Seq(LoopId) /\ Len(n) = 0
    BY <1>3, <1>6, <2>1, SliceIs
  <2> QED BY <2>2
<1>8. NestOf(Blk) = n
  <2>1. Blk.outer \in Nat /\ Blk.outer <= Len(loops)
    BY <1>3, <1>5
  <2> QED BY <1>3, <1>5, <1>6, <2>1, NestSlice
<1>9. PICK D : Going(todo, chunks, loops, slips, D)
  BY <1>1 DEF FInv
<1>10. Flows(slips, Blk, NestOf(Blk))
  BY <1>3, <1>5, <1>6, <1>8, <1>9 DEF Going
<1>11. slips = {} => Blk.h = 0
  <2> SUFFICES ASSUME slips = {} PROVE Blk.h = 0
    OBVIOUS
  <2>1. Base(todo[Len(todo)], D[Len(todo)]) = chunks[Len(chunks)].h
    BY <1>9 DEF Going, Linked
  <2> QED BY <1>1, <1>3, <2>1 DEF Base
<1>12. Flows(slips, Ended(Blk), <<>>) /\ (slips = {} => Ended(Blk).h = 0)
  BY <1>3, <1>7, <1>8, <1>10, <1>11, EndedRuns
<1>13. Complete = Ended(Blk).inst
  BY DEF Complete
<1>14. Ended(Blk) \in Chunks
  <2>1. Sound(Blk.inst)
    BY <1>1, WritesIs DEF Writes
  <2> QED BY <1>3, <2>1, EndedGoes DEF Goes
<1>15. Complete \in Seq(Inst)
  BY <1>13, <1>14 DEF Chunks
<1> QED BY <1>12, <1>13, <1>15

\* The code that is complete, of a function or of the program.
LEMMA CompleteFlows ==
    ASSUME FInv, Len(Complete) < OffsetLimit, "outer" \notin slips
    PROVE  Complete \in Seq(Inst) /\ FlowsIn(Complete, <<>>)
<1>1. CASE Parsing("func")
  BY <1>1, FuncComplete DEF Flows, Short
<1>2. CASE ~ Parsing("func")
  <2>1. Complete = out
    BY <1>2 DEF Complete
  <2> QED BY <2>1 DEF FInv, GInv, Runs, Short
<1> QED BY <1>1, <1>2

\* ymk_loop_leave, parse_goto and every other jump: it stays in the loops of the place it
\* leaves from, but the jump of a break and that of the end of a loop, which leave the
\* innermost one and no other.  For code of fewer instructions than an offset can say.
THEOREM LoopsAreKept == Spec => [](Len(Complete) < OffsetLimit => LoopsKept)
<1>1. FInv => (Len(Complete) < OffsetLimit => LoopsKept)
  <2> SUFFICES ASSUME FInv, Len(Complete) < OffsetLimit PROVE LoopsKept
    OBVIOUS
  <2>1. TypeOK
    BY Typed DEF FInv
  <2>2. ASSUME "outer" \notin slips, NEW i \in DOMAIN Complete, Complete[i].op \in Jumps,
               NEW from, from = Complete[i].nest, NEW to, to = NestAt(Complete, Complete[i].to)
        PROVE  IF Complete[i].leaves
               THEN /\ from # <<>> /\ IsPrefix(Front(from), to)
                    /\ Last(from) \notin Range(to)
               ELSE IsPrefix(from, to)
    <3>1. Complete \in Seq(Inst) /\ FlowsIn(Complete, <<>>)
      BY <2>2, CompleteFlows
    <3>2. PICK s \in Seq(Inst) : s = Complete
      BY <3>1
    <3>3. DOMAIN s = 1 .. Len(s) /\ Len(s) \in Nat
      OBVIOUS
    <3>4. LandsIn(s, <<>>, i) /\ i \in 1 .. Len(s)
      BY <2>2, <3>1, <3>2, <3>3 DEF FlowsIn
    <3>5. to = NAt(s, <<>>, s[i].to)
      BY <2>2, <3>2, <3>3 DEF NestAt, NAt
    <3>6. \A j \in 1 .. Len(s) : s[j].nest \in Seq(LoopId)
      <4>1. \A j \in 1 .. Len(s) : s[j] \in Inst
        BY <3>3
      <4>2. \A e \in Inst : e.nest \in Seq(LoopId)
        BY DEF Inst
      <4> QED BY <4>1, <4>2
    <3>7. from \in Seq(LoopId) /\ to \in Seq(LoopId)
      <4>1. <<>> \in Seq(LoopId)
        OBVIOUS
      <4> QED BY <2>2, <3>2, <3>4, <3>5, <3>6, <4>1 DEF NAt
    <3>8. IF s[i].leaves THEN PreBut(from, to) ELSE Pre(from, to)
      BY <2>2, <3>2, <3>4, <3>5 DEF LandsIn
    <3> QED BY <3>2, <3>7, <3>8, PreIs, PreButIs
  <2> QED BY <2>1, <2>2 DEF LoopsKept
<1> QED BY <1>1, Flowing, PTL

\* vm_run: whatever path it has taken to an instruction, it finds on the stack the operands
\* the parse functions counted on.  For code of fewer instructions than an offset can say.
THEOREM OperandsDoAgree == Spec => [](Len(out) < OffsetLimit => OperandsAgree)
<1>1. FInv => (Len(out) < OffsetLimit => OperandsAgree)
  <2> SUFFICES ASSUME FInv, Len(out) < OffsetLimit, slips = {} PROVE OperandsAgree
    BY DEF OperandsAgree
  <2>1. /\ out \in Seq(Inst) /\ pc \in 0 .. Len(out) + 1 /\ Len(out) \in Nat /\ Feeds(out) /\ FlowsOn(out, 0)
        /\ pc # 0 => depth = HAt(out, 0, pc)
    BY DEF FInv, GInv, Runs, Short
  <2>2. ASSUME pc \in DOMAIN out
        PROVE  depth = Now.h /\ depth >= Now.takes /\ (Now.op = "ret" => depth = Now.takes)
    <3>1. pc \in 1 .. Len(out) /\ pc # 0 /\ Now = out[pc]
      BY <2>1, <2>2 DEF Now
    <3>2. depth = out[pc].h
      BY <2>1, <3>1 DEF HAt
    <3>3. out[pc].takes \in Nat /\ out[pc].h \in Int
      BY <2>1, <3>1, InstIs
    <3>4. out[pc].takes <= out[pc].h
      BY <2>1, <3>1 DEF Feeds
    <3>5. out[pc].op = "ret" => out[pc].takes = out[pc].h
      BY <2>1, <3>1 DEF FlowsOn, LandsOn, Turns
    <3> QED BY <3>1, <3>2, <3>3, <3>4, <3>5
  <2>3. ASSUME pc > Len(out) PROVE depth = 0
    <3>1. pc # 0 /\ pc \notin 1 .. Len(out)
      BY <2>1, <2>3
    <3> QED BY <2>1, <3>1 DEF HAt
  <2> QED BY <2>2, <2>3 DEF OperandsAgree
<1> QED BY <1>1, Flowing, PTL
=============================================================================

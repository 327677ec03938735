-------------------------- MODULE YmdHashMapProofs ---------------------------
(***************************************************************************)
(* The hash map is a dictionary (YmdHashMap, YmdMap) for any keys, hashes  *)
(* and sizes.                                                              *)
(*                                                                         *)
(* The argument is about an array alone: its entries form chains without   *)
(* loops, one for each head, and that of a head holds every steady key     *)
(* whose hash has that position (Good).  A put keeps that, whichever of    *)
(* its four forms it takes, and changes what the array holds at its key    *)
(* only (Puts).                                                            *)
(***************************************************************************)
EXTENDS YmdHashMap, Integers, FiniteSetTheorems, TLAPS

(* A set of naturals has a least element: of the intervals 0 .. y that end in one of its *)
(* elements, all parts of the finite 0 .. m, one has no strict part among them.          *)
LEMMA LeastExists ==
    ASSUME NEW S \in SUBSET Nat, S # {}
    PROVE  \E x \in S : \A y \in S : x <= y
<1>1. PICK m \in S : TRUE
  OBVIOUS
<1> DEFINE N == 0 .. m
           T == {C \in SUBSET N : \E y \in S : C = 0 .. y}
<1>2. PICK C \in T : \A D \in T : ~ (<<D, C>> \in StrictSubsetOrdering(N))
  <2>1. IsFiniteSet(N)
    BY FS_Interval
  <2>2. FiniteSubsetsOf(N) = SUBSET N
    BY <2>1, FS_FiniteSubsetsOfFinite
  <2>3. T \subseteq FiniteSubsetsOf(N) /\ 0 .. m \in T
    BY <2>2
  <2> HIDE DEF T, N
  <2> QED BY <2>3, FS_StrictSubsetOrderingWellFounded, WFMin
<1>3. PICK x \in S : C = 0 .. x
  OBVIOUS
<1>4. ASSUME NEW y \in S, y < x PROVE FALSE
  <2>1. x \in Nat /\ y \in Nat
    OBVIOUS
  <2>2. x \in C /\ x \notin 0 .. y /\ 0 .. y \subseteq C
    BY <1>3, <1>4, <2>1
  <2> QED BY <1>2, <2>2 DEF StrictSubsetOrdering
<1>5. \A y \in S : x \in Nat /\ y \in Nat
  OBVIOUS
<1> QED BY <1>4, <1>5

LEMMA MinIsLeast ==
    ASSUME NEW S \in SUBSET Nat, S # {}
    PROVE  Min(S) \in S /\ \A y \in S : Min(S) <= y
BY LeastExists DEF Min

LEMMA MaxIsIn ==
    ASSUME NEW n \in Nat, NEW S \in SUBSET (0 .. n - 1), S # {}
    PROVE  Max(S) \in S /\ \A y \in S : y <= Max(S)
<1> DEFINE T == {n - y : y \in S}
<1>1. T \in SUBSET Nat /\ T # {}
  OBVIOUS
<1>2. PICK x \in T : \A y \in T : x <= y
  <2> HIDE DEF T
  <2> QED BY <1>1, LeastExists
<1>3. PICK z \in S : x = n - z
  BY <1>2
<1>4. ASSUME NEW y \in S PROVE z >= y /\ y <= z
  <2>1. n - y \in T /\ y \in Int /\ z \in Int
    OBVIOUS
  <2>2. n - z <= n - y
    BY <2>1, <1>2, <1>3
  <2> QED BY <2>1, <2>2
<1> QED BY <1>3, <1>4 DEF Max

\* Keys whose hash is that of their contents for good.
Steady == Key \ Mutable
Slots(t) == {i \in DOMAIN t : t[i].flag = "slot"}
Nodes(t) == {i \in DOMAIN t : t[i].flag = "node"}

\* The entries of an array of n: pointers point at nodes, free entries are blank.
Cells(t, n) ==
    /\ n \in Nat /\ n > 1
    /\ t \in [0 .. n - 1 -> Entry]
    /\ \A i \in Used(t) : t[i].k \in Key /\ t[i].hash \in Hash
    /\ \A i \in Used(t) : t[i].next # Nil => t[i].next \in Nodes(t)
    /\ \A i \in DOMAIN t : t[i].flag = "free" => t[i] = Free

\* No two entries point at the same.
Single(t) ==
    \A i, j \in Used(t) : t[i].next # Nil /\ t[i].next = t[j].next => i = j

\* Heads sit on their positions, and every entry is on the chain of one.
AtHome(t, n) == \A i \in Slots(t) : i = Position(t[i].hash, n)
Owned(t) == \A i \in Used(t) : \E s \in Slots(t) : i \in Chain(t, s)

\* A steady key is on the chain its hash says, and there only once.
Placed(t, n, h) ==
    \A i \in Used(t) : t[i].k \in Steady =>
        LET p == Position(h[t[i].k], n)
        IN t[i].hash = h[t[i].k] /\ p \in Slots(t) /\ i \in Chain(t, p)
Once(t) == \A i, j \in Used(t) : t[i].k = t[j].k /\ t[i].k \in Steady => i = j

Good(t, n, h) ==
    Cells(t, n) /\ Single(t) /\ AtHome(t, n) /\ Owned(t) /\ Placed(t, n, h) /\ Once(t)

\* The values an array holds for a key: of a steady one, one at most.
Bound(t, k) == {t[i].v : i \in {j \in Used(t) : t[j].k = k}}

-----------------------------------------------------------------------------
(* Chains *)

LEMMA PositionType ==
    ASSUME NEW h \in Nat, NEW n \in Nat, n > 1
    PROVE  Position(h, n) \in 0 .. n - 1
<1>1. \A m \in Nat : m % n \in 0 .. n - 1
  OBVIOUS
<1>2. h # 0 => h - 1 \in Nat
  OBVIOUS
<1> QED BY <1>1, <1>2 DEF Position

LEMMA CellFacts ==
    ASSUME NEW t, NEW n, Cells(t, n)
    PROVE  /\ DOMAIN t = 0 .. n - 1
           /\ Used(t) \subseteq 0 .. n - 1
           /\ Nodes(t) \subseteq Used(t) /\ Slots(t) \subseteq Used(t)
           /\ Nodes(t) \cap Slots(t) = {} /\ Used(t) = Nodes(t) \cup Slots(t)
           /\ \A i \in 0 .. n - 1 : t[i] \in Entry
           /\ \A i \in 0 .. n - 1 : i \notin Used(t) => t[i] = Free
<1>1. t \in [0 .. n - 1 -> Entry] /\ \A i \in DOMAIN t : t[i].flag = "free" => t[i] = Free
  BY DEF Cells
<1>2. \A i \in 0 .. n - 1 : t[i].flag \in {"free", "slot", "node"}
  BY <1>1 DEF Entry
<1> QED BY <1>1, <1>2 DEF Used, Nodes, Slots

LEMMA TargetFacts ==
    ASSUME NEW t, NEW n, Cells(t, n)
    PROVE  /\ Targets(t) \subseteq Nodes(t)
           /\ \A y \in Used(t) : t[y].next # Nil => t[y].next \in Targets(t)
BY DEF Cells, Targets

\* A chain holds its first entry and what its entries point at, and nothing more.
LEMMA ChainCloses ==
    ASSUME NEW t, NEW n, Cells(t, n), NEW i \in Used(t)
    PROVE  /\ i \in Chain(t, i)
           /\ Chain(t, i) \subseteq Used(t)
           /\ \A y \in Chain(t, i) : t[y].next # Nil => t[y].next \in Chain(t, i)
<1> DEFINE whole == {C \in SUBSET Targets(t) : \A y \in C \cup {i} : t[y].next \in C \cup {Nil}}
           least == {x \in Targets(t) : \A C \in whole : x \in C}
<1>1. Chain(t, i) = {i} \cup least
  BY DEF Chain, Used
<1>2. Targets(t) \subseteq Used(t)
  BY CellFacts, TargetFacts
<1>3. ASSUME NEW y \in Chain(t, i), t[y].next # Nil PROVE t[y].next \in least
  <2>1. y \in Used(t) /\ t[y].next \in Targets(t)
    BY <1>1, <1>2, <1>3, TargetFacts
  <2>2. ASSUME NEW C \in whole PROVE t[y].next \in C
    <3>1. y \in C \cup {i}
      BY <1>1, <1>3, <2>2
    <3> QED BY <3>1, <2>2, <1>3
  <2> QED BY <2>1, <2>2
<1> QED BY <1>1, <1>2, <1>3

LEMMA ChainLeast ==
    ASSUME NEW t, NEW n, Cells(t, n), NEW i \in Used(t), NEW D, i \in D,
           \A y \in Used(t) : y \in D /\ t[y].next # Nil => t[y].next \in D
    PROVE  Chain(t, i) \subseteq D
<1> DEFINE whole == {C \in SUBSET Targets(t) : \A y \in C \cup {i} : t[y].next \in C \cup {Nil}}
           E == D \cap Targets(t)
<1>1. E \in whole
  <2>1. ASSUME NEW y \in E \cup {i}, t[y].next # Nil PROVE t[y].next \in E
    <3>1. y \in Used(t) /\ y \in D
      BY <2>1, CellFacts, TargetFacts
    <3>2. t[y].next \in Targets(t)
      BY <3>1, <2>1, TargetFacts
    <3> QED BY <3>1, <3>2, <2>1
  <2> QED BY <2>1
<1>2. Chain(t, i) = {i} \cup {x \in Targets(t) : \A C \in whole : x \in C}
  BY DEF Chain, Used
<1> QED BY <1>1, <1>2

\* A map of entries that keeps what points at what takes chains into chains.
LEMMA ChainMoves ==
    ASSUME NEW t, NEW n, Cells(t, n), NEW u, NEW m, Cells(u, m),
           NEW f \in [Used(t) -> Used(u)],
           \A y \in Used(t) : t[y].next # Nil => u[f[y]].next = f[t[y].next],
           NEW i \in Used(t), NEW x \in Chain(t, i)
    PROVE  f[x] \in Chain(u, f[i])
<1> DEFINE D == {y \in Used(t) : f[y] \in Chain(u, f[i])}
<1>1. i \in D
  BY ChainCloses
<1>2. ASSUME NEW y \in Used(t), y \in D, t[y].next # Nil PROVE t[y].next \in D
  <2>1. t[y].next \in Used(t)
    BY <1>2, CellFacts DEF Cells
  <2>2. u[f[y]].next = f[t[y].next] /\ f[t[y].next] \in Used(u)
    BY <1>2, <2>1
  <2>3. u[f[y]].next # Nil
    BY <2>2, CellFacts, MapAssumption DEF MapAssumption
  <2>4. u[f[y]].next \in Chain(u, f[i])
    BY <1>2, <2>3, ChainCloses
  <2> QED BY <2>1, <2>2, <2>4
<1>3. Chain(t, i) \subseteq D
  <2> HIDE DEF D
  <2> QED BY <1>1, <1>2, ChainLeast
<1> QED BY <1>3

LEMMA NoLoop ==
    ASSUME NEW t, NEW n, Cells(t, n), Single(t), Owned(t), NEW x \in Used(t)
    PROVE  t[x].next # x
<1> SUFFICES ASSUME t[x].next = x PROVE FALSE
  OBVIOUS
<1>1. x # Nil /\ x \in Nodes(t)
  <2>1. x \in 0 .. n - 1 /\ n \in Nat
    BY CellFacts DEF Cells
  <2>2. x # Nil
    BY <2>1, MapAssumption DEF MapAssumption
  <2> QED BY <2>2 DEF Cells
<1>2. PICK s \in Slots(t) : x \in Chain(t, s)
  BY DEF Owned
<1>3. s \in Used(t) /\ s # x
  BY <1>1, CellFacts
<1> DEFINE D == Used(t) \ {x}
<1>4. ASSUME NEW y \in Used(t), y \in D, t[y].next # Nil PROVE t[y].next \in D
  <2>1. t[y].next \in Used(t)
    BY <1>4, CellFacts DEF Cells
  <2>2. t[y].next # x
    BY <1>4 DEF Single
  <2> QED BY <2>1, <2>2
<1>5. Chain(t, s) \subseteq D
  <2>1. s \in D
    BY <1>3
  <2> HIDE DEF D
  <2> QED BY <2>1, <1>3, <1>4, ChainLeast
<1> QED BY <1>2, <1>5

\* Following a chain from its head ends: pointers are one to one, and none points at
\* the head.
LEMMA ChainEnds ==
    ASSUME NEW t, NEW n, Cells(t, n), Single(t), NEW s \in Slots(t)
    PROVE  \E x \in Chain(t, s) : t[x].next = Nil
<1> SUFFICES ASSUME \A x \in Chain(t, s) : t[x].next # Nil PROVE FALSE
  OBVIOUS
<1> DEFINE X == Chain(t, s)
           f == [x \in X |-> t[x].next]
<1>1. s \in Used(t) /\ s \notin Nodes(t) /\ s \in X /\ X \subseteq Used(t)
  BY ChainCloses, CellFacts
<1>2. \A x \in X : t[x].next \in X \ {s}
  BY <1>1, ChainCloses DEF Cells
<1>3. IsFiniteSet(X)
  <2>1. IsFiniteSet(0 .. n - 1)
    BY FS_Interval DEF Cells
  <2>2. X \subseteq 0 .. n - 1
    BY <1>1, CellFacts
  <2> QED BY <2>1, <2>2, FS_Subset
<1>4. IsFiniteSet(X \ {s}) /\ Cardinality(X \ {s}) < Cardinality(X)
  <2>1. Cardinality(X) \in Nat
    BY <1>3, FS_CardinalityType
  <2>2. IsFiniteSet(X \ {s}) /\ Cardinality(X \ {s}) = Cardinality(X) - 1
    <3>1. s \in X
      BY <1>1
    <3> HIDE DEF X
    <3> QED BY <3>1, <1>3, FS_RemoveElement
  <2> HIDE DEF X
  <2> QED BY <2>1, <2>2
<1>5. f \in [X -> X \ {s}]
  BY <1>2
<1>6. PICK x, y \in X : x # y /\ f[x] = f[y]
  <2> HIDE DEF X, f
  <2> QED BY <1>3, <1>4, <1>5, FS_PigeonHole
<1>7. t[x].next = t[y].next /\ t[x].next # Nil /\ x \in Used(t) /\ y \in Used(t)
  BY <1>1, <1>6
<1> QED BY <1>6, <1>7 DEF Single

-----------------------------------------------------------------------------
(* Free entries *)

LEMMA AllocIsFree ==
    ASSUME NEW t, NEW n, Cells(t, n), FreeEntries(t) # {}
    PROVE  AllocFree(t) \in 0 .. n - 1 /\ t[AllocFree(t)] = Free
<1>1. FreeEntries(t) \in SUBSET (0 .. n - 1) /\ n \in Nat
  BY CellFacts DEF FreeEntries, Cells
<1>2. AllocFree(t) \in FreeEntries(t)
  BY <1>1, MaxIsIn DEF AllocFree
<1> QED BY <1>1, <1>2 DEF FreeEntries, Cells

-----------------------------------------------------------------------------
(* A put *)

\* The entries of t are those of u, the map f of the ones to the others, but for one new
\* entry j, of k and at the end of its chain.
Adds(t, u, f, j, k) ==
    /\ f \in [Used(t) -> Used(u)] /\ j \in Used(u)
    /\ \A x \in Used(u) : x # j => \E y \in Used(t) : x = f[y]
    /\ \A y \in Used(t) : f[y] # j
    /\ \A y, z \in Used(t) : f[y] = f[z] => y = z
    /\ \A y \in Slots(t) : f[y] = y /\ y \in Slots(u) /\ u[y].hash = t[y].hash
    /\ \A y \in Used(t) :
          /\ u[f[y]].k = t[y].k /\ u[f[y]].v = t[y].v
          /\ f[y] \in Slots(u) => y \in Slots(t)
          /\ t[y].k \in Steady => u[f[y]].hash = t[y].hash
          /\ t[y].next # Nil => u[f[y]].next = f[t[y].next]
          /\ t[y].next = Nil => u[f[y]].next \in {Nil, j}
    /\ \A y, z \in Used(t) : u[f[y]].next = j /\ u[f[z]].next = j => y = z
    /\ u[j].next = Nil /\ u[j].k = k /\ u[j].hash = hash[k]
    /\ LET p == Position(hash[k], size)
       IN p \in Slots(u) /\ j \in Chain(u, p) /\ (j \in Slots(u) => j = p)
    /\ k \in Steady => \A y \in Used(t) : t[y].k # k

LEMMA AddsGood ==
    ASSUME NEW t, NEW u, NEW f, NEW j, NEW k \in Key,
           Good(t, size, hash), Cells(u, size), Adds(t, u, f, j, k)
    PROVE  Good(u, size, hash) /\ \A c \in Key \ {k} : Bound(u, c) = Bound(t, c)
<1> DEFINE p == Position(hash[k], size)
<1>1. /\ f \in [Used(t) -> Used(u)] /\ j \in Used(u)
      /\ \A x \in Used(u) : x # j => \E y \in Used(t) : x = f[y]
      /\ \A y \in Used(t) : f[y] # j
      /\ \A y, z \in Used(t) : f[y] = f[z] => y = z
      /\ \A y \in Slots(t) : f[y] = y /\ y \in Slots(u) /\ u[y].hash = t[y].hash
  BY DEF Adds
<1>2. \A y \in Used(t) :
          /\ u[f[y]].k = t[y].k /\ u[f[y]].v = t[y].v
          /\ f[y] \in Slots(u) => y \in Slots(t)
          /\ t[y].k \in Steady => u[f[y]].hash = t[y].hash
  BY DEF Adds
<1>3. \A y \in Used(t) :
          /\ t[y].next # Nil => u[f[y]].next = f[t[y].next]
          /\ t[y].next = Nil => u[f[y]].next \in {Nil, j}
  BY DEF Adds
<1>4. /\ \A y, z \in Used(t) : u[f[y]].next = j /\ u[f[z]].next = j => y = z
      /\ u[j].next = Nil /\ u[j].k = k /\ u[j].hash = hash[k]
      /\ p \in Slots(u) /\ j \in Chain(u, p) /\ (j \in Slots(u) => j = p)
      /\ k \in Steady => \A y \in Used(t) : t[y].k # k
  BY DEF Adds
<1>5. Cells(t, size) /\ Slots(t) \subseteq Used(t) /\ Slots(u) \subseteq Used(u)
  BY CellFacts DEF Good
<1>6. \A y \in Used(t) : t[y].next # Nil => t[y].next \in Used(t)
  BY <1>5, CellFacts DEF Cells
<1>7. \A s \in Slots(t) : \A y \in Chain(t, s) : f[y] \in Chain(u, s)
  <2> TAKE s \in Slots(t)
  <2> TAKE y \in Chain(t, s)
  <2>1. s \in Used(t) /\ f[s] = s
    BY <1>1, <1>5
  <2>2. f[y] \in Chain(u, f[s])
    BY <2>1, <1>1, <1>3, <1>5, ChainMoves
  <2> QED BY <2>1, <2>2
<1> HIDE DEF p
<1>8. Single(u)
  <2> SUFFICES ASSUME NEW x \in Used(u), NEW y \in Used(u), u[x].next # Nil,
                      u[x].next = u[y].next
               PROVE  x = y
    BY DEF Single
  <2>1. x # j /\ y # j
    BY <1>4
  <2>2. PICK a \in Used(t) : x = f[a]
    BY <2>1, <1>1
  <2>3. PICK b \in Used(t) : y = f[b]
    BY <2>1, <1>1
  <2>4. CASE t[a].next # Nil /\ t[b].next # Nil
    <3>1. f[t[a].next] = f[t[b].next]
      BY <2>2, <2>3, <2>4, <1>3
    <3>2. t[a].next = t[b].next
      BY <3>1, <2>4, <1>1, <1>6
    <3> QED BY <3>2, <2>2, <2>3, <2>4, <1>5 DEF Good, Single
  <2>5. CASE t[a].next = Nil \/ t[b].next = Nil
    <3>1. u[x].next = j
      BY <2>2, <2>3, <2>5, <1>3
    <3> QED BY <3>1, <2>2, <2>3, <1>4
  <2> QED BY <2>4, <2>5
<1>9. AtHome(u, size)
  <2> SUFFICES ASSUME NEW i \in Slots(u) PROVE i = Position(u[i].hash, size)
    BY DEF AtHome
  <2>1. CASE i = j
    BY <2>1, <1>4 DEF p
  <2>2. CASE i # j
    <3>1. PICK y \in Used(t) : i = f[y]
      BY <2>2, <1>1, <1>5
    <3>2. y \in Slots(t) /\ i = y
      BY <3>1, <1>1, <1>2
    <3> QED BY <3>2, <1>1 DEF Good, AtHome
  <2> QED BY <2>1, <2>2
<1>10. Owned(u)
  <2> SUFFICES ASSUME NEW i \in Used(u) PROVE \E s \in Slots(u) : i \in Chain(u, s)
    BY DEF Owned
  <2>1. CASE i # j
    <3>1. PICK y \in Used(t) : i = f[y]
      BY <2>1, <1>1
    <3>2. PICK s \in Slots(t) : y \in Chain(t, s)
      BY DEF Good, Owned
    <3> QED BY <3>1, <3>2, <1>1, <1>7
  <2> QED BY <2>1, <1>4
<1>11. Placed(u, size, hash)
  <2> SUFFICES ASSUME NEW i \in Used(u), u[i].k \in Steady
               PROVE  LET q == Position(hash[u[i].k], size)
                      IN u[i].hash = hash[u[i].k] /\ q \in Slots(u) /\ i \in Chain(u, q)
    BY DEF Placed
  <2>1. CASE i = j
    BY <2>1, <1>4 DEF p
  <2>2. CASE i # j
    <3>1. PICK y \in Used(t) : i = f[y]
      BY <2>2, <1>1
    <3> DEFINE q == Position(hash[t[y].k], size)
    <3>2. u[i].k = t[y].k /\ u[i].hash = t[y].hash /\ t[y].k \in Steady
      BY <3>1, <1>2
    <3>3. t[y].hash = hash[t[y].k] /\ q \in Slots(t) /\ y \in Chain(t, q)
      BY <3>2 DEF Good, Placed
    <3>4. q \in Slots(u) /\ i \in Chain(u, q)
      <4> HIDE DEF q
      <4> QED BY <3>1, <3>3, <1>1, <1>7
    <3> QED BY <3>2, <3>3, <3>4
  <2> QED BY <2>1, <2>2
<1>12. Once(u)
  <2> SUFFICES ASSUME NEW x \in Used(u), NEW y \in Used(u), u[x].k = u[y].k,
                      u[x].k \in Steady
               PROVE  x = y
    BY DEF Once
  <2>1. ASSUME NEW a \in Used(u), NEW b \in Used(u), a = j, b # j, u[a].k = u[b].k,
               u[a].k \in Steady
        PROVE  FALSE
    <3>1. PICK y1 \in Used(t) : b = f[y1]
      BY <2>1, <1>1
    <3> QED BY <3>1, <2>1, <1>2, <1>4
  <2>2. CASE x # j /\ y # j
    <3>1. PICK a \in Used(t) : x = f[a]
      BY <2>2, <1>1
    <3>2. PICK b \in Used(t) : y = f[b]
      BY <2>2, <1>1
    <3>3. t[a].k = t[b].k /\ t[a].k \in Steady
      BY <3>1, <3>2, <1>2
    <3>4. a = b
      BY <3>3 DEF Good, Once
    <3> QED BY <3>1, <3>2, <3>4
  <2> QED BY <2>1, <2>2
<1>13. ASSUME NEW c \in Key \ {k} PROVE Bound(u, c) = Bound(t, c)
  <2>1. ASSUME NEW x \in Used(u), u[x].k = c
        PROVE  \E y \in Used(t) : t[y].k = c /\ t[y].v = u[x].v
    BY <2>1, <1>1, <1>2, <1>4
  <2>2. ASSUME NEW y \in Used(t), t[y].k = c
        PROVE  \E x \in Used(u) : u[x].k = c /\ u[x].v = t[y].v
    BY <2>2, <1>1, <1>2
  <2>3. Bound(u, c) \subseteq Bound(t, c)
    BY <2>1 DEF Bound
  <2>4. Bound(t, c) \subseteq Bound(u, c)
    BY <2>2 DEF Bound
  <2> QED BY <2>3, <2>4
<1> QED BY <1>8, <1>9, <1>10, <1>11, <1>12, <1>13 DEF Good

\* The state a put of k and v into t starts from, and what the put u is of.
Puttable(t, k, v) ==
    /\ hash \in [Key -> Hash] /\ Good(t, size, hash)
    /\ k \in Key /\ v \in Val \cup {Nil, Unwritten}
Puts(t, u, k, v) ==
    /\ Good(u, size, hash)
    /\ Used(t) \subseteq Used(u) /\ \E j \in 0 .. size - 1 : Used(u) = Used(t) \cup {j}
    /\ \A c \in Key \ {k} : Bound(u, c) = Bound(t, c)
    /\ \E x \in Used(u) : u[x].k = k /\ (v # Unwritten => u[x].v = v)
    /\ \A x \in Used(t) : \/ u[x].k = t[x].k
                          \/ t[x].flag = "node" /\ x = Position(hash[k], size)

LEMMA PositionIn ==
    ASSUME hash \in [Key -> Hash], NEW k \in Key, NEW t, Cells(t, size)
    PROVE  Position(hash[k], size) \in 0 .. size - 1
<1>1. hash[k] \in Nat /\ size \in Nat /\ size > 1
  BY MapAssumption DEF MapAssumption, Cells
<1> QED BY <1>1, PositionType

\* Hits for a hash of its own, so that it can be used of the state before and after a step.
HitsOf(t, n, h, k) ==
    LET p == Position(h, n)
    IN IF t[p].flag # "slot" THEN {} ELSE {x \in Chain(t, p) : t[x].hash = h /\ t[x].k = k}

\* What a get of a steady key finds is its entry, if there is one.
LEMMA HitsAreThose ==
    ASSUME NEW t, NEW n, NEW h \in [Key -> Hash], Good(t, n, h), NEW k \in Steady
    PROVE  HitsOf(t, n, h[k], k) = {x \in Used(t) : t[x].k = k}
<1> DEFINE p == Position(h[k], n)
<1>1. Cells(t, n) /\ Slots(t) \subseteq Used(t)
  BY CellFacts DEF Good
<1>2. \A x \in Used(t) : t[x].k = k => t[x].hash = h[k] /\ p \in Slots(t) /\ x \in Chain(t, p)
  BY DEF Good, Placed
<1>3. CASE p \in Slots(t)
  <2>1. HitsOf(t, n, h[k], k) = {x \in Chain(t, p) : t[x].hash = h[k] /\ t[x].k = k}
    BY <1>3 DEF HitsOf, Slots
  <2>2. Chain(t, p) \subseteq Used(t)
    <3> HIDE DEF p
    <3> QED BY <1>1, <1>3, ChainCloses
  <2> HIDE DEF p
  <2> QED BY <1>2, <2>1, <2>2
<1>4. CASE p \notin Slots(t)
  <2>1. \A x \in Used(t) : t[x].k # k
    <3> HIDE DEF p
    <3> QED BY <1>2, <1>4
  <2>2. p \in DOMAIN t
    <3>1. h[k] \in Nat /\ n \in Nat /\ n > 1 /\ DOMAIN t = 0 .. n - 1
      BY <1>1, MapAssumption, CellFacts DEF MapAssumption, Cells, Steady
    <3> QED BY <3>1, PositionType
  <2>3. HitsOf(t, n, h[k], k) = {}
    BY <1>4, <2>2 DEF HitsOf, Slots
  <2> QED BY <2>1, <2>3
<1> QED BY <1>3, <1>4

LEMMA HitsAreEntries ==
    ASSUME hash \in [Key -> Hash], NEW t, Good(t, size, hash), NEW k \in Steady
    PROVE  Hits(t, k) = {x \in Used(t) : t[x].k = k}
<1>1. Hits(t, k) = HitsOf(t, size, hash[k], k)
  BY DEF Hits, HitsOf
<1> QED BY <1>1, HitsAreThose

LEMMA NewEntry ==
    ASSUME hash \in [Key -> Hash], NEW k \in Key, NEW v \in Val \cup {Nil, Unwritten},
           NEW old \in Val \cup {Nil}, NEW flag \in {"slot", "node"}
    PROVE  /\ Written(old, v) \in Val \cup {Nil} /\ (v # Unwritten => Written(old, v) = v)
           /\ [flag |-> flag, hash |-> hash[k], k |-> k, v |-> Written(old, v), next |-> Nil]
              \in Entry
BY DEF Written, Entry

LEMMA Repointed ==
    ASSUME NEW e \in Entry, NEW j \in Nat
    PROVE  /\ [e EXCEPT !.next = j] \in Entry /\ [e EXCEPT !.next = j].next = j
           /\ [e EXCEPT !.next = j].flag = e.flag /\ [e EXCEPT !.next = j].hash = e.hash
           /\ [e EXCEPT !.next = j].k = e.k /\ [e EXCEPT !.next = j].v = e.v
BY DEF Entry

\* A head in a free entry.
LEMMA HeadedPuts ==
    ASSUME NEW t, NEW k, NEW v, Puttable(t, k, v), t[Position(hash[k], size)].flag = "free"
    PROVE  Puts(t, Headed(t, k, v), k, v)
<1> DEFINE p == Position(hash[k], size)
           u == Headed(t, k, v)
           f == [y \in Used(t) |-> y]
<1>1. /\ hash \in [Key -> Hash] /\ Good(t, size, hash) /\ Cells(t, size)
      /\ k \in Key /\ v \in Val \cup {Nil, Unwritten}
  BY DEF Puttable, Good
<1>2. /\ size \in Nat /\ size > 1 /\ DOMAIN t = 0 .. size - 1
      /\ t \in [0 .. size - 1 -> Entry]
      /\ Slots(t) \subseteq Used(t) /\ Used(t) \subseteq 0 .. size - 1
  BY <1>1, CellFacts DEF Cells
<1>3. p \in 0 .. size - 1 /\ p \notin Used(t) /\ t[p] = Free
  <2>1. p \in 0 .. size - 1
    BY <1>1, PositionIn
  <2> QED BY <2>1, <1>1, <1>2 DEF Used, Cells
<1>4. Head(t, p, k, v) \in Entry /\ (v # Unwritten => Head(t, p, k, v).v = v)
  <2>1. t[p].v \in Val \cup {Nil}
    BY <1>3 DEF Free
  <2> HIDE DEF p
  <2> QED BY <1>1, <2>1, NewEntry DEF Head
<1>5. /\ u \in [0 .. size - 1 -> Entry] /\ u[p] = Head(t, p, k, v)
      /\ \A x \in 0 .. size - 1 : x # p => u[x] = t[x]
  BY <1>2, <1>3, <1>4 DEF Headed
<1>6. /\ u[p].flag = "slot" /\ u[p].hash = hash[k] /\ u[p].k = k /\ u[p].next = Nil
      /\ v # Unwritten => u[p].v = v
  BY <1>4, <1>5 DEF Head
<1> HIDE DEF p, u
<1>7. Used(u) = Used(t) \cup {p} /\ Slots(u) = Slots(t) \cup {p} /\ Nodes(u) = Nodes(t)
  BY SMTT(60), <1>2, <1>3, <1>5, <1>6 DEF Used, Slots, Nodes
<1>8. Cells(u, size)
  <2>1. \A i \in Used(u) : u[i].k \in Key /\ u[i].hash \in Hash
    BY <1>1, <1>2, <1>5, <1>6, <1>7 DEF Cells
  <2>2. \A i \in Used(u) : u[i].next # Nil => u[i].next \in Nodes(u)
    BY <1>1, <1>2, <1>5, <1>6, <1>7 DEF Cells
  <2>3. \A i \in DOMAIN u : u[i].flag = "free" => u[i] = Free
    BY <1>1, <1>2, <1>5, <1>6 DEF Cells
  <2> QED BY <1>2, <1>5, <2>1, <2>2, <2>3 DEF Cells
<1>9. Adds(t, u, f, p, k)
  <2>1. f \in [Used(t) -> Used(u)] /\ \A y \in Used(t) : f[y] = y /\ u[y] = t[y] /\ y # p
    BY <1>2, <1>3, <1>5, <1>7
  <2>2. \A y \in Used(t) : t[y].next # Nil => t[y].next \in Used(t)
    BY <1>1, CellFacts DEF Cells
  <2>3. \A y \in Used(t) : t[y].next # p
    <3>1. p # Nil
      BY <1>2, <1>3, MapAssumption DEF MapAssumption
    <3> QED BY <1>3, <2>2, <3>1
  <2>4. p \in Used(u) /\ p \in Chain(u, p)
    BY <1>7, <1>8, ChainCloses
  <2>5. k \in Steady => \A y \in Used(t) : t[y].k # k
    <3>1. Hits(t, k) = {}
      BY <1>3 DEF Hits, Free, p
    <3> QED BY <1>1, <3>1, HitsAreEntries
  <2>6. \A y \in Used(t) :
          /\ u[f[y]].k = t[y].k /\ u[f[y]].v = t[y].v
          /\ f[y] \in Slots(u) => y \in Slots(t)
          /\ t[y].k \in Steady => u[f[y]].hash = t[y].hash
          /\ t[y].next # Nil => u[f[y]].next = f[t[y].next]
          /\ t[y].next = Nil => u[f[y]].next \in {Nil, p}
    BY <1>7, <2>1, <2>2
  <2>7. \A y \in Slots(t) : f[y] = y /\ y \in Slots(u) /\ u[y].hash = t[y].hash
    BY <1>2, <1>7, <2>1
  <2> HIDE DEF f
  <2> QED BY <1>6, <1>7, <2>1, <2>3, <2>4, <2>5, <2>6, <2>7 DEF Adds, p
<1>10. Good(u, size, hash) /\ \A c \in Key \ {k} : Bound(u, c) = Bound(t, c)
  <2> HIDE DEF f
  <2> QED BY <1>1, <1>8, <1>9, AddsGood
<1>11. \A x \in Used(t) : u[x].k = t[x].k
  BY <1>2, <1>3, <1>5
<1> QED BY <1>3, <1>6, <1>7, <1>10, <1>11 DEF Puts, u

\* A node at the end of the chain of a head.
LEMMA LinkedPuts ==
    ASSUME NEW t, NEW k, NEW v, Puttable(t, k, v), t[Position(hash[k], size)].flag = "slot",
           Hits(t, k) = {}, FreeEntries(t) # {}
    PROVE  Puts(t, Linked(t, k, v), k, v)
<1> DEFINE p == Position(hash[k], size)
           u == Linked(t, k, v)
           f == [y \in Used(t) |-> y]
           fnd == AllocFree(t)
           pos == CHOOSE x \in Chain(t, p) : t[x].next = Nil
<1>1. /\ hash \in [Key -> Hash] /\ Good(t, size, hash) /\ Cells(t, size) /\ Single(t)
      /\ k \in Key /\ v \in Val \cup {Nil, Unwritten}
  BY DEF Puttable, Good
<1>2. /\ size \in Nat /\ size > 1 /\ DOMAIN t = 0 .. size - 1
      /\ t \in [0 .. size - 1 -> Entry]
      /\ Slots(t) \subseteq Used(t) /\ Used(t) \subseteq 0 .. size - 1
  BY <1>1, CellFacts DEF Cells
<1>3. p \in Slots(t) /\ p \in Used(t)
  <2>1. p \in 0 .. size - 1
    BY <1>1, PositionIn
  <2> QED BY <2>1, <1>2 DEF Slots
<1>4. fnd \in 0 .. size - 1 /\ fnd \notin Used(t) /\ t[fnd] = Free /\ fnd \in Nat
  <2>1. fnd \in 0 .. size - 1 /\ t[fnd] = Free
    BY <1>1, AllocIsFree
  <2> HIDE DEF fnd
  <2> QED BY <2>1, <1>2 DEF Used, Free
<1>5. pos \in Chain(t, p) /\ t[pos].next = Nil /\ pos \in Used(t)
  <2> HIDE DEF p
  <2>1. \E x \in Chain(t, p) : t[x].next = Nil
    BY <1>1, <1>3, ChainEnds
  <2>2. Chain(t, p) \subseteq Used(t)
    BY <1>1, <1>3, ChainCloses
  <2> QED BY <2>1, <2>2
<1>6. Node(k, v) \in Entry /\ (v # Unwritten => Node(k, v).v = v)
  BY <1>1, NewEntry DEF Node
<1> DEFINE end == [t[pos] EXCEPT !.next = fnd]
<1>7. /\ end \in Entry /\ end.next = fnd /\ end.flag = t[pos].flag
      /\ end.hash = t[pos].hash /\ end.k = t[pos].k /\ end.v = t[pos].v
  <2>1. t[pos] \in Entry
    BY <1>2, <1>5
  <2> HIDE DEF pos, fnd
  <2> QED BY <1>4, <2>1, Repointed
<1>8. /\ u \in [0 .. size - 1 -> Entry] /\ u[fnd] = Node(k, v) /\ u[pos] = end
      /\ \A x \in 0 .. size - 1 : x # fnd /\ x # pos => u[x] = t[x]
  <2>1. u = [[t EXCEPT ![fnd] = Node(k, v)] EXCEPT ![pos].next = fnd]
    BY DEF Linked
  <2>2. pos # fnd /\ pos \in 0 .. size - 1
    BY <1>2, <1>4, <1>5
  <2> HIDE DEF u, pos, fnd
  <2> QED BY <1>2, <1>4, <1>6, <1>7, <2>1, <2>2
<1>9. /\ u[fnd].flag = "node" /\ u[fnd].hash = hash[k] /\ u[fnd].k = k /\ u[fnd].next = Nil
      /\ v # Unwritten => u[fnd].v = v
  BY <1>6, <1>8 DEF Node
<1> HIDE DEF p, u, pos, fnd, end
<1>10. \A y \in Used(t) : /\ y # fnd /\ y \in 0 .. size - 1 /\ u[y].flag = t[y].flag
                          /\ u[y].hash = t[y].hash
                          /\ u[y].k = t[y].k /\ u[y].v = t[y].v
                          /\ u[y].next = IF y = pos THEN fnd ELSE t[y].next
  BY <1>2, <1>4, <1>5, <1>7, <1>8
<1>11. Used(u) = Used(t) \cup {fnd} /\ Slots(u) = Slots(t) /\ Nodes(u) = Nodes(t) \cup {fnd}
  <2>1. DOMAIN u = 0 .. size - 1
    BY <1>8
  <2>2. \A x \in 0 .. size - 1 : x # fnd => u[x].flag = t[x].flag
    BY <1>7, <1>8
  <2> QED BY <1>2, <1>4, <1>9, <2>1, <2>2 DEF Used, Slots, Nodes, Free
<1>12. Cells(u, size)
  <2>1. \A i \in Used(u) : u[i].k \in Key /\ u[i].hash \in Hash
    BY <1>1, <1>2, <1>9, <1>10, <1>11 DEF Cells
  <2>2. \A i \in Used(u) : u[i].next # Nil => u[i].next \in Nodes(u)
    BY <1>1, <1>9, <1>10, <1>11 DEF Cells
  <2>3. \A i \in DOMAIN u : u[i].flag = "free" => u[i] = Free
    <3>1. \A i \in 0 .. size - 1 : i \notin Used(u) => u[i] = t[i] /\ i \notin Used(t)
      BY <1>2, <1>5, <1>8, <1>11
    <3>2. \A i \in 0 .. size - 1 : i \notin Used(t) => t[i] = Free
      BY <1>1, CellFacts
    <3> QED BY <1>8, <3>1, <3>2 DEF Used
  <2> QED BY <1>2, <1>8, <2>1, <2>2, <2>3 DEF Cells
<1>13. \A y \in Used(t) : t[y].next # Nil => t[y].next \in Used(t)
  BY <1>1, CellFacts DEF Cells
<1>14. f \in [Used(t) -> Used(u)] /\ \A y \in Used(t) : f[y] = y
  BY <1>11
<1>15. fnd \in Chain(u, p)
  <2>1. \A y \in Used(t) : t[y].next # Nil => u[f[y]].next = f[t[y].next]
    BY <1>5, <1>10, <1>13, <1>14
  <2>2. f[pos] \in Chain(u, f[p])
    <3> HIDE DEF f
    <3> QED BY <1>1, <1>3, <1>5, <1>12, <1>14, <2>1, ChainMoves
  <2>3. pos \in Chain(u, p) /\ p \in Used(u)
    BY <2>2, <1>3, <1>5, <1>11, <1>14
  <2>4. u[pos].next = fnd /\ fnd # Nil
    BY <1>4, <1>5, <1>10, MapAssumption DEF MapAssumption
  <2> QED BY <1>12, <2>3, <2>4, ChainCloses
<1>16. Adds(t, u, f, fnd, k)
  <2>1. fnd # Nil /\ \A y \in Used(t) : t[y].next # fnd
    <3>1. fnd # Nil
      BY <1>4, MapAssumption DEF MapAssumption
    <3> QED BY <1>4, <1>13, <3>1
  <2>2. fnd \notin Slots(u) /\ fnd \in Used(u)
    BY <1>2, <1>4, <1>11
  <2>3. k \in Steady => \A y \in Used(t) : t[y].k # k
    BY <1>1, HitsAreEntries
  <2>4. \A y \in Used(t) :
          /\ u[f[y]].k = t[y].k /\ u[f[y]].v = t[y].v
          /\ f[y] \in Slots(u) => y \in Slots(t)
          /\ t[y].k \in Steady => u[f[y]].hash = t[y].hash
          /\ t[y].next # Nil => u[f[y]].next = f[t[y].next]
          /\ t[y].next = Nil => u[f[y]].next \in {Nil, fnd}
    BY <1>5, <1>10, <1>11, <1>13, <1>14
  <2>5. \A y \in Slots(t) : f[y] = y /\ y \in Slots(u) /\ u[y].hash = t[y].hash
    BY <1>2, <1>10, <1>11, <1>14
  <2>6. \A y, z \in Used(t) : u[f[y]].next = fnd /\ u[f[z]].next = fnd => y = z
    BY <1>10, <1>14, <2>1
  <2>7. p \in Slots(u)
    BY <1>3, <1>11
  <2> HIDE DEF f
  <2> QED BY <1>9, <1>10, <1>11, <1>14, <1>15, <2>2, <2>3, <2>4, <2>5, <2>6, <2>7 DEF Adds, p
<1>17. Good(u, size, hash) /\ \A c \in Key \ {k} : Bound(u, c) = Bound(t, c)
  <2> HIDE DEF f
  <2> QED BY <1>1, <1>12, <1>16, AddsGood
<1> QED BY <1>4, <1>9, <1>10, <1>11, <1>17 DEF Puts, u


\* A head in the entry of a node, which moves.
LEMMA EvictedPuts ==
    ASSUME NEW t, NEW k, NEW v, Puttable(t, k, v), t[Position(hash[k], size)].flag = "node",
           HeadFound(t, k), FreeEntries(t) # {}
    PROVE  Puts(t, Evicted(t, k, v), k, v)
<1> DEFINE slot == Position(hash[k], size)
           u == Evicted(t, k, v)
           fnd == AllocFree(t)
           f == [y \in Used(t) |-> IF y = slot THEN fnd ELSE y]
           prev == CHOOSE x \in Prev(t, slot) : TRUE
           moved == Moved(t, slot)
           end == [t[prev] EXCEPT !.next = fnd]
<1>1. /\ hash \in [Key -> Hash] /\ Good(t, size, hash) /\ Cells(t, size)
      /\ Single(t) /\ Owned(t) /\ k \in Key /\ v \in Val \cup {Nil, Unwritten}
  BY DEF Puttable, Good
<1>2. /\ size \in Nat /\ size > 1 /\ DOMAIN t = 0 .. size - 1
      /\ t \in [0 .. size - 1 -> Entry]
      /\ Slots(t) \subseteq Used(t) /\ Used(t) \subseteq 0 .. size - 1
  BY <1>1, CellFacts DEF Cells
<1>3. slot \in Used(t) /\ slot \notin Slots(t) /\ slot \in Nodes(t) /\ slot # Nil
  <2>1. slot \in 0 .. size - 1
    BY <1>1, PositionIn
  <2>2. slot # Nil
    BY <1>2, <2>1, MapAssumption DEF MapAssumption
  <2> QED BY <1>2, <2>1, <2>2 DEF Used, Slots, Nodes
<1>4. fnd \in 0 .. size - 1 /\ fnd \notin Used(t) /\ t[fnd] = Free /\ fnd \in Nat
  <2>1. fnd \in 0 .. size - 1 /\ t[fnd] = Free
    BY <1>1, AllocIsFree
  <2> HIDE DEF fnd
  <2> QED BY <2>1, <1>2 DEF Used, Free
<1>5. prev \in Used(t) /\ t[prev].next = slot /\ prev # slot
  <2>1. Prev(t, slot) # {}
    BY DEF HeadFound
  <2>2. prev \in Prev(t, slot)
    BY <2>1
  <2> DEFINE q == Position(hash[t[slot].k], size)
  <2>3. prev \in Chain(t, q) /\ t[prev].next = slot
    <3> HIDE DEF prev, slot
    <3> QED BY <2>2 DEF Prev
  <2>4. q \in DOMAIN t
    <3>1. t[slot].k \in Key
      BY <1>1, <1>3 DEF Cells
    <3> HIDE DEF slot
    <3> QED BY <1>1, <1>2, <3>1, PositionIn
  <2>5. q \in Used(t)
    <3>1. t[q].flag # "free"
      <4> HIDE DEF q
      <4> QED BY <2>3 DEF Chain
    <3> QED BY <2>4, <3>1 DEF Used
  <2>6. prev \in Used(t)
    <3> HIDE DEF q, prev
    <3> QED BY <1>1, <2>3, <2>5, ChainCloses
  <2>7. prev # slot
    <3> HIDE DEF prev, slot
    <3> QED BY <1>1, <2>3, <2>6, NoLoop
  <2> QED BY <2>3, <2>6, <2>7
<1> HIDE DEF slot, fnd, prev
<1>6. /\ moved \in Entry /\ moved.flag = "node" /\ moved.hash = hash[t[slot].k]
      /\ moved.k = t[slot].k /\ moved.v = t[slot].v /\ moved.next = t[slot].next
  <2>1. t[slot] \in Entry /\ hash[t[slot].k] \in Hash
    BY <1>1, <1>2, <1>3 DEF Cells
  <2> QED BY <2>1 DEF Moved, Entry
<1>7. /\ end \in Entry /\ end.next = fnd /\ end.flag = t[prev].flag
      /\ end.hash = t[prev].hash /\ end.k = t[prev].k /\ end.v = t[prev].v
  <2>1. t[prev] \in Entry
    BY <1>2, <1>5
  <2> QED BY <1>4, <2>1, Repointed
<1>8. Head(t, slot, k, v) \in Entry /\ (v # Unwritten => Head(t, slot, k, v).v = v)
  <2>1. t[slot].v \in Val \cup {Nil}
    BY <1>2, <1>3 DEF Entry
  <2> QED BY <1>1, <2>1, NewEntry DEF Head
<1>9. /\ u \in [0 .. size - 1 -> Entry]
      /\ u[fnd] = moved /\ u[prev] = end /\ u[slot] = Head(t, slot, k, v)
      /\ \A x \in 0 .. size - 1 : x # fnd /\ x # prev /\ x # slot => u[x] = t[x]
  <2>1. u = [[[t EXCEPT ![fnd] = moved] EXCEPT ![prev].next = fnd]
                EXCEPT ![slot] = Head(t, slot, k, v)]
    BY DEF Evicted, slot, fnd, prev
  <2>2. /\ prev # fnd /\ prev # slot /\ slot # fnd
        /\ prev \in 0 .. size - 1 /\ slot \in 0 .. size - 1 /\ fnd \in 0 .. size - 1
    BY <1>2, <1>3, <1>4, <1>5
  <2> DEFINE t1 == [t EXCEPT ![fnd] = moved]
             t2 == [t1 EXCEPT ![prev].next = fnd]
  <2>3. /\ t1 \in [0 .. size - 1 -> Entry] /\ t1[fnd] = moved
        /\ \A x \in 0 .. size - 1 : x # fnd => t1[x] = t[x]
    <3> HIDE DEF moved
    <3> QED BY <1>2, <1>6, <2>2
  <2>4. t2 = [t1 EXCEPT ![prev] = end]
    <3> HIDE DEF t1
    <3> QED BY <2>2, <2>3
  <2> HIDE DEF u, t1, moved, end
  <2>5. /\ t2 \in [0 .. size - 1 -> Entry] /\ t2[fnd] = moved /\ t2[prev] = end
        /\ \A x \in 0 .. size - 1 : x # fnd /\ x # prev => t2[x] = t[x]
    <3> HIDE DEF t2
    <3> QED BY <1>7, <2>2, <2>3, <2>4
  <2>6. u = [t2 EXCEPT ![slot] = Head(t, slot, k, v)]
    BY <2>1 DEF t1
  <2> HIDE DEF t2
  <2> QED BY <1>8, <2>2, <2>5, <2>6
<1>10. /\ u[slot].flag = "slot" /\ u[slot].hash = hash[k] /\ u[slot].k = k
       /\ u[slot].next = Nil /\ (v # Unwritten => u[slot].v = v)
  BY <1>8, <1>9 DEF Head
<1> HIDE DEF u, moved, end
<1>11. \A y \in Used(t) : y # slot =>
          /\ y # fnd /\ y \in 0 .. size - 1 /\ u[y].flag = t[y].flag
          /\ u[y].hash = t[y].hash
          /\ u[y].k = t[y].k /\ u[y].v = t[y].v
          /\ u[y].next = IF y = prev THEN fnd ELSE t[y].next
  BY <1>2, <1>4, <1>7, <1>9
<1>12. Used(u) = Used(t) \cup {fnd}
  <2>1. DOMAIN u = 0 .. size - 1
    BY <1>9
  <2>2. \A x \in 0 .. size - 1 : x # fnd /\ x # slot => u[x].flag = t[x].flag
    BY <1>7, <1>9
  <2>3. u[fnd].flag # "free" /\ u[slot].flag # "free"
    BY <1>6, <1>9, <1>10
  <2>4. \A x \in 0 .. size - 1 : u[x].flag # "free" <=> t[x].flag # "free" \/ x = fnd
    BY <1>2, <1>3, <2>2, <2>3 DEF Used
  <2> QED BY <1>2, <1>4, <2>1, <2>4 DEF Used
<1>13. Slots(u) = Slots(t) \cup {slot}
  <2>1. DOMAIN u = 0 .. size - 1
    BY <1>9
  <2>2. \A x \in 0 .. size - 1 : x # fnd /\ x # slot => u[x].flag = t[x].flag
    BY <1>7, <1>9
  <2>3. u[fnd].flag # "slot" /\ u[slot].flag = "slot" /\ t[fnd].flag # "slot"
    BY <1>4, <1>6, <1>9, <1>10 DEF Free
  <2>4. \A x \in 0 .. size - 1 : u[x].flag = "slot" <=> t[x].flag = "slot" \/ x = slot
    BY <2>2, <2>3
  <2>5. slot \in 0 .. size - 1
    BY <1>2, <1>3
  <2> QED BY <1>2, <2>1, <2>4, <2>5 DEF Slots
<1>14. \A x \in Used(u) : x \in Nodes(u) <=> x # slot /\ (x = fnd \/ x \in Nodes(t))
  <2>1. DOMAIN u = 0 .. size - 1
    BY <1>9
  <2>2. u[fnd].flag = "node" /\ u[slot].flag = "slot"
    BY <1>6, <1>9, <1>10
  <2> QED BY <1>2, <1>4, <1>11, <1>12, <2>1, <2>2 DEF Nodes, Used
<1>15. \A y \in Used(t) : t[y].next # Nil => t[y].next \in Nodes(t) /\ t[y].next \in Used(t)
  BY <1>1, CellFacts DEF Cells
\* The entry before is the only one that pointed at the node, and what it pointed at stays.
<1>16. \A y \in Used(t) : t[y].next = slot => y = prev
  BY <1>1, <1>3, <1>5 DEF Single
<1>17. t[slot].next # slot
  BY <1>1, <1>3, NoLoop
<1>18. Cells(u, size)
  <2>1. \A i \in Used(u) : u[i].k \in Key /\ u[i].hash \in Hash
    <3>1. u[fnd].k \in Key /\ u[fnd].hash \in Hash
      BY <1>1, <1>3, <1>6, <1>9 DEF Cells
    <3>2. u[slot].k \in Key /\ u[slot].hash \in Hash
      BY <1>1, <1>10
    <3> QED BY <1>1, <1>11, <1>12, <3>1, <3>2 DEF Cells
  <2>2. \A i \in Used(u) : u[i].next # Nil => u[i].next \in Nodes(u)
    <3>1. ASSUME NEW i \in Used(t), i # slot, u[i].next # Nil PROVE u[i].next \in Nodes(u)
      <4>1. CASE i = prev
        BY <1>4, <1>11, <1>12, <1>14, <3>1, <4>1, <1>3
      <4>2. CASE i # prev
        <5>1. u[i].next = t[i].next /\ t[i].next # slot
          BY <1>11, <1>16, <3>1, <4>2
        <5> QED BY <1>12, <1>14, <1>15, <3>1, <5>1
      <4> QED BY <4>1, <4>2
    <3>2. u[fnd].next # Nil => u[fnd].next \in Nodes(u)
      BY <1>3, <1>6, <1>9, <1>12, <1>14, <1>15, <1>17
    <3> QED BY <1>10, <1>12, <3>1, <3>2
  <2>3. \A i \in DOMAIN u : u[i].flag = "free" => u[i] = Free
    <3>1. \A i \in 0 .. size - 1 : i \notin Used(u) => u[i] = t[i] /\ i \notin Used(t)
      BY <1>2, <1>3, <1>5, <1>9, <1>12
    <3>2. \A i \in 0 .. size - 1 : i \notin Used(t) => t[i] = Free
      BY <1>1, CellFacts
    <3> QED BY <1>9, <3>1, <3>2 DEF Used
  <2> QED BY <1>2, <1>9, <2>1, <2>2, <2>3 DEF Cells
<1>19. /\ f \in [Used(t) -> Used(u)] /\ f[slot] = fnd
       /\ \A y \in Used(t) : y # slot => f[y] = y
  BY <1>3, <1>12
<1> HIDE DEF f
<1>20. \A y \in Used(t) :
          /\ u[f[y]].k = t[y].k /\ u[f[y]].v = t[y].v
          /\ f[y] \in Slots(u) => y \in Slots(t)
          /\ t[y].k \in Steady => u[f[y]].hash = t[y].hash
  <2> TAKE y \in Used(t)
  <2>1. CASE y = slot
    <3>1. u[fnd].k = t[slot].k /\ u[fnd].v = t[slot].v /\ u[fnd].hash = hash[t[slot].k]
      BY <1>6, <1>9
    <3>2. t[slot].k \in Steady => t[slot].hash = hash[t[slot].k]
      BY <1>1, <1>3 DEF Good, Placed
    <3>3. fnd \notin Slots(u)
      BY <1>2, <1>3, <1>4, <1>13
    <3> QED BY <1>19, <2>1, <3>1, <3>2, <3>3
  <2>2. CASE y # slot
    BY <1>11, <1>13, <1>19, <2>2
  <2> QED BY <2>1, <2>2
<1>21. \A y \in Used(t) :
          /\ t[y].next # Nil => u[f[y]].next = f[t[y].next]
          /\ t[y].next = Nil => u[f[y]].next = Nil
  <2> TAKE y \in Used(t)
  <2>1. CASE y = slot
    BY <1>6, <1>9, <1>15, <1>17, <1>19, <2>1
  <2>2. CASE y = prev
    BY <1>3, <1>5, <1>11, <1>19, <2>2
  <2>3. CASE y # slot /\ y # prev
    BY <1>11, <1>15, <1>16, <1>19, <2>3
  <2> QED BY <2>1, <2>2, <2>3
<1>22. Adds(t, u, f, slot, k)
  <2>1. slot \in Used(u) /\ slot \in Chain(u, slot) /\ slot \in Slots(u)
    BY <1>3, <1>12, <1>13, <1>18, ChainCloses
  <2>2. \A y \in Used(t) : f[y] # slot
    BY <1>3, <1>4, <1>19
  <2>3. \A y, z \in Used(t) : f[y] = f[z] => y = z
    BY <1>4, <1>19
  <2>4. \A x \in Used(u) : x # slot => \E y \in Used(t) : x = f[y]
    BY <1>3, <1>12, <1>19
  <2>5. \A y \in Slots(t) : f[y] = y /\ y \in Slots(u) /\ u[y].hash = t[y].hash
    BY <1>2, <1>3, <1>11, <1>13, <1>19
  <2>6. \A y \in Used(t) : u[f[y]].next # slot
    <3> TAKE y \in Used(t)
    <3>1. CASE t[y].next # Nil
      BY <1>15, <1>21, <2>2, <3>1
    <3>2. CASE t[y].next = Nil
      BY <1>3, <1>21, <3>2
    <3> QED BY <3>1, <3>2
  <2>7. k \in Steady => \A y \in Used(t) : t[y].k # k
    <3>1. t[slot].flag = "node"
      BY DEF slot
    <3>2. Hits(t, k) = {}
      BY <3>1 DEF Hits, slot
    <3> QED BY <1>1, <3>2, HitsAreEntries
  <2> QED BY <1>10, <1>19, <1>20, <1>21, <2>1, <2>2, <2>3, <2>4, <2>5, <2>6, <2>7 DEF Adds, slot
<1>23. Good(u, size, hash) /\ \A c \in Key \ {k} : Bound(u, c) = Bound(t, c)
  BY <1>1, <1>18, <1>22, AddsGood
<1>24. \A x \in Used(t) : \/ u[x].k = t[x].k
                          \/ t[x].flag = "node" /\ x = slot
  BY <1>3, <1>11 DEF Nodes
<1> HIDE DEF Adds
<1>25. slot \in Used(u)
  BY <1>3, <1>12
<1> QED BY <1>4, <1>10, <1>12, <1>23, <1>24, <1>25 DEF Puts, u, slot


\* The entry of k, found on its chain.
LEMMA ReplacedPuts ==
    ASSUME NEW t, NEW k, NEW v, Puttable(t, k, v), Hits(t, k) # {}
    PROVE  Puts(t, Replaced(t, k, v), k, v)
<1> DEFINE p == Position(hash[k], size)
           u == Replaced(t, k, v)
           hit == CHOOSE x \in Hits(t, k) : TRUE
           f == [y \in Used(t) |-> y]
           new == [t[hit] EXCEPT !.k = k, !.v = Written(@, v)]
<1>1. /\ hash \in [Key -> Hash] /\ Good(t, size, hash) /\ Cells(t, size) /\ Single(t)
      /\ AtHome(t, size) /\ Owned(t) /\ Placed(t, size, hash) /\ Once(t)
      /\ k \in Key /\ v \in Val \cup {Nil, Unwritten}
  BY DEF Puttable, Good
<1>2. /\ size \in Nat /\ size > 1 /\ DOMAIN t = 0 .. size - 1
      /\ t \in [0 .. size - 1 -> Entry]
      /\ Slots(t) \subseteq Used(t) /\ Used(t) \subseteq 0 .. size - 1
  BY <1>1, CellFacts DEF Cells
<1>3. hit \in Used(t) /\ t[hit].k = k
  <2>1. hit \in Hits(t, k)
    OBVIOUS
  <2>2. p \in 0 .. size - 1
    BY <1>1, PositionIn
  <2> HIDE DEF hit
  <2>3. t[p].flag = "slot" /\ hit \in Chain(t, p) /\ t[hit].k = k
    BY <2>1 DEF Hits
  <2>4. p \in Used(t)
    BY <1>2, <2>2, <2>3 DEF Used
  <2> HIDE DEF p
  <2> QED BY <1>1, <2>3, <2>4, ChainCloses
<1>4. /\ new \in Entry /\ new.k = k /\ (v # Unwritten => new.v = v)
      /\ new.flag = t[hit].flag /\ new.hash = t[hit].hash /\ new.next = t[hit].next
  <2>1. t[hit] \in Entry
    BY <1>2, <1>3
  <2>2. t[hit].v \in Val \cup {Nil}
    BY <2>1 DEF Entry
  <2>3. Written(t[hit].v, v) \in Val \cup {Nil} /\ (v # Unwritten => Written(t[hit].v, v) = v)
    BY <1>1, <2>2 DEF Written
  <2> HIDE DEF hit
  <2> QED BY <1>1, <2>1, <2>3 DEF Entry
<1>5. /\ u \in [0 .. size - 1 -> Entry] /\ u[hit] = new
      /\ \A x \in 0 .. size - 1 : x # hit => u[x] = t[x]
  <2>1. hit \in 0 .. size - 1
    BY <1>2, <1>3
  <2>2. u = [t EXCEPT ![hit] = new]
    <3>1. u = [t EXCEPT ![hit].k = k, ![hit].v = Written(@, v)]
      BY DEF Replaced
    <3> HIDE DEF u, hit
    <3> QED BY <1>2, <2>1, <3>1
  <2> HIDE DEF u, hit, new
  <2> QED BY <1>2, <1>4, <2>1, <2>2
<1> HIDE DEF p, u, hit, new
<1>6. \A y \in 0 .. size - 1 : /\ u[y].flag = t[y].flag /\ u[y].hash = t[y].hash
                               /\ u[y].k = t[y].k /\ u[y].next = t[y].next
                               /\ y # hit => u[y] = t[y]
  BY <1>3, <1>4, <1>5
<1>7. Used(u) = Used(t) /\ Slots(u) = Slots(t) /\ Nodes(u) = Nodes(t)
  BY <1>2, <1>5, <1>6 DEF Used, Slots, Nodes
<1>8. Cells(u, size)
  <2>1. \A i \in Used(u) : /\ u[i].k \in Key /\ u[i].hash \in Hash
                           /\ u[i].next # Nil => u[i].next \in Nodes(u)
    BY <1>1, <1>2, <1>6, <1>7 DEF Cells
  <2>2. \A i \in DOMAIN u : u[i].flag = "free" => u[i] = Free
    <3> TAKE i \in DOMAIN u
    <3>1. i \in 0 .. size - 1 /\ (i = hit => t[i].flag # "free")
      BY <1>3, <1>5 DEF Used
    <3> QED BY <1>1, <1>2, <1>6, <3>1 DEF Cells
  <2> QED BY <1>2, <1>5, <2>1, <2>2 DEF Cells
<1>9. \A s \in Slots(t) : \A x \in Chain(t, s) : x \in Chain(u, s)
  <2> TAKE s \in Slots(t)
  <2> TAKE x \in Chain(t, s)
  <2>1. f \in [Used(t) -> Used(u)] /\ \A y \in Used(t) : f[y] = y
    BY <1>7
  <2> HIDE DEF f
  <2>2. s \in Used(t) /\ x \in Used(t)
    BY <1>1, <1>2, ChainCloses
  <2>3. \A y \in Used(t) : t[y].next # Nil => u[f[y]].next = f[t[y].next]
    BY <1>1, <1>2, <1>6, <2>1, CellFacts DEF Cells
  <2>4. f[x] \in Chain(u, f[s])
    BY <1>1, <1>8, <2>1, <2>2, <2>3, ChainMoves
  <2> QED BY <2>1, <2>2, <2>4
<1>10. Single(u) /\ AtHome(u, size) /\ Once(u)
  <2>1. Single(u)
    BY <1>1, <1>2, <1>6, <1>7 DEF Single
  <2>2. AtHome(u, size)
    BY <1>1, <1>2, <1>6, <1>7 DEF AtHome
  <2>3. Once(u)
    BY <1>1, <1>2, <1>6, <1>7 DEF Once
  <2> QED BY <2>1, <2>2, <2>3
<1>11. Owned(u)
  BY <1>1, <1>7, <1>9 DEF Owned
<1>12. Placed(u, size, hash)
  BY <1>1, <1>2, <1>6, <1>7, <1>9 DEF Placed
<1>13. ASSUME NEW c \in Key \ {k} PROVE Bound(u, c) = Bound(t, c)
  <2>1. \A x \in Used(t) : (u[x].k = c <=> t[x].k = c) /\ (t[x].k = c => u[x].v = t[x].v)
    BY <1>2, <1>3, <1>6
  <2> QED BY <1>7, <2>1 DEF Bound
<1>14. u[hit].k = k /\ (v # Unwritten => u[hit].v = v)
  BY <1>4, <1>5
<1>15. \A x \in Used(t) : u[x].k = t[x].k
  BY <1>2, <1>6
<1>16. Good(u, size, hash)
  BY <1>8, <1>10, <1>11, <1>12 DEF Good
<1>17. Used(u) = Used(t) \cup {hit} /\ hit \in 0 .. size - 1 /\ hit \in Used(u)
  BY <1>2, <1>3, <1>7
<1> QED BY <1>13, <1>14, <1>15, <1>16, <1>17 DEF Puts, u

\* A put keeps an array in order and changes what it holds for its key only.
LEMMA StoredPuts ==
    ASSUME NEW t, NEW k, NEW v, Puttable(t, k, v), HeadFound(t, k),
           NeedsEntry(t, k) => FreeEntries(t) # {}
    PROVE  Puts(t, Stored(t, k, v), k, v)
<1> DEFINE p == Position(hash[k], size)
<1>1. t[p].flag \in {"free", "slot", "node"}
  <2>1. Cells(t, size) /\ hash \in [Key -> Hash] /\ k \in Key
    BY DEF Puttable, Good
  <2>2. t[p] \in Entry
    BY <2>1, PositionIn DEF Cells
  <2> QED BY <2>2 DEF Entry
<1>2. CASE t[p].flag = "free"
  BY <1>2, HeadedPuts DEF Stored
<1>3. CASE t[p].flag = "node"
  <2>1. Hits(t, k) = {}
    BY <1>3 DEF Hits
  <2>2. FreeEntries(t) # {}
    BY <1>3, <2>1 DEF NeedsEntry
  <2> QED BY <1>3, <2>2, EvictedPuts DEF Stored
<1>4. CASE t[p].flag = "slot" /\ Hits(t, k) # {}
  BY <1>4, ReplacedPuts DEF Stored
<1>5. CASE t[p].flag = "slot" /\ Hits(t, k) = {}
  <2>1. FreeEntries(t) # {}
    BY <1>5 DEF NeedsEntry
  <2> QED BY <1>5, <2>1, LinkedPuts DEF Stored
<1> QED BY <1>1, <1>2, <1>3, <1>4, <1>5

-----------------------------------------------------------------------------
(* What the map holds *)

\* The value an array holds for a steady key, and what array and old array together do.
ValueIn(t, k) ==
    LET e == {x \in Used(t) : t[x].k = k}
    IN IF e = {} THEN Nil ELSE t[CHOOSE x \in e : TRUE].v
Held(b, i, t, k) ==
    LET old == {j \in DOMAIN b : j >= i /\ b[j].k = k}
    IN IF old # {} THEN b[CHOOSE j \in old : TRUE].v ELSE ValueIn(t, k)

LEMMA ValueIs ==
    ASSUME NEW t, Once(t), NEW k \in Steady, NEW x \in Used(t), t[x].k = k
    PROVE  ValueIn(t, k) = t[x].v
<1> DEFINE e == {y \in Used(t) : t[y].k = k}
<1>1. e = {x}
  BY DEF Once
<1> QED BY <1>1 DEF ValueIn

LEMMA SameValue ==
    ASSUME NEW t, NEW u, Once(t), Once(u), NEW k \in Steady, Bound(u, k) = Bound(t, k)
    PROVE  ValueIn(u, k) = ValueIn(t, k)
<1>1. CASE \E x \in Used(t) : t[x].k = k
  <2>1. PICK x \in Used(t) : t[x].k = k
    BY <1>1
  <2>2. t[x].v \in Bound(u, k)
    BY <2>1 DEF Bound
  <2>3. PICK y \in Used(u) : u[y].k = k /\ u[y].v = t[x].v
    BY <2>2 DEF Bound
  <2> QED BY <2>1, <2>3, ValueIs
<1>2. CASE ~ \E x \in Used(t) : t[x].k = k
  <2>1. Bound(t, k) = {}
    BY <1>2 DEF Bound
  <2>2. \A y \in Used(u) : u[y].k # k
    BY <2>1 DEF Bound
  <2> QED BY <1>2, <2>2 DEF ValueIn
<1> QED BY <1>1, <1>2

\* A blank array, and one whose unsteady keys hash anew.
LEMMA BlankGood ==
    ASSUME NEW n \in Nat, n > 1, NEW h
    PROVE  Good(Blank(n), n, h) /\ Used(Blank(n)) = {} /\ DOMAIN Blank(n) = 0 .. n - 1
<1> DEFINE t == Blank(n)
<1>1. DOMAIN t = 0 .. n - 1 /\ \A i \in 0 .. n - 1 : t[i] = Free
  BY DEF Blank
<1>2. Free.flag = "free" /\ Free \in Entry
  BY DEF Free, Entry
<1>3. t \in [0 .. n - 1 -> Entry]
  BY <1>2 DEF Blank
<1>4. Used(t) = {} /\ Slots(t) = {} /\ Nodes(t) = {}
  BY <1>1, <1>2 DEF Used, Slots, Nodes
<1>5. Cells(t, n)
  BY <1>1, <1>3, <1>4 DEF Cells
<1> HIDE DEF t
<1>6. Single(t) /\ AtHome(t, n) /\ Owned(t) /\ Placed(t, n, h) /\ Once(t)
  BY <1>4 DEF Single, AtHome, Owned, Placed, Once
<1> QED BY <1>1, <1>4, <1>5, <1>6 DEF Good, t

LEMMA RehashedGood ==
    ASSUME NEW t, NEW n, NEW h, NEW g, Good(t, n, h), \A k \in Steady : g[k] = h[k]
    PROVE  Good(t, n, g)
BY DEF Good, Placed

-----------------------------------------------------------------------------
(* The invariant *)

\* During a resize: what has been put again leaves room for the rest, and no steady key
\* is both among it and the rest.
Halfway ==
    LET half == size \div 2
    IN /\ half \in Nat /\ size = 2 * half /\ size > 2
       /\ Cells(bak, half) /\ Once(bak)
       /\ ip \in 0 .. half
       /\ IsFiniteSet(Used(item)) /\ Cardinality(Used(item)) <= ip
       /\ req \in Key \X (Val \cup {Unwritten})
       /\ req[2] = Unwritten => req[1] \in Refused
       /\ \A i \in Used(bak), x \in Used(item) :
             i >= ip /\ item[x].k = bak[i].k => bak[i].k \notin Steady

\* The keys a loop is about are in the array, those it was given before its position.
Midway ==
    /\ ~Resizing /\ iter.m = size /\ due \subseteq Settled
    /\ \A k \in due : \E x \in Used(item) : item[x].k = k /\ (k \in met <=> x < iter.i)

HInv ==
    /\ hash \in [Key -> Hash]
    /\ Good(item, size, hash)
    /\ IF Resizing THEN Halfway ELSE bak = Blank(0) /\ ip = 0 /\ req = Nil
    /\ Looping => /\ iter \in [kind : Kinds, i : Nat, m : Nat, live : BOOLEAN]
                  /\ iter.live => Midway

LEMMA StoreKeeps ==
    ASSUME HInv, NEW k \in Key, NEW v \in Val \cup {Nil, Unwritten}, Fits(k), Store(k, v)
    PROVE  /\ Puts(item, item', k, v) /\ hash' = hash /\ size' = size
           /\ Good(item', size', hash')
<1>1. Puttable(item, k, v)
  BY DEF HInv, Puttable
<1>2. item' = Stored(item, k, v) /\ HeadFound(item, k) /\ hash' = hash /\ size' = size
  BY DEF Store
<1>3. NeedsEntry(item, k) => FreeEntries(item) # {}
  BY DEF Fits
<1>4. Puts(item, Stored(item, k, v), k, v)
  BY <1>1, <1>2, <1>3, StoredPuts
<1> QED BY <1>2, <1>4 DEF Puts

\* A rehash has room for all there is to put: the new array is twice the old one.
LEMMA RoomIsLeft ==
    ASSUME HInv, Resizing
    PROVE  FreeEntries(item) # {}
<1> DEFINE half == size \div 2
<1>1. /\ half \in Nat /\ size = 2 * half /\ size > 2 /\ ip \in 0 .. half
      /\ IsFiniteSet(Used(item)) /\ Cardinality(Used(item)) <= ip
      /\ Cells(item, size)
  BY DEF HInv, Halfway, Good
<1> SUFFICES ASSUME FreeEntries(item) = {} PROVE FALSE
  OBVIOUS
<1> HIDE DEF half
<1>2. 1 .. size - 1 \in SUBSET Used(item)
  <2>1. DOMAIN item = 0 .. size - 1
    BY <1>1, CellFacts
  <2>2. \A i \in 1 .. size - 1 : i \in DOMAIN item \ {0}
    BY <1>1, <2>1
  <2> QED BY <2>2 DEF FreeEntries, Used
<1>3. Cardinality(1 .. size - 1) = size - 1
  <2>1. 1 \in Int /\ size - 1 \in Int /\ ~ (1 > size - 1)
    BY <1>1
  <2>2. Cardinality(1 .. size - 1) = (size - 1) - 1 + 1
    BY <2>1, FS_Interval
  <2> QED BY <1>1, <2>2
<1>4. Cardinality(1 .. size - 1) <= Cardinality(Used(item)) /\ Cardinality(Used(item)) \in Nat
  BY <1>1, <1>2, FS_Subset, FS_CardinalityType
<1> QED BY <1>1, <1>3, <1>4

LEMMA PuttingAddsOne ==
    ASSUME NEW t, NEW u, NEW k, NEW v, Puts(t, u, k, v), IsFiniteSet(Used(t))
    PROVE  IsFiniteSet(Used(u)) /\ Cardinality(Used(u)) <= Cardinality(Used(t)) + 1
<1>1. PICK j \in 0 .. size - 1 : Used(u) = Used(t) \cup {j}
  BY DEF Puts
<1>2. Cardinality(Used(t)) \in Nat
  BY FS_CardinalityType
<1> QED BY <1>1, <1>2, FS_AddElement

LEMMA PutKeeps ==
    ASSUME HInv, NEW k \in Key, NEW v \in Val \cup {Unwritten}, Put(k, v)
    PROVE  HInv'
<1>1. /\ hash \in [Key -> Hash] /\ Good(item, size, hash) /\ Cells(item, size) /\ ~Resizing
      /\ bak = Blank(0) /\ ip = 0 /\ req = Nil
      /\ Looping => /\ iter \in [kind : Kinds, i : Nat, m : Nat, live : BOOLEAN]
                    /\ iter.live => Midway
      /\ v = Unwritten => k \in Refused
  BY DEF HInv, Put, Good
<1>2. CASE Fits(k) /\ Store(k, v) /\ UNCHANGED <<bak, ip, req>>
  <2>1. Puts(item, item', k, v) /\ hash' = hash /\ size' = size /\ Good(item', size', hash')
    BY <1>2, StoreKeeps
  <2>2. ~Resizing' /\ bak' = Blank(0) /\ ip' = 0 /\ req' = Nil
    BY <1>1, <1>2 DEF Resizing
  <2>3. ASSUME Looping'
        PROVE  /\ iter' \in [kind : Kinds, i : Nat, m : Nat, live : BOOLEAN]
               /\ iter'.live => Midway'
    <3>1. v # Unwritten
      BY <2>3 DEF Put, Left, Looping
    <3>2. IF item[Position(hash[k], size)].flag = "node" THEN Evicting(k) ELSE UNCHANGED loop
      BY <1>2, <3>1 DEF Put
    <3>3. iter' = iter /\ Looping
      BY <2>3, <3>2 DEF Evicting, loop, Looping
    <3>4. ASSUME iter.live PROVE Midway'
      <4>1. /\ iter.m = size /\ due \subseteq Settled
            /\ \A c \in due : \E x \in Used(item) : item[x].k = c /\ (c \in met <=> x < iter.i)
        BY <1>1, <3>3, <3>4 DEF Midway
      <4>2. due' \subseteq due /\ \A c \in due' : c \in met' <=> c \in met
        BY <3>2 DEF Evicting, loop
      <4>3. ASSUME NEW c \in due'
            PROVE  \E x \in Used(item)' : item'[x].k = c /\ (c \in met' <=> x < iter'.i)
        <5>1. PICK x \in Used(item) : item[x].k = c /\ (c \in met <=> x < iter.i)
          BY <4>1, <4>2
        <5>2. ~ (item[x].flag = "node" /\ x = Position(hash[k], size))
          BY <3>2, <5>1 DEF Evicting
        <5>3. item'[x].k = c /\ x \in Used(item')
          BY <2>1, <5>1, <5>2 DEF Puts
        <5>4. Used(item)' = Used(item')
          BY DEF Used
        <5> QED BY <3>3, <4>2, <5>1, <5>3, <5>4
      <4> QED BY <2>1, <2>2, <3>3, <4>1, <4>2, <4>3 DEF Midway
    <3> QED BY <1>1, <3>3, <3>4
  <2> QED BY <1>1, <2>1, <2>2, <2>3 DEF HInv, Good, Cells, Single, AtHome, Owned, Placed, Once
<1>3. CASE ~Fits(k) /\ Grow(k, v)
  <2>1. /\ size' = size * 2 /\ bak' = item /\ ip' = 0 /\ item' = Blank(size * 2)
        /\ req' = <<k, v>> /\ hash' = hash
    BY <1>3 DEF Grow
  <2>2. size \in Nat /\ size > 1 /\ DOMAIN item = 0 .. size - 1
    BY <1>1, CellFacts DEF Cells
  <2>3. size' \in Nat /\ size' > 2 /\ size' \div 2 = size /\ size' = 2 * size
    BY <2>1, <2>2
  <2>4. Good(item', size', hash') /\ Used(item') = {}
    BY <2>1, <2>3, BlankGood
  <2>5. Resizing'
    <3>1. 0 \in DOMAIN item
      BY <2>2
    <3> QED BY <2>1, <3>1 DEF Resizing
  <2>6. Halfway'
    <3>1. IsFiniteSet(Used(item')) /\ Cardinality(Used(item')) = 0
      BY <2>4, FS_EmptySet
    <3>2. Cells(bak', size' \div 2) /\ Once(bak')
      BY <1>1, <2>1, <2>3 DEF Good
    <3>3. req' \in Key \X (Val \cup {Unwritten}) /\ (req'[2] = Unwritten => req'[1] \in Refused)
      BY <1>1, <2>1
    <3> QED BY <2>1, <2>2, <2>3, <2>4, <3>1, <3>2, <3>3 DEF Halfway, Cells, Once, Used
  <2>7. Looping' => /\ iter' \in [kind : Kinds, i : Nat, m : Nat, live : BOOLEAN]
                    /\ ~iter'.live
    <3>1. v # Unwritten => Replacing
      BY <1>3 DEF Put
    <3>2. v = Unwritten => ~Looping'
      BY DEF Put, Left, Looping
    <3>3. CASE v # Unwritten /\ Looping
      <4>1. iter' = [iter EXCEPT !.live = FALSE]
        BY <3>1, <3>3 DEF Replacing
      <4> QED BY <1>1, <3>3, <4>1
    <3>4. CASE v # Unwritten /\ ~Looping
      BY <3>1, <3>4 DEF Replacing, Looping
    <3> QED BY <3>2, <3>3, <3>4
  <2> QED BY <1>1, <2>1, <2>4, <2>5, <2>6, <2>7 DEF HInv, Good, Cells, Single, AtHome, Owned, Placed, Once
<1> QED BY <1>2, <1>3 DEF Put

LEMMA RehashKeeps ==
    ASSUME HInv, Rehash
    PROVE  HInv'
<1> DEFINE half == size \div 2
<1>1. /\ hash \in [Key -> Hash] /\ Good(item, size, hash) /\ Resizing /\ ip \in DOMAIN bak
      /\ Looping => /\ iter \in [kind : Kinds, i : Nat, m : Nat, live : BOOLEAN]
                    /\ iter.live => Midway
  BY DEF HInv, Rehash, Resizing
<1>2. /\ half \in Nat /\ size = 2 * half /\ size > 2
      /\ Cells(bak, half) /\ Once(bak) /\ ip \in 0 .. half
      /\ IsFiniteSet(Used(item)) /\ Cardinality(Used(item)) <= ip
      /\ req \in Key \X (Val \cup {Unwritten}) /\ (req[2] = Unwritten => req[1] \in Refused)
      /\ \A i \in Used(bak), x \in Used(item) :
            i >= ip /\ item[x].k = bak[i].k => bak[i].k \notin Steady
  BY <1>1 DEF HInv, Halfway
<1>3. ip' = ip + 1 /\ bak' = bak /\ req' = req /\ iter' = iter /\ due' = due /\ met' = met
  BY DEF Rehash, loop
<1>4. DOMAIN bak = 0 .. half - 1 /\ ip \in 0 .. half - 1 /\ ip \in Nat
  <2> HIDE DEF half
  <2> QED BY <1>1, <1>2, CellFacts
<1>5. Resizing' /\ ~ (Looping' /\ iter'.live)
  BY <1>1, <1>3 DEF Resizing, Looping, Midway
<1>6. Looping' => iter' \in [kind : Kinds, i : Nat, m : Nat, live : BOOLEAN]
  BY <1>1, <1>3 DEF Looping
<1>7. CASE bak[ip].flag = "free"
  <2>1. hash' = hash /\ size' = size /\ item' = item
    BY <1>7 DEF Rehash
  <2>2. Halfway'
    <3>1. Cardinality(Used(item)) <= ip + 1 /\ ip + 1 \in 0 .. half
      <4>1. Cardinality(Used(item)) \in Nat
        BY <1>2, FS_CardinalityType
      <4> HIDE DEF half
      <4> QED BY <1>2, <1>4, <4>1
    <3>2. \A i \in Used(bak) : i >= ip + 1 => i >= ip
      <4>1. Used(bak) \subseteq 0 .. half - 1
        BY <1>2, CellFacts
      <4> HIDE DEF half
      <4> QED BY <1>2, <1>4, <4>1
    <3>3. half' = half
      BY <2>1
    <3> QED BY <1>2, <1>3, <2>1, <3>1, <3>2, <3>3 DEF Halfway, Cells, Once, Used
  <2> QED BY <1>1, <1>5, <1>6, <2>1, <2>2 DEF HInv, Good, Cells, Single, AtHome, Owned, Placed, Once
<1>8. CASE bak[ip].flag # "free"
  <2> DEFINE k == bak[ip].k
             v == bak[ip].v
  <2>1. ip \in Used(bak)
    BY <1>1, <1>8 DEF Used
  <2>2. k \in Key /\ v \in Val \cup {Nil}
    <3>1. bak[ip] \in Entry
      <4> HIDE DEF half
      <4> QED BY <1>2, <1>4 DEF Cells
    <3> QED BY <1>2, <2>1, <3>1 DEF Cells, Entry
  <2>3. Fits(k) /\ Store(k, v)
    BY <1>8 DEF Rehash
  <2>4. Puts(item, item', k, v) /\ hash' = hash /\ size' = size /\ Good(item', size', hash')
    <3> HIDE DEF k, v
    <3> QED BY <2>2, <2>3, StoreKeeps
  <2>5. Halfway'
    <3>1. IsFiniteSet(Used(item')) /\ Cardinality(Used(item')) <= ip + 1 /\ ip + 1 \in 0 .. half
      <4>1. Cardinality(Used(item)) \in Nat
        BY <1>2, FS_CardinalityType
      <4>2. IsFiniteSet(Used(item')) /\ Cardinality(Used(item')) <= Cardinality(Used(item)) + 1
        <5> HIDE DEF k, v
        <5> QED BY <1>2, <2>4, PuttingAddsOne
      <4>3. Cardinality(Used(item')) \in Nat
        BY <4>2, FS_CardinalityType
      <4> HIDE DEF half
      <4> QED BY <1>2, <1>4, <4>1, <4>2, <4>3
    <3>2. ASSUME NEW i \in Used(bak), NEW x \in Used(item'), i >= ip + 1, item'[x].k = bak[i].k,
                 bak[i].k \in Steady
          PROVE  FALSE
      <4>1. i \in 0 .. half - 1 /\ i > ip
        <5>1. Used(bak) \subseteq 0 .. half - 1
          BY <1>2, CellFacts
        <5> HIDE DEF half
        <5> QED BY <1>2, <1>4, <3>2, <5>1
      <4>2. bak[i].k # k
        <5>1. i # ip
          <6> HIDE DEF half
          <6> QED BY <1>4, <4>1
        <5> QED BY <1>2, <2>1, <3>2, <5>1 DEF Once
      <4> DEFINE c == bak[i].k
      <4>3. c \in Key \ {k}
        BY <3>2, <4>2 DEF Steady
      <4>4. Bound(item', c) = Bound(item, c)
        <5> HIDE DEF c, k, v
        <5> QED BY <2>4, <4>3 DEF Puts
      <4>5. item'[x].v \in Bound(item', c)
        BY <3>2 DEF Bound
      <4>6. PICK y \in Used(item) : item[y].k = c
        <5> HIDE DEF c
        <5> QED BY <4>4, <4>5 DEF Bound
      <4>7. i >= ip
        <5> HIDE DEF half
        <5> QED BY <1>4, <4>1
      <4> QED BY <1>2, <3>2, <4>6, <4>7
    <3>3. half' = half
      BY <2>4
    <3> HIDE DEF k, v
    <3> QED BY <1>2, <1>3, <2>4, <3>1, <3>2, <3>3 DEF Halfway, Cells, Once, Used
  <2> HIDE DEF k, v
  <2> QED BY <1>1, <1>5, <1>6, <2>4, <2>5 DEF HInv, Good, Cells, Single, AtHome, Owned, Placed, Once
<1> QED BY <1>7, <1>8

LEMMA RetryKeeps ==
    ASSUME HInv, Retry
    PROVE  HInv'
<1>1. /\ hash \in [Key -> Hash] /\ Resizing
      /\ Looping => /\ iter \in [kind : Kinds, i : Nat, m : Nat, live : BOOLEAN]
                    /\ iter.live => Midway
      /\ req \in Key \X (Val \cup {Unwritten})
  BY DEF HInv, Retry, Halfway
<1>2. Fits(req[1]) /\ Store(req[1], req[2])
  BY DEF Retry
<1>3. Good(item', size', hash') /\ hash' = hash
  BY <1>1, <1>2, StoreKeeps
<1>4. bak' = Blank(0) /\ ip' = 0 /\ req' = Nil /\ iter' = iter
  BY DEF Retry, loop
<1>5. ~Resizing'
  <2>1. DOMAIN Blank(0) = {}
    BY DEF Blank
  <2> QED BY <1>4, <2>1 DEF Resizing
<1>6. Looping' => iter' \in [kind : Kinds, i : Nat, m : Nat, live : BOOLEAN] /\ ~iter'.live
  BY <1>1, <1>4 DEF Looping, Midway
<1> QED BY <1>1, <1>3, <1>4, <1>5, <1>6
    DEF HInv, Good, Cells, Single, AtHome, Owned, Placed, Once

LEMMA MutateKeeps ==
    ASSUME HInv, NEW k \in Mutable, NEW h \in Hash, Mutate(k, h)
    PROVE  HInv'
<1>1. /\ hash' = [hash EXCEPT ![k] = h] /\ size' = size /\ item' = item /\ bak' = bak
      /\ ip' = ip /\ req' = req /\ iter' = iter /\ due' = due /\ met' = met
  BY DEF Mutate, loop
<1>2. hash \in [Key -> Hash] /\ Good(item, size, hash)
  BY DEF HInv
<1>3. hash' \in [Key -> Hash] /\ \A c \in Steady : hash'[c] = hash[c]
  BY <1>1, <1>2 DEF Steady
<1>4. Good(item', size', hash')
  BY <1>1, <1>2, <1>3, RehashedGood
<1>5. /\ Resizing' = Resizing /\ (Halfway => Halfway') /\ (Looping' <=> Looping)
      /\ Midway => Midway'
  BY <1>1 DEF Resizing, Halfway, Looping, Midway, Cells, Once, Used
<1> QED BY <1>1, <1>3, <1>4, <1>5 DEF HInv, Good, Cells, Single, AtHome, Owned, Placed, Once

\* Moving a loop on leaves the map alone.
LEMMA MapKept ==
    ASSUME HInv, UNCHANGED map,
           Looping' => /\ iter' \in [kind : Kinds, i : Nat, m : Nat, live : BOOLEAN]
                       /\ iter'.live => Midway'
    PROVE  HInv'
<1>1. /\ hash' = hash /\ size' = size /\ item' = item /\ bak' = bak /\ ip' = ip /\ req' = req
  BY DEF map
<1>2. hash' \in [Key -> Hash] /\ Good(item', size', hash')
  BY <1>1 DEF HInv
<1>3. Resizing' = Resizing /\ (Halfway => Halfway')
  BY <1>1 DEF Resizing, Halfway, Cells, Once, Used
<1> QED BY <1>1, <1>2, <1>3 DEF HInv, Good, Cells, Single, AtHome, Owned, Placed, Once

\* move2valid goes on to the first entry there is, or to the end.
LEMMA ValidIsNext ==
    ASSUME Cells(item, size), NEW i \in 0 .. size
    PROVE  /\ Valid(i, size) \in i .. size
           /\ \A x \in Used(item) : x >= i => x >= Valid(i, size)
<1> DEFINE used == {x \in i .. size - 1 : item[x].flag # "free"}
<1>1. size \in Nat /\ DOMAIN item = 0 .. size - 1 /\ Used(item) \subseteq 0 .. size - 1
  BY CellFacts DEF Cells
<1>2. \A x \in Used(item) : x >= i => x \in used
  BY <1>1 DEF Used
<1>3. CASE used = {}
  <2>1. Valid(i, size) = size
    BY <1>3 DEF Valid
  <2> QED BY <1>1, <1>2, <1>3, <2>1
<1>4. CASE used # {}
  <2>1. Valid(i, size) = Min(used)
    BY <1>4 DEF Valid
  <2>2. used \in SUBSET Nat /\ used \subseteq i .. size
    BY <1>1
  <2>3. Min(used) \in used /\ \A y \in used : Min(used) <= y
    <3> HIDE DEF used
    <3> QED BY <1>4, <2>2, MinIsLeast
  <2> HIDE DEF used
  <2>4. \A x \in Used(item) : x >= i => x >= Min(used)
    <3> TAKE x \in Used(item)
    <3> HAVE x >= i
    <3>1. x \in used /\ x \in Nat /\ Min(used) \in Nat
      BY <1>2, <2>2, <2>3
    <3> QED BY <2>3, <3>1
  <2> QED BY <2>1, <2>2, <2>3, <2>4
<1> QED BY <1>3, <1>4

LEMMA BeginKeeps ==
    ASSUME HInv, NEW kind \in Kinds, Begin(kind)
    PROVE  HInv'
<1>1. /\ ~Resizing /\ UNCHANGED map
      /\ iter' = [kind |-> kind, i |-> Valid(0, size), m |-> size, live |-> TRUE]
      /\ due' = {item[x].k : x \in Used(item)} \cap Settled /\ met' = {}
  BY DEF Begin, EndOfItem
<1>2. Cells(item, size) /\ size \in Nat
  BY DEF HInv, Good, Cells
<1>3. Valid(0, size) \in Nat /\ \A x \in Used(item) : x \in Nat /\ ~ (x < Valid(0, size))
  <2>1. 0 \in 0 .. size /\ Used(item) \subseteq 0 .. size - 1
    BY <1>2, CellFacts
  <2>2. /\ Valid(0, size) \in 0 .. size
        /\ \A x \in Used(item) : x >= 0 => x >= Valid(0, size)
    BY <1>2, <2>1, ValidIsNext
  <2> QED BY <1>2, <2>1, <2>2
<1>4. iter' \in [kind : Kinds, i : Nat, m : Nat, live : BOOLEAN]
  BY <1>1, <1>2, <1>3
<1>5. Midway'
  <2>1. size' = size /\ item' = item /\ bak' = bak
    BY <1>1 DEF map
  <2>2. ~Resizing' /\ iter'.m = size' /\ due' \subseteq Settled
    BY <1>1, <2>1 DEF Resizing
  <2>3. \A k \in due' : \E x \in Used(item) : item[x].k = k /\ ~ (x < iter'.i) /\ k \notin met'
    BY <1>1, <1>3
  <2>4. Used(item)' = Used(item)
    BY <2>1 DEF Used
  <2> QED BY <2>1, <2>2, <2>3, <2>4 DEF Midway
<1> QED BY <1>1, <1>4, <1>5, MapKept

LEMMA MeetKeeps ==
    ASSUME HInv, Meet
    PROVE  HInv'
<1>1. /\ ~Resizing /\ UNCHANGED map /\ Looping /\ iter.i < iter.m /\ iter.live
      /\ iter \in [kind : Kinds, i : Nat, m : Nat, live : BOOLEAN] /\ Midway
      /\ Cells(item, size) /\ size \in Nat /\ Once(item)
  BY DEF HInv, Good, Cells, Meet
<1>2. CASE Left
  <2>1. ~Looping'
    BY <1>2 DEF Left, Looping
  <2> QED BY <1>1, <2>1, MapKept
<1>3. CASE ~Left
  <2>1. /\ iter' = [iter EXCEPT !.i = Valid(iter.i + 1, iter.m)]
        /\ met' = met \cup ({item[iter.i].k} \cap due) /\ due' = due
    BY <1>3 DEF Meet
  <2>2. /\ iter.m = size /\ due \subseteq Settled
        /\ \A k \in due : \E x \in Used(item) : item[x].k = k /\ (k \in met <=> x < iter.i)
    BY <1>1 DEF Midway
  <2> DEFINE n == Valid(iter.i + 1, size)
  <2>3. iter.i \in Nat /\ iter.i + 1 \in 0 .. size /\ iter.i \in 0 .. size - 1
    BY <1>1, <2>2
  <2>4. n \in iter.i + 1 .. size /\ \A x \in Used(item) : x >= iter.i + 1 => x >= n
    BY <1>1, <2>3, ValidIsNext
  <2> HIDE DEF n
  <2>5. \A x \in Used(item) : x \in Nat /\ (x < n <=> x < iter.i \/ x = iter.i)
    <3>1. Used(item) \subseteq 0 .. size - 1
      BY <1>1, CellFacts
    <3> QED BY <1>1, <2>3, <2>4, <3>1
  <2>6. /\ iter' \in [kind : Kinds, i : Nat, m : Nat, live : BOOLEAN]
        /\ iter'.i = n /\ iter'.m = size
    <3>1. n \in Nat
      BY <1>1, <2>3, <2>4
    <3>2. iter' = [iter EXCEPT !.i = n]
      BY <2>1, <2>2 DEF n
    <3> QED BY <1>1, <2>2, <3>1, <3>2
  <2>7. ASSUME NEW k \in due
        PROVE  \E x \in Used(item) : item[x].k = k /\ (k \in met' <=> x < n)
    <3>1. PICK x \in Used(item) : item[x].k = k /\ (k \in met <=> x < iter.i)
      BY <2>2
    <3>2. k \in Steady /\ k # Nil
      BY <2>2, MapAssumption DEF Settled, Steady, MapAssumption
    <3>3. x = iter.i <=> k = item[iter.i].k
      <4>1. k = item[iter.i].k => iter.i \in Used(item)
        <5>1. iter.i \notin Used(item) => item[iter.i] = Free
          BY <1>1, <2>3, CellFacts
        <5>2. Free.k = Nil
          BY DEF Free
        <5> QED BY <3>2, <5>1, <5>2
      <4> QED BY <1>1, <3>1, <3>2, <4>1 DEF Once
    <3>4. k \in met' <=> k \in met \/ k = item[iter.i].k
      BY <2>1
    <3> QED BY <2>5, <3>1, <3>3, <3>4
  <2>8. Midway'
    <3>1. size' = size /\ item' = item /\ bak' = bak
      BY <1>1 DEF map
    <3>2. ~Resizing' /\ Used(item)' = Used(item)
      BY <1>1, <3>1 DEF Resizing, Used
    <3> QED BY <2>1, <2>2, <2>6, <2>7, <3>1, <3>2 DEF Midway
  <2> QED BY <1>1, <2>6, <2>8, MapKept
<1> QED BY <1>2, <1>3

LEMMA MeetFreedKeeps ==
    ASSUME HInv, MeetFreed
    PROVE  HInv'
<1>1. /\ UNCHANGED map /\ Looping /\ ~iter.live
      /\ iter \in [kind : Kinds, i : Nat, m : Nat, live : BOOLEAN]
  BY DEF HInv, MeetFreed
<1>2. CASE Left
  <2>1. ~Looping'
    BY <1>2 DEF Left, Looping
  <2> QED BY <1>1, <2>1, MapKept
<1>3. CASE ~Left
  <2>1. PICK i \in iter.i + 1 .. iter.m : iter' = [iter EXCEPT !.i = i]
    BY <1>3 DEF MeetFreed
  <2>2. i \in Nat
    BY <1>1
  <2>3. iter' \in [kind : Kinds, i : Nat, m : Nat, live : BOOLEAN] /\ ~iter'.live
    BY <1>1, <2>1, <2>2
  <2> QED BY <1>1, <2>3, MapKept
<1> QED BY <1>2, <1>3

LEMMA EndKeeps ==
    ASSUME HInv, End
    PROVE  HInv'
<1>1. UNCHANGED map /\ ~Looping'
  BY DEF End, Left, Looping
<1> QED BY <1>1, MapKept

LEMMA HInitial == Init => HInv
<1> SUFFICES ASSUME Init PROVE HInv
  OBVIOUS
<1>1. /\ hash \in [Key -> Hash] /\ size \in Sizes /\ item = Blank(size)
      /\ bak = Blank(0) /\ ip = 0 /\ req = Nil /\ iter = Nil
  BY DEF Init
<1>2. size \in Nat /\ size > 1
  BY <1>1, MapAssumption DEF MapAssumption
<1>3. Good(item, size, hash)
  BY <1>1, <1>2, BlankGood
<1>4. ~Resizing /\ ~Looping
  BY <1>1 DEF Resizing, Looping, Blank
<1> QED BY <1>1, <1>3, <1>4 DEF HInv

LEMMA HInvKept == HInv /\ [Next]_vars => HInv'
<1> SUFFICES ASSUME HInv, [Next]_vars PROVE HInv'
  OBVIOUS
<1>1. ASSUME NEW k \in Key, NEW v \in Val \cup {Unwritten}, Put(k, v) PROVE HInv'
  BY <1>1, PutKeeps
<1>2. CASE Rehash
  BY <1>2, RehashKeeps
<1>3. CASE Retry
  BY <1>3, RetryKeeps
<1>4. ASSUME NEW k \in Mutable, NEW h \in Hash, Mutate(k, h) PROVE HInv'
  BY <1>4, MutateKeeps
<1>5. ASSUME NEW kind \in Kinds, Begin(kind) PROVE HInv'
  BY <1>5, BeginKeeps
<1>6. CASE Meet
  BY <1>6, MeetKeeps
<1>7. CASE MeetFreed
  BY <1>7, MeetFreedKeeps
<1>8. CASE End
  BY <1>8, EndKeeps
<1>9. CASE UNCHANGED vars
  <2>1. UNCHANGED map /\ iter' = iter /\ due' = due /\ met' = met
    BY <1>9 DEF vars, loop
  <2>2. (Looping' <=> Looping) /\ (Midway => Midway')
    BY <2>1 DEF Looping, Midway, map, Used, Resizing
  <2>3. Looping => /\ iter \in [kind : Kinds, i : Nat, m : Nat, live : BOOLEAN]
                   /\ iter.live => Midway
    BY DEF HInv
  <2> QED BY <2>1, <2>2, <2>3, MapKept
<1> QED BY <1>1, <1>2, <1>3, <1>4, <1>5, <1>6, <1>7, <1>8, <1>9 DEF Next

-----------------------------------------------------------------------------
(* The theorems *)

LEMMA HInvAlways == Spec => []HInv
BY HInitial, HInvKept, PTL DEF Spec

\* Every entry is on the chain of one head, and that of its hash unless its key is a
\* container, whatever was added, evicted, put again and hashed anew (hindex, resize).
THEOREM ChainsHold == Spec => []Chained
<1>1. HInv => Chained
  <2> SUFFICES ASSUME HInv PROVE Chained
    OBVIOUS
  <2>1. /\ hash \in [Key -> Hash] /\ Cells(item, size) /\ Single(item)
        /\ AtHome(item, size) /\ Owned(item) /\ Placed(item, size, hash)
    BY DEF HInv, Good
  <2>2. TypeOK
    <3>1. size \in Nat /\ item \in [0 .. size - 1 -> Entry]
      BY <2>1 DEF Cells
    <3>2. CASE Resizing
      BY <2>1, <3>1, <3>2 DEF HInv, Halfway, TypeOK, Cells
    <3>3. CASE ~Resizing
      BY <2>1, <3>1, <3>3 DEF HInv, TypeOK
    <3> QED BY <3>2, <3>3
  <2>3. ASSUME NEW i \in Used(item)
        PROVE  LET p == Position(item[i].hash, size)
               IN /\ item[i].flag = "slot" => i = p
                  /\ \E s \in Used(item) : item[s].flag = "slot" /\ i \in Chain(item, s)
                  /\ item[i].k \notin Mutable => item[p].flag = "slot" /\ i \in Chain(item, p)
    <3>1. item[i].flag = "slot" => i = Position(item[i].hash, size)
      BY <2>1 DEF AtHome, Slots, Used
    <3>2. \E s \in Used(item) : item[s].flag = "slot" /\ i \in Chain(item, s)
      <4>1. PICK s \in Slots(item) : i \in Chain(item, s)
        BY <2>1 DEF Owned
      <4>2. s \in Used(item) /\ item[s].flag = "slot"
        BY <2>1, CellFacts DEF Slots
      <4> QED BY <4>1, <4>2
    <3>3. ASSUME item[i].k \notin Mutable
          PROVE  LET p == Position(item[i].hash, size)
                 IN item[p].flag = "slot" /\ i \in Chain(item, p)
      <4>1. item[i].k \in Steady
        BY <2>1, <3>3 DEF Cells, Steady
      <4> QED BY <2>1, <4>1 DEF Placed, Slots
    <3> QED BY <3>1, <3>2, <3>3
  <2> QED BY <2>1, <2>2, <2>3 DEF Chained, Single
<1> QED BY <1>1, HInvAlways, PTL

\* A resize never has to resize again (resize, alloc_free).
THEOREM RehashEnds == Spec => []RehashFits
<1>1. HInv => RehashFits
  BY RoomIsLeft DEF RehashFits, Fits
<1> QED BY <1>1, HInvAlways, PTL

\* The assertion of index_if_node: the entry before a node whose key is steady is found.
THEOREM PreviousIsFound == Spec => []HeadsFound
<1>1. HInv => HeadsFound
  <2> SUFFICES ASSUME HInv, NEW k \in Key, item[Position(hash[k], size)].k \notin Mutable,
                      item[Position(hash[k], size)].flag = "node"
               PROVE  Prev(item, Position(hash[k], size)) # {}
    BY DEF HeadsFound, HeadFound
  <2> DEFINE slot == Position(hash[k], size)
             q == Position(hash[item[slot].k], size)
  <2>1. /\ hash \in [Key -> Hash] /\ Cells(item, size) /\ Placed(item, size, hash)
    BY DEF HInv, Good
  <2>2. slot \in Used(item) /\ slot \in Nodes(item) /\ slot # Nil
    <3>1. slot \in 0 .. size - 1 /\ size \in Nat
      BY <2>1, PositionIn DEF Cells
    <3>2. slot # Nil
      BY <3>1, MapAssumption DEF MapAssumption
    <3> QED BY <2>1, <3>1, <3>2, CellFacts DEF Used, Nodes
  <2>3. q \in Slots(item) /\ slot \in Chain(item, q)
    <3>1. item[slot].k \in Steady
      BY <2>1, <2>2 DEF Cells, Steady
    <3> HIDE DEF slot
    <3> QED BY <2>1, <2>2, <3>1 DEF Placed
  <2>4. q \in Used(item) /\ q # slot
    <3> HIDE DEF slot, q
    <3> QED BY <2>1, <2>2, <2>3, CellFacts
  <2> SUFFICES ASSUME Prev(item, slot) = {} PROVE FALSE
    OBVIOUS
  <2>5. \A y \in Chain(item, q) : item[y].next # slot
    <3>1. Prev(item, slot) = {x \in Chain(item, q) : item[x].next = slot}
      BY DEF Prev
    <3> QED BY <3>1
  <2> HIDE DEF slot, q
  <2> DEFINE D == Chain(item, q) \ {slot}
  <2>6. ASSUME NEW y \in Used(item), y \in D, item[y].next # Nil PROVE item[y].next \in D
    BY <2>1, <2>4, <2>5, <2>6, ChainCloses
  <2>7. q \in D
    BY <2>1, <2>4, ChainCloses
  <2>8. Chain(item, q) \subseteq D
    <3> HIDE DEF D
    <3> QED BY <2>1, <2>4, <2>6, <2>7, ChainLeast
  <2> QED BY <2>3, <2>8
<1> QED BY <1>1, HInvAlways, PTL

\* A loop over a map is given every settled key once (hmap_iter).
THEOREM MapLoopsAreWhole == Spec => []LoopIsWhole
<1>1. HInv => LoopIsWhole
  <2> SUFFICES ASSUME HInv, Looping, iter.live, NEW k \in due
               PROVE  (k \in met) # (\E x \in iter.i .. iter.m - 1 :
                                        item[x].flag # "free" /\ item[x].k = k)
    BY DEF LoopIsWhole
  <2>1. /\ iter.m = size /\ due \subseteq Settled /\ iter.i \in Nat /\ size \in Nat
        /\ \E x \in Used(item) : item[x].k = k /\ (k \in met <=> x < iter.i)
        /\ Cells(item, size) /\ Once(item)
    BY DEF HInv, Midway, Good, Cells
  <2>2. PICK x \in Used(item) : item[x].k = k /\ (k \in met <=> x < iter.i)
    BY <2>1
  <2>3. x \in 0 .. size - 1 /\ DOMAIN item = 0 .. size - 1 /\ item[x].flag # "free"
    BY <2>1, CellFacts DEF Used
  <2>4. \A y \in 0 .. size - 1 : item[y].flag # "free" /\ item[y].k = k => y = x
    <3>1. k \in Steady
      BY <2>1 DEF Settled, Steady
    <3> QED BY <2>1, <2>2, <2>3, <3>1 DEF Once, Used
  <2>5. (\E y \in iter.i .. iter.m - 1 : item[y].flag # "free" /\ item[y].k = k)
           <=> ~ (x < iter.i)
    <3>1. ~ (x < iter.i) => x \in iter.i .. iter.m - 1
      BY <2>1, <2>3
    <3>2. \A y \in iter.i .. iter.m - 1 : y \in 0 .. size - 1 /\ ~ (y < iter.i)
      BY <2>1
    <3> QED BY <2>2, <2>3, <2>4, <3>1, <3>2
  <2> QED BY <2>2, <2>5
<1> QED BY <1>1, HInvAlways, PTL

-----------------------------------------------------------------------------
(* The dictionary *)

Kept(b, i, t) == [k \in Settled |-> Held(b, i, t, k)]

LEMMA FoundIsValue ==
    ASSUME NEW t, NEW n, NEW h \in [Key -> Hash], Good(t, n, h), NEW k \in Steady
    PROVE  (IF HitsOf(t, n, h[k], k) = {} THEN Nil
            ELSE t[CHOOSE x \in HitsOf(t, n, h[k], k) : TRUE].v) = ValueIn(t, k)
<1>1. HitsOf(t, n, h[k], k) = {x \in Used(t) : t[x].k = k}
  BY HitsAreThose
<1> QED BY <1>1 DEF ValueIn

LEMMA BindingIsHeld ==
    ASSUME HInv PROVE [k \in Settled |-> Binding(k)] = Kept(bak, ip, item)
<1>1. ASSUME NEW k \in Settled PROVE Binding(k) = Held(bak, ip, item, k)
  <2>1. Find(k) = IF HitsOf(item, size, hash[k], k) = {} THEN Nil
                  ELSE item[CHOOSE x \in HitsOf(item, size, hash[k], k) : TRUE].v
    BY DEF Find, Hits, HitsOf
  <2>2. Find(k) = ValueIn(item, k)
    BY <2>1, FoundIsValue DEF HInv, Settled, Steady
  <2> QED BY <2>2 DEF Binding, Held
<1> QED BY <1>1 DEF Kept

LEMMA BindingIsHeldNext ==
    ASSUME HInv' PROVE [k \in Settled |-> Binding(k)]' = Kept(bak', ip', item')
<1>1. ASSUME NEW k \in Settled PROVE Binding(k)' = Held(bak', ip', item', k)
  <2>1. Find(k)' = IF HitsOf(item', size', hash'[k], k) = {} THEN Nil
                   ELSE item'[CHOOSE x \in HitsOf(item', size', hash'[k], k) : TRUE].v
    BY DEF Find, Hits, HitsOf
  <2>2. hash' \in [Key -> Hash] /\ Good(item', size', hash') /\ k \in Steady
    BY DEF HInv, Good, Cells, Single, AtHome, Owned, Placed, Once, Settled, Steady
  <2>3. Find(k)' = ValueIn(item', k)
    BY SMTT(60), <2>1, <2>2, FoundIsValue
  <2> QED BY <2>3 DEF Binding, Held
<1> QED BY <1>1 DEF Kept

\* What the array at hand and an empty old one hold.
LEMMA HeldAlone ==
    ASSUME NEW t, NEW k PROVE Held(Blank(0), 0, t, k) = ValueIn(t, k)
<1>1. DOMAIN Blank(0) = {}
  BY DEF Blank
<1> QED BY <1>1 DEF Held

\* What putting k and v into t does to what it holds.
LEMMA PutsValue ==
    ASSUME NEW t, NEW u, NEW k \in Key, NEW v, Puts(t, u, k, v), Once(t), NEW c \in Settled
    PROVE  /\ c # k => ValueIn(u, c) = ValueIn(t, c)
           /\ c = k /\ v # Unwritten => ValueIn(u, c) = v
<1>1. c \in Steady /\ c \in Key /\ Once(u)
  BY DEF Settled, Steady, Puts, Good
<1>2. CASE c # k
  <2>1. Bound(u, c) = Bound(t, c)
    BY <1>1, <1>2 DEF Puts
  <2> QED BY <1>1, <1>2, <2>1, SameValue
<1>3. CASE c = k /\ v # Unwritten
  <2>1. PICK x \in Used(u) : u[x].k = k /\ u[x].v = v
    BY <1>3 DEF Puts
  <2> QED BY <1>1, <1>3, <2>1, ValueIs
<1> QED BY <1>2, <1>3
\* A step of the dictionary, or none.
Steps(d, e) ==
    e = d \/ \E k \in Settled, v \in Val : e = [d EXCEPT ![k] = v]

LEMMA PuttingSteps ==
    ASSUME NEW t, NEW u, NEW k \in Key, NEW v \in Val \cup {Unwritten},
           v = Unwritten => k \in Refused, Puts(t, u, k, v), Once(t)
    PROVE  Steps([c \in Settled |-> ValueIn(t, c)], [c \in Settled |-> ValueIn(u, c)])
<1> DEFINE d == [c \in Settled |-> ValueIn(t, c)]
           e == [c \in Settled |-> ValueIn(u, c)]
<1>1. \A c \in Settled : /\ c # k => ValueIn(u, c) = ValueIn(t, c)
                         /\ c = k /\ v # Unwritten => ValueIn(u, c) = v
  BY PutsValue
<1>2. CASE k \in Settled
  <2>1. v \in Val /\ v # Unwritten
    BY <1>2, MapAssumption DEF Settled, MapAssumption
  <2>2. e = [d EXCEPT ![k] = v]
    BY <1>1, <1>2, <2>1
  <2> QED BY <1>2, <2>1, <2>2 DEF Steps
<1>3. CASE k \notin Settled
  <2>1. e = d
    BY <1>1, <1>3
  <2> QED BY <2>1 DEF Steps
<1> QED BY <1>2, <1>3

LEMMA PutStepsDictionary ==
    ASSUME HInv, NEW k \in Key, NEW v \in Val \cup {Unwritten}, Put(k, v)
    PROVE  Steps(Kept(bak, ip, item), Kept(bak', ip', item'))
<1>1. /\ Good(item, size, hash) /\ Once(item) /\ Cells(item, size) /\ bak = Blank(0) /\ ip = 0
      /\ v = Unwritten => k \in Refused
  BY DEF HInv, Put, Good
<1>2. Kept(bak, ip, item) = [c \in Settled |-> ValueIn(item, c)]
  BY <1>1, HeldAlone DEF Kept
<1>3. CASE Fits(k) /\ Store(k, v) /\ UNCHANGED <<bak, ip, req>>
  <2>1. Puts(item, item', k, v)
    BY <1>3, StoreKeeps
  <2>2. Kept(bak', ip', item') = [c \in Settled |-> ValueIn(item', c)]
    BY <1>1, <1>3, HeldAlone DEF Kept
  <2> QED BY <1>1, <1>2, <2>1, <2>2, PuttingSteps
<1>4. CASE ~Fits(k) /\ Grow(k, v)
  <2>1. bak' = item /\ ip' = 0 /\ item' = Blank(size * 2)
    BY <1>4 DEF Grow
  <2>2. ASSUME NEW c \in Settled PROVE Held(item, 0, Blank(size * 2), c) = ValueIn(item, c)
    <3>1. size \in Nat /\ size > 1 /\ DOMAIN item = 0 .. size - 1 /\ c \in Key /\ c # Nil
      BY <1>1, CellFacts, MapAssumption DEF Cells, Settled, MapAssumption
    <3> DEFINE old == {j \in DOMAIN item : j >= 0 /\ item[j].k = c}
               e == {x \in Used(item) : item[x].k = c}
    <3>2. old = e
      <4>1. \A j \in DOMAIN item : j >= 0 /\ (item[j].k = c => j \in Used(item))
        <5>1. \A j \in DOMAIN item : j \notin Used(item) => item[j].k = Nil
          BY <1>1, <3>1, CellFacts DEF Free
        <5> QED BY <3>1, <5>1
      <4> QED BY <4>1 DEF Used
    <3>3. ValueIn(Blank(size * 2), c) = Nil
      <4>1. Used(Blank(size * 2)) = {}
        BY <3>1, BlankGood
      <4> QED BY <4>1 DEF ValueIn
    <3>4. Held(item, 0, Blank(size * 2), c) =
             IF old # {} THEN item[CHOOSE x \in old : TRUE].v ELSE ValueIn(Blank(size * 2), c)
      BY DEF Held
    <3>5. ValueIn(item, c) = IF e = {} THEN Nil ELSE item[CHOOSE x \in e : TRUE].v
      BY DEF ValueIn
    <3> HIDE DEF old, e
    <3> QED BY <3>2, <3>3, <3>4, <3>5
  <2>3. Kept(bak', ip', item') = Kept(bak, ip, item)
    BY <1>2, <2>1, <2>2 DEF Kept
  <2> QED BY <2>3 DEF Steps
<1> QED BY <1>3, <1>4 DEF Put

LEMMA RehashStutters ==
    ASSUME HInv, Rehash
    PROVE  Kept(bak', ip', item') = Kept(bak, ip, item)
<1> DEFINE half == size \div 2
<1>1. /\ Good(item, size, hash) /\ Once(item) /\ half \in Nat /\ Cells(bak, half) /\ Once(bak)
      /\ ip \in DOMAIN bak /\ DOMAIN bak = 0 .. half - 1 /\ ip' = ip + 1 /\ bak' = bak
      /\ \A i \in Used(bak), x \in Used(item) :
            i >= ip /\ item[x].k = bak[i].k => bak[i].k \notin Steady
  <2>1. Halfway
    BY DEF HInv, Rehash, Resizing
  <2>2. Cells(bak, half) /\ half \in Nat
    BY <2>1 DEF Halfway
  <2>3. DOMAIN bak = 0 .. half - 1
    <3> HIDE DEF half
    <3> QED BY <2>2, CellFacts
  <2> QED BY <2>1, <2>2, <2>3 DEF HInv, Good, Halfway, Rehash
<1> HIDE DEF half
<1> SUFFICES ASSUME NEW c \in Settled PROVE Held(bak, ip + 1, item', c) = Held(bak, ip, item, c)
  BY <1>1 DEF Kept
<1>2. c \in Key /\ c \in Steady /\ c # Nil
  BY MapAssumption DEF Settled, Steady, MapAssumption
<1> DEFINE old == {j \in DOMAIN bak : j >= ip /\ bak[j].k = c}
           rest == {j \in DOMAIN bak : j >= ip + 1 /\ bak[j].k = c}
<1>3. \A j \in DOMAIN bak : j >= ip + 1 <=> j >= ip /\ j # ip
  BY <1>1
<1>6. /\ Held(bak, ip, item, c) =
            IF old # {} THEN bak[CHOOSE j \in old : TRUE].v ELSE ValueIn(item, c)
      /\ Held(bak, ip + 1, item', c) =
            IF rest # {} THEN bak[CHOOSE j \in rest : TRUE].v ELSE ValueIn(item', c)
  BY DEF Held
<1>4. CASE bak[ip].k # c
  <2>1. rest = old
    BY <1>1, <1>3, <1>4
  <2>2. ValueIn(item', c) = ValueIn(item, c)
    <3>1. CASE bak[ip].flag = "free"
      BY <3>1 DEF Rehash
    <3>2. CASE bak[ip].flag # "free"
      <4>1. ip \in Used(bak) /\ bak[ip].k \in Key /\ bak[ip] \in Entry
        BY <1>1, <3>2 DEF Used, Cells
      <4>2. bak[ip].v \in Val \cup {Nil}
        BY <4>1 DEF Entry
      <4>3. Fits(bak[ip].k) /\ Store(bak[ip].k, bak[ip].v)
        BY <3>2 DEF Rehash
      <4>4. Puts(item, item', bak[ip].k, bak[ip].v)
        BY <4>1, <4>2, <4>3, StoreKeeps
      <4> QED BY <1>1, <1>4, <4>1, <4>4, PutsValue
    <3> QED BY <3>1, <3>2
  <2> HIDE DEF old, rest
  <2> QED BY <1>6, <2>1, <2>2
<1>5. CASE bak[ip].k = c
  <2>1. bak[ip].flag # "free" /\ ip \in Used(bak)
    <3>1. bak[ip].flag = "free" => bak[ip] = Free
      BY <1>1 DEF Cells
    <3> QED BY <1>1, <1>2, <1>5, <3>1 DEF Free, Used
  <2>2. \A j \in DOMAIN bak : bak[j].k = c => j = ip
    <3> TAKE j \in DOMAIN bak
    <3> HAVE bak[j].k = c
    <3>1. bak[j].flag = "free" => bak[j] = Free
      BY <1>1 DEF Cells
    <3>2. j \in Used(bak)
      BY <1>2, <3>1 DEF Free, Used
    <3> QED BY <1>1, <1>2, <1>5, <2>1, <3>2 DEF Once
  <2>3. old = {ip} /\ rest = {}
    BY <1>1, <1>3, <1>5, <2>2
  <2>4. Held(bak, ip, item, c) = bak[ip].v
    <3> HIDE DEF old, rest
    <3> QED BY <1>6, <2>3
  <2>5. bak[ip].v \in Val \cup {Nil} /\ bak[ip].v # Unwritten /\ bak[ip].k \in Key
    <3>1. bak[ip] \in Entry /\ bak[ip].k \in Key
      BY <1>1, <2>1 DEF Cells
    <3> QED BY <3>1, MapAssumption DEF Entry, MapAssumption
  <2>6. Puts(item, item', bak[ip].k, bak[ip].v)
    BY <2>1, <2>5, StoreKeeps DEF Rehash
  <2>7. ValueIn(item', c) = bak[ip].v
    BY <1>1, <1>5, <2>5, <2>6, PutsValue
  <2> HIDE DEF old, rest
  <2> QED BY <1>6, <2>3, <2>4, <2>7
<1> QED BY <1>4, <1>5

LEMMA RetryStepsDictionary ==
    ASSUME HInv, Retry
    PROVE  Steps(Kept(bak, ip, item), Kept(bak', ip', item'))
<1>1. /\ Once(item) /\ req \in Key \X (Val \cup {Unwritten})
      /\ req[2] = Unwritten => req[1] \in Refused
      /\ Cells(bak, size \div 2) /\ size \div 2 \in Nat /\ ip \in 0 .. size \div 2
  BY DEF HInv, Retry, Halfway, Good
<1>2. ip \notin DOMAIN bak /\ Fits(req[1]) /\ Store(req[1], req[2])
      /\ bak' = Blank(0) /\ ip' = 0
  BY DEF Retry
<1>3. Puts(item, item', req[1], req[2])
  BY <1>1, <1>2, StoreKeeps
<1>4. \A j \in DOMAIN bak : ~ (j >= ip)
  <2>1. DOMAIN bak = 0 .. size \div 2 - 1
    BY <1>1, CellFacts
  <2> QED BY <1>1, <1>2, <2>1
<1>5. Kept(bak, ip, item) = [c \in Settled |-> ValueIn(item, c)]
  BY <1>4 DEF Kept, Held
<1>6. Kept(bak', ip', item') = [c \in Settled |-> ValueIn(item', c)]
  BY <1>2, HeldAlone DEF Kept
<1> QED BY <1>1, <1>3, <1>5, <1>6, PuttingSteps

LEMMA StepsDictionary ==
    ASSUME HInv, [Next]_vars
    PROVE  Steps(Kept(bak, ip, item), Kept(bak', ip', item'))
<1>1. ASSUME NEW k \in Key, NEW v \in Val \cup {Unwritten}, Put(k, v)
      PROVE  Steps(Kept(bak, ip, item), Kept(bak', ip', item'))
  BY <1>1, PutStepsDictionary
<1>2. CASE Rehash
  BY <1>2, RehashStutters DEF Steps
<1>3. CASE Retry
  BY <1>3, RetryStepsDictionary
<1>4. CASE UNCHANGED <<item, bak, ip>>
  BY <1>4 DEF Steps
<1>5. ASSUME NEW k \in Mutable, NEW h \in Hash, Mutate(k, h) PROVE UNCHANGED <<item, bak, ip>>
  BY <1>5 DEF Mutate
<1>6. ASSUME NEW kind \in Kinds, Begin(kind) PROVE UNCHANGED <<item, bak, ip>>
  BY <1>6 DEF Begin, map
<1>7. Meet \/ MeetFreed \/ End \/ UNCHANGED vars => UNCHANGED <<item, bak, ip>>
  BY DEF Meet, MeetFreed, End, vars, map
<1> QED BY <1>1, <1>2, <1>3, <1>4, <1>5, <1>6, <1>7 DEF Next

\* The hash map implements a finite function (hmap_put, hmap_get, resize): what is read
\* under a settled key is what was last put there.
THEOREM MapIsDictionary == Spec => IsDictionary
<1>1. Init => Dictionary!Init
  <2> SUFFICES ASSUME Init PROVE [k \in Settled |-> Binding(k)] = [k \in Settled |-> Nil]
    BY DEF Dictionary!Init
  <2>1. HInv
    BY HInitial
  <2>2. size \in Nat /\ size > 1 /\ item = Blank(size) /\ bak = Blank(0) /\ ip = 0
    BY MapAssumption DEF Init, MapAssumption
  <2>3. \A k \in Settled : ValueIn(item, k) = Nil
    BY <2>2, BlankGood DEF ValueIn
  <2>4. Kept(bak, ip, item) = [k \in Settled |-> Nil]
    BY <2>2, <2>3, HeldAlone DEF Kept
  <2> QED BY <2>1, <2>4, BindingIsHeld
<1>2. HInv /\ HInv' /\ [Next]_vars => [Dictionary!Next]_[k \in Settled |-> Binding(k)]
  <2> SUFFICES ASSUME HInv, HInv', [Next]_vars
               PROVE  \/ \E k \in Settled, v \in Val :
                            [c \in Settled |-> Binding(c)]' =
                               [[c \in Settled |-> Binding(c)] EXCEPT ![k] = v]
                      \/ [c \in Settled |-> Binding(c)]' = [c \in Settled |-> Binding(c)]
    BY DEF Dictionary!Next, Dictionary!Put
  <2>1. Steps(Kept(bak, ip, item), Kept(bak', ip', item'))
    BY StepsDictionary
  <2>2. [c \in Settled |-> Binding(c)] = Kept(bak, ip, item)
    BY BindingIsHeld
  <2>3. [c \in Settled |-> Binding(c)]' = Kept(bak', ip', item')
    BY BindingIsHeldNext
  <2> QED BY <2>1, <2>2, <2>3 DEF Steps
<1> QED BY <1>1, <1>2, HInvAlways, PTL DEF Spec, IsDictionary, Dictionary!Spec

=============================================================================

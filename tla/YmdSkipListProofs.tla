-------------------------- MODULE YmdSkipListProofs --------------------------
(***************************************************************************)
(* The skip list is sorted and is a dictionary of its settled keys         *)
(* (YmdSkipList, YmdMap), for any keys, order, heights and changes.        *)
(*                                                                         *)
(* A list is described by the place of each node in it and by its height   *)
(* (Linear): on every level a pointer goes to the next node of that level. *)
(* The search is then shown to stop at one place, whatever its recursion   *)
(* goes through (Stops, PathIs), and a node linked there to give a list of *)
(* the same kind (LinkIs).  The order counts for settled keys only: every  *)
(* other key is before or after them, whatever it is now (Low, High).      *)
(***************************************************************************)
EXTENDS YmdSkipList, Integers, FiniteSetsExt, FiniteSetTheorems, TLAPS

(* A set of naturals has a least element: of the intervals 0 .. y that end in one of its *)
(* elements, all parts of the finite 0 .. m, one has no strict part among them.          *)
LEMMA LeastExists ==
    ASSUME NEW S \in SUBSET Nat, S # {}
    PROVE  \E x \in S : \A y \in S : x <= y
<1>1. PICK m \in S : TRUE
  OBVIOUS
<1> DEFINE N == 0 .. m
           T == {C \in SUBSET N : \E y \in S : C = 0 .. y}
<1>2. PICK C \in T : \A D \in T : ~ (<<D, C>> \in StrictSubsetOrdering(N))
  <2>1. IsFiniteSet(N)
    BY FS_Interval
  <2>2. FiniteSubsetsOf(N) = SUBSET N
    BY <2>1, FS_FiniteSubsetsOfFinite
  <2>3. T \subseteq FiniteSubsetsOf(N) /\ 0 .. m \in T
    BY <2>2
  <2> HIDE DEF T, N
  <2> QED BY <2>3, FS_StrictSubsetOrderingWellFounded, WFMin
<1>3. PICK x \in S : C = 0 .. x
  OBVIOUS
<1>4. ASSUME NEW y \in S, y < x PROVE FALSE
  <2>1. x \in Nat /\ y \in Nat
    OBVIOUS
  <2>2. x \in C /\ x \notin 0 .. y /\ 0 .. y \subseteq C
    BY <1>3, <1>4, <2>1
  <2> QED BY <1>2, <2>2 DEF StrictSubsetOrdering
<1>5. \A y \in S : x \in Nat /\ y \in Nat
  OBVIOUS
<1> QED BY <1>4, <1>5

LEMMA MaxIsIn ==
    ASSUME NEW n \in Nat, NEW S \in SUBSET (0 .. n - 1), S # {}
    PROVE  Max(S) \in S /\ \A y \in S : y <= Max(S)
<1> DEFINE T == {n - y : y \in S}
<1>1. T \in SUBSET Nat /\ T # {}
  OBVIOUS
<1>2. PICK x \in T : \A y \in T : x <= y
  <2> HIDE DEF T
  <2> QED BY <1>1, LeastExists
<1>3. PICK z \in S : x = n - z
  BY <1>2
<1>4. ASSUME NEW y \in S PROVE z >= y /\ y <= z
  <2>1. n - y \in T /\ y \in Int /\ z \in Int
    OBVIOUS
  <2>2. n - z <= n - y
    BY <2>1, <1>2, <1>3
  <2> QED BY <2>1, <2>2
<1> QED BY <1>3, <1>4 DEF Max

\* What node x holds, as it is now.
Holds(x) == now[key[x]]

\* A list of n nodes, in the order of pos and of the heights ht: on each level the pointer
\* of a node of that height goes to the next one of that height.
Onward(pos, ht, n, x, i) == {z \in 1 .. n : ht[z] > i /\ pos[z] > pos[x]}
Linear(f, pos, ht, n) ==
    /\ n \in Nat
    /\ pos \in [0 .. n -> 0 .. n] /\ pos[head] = 0
    /\ \A x, y \in 0 .. n : pos[x] = pos[y] => x = y
    /\ ht \in [0 .. n -> 1 .. MaxLevel] /\ ht[head] = MaxLevel
    /\ \A x \in 0 .. n, i \in Levels :
          /\ ht[x] <= i => f[x][i] = Nil
          /\ ht[x] > i =>
                \/ f[x][i] = Nil /\ Onward(pos, ht, n, x, i) = {}
                \/ /\ f[x][i] \in Onward(pos, ht, n, x, i)
                   /\ \A z \in Onward(pos, ht, n, x, i) : pos[f[x][i]] <= pos[z]

LEMMA NilApart == \A n \in Nat : Nil # n
BY ListAssumption DEF ListAssumption

-----------------------------------------------------------------------------
(* The search on one level *)

\* From y the search goes to w and stops: the nodes up to w are in S, the next is not.
Stops(f, pos, ht, n, i, S, y, w) ==
    /\ w \in 0 .. n /\ ht[w] > i /\ pos[y] <= pos[w] /\ f[w][i] \notin S
    /\ \A z \in 1 .. n : ht[z] > i /\ pos[y] < pos[z] /\ pos[z] <= pos[w] => z \in S

LEMMA LinearFacts ==
    ASSUME NEW f, NEW pos, NEW ht, NEW n, Linear(f, pos, ht, n)
    PROVE  /\ n \in Nat /\ head \in 0 .. n
           /\ \A x \in 0 .. n : pos[x] \in Nat /\ pos[x] <= n /\ ht[x] \in Nat /\ ht[x] >= 1
                                /\ ht[x] <= MaxLevel
           /\ pos[head] = 0 /\ ht[head] = MaxLevel /\ MaxLevel \in Nat
           /\ \A x \in 0 .. n : x # head <=> pos[x] > 0
           /\ \A i \in Levels : i \in Nat /\ i < MaxLevel
<1>1. /\ n \in Nat /\ pos \in [0 .. n -> 0 .. n] /\ ht \in [0 .. n -> 1 .. MaxLevel]
      /\ MaxLevel \in Nat /\ pos[head] = 0 /\ ht[head] = MaxLevel
      /\ \A x, y \in 0 .. n : pos[x] = pos[y] => x = y
  BY ListAssumption DEF ListAssumption, Linear
<1>2. head \in 0 .. n
  BY <1>1 DEF head
<1>3. \A x \in 0 .. n : pos[x] \in 0 .. n /\ ht[x] \in 1 .. MaxLevel
  BY <1>1
<1>4. \A x \in 0 .. n : pos[x] \in Nat /\ pos[x] <= n /\ ht[x] \in Nat /\ ht[x] >= 1
                        /\ ht[x] <= MaxLevel
  <2> TAKE x \in 0 .. n
  <2>1. pos[x] \in 0 .. n /\ ht[x] \in 1 .. MaxLevel
    BY <1>3
  <2>2. pos[x] \in Nat /\ pos[x] <= n
    BY <1>1, <2>1
  <2>3. ht[x] \in Nat /\ ht[x] >= 1 /\ ht[x] <= MaxLevel
    BY <1>1, <2>1
  <2> QED BY <2>2, <2>3
<1>5. \A x \in 0 .. n : x # head <=> pos[x] > 0
  <2> TAKE x \in 0 .. n
  <2>1. x = head => pos[x] = 0
    BY <1>1
  <2>2. x # head => pos[x] # 0
    BY <1>1, <1>2
  <2>3. pos[x] \in Nat
    BY <1>4
  <2>4. pos[x] # 0 <=> pos[x] > 0
    BY <2>3
  <2> QED BY <2>1, <2>2, <2>4
<1>6. \A i \in Levels : i \in Nat /\ i < MaxLevel
  BY <1>1 DEF Levels
<1> QED BY <1>1, <1>2, <1>4, <1>5, <1>6

\* The next node of a level.
LEMMA NextIs ==
    ASSUME NEW f, NEW pos, NEW ht, NEW n, Linear(f, pos, ht, n),
           NEW i \in Levels, NEW x \in 0 .. n, ht[x] > i
    PROVE  /\ f[x][i] = Nil => \A z \in 1 .. n : ht[z] > i => pos[z] <= pos[x]
           /\ f[x][i] # Nil =>
                 /\ f[x][i] \in 1 .. n /\ ht[f[x][i]] > i /\ pos[x] < pos[f[x][i]]
                 /\ \A z \in 1 .. n : ht[z] > i /\ pos[x] < pos[z] => pos[f[x][i]] <= pos[z]
<1>1. \/ f[x][i] = Nil /\ Onward(pos, ht, n, x, i) = {}
      \/ /\ f[x][i] \in Onward(pos, ht, n, x, i)
         /\ \A z \in Onward(pos, ht, n, x, i) : pos[f[x][i]] <= pos[z]
  BY DEF Linear
<1>2. n \in Nat /\ \A z \in 0 .. n : pos[z] \in Nat
  BY LinearFacts
<1>3. \A z \in 1 .. n : z \in 0 .. n /\ z \in Nat
  BY <1>2
<1>4. f[x][i] = Nil => \A z \in 1 .. n : ht[z] > i => pos[z] <= pos[x]
  <2> SUFFICES ASSUME f[x][i] = Nil, NEW z \in 1 .. n, ht[z] > i PROVE pos[z] <= pos[x]
    OBVIOUS
  <2>1. Onward(pos, ht, n, x, i) = {}
    BY <1>1, <1>3, NilApart DEF Onward
  <2>2. ~(pos[z] > pos[x])
    BY <2>1 DEF Onward
  <2> QED BY <1>2, <1>3, <2>2
<1>5. f[x][i] # Nil =>
         /\ f[x][i] \in 1 .. n /\ ht[f[x][i]] > i /\ pos[x] < pos[f[x][i]]
         /\ \A z \in 1 .. n : ht[z] > i /\ pos[x] < pos[z] => pos[f[x][i]] <= pos[z]
  BY <1>1, <1>2, <1>3 DEF Onward
<1> QED BY <1>4, <1>5

LEMMA StopsUnique ==
    ASSUME NEW f, NEW pos, NEW ht, NEW n, Linear(f, pos, ht, n),
           NEW i \in Levels, NEW S \in SUBSET (1 .. n), NEW y \in 0 .. n, NEW w, NEW u,
           Stops(f, pos, ht, n, i, S, y, w), Stops(f, pos, ht, n, i, S, y, u)
    PROVE  w = u
<1>1. ASSUME NEW a, NEW b, Stops(f, pos, ht, n, i, S, y, a), Stops(f, pos, ht, n, i, S, y, b),
             pos[a] < pos[b]
      PROVE  FALSE
  <2>1. /\ a \in 0 .. n /\ b \in 0 .. n /\ ht[a] > i /\ ht[b] > i /\ pos[y] <= pos[a]
        /\ f[a][i] \notin S
    BY <1>1 DEF Stops
  <2>2. /\ pos[a] \in Nat /\ pos[b] \in Nat /\ pos[y] \in Nat /\ n \in Nat
        /\ b \in 1 .. n
    BY <1>1, <2>1, LinearFacts DEF head
  <2>3. f[a][i] # Nil
    <3>1. ~(pos[b] <= pos[a])
      BY <1>1, <2>2
    <3> QED BY <2>1, <2>2, <3>1, NextIs
  <2>4. f[a][i] \in 1 .. n /\ ht[f[a][i]] > i /\ pos[a] < pos[f[a][i]] /\ pos[f[a][i]] <= pos[b]
    BY <1>1, <2>1, <2>2, <2>3, NextIs
  <2>5. pos[f[a][i]] \in Nat
    BY <2>2, <2>4, LinearFacts
  <2>6. pos[y] < pos[f[a][i]]
    BY <2>1, <2>2, <2>4, <2>5
  <2>7. f[a][i] \in S
    BY <1>1, <2>4, <2>6 DEF Stops
  <2> QED BY <2>1, <2>7
<1>2. w \in 0 .. n /\ u \in 0 .. n
  BY DEF Stops
<1>3. pos[w] = pos[u]
  <2>1. pos[w] \in Nat /\ pos[u] \in Nat
    BY <1>2, LinearFacts
  <2> QED BY <1>1, <2>1
<1> QED BY <1>2, <1>3 DEF Linear

LEMMA StopsExists ==
    ASSUME NEW f, NEW pos, NEW ht, NEW n, Linear(f, pos, ht, n),
           NEW i \in Levels, NEW S \in SUBSET (1 .. n), NEW y \in 0 .. n, ht[y] > i
    PROVE  \E w : Stops(f, pos, ht, n, i, S, y, w)
<1> DEFINE Q == {w \in 0 .. n : /\ ht[w] > i /\ pos[y] <= pos[w]
                                /\ \A z \in 1 .. n : ht[z] > i /\ pos[y] < pos[z]
                                                     /\ pos[z] <= pos[w] => z \in S}
           P == {p \in 0 .. n : \E w \in Q : p = pos[w]}
<1>1. n \in Nat /\ \A z \in 0 .. n : pos[z] \in 0 .. n
  BY LinearFacts
<1>2. y \in Q
  <2>1. \A z \in 1 .. n : ~(pos[y] < pos[z] /\ pos[z] <= pos[y])
    BY <1>1
  <2>2. pos[y] <= pos[y]
    BY <1>1
  <2> QED BY <2>1, <2>2
<1>3. P \in SUBSET (0 .. (n + 1) - 1) /\ P # {} /\ n + 1 \in Nat
  <2>1. pos[y] \in P
    BY <1>1, <1>2
  <2> QED BY <1>1, <2>1
<1>4. Max(P) \in P /\ \A p \in P : p <= Max(P)
  <2> HIDE DEF P
  <2> QED BY <1>3, MaxIsIn
<1>5. PICK w \in Q : Max(P) = pos[w]
  BY <1>4
<1>6. \A v \in Q : pos[v] <= pos[w]
  BY <1>1, <1>4, <1>5
<1>7. ASSUME f[w][i] \in S PROVE FALSE
  <2> DEFINE v == f[w][i]
  <2>0. v \in Nat
    <3>1. \A z \in S : z \in Nat
      BY <1>1
    <3> QED BY <1>7, <3>1
  <2>1. w \in 0 .. n /\ ht[w] > i /\ v # Nil
    BY <2>0, NilApart
  <2>2. v \in 1 .. n /\ ht[v] > i /\ pos[w] < pos[v]
        /\ \A z \in 1 .. n : ht[z] > i /\ pos[w] < pos[z] => pos[v] <= pos[z]
    BY <2>1, NextIs
  <2>3. pos[v] \in Nat /\ pos[w] \in Nat /\ pos[y] \in Nat /\ pos[y] <= pos[w] /\ v \in 0 .. n
    BY <1>1, <2>1, <2>2
  <2>4. ASSUME NEW z \in 1 .. n, ht[z] > i, pos[y] < pos[z], pos[z] <= pos[v] PROVE z \in S
    <3>1. pos[z] \in Nat /\ z \in 0 .. n
      BY <1>1
    <3>2. CASE pos[z] <= pos[w]
      BY <2>4, <3>2
    <3>3. CASE pos[w] < pos[z]
      <4>1. pos[v] <= pos[z]
        BY <2>2, <2>4, <3>3
      <4>2. pos[z] = pos[v]
        BY <2>3, <2>4, <3>1, <4>1
      <4>3. z = v
        BY <2>3, <3>1, <4>2 DEF Linear
      <4> QED BY <1>7, <4>3
    <3> QED BY <2>3, <3>1, <3>2, <3>3
  <2>5. v \in Q
    BY <2>2, <2>3, <2>4
  <2> HIDE DEF Q, v
  <2>6. pos[v] <= pos[w]
    BY <1>6, <2>5
  <2> QED BY <2>2, <2>3, <2>6
<1> QED BY <1>7 DEF Stops

\* One step of the search.
LEMMA StopsStep ==
    ASSUME NEW f, NEW pos, NEW ht, NEW n, Linear(f, pos, ht, n),
           NEW i \in Levels, NEW S \in SUBSET (1 .. n), NEW y \in 0 .. n, ht[y] > i,
           f[y][i] \in S, NEW w, Stops(f, pos, ht, n, i, S, f[y][i], w)
    PROVE  Stops(f, pos, ht, n, i, S, y, w)
<1>1. /\ n \in Nat /\ \A z \in 0 .. n : pos[z] \in Nat
  BY LinearFacts
<1> DEFINE v == f[y][i]
<1>2. v # Nil
  <2>1. v \in Nat
    <3>1. \A z \in S : z \in Nat
      BY <1>1
    <3> QED BY <3>1
  <2> HIDE DEF v
  <2> QED BY <2>1, NilApart
<1>3. v \in 1 .. n /\ v \in 0 .. n /\ pos[y] < pos[v]
      /\ \A z \in 1 .. n : ht[z] > i /\ pos[y] < pos[z] => pos[v] <= pos[z]
  <2>1. v \in 1 .. n /\ pos[y] < pos[v]
        /\ \A z \in 1 .. n : ht[z] > i /\ pos[y] < pos[z] => pos[v] <= pos[z]
    BY <1>2, NextIs
  <2> QED BY <1>1, <2>1
<1>4. /\ w \in 0 .. n /\ ht[w] > i /\ pos[v] <= pos[w] /\ f[w][i] \notin S
      /\ \A z \in 1 .. n : ht[z] > i /\ pos[v] < pos[z] /\ pos[z] <= pos[w] => z \in S
  BY DEF Stops
<1> HIDE DEF v
<1>5. pos[y] <= pos[w]
  BY <1>1, <1>3, <1>4
<1>6. ASSUME NEW z \in 1 .. n, ht[z] > i, pos[y] < pos[z], pos[z] <= pos[w] PROVE z \in S
  <2>1. z \in 0 .. n /\ pos[v] <= pos[z] /\ pos[z] \in Nat /\ pos[v] \in Nat
    BY <1>1, <1>3, <1>6
  <2>2. CASE pos[v] < pos[z]
    BY <1>4, <1>6, <2>2
  <2>3. CASE pos[v] = pos[z]
    <3>1. z = v
      BY <1>3, <2>1, <2>3 DEF Linear
    <3> QED BY <3>1 DEF v
  <2> QED BY <2>1, <2>2, <2>3
<1> QED BY <1>4, <1>5, <1>6 DEF Stops

\* The nodes the search for k passes.
Smaller(k) == {z \in Nodes : Before(z, k)}

\* What `Right' and `Update' recurse on.
EndOf(f, n, i, S, g) ==
    g = [y \in {head} \cup 1 .. n |-> IF f[y][i] \in S THEN g[f[y][i]] ELSE y]

LEMMA StopsAtOnce ==
    ASSUME NEW f, NEW pos, NEW ht, NEW n, Linear(f, pos, ht, n),
           NEW i \in Levels, NEW S \in SUBSET (1 .. n), NEW y \in 0 .. n, ht[y] > i,
           f[y][i] \notin S
    PROVE  Stops(f, pos, ht, n, i, S, y, y)
<1>1. n \in Nat /\ \A z \in 0 .. n : pos[z] \in Nat
  BY LinearFacts
<1>2. \A z \in 1 .. n : ~(pos[y] < pos[z] /\ pos[z] <= pos[y])
  <2> TAKE z \in 1 .. n
  <2>1. z \in 0 .. n
    BY <1>1
  <2> QED BY <1>1, <2>1
<1>3. pos[y] <= pos[y]
  BY <1>1
<1> QED BY <1>2, <1>3 DEF Stops

\* The next node of a node on level i is on level i as well, and further on.
LEMMA StepOn ==
    ASSUME NEW f, NEW pos, NEW ht, NEW n, Linear(f, pos, ht, n),
           NEW i \in Levels, NEW S \in SUBSET (1 .. n), NEW y \in 0 .. n, f[y][i] \in S
    PROVE  ht[y] > i /\ f[y][i] \in 0 .. n /\ ht[f[y][i]] > i /\ pos[y] < pos[f[y][i]]
<1>1. n \in Nat /\ \A z \in S : z \in Nat /\ z \in 0 .. n
  <2>1. n \in Nat
    BY LinearFacts
  <2> QED BY <2>1
<1>2. f[y][i] # Nil
  BY <1>1, NilApart
<1>3. ht[y] > i
  <2>1. ht[y] <= i => f[y][i] = Nil
    BY DEF Linear
  <2>2. ht[y] \in Nat /\ i \in Nat
    BY LinearFacts
  <2> QED BY <1>2, <2>1, <2>2
<1> QED BY <1>1, <1>2, <1>3, NextIs

LEMMA EndExists ==
    ASSUME NEW f, NEW pos, NEW ht, NEW n, Linear(f, pos, ht, n),
           NEW i \in Levels, NEW S \in SUBSET (1 .. n)
    PROVE  \E g : EndOf(f, n, i, S, g)
<1> DEFINE W(y) == CHOOSE w : Stops(f, pos, ht, n, i, S, y, w)
           g == [y \in {head} \cup 1 .. n |-> IF ht[y] > i THEN W(y) ELSE y]
<1>1. n \in Nat /\ {head} \cup 1 .. n = 0 .. n
  BY LinearFacts DEF head
<1>2. \A y \in 0 .. n : ht[y] > i => Stops(f, pos, ht, n, i, S, y, W(y))
  BY StopsExists
<1>3. ASSUME NEW y \in 0 .. n
      PROVE  (IF ht[y] > i THEN W(y) ELSE y) = IF f[y][i] \in S THEN g[f[y][i]] ELSE y
  <2>1. CASE f[y][i] \in S
    <3>1. ht[y] > i /\ f[y][i] \in 0 .. n /\ ht[f[y][i]] > i
      BY <2>1, StepOn
    <3>2. Stops(f, pos, ht, n, i, S, f[y][i], W(f[y][i]))
      BY <1>2, <3>1
    <3> HIDE DEF W
    <3>3. Stops(f, pos, ht, n, i, S, y, W(f[y][i]))
      BY <2>1, <3>1, <3>2, StopsStep
    <3>4. W(y) = W(f[y][i])
      BY <1>2, <3>1, <3>3, StopsUnique
    <3>5. g[f[y][i]] = W(f[y][i])
      BY <1>1, <3>1
    <3> QED BY <2>1, <3>1, <3>4, <3>5
  <2>2. CASE f[y][i] \notin S
    <3>1. CASE ht[y] > i
      <4> HIDE DEF W
      <4>1. Stops(f, pos, ht, n, i, S, y, y)
        BY <2>2, <3>1, StopsAtOnce
      <4>2. W(y) = y
        BY <1>2, <3>1, <4>1, StopsUnique
      <4> QED BY <2>2, <3>1, <4>2
    <3>2. CASE ~(ht[y] > i)
      BY <2>2, <3>2
    <3> QED BY <3>1, <3>2
  <2> QED BY <2>1, <2>2
<1>4. EndOf(f, n, i, S, g)
  <2> HIDE DEF W
  <2> QED BY <1>1, <1>3 DEF EndOf
<1> QED BY <1>4

LEMMA EndIs ==
    ASSUME NEW f, NEW pos, NEW ht, NEW n, Linear(f, pos, ht, n),
           NEW i \in Levels, NEW S \in SUBSET (1 .. n), NEW g, EndOf(f, n, i, S, g),
           NEW x \in 0 .. n, ht[x] > i
    PROVE  Stops(f, pos, ht, n, i, S, x, g[x])
<1> DEFINE Bad == {y \in 0 .. n : ht[y] > i /\ ~Stops(f, pos, ht, n, i, S, y, g[y])}
           P == {p \in 0 .. (n + 1) - 1 : \E y \in Bad : p = pos[y]}
<1>1. n \in Nat /\ {head} \cup 1 .. n = 0 .. n /\ \A y \in 0 .. n : pos[y] \in 0 .. n
  BY LinearFacts DEF head
<1>2. SUFFICES ASSUME Bad # {} PROVE FALSE
  OBVIOUS
<1>3. P # {} /\ P \in SUBSET (0 .. (n + 1) - 1) /\ n + 1 \in Nat
  <2>1. PICK y \in Bad : TRUE
    BY <1>2
  <2>2. pos[y] \in 0 .. (n + 1) - 1
    BY <1>1, <2>1
  <2>3. pos[y] \in P
    BY <2>2
  <2> QED BY <1>1, <2>3
<1>4. Max(P) \in P /\ \A p \in P : p <= Max(P)
  <2> HIDE DEF P
  <2> QED BY <1>3, MaxIsIn
<1>5. PICK y \in Bad : Max(P) = pos[y]
  BY <1>4
<1>6. y \in 0 .. n /\ ht[y] > i /\ ~Stops(f, pos, ht, n, i, S, y, g[y])
  OBVIOUS
<1>7. g[y] = IF f[y][i] \in S THEN g[f[y][i]] ELSE y
  BY <1>1, <1>6 DEF EndOf
<1>8. CASE f[y][i] \notin S
  BY <1>6, <1>7, <1>8, StopsAtOnce
<1>9. CASE f[y][i] \in S
  <2>1. f[y][i] \in 0 .. n /\ ht[f[y][i]] > i /\ pos[y] < pos[f[y][i]]
    BY <1>6, <1>9, StepOn
  <2>2. f[y][i] \notin Bad
    <3>1. ASSUME f[y][i] \in Bad PROVE FALSE
      <4>1. pos[f[y][i]] \in P
        BY <1>1, <2>1, <3>1
      <4>2. pos[f[y][i]] <= pos[y]
        BY <1>4, <1>5, <4>1
      <4> HIDE DEF Bad, P
      <4> QED BY <1>1, <1>6, <2>1, <4>2
    <3> QED BY <3>1
  <2>3. Stops(f, pos, ht, n, i, S, f[y][i], g[f[y][i]])
    BY <2>1, <2>2
  <2>4. Stops(f, pos, ht, n, i, S, y, g[f[y][i]])
    BY <1>6, <1>9, <2>1, <2>3, StopsStep
  <2> QED BY <1>6, <1>7, <1>9, <2>4
<1> QED BY <1>8, <1>9

\* The search on one level ends before the first node that is not smaller.
LEMMA RightIs ==
    ASSUME NEW pos, NEW ht, Linear(fwd, pos, ht, count),
           NEW i \in Levels, NEW k, NEW x \in 0 .. count, ht[x] > i
    PROVE  Stops(fwd, pos, ht, count, i, Smaller(k), x, Right(x, i, k))
<1> DEFINE E(g) == g = [y \in {head} \cup Nodes |->
                          IF fwd[y][i] # Nil /\ Before(fwd[y][i], k) THEN g[fwd[y][i]] ELSE y]
<1>1. Smaller(k) \in SUBSET (1 .. count)
  BY DEF Smaller, Nodes
<1>2. count \in Nat /\ {head} \cup Nodes = 0 .. count /\ Nodes = 1 .. count
  BY LinearFacts DEF head, Nodes
<1>3. ASSUME NEW y \in {head} \cup Nodes
      PROVE  fwd[y][i] # Nil /\ Before(fwd[y][i], k) <=> fwd[y][i] \in Smaller(k)
  <2>1. y \in 0 .. count
    BY <1>2
  <2>2. ht[y] <= i \/ ht[y] > i
    BY <2>1, LinearFacts
  <2>3. fwd[y][i] # Nil => fwd[y][i] \in Nodes
    BY <1>2, <2>1, <2>2, NextIs DEF Linear
  <2>4. fwd[y][i] = Nil => fwd[y][i] \notin Nodes
    <3>1. \A z \in Nodes : z \in Nat
      BY <1>2
    <3> QED BY <3>1, NilApart
  <2> QED BY <2>3, <2>4 DEF Smaller
<1>4. ASSUME NEW g PROVE E(g) <=> EndOf(fwd, count, i, Smaller(k), g)
  <2>1. [y \in {head} \cup Nodes |->
             IF fwd[y][i] # Nil /\ Before(fwd[y][i], k) THEN g[fwd[y][i]] ELSE y]
        = [y \in {head} \cup Nodes |-> IF fwd[y][i] \in Smaller(k) THEN g[fwd[y][i]] ELSE y]
    BY <1>3
  <2> QED BY <1>2, <2>1 DEF EndOf
<1>5. \E g : E(g)
  BY <1>1, <1>4, EndExists
<1>6. Right(x, i, k) = (CHOOSE g : E(g))[x]
  BY DEF Right
<1>7. PICK h : h = CHOOSE g : E(g)
  OBVIOUS
<1>8. EndOf(fwd, count, i, Smaller(k), h)
  <2>1. E(h)
    BY <1>5, <1>7
  <2> HIDE DEF E
  <2> QED BY SMTT(60), <1>4, <2>1
<1>9. Stops(fwd, pos, ht, count, i, Smaller(k), x, h[x])
  BY <1>1, <1>8, EndIs
<1> HIDE DEF E
<1> QED BY <1>6, <1>7, <1>9

-----------------------------------------------------------------------------
(* The whole search *)

\* `Update' on the levels from m up; on all of them for m = 0.
UpdateOn(m, k, u) ==
    \A j \in m .. lv - 1 : u[j] = Right(IF j = lv - 1 THEN head ELSE u[j + 1], j, k)

LEMMA UpdateExists ==
    ASSUME NEW k, lv \in Nat
    PROVE  \E u : u = [i \in 0 .. lv - 1 |-> Right(IF i = lv - 1 THEN head ELSE u[i + 1], i, k)]
<1> DEFINE M == {m \in Nat : \E u : UpdateOn(m, k, u)}
<1>1. M \in SUBSET Nat /\ lv \in M
  <2>1. \A j \in lv .. lv - 1 : FALSE
    OBVIOUS
  <2> QED BY <2>1 DEF UpdateOn
<1>2. PICK m \in M : \A x \in M : m <= x
  <2> HIDE DEF M
  <2> QED BY <1>1, LeastExists
<1>3. m \in Nat
  OBVIOUS
<1>4. PICK u : UpdateOn(m, k, u)
  OBVIOUS
<1>5. m <= lv
  BY <1>1, <1>2
<1>6. ASSUME m # 0 PROVE FALSE
  <2> DEFINE w == [j \in 0 .. lv - 1 |->
                     IF j >= m THEN u[j] ELSE Right(IF j = lv - 1 THEN head ELSE u[j + 1], j, k)]
  <2>1. m - 1 \in Nat
    BY <1>3, <1>6
  <2>2. ASSUME NEW j \in m - 1 .. lv - 1
        PROVE  w[j] = Right(IF j = lv - 1 THEN head ELSE w[j + 1], j, k)
    <3>1. j \in 0 .. lv - 1 /\ j \in Nat
      BY <2>1
    <3>2. j # lv - 1 => j + 1 \in 0 .. lv - 1 /\ j + 1 >= m
      BY <2>1, <3>1
    <3>3. j # lv - 1 => w[j + 1] = u[j + 1]
      BY <3>2
    <3>4. w[j] = Right(IF j = lv - 1 THEN head ELSE u[j + 1], j, k)
      <4>1. CASE j >= m
        <5>1. j \in m .. lv - 1
          BY <1>3, <3>1, <4>1
        <5>2. w[j] = u[j]
          BY <3>1, <4>1
        <5> QED BY <1>4, <5>1, <5>2 DEF UpdateOn
      <4>2. CASE ~(j >= m)
        BY <3>1, <4>2
      <4> QED BY <4>1, <4>2
    <3> HIDE DEF w
    <3> QED BY <3>3, <3>4
  <2>3. m - 1 \in M
    <3> HIDE DEF w
    <3>1. UpdateOn(m - 1, k, w)
      BY <2>2 DEF UpdateOn
    <3> QED BY <2>1, <3>1
  <2>4. m <= m - 1
    BY <1>2, <2>3
  <2> QED BY <1>3, <2>4
<1> DEFINE w == [j \in 0 .. lv - 1 |-> u[j]]
<1>7. ASSUME NEW i \in 0 .. lv - 1
      PROVE  u[i] = Right(IF i = lv - 1 THEN head ELSE w[i + 1], i, k)
  <2>1. i # lv - 1 => w[i + 1] = u[i + 1]
    OBVIOUS
  <2>2. u[i] = Right(IF i = lv - 1 THEN head ELSE u[i + 1], i, k)
    BY <1>4, <1>6 DEF UpdateOn
  <2> HIDE DEF w
  <2> QED BY <2>1, <2>2
<1>8. w = [i \in 0 .. lv - 1 |-> Right(IF i = lv - 1 THEN head ELSE w[i + 1], i, k)]
  <2>1. w = [j \in 0 .. lv - 1 |-> u[j]]
    OBVIOUS
  <2> HIDE DEF w
  <2> QED BY <1>7, <2>1
<1> QED BY <1>8

\* The levels of the list that are in use.
Used(ht) == lv \in 0 .. MaxLevel /\ \A z \in Nodes : ht[z] <= lv

\* Where the search on level i begins.
Above(k, i) == IF i = lv - 1 THEN head ELSE Update(k)[i + 1]

LEMMA UpdateIs ==
    ASSUME NEW pos, NEW ht, Linear(fwd, pos, ht, count), Used(ht), NEW k, NEW i \in 0 .. lv - 1
    PROVE  /\ i \in Levels /\ Above(k, i) \in 0 .. count /\ ht[Above(k, i)] > i
           /\ Stops(fwd, pos, ht, count, i, Smaller(k), Above(k, i), Update(k)[i])
<1> DEFINE E(u) == u = [j \in 0 .. lv - 1 |->
                          Right(IF j = lv - 1 THEN head ELSE u[j + 1], j, k)]
           Good(j) == /\ Above(k, j) \in 0 .. count /\ ht[Above(k, j)] > j
                      /\ Stops(fwd, pos, ht, count, j, Smaller(k), Above(k, j), Update(k)[j])
           Bad == {j \in 0 .. lv - 1 : ~Good(j)}
<1>1. lv \in Nat /\ lv <= MaxLevel /\ MaxLevel \in Nat
  BY LinearFacts DEF Used
<1>2. \A j \in 0 .. lv - 1 : j \in Levels
  BY <1>1 DEF Levels
<1>3. \E u : E(u)
  BY <1>1, UpdateExists
<1>4. Update(k) = CHOOSE u : E(u)
  BY DEF Update
<1>5. E(Update(k))
  <2> HIDE DEF E
  <2> QED BY <1>3, <1>4
<1>6. \A j \in 0 .. lv - 1 : Update(k)[j] = Right(Above(k, j), j, k)
  BY <1>5 DEF Above
<1>7. ASSUME NEW j \in 0 .. lv - 1, Above(k, j) \in 0 .. count, ht[Above(k, j)] > j
      PROVE  Good(j)
  BY <1>2, <1>6, <1>7, RightIs
<1>8. ASSUME Bad # {} PROVE FALSE
  <2>1. Bad \in SUBSET (0 .. lv - 1)
    OBVIOUS
  <2>2. Max(Bad) \in Bad /\ \A j \in Bad : j <= Max(Bad)
    <3> HIDE DEF Bad
    <3> QED BY <1>1, <1>8, <2>1, MaxIsIn
  <2>3. PICK j \in 0 .. lv - 1 : ~Good(j) /\ \A x \in Bad : x <= j
    BY <2>2
  <2>4. CASE j = lv - 1
    <3>1. Above(k, j) = head /\ ht[head] > j /\ head \in 0 .. count
      BY <1>1, <2>4, LinearFacts DEF Above
    <3> QED BY <1>7, <2>3, <3>1
  <2>5. CASE j # lv - 1
    <3>1. j + 1 \in 0 .. lv - 1 /\ j \in Nat /\ ~(j + 1 <= j)
      BY <1>1, <2>5
    <3>2. j + 1 \notin Bad
      BY <2>3, <3>1
    <3>3. Good(j + 1)
      BY <3>1, <3>2
    <3>4. Update(k)[j + 1] \in 0 .. count /\ ht[Update(k)[j + 1]] > j + 1
      BY <3>3 DEF Stops
    <3>5. Above(k, j) = Update(k)[j + 1]
      BY <2>5 DEF Above
    <3>6. ht[Above(k, j)] > j
      <4>1. ht[Update(k)[j + 1]] \in Nat
        BY <3>4, LinearFacts
      <4> QED BY <3>1, <3>4, <3>5, <4>1
    <3> QED BY <1>7, <2>3, <3>4, <3>5, <3>6
  <2> QED BY <2>4, <2>5
<1> QED BY <1>2, <1>8

\* The node on level i after which a new one is linked.
Path(k, i) == IF i < lv THEN Update(k)[i] ELSE head

\* The search never goes back ...
LEMMA UpdateGoesOn ==
    ASSUME NEW pos, NEW ht, Linear(fwd, pos, ht, count), Used(ht), NEW k, NEW i \in 0 .. lv - 1
    PROVE  /\ Update(k)[i] \in 0 .. count /\ ht[Update(k)[i]] > i
           /\ pos[Update(k)[i]] <= pos[Update(k)[0]]
<1>1. lv \in Nat
  BY LinearFacts DEF Used
<1>2. \A j \in 0 .. lv - 1 : Update(k)[j] \in 0 .. count /\ ht[Update(k)[j]] > j
  BY UpdateIs DEF Stops
<1> DEFINE M == {j \in 0 .. lv - 1 : ~(pos[Update(k)[j]] <= pos[Update(k)[0]])}
<1>3. ASSUME M # {} PROVE FALSE
  <2>1. M \in SUBSET Nat
    BY <1>1
  <2>2. PICK j \in M : \A x \in M : j <= x
    <3> HIDE DEF M
    <3> QED BY <1>3, <2>1, LeastExists
  <2>3. j \in 0 .. lv - 1 /\ ~(pos[Update(k)[j]] <= pos[Update(k)[0]])
    OBVIOUS
  <2>4. j # 0
    <3>1. pos[Update(k)[j]] \in Nat
      BY <1>2, <2>3, LinearFacts
    <3>2. pos[Update(k)[j]] <= pos[Update(k)[j]]
      BY <3>1
    <3> QED BY <2>3, <3>2
  <2>5. j - 1 \in 0 .. lv - 1 /\ j - 1 # lv - 1 /\ (j - 1) + 1 = j /\ ~(j <= j - 1)
    BY <1>1, <2>3, <2>4
  <2>6. Above(k, j - 1) = Update(k)[j]
    BY <2>5 DEF Above
  <2>7. pos[Update(k)[j]] <= pos[Update(k)[j - 1]]
    BY <2>5, <2>6, UpdateIs DEF Stops
  <2>8. pos[Update(k)[j - 1]] <= pos[Update(k)[0]]
    BY <2>2, <2>5
  <2>9. 0 \in 0 .. lv - 1
    BY <1>1, <2>3
  <2>10. pos[Update(k)[j]] \in Nat /\ pos[Update(k)[j - 1]] \in Nat /\ pos[Update(k)[0]] \in Nat
    BY <1>2, <2>3, <2>5, <2>9, LinearFacts
  <2> QED BY <2>3, <2>7, <2>8, <2>10
<1> QED BY <1>2, <1>3

\* ... and below a level passes no node of that level.
LEMMA UpdatePassesNone ==
    ASSUME NEW pos, NEW ht, Linear(fwd, pos, ht, count), Used(ht), NEW k, NEW i \in 0 .. lv - 1,
           NEW z \in 1 .. count, ht[z] > i, pos[z] <= pos[Update(k)[0]]
    PROVE  pos[z] <= pos[Update(k)[i]]
<1>1. lv \in Nat /\ lv <= MaxLevel /\ MaxLevel \in Nat /\ 0 \in 0 .. lv - 1 /\ i \in Levels
      /\ i \in Nat
  BY LinearFacts DEF Used, Levels
<1>2. \A j \in 0 .. lv - 1 : Update(k)[j] \in 0 .. count /\ ht[Update(k)[j]] > j
  BY UpdateGoesOn
<1>3. /\ count \in Nat
      /\ \A x \in 0 .. count : pos[x] \in Nat /\ ht[x] \in Nat
  BY LinearFacts
<1>4. SUFFICES ASSUME pos[Update(k)[i]] < pos[z] PROVE FALSE
  BY <1>2, <1>3
<1> DEFINE y == Update(k)[i]
           v == fwd[y][i]
<1>5. y \in 0 .. count /\ ht[y] > i /\ v \notin Smaller(k)
  BY UpdateIs, <1>2 DEF Stops
<1>6. v # Nil
  <2>1. ~(pos[z] <= pos[y])
    BY <1>3, <1>4, <1>5
  <2> HIDE DEF y
  <2> QED BY <1>1, <1>5, <2>1, NextIs
<1>7. v \in 1 .. count /\ ht[v] > i /\ pos[y] < pos[v] /\ pos[v] <= pos[z]
  BY <1>1, <1>4, <1>5, <1>6, NextIs
<1> HIDE DEF v
<1> DEFINE J == {j \in 0 .. i : pos[Update(k)[j]] < pos[v]}
<1>8. J \in SUBSET Nat /\ i \in J
  BY <1>1, <1>7
<1>9. PICK j \in J : \A x \in J : j <= x
  <2> HIDE DEF J
  <2> QED BY <1>8, LeastExists
<1>10. j \in 0 .. i /\ j \in 0 .. lv - 1 /\ pos[Update(k)[j]] < pos[v]
  BY <1>1
<1>11. v \in 0 .. count /\ pos[v] \in Nat
  BY <1>3, <1>7
<1>12. j # 0
  <2>1. pos[v] <= pos[Update(k)[0]]
    BY <1>1, <1>2, <1>3, <1>7, <1>11
  <2> QED BY <1>1, <1>2, <1>3, <1>10, <1>11, <2>1
<1>13. j - 1 \in 0 .. lv - 1 /\ j - 1 # lv - 1 /\ (j - 1) + 1 = j /\ j - 1 \in 0 .. i
       /\ ~(j <= j - 1) /\ j - 1 \in Nat
  BY <1>1, <1>10, <1>12
<1>14. pos[v] <= pos[Update(k)[j - 1]]
  <2>1. j - 1 \notin J
    BY <1>9, <1>13
  <2> QED BY <1>2, <1>3, <1>11, <1>13, <2>1
<1>15. Above(k, j - 1) = Update(k)[j]
  BY <1>13 DEF Above
<1>16. ht[v] > j - 1
  BY <1>1, <1>3, <1>7, <1>11, <1>13
<1>17. v \in Smaller(k)
  BY <1>7, <1>10, <1>13, <1>14, <1>15, <1>16, UpdateIs DEF Stops
<1> QED BY <1>5, <1>17 DEF v

\* Nodes it stays at are the head or smaller.
LEMMA UpdateIsSmaller ==
    ASSUME NEW pos, NEW ht, Linear(fwd, pos, ht, count), Used(ht), NEW k, NEW i \in 0 .. lv - 1
    PROVE  Update(k)[i] = head \/ Update(k)[i] \in Smaller(k)
<1>1. lv \in Nat
  BY LinearFacts DEF Used
<1> DEFINE Bad == {j \in 0 .. lv - 1 : ~(Update(k)[j] = head \/ Update(k)[j] \in Smaller(k))}
<1>2. ASSUME Bad # {} PROVE FALSE
  <2>1. Bad \in SUBSET (0 .. lv - 1)
    OBVIOUS
  <2>2. Max(Bad) \in Bad /\ \A j \in Bad : j <= Max(Bad)
    <3> HIDE DEF Bad
    <3> QED BY <1>1, <1>2, <2>1, MaxIsIn
  <2>3. PICK j \in Bad : \A x \in Bad : x <= j
    BY <2>2
  <2>4. j \in 0 .. lv - 1 /\ ~(Update(k)[j] = head \/ Update(k)[j] \in Smaller(k))
    OBVIOUS
  <2>5. Above(k, j) = head \/ Above(k, j) \in Smaller(k)
    <3>1. j # lv - 1 => j + 1 \in 0 .. lv - 1 /\ ~(j + 1 <= j)
      BY <1>1, <2>4
    <3>2. j # lv - 1 => j + 1 \notin Bad
      BY <2>3, <3>1
    <3> QED BY <3>1, <3>2 DEF Above
  <2>6. /\ j \in Levels /\ Above(k, j) \in 0 .. count
        /\ Stops(fwd, pos, ht, count, j, Smaller(k), Above(k, j), Update(k)[j])
    BY <2>4, UpdateIs
  <2> DEFINE x == Update(k)[j]
             y == Above(k, j)
  <2>7. x \in 0 .. count /\ ht[x] > j /\ pos[y] <= pos[x]
        /\ \A z \in 1 .. count : ht[z] > j /\ pos[y] < pos[z] /\ pos[z] <= pos[x] => z \in Smaller(k)
    BY <2>6 DEF Stops
  <2>8. x = head \/ x \in 1 .. count
    <3>1. count \in Nat
      BY LinearFacts
    <3> HIDE DEF x
    <3> QED BY <2>7, <3>1 DEF head
  <2>9. pos[x] \in Nat /\ pos[y] \in Nat
    BY <2>6, <2>7, LinearFacts
  <2>10. CASE pos[y] = pos[x]
    <3>1. y = x
      BY <2>6, <2>7, <2>10 DEF Linear
    <3> QED BY <2>4, <2>5, <3>1
  <2>11. CASE pos[y] # pos[x]
    <3>1. pos[y] < pos[x] /\ pos[x] <= pos[x]
      BY <2>7, <2>9, <2>11
    <3> QED BY <2>4, <2>7, <2>8, <3>1
  <2> QED BY <2>10, <2>11
<1> QED BY <1>2

LEMMA PathIs ==
    ASSUME NEW pos, NEW ht, Linear(fwd, pos, ht, count), Used(ht), NEW k, NEW i \in Levels
    PROVE  /\ Path(k, i) \in 0 .. count /\ ht[Path(k, i)] > i
           /\ pos[Path(k, i)] <= pos[Path(k, 0)]
           /\ \A z \in 1 .. count :
                 ht[z] > i /\ pos[z] <= pos[Path(k, 0)] => pos[z] <= pos[Path(k, i)]
<1>1. lv \in Nat /\ lv <= MaxLevel /\ MaxLevel \in Nat /\ i \in Nat /\ i < MaxLevel
      /\ \A z \in Nodes : ht[z] <= lv
  BY LinearFacts DEF Used, Levels
<1>2. CASE i < lv
  <2>1. i \in 0 .. lv - 1 /\ 0 < lv
    BY <1>1, <1>2
  <2>2. Path(k, i) = Update(k)[i] /\ Path(k, 0) = Update(k)[0]
    BY <1>2, <2>1 DEF Path
  <2> QED BY <2>1, <2>2, UpdateGoesOn, UpdatePassesNone
<1>3. CASE ~(i < lv)
  <2>1. Path(k, i) = head
    BY <1>3 DEF Path
  <2>2. head \in 0 .. count /\ ht[head] = MaxLevel /\ pos[head] = 0
    BY LinearFacts
  <2>3. pos[Path(k, 0)] \in Nat
    <3>1. 0 \in 0 .. lv - 1 \/ ~(0 < lv)
      BY <1>1
    <3>2. Path(k, 0) \in 0 .. count
      BY <1>1, <2>2, <3>1, UpdateGoesOn DEF Path
    <3> QED BY <3>2, LinearFacts
  <2>4. \A z \in 1 .. count : ~(ht[z] > i)
    <3> TAKE z \in 1 .. count
    <3>1. z \in 0 .. count /\ count \in Nat
      <4>1. count \in Nat
        BY LinearFacts
      <4> QED BY <4>1
    <3>2. ht[z] \in Nat /\ ht[z] <= lv
      BY <1>1, <3>1, LinearFacts DEF Nodes
    <3> QED BY <1>1, <1>3, <3>2
  <2> QED BY <1>1, <2>1, <2>2, <2>3, <2>4
<1> QED BY <1>2, <1>3

LEMMA ReachedIs ==
    ASSUME NEW pos, NEW ht, Linear(fwd, pos, ht, count), Used(ht), NEW k
    PROVE  /\ 0 \in Levels
           /\ Path(k, 0) = head \/ Path(k, 0) \in Smaller(k)
           /\ Reached(k) = fwd[Path(k, 0)][0]
           /\ Reached(k) \notin Smaller(k)
<1>1. lv \in Nat /\ lv <= MaxLevel /\ MaxLevel \in Nat /\ MaxLevel # 0 /\ 0 \in Levels
      /\ \A z \in Nodes : ht[z] <= lv
  BY LinearFacts, ListAssumption DEF Used, Levels, ListAssumption
<1>2. CASE lv > 0
  <2>1. 0 \in 0 .. lv - 1 /\ 0 < lv /\ lv # 0
    BY <1>1, <1>2
  <2>2. Path(k, 0) = Update(k)[0]
    BY <2>1 DEF Path
  <2>3. Update(k)[0] = head \/ Update(k)[0] \in Smaller(k)
    BY <2>1, UpdateIsSmaller
  <2>4. fwd[Update(k)[0]][0] \notin Smaller(k)
    BY <2>1, UpdateIs DEF Stops
  <2> QED BY <1>1, <2>1, <2>2, <2>3, <2>4 DEF Reached
<1>3. CASE lv = 0
  <2>1. Path(k, 0) = head /\ Reached(k) = fwd[head][0]
    BY <1>3 DEF Path, Reached
  <2>2. \A z \in Nodes : FALSE
    <3> TAKE z \in Nodes
    <3>1. count \in Nat
      BY LinearFacts
    <3>2. z \in 0 .. count
      BY <3>1 DEF Nodes
    <3>3. ht[z] >= 1 /\ ht[z] \in Nat /\ ht[z] <= lv
      BY <1>1, <3>2, LinearFacts
    <3> QED BY <1>3, <3>3
  <2> QED BY <1>1, <2>1, <2>2 DEF Smaller
<1> QED BY <1>1, <1>2, <1>3

-----------------------------------------------------------------------------
(* A new node *)

\* The order and the heights with a new node of height h after the node at p.
PosWith(pos, n, p) ==
    [z \in 0 .. n + 1 |-> IF z = n + 1 THEN p + 1 ELSE IF pos[z] > p THEN pos[z] + 1 ELSE pos[z]]
HtWith(ht, n, h) == [z \in 0 .. n + 1 |-> IF z = n + 1 THEN h ELSE ht[z]]

LEMMA PosWithIs ==
    ASSUME NEW f, NEW pos, NEW ht, NEW n, Linear(f, pos, ht, n), NEW p \in 0 .. n
    PROVE  /\ PosWith(pos, n, p) \in [0 .. n + 1 -> 0 .. n + 1]
           /\ PosWith(pos, n, p)[head] = 0 /\ PosWith(pos, n, p)[n + 1] = p + 1
           /\ \A x, y \in 0 .. n :
                 PosWith(pos, n, p)[x] < PosWith(pos, n, p)[y] <=> pos[x] < pos[y]
           /\ \A x \in 0 .. n :
                 /\ PosWith(pos, n, p)[x] \in 0 .. n + 1
                 /\ pos[x] <= p => PosWith(pos, n, p)[x] < p + 1
                 /\ pos[x] > p => PosWith(pos, n, p)[x] > p + 1
<1> DEFINE q == PosWith(pos, n, p)
<1>1. n \in Nat /\ p \in Nat /\ p <= n /\ \A x \in 0 .. n : pos[x] \in Nat /\ pos[x] <= n
  <2>1. n \in Nat /\ \A x \in 0 .. n : pos[x] \in Nat /\ pos[x] <= n
    BY LinearFacts
  <2> QED BY <2>1
<1>2. \A x \in 0 .. n : x \in 0 .. n + 1 /\ x # n + 1
  BY <1>1
<1>3. \A x \in 0 .. n : q[x] = IF pos[x] > p THEN pos[x] + 1 ELSE pos[x]
  BY <1>2 DEF PosWith
<1>4. q[n + 1] = p + 1 /\ n + 1 \in 0 .. n + 1
  BY <1>1 DEF PosWith
<1>5. ASSUME NEW x \in 0 .. n
      PROVE  /\ q[x] \in 0 .. n + 1
             /\ pos[x] <= p => q[x] < p + 1
             /\ pos[x] > p => q[x] > p + 1
  <2>1. pos[x] \in Nat /\ pos[x] <= n /\ q[x] = IF pos[x] > p THEN pos[x] + 1 ELSE pos[x]
    BY <1>1, <1>3
  <2> HIDE DEF q
  <2> QED BY <1>1, <2>1
<1>6. ASSUME NEW x \in 0 .. n, NEW y \in 0 .. n PROVE q[x] < q[y] <=> pos[x] < pos[y]
  <2>1. pos[x] \in Nat /\ q[x] = IF pos[x] > p THEN pos[x] + 1 ELSE pos[x]
    BY <1>1, <1>3
  <2>2. pos[y] \in Nat /\ q[y] = IF pos[y] > p THEN pos[y] + 1 ELSE pos[y]
    BY <1>1, <1>3
  <2> HIDE DEF q
  <2> QED BY <1>1, <2>1, <2>2
<1>7. q[head] = 0
  <2>1. head \in 0 .. n /\ pos[head] = 0
    BY LinearFacts
  <2>2. ~(pos[head] > p)
    BY <1>1, <2>1
  <2> HIDE DEF q
  <2> QED BY <1>3, <2>1, <2>2
<1>8. q \in [0 .. n + 1 -> 0 .. n + 1]
  <2>1. \A z \in 0 .. n + 1 : z \in 0 .. n \/ z = n + 1
    BY <1>1
  <2>2. p + 1 \in 0 .. n + 1
    BY <1>1
  <2>3. \A z \in 0 .. n + 1 : q[z] \in 0 .. n + 1
    <3> HIDE DEF q
    <3> QED BY <1>4, <1>5, <2>1, <2>2
  <2>4. q = [z \in 0 .. n + 1 |-> q[z]]
    BY DEF PosWith
  <2> HIDE DEF q
  <2> QED BY <2>3, <2>4
<1> QED BY <1>4, <1>5, <1>6, <1>7, <1>8

LEMMA LinkIs ==
    ASSUME NEW f, NEW pos, NEW ht, NEW n, Linear(f, pos, ht, n), NEW h \in Heights,
           NEW p \in 0 .. n, NEW at,
           \A i \in Levels : /\ at[i] \in 0 .. n /\ ht[at[i]] > i /\ pos[at[i]] <= p
                             /\ \A z \in 1 .. n : ht[z] > i /\ pos[z] <= p => pos[z] <= pos[at[i]],
           \A i \in Levels : f[n + 1][i] = Nil,
           NEW g,
           \A y \in 0 .. n + 1, i \in Levels :
              g[y][i] = IF i >= h THEN f[y][i]
                        ELSE IF y = n + 1 THEN f[at[i]][i]
                        ELSE IF y = at[i] THEN n + 1
                        ELSE f[y][i]
    PROVE  Linear(g, PosWith(pos, n, p), HtWith(ht, n, h), n + 1)
<1> DEFINE q == PosWith(pos, n, p)
           t == HtWith(ht, n, h)
           On(x, i) == {z \in 1 .. n + 1 : t[z] > i /\ q[z] > q[x]}
           Off(x, i) == {z \in 1 .. n : ht[z] > i /\ pos[z] > pos[x]}
<1>1. /\ n \in Nat /\ p \in Nat /\ p <= n /\ MaxLevel \in Nat /\ h \in Nat /\ h >= 1 /\ h <= MaxLevel
      /\ \A x \in 0 .. n : pos[x] \in Nat /\ pos[x] <= n /\ ht[x] \in Nat /\ ht[x] >= 1
                           /\ ht[x] <= MaxLevel
      /\ \A i \in Levels : i \in Nat /\ i < MaxLevel
  <2>1. /\ n \in Nat /\ MaxLevel \in Nat
        /\ \A x \in 0 .. n : pos[x] \in Nat /\ pos[x] <= n /\ ht[x] \in Nat /\ ht[x] >= 1
                             /\ ht[x] <= MaxLevel
        /\ \A i \in Levels : i \in Nat /\ i < MaxLevel
    BY LinearFacts
  <2> QED BY <2>1 DEF Heights
<1>2. /\ q \in [0 .. n + 1 -> 0 .. n + 1] /\ q[head] = 0 /\ q[n + 1] = p + 1
      /\ \A x, y \in 0 .. n : q[x] < q[y] <=> pos[x] < pos[y]
      /\ \A x \in 0 .. n : /\ q[x] \in 0 .. n + 1
                           /\ pos[x] <= p => q[x] < p + 1
                           /\ pos[x] > p => q[x] > p + 1
  BY PosWithIs
<1>3. t \in [0 .. n + 1 -> 1 .. MaxLevel] /\ t[n + 1] = h /\ \A x \in 0 .. n : t[x] = ht[x]
  <2>1. \A z \in 0 .. n + 1 : z \in 0 .. n \/ z = n + 1
    BY <1>1
  <2>2. \A x \in 0 .. n : x \in 0 .. n + 1 /\ x # n + 1
    BY <1>1
  <2>3. n + 1 \in 0 .. n + 1 /\ h \in 1 .. MaxLevel
    BY <1>1
  <2>4. \A x \in 0 .. n : ht[x] \in 1 .. MaxLevel
    BY <1>1
  <2> QED BY <2>1, <2>2, <2>3, <2>4 DEF HtWith
<1> HIDE DEF q, t
<1>4. \A x \in 0 .. n + 1 : x \in 0 .. n \/ x = n + 1
  BY <1>1
<1>5. \A x \in 1 .. n + 1 : x \in 1 .. n \/ x = n + 1
  BY <1>1
<1>6. \A x \in 1 .. n : x \in 0 .. n /\ x \in 1 .. n + 1 /\ x # n + 1
  BY <1>1
<1>7. \A x \in 0 .. n : x \in 0 .. n + 1 /\ x # n + 1 /\ q[x] \in Nat
  BY SMTT(60), <1>1, <1>2
<1>8. ASSUME NEW x \in 0 .. n + 1, NEW y \in 0 .. n + 1, q[x] = q[y] PROVE x = y
  <2>1. CASE x \in 0 .. n /\ y \in 0 .. n
    <3>1. ~(q[x] < q[y]) /\ ~(q[y] < q[x])
      BY <1>7, <1>8, <2>1
    <3>2. ~(pos[x] < pos[y]) /\ ~(pos[y] < pos[x])
      BY <1>2, <2>1, <3>1
    <3>3. pos[x] = pos[y]
      BY <1>1, <2>1, <3>2
    <3> QED BY <2>1, <3>3 DEF Linear
  <2>2. \A z \in 0 .. n : q[z] # p + 1
    <3> TAKE z \in 0 .. n
    <3>1. q[z] \in Nat
      BY <1>7
    <3>2. pos[z] <= p \/ pos[z] > p
      BY <1>1
    <3>3. q[z] < p + 1 \/ q[z] > p + 1
      BY <1>2, <3>2
    <3> QED BY <1>1, <3>1, <3>3
  <2> QED BY <1>2, <1>4, <1>8, <2>1, <2>2
<1>9. head \in 0 .. n /\ t[head] = MaxLevel
  BY <1>3, LinearFacts
<1>10. ASSUME NEW x \in 0 .. n + 1, NEW i \in Levels
       PROVE  /\ t[x] <= i => g[x][i] = Nil
              /\ t[x] > i =>
                    \/ g[x][i] = Nil /\ On(x, i) = {}
                    \/ g[x][i] \in On(x, i) /\ \A z \in On(x, i) : q[g[x][i]] <= q[z]
  <2> DEFINE Fine(y) == \/ y = Nil /\ On(x, i) = {}
                        \/ y \in On(x, i) /\ \A z \in On(x, i) : q[y] <= q[z]
  <2>0. i \in Nat /\ n + 1 \in Nat
    BY <1>1
  \* What a node of the old list that leads to z leads to in the new one.
  <2>1. ASSUME NEW y \in 0 .. n, ht[y] > i, On(x, i) = Off(y, i) PROVE Fine(f[y][i])
    <3>1. \/ f[y][i] = Nil /\ Off(y, i) = {}
          \/ /\ f[y][i] \in Off(y, i)
             /\ \A z \in Off(y, i) : pos[f[y][i]] <= pos[z]
      BY <2>1 DEF Linear, Onward
    <3>2. ASSUME f[y][i] \in Off(y, i), NEW z \in Off(y, i), pos[f[y][i]] <= pos[z]
          PROVE  q[f[y][i]] <= q[z]
      <4>1. f[y][i] \in 0 .. n /\ z \in 0 .. n
        BY <1>6, <3>2
      <4>2. ~(pos[z] < pos[f[y][i]])
        BY <1>1, <3>2, <4>1
      <4>3. ~(q[z] < q[f[y][i]])
        BY <1>2, <4>1, <4>2
      <4> QED BY <1>7, <4>1, <4>3
    <3> HIDE DEF Off, On
    <3> QED BY <2>1, <3>1, <3>2
  <2>2. ASSUME NEW z \in 1 .. n PROVE z \in Off(x, i) <=> ht[z] > i /\ pos[z] > pos[x]
    OBVIOUS
  <2>3. ASSUME NEW z \in 1 .. n, x \in 0 .. n PROVE z \in On(x, i) <=> z \in Off(x, i)
    <3>1. z \in 0 .. n /\ t[z] = ht[z] /\ z \in 1 .. n + 1
      BY <1>3, <1>6
    <3>2. q[z] > q[x] <=> pos[z] > pos[x]
      <4>1. q[x] < q[z] <=> pos[x] < pos[z]
        BY <1>2, <2>3, <3>1
      <4>2. q[x] \in Nat /\ q[z] \in Nat /\ pos[x] \in Nat /\ pos[z] \in Nat
        BY <1>1, <1>7, <2>3, <3>1
      <4> QED BY <4>1, <4>2
    <3> QED BY <3>1, <3>2
  <2>4. n + 1 \in On(x, i) <=> h > i /\ p + 1 > q[x]
    <3>1. n + 1 \in 1 .. n + 1
      BY <1>1
    <3> QED BY <1>2, <1>3, <3>1
  <2>5. \A z \in On(x, i) : z \in 1 .. n \/ z = n + 1
    BY <1>5
  <2>6. \A z \in Off(x, i) : z \in 1 .. n
    OBVIOUS
  <2>7. g[x][i] = IF i >= h THEN f[x][i]
                  ELSE IF x = n + 1 THEN f[at[i]][i]
                  ELSE IF x = at[i] THEN n + 1
                  ELSE f[x][i]
    OBVIOUS
  <2>8. /\ at[i] \in 0 .. n /\ ht[at[i]] > i /\ pos[at[i]] <= p
        /\ \A z \in 1 .. n : ht[z] > i /\ pos[z] <= p => pos[z] <= pos[at[i]]
    OBVIOUS
  <2>9. CASE i >= h
    <3>1. g[x][i] = f[x][i] /\ ~(h > i)
      BY <1>1, <2>7, <2>9
    <3>2. CASE x = n + 1
      BY <1>1, <1>3, <2>0, <2>9, <3>1, <3>2
    <3>3. CASE x \in 0 .. n
      <4>1. n + 1 \notin On(x, i)
        BY <2>4, <3>1
      <4>2. On(x, i) = Off(x, i)
        <5> HIDE DEF On, Off
        <5> QED BY SMTT(60), <2>3, <2>5, <2>6, <3>3, <4>1
      <4>3. ht[x] > i => Fine(f[x][i])
        <5> HIDE DEF Fine
        <5> QED BY <2>1, <3>3, <4>2
      <4>4. ht[x] <= i => f[x][i] = Nil
        BY <3>3 DEF Linear
      <4> QED BY <1>3, <3>1, <3>3, <4>3, <4>4
    <3> QED BY <1>4, <3>2, <3>3
  <2>10. CASE ~(i >= h)
    <3>0. h > i
      BY <1>1, <2>0, <2>10
    <3>1. CASE x = n + 1
      <4>1. g[x][i] = f[at[i]][i] /\ t[x] = h
        BY <1>3, <2>7, <2>10, <3>1
      <4>2. ASSUME NEW z \in 1 .. n PROVE z \in On(x, i) <=> z \in Off(at[i], i)
        <5>1. z \in 0 .. n /\ t[z] = ht[z] /\ z \in 1 .. n + 1 /\ pos[z] \in Nat /\ q[z] \in Nat
          BY <1>1, <1>3, <1>6, <1>7
        <5>2. q[z] > p + 1 <=> pos[z] > p
          <6>1. /\ pos[z] <= p => q[z] < p + 1
                /\ pos[z] > p => q[z] > p + 1
            BY <1>2, <5>1
          <6> QED BY <1>1, <5>1, <6>1
        <5>3. pos[at[i]] \in Nat
          BY <1>1, <2>8
        <5>4. ht[z] > i => (pos[z] > p <=> pos[z] > pos[at[i]])
          BY <1>1, <2>8, <5>1, <5>3
        <5>5. q[x] = p + 1
          BY <1>2, <3>1
        <5> QED BY <5>1, <5>2, <5>4, <5>5
      <4>3. n + 1 \notin On(x, i)
        BY <1>1, <1>2, <2>4, <3>1
      <4>4. \A z \in Off(at[i], i) : z \in 1 .. n
        OBVIOUS
      <4>5. On(x, i) = Off(at[i], i)
        <5> HIDE DEF On, Off
        <5> QED BY <2>5, <4>2, <4>3, <4>4
      <4>6. Fine(f[at[i]][i])
        <5> HIDE DEF Fine, On, Off
        <5> QED BY <2>1, <2>8, <4>5
      <4> QED BY <1>1, <2>0, <3>0, <4>1, <4>6
    <3>2. CASE x \in 0 .. n /\ x = at[i]
      <4>1. g[x][i] = n + 1 /\ t[x] = ht[x] /\ ht[x] > i
        BY <1>3, <1>7, <2>7, <2>8, <2>10, <3>2
      <4>2. q[x] < p + 1 /\ q[x] \in Nat
        BY <1>2, <1>7, <2>8, <3>2
      <4>3. n + 1 \in On(x, i)
        BY <1>1, <2>4, <3>0, <4>2
      <4>4. ASSUME NEW z \in On(x, i) PROVE q[n + 1] <= q[z]
        <5>1. CASE z = n + 1
          BY <1>1, <1>2, <5>1
        <5>2. CASE z \in 1 .. n
          <6>1. z \in Off(x, i) /\ z \in 0 .. n
            BY <1>6, <2>3, <3>2, <4>4, <5>2
          <6>2. ht[z] > i /\ pos[z] > pos[x]
            BY <2>2, <5>2, <6>1
          <6>3. pos[z] > p
            BY <1>1, <2>8, <3>2, <5>2, <6>1, <6>2
          <6>4. q[z] > p + 1 /\ q[z] \in Nat
            BY <1>2, <1>7, <6>1, <6>3
          <6> QED BY <1>1, <1>2, <6>4
        <5> QED BY <2>5, <4>4, <5>1, <5>2
      <4>5. ~(ht[x] <= i)
        BY <1>1, <2>0, <3>2, <4>1
      <4> HIDE DEF On
      <4> QED BY <4>1, <4>3, <4>4, <4>5
    <3>3. CASE x \in 0 .. n /\ x # at[i]
      <4>1. g[x][i] = f[x][i] /\ t[x] = ht[x]
        BY <1>3, <1>7, <2>7, <2>10, <3>3
      <4>2. ht[x] <= i => f[x][i] = Nil
        BY <3>3 DEF Linear
      <4>3. ASSUME ht[x] > i PROVE Fine(f[x][i])
        <5>1. pos[x] # pos[at[i]] /\ pos[x] \in Nat /\ pos[at[i]] \in Nat
          BY <1>1, <2>8, <3>3 DEF Linear
        <5>2. CASE pos[x] > pos[at[i]]
          <6>1. x \in 1 .. n
            <7>1. x # head
              BY <1>1, <5>1, <5>2, LinearFacts
            <7> QED BY <1>1, <3>3, <7>1 DEF head
          <6>2. pos[x] > p
            BY <1>1, <2>8, <4>3, <5>1, <5>2, <6>1
          <6>3. q[x] > p + 1 /\ q[x] \in Nat
            BY <1>2, <1>7, <3>3, <6>2
          <6>4. n + 1 \notin On(x, i)
            BY <1>1, <2>4, <6>3
          <6>5. On(x, i) = Off(x, i)
            <7> HIDE DEF On, Off
            <7> QED BY <2>3, <2>5, <2>6, <3>3, <6>4
          <6> HIDE DEF Fine, On, Off
          <6> QED BY <2>1, <3>3, <4>3, <6>5
        <5>3. CASE pos[x] < pos[at[i]]
          <6>1. at[i] \in 1 .. n
            <7>1. at[i] # head
              BY <1>1, <2>8, <5>1, <5>3, LinearFacts
            <7> QED BY <1>1, <2>8, <7>1 DEF head
          <6>2. at[i] \in Off(x, i)
            BY <1>1, <2>2, <2>8, <5>1, <5>3, <6>1
          <6>3. /\ f[x][i] \in Off(x, i)
                /\ \A z \in Off(x, i) : pos[f[x][i]] <= pos[z]
            BY <3>3, <4>3, <6>2 DEF Linear, Onward
          <6> DEFINE v == f[x][i]
          <6>4. v \in 1 .. n /\ v \in 0 .. n /\ pos[v] <= pos[at[i]]
            BY <1>6, <6>2, <6>3
          <6>5. v \in On(x, i)
            BY <2>3, <3>3, <6>3, <6>4
          <6> HIDE DEF v
          <6>6. pos[v] <= p /\ q[v] < p + 1 /\ q[v] \in Nat
            <7>1. pos[v] \in Nat /\ pos[at[i]] \in Nat /\ q[v] \in Nat
              BY <1>1, <1>7, <2>8, <6>4
            <7>2. pos[v] <= p
              BY <1>1, <2>8, <6>4, <7>1
            <7>3. q[v] < p + 1
              BY <1>2, <6>4, <7>2
            <7> QED BY <7>1, <7>2, <7>3
          <6>7. ASSUME NEW z \in On(x, i) PROVE q[v] <= q[z]
            <7>1. CASE z = n + 1
              BY SMTT(60), <1>1, <1>2, <6>6, <7>1
            <7>2. CASE z \in 1 .. n
              <8>1. z \in Off(x, i) /\ z \in 0 .. n
                BY <1>6, <2>3, <3>3, <6>7, <7>2
              <8>2. ~(pos[z] < pos[v])
                <9>1. pos[v] <= pos[z]
                  BY <6>3, <8>1 DEF v
                <9> QED BY <1>1, <6>4, <8>1, <9>1
              <8>3. ~(q[z] < q[v])
                BY <1>2, <6>4, <8>1, <8>2
              <8> QED BY <1>7, <6>6, <8>1, <8>3
            <7> QED BY <2>5, <6>7, <7>1, <7>2
          <6> HIDE DEF On
          <6> QED BY <6>5, <6>7 DEF v
        <5> QED BY <5>1, <5>2, <5>3
      <4> QED BY <4>1, <4>2, <4>3
    <3> QED BY <1>4, <3>1, <3>2, <3>3
  <2> QED BY <2>9, <2>10
<1>11. Linear(g, q, t, n + 1)
  <2>1. n + 1 \in Nat
    BY <1>1
  <2>2. \A x \in 0 .. n + 1, i \in Levels : Onward(q, t, n + 1, x, i) = On(x, i)
    BY DEF Onward
  <2> HIDE DEF On
  <2>3. q \in [0 .. n + 1 -> 0 .. n + 1] /\ q[head] = 0
    BY <1>2
  <2>4. t \in [0 .. n + 1 -> 1 .. MaxLevel] /\ t[head] = MaxLevel
    BY <1>3, <1>9
  <2>5. \A x \in 0 .. n + 1, i \in Levels :
           /\ t[x] <= i => g[x][i] = Nil
           /\ t[x] > i =>
                 \/ g[x][i] = Nil /\ Onward(q, t, n + 1, x, i) = {}
                 \/ /\ g[x][i] \in Onward(q, t, n + 1, x, i)
                    /\ \A z \in Onward(q, t, n + 1, x, i) : q[g[x][i]] <= q[z]
    BY <1>10, <2>2
  <2> QED BY <1>8, <2>1, <2>3, <2>4, <2>5 DEF Linear
<1> QED BY <1>11 DEF q, t

-----------------------------------------------------------------------------
(* Settled keys among the others *)

\* Whatever k may be is before, or after, the value of the settled key s.
Low(k, s) == \A c \in May[k], v \in May[s] : <<c, v>> \in Less
High(k, s) == \A c \in May[k], v \in May[s] : <<v, c>> \in Less

Typed == \A k \in Key : now[k] \in May[k]
LessNow(a, b) == <<now[a], now[b]>> \in Less
SameNow(a, b) == <<now[a], now[b]>> \in Same

LEMMA SideIs ==
    ASSUME NEW s \in Settled, NEW k \in Key, Typed
    PROVE  /\ LessNow(k, s) <=> Low(k, s)
           /\ LessNow(s, k) <=> High(k, s)
           /\ k # s => (Low(k, s) <=> ~High(k, s)) /\ ~SameNow(k, s) /\ ~SameNow(s, k)
           /\ k = s => ~Low(k, s) /\ ~High(k, s) /\ SameNow(k, s)
<1>1. PICK v \in May[s] :
        /\ May[s] = {v} /\ <<v, v>> \in Same \ Less
        /\ \A c, d \in May[k] : k # s =>
              /\ <<c, v>> \in Less <=> <<v, d>> \notin Less
              /\ <<c, v>> \notin Same /\ <<v, c>> \notin Same
  BY OrderAssumption
<1>2. s \in Key
  BY ListAssumption DEF ListAssumption
<1>3. now[s] = v /\ now[k] \in May[k]
  BY <1>1, <1>2 DEF Typed
<1>4. CASE k = s
  BY <1>1, <1>3, <1>4 DEF LessNow, SameNow, Low, High
<1>5. CASE k # s
  <2>1. \A c, d \in May[k] : <<c, v>> \in Less <=> <<d, v>> \in Less
    BY <1>1, <1>5
  <2>2. \A c, d \in May[k] : <<v, c>> \in Less <=> <<v, d>> \in Less
    BY <1>1, <1>5
  <2>3. Low(k, s) <=> <<now[k], v>> \in Less
    BY <1>1, <1>3, <2>1 DEF Low
  <2>4. High(k, s) <=> <<v, now[k]>> \in Less
    BY <1>1, <1>3, <2>2 DEF High
  <2>5. <<now[k], v>> \in Less <=> <<v, now[k]>> \notin Less
    BY <1>1, <1>3, <1>5
  <2>6. <<now[k], v>> \notin Same /\ <<v, now[k]>> \notin Same
    BY <1>1, <1>3, <1>5
  <2> QED BY <1>3, <1>5, <2>3, <2>4, <2>5, <2>6 DEF LessNow, SameNow
<1> QED BY <1>4, <1>5

\* What is known of two values that `compare' or `equals' has compared.
LEMMA SidePasses ==
    ASSUME NEW s \in Settled, NEW a \in Key, NEW b \in Key, Typed
    PROVE  /\ LessNow(a, b) => (Low(b, s) => Low(a, s)) /\ (High(a, s) => High(b, s))
           /\ ~LessNow(a, b) => (Low(a, s) => Low(b, s)) /\ (High(b, s) => High(a, s))
           /\ SameNow(a, b) => (Low(a, s) <=> Low(b, s)) /\ (High(a, s) <=> High(b, s))
<1>1. PICK v \in May[s] :
        /\ May[s] = {v}
        /\ \A c, d \in Content :
              /\ {<<c, d>>, <<d, v>>} \subseteq Less => <<c, v>> \in Less
              /\ {<<c, v>>, <<v, d>>} \subseteq Less => <<c, d>> \in Less
              /\ {<<v, c>>, <<c, d>>} \subseteq Less => <<v, d>> \in Less
              /\ <<c, d>> \in Same => (<<c, v>> \in Less <=> <<d, v>> \in Less)
  BY OrderAssumption
<1>2. s \in Key
  BY ListAssumption DEF ListAssumption
<1>3. now[s] = v /\ now[a] \in Content /\ now[b] \in Content
  BY <1>1, <1>2 DEF Typed, Content
<1>4. /\ LessNow(a, b) /\ LessNow(b, s) => LessNow(a, s)
      /\ LessNow(a, s) /\ LessNow(s, b) => LessNow(a, b)
      /\ LessNow(s, a) /\ LessNow(a, b) => LessNow(s, b)
      /\ SameNow(a, b) => (LessNow(a, s) <=> LessNow(b, s))
  BY <1>1, <1>3 DEF LessNow, SameNow
<1>5. /\ LessNow(a, s) <=> Low(a, s)
      /\ LessNow(s, a) <=> High(a, s)
      /\ a # s => (Low(a, s) <=> ~High(a, s)) /\ ~SameNow(a, s) /\ ~SameNow(s, a)
      /\ a = s => ~Low(a, s) /\ ~High(a, s)
  BY SideIs
<1>6. /\ LessNow(b, s) <=> Low(b, s)
      /\ LessNow(s, b) <=> High(b, s)
      /\ b # s => (Low(b, s) <=> ~High(b, s)) /\ ~SameNow(b, s) /\ ~SameNow(s, b)
      /\ b = s => ~Low(b, s) /\ ~High(b, s)
  BY SideIs
<1>7. LessNow(a, b) => (Low(b, s) => Low(a, s)) /\ (High(a, s) => High(b, s))
  BY <1>4, <1>5, <1>6
<1>8. ~LessNow(a, b) => (Low(a, s) => Low(b, s)) /\ (High(b, s) => High(a, s))
  <2>1. CASE a = s
    BY <1>5, <1>6, <2>1
  <2>2. CASE b = s
    BY <1>5, <1>6, <2>2
  <2>3. CASE a # s /\ b # s
    BY <1>4, <1>5, <1>6, <2>3
  <2> QED BY <2>1, <2>2, <2>3
<1>9. SameNow(a, b) => (Low(a, s) <=> Low(b, s)) /\ (High(a, s) <=> High(b, s))
  <2>1. CASE a = s /\ b = s
    BY <2>1
  <2>2. CASE a = s /\ b # s
    BY <1>6, <2>2
  <2>3. CASE a # s /\ b = s
    BY <1>5, <2>3
  <2>4. CASE a # s /\ b # s
    BY <1>4, <1>5, <1>6, <2>4
  <2> QED BY <2>1, <2>2, <2>3, <2>4
<1> QED BY <1>7, <1>8, <1>9

-----------------------------------------------------------------------------
(* The inductive invariant *)

\* The nodes are in order as far as settled keys go, whatever the others have become.
InOrder(pos) ==
    \A x, y \in Nodes, s \in Settled : pos[x] < pos[y] =>
       /\ High(key[x], s) => High(key[y], s)
       /\ Low(key[y], s) => Low(key[x], s)

\* A loop has met the nodes before its iterator, as far as they are not new.
Midway(pos) ==
    Looping => /\ \A z \in seen : iter = Nil \/ pos[z] < pos[iter]
               /\ \A z \in 1 .. old : z \in seen \/ (iter # Nil /\ pos[iter] <= pos[z])

Shape(pos, ht) == Linear(fwd, pos, ht, count) /\ Used(ht) /\ InOrder(pos) /\ Midway(pos)

Filled == \A x \in Nodes : key[x] \in Key /\ val[x] \in Val
Unused == \A x \in 0 .. MaxNodes, i \in Levels : x > count => fwd[x][i] = Nil
Once == \A x, y \in Nodes : key[x] = key[y] /\ key[x] \in Settled => x = y

SInv == TypeOK /\ Filled /\ Unused /\ Once /\ \E pos, ht : Shape(pos, ht)

\* The node the search reaches is the first that is not smaller.
LEMMA ReachedNext ==
    ASSUME NEW pos, NEW ht, Linear(fwd, pos, ht, count), Used(ht), NEW k
    PROVE  /\ Path(k, 0) \in 0 .. count
           /\ Reached(k) = Nil \/ (Reached(k) \in Nodes /\ ~Before(Reached(k), k))
           /\ \A z \in Nodes : pos[Path(k, 0)] < pos[z] =>
                 /\ Reached(k) # Nil /\ pos[Reached(k)] <= pos[z]
           /\ \A z \in Nodes : pos[z] <= pos[Path(k, 0)] =>
                 Path(k, 0) \in Nodes /\ Before(Path(k, 0), k)
<1>1. 0 \in Levels /\ Reached(k) = fwd[Path(k, 0)][0] /\ Reached(k) \notin Smaller(k)
      /\ (Path(k, 0) = head \/ Path(k, 0) \in Smaller(k))
  BY ReachedIs
<1>2. Path(k, 0) \in 0 .. count /\ ht[Path(k, 0)] > 0
  BY <1>1, PathIs
<1>3. /\ count \in Nat /\ pos[head] = 0
      /\ \A z \in 0 .. count : pos[z] \in Nat /\ ht[z] \in Nat /\ ht[z] >= 1
                               /\ (z # head <=> pos[z] > 0)
  BY LinearFacts
<1>4. \A z \in Nodes : z \in 1 .. count /\ z \in 0 .. count /\ z # head
  BY <1>3 DEF Nodes, head
<1>5. Reached(k) = Nil \/ (Reached(k) \in Nodes /\ ~Before(Reached(k), k))
  <2>1. Reached(k) # Nil => Reached(k) \in Nodes
    BY <1>1, <1>2, NextIs DEF Nodes
  <2> QED BY <1>1, <2>1 DEF Smaller
<1>6. ASSUME NEW z \in Nodes, pos[Path(k, 0)] < pos[z]
      PROVE  Reached(k) # Nil /\ pos[Reached(k)] <= pos[z]
  <2>1. z \in 1 .. count /\ ht[z] > 0 /\ pos[z] \in Nat /\ pos[Path(k, 0)] \in Nat
    BY <1>2, <1>3, <1>4
  <2>2. ~(pos[z] <= pos[Path(k, 0)])
    BY <1>6, <2>1
  <2>3. Reached(k) # Nil
    BY <1>1, <1>2, <2>1, <2>2, NextIs
  <2> QED BY <1>1, <1>2, <1>6, <2>1, <2>3, NextIs
<1>7. ASSUME NEW z \in Nodes, pos[z] <= pos[Path(k, 0)]
      PROVE  Path(k, 0) \in Nodes /\ Before(Path(k, 0), k)
  <2>1. pos[z] > 0 /\ pos[z] \in Nat
    BY <1>3, <1>4
  <2>2. Path(k, 0) # head
    BY <1>3, <1>7, <2>1
  <2> QED BY <1>1, <2>2 DEF Smaller
<1> QED BY <1>2, <1>5, <1>6, <1>7

\* A settled key is found where it is, and nowhere else.
LEMMA HitIs ==
    ASSUME SInv, NEW s \in Settled
    PROVE  /\ Hit(s) => Reached(s) \in Nodes /\ key[Reached(s)] = s
           /\ \A z \in Nodes : key[z] = s => Hit(s) /\ Reached(s) = z
<1>1. PICK pos, ht : Shape(pos, ht)
  BY DEF SInv
<1>2. Linear(fwd, pos, ht, count) /\ Used(ht) /\ InOrder(pos)
  BY <1>1 DEF Shape
<1>3. Typed /\ \A x \in Nodes : key[x] \in Key
  BY DEF SInv, TypeOK, Typed, Filled
<1> DEFINE r == Reached(s)
           w == Path(s, 0)
<1>4. r = Nil \/ (r \in Nodes /\ ~Before(r, s))
  BY <1>2, ReachedNext
<1>5. \A x \in Nodes : Before(x, s) <=> Low(key[x], s)
  BY <1>3, SideIs DEF Before, LessNow
<1>6. s \in Key
  BY ListAssumption DEF ListAssumption
<1>7. Hit(s) => r \in Nodes /\ key[r] = s
  <2> SUFFICES ASSUME Hit(s) PROVE r \in Nodes /\ key[r] = s
    OBVIOUS
  <2>1. r \in Nodes /\ SameNow(key[r], s)
    BY <1>4 DEF Hit, SameNow
  <2> HIDE DEF r
  <2> QED BY <1>3, <2>1, SideIs
<1>8. ASSUME NEW z \in Nodes, key[z] = s PROVE Hit(s) /\ r = z
  <2>1. ~Low(key[z], s) /\ ~High(key[z], s) /\ SameNow(key[z], s)
    BY <1>3, <1>6, <1>8, SideIs
  <2>2. w \in 0 .. count /\ z \in 0 .. count /\ count \in Nat
    <3>1. count \in Nat
      BY <1>2, LinearFacts
    <3>2. w \in 0 .. count
      BY <1>2, ReachedNext
    <3> HIDE DEF w
    <3> QED BY <3>1, <3>2 DEF Nodes
  <2>3. pos[w] \in Nat /\ pos[z] \in Nat
    BY <1>2, <2>2, LinearFacts
  <2>4. ~(pos[z] <= pos[w])
    <3> SUFFICES ASSUME pos[z] <= pos[w] PROVE FALSE
      OBVIOUS
    <3>1. w \in Nodes /\ Before(w, s)
      BY <1>2, ReachedNext
    <3> HIDE DEF w
    <3>2. Low(key[w], s)
      BY <1>5, <3>1
    <3>3. pos[z] = pos[w] \/ pos[z] < pos[w]
      BY <2>3
    <3>4. pos[z] = pos[w] => z = w
      BY <1>2, <2>2 DEF Linear
    <3>5. Low(key[z], s)
      BY <1>2, <3>1, <3>2, <3>3, <3>4 DEF InOrder
    <3> QED BY <2>1, <3>5
  <2>5. r # Nil /\ pos[r] <= pos[z]
    <3>1. pos[w] < pos[z]
      BY <2>3, <2>4
    <3> QED BY <1>2, <3>1, ReachedNext
  <2> HIDE DEF w
  <2>6. r \in Nodes /\ ~Before(r, s) /\ r \in 0 .. count
    <3>1. r \in Nodes /\ ~Before(r, s)
      BY <1>4, <2>5
    <3> HIDE DEF r
    <3> QED BY <2>2, <3>1 DEF Nodes
  <2>7. r = z
    <3> SUFFICES ASSUME r # z PROVE FALSE
      OBVIOUS
    <3>1. key[r] # s /\ key[r] \in Key
      BY <1>3, <1>8, <2>6 DEF SInv, Once
    <3>2. ~Low(key[r], s)
      BY <1>5, <2>6
    <3> HIDE DEF r
    <3>3. High(key[r], s)
      BY <1>3, <3>1, <3>2, SideIs
    <3>4. pos[r] # pos[z]
      BY <1>2, <2>2, <2>6 DEF Linear
    <3>5. pos[r] \in Nat
      BY <1>2, <2>6, LinearFacts
    <3>6. pos[r] < pos[z]
      BY <2>3, <2>5, <3>4, <3>5
    <3>7. High(key[z], s)
      BY <1>2, <2>6, <3>3, <3>6 DEF InOrder
    <3> QED BY <2>1, <3>7
  <2>8. Hit(s)
    BY <2>1, <2>5, <2>7, <1>8 DEF Hit, SameNow
  <2> QED BY <2>7, <2>8
<1> QED BY <1>7, <1>8

-----------------------------------------------------------------------------
(* The invariant holds initially and is kept by every step *)

LEMMA InitSInv == Init => SInv
<1> SUFFICES ASSUME Init PROVE SInv
  OBVIOUS
<1>1. /\ count = 0 /\ lv = 0 /\ iter = head /\ old = 0 /\ seen = {} /\ Nodes = {}
      /\ MaxNodes \in Nat /\ MaxLevel \in Nat /\ MaxLevel # 0
      /\ fwd = [x \in 0 .. MaxNodes |-> [i \in Levels |-> Nil]]
  BY ListAssumption DEF ListAssumption, Init, Nodes
<1>2. TypeOK
  BY <1>1 DEF Init, TypeOK
<1>3. Filled /\ Once
  BY <1>1 DEF Filled, Once
<1>4. Unused
  BY <1>1 DEF Unused
<1> DEFINE pos == [x \in 0 .. 0 |-> 0]
           ht == [x \in 0 .. 0 |-> MaxLevel]
<1>5. Linear(fwd, pos, ht, count)
  <2>1. \A x \in 0 .. count : x = 0
    BY <1>1
  <2>2. pos[0] = 0 /\ ht[0] = MaxLevel /\ 0 \in 0 .. count
    BY <1>1
  <2>3. pos \in [0 .. count -> 0 .. count] /\ ht \in [0 .. count -> 1 .. MaxLevel]
    BY <1>1
  <2>4. \A i \in Levels : Onward(pos, ht, count, 0, i) = {} /\ fwd[0][i] = Nil /\ i \in Nat
                          /\ i < MaxLevel
    BY <1>1 DEF Onward, Levels
  <2>5. \A x \in 0 .. count, i \in Levels :
           fwd[x][i] = Nil /\ Onward(pos, ht, count, x, i) = {}
    BY <2>1, <2>4
  <2> HIDE DEF pos, ht
  <2> QED BY <1>1, <2>1, <2>2, <2>3, <2>5 DEF Linear, head
<1>6. Used(ht) /\ InOrder(pos) /\ Midway(pos)
  BY <1>1 DEF Used, InOrder, Midway, Looping
<1>7. \E p, h : Shape(p, h)
  <2> HIDE DEF pos, ht
  <2> QED BY <1>5, <1>6 DEF Shape
<1> QED BY <1>2, <1>3, <1>4, <1>7 DEF SInv

LEMMA PutHitKeeps ==
    ASSUME SInv, NEW k \in Key, NEW v \in Val, NEW n \in Heights, Hit(k), Put(k, v, n)
    PROVE  SInv'
<1>1. PICK pos, ht : Shape(pos, ht)
  BY DEF SInv
<1>2. Linear(fwd, pos, ht, count) /\ Used(ht) /\ InOrder(pos) /\ Midway(pos)
  BY <1>1 DEF Shape
<1>3. Typed /\ \A x \in Nodes : key[x] \in Key
  BY DEF SInv, TypeOK, Typed, Filled
<1> DEFINE r == Reached(k)
<1>4. r \in Nodes /\ SameNow(key[r], k)
  <2>1. r = Nil \/ r \in Nodes
    BY <1>2, ReachedNext
  <2> QED BY <2>1 DEF Hit, SameNow
<1>5. /\ val' = [val EXCEPT ![r] = v] /\ key' = [key EXCEPT ![r] = k]
      /\ UNCHANGED <<now, count, lv, fwd, iter, old, seen>>
  BY DEF Put, loop
<1> HIDE DEF r
<1>6. Nodes' = Nodes /\ Nodes \subseteq 1 .. MaxNodes
  <2>1. count \in 0 .. MaxNodes /\ MaxNodes \in Nat
    BY ListAssumption DEF SInv, TypeOK, ListAssumption
  <2> QED BY <1>5, <2>1 DEF Nodes
<1>7. /\ key \in [1 .. MaxNodes -> Key \cup {Nil}]
      /\ val \in [1 .. MaxNodes -> Val \cup {Nil}]
  BY DEF SInv, TypeOK
<1>8. /\ key' \in [1 .. MaxNodes -> Key \cup {Nil}]
      /\ val' \in [1 .. MaxNodes -> Val \cup {Nil}]
      /\ \A x \in Nodes : key'[x] = (IF x = r THEN k ELSE key[x])
                          /\ val'[x] = (IF x = r THEN v ELSE val[x])
  BY <1>4, <1>5, <1>6, <1>7
<1>9. TypeOK'
  BY <1>5, <1>6, <1>8 DEF SInv, TypeOK
<1>10. Filled'
  BY <1>3, <1>6, <1>8 DEF SInv, Filled
<1>11. Unused'
  BY <1>5 DEF SInv, Unused
<1>12. ASSUME NEW x \in Nodes, NEW s \in Settled
       PROVE  /\ Low(key'[x], s) <=> Low(key[x], s)
              /\ High(key'[x], s) <=> High(key[x], s)
              /\ key'[x] = s <=> key[x] = s
  <2>1. CASE x # r
    BY <1>8, <2>1
  <2>2. CASE x = r
    <3>1. key'[x] = k /\ key[x] \in Key /\ SameNow(key[x], k)
      BY <1>3, <1>4, <1>8, <2>2
    <3>2. (Low(key[x], s) <=> Low(k, s)) /\ (High(key[x], s) <=> High(k, s))
      BY <1>3, <3>1, SidePasses
    <3>3. key[x] = s => k = s
      BY <1>3, <3>1, SideIs
    <3>4. k = s => key[x] = s
      BY <1>3, <3>1, SideIs
    <3> QED BY <3>1, <3>2, <3>3, <3>4
  <2> QED BY <2>1, <2>2
<1>13. Once'
  <2> SUFFICES ASSUME NEW x \in Nodes, NEW y \in Nodes, key'[x] = key'[y], key'[x] \in Settled
               PROVE  x = y
    BY <1>6 DEF Once
  <2>1. key[x] = key'[x] /\ key[y] = key'[x]
    BY <1>12
  <2> QED BY <2>1 DEF SInv, Once
<1>14. InOrder(pos)'
  <2> SUFFICES ASSUME NEW x \in Nodes, NEW y \in Nodes, NEW s \in Settled, pos[x] < pos[y]
               PROVE  /\ High(key'[x], s) => High(key'[y], s)
                      /\ Low(key'[y], s) => Low(key'[x], s)
    BY <1>6 DEF InOrder
  <2>1. /\ High(key[x], s) => High(key[y], s)
        /\ Low(key[y], s) => Low(key[x], s)
    BY <1>2 DEF InOrder
  <2> QED BY <1>12, <2>1
<1>15. Midway(pos)'
  BY <1>2, <1>5 DEF Midway, Looping
<1>16. Linear(fwd, pos, ht, count)' /\ Used(ht)'
  BY <1>2, <1>5, <1>6 DEF Used
<1>17. (\E p, h : Shape(p, h))'
  BY <1>14, <1>15, <1>16 DEF Shape
<1> QED BY <1>9, <1>10, <1>11, <1>13, <1>17 DEF SInv

\* The order with a node for k where the search for it ends.
LEMMA NewInOrder ==
    ASSUME NEW pos, NEW ht, Linear(fwd, pos, ht, count), Used(ht), InOrder(pos), Typed,
           \A x \in Nodes : key[x] \in Key, NEW k \in Key, NEW s \in Settled, NEW y \in Nodes
    PROVE  /\ pos[y] > pos[Path(k, 0)] =>
                 (High(k, s) => High(key[y], s)) /\ (Low(key[y], s) => Low(k, s))
           /\ pos[y] <= pos[Path(k, 0)] =>
                 (High(key[y], s) => High(k, s)) /\ (Low(k, s) => Low(key[y], s))
<1>1. count \in Nat /\ \A x \in Nodes : x \in 0 .. count /\ pos[x] \in Nat
  <2>1. count \in Nat
    BY LinearFacts
  <2>2. \A x \in Nodes : x \in 0 .. count
    BY <2>1 DEF Nodes
  <2> QED BY <2>1, <2>2, LinearFacts
<1>2. ASSUME NEW a \in Nodes, NEW b \in Nodes, pos[a] <= pos[b]
      PROVE  /\ High(key[a], s) => High(key[b], s)
             /\ Low(key[b], s) => Low(key[a], s)
  <2>1. CASE pos[a] < pos[b]
    BY <2>1 DEF InOrder
  <2>2. CASE pos[a] = pos[b]
    <3>1. a = b
      BY <1>1, <2>2 DEF Linear
    <3> QED BY <3>1
  <2> QED BY <1>1, <1>2, <2>1, <2>2
<1>3. ASSUME pos[y] > pos[Path(k, 0)]
      PROVE  (High(k, s) => High(key[y], s)) /\ (Low(key[y], s) => Low(k, s))
  <2> DEFINE r == Reached(k)
  <2>1. Path(k, 0) \in 0 .. count
    BY ReachedNext
  <2>2. pos[Path(k, 0)] < pos[y]
    BY <1>1, <1>3, <2>1, LinearFacts
  <2>3. r \in Nodes /\ ~Before(r, k) /\ pos[r] <= pos[y]
    BY <2>2, ReachedNext
  <2> HIDE DEF r
  <2>4. (Low(key[r], s) => Low(k, s)) /\ (High(k, s) => High(key[r], s))
    BY <2>3, SidePasses DEF Before, LessNow
  <2> QED BY <1>2, <2>3, <2>4
<1>4. ASSUME pos[y] <= pos[Path(k, 0)]
      PROVE  (High(key[y], s) => High(k, s)) /\ (Low(k, s) => Low(key[y], s))
  <2> DEFINE w == Path(k, 0)
  <2>1. w \in Nodes /\ Before(w, k)
    BY <1>4, ReachedNext
  <2>2. pos[y] <= pos[w]
    BY <1>4
  <2> HIDE DEF w
  <2>3. (Low(k, s) => Low(key[w], s)) /\ (High(key[w], s) => High(k, s))
    BY <2>1, SidePasses DEF Before, LessNow
  <2> QED BY <1>2, <2>1, <2>2, <2>3
<1> QED BY <1>3, <1>4

LEMMA PutNewKeeps ==
    ASSUME SInv, NEW k \in Key, NEW v \in Val, NEW n \in Heights, ~Hit(k), Put(k, v, n)
    PROVE  SInv'
<1>1. PICK pos, ht : Shape(pos, ht)
  BY DEF SInv
<1>2. Linear(fwd, pos, ht, count) /\ Used(ht) /\ InOrder(pos) /\ Midway(pos)
  BY <1>1 DEF Shape
<1>3. Typed /\ \A x \in Nodes : key[x] \in Key
  BY DEF SInv, TypeOK, Typed, Filled
<1>4. /\ count < MaxNodes /\ fwd' = Linked(k, n) /\ count' = count + 1
      /\ lv' = (IF n > lv THEN n ELSE lv)
      /\ key' = [key EXCEPT ![count + 1] = k] /\ val' = [val EXCEPT ![count + 1] = v]
      /\ UNCHANGED <<now, iter, old, seen>>
  BY DEF Put, loop
<1>5. /\ count \in Nat /\ MaxNodes \in Nat /\ count + 1 \in 1 .. MaxNodes /\ count + 1 \in Nat
      /\ lv \in Nat /\ lv <= MaxLevel /\ MaxLevel \in Nat /\ n \in 1 .. MaxLevel /\ n \in Nat
  <2>1. MaxNodes \in Nat /\ MaxLevel \in Nat
    BY ListAssumption DEF ListAssumption
  <2>2. count \in 0 .. MaxNodes /\ lv \in 0 .. MaxLevel
    BY DEF SInv, TypeOK
  <2> QED BY <1>4, <2>1, <2>2 DEF Heights
<1>6. /\ Nodes \subseteq 1 .. MaxNodes /\ Nodes' = Nodes \cup {count + 1}
      /\ Nodes' \subseteq 1 .. MaxNodes /\ count + 1 \notin Nodes
      /\ \A x \in Nodes : x \in 0 .. count
  BY <1>4, <1>5 DEF Nodes
<1>7. /\ key \in [1 .. MaxNodes -> Key \cup {Nil}]
      /\ val \in [1 .. MaxNodes -> Val \cup {Nil}]
      /\ fwd \in [0 .. MaxNodes -> [Levels -> Nodes \cup {Nil}]]
  BY DEF SInv, TypeOK
<1>8. /\ key' \in [1 .. MaxNodes -> Key \cup {Nil}]
      /\ val' \in [1 .. MaxNodes -> Val \cup {Nil}]
      /\ key'[count + 1] = k /\ val'[count + 1] = v
      /\ \A x \in Nodes : key'[x] = key[x] /\ val'[x] = val[x]
  BY <1>4, <1>5, <1>6, <1>7
<1> DEFINE at == [i \in Levels |-> Path(k, i)]
           w == Path(k, 0)
           p == pos[w]
<1>9. fwd' = [y \in 0 .. MaxNodes |-> [i \in Levels |->
                IF i >= n THEN fwd[y][i]
                ELSE IF y = count + 1 THEN fwd[at[i]][i]
                ELSE IF y = at[i] THEN count + 1
                ELSE fwd[y][i]]]
  BY <1>4, <1>7 DEF Linked, Path
<1>10. \A i \in Levels : /\ at[i] \in 0 .. count /\ ht[at[i]] > i /\ pos[at[i]] <= p
                         /\ \A z \in 1 .. count : ht[z] > i /\ pos[z] <= p => pos[z] <= pos[at[i]]
  BY <1>2, PathIs
<1> HIDE DEF at
<1>11. w \in 0 .. count /\ p \in 0 .. count /\ p \in Nat
  <2>1. w \in 0 .. count
    BY <1>2, ReachedNext
  <2> HIDE DEF w
  <2>2. p \in 0 .. count
    BY <1>2, <2>1 DEF Linear
  <2> QED BY <1>5, <2>1, <2>2
<1> HIDE DEF p, w
\* The order and the heights as they are, for the next state.
<1>0. PICK q, t : q = PosWith(pos, count, p) /\ t = HtWith(ht, count, n)
  OBVIOUS
<1>12. /\ q[count + 1] = p + 1
       /\ \A x, y \in 0 .. count : q[x] < q[y] <=> pos[x] < pos[y]
       /\ \A x \in 0 .. count :
             /\ q[x] \in 0 .. count + 1
             /\ pos[x] <= p => q[x] < p + 1
             /\ pos[x] > p => q[x] > p + 1
  BY SMTT(60), <1>0, <1>2, <1>11, PosWithIs
<1>13. \A i \in Levels : fwd[count + 1][i] = Nil
  <2>1. count + 1 > count /\ count + 1 \in 0 .. MaxNodes
    BY <1>5
  <2> QED BY <2>1 DEF SInv, Unused
<1>14. Linear(fwd', q, t, count + 1)
  <2>1. \A y \in 0 .. count + 1 : y \in 0 .. MaxNodes
    BY <1>5
  <2>2. \A y \in 0 .. count + 1, i \in Levels :
              fwd'[y][i] = IF i >= n THEN fwd[y][i]
                           ELSE IF y = count + 1 THEN fwd[at[i]][i]
                           ELSE IF y = at[i] THEN count + 1
                           ELSE fwd[y][i]
    BY <1>9, <2>1
  <2>3. \A g : (\A y \in 0 .. count + 1, i \in Levels :
                  g[y][i] = IF i >= n THEN fwd[y][i]
                            ELSE IF y = count + 1 THEN fwd[at[i]][i]
                            ELSE IF y = at[i] THEN count + 1
                            ELSE fwd[y][i])
               => Linear(g, q, t, count + 1)
    BY <1>0, <1>2, <1>10, <1>11, <1>13, LinkIs
  <2> QED BY <2>2, <2>3
<1>15. t[count + 1] = n /\ \A x \in Nodes : t[x] = ht[x]
  <2>1. count + 1 \in 0 .. count + 1
    BY <1>5
  <2>2. \A x \in Nodes : x \in 0 .. count + 1 /\ x # count + 1
    BY <1>5, <1>6
  <2> QED BY <1>0, <2>1, <2>2 DEF HtWith
<1>16. TypeOK'
  <2>1. fwd' \in [0 .. MaxNodes -> [Levels -> Nodes' \cup {Nil}]]
    <3>1. \A y \in 0 .. MaxNodes, i \in Levels : fwd[y][i] \in Nodes' \cup {Nil}
      BY <1>6, <1>7
    <3>2. \A i \in Levels : at[i] \in 0 .. MaxNodes
      BY <1>5, <1>10
    <3> QED BY <1>6, <1>9, <3>1, <3>2
  <2>2. count' \in 0 .. MaxNodes /\ lv' \in 0 .. MaxLevel
    BY <1>4, <1>5
  <2>3. iter' \in {head, Nil} \cup Nodes' /\ old' \in 0 .. count' /\ seen' \subseteq Nodes'
    <3>1. iter \in {head, Nil} \cup Nodes /\ old \in 0 .. count /\ seen \subseteq Nodes
      BY DEF SInv, TypeOK
    <3> QED BY <1>4, <1>5, <1>6, <3>1
  <2>4. \A c \in Key : now'[c] \in May[c]
    BY <1>4 DEF SInv, TypeOK
  <2> QED BY <1>8, <2>1, <2>2, <2>3, <2>4 DEF TypeOK
<1>17. Filled'
  BY <1>6, <1>8 DEF SInv, Filled
<1>18. Unused'
  <2> SUFFICES ASSUME NEW x \in 0 .. MaxNodes, NEW i \in Levels, x > count + 1
               PROVE  fwd'[x][i] = Nil
    BY <1>4 DEF Unused
  <2>1. x # count + 1 /\ x > count /\ x \notin 0 .. count
    BY <1>5
  <2>2. x # at[i]
    BY <1>10, <2>1
  <2>3. fwd'[x][i] = fwd[x][i]
    BY <1>9, <2>1, <2>2
  <2> QED BY <2>1, <2>3 DEF SInv, Unused
<1>19. Once'
  <2>1. \A z \in Nodes : k \in Settled => key[z] # k
    BY HitIs
  <2> SUFFICES ASSUME NEW x \in Nodes', NEW y \in Nodes', key'[x] = key'[y], key'[x] \in Settled
               PROVE  x = y
    BY DEF Once
  <2>2. CASE x \in Nodes /\ y \in Nodes
    BY <1>8, <2>2 DEF SInv, Once
  <2>3. CASE x \in Nodes /\ y = count + 1
    BY <1>8, <2>1, <2>3
  <2>4. CASE x = count + 1 /\ y \in Nodes
    BY <1>8, <2>1, <2>4
  <2> QED BY <1>6, <2>2, <2>3, <2>4
<1>20. InOrder(q)'
  <2> SUFFICES ASSUME NEW x \in Nodes', NEW y \in Nodes', NEW s \in Settled, q[x] < q[y]
               PROVE  /\ High(key'[x], s) => High(key'[y], s)
                      /\ Low(key'[y], s) => Low(key'[x], s)
    BY DEF InOrder
  <2>1. \A z \in Nodes :
           /\ pos[z] > p => (High(k, s) => High(key[z], s)) /\ (Low(key[z], s) => Low(k, s))
           /\ pos[z] <= p => (High(key[z], s) => High(k, s)) /\ (Low(k, s) => Low(key[z], s))
    BY <1>2, <1>3, NewInOrder DEF p, w
  <2>2. \A z \in Nodes : pos[z] \in Nat /\ q[z] \in Nat /\ (pos[z] <= p \/ pos[z] > p)
    <3>1. \A z \in Nodes : pos[z] \in Nat
      BY <1>2, <1>6, LinearFacts
    <3>2. \A z \in Nodes : q[z] \in Nat
      BY <1>5, <1>6, <1>12
    <3> QED BY <1>11, <3>1, <3>2
  <2>3. CASE x \in Nodes /\ y \in Nodes
    <3>1. pos[x] < pos[y]
      BY <1>6, <1>12, <2>3
    <3> QED BY <1>2, <1>8, <2>3, <3>1 DEF InOrder
  <2>4. CASE x = count + 1 /\ y \in Nodes
    <3>1. ~(q[y] < p + 1)
      BY <1>11, <1>12, <2>2, <2>4
    <3>2. pos[y] > p
      BY <1>6, <1>12, <2>2, <2>4, <3>1
    <3> QED BY <1>8, <2>1, <2>4, <3>2
  <2>5. CASE x \in Nodes /\ y = count + 1
    <3>1. ~(q[x] > p + 1)
      BY <1>11, <1>12, <2>2, <2>5
    <3>2. pos[x] <= p
      BY <1>6, <1>12, <2>2, <2>5, <3>1
    <3> QED BY <1>8, <2>1, <2>5, <3>2
  <2>6. ~(x = count + 1 /\ y = count + 1)
    BY <1>11, <1>12
  <2> QED BY <1>6, <2>3, <2>4, <2>5, <2>6
<1>21. Midway(q)'
  <2>1. CASE ~Looping
    BY <1>4, <2>1 DEF Midway, Looping
  <2>2. CASE Looping
    <3>1. /\ \A z \in seen : iter = Nil \/ pos[z] < pos[iter]
          /\ \A z \in 1 .. old : z \in seen \/ (iter # Nil /\ pos[iter] <= pos[z])
      BY <1>2, <2>2 DEF Midway
    <3>2. seen \subseteq Nodes /\ old \in 0 .. count /\ iter \in {head, Nil} \cup Nodes
      BY DEF SInv, TypeOK
    <3>3. \A z \in 1 .. old : z \in Nodes
      BY <1>5, <3>2 DEF Nodes
    <3>4. iter # Nil => iter \in Nodes
      BY <2>2, <3>2 DEF Looping
    <3>5. \A x, y \in Nodes : q[x] < q[y] <=> pos[x] < pos[y]
      BY <1>6, <1>12
    <3>6. \A z \in Nodes : pos[z] \in Nat /\ q[z] \in Nat
      <4>1. \A z \in Nodes : pos[z] \in Nat
        BY <1>2, <1>6, LinearFacts
      <4>2. \A z \in Nodes : q[z] \in Nat
        BY <1>5, <1>6, <1>12
      <4> QED BY <4>1, <4>2
    <3>7. \A x, y \in Nodes : pos[x] <= pos[y] => q[x] <= q[y]
      <4> SUFFICES ASSUME NEW x \in Nodes, NEW y \in Nodes, pos[x] <= pos[y] PROVE q[x] <= q[y]
        OBVIOUS
      <4>1. ~(pos[y] < pos[x])
        BY <3>6
      <4>2. ~(q[y] < q[x])
        BY <3>5, <4>1
      <4> QED BY <3>6, <4>2
    <3>8. \A z \in seen : iter = Nil \/ q[z] < q[iter]
      BY <3>1, <3>2, <3>4, <3>5
    <3>9. \A z \in 1 .. old : z \in seen \/ (iter # Nil /\ q[iter] <= q[z])
      BY <3>1, <3>3, <3>4, <3>7
    <3> QED BY <1>4, <3>8, <3>9 DEF Midway
  <2> QED BY <2>1, <2>2
<1>22. Used(t)'
  <2>1. \A z \in Nodes : ht[z] <= lv /\ ht[z] \in Nat
    BY <1>2, <1>6, LinearFacts DEF Used
  <2>2. \A z \in Nodes : t[z] <= lv'
    BY <1>4, <1>5, <1>15, <2>1
  <2>3. t[count + 1] <= lv'
    BY <1>4, <1>5, <1>15
  <2>4. lv' \in 0 .. MaxLevel
    BY <1>4, <1>5
  <2> QED BY <1>6, <2>2, <2>3, <2>4 DEF Used
<1>23. Linear(fwd, q, t, count)'
  BY <1>4, <1>14
<1>24. (\E p1, h : Shape(p1, h))'
  BY <1>20, <1>21, <1>22, <1>23 DEF Shape
<1> QED BY <1>16, <1>17, <1>18, <1>19, <1>24 DEF SInv

LEMMA MutateKeeps ==
    ASSUME SInv, NEW k \in Key, NEW c \in Content, Mutate(k, c)
    PROVE  SInv'
<1>1. UNCHANGED <<count, lv, key, val, fwd, iter, old, seen>> /\ Nodes' = Nodes
  BY DEF Mutate, loop, Nodes
<1>2. \A l \in Key : now'[l] \in May[l]
  <2>1. c \in May[k] /\ now' = [now EXCEPT ![k] = c] /\ \A l \in Key : now[l] \in May[l]
    BY DEF Mutate, SInv, TypeOK
  <2>2. TAKE l \in Key
  <2>3. now'[l] = now[l] \/ (l = k /\ now'[l] = c) \/ now'[l] = now[l]
    BY <2>1
  <2> QED BY <2>1, <2>3
<1>3. TypeOK'
  BY <1>1, <1>2 DEF SInv, TypeOK
<1>4. Filled' /\ Unused' /\ Once'
  BY <1>1 DEF SInv, Filled, Unused, Once
<1>5. ASSUME NEW pos, NEW ht, Shape(pos, ht) PROVE Shape(pos, ht)'
  BY <1>1, <1>5 DEF Shape, Used, InOrder, Midway, Looping
<1>6. (\E pos, ht : Shape(pos, ht))'
  BY <1>5 DEF SInv
<1> QED BY <1>3, <1>4, <1>6 DEF SInv

LEMMA BeginKeeps == ASSUME SInv, Begin PROVE SInv'
<1>1. PICK pos, ht : Shape(pos, ht)
  BY DEF SInv
<1>2. Linear(fwd, pos, ht, count) /\ Used(ht) /\ InOrder(pos)
  BY <1>1 DEF Shape
<1>3. /\ fwd[head][0] # Nil /\ iter' = fwd[head][0] /\ old' = count /\ seen' = {}
      /\ UNCHANGED <<now, count, lv, key, val, fwd>> /\ Nodes' = Nodes
  BY DEF Begin, list, Nodes
<1>4. /\ count \in Nat /\ head \in 0 .. count /\ ht[head] > 0 /\ 0 \in Levels
      /\ pos[head] = 0
      /\ \A z \in 1 .. count : z \in 0 .. count /\ ht[z] > 0 /\ pos[z] > 0
  <2>1. count \in Nat /\ head \in 0 .. count /\ pos[head] = 0 /\ ht[head] = MaxLevel
    BY <1>2, LinearFacts
  <2>2. 0 \in Levels /\ MaxLevel > 0
    BY ListAssumption DEF ListAssumption, Levels
  <2>3. \A z \in 1 .. count : z \in 0 .. count /\ z # head
    BY <2>1 DEF head
  <2>4. \A z \in 0 .. count : ht[z] \in Nat /\ ht[z] >= 1 /\ (z # head <=> pos[z] > 0)
    BY <1>2, LinearFacts
  <2> QED BY <2>1, <2>2, <2>3, <2>4
<1>5. /\ iter' \in 1 .. count
      /\ \A z \in 1 .. count : pos[iter'] <= pos[z]
  BY <1>2, <1>3, <1>4, NextIs
<1>6. TypeOK'
  BY <1>3, <1>4, <1>5 DEF SInv, TypeOK, Nodes
<1>7. Filled' /\ Unused' /\ Once'
  BY <1>3 DEF SInv, Filled, Unused, Once
<1>8. Midway(pos)'
  BY <1>3, <1>5 DEF Midway
<1>9. InOrder(pos)' /\ Used(ht)' /\ Linear(fwd, pos, ht, count)'
  BY <1>2, <1>3 DEF InOrder, Used
<1>10. (\E p, h : Shape(p, h))'
  BY <1>8, <1>9 DEF Shape
<1> QED BY <1>6, <1>7, <1>10 DEF SInv

LEMMA MeetKeeps == ASSUME SInv, Meet PROVE SInv'
<1>1. PICK pos, ht : Shape(pos, ht)
  BY DEF SInv
<1>2. Linear(fwd, pos, ht, count) /\ Used(ht) /\ InOrder(pos) /\ Midway(pos)
  BY <1>1 DEF Shape
<1>3. /\ iter \in Nodes /\ iter' = fwd[iter][0] /\ seen' = seen \cup {iter}
      /\ UNCHANGED <<now, count, lv, key, val, fwd, old>> /\ Nodes' = Nodes
  BY DEF Meet, Following, list, Nodes
<1>4. /\ count \in Nat /\ 0 \in Levels /\ Looping
      /\ \A z \in Nodes : z \in 0 .. count /\ ht[z] > 0 /\ pos[z] \in Nat
  <2>1. count \in Nat
    BY <1>2, LinearFacts
  <2>2. 0 \in Levels
    BY ListAssumption DEF ListAssumption, Levels
  <2>3. \A z \in Nodes : z \in 0 .. count /\ z # head
    BY <2>1 DEF head, Nodes
  <2>4. \A z \in 0 .. count : ht[z] \in Nat /\ ht[z] >= 1 /\ pos[z] \in Nat
    BY <1>2, LinearFacts
  <2>5. Looping
    BY <1>3, <2>3 DEF Looping
  <2> QED BY <2>1, <2>2, <2>3, <2>4, <2>5
<1>5. /\ iter' = Nil => \A z \in Nodes : pos[z] <= pos[iter]
      /\ iter' # Nil => /\ iter' \in Nodes /\ pos[iter] < pos[iter']
                        /\ \A z \in Nodes : pos[iter] < pos[z] => pos[iter'] <= pos[z]
  <2>1. iter \in 0 .. count /\ ht[iter] > 0
    BY <1>3, <1>4
  <2>2. /\ fwd[iter][0] = Nil => \A z \in 1 .. count : ht[z] > 0 => pos[z] <= pos[iter]
        /\ fwd[iter][0] # Nil =>
              /\ fwd[iter][0] \in 1 .. count /\ ht[fwd[iter][0]] > 0
              /\ pos[iter] < pos[fwd[iter][0]]
              /\ \A z \in 1 .. count :
                    ht[z] > 0 /\ pos[iter] < pos[z] => pos[fwd[iter][0]] <= pos[z]
    BY <1>2, <1>4, <2>1, NextIs
  <2> QED BY <1>3, <1>4, <2>2 DEF Nodes
<1>6. TypeOK'
  <2>1. iter' \in {head, Nil} \cup Nodes'
    BY <1>3, <1>5
  <2>2. seen' \subseteq Nodes'
    BY <1>3 DEF SInv, TypeOK
  <2> QED BY <1>3, <2>1, <2>2 DEF SInv, TypeOK
<1>7. Filled' /\ Unused' /\ Once'
  BY <1>3 DEF SInv, Filled, Unused, Once
<1>8. /\ iter # Nil
      /\ \A z \in seen : pos[z] < pos[iter]
      /\ \A z \in 1 .. old : z \in seen \/ pos[iter] <= pos[z]
      /\ seen \subseteq Nodes /\ \A z \in 1 .. old : z \in Nodes
  <2>1. iter # Nil
    <3>1. iter \in Nat
      BY <1>3, <1>4
    <3> QED BY <3>1, NilApart
  <2>2. seen \subseteq Nodes /\ old \in 0 .. count
    BY DEF SInv, TypeOK
  <2>3. \A z \in 1 .. old : z \in Nodes
    BY <1>4, <2>2 DEF Nodes
  <2> QED BY <1>2, <1>4, <2>1, <2>2, <2>3 DEF Midway
<1>9. \A z \in seen' : iter' = Nil \/ pos[z] < pos[iter']
  <2> SUFFICES ASSUME NEW z \in seen', iter' # Nil PROVE pos[z] < pos[iter']
    OBVIOUS
  <2>1. iter' \in Nodes /\ pos[iter] < pos[iter']
    BY <1>5
  <2>2. CASE z = iter
    BY <2>1, <2>2
  <2>3. CASE z \in seen
    <3>1. pos[z] < pos[iter] /\ pos[z] \in Nat /\ pos[iter] \in Nat /\ pos[iter'] \in Nat
      BY <1>3, <1>4, <1>8, <2>1, <2>3
    <3> QED BY <2>1, <3>1
  <2> QED BY <1>3, <2>2, <2>3
<1>10. \A z \in 1 .. old : z \in seen' \/ (iter' # Nil /\ pos[iter'] <= pos[z])
  <2> SUFFICES ASSUME NEW z \in 1 .. old, z \notin seen'
               PROVE  iter' # Nil /\ pos[iter'] <= pos[z]
    OBVIOUS
  <2>1. z \notin seen /\ z # iter /\ z \in Nodes
    BY <1>3, <1>8
  <2>2. pos[iter] <= pos[z] /\ pos[iter] \in Nat /\ pos[z] \in Nat
    BY <1>3, <1>4, <1>8, <2>1
  <2>3. pos[iter] # pos[z]
    BY <1>2, <1>3, <1>4, <2>1 DEF Linear
  <2>4. pos[iter] < pos[z] /\ ~(pos[z] <= pos[iter])
    BY <2>2, <2>3
  <2> QED BY <1>5, <2>1, <2>4
<1>11. Midway(pos)'
  BY <1>3, <1>9, <1>10 DEF Midway
<1>12. InOrder(pos)' /\ Used(ht)' /\ Linear(fwd, pos, ht, count)'
  BY <1>2, <1>3 DEF InOrder, Used
<1>13. (\E p, h : Shape(p, h))'
  BY <1>11, <1>12 DEF Shape
<1> QED BY <1>6, <1>7, <1>13 DEF SInv

LEMMA EndKeeps == ASSUME SInv, End PROVE SInv'
<1>1. /\ iter' = head /\ old' = 0 /\ seen' = {}
      /\ UNCHANGED <<now, count, lv, key, val, fwd>> /\ Nodes' = Nodes
  BY DEF End, list, Nodes
<1>2. TypeOK'
  <2>1. count \in 0 .. MaxNodes /\ MaxNodes \in Nat
    BY ListAssumption DEF SInv, TypeOK, ListAssumption
  <2>2. 0 \in 0 .. count
    BY <2>1
  <2> QED BY <1>1, <2>2 DEF SInv, TypeOK
<1>3. Filled' /\ Unused' /\ Once'
  BY <1>1 DEF SInv, Filled, Unused, Once
<1>4. ASSUME NEW pos, NEW ht, Shape(pos, ht) PROVE Shape(pos, ht)'
  BY <1>1, <1>4 DEF Shape, Used, InOrder, Midway, Looping
<1>5. (\E pos, ht : Shape(pos, ht))'
  BY <1>4 DEF SInv
<1> QED BY <1>2, <1>3, <1>5 DEF SInv

LEMMA StepSInv == ASSUME SInv, [Next]_vars PROVE SInv'
<1>1. CASE UNCHANGED vars
  <2>1. UNCHANGED <<now, count, lv, key, val, fwd, iter, old, seen>> /\ Nodes' = Nodes
    BY <1>1 DEF vars, Nodes
  <2>2. TypeOK' /\ Filled' /\ Unused' /\ Once'
    BY <2>1 DEF SInv, TypeOK, Filled, Unused, Once
  <2>3. ASSUME NEW pos, NEW ht, Shape(pos, ht) PROVE Shape(pos, ht)'
    BY <2>1, <2>3 DEF Shape, Used, InOrder, Midway, Looping
  <2>4. (\E pos, ht : Shape(pos, ht))'
    BY <2>3 DEF SInv
  <2> QED BY <2>2, <2>4 DEF SInv
<1>2. ASSUME NEW k \in Key, NEW v \in Val, NEW n \in Heights, Put(k, v, n) PROVE SInv'
  BY <1>2, PutHitKeeps, PutNewKeeps
<1>3. ASSUME NEW k \in Key, NEW c \in Content, Mutate(k, c) PROVE SInv'
  BY <1>3, MutateKeeps
<1> QED BY <1>1, <1>2, <1>3, BeginKeeps, MeetKeeps, EndKeeps DEF Next

\* The invariant of every behaviour.
LEMMA SInvAlways == Spec => []SInv
BY InitSInv, StepSInv, PTL DEF Spec

-----------------------------------------------------------------------------
(* The list is sorted *)

\* A level holds the nodes of its height.
LEMMA LevelIs ==
    ASSUME NEW pos, NEW ht, Linear(fwd, pos, ht, count), NEW i \in Levels
    PROVE  OnLevel(i) = {z \in Nodes : ht[z] > i}
<1>1. /\ count \in Nat /\ head \in 0 .. count /\ pos[head] = 0 /\ ht[head] > i /\ i \in Nat
      /\ \A x \in 0 .. count : pos[x] \in Nat /\ pos[x] <= count /\ ht[x] \in Nat
                               /\ (x # head <=> pos[x] > 0)
  BY LinearFacts
<1>2. /\ {head} \cup Nodes = 0 .. count
      /\ \A z \in Nodes : z \in 0 .. count /\ z \in 1 .. count /\ z # head /\ z \in Nat
  BY <1>1 DEF Nodes, head
<1>3. ASSUME NEW x \in 0 .. count, fwd[x][i] # Nil
      PROVE  fwd[x][i] \in Nodes /\ ht[fwd[x][i]] > i
  <2>0. ~(ht[x] <= i)
    BY <1>3 DEF Linear
  <2>1. ht[x] > i
    BY <1>1, <2>0
  <2> QED BY <1>3, <2>1, NextIs DEF Nodes
<1>4. ASSUME NEW z \in Nodes, ht[z] > i PROVE z \in OnLevel(i)
  <2> DEFINE P == {p \in 0 .. (count + 1) - 1 :
                      \E x \in 0 .. count : ht[x] > i /\ pos[x] < pos[z] /\ p = pos[x]}
  <2>1. P \in SUBSET (0 .. (count + 1) - 1) /\ 0 \in P /\ count + 1 \in Nat
    <3>1. pos[head] < pos[z] /\ 0 \in 0 .. (count + 1) - 1
      BY <1>1, <1>2
    <3> QED BY <1>1, <3>1
  <2>2. Max(P) \in P /\ \A p \in P : p <= Max(P)
    <3> HIDE DEF P
    <3> QED BY <2>1, MaxIsIn
  <2>3. PICK x \in 0 .. count : ht[x] > i /\ pos[x] < pos[z] /\ Max(P) = pos[x]
    BY <2>2
  <2>4. \A y \in 0 .. count : ht[y] > i /\ pos[y] < pos[z] => pos[y] <= pos[x]
    <3> TAKE y \in 0 .. count
    <3>1. pos[y] \in 0 .. (count + 1) - 1
      BY <1>1
    <3>2. ht[y] > i /\ pos[y] < pos[z] => pos[y] \in P
      BY <3>1
    <3> HIDE DEF P
    <3> QED BY <2>2, <2>3, <3>2
  <2> HIDE DEF P
  <2>5. pos[z] \in Nat /\ pos[x] \in Nat /\ ~(pos[z] <= pos[x]) /\ z \in 1 .. count
    BY <1>1, <1>2, <2>3
  <2>6. fwd[x][i] # Nil
    BY <1>4, <2>3, <2>5, NextIs
  <2> DEFINE y == fwd[x][i]
  <2>7. y \in 1 .. count /\ ht[y] > i /\ pos[x] < pos[y] /\ pos[y] <= pos[z]
    BY <1>4, <2>3, <2>5, <2>6, NextIs
  <2>8. y \in 0 .. count
    BY <1>2, <2>7 DEF Nodes
  <2> HIDE DEF y
  <2>9. pos[y] = pos[z]
    <3>1. pos[y] \in Nat
      BY <1>1, <2>8
    <3>2. ~(pos[y] <= pos[x])
      BY <2>5, <2>7, <3>1
    <3>3. ~(pos[y] < pos[z])
      BY <2>4, <2>7, <2>8, <3>2
    <3> QED BY <2>5, <2>7, <3>1, <3>3
  <2>10. y = z
    BY <1>2, <2>8, <2>9 DEF Linear
  <2>11. z # Nil
    BY <1>2, NilApart
  <2> QED BY <1>2, <2>10, <2>11 DEF OnLevel, y
<1>5. ASSUME NEW z \in OnLevel(i) PROVE z \in Nodes /\ ht[z] > i
  <2>1. PICK x \in {head} \cup Nodes : z = fwd[x][i] /\ z # Nil
    BY DEF OnLevel
  <2> QED BY <1>2, <1>3, <2>1
<1> QED BY <1>4, <1>5

\* Only one node of a level leads to a node.
LEMMA OneBefore ==
    ASSUME NEW pos, NEW ht, Linear(fwd, pos, ht, count), NEW i \in Levels, NEW x \in Nodes
    PROVE  Cardinality({y \in {head} \cup Nodes : fwd[y][i] = x}) <= 1
<1> DEFINE S == {y \in {head} \cup Nodes : fwd[y][i] = x}
<1>1. /\ count \in Nat /\ {head} \cup Nodes = 0 .. count /\ x \in 1 .. count /\ x # Nil
      /\ \A y \in 0 .. count : pos[y] \in Nat /\ ht[y] \in Nat /\ (y # head <=> pos[y] > 0)
      /\ i \in Nat
  <2>1. /\ count \in Nat /\ i \in Nat
        /\ \A y \in 0 .. count : pos[y] \in Nat /\ ht[y] \in Nat /\ (y # head <=> pos[y] > 0)
    BY LinearFacts
  <2>2. x \in 1 .. count /\ x \in Nat
    BY <2>1 DEF Nodes
  <2>3. x # Nil
    BY <2>2, NilApart
  <2> QED BY <2>1, <2>2, <2>3 DEF Nodes, head
<1>2. ASSUME NEW y \in S PROVE y \in 0 .. count /\ fwd[y][i] = x /\ ht[y] > i
  <2>1. y \in 0 .. count /\ fwd[y][i] = x
    BY <1>1
  <2>2. ~(ht[y] <= i)
    BY <1>1, <2>1 DEF Linear
  <2> QED BY <1>1, <2>1, <2>2
<1>3. ASSUME NEW y \in S, NEW z \in S, pos[y] < pos[z] PROVE FALSE
  <2>1. y \in 0 .. count /\ z \in 0 .. count /\ ht[y] > i /\ ht[z] > i
        /\ fwd[y][i] = x /\ fwd[z][i] = x
    BY <1>2
  <2>2. pos[z] < pos[x]
    BY <1>1, <2>1, NextIs
  <2>3. z \in 1 .. count
    BY <1>1, <1>3, <2>1 DEF head
  <2>4. pos[x] <= pos[z]
    BY <1>1, <1>3, <2>1, <2>3, NextIs
  <2>5. pos[x] \in Nat /\ pos[z] \in Nat
    BY <1>1, <2>1
  <2> QED BY <2>2, <2>4, <2>5
<1>4. ASSUME NEW y \in S, NEW z \in S PROVE y = z
  <2>1. y \in 0 .. count /\ z \in 0 .. count
    BY <1>2
  <2>2. pos[y] \in Nat /\ pos[z] \in Nat
    BY <1>1, <2>1
  <2>3. pos[y] = pos[z]
    BY <1>3, <2>2
  <2> QED BY <2>1, <2>3 DEF Linear
<1> HIDE DEF S
<1>5. CASE S = {}
  <2>1. Cardinality(S) = 0
    BY <1>5, FS_EmptySet
  <2> QED BY <2>1 DEF S
<1>6. CASE S # {}
  <2>1. PICK y \in S : TRUE
    BY <1>6
  <2>2. S = {y}
    BY <1>4, <2>1
  <2>3. Cardinality(S) = 1
    BY <2>2, FS_Singleton
  <2> QED BY <2>3 DEF S
<1> QED BY <1>5, <1>6

LEMMA SInvSorted == ASSUME SInv PROVE Sorted
<1>1. PICK pos, ht : Shape(pos, ht)
  BY DEF SInv
<1>2. Linear(fwd, pos, ht, count) /\ Used(ht) /\ InOrder(pos)
  BY <1>1 DEF Shape
<1>3. Typed /\ \A x \in Nodes : key[x] \in Key
  BY DEF SInv, TypeOK, Typed, Filled
<1>4. \A i \in Levels : OnLevel(i) = {z \in Nodes : ht[z] > i}
  BY <1>2, LevelIs
<1>5. /\ count \in Nat /\ \A i \in Levels : i \in Nat
      /\ \A z \in Nodes : z \in 0 .. count /\ pos[z] \in Nat /\ ht[z] \in Nat /\ ht[z] > 0 /\ ht[z] <= lv
      /\ lv \in Nat /\ 0 \in Levels
  <2>1. count \in Nat /\ \A i \in Levels : i \in Nat
    BY <1>2, LinearFacts
  <2>2. \A z \in Nodes : z \in 0 .. count
    BY <2>1 DEF Nodes
  <2>3. \A z \in 0 .. count : pos[z] \in Nat /\ ht[z] \in Nat /\ ht[z] >= 1
    BY <1>2, LinearFacts
  <2>4. lv \in Nat /\ 0 \in Levels /\ \A z \in Nodes : ht[z] <= lv
    BY <1>2, ListAssumption DEF Used, ListAssumption, Levels
  <2> QED BY <2>1, <2>2, <2>3, <2>4
<1>6. OnLevel(0) = Nodes
  BY <1>4, <1>5
<1>7. \A i \in Levels : i >= lv => OnLevel(i) = {}
  BY <1>4, <1>5
<1>8. \A i \in Levels \ {0} : OnLevel(i) \subseteq OnLevel(i - 1)
  <2> SUFFICES ASSUME NEW i \in Levels \ {0} PROVE OnLevel(i) \subseteq OnLevel(i - 1)
    OBVIOUS
  <2>1. i - 1 \in Levels /\ i \in Levels /\ i \in Nat
    <3>1. MaxLevel \in Nat
      BY <1>2, LinearFacts
    <3> QED BY <3>1 DEF Levels
  <2>2. \A z \in Nodes : ht[z] > i => ht[z] > i - 1
    BY <1>5, <2>1
  <2> QED BY <1>4, <2>1, <2>2
<1>9. ASSUME NEW i \in Levels, NEW x \in Nodes, fwd[x][i] # Nil,
             {key[x], key[fwd[x][i]]} \cap Settled # {}
      PROVE  Before(x, key[fwd[x][i]])
  <2> DEFINE y == fwd[x][i]
  <2>1. x \in 0 .. count /\ ht[x] > i
    <3>1. x \in 0 .. count /\ ~(ht[x] <= i)
      BY <1>2, <1>5, <1>9 DEF Linear
    <3> QED BY <1>5, <3>1
  <2>2. y \in Nodes /\ pos[x] < pos[y]
    BY <1>2, <1>9, <2>1, NextIs DEF Nodes
  <2> HIDE DEF y
  <2>3. x # y
    BY <1>5, <2>2
  <2>4. CASE key[x] \in Settled
    <3>1. key[y] # key[x]
      BY <2>2, <2>3, <2>4 DEF SInv, Once
    <3>2. ~Low(key[x], key[x])
      BY <1>3, <2>4, SideIs
    <3>3. ~Low(key[y], key[x])
      BY <1>2, <2>2, <2>4, <3>2 DEF InOrder
    <3>4. LessNow(key[x], key[y])
      BY <1>3, <2>2, <2>4, <3>1, <3>3, SideIs
    <3> QED BY <3>4 DEF LessNow, Before, y
  <2>5. CASE key[y] \in Settled
    <3>1. key[y] # key[x]
      BY <2>2, <2>3, <2>5 DEF SInv, Once
    <3>2. ~High(key[y], key[y])
      BY <1>3, <2>2, <2>5, SideIs
    <3>3. ~High(key[x], key[y])
      BY <1>2, <2>2, <2>5, <3>2 DEF InOrder
    <3>4. LessNow(key[x], key[y])
      BY <1>3, <2>2, <2>5, <3>1, <3>3, SideIs
    <3> QED BY <3>4 DEF LessNow, Before, y
  <2> QED BY <1>9, <2>4, <2>5 DEF y
<1>10. \A i \in Levels, x \in Nodes :
           Cardinality({y \in {head} \cup Nodes : fwd[y][i] = x}) <= 1
  BY <1>2, OneBefore
<1> QED BY <1>6, <1>7, <1>8, <1>9, <1>10 DEF Sorted, SInv

\* The list is linked in order on every level, however it was built and whatever was done
\* with containers used as keys (append, skindex).
THEOREM ListIsSorted == Spec => []Sorted
BY SInvAlways, SInvSorted, PTL

-----------------------------------------------------------------------------
(* Loops over the list *)

LEMMA SInvLoop == ASSUME SInv PROVE LoopIsWhole
<1>1. PICK pos, ht : Shape(pos, ht)
  BY DEF SInv
<1>2. Linear(fwd, pos, ht, count) /\ Midway(pos)
  BY <1>1 DEF Shape
<1> DEFINE E(g) == g = [x \in Nodes \cup {Nil} |->
                          IF x = Nil THEN {} ELSE {x} \cup g[fwd[x][0]]]
           From(x) == {z \in Nodes : pos[x] <= pos[z]}
           g0 == [x \in Nodes \cup {Nil} |-> IF x = Nil THEN {} ELSE From(x)]
<1>3. /\ count \in Nat /\ 0 \in Levels
      /\ \A z \in Nodes : z \in 0 .. count /\ ht[z] > 0 /\ pos[z] \in Nat /\ pos[z] <= count
                          /\ z # Nil
  <2>1. count \in Nat
    BY <1>2, LinearFacts
  <2>2. 0 \in Levels
    BY ListAssumption DEF ListAssumption, Levels
  <2>3. \A z \in Nodes : z \in 0 .. count /\ z \in Nat
    BY <2>1 DEF Nodes
  <2>4. \A z \in 0 .. count : ht[z] \in Nat /\ ht[z] >= 1 /\ pos[z] \in Nat /\ pos[z] <= count
    BY <1>2, LinearFacts
  <2>5. \A z \in Nodes : z # Nil
    BY <2>3, NilApart
  <2> QED BY <2>1, <2>2, <2>3, <2>4, <2>5
<1>4. ASSUME NEW x \in Nodes
      PROVE  /\ fwd[x][0] = Nil => \A z \in Nodes : pos[z] <= pos[x]
             /\ fwd[x][0] # Nil =>
                   /\ fwd[x][0] \in Nodes /\ pos[x] < pos[fwd[x][0]]
                   /\ \A z \in Nodes : pos[x] < pos[z] => pos[fwd[x][0]] <= pos[z]
  <2>1. x \in 0 .. count /\ ht[x] > 0
    BY <1>3
  <2>2. /\ fwd[x][0] = Nil => \A z \in 1 .. count : ht[z] > 0 => pos[z] <= pos[x]
        /\ fwd[x][0] # Nil =>
              /\ fwd[x][0] \in 1 .. count /\ ht[fwd[x][0]] > 0
              /\ pos[x] < pos[fwd[x][0]]
              /\ \A z \in 1 .. count :
                    ht[z] > 0 /\ pos[x] < pos[z] => pos[fwd[x][0]] <= pos[z]
    BY <1>2, <1>3, <2>1, NextIs
  <2> QED BY <1>3, <2>2 DEF Nodes
<1>5. ASSUME NEW x \in Nodes
      PROVE  From(x) = {x} \cup (IF fwd[x][0] = Nil THEN {} ELSE From(fwd[x][0]))
  <2>1. ASSUME NEW z \in Nodes PROVE z = x <=> pos[z] = pos[x]
    BY <1>2, <1>3 DEF Linear
  <2>2. ASSUME NEW z \in Nodes PROVE pos[x] <= pos[z] <=> z = x \/ pos[x] < pos[z]
    BY <1>3, <2>1
  <2>3. CASE fwd[x][0] = Nil
    <3>1. \A z \in Nodes : ~(pos[x] < pos[z])
      BY <1>3, <1>4, <2>3
    <3> QED BY <2>2, <2>3, <3>1
  <2>4. CASE fwd[x][0] # Nil
    <3>1. fwd[x][0] \in Nodes /\ pos[x] < pos[fwd[x][0]]
          /\ \A z \in Nodes : pos[x] < pos[z] => pos[fwd[x][0]] <= pos[z]
      BY <1>4, <2>4
    <3>2. ASSUME NEW z \in Nodes PROVE pos[x] < pos[z] <=> pos[fwd[x][0]] <= pos[z]
      <4>1. pos[x] \in Nat /\ pos[z] \in Nat /\ pos[fwd[x][0]] \in Nat
        BY <1>3, <3>1
      <4>2. pos[fwd[x][0]] <= pos[z] => pos[x] < pos[z]
        BY <3>1, <4>1
      <4> QED BY <3>1, <4>2
    <3> QED BY <2>2, <2>4, <3>2
  <2> QED BY <2>3, <2>4
<1> HIDE DEF From
<1>6. E(g0)
  <2>1. ASSUME NEW x \in Nodes \cup {Nil}
        PROVE  (IF x = Nil THEN {} ELSE From(x)) = IF x = Nil THEN {} ELSE {x} \cup g0[fwd[x][0]]
    <3>1. CASE x = Nil
      BY <3>1
    <3>2. CASE x # Nil
      <4>1. x \in Nodes
        BY <3>2
      <4>2. fwd[x][0] \in Nodes \cup {Nil}
        BY <1>4, <4>1
      <4>3. g0[fwd[x][0]] = IF fwd[x][0] = Nil THEN {} ELSE From(fwd[x][0])
        BY <4>2
      <4> HIDE DEF g0
      <4> QED BY <1>5, <3>2, <4>1, <4>3
    <3> QED BY <3>1, <3>2
  <2>2. g0 = [x \in Nodes \cup {Nil} |-> IF x = Nil THEN {} ELSE From(x)]
    OBVIOUS
  <2> HIDE DEF g0
  <2> QED BY <2>1, <2>2
<1>7. ASSUME NEW g, E(g), NEW x \in Nodes PROVE g[x] = From(x)
  <2> DEFINE P == {p \in 0 .. (count + 1) - 1 : \E y \in Nodes : p = pos[y] /\ g[y] # From(y)}
  <2>1. SUFFICES ASSUME g[x] # From(x) PROVE FALSE
    OBVIOUS
  <2>2. P # {} /\ P \in SUBSET (0 .. (count + 1) - 1) /\ count + 1 \in Nat
    <3>1. pos[x] \in 0 .. (count + 1) - 1
      BY <1>3
    <3>2. pos[x] \in P
      BY <2>1, <3>1
    <3> QED BY <1>3, <3>2
  <2>3. Max(P) \in P /\ \A p \in P : p <= Max(P)
    <3> HIDE DEF P
    <3> QED BY <2>2, MaxIsIn
  <2>4. PICK y \in Nodes : Max(P) = pos[y] /\ g[y] # From(y)
    BY <2>3
  <2>5. g[y] = {y} \cup g[fwd[y][0]] /\ g[Nil] = {}
    <3>1. y # Nil /\ y \in Nodes \cup {Nil} /\ Nil \in Nodes \cup {Nil}
      BY <1>3
    <3> QED BY <1>7, <3>1
  <2>6. CASE fwd[y][0] = Nil
    BY <1>5, <2>4, <2>5, <2>6
  <2>7. CASE fwd[y][0] # Nil
    <3>1. fwd[y][0] \in Nodes /\ pos[y] < pos[fwd[y][0]]
      BY <1>4, <2>7
    <3>2. pos[y] \in Nat /\ pos[fwd[y][0]] \in Nat /\ pos[fwd[y][0]] \in 0 .. (count + 1) - 1
      BY <1>3, <3>1
    <3>3. ~(pos[fwd[y][0]] <= pos[y])
      BY <3>1, <3>2
    <3>4. pos[fwd[y][0]] \notin P
      BY <2>3, <2>4, <3>3
    <3>5. g[fwd[y][0]] = From(fwd[y][0])
      BY <3>1, <3>2, <3>4
    <3> QED BY <1>5, <2>4, <2>5, <2>7, <3>5
  <2> QED BY <2>6, <2>7
<1>8. PICK h : h = CHOOSE g : E(g)
  OBVIOUS
<1>9. E(h)
  <2> HIDE DEF E, g0
  <2> QED BY <1>6, <1>8
<1>10. h[Nil] = {} /\ \A x \in Nodes : h[x] = From(x)
  <2>1. h[Nil] = {}
    BY <1>9
  <2> HIDE DEF E
  <2> QED BY <1>7, <1>9, <2>1
<1>11. Looping => 1 .. old \subseteq seen \cup h[iter] /\ seen \cap h[iter] = {}
  <2> SUFFICES ASSUME Looping
               PROVE  1 .. old \subseteq seen \cup h[iter] /\ seen \cap h[iter] = {}
    OBVIOUS
  <2>1. /\ \A z \in seen : iter = Nil \/ pos[z] < pos[iter]
        /\ \A z \in 1 .. old : z \in seen \/ (iter # Nil /\ pos[iter] <= pos[z])
    BY <1>2 DEF Midway
  <2>2. iter \in {Nil} \cup Nodes /\ seen \subseteq Nodes /\ old \in 0 .. count
    BY DEF SInv, TypeOK, Looping
  <2>3. \A z \in 1 .. old : z \in Nodes
    BY <1>3, <2>2 DEF Nodes
  <2>4. CASE iter = Nil
    BY <1>10, <2>1, <2>4
  <2>5. CASE iter \in Nodes
    <3>1. h[iter] = From(iter)
      BY <1>10, <2>5
    <3>2. \A z \in Nodes : z \in h[iter] <=> pos[iter] <= pos[z]
      BY <3>1 DEF From
    <3>3. \A z \in seen : z \notin h[iter]
      <4> TAKE z \in seen
      <4>1. pos[z] < pos[iter] /\ pos[z] \in Nat /\ pos[iter] \in Nat /\ z \in Nodes
        BY <1>3, <2>1, <2>2, <2>5
      <4> QED BY <3>2, <4>1
    <3>4. \A z \in 1 .. old : z \in seen \cup h[iter]
      BY <2>1, <2>3, <3>2
    <3> QED BY <3>3, <3>4
  <2> QED BY <2>2, <2>4, <2>5
<1> HIDE DEF g0
<1> QED BY <1>8, <1>11 DEF LoopIsWhole

\* A loop over a list meets every node the list had when it began, and none twice, whatever
\* its body puts (skls_iter).
THEOREM ListLoopsAreWhole == Spec => []LoopIsWhole
BY SInvAlways, SInvLoop, PTL

-----------------------------------------------------------------------------
(* The list implements a dictionary of its settled keys *)

\* The value of the node that holds k.
Lookup(k) == IF \E z \in Nodes : key[z] = k THEN val[CHOOSE z \in Nodes : key[z] = k] ELSE Nil

LEMMA LookupIs ==
    ASSUME Once, NEW s \in Settled
    PROVE  /\ \A z \in Nodes : key[z] = s => Lookup(s) = val[z]
           /\ (\A z \in Nodes : key[z] # s) => Lookup(s) = Nil
<1>1. ASSUME NEW z \in Nodes, key[z] = s PROVE Lookup(s) = val[z]
  <2>1. PICK y : y = CHOOSE x \in Nodes : key[x] = s
    OBVIOUS
  <2>2. y \in Nodes /\ key[y] = s
    BY <1>1, <2>1
  <2>3. y = z
    BY <1>1, <2>2 DEF Once
  <2> QED BY <1>1, <2>1, <2>3 DEF Lookup
<1>2. (\A z \in Nodes : key[z] # s) => Lookup(s) = Nil
  BY DEF Lookup
<1> QED BY <1>1, <1>2

Searched == [k \in Settled |-> Find(k)]
Looked == [k \in Settled |-> Lookup(k)]

LEMMA SearchedIsLooked == ASSUME SInv PROVE Searched = Looked
<1>1. ASSUME NEW s \in Settled PROVE Find(s) = Lookup(s)
  <2>1. Once
    BY DEF SInv
  <2>2. /\ Hit(s) => Reached(s) \in Nodes /\ key[Reached(s)] = s
        /\ \A z \in Nodes : key[z] = s => Hit(s) /\ Reached(s) = z
    BY HitIs
  <2>3. CASE Hit(s)
    <3>1. Lookup(s) = val[Reached(s)]
      BY <2>1, <2>2, <2>3, LookupIs
    <3> QED BY <2>3, <3>1 DEF Find
  <2>4. CASE ~Hit(s)
    <3>1. Lookup(s) = Nil
      BY <2>1, <2>2, <2>4, LookupIs
    <3> QED BY <2>4, <3>1 DEF Find
  <2> QED BY <2>3, <2>4
<1> QED BY <1>1 DEF Searched, Looked

\* What a step may do to the dictionary.
DictStep(d, e) == e = d \/ \E k \in Settled, v \in Val : e = [d EXCEPT ![k] = v]

\* Nodes with the same settled keys and values are the same dictionary.
LEMMA SameLooked ==
    ASSUME Nodes' = Nodes,
           \A x \in Nodes, s \in Settled : key'[x] = s <=> key[x] = s,
           \A x \in Nodes : key[x] \in Settled => val'[x] = val[x],
           Once, Once'
    PROVE  Looked' = Looked
<1>1. ASSUME NEW s \in Settled PROVE Lookup(s)' = Lookup(s)
  <2>1. CASE \E z \in Nodes : key[z] = s
    <3>1. PICK z \in Nodes : key[z] = s
      BY <2>1
    <3>2. Lookup(s) = val[z]
      BY <3>1, LookupIs
    <3>3. \A y \in Nodes : key'[y] = s => y = z
      BY <3>1 DEF Once
    <3>4. (CHOOSE y \in Nodes : key'[y] = s) = z
      BY <3>1, <3>3
    <3>5. Lookup(s)' = val'[z]
      BY <3>1, <3>4 DEF Lookup
    <3> QED BY <3>1, <3>2, <3>5
  <2>2. CASE ~(\E z \in Nodes : key[z] = s)
    <3>1. Lookup(s) = Nil
      BY <2>2, LookupIs
    <3>2. Lookup(s)' = Nil
      BY <2>2 DEF Lookup
    <3> QED BY <3>1, <3>2
  <2> QED BY <2>1, <2>2
<1> QED BY <1>1 DEF Looked

LEMMA PutHitLooked ==
    ASSUME SInv, SInv', NEW k \in Key, NEW v \in Val, NEW n \in Heights, Hit(k), Put(k, v, n)
    PROVE  DictStep(Looked, Looked')
<1>1. PICK pos, ht : Shape(pos, ht)
  BY DEF SInv
<1>2. Linear(fwd, pos, ht, count) /\ Used(ht)
  BY <1>1 DEF Shape
<1>3. Typed /\ \A x \in Nodes : key[x] \in Key
  BY DEF SInv, TypeOK, Typed, Filled
<1> DEFINE r == Reached(k)
<1>4. r \in Nodes /\ SameNow(key[r], k)
  <2>1. r = Nil \/ r \in Nodes
    BY <1>2, ReachedNext
  <2> QED BY <2>1 DEF Hit, SameNow
<1>5. /\ val' = [val EXCEPT ![r] = v] /\ key' = [key EXCEPT ![r] = k] /\ count' = count
  BY DEF Put
<1> HIDE DEF r
<1>6. /\ Nodes' = Nodes /\ Nodes \subseteq 1 .. MaxNodes
      /\ key \in [1 .. MaxNodes -> Key \cup {Nil}]
      /\ val \in [1 .. MaxNodes -> Val \cup {Nil}]
      /\ Once /\ Once'
  <2>1. count \in 0 .. MaxNodes /\ MaxNodes \in Nat
    BY ListAssumption DEF SInv, TypeOK, ListAssumption
  <2> QED BY <1>5, <2>1 DEF SInv, TypeOK, Nodes
<1>7. \A x \in Nodes : /\ key'[x] = (IF x = r THEN k ELSE key[x])
                       /\ val'[x] = (IF x = r THEN v ELSE val[x])
  BY <1>4, <1>5, <1>6
<1>8. \A s \in Settled : key[r] = s <=> k = s
  <2> TAKE s \in Settled
  <2>1. key[r] \in Key
    BY <1>3, <1>4
  <2> QED BY <1>3, <1>4, <2>1, SideIs
<1>9. \A x \in Nodes, s \in Settled : key'[x] = s <=> key[x] = s
  BY <1>7, <1>8
<1>10. CASE k \in Settled
  <2>1. key[r] = k
    BY <1>8, <1>10
  <2>2. ASSUME NEW s \in Settled PROVE Lookup(s)' = IF s = k THEN v ELSE Lookup(s)
    <3>1. CASE \E z \in Nodes : key[z] = s
      <4>1. PICK z \in Nodes : key[z] = s
        BY <3>1
      <4>2. Lookup(s) = val[z]
        BY <1>6, <4>1, LookupIs
      <4>3. \A y \in Nodes : key'[y] = s => y = z
        BY <1>6, <1>9, <4>1 DEF Once
      <4>4. (CHOOSE y \in Nodes : key'[y] = s) = z
        BY <1>9, <4>1, <4>3
      <4>5. Lookup(s)' = val'[z]
        BY <1>6, <1>9, <4>1, <4>4 DEF Lookup
      <4>6. z = r <=> s = k
        BY <1>4, <1>6, <2>1, <4>1 DEF Once
      <4> QED BY <1>7, <4>2, <4>5, <4>6
    <3>2. CASE ~(\E z \in Nodes : key[z] = s)
      <4>1. Lookup(s) = Nil
        BY <1>6, <3>2, LookupIs
      <4>2. Lookup(s)' = Nil
        BY <1>6, <1>9, <3>2 DEF Lookup
      <4>3. s # k
        BY <1>4, <2>1, <3>2
      <4> QED BY <4>1, <4>2, <4>3
    <3> QED BY <3>1, <3>2
  <2>3. Looked' = [Looked EXCEPT ![k] = v]
    BY <1>10, <2>2 DEF Looked
  <2> QED BY <1>10, <2>3 DEF DictStep
<1>11. CASE k \notin Settled
  <2>1. \A x \in Nodes : key[x] \in Settled => val'[x] = val[x]
    BY <1>7, <1>8, <1>11
  <2>2. Looked' = Looked
    BY <1>6, <1>9, <2>1, SameLooked
  <2> QED BY <2>2 DEF DictStep
<1> QED BY <1>10, <1>11

LEMMA PutNewLooked ==
    ASSUME SInv, SInv', NEW k \in Key, NEW v \in Val, NEW n \in Heights, ~Hit(k), Put(k, v, n)
    PROVE  DictStep(Looked, Looked')
<1>1. /\ count' = count + 1
      /\ key' = [key EXCEPT ![count + 1] = k] /\ val' = [val EXCEPT ![count + 1] = v]
      /\ count < MaxNodes
  BY DEF Put
<1>2. /\ Nodes \subseteq 1 .. MaxNodes /\ Nodes' = Nodes \cup {count + 1}
      /\ count + 1 \in 1 .. MaxNodes /\ count + 1 \notin Nodes
      /\ key \in [1 .. MaxNodes -> Key \cup {Nil}]
      /\ val \in [1 .. MaxNodes -> Val \cup {Nil}]
      /\ Once /\ Once'
  <2>1. count \in 0 .. MaxNodes /\ MaxNodes \in Nat
    BY ListAssumption DEF SInv, TypeOK, ListAssumption
  <2>2. count \in Nat /\ count + 1 \in 1 .. MaxNodes
    BY <1>1, <2>1
  <2>3. Nodes \subseteq 1 .. MaxNodes /\ Nodes' = Nodes \cup {count + 1} /\ count + 1 \notin Nodes
    BY <1>1, <2>1, <2>2 DEF Nodes
  <2> QED BY <2>2, <2>3 DEF SInv, TypeOK
<1>3. /\ key'[count + 1] = k /\ val'[count + 1] = v
      /\ \A x \in Nodes : key'[x] = key[x] /\ val'[x] = val[x]
  BY <1>1, <1>2
<1>4. k \in Settled => \A z \in Nodes : key[z] # k
  BY HitIs
<1>5. ASSUME NEW s \in Settled PROVE Lookup(s)' = IF s = k THEN v ELSE Lookup(s)
  <2>1. CASE s = k
    <3>1. \A y \in Nodes' : key'[y] = s <=> y = count + 1
      BY <1>2, <1>3, <1>4, <2>1
    <3>2. (CHOOSE y \in Nodes' : key'[y] = s) = count + 1
      BY <1>2, <3>1
    <3> QED BY <1>2, <1>3, <2>1, <3>1, <3>2 DEF Lookup
  <2>2. CASE s # k /\ \E z \in Nodes : key[z] = s
    <3>1. PICK z \in Nodes : key[z] = s
      BY <2>2
    <3>2. Lookup(s) = val[z]
      BY <1>2, <3>1, LookupIs
    <3>3. \A y \in Nodes' : key'[y] = s <=> y = z
      BY <1>2, <1>3, <2>2, <3>1 DEF Once
    <3>4. (CHOOSE y \in Nodes' : key'[y] = s) = z
      BY <1>2, <3>1, <3>3
    <3>5. Lookup(s)' = val'[z]
      BY <1>2, <3>1, <3>3, <3>4 DEF Lookup
    <3> QED BY <1>3, <2>2, <3>1, <3>2, <3>5
  <2>3. CASE s # k /\ ~(\E z \in Nodes : key[z] = s)
    <3>1. Lookup(s) = Nil
      BY <1>2, <2>3, LookupIs
    <3>2. \A y \in Nodes' : key'[y] # s
      BY <1>2, <1>3, <2>3
    <3>3. Lookup(s)' = Nil
      BY <3>2 DEF Lookup
    <3> QED BY <2>3, <3>1, <3>3
  <2> QED BY <2>1, <2>2, <2>3
<1>6. CASE k \in Settled
  <2>1. Looked' = [Looked EXCEPT ![k] = v]
    BY <1>5, <1>6 DEF Looked
  <2> QED BY <1>6, <2>1 DEF DictStep
<1>7. CASE k \notin Settled
  <2>1. Looked' = Looked
    BY <1>5, <1>7 DEF Looked
  <2> QED BY <2>1 DEF DictStep
<1> QED BY <1>6, <1>7

\* The settled keys of a list behave as a dictionary, whatever becomes of its other keys
\* (skls_put, skls_get).
THEOREM ListIsDictionary == Spec => IsDictionary
<1>1. Init => Dictionary!Init
  <2> SUFFICES ASSUME Init PROVE [k \in Settled |-> Find(k)] = [k \in Settled |-> Nil]
    BY DEF Dictionary!Init
  <2>1. SInv
    BY InitSInv
  <2>2. Once /\ Nodes = {}
    BY <2>1 DEF SInv, Init, Nodes
  <2>3. \A s \in Settled : Lookup(s) = Nil
    BY <2>2, LookupIs
  <2>4. Searched = Looked
    BY <2>1, SearchedIsLooked
  <2> QED BY <2>3, <2>4 DEF Searched, Looked
<1>2. SInv => Searched = Looked
  BY SearchedIsLooked
<1>3. SInv /\ SInv' /\ [Next]_vars /\ Searched = Looked /\ (Searched = Looked)'
      => [Dictionary!Next]_[k \in Settled |-> Find(k)]
  <2> SUFFICES ASSUME SInv, SInv', [Next]_vars, Searched = Looked, (Searched = Looked)'
               PROVE  [Dictionary!Next]_[k \in Settled |-> Find(k)]
    OBVIOUS
  <2>1. ASSUME UNCHANGED <<count, key, val>> PROVE DictStep(Looked, Looked')
    <3>1. Looked' = Looked
      BY <2>1 DEF Looked, Lookup, Nodes
    <3> QED BY <3>1 DEF DictStep
  <2>2. ASSUME NEW k \in Key, NEW v \in Val, NEW n \in Heights, Put(k, v, n)
        PROVE  DictStep(Looked, Looked')
    BY <2>2, PutHitLooked, PutNewLooked
  <2>3. DictStep(Looked, Looked')
    BY <2>1, <2>2 DEF Next, vars, Mutate, Begin, Meet, End, list
  <2>4. \/ \E k \in Settled, v \in Val :
              [c \in Settled |-> Find(c)]' = [[c \in Settled |-> Find(c)] EXCEPT ![k] = v]
        \/ [c \in Settled |-> Find(c)]' = [c \in Settled |-> Find(c)]
    BY <2>3 DEF DictStep, Searched
  <2> QED BY <2>4 DEF Dictionary!Next, Dictionary!Put
<1> QED BY <1>1, <1>2, <1>3, SInvAlways, PTL DEF Spec, IsDictionary, Dictionary!Spec

=============================================================================

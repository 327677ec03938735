-------------------------- MODULE YmdAccountProofs ---------------------------
(***************************************************************************)
(* The account of memory is right and chunks are shared soundly            *)
(* (YmdAccount), for any functions, chunks, sizes and steps of the arrays. *)
(*                                                                         *)
(* A call that collects and then allocates is followed through: what it    *)
(* leaves of the functions it must keep (Later), whether the memory is     *)
(* well formed behind it (Sound), and whether the account still is the     *)
(* size of the blocks (Pays); After says all of it together.  AccountInv   *)
(* adds that the open chunks are those of the innermost functions and that *)
(* only their arrays have room to spare (OpenChunks): what mm_shrink       *)
(* records is then exactly what mm_need had.  Of every call that records   *)
(* After says too that it leaves the account below the threshold or no     *)
(* garbage behind (Tidied), and each action shows that this outlives the   *)
(* rest of its step.  The account is a sum over finite sets, whose lemmas  *)
(* come first.                                                             *)
(***************************************************************************)
EXTENDS YmdAccount, Integers, FiniteSetTheorems, TLAPS

-----------------------------------------------------------------------------
(* Finite sums *)

LEMMA SmallestSet ==
    ASSUME NEW S, IsFiniteSet(S), NEW B \in SUBSET SUBSET S, B # {}
    PROVE  \E s \in B : \A t \in B : t \subseteq s => t = s
<1> DEFINE R == StrictSubsetOrdering(S)
<1>1. IsWellFoundedOn(R, FiniteSubsetsOf(S))
  BY FS_StrictSubsetOrderingWellFounded
<1>2. B \subseteq FiniteSubsetsOf(S)
  BY FS_FiniteSubsetsOfFinite
<1>3. PICK s \in B : \A t \in B : ~ (<<t, s>> \in R)
  <2> HIDE DEF R
  <2> QED BY <1>1, <1>2, WFMin
<1>4. \A t \in B : t \subseteq s => t = s
  BY <1>3 DEF StrictSubsetOrdering
<1> QED BY <1>4

\* The recursion of the library's sum, over the subsets of S.
Any(s) == CHOOSE x \in s : TRUE
Iterated(w, S, g) ==
    g = [s \in SUBSET S |-> IF s = {} THEN 0 ELSE w[Any(s)] + g[s \ {Any(s)}]]

LEMMA AnyIsIn == ASSUME NEW s, s # {} PROVE Any(s) \in s
BY DEF Any

LEMMA SumIs ==
    ASSUME NEW w, NEW S
    PROVE  SumFunctionOnSet(w, S) = (CHOOSE g : Iterated(w, S, g))[S]
BY DEF SumFunctionOnSet, FoldFunctionOnSet, MapThenFoldSet, Iterated, Any

LEMMA IteratedOnce ==
    ASSUME NEW w, NEW S, IsFiniteSet(S), NEW g, NEW h,
           Iterated(w, S, g), Iterated(w, S, h), NEW t \in SUBSET S
    PROVE  g[t] = h[t]
<1> DEFINE B == {s \in SUBSET S : g[s] # h[s]}
<1>1. SUFFICES ASSUME B # {} PROVE FALSE
  OBVIOUS
<1>2. PICK s \in B : \A r \in B : r \subseteq s => r = s
  <2> HIDE DEF B
  <2>1. B \in SUBSET SUBSET S
    BY DEF B
  <2> QED BY <1>1, <2>1, SmallestSet
<1>3. s # {}
  BY <1>2 DEF Iterated
<1>4. Any(s) \in s
  BY <1>3, AnyIsIn
<1>5. g[s \ {Any(s)}] = h[s \ {Any(s)}]
  BY <1>2, <1>4
<1>6. g[s] = w[Any(s)] + g[s \ {Any(s)}] /\ h[s] = w[Any(s)] + h[s \ {Any(s)}]
  BY <1>2, <1>3 DEF Iterated
<1> QED BY <1>2, <1>5, <1>6

LEMMA IteratedBelow ==
    ASSUME NEW w, NEW S, NEW g, Iterated(w, S, g), NEW T \in SUBSET S
    PROVE  Iterated(w, T, [s \in SUBSET T |-> g[s]])
<1>1. ASSUME NEW s \in SUBSET T
      PROVE  g[s] = IF s = {} THEN 0
                    ELSE w[Any(s)] + [r \in SUBSET T |-> g[r]][s \ {Any(s)}]
  BY DEF Iterated
<1> QED BY <1>1 DEF Iterated

LEMMA SumOf ==
    ASSUME NEW w, NEW S, IsFiniteSet(S), NEW g, Iterated(w, S, g), NEW T \in SUBSET S
    PROVE  SumFunctionOnSet(w, T) = g[T]
<1> DEFINE h == [s \in SUBSET T |-> g[s]]
<1>1. Iterated(w, T, h)
  BY IteratedBelow
<1>2. Iterated(w, T, CHOOSE k : Iterated(w, T, k))
  BY <1>1
<1>3. IsFiniteSet(T)
  BY FS_Subset
<1>4. h[T] = g[T]
  OBVIOUS
<1>5. (CHOOSE k : Iterated(w, T, k))[T] = h[T]
  <2> HIDE DEF h
  <2> QED BY <1>1, <1>2, <1>3, IteratedOnce
<1> QED BY <1>4, <1>5, SumIs

LEMMA IteratedExists ==
    ASSUME NEW w, NEW S, IsFiniteSet(S)
    PROVE  \E g : Iterated(w, S, g)
<1> DEFINE B == {s \in SUBSET S : ~ \E g : Iterated(w, s, g)}
<1>1. SUFFICES ASSUME B # {} PROVE FALSE
  OBVIOUS
<1>2. PICK s \in B : \A r \in B : r \subseteq s => r = s
  <2> HIDE DEF B
  <2>1. B \in SUBSET SUBSET S
    BY DEF B
  <2> QED BY <1>1, <2>1, SmallestSet
<1> DEFINE total(t) == IF t = {} THEN 0 ELSE w[Any(t)] + SumFunctionOnSet(w, t \ {Any(t)})
           g == [t \in SUBSET s |-> total(t)]
<1>3. ASSUME NEW t \in SUBSET s, t # s PROVE SumFunctionOnSet(w, t) = total(t)
  <2>1. t \in SUBSET S /\ IsFiniteSet(t)
    BY FS_Subset
  <2>2. PICK h : Iterated(w, t, h)
    BY <1>2, <1>3, <2>1
  <2>3. SumFunctionOnSet(w, t) = h[t]
    BY <2>1, <2>2, SumOf
  <2>4. CASE t = {}
    BY <2>2, <2>3, <2>4 DEF Iterated
  <2>5. CASE t # {}
    <3>1. h[t] = w[Any(t)] + h[t \ {Any(t)}]
      BY <2>2, <2>5 DEF Iterated
    <3>2. h[t \ {Any(t)}] = SumFunctionOnSet(w, t \ {Any(t)})
      BY <2>1, <2>2, SumOf
    <3> QED BY <2>3, <2>5, <3>1, <3>2
  <2> QED BY <2>4, <2>5
<1>4. ASSUME NEW t \in SUBSET s
      PROVE  g[t] = IF t = {} THEN 0 ELSE w[Any(t)] + g[t \ {Any(t)}]
  <2>1. CASE t = {}
    BY <2>1
  <2>2. CASE t # {}
    <3> DEFINE r == t \ {Any(t)}
    <3>1. r \in SUBSET s /\ r # s
      BY <2>2, AnyIsIn
    <3>2. g[r] = SumFunctionOnSet(w, r)
      <4> HIDE DEF r
      <4>1. g[r] = total(r)
        BY <3>1
      <4>2. SumFunctionOnSet(w, r) = total(r)
        <5> HIDE DEF total
        <5> QED BY <1>3, <3>1
      <4> QED BY <4>1, <4>2
    <3> QED BY <2>2, <3>2
  <2> QED BY <2>1, <2>2
<1>5. Iterated(w, s, g)
  <2>1. g = [t \in SUBSET s |-> g[t]]
    OBVIOUS
  <2> HIDE DEF g
  <2> QED BY <1>4, <2>1 DEF Iterated
<1> QED BY <1>2, <1>5

LEMMA SumUnfolds ==
    ASSUME NEW w, NEW S, IsFiniteSet(S)
    PROVE  /\ SumFunctionOnSet(w, {}) = 0
           /\ S # {} => SumFunctionOnSet(w, S) = w[Any(S)] + SumFunctionOnSet(w, S \ {Any(S)})
<1>1. PICK g : Iterated(w, S, g)
  BY IteratedExists
<1>2. g[{}] = 0 /\ (S # {} => g[S] = w[Any(S)] + g[S \ {Any(S)}])
  BY <1>1 DEF Iterated
<1>3. /\ SumFunctionOnSet(w, S) = g[S] /\ SumFunctionOnSet(w, {}) = g[{}]
      /\ SumFunctionOnSet(w, S \ {Any(S)}) = g[S \ {Any(S)}]
  BY <1>1, SumOf
<1> QED BY <1>2, <1>3

LEMMA SumEmpty == ASSUME NEW w PROVE SumFunctionOnSet(w, {}) = 0
BY SumUnfolds, FS_EmptySet

LEMMA SumNat ==
    ASSUME NEW w, NEW S, IsFiniteSet(S), \A x \in S : w[x] \in Nat
    PROVE  SumFunctionOnSet(w, S) \in Nat
<1> DEFINE B == {s \in SUBSET S : SumFunctionOnSet(w, s) \notin Nat}
<1>1. SUFFICES ASSUME B # {} PROVE FALSE
  OBVIOUS
<1>2. PICK s \in B : \A r \in B : r \subseteq s => r = s
  <2> HIDE DEF B
  <2>1. B \in SUBSET SUBSET S
    BY DEF B
  <2> QED BY <1>1, <2>1, SmallestSet
<1>3. s # {}
  <2> SUFFICES ASSUME s = {} PROVE FALSE
    OBVIOUS
  <2>1. SumFunctionOnSet(w, {}) = 0
    BY SumEmpty
  <2> QED BY <1>2, <2>1
<1>4. Any(s) \in s /\ IsFiniteSet(s)
  BY <1>2, <1>3, AnyIsIn, FS_Subset
<1>5. SumFunctionOnSet(w, s) = w[Any(s)] + SumFunctionOnSet(w, s \ {Any(s)})
  BY <1>3, <1>4, SumUnfolds
<1>6. SumFunctionOnSet(w, s \ {Any(s)}) \in Nat
  BY <1>2, <1>4
<1>7. w[Any(s)] \in Nat
  BY <1>2, <1>4
<1> QED BY <1>2, <1>5, <1>6, <1>7

\* Any element can be taken first.
LEMMA SumStep ==
    ASSUME NEW w, NEW S, IsFiniteSet(S), \A y \in S : w[y] \in Nat, NEW x \in S
    PROVE  SumFunctionOnSet(w, S) = w[x] + SumFunctionOnSet(w, S \ {x})
<1> DEFINE B == {s \in SUBSET S : \E y \in s :
                    SumFunctionOnSet(w, s) # w[y] + SumFunctionOnSet(w, s \ {y})}
<1>1. SUFFICES ASSUME B # {} PROVE FALSE
  OBVIOUS
<1>2. PICK s \in B : \A r \in B : r \subseteq s => r = s
  <2> HIDE DEF B
  <2>1. B \in SUBSET SUBSET S
    BY DEF B
  <2> QED BY <1>1, <2>1, SmallestSet
<1>3. PICK y \in s : SumFunctionOnSet(w, s) # w[y] + SumFunctionOnSet(w, s \ {y})
  BY <1>2
<1>4. Any(s) \in s /\ IsFiniteSet(s)
  BY <1>2, AnyIsIn, FS_Subset
<1>5. SumFunctionOnSet(w, s) = w[Any(s)] + SumFunctionOnSet(w, s \ {Any(s)})
  BY <1>4, SumUnfolds
<1>6. y # Any(s)
  BY <1>3, <1>5
<1> DEFINE a == s \ {Any(s)}
           b == s \ {y}
<1>7. a \in SUBSET S /\ a \subseteq s /\ a # s /\ y \in a
  BY <1>2, <1>3, <1>4, <1>6
<1>8. b \in SUBSET S /\ b \subseteq s /\ b # s /\ Any(s) \in b
  BY <1>2, <1>3, <1>4, <1>6
<1>9. SumFunctionOnSet(w, a) = w[y] + SumFunctionOnSet(w, a \ {y})
  <2> HIDE DEF a
  <2> QED BY <1>2, <1>7
<1>10. SumFunctionOnSet(w, b) = w[Any(s)] + SumFunctionOnSet(w, b \ {Any(s)})
  <2> HIDE DEF b
  <2> QED BY <1>2, <1>8
<1>11. a \ {y} = b \ {Any(s)}
  OBVIOUS
<1>12. SumFunctionOnSet(w, a \ {y}) \in Nat
  <2>1. IsFiniteSet(a \ {y}) /\ \A z \in a \ {y} : w[z] \in Nat
    BY <1>2, <1>4, FS_Subset
  <2> HIDE DEF a
  <2> QED BY <2>1, SumNat
<1>13. w[y] \in Nat /\ w[Any(s)] \in Nat
  BY <1>2, <1>3, <1>4
<1> HIDE DEF a, b
<1> QED BY <1>3, <1>5, <1>9, <1>10, <1>11, <1>12, <1>13 DEF a, b

LEMMA SumSame ==
    ASSUME NEW v, NEW w, NEW S, IsFiniteSet(S), \A x \in S : v[x] = w[x]
    PROVE  SumFunctionOnSet(v, S) = SumFunctionOnSet(w, S)
<1> DEFINE B == {s \in SUBSET S : SumFunctionOnSet(v, s) # SumFunctionOnSet(w, s)}
<1>1. SUFFICES ASSUME B # {} PROVE FALSE
  OBVIOUS
<1>2. PICK s \in B : \A r \in B : r \subseteq s => r = s
  <2> HIDE DEF B
  <2>1. B \in SUBSET SUBSET S
    BY DEF B
  <2> QED BY <1>1, <2>1, SmallestSet
<1>3. s # {}
  BY <1>2, SumEmpty
<1>4. Any(s) \in s /\ IsFiniteSet(s)
  BY <1>2, <1>3, AnyIsIn, FS_Subset
<1>5. /\ SumFunctionOnSet(v, s) = v[Any(s)] + SumFunctionOnSet(v, s \ {Any(s)})
      /\ SumFunctionOnSet(w, s) = w[Any(s)] + SumFunctionOnSet(w, s \ {Any(s)})
  BY <1>3, <1>4, SumUnfolds
<1>6. SumFunctionOnSet(v, s \ {Any(s)}) = SumFunctionOnSet(w, s \ {Any(s)})
  BY <1>2, <1>4
<1> QED BY <1>2, <1>4, <1>5, <1>6

\* The sum of sums, and so a greater sum of greater terms.
LEMMA SumOfSums ==
    ASSUME NEW u, NEW v, NEW w, NEW S, IsFiniteSet(S),
           \A x \in S : v[x] \in Nat /\ w[x] \in Nat /\ u[x] = v[x] + w[x]
    PROVE  SumFunctionOnSet(u, S) = SumFunctionOnSet(v, S) + SumFunctionOnSet(w, S)
<1> DEFINE B == {s \in SUBSET S :
                    SumFunctionOnSet(u, s) # SumFunctionOnSet(v, s) + SumFunctionOnSet(w, s)}
<1>1. SUFFICES ASSUME B # {} PROVE FALSE
  OBVIOUS
<1>2. PICK s \in B : \A r \in B : r \subseteq s => r = s
  <2> HIDE DEF B
  <2>1. B \in SUBSET SUBSET S
    BY DEF B
  <2> QED BY <1>1, <2>1, SmallestSet
<1>3. s # {}
  <2> SUFFICES ASSUME s = {} PROVE FALSE
    OBVIOUS
  <2>1. SumFunctionOnSet(u, {}) = 0 /\ SumFunctionOnSet(v, {}) = 0 /\ SumFunctionOnSet(w, {}) = 0
    BY SumEmpty
  <2> QED BY <1>2, <2>1
<1>4. Any(s) \in s /\ IsFiniteSet(s) /\ IsFiniteSet(s \ {Any(s)})
  BY <1>2, <1>3, AnyIsIn, FS_Subset
<1>5. /\ SumFunctionOnSet(u, s) = u[Any(s)] + SumFunctionOnSet(u, s \ {Any(s)})
      /\ SumFunctionOnSet(v, s) = v[Any(s)] + SumFunctionOnSet(v, s \ {Any(s)})
      /\ SumFunctionOnSet(w, s) = w[Any(s)] + SumFunctionOnSet(w, s \ {Any(s)})
  BY <1>3, <1>4, SumUnfolds
<1>6. SumFunctionOnSet(u, s \ {Any(s)})
        = SumFunctionOnSet(v, s \ {Any(s)}) + SumFunctionOnSet(w, s \ {Any(s)})
  BY <1>2, <1>4
<1>7. SumFunctionOnSet(v, s \ {Any(s)}) \in Nat /\ SumFunctionOnSet(w, s \ {Any(s)}) \in Nat
  BY <1>2, <1>4, SumNat
<1>8. v[Any(s)] \in Nat /\ w[Any(s)] \in Nat /\ u[Any(s)] = v[Any(s)] + w[Any(s)]
  BY <1>2, <1>4
<1> QED BY <1>2, <1>5, <1>6, <1>7, <1>8

LEMMA SumGrows ==
    ASSUME NEW v, NEW w, NEW S, IsFiniteSet(S),
           \A x \in S : v[x] \in Nat /\ w[x] \in Nat /\ v[x] <= w[x]
    PROVE  SumFunctionOnSet(v, S) <= SumFunctionOnSet(w, S)
<1> DEFINE d == [x \in S |-> w[x] - v[x]]
<1>1. \A x \in S : v[x] \in Nat /\ d[x] \in Nat /\ w[x] = v[x] + d[x]
  OBVIOUS
<1> HIDE DEF d
<1>2. SumFunctionOnSet(w, S) = SumFunctionOnSet(v, S) + SumFunctionOnSet(d, S)
  BY <1>1, SumOfSums
<1>3. SumFunctionOnSet(v, S) \in Nat /\ SumFunctionOnSet(d, S) \in Nat
  BY <1>1, SumNat
<1> QED BY <1>2, <1>3

\* The sum over a set is the sum over its parts.
LEMMA SumParts ==
    ASSUME NEW w, NEW S, IsFiniteSet(S), \A x \in S : w[x] \in Nat, NEW T \in SUBSET S
    PROVE  SumFunctionOnSet(w, S) = SumFunctionOnSet(w, T) + SumFunctionOnSet(w, S \ T)
<1> DEFINE B == {s \in SUBSET T : SumFunctionOnSet(w, S)
                    # SumFunctionOnSet(w, s) + SumFunctionOnSet(w, S \ s)}
<1>1. SUFFICES ASSUME B # {} PROVE FALSE
  OBVIOUS
<1>2. PICK s \in B : \A r \in B : r \subseteq s => r = s
  <2> HIDE DEF B
  <2>1. B \in SUBSET SUBSET T /\ IsFiniteSet(T)
    BY FS_Subset DEF B
  <2> QED BY <1>1, <2>1, SmallestSet
<1>0. SumFunctionOnSet(w, S) \in Nat
  BY SumNat
<1>3. s # {}
  <2> SUFFICES ASSUME s = {} PROVE FALSE
    OBVIOUS
  <2>1. S \ s = S
    OBVIOUS
  <2> QED BY <1>0, <1>2, <2>1, SumEmpty
<1>4. PICK x \in s : TRUE
  BY <1>3
<1> DEFINE r == s \ {x}
<1>5. r \in SUBSET T /\ r \subseteq s /\ r # s
  BY <1>2, <1>4
<1>6. SumFunctionOnSet(w, S) = SumFunctionOnSet(w, r) + SumFunctionOnSet(w, S \ r)
  <2> HIDE DEF r
  <2> QED BY <1>2, <1>5
<1>7. SumFunctionOnSet(w, s) = w[x] + SumFunctionOnSet(w, r)
  <2>1. IsFiniteSet(s) /\ \A y \in s : w[y] \in Nat
    BY <1>2, FS_Subset
  <2> QED BY <1>4, <2>1, SumStep
<1>8. SumFunctionOnSet(w, S \ r) = w[x] + SumFunctionOnSet(w, S \ s)
  <2>1. IsFiniteSet(S \ r) /\ x \in S \ r /\ (S \ r) \ {x} = S \ s
    BY <1>2, <1>4, FS_Subset
  <2>2. \A y \in S \ r : w[y] \in Nat
    OBVIOUS
  <2> HIDE DEF r
  <2>3. SumFunctionOnSet(w, S \ r) = w[x] + SumFunctionOnSet(w, (S \ r) \ {x})
    BY <2>1, <2>2, SumStep
  <2> QED BY <2>1, <2>3
<1>9. SumFunctionOnSet(w, r) \in Nat /\ SumFunctionOnSet(w, S \ s) \in Nat /\ w[x] \in Nat
  <2>1. r \in SUBSET S /\ S \ s \in SUBSET S /\ x \in S
    BY <1>2, <1>4
  <2>2. IsFiniteSet(r) /\ IsFiniteSet(S \ s)
    BY <2>1, FS_Subset
  <2> HIDE DEF r
  <2> QED BY <2>1, <2>2, SumNat
<1> HIDE DEF r
<1> QED BY <1>2, <1>6, <1>7, <1>8, <1>9

\* A sum with one term changed.
LEMMA SumChange ==
    ASSUME NEW v, NEW w, NEW S, IsFiniteSet(S), NEW x \in S,
           \A y \in S : v[y] \in Nat /\ w[y] \in Nat, \A y \in S \ {x} : v[y] = w[y]
    PROVE  SumFunctionOnSet(v, S) + w[x] = SumFunctionOnSet(w, S) + v[x]
<1>1. IsFiniteSet(S \ {x})
  BY FS_Subset
<1>2. SumFunctionOnSet(v, S \ {x}) = SumFunctionOnSet(w, S \ {x})
  BY <1>1, SumSame
<1>3. SumFunctionOnSet(v, S \ {x}) \in Nat
  BY <1>1, SumNat
<1>4. /\ SumFunctionOnSet(v, S) = v[x] + SumFunctionOnSet(v, S \ {x})
      /\ SumFunctionOnSet(w, S) = w[x] + SumFunctionOnSet(w, S \ {x})
  BY SumStep
<1> QED BY <1>2, <1>3, <1>4

-----------------------------------------------------------------------------
(* The size of the blocks *)

LEMMA Constants ==
    /\ IsFiniteSet(Fn) /\ IsFiniteSet(Chunk) /\ Nil \notin Chunk
    /\ IsFiniteSet(Array)
    /\ "inst" \in Array /\ "line" \in Array /\ "kval" \in Array /\ "lz" \in Array
    /\ \A a \in Array : Align[a] \in Nat \ {0}
    /\ ChunkSize \in Nat /\ FuncSize \in Nat /\ Words \in Nat \ {0}
<1>1. IsFiniteSet({"inst", "line", "kval", "lz"})
  <2>1. IsFiniteSet({"inst"})
    BY FS_Singleton
  <2>2. IsFiniteSet({"inst"} \cup {"line"})
    BY <2>1, FS_AddElement
  <2>3. IsFiniteSet(({"inst"} \cup {"line"}) \cup {"kval"})
    BY <2>2, FS_AddElement
  <2>4. IsFiniteSet((({"inst"} \cup {"line"}) \cup {"kval"}) \cup {"lz"})
    BY <2>3, FS_AddElement
  <2>5. (({"inst"} \cup {"line"}) \cup {"kval"}) \cup {"lz"} = {"inst", "line", "kval", "lz"}
    OBVIOUS
  <2> QED BY <2>4, <2>5
<1> QED BY <1>1, AccountAssumption DEF Array

\* What arrays of these sizes take, and a chunk with them.
Items(size) == SumFunctionOnSet(size, Array)
Sizes == [Chunk -> [Array -> Nat]]
Price(size) == [c \in Chunk |-> ChunkSize + Items(size[c])]

LEMMA ItemsNat == ASSUME NEW s \in [Array -> Nat] PROVE Items(s) \in Nat
BY SumNat, Constants DEF Items

LEMMA ItemsOfEmpty == Items(Empty) = 0
<1>1. Empty \in [Array -> Nat] /\ \A a \in Array : Empty[a] = Empty[a] + Empty[a]
  BY DEF Empty
<1>2. Items(Empty) \in Nat
  BY <1>1, ItemsNat
<1>3. Items(Empty) = Items(Empty) + Items(Empty)
  <2>1. \A a \in Array : Empty[a] \in Nat /\ Empty[a] \in Nat /\ Empty[a] = Empty[a] + Empty[a]
    BY <1>1
  <2> QED BY SMTT(60), <2>1, Constants, SumOfSums DEF Items
<1>4. \A n \in Nat : n = n + n => n = 0
  OBVIOUS
<1> QED BY Zenon, <1>2, <1>3, <1>4

LEMMA PriceNat ==
    ASSUME NEW size \in Sizes
    PROVE  \A c \in Chunk : Price(size)[c] \in Nat
<1>1. ASSUME NEW c \in Chunk PROVE Price(size)[c] \in Nat
  <2>1. Items(size[c]) \in Nat
    BY ItemsNat DEF Sizes
  <2> QED BY <2>1, Constants DEF Price
<1> QED BY <1>1

LEMMA BytesIs ==
    ASSUME NEW size \in Sizes, NEW C \in SUBSET Chunk
    PROVE  /\ Bytes(size, C) = SumFunctionOnSet(Price(size), C)
           /\ Bytes(size, C) \in Nat
<1> DEFINE w == [c \in C |-> ChunkSize + SumFunction(size[c])]
<1>1. IsFiniteSet(C)
  BY FS_Subset, Constants
<1>2. Bytes(size, C) = SumFunctionOnSet(w, C)
  BY DEF Bytes, SumFunction
<1>3. \A c \in C : w[c] = Price(size)[c]
  <2> SUFFICES ASSUME NEW c \in C PROVE SumFunction(size[c]) = Items(size[c])
    BY DEF Price
  <2>1. DOMAIN size[c] = Array
    BY DEF Sizes
  <2> QED BY <2>1 DEF SumFunction, Items
<1> HIDE DEF w
<1>4. Bytes(size, C) = SumFunctionOnSet(Price(size), C)
  BY <1>1, <1>2, <1>3, SumSame
<1>5. SumFunctionOnSet(Price(size), C) \in Nat
  BY <1>1, PriceNat, SumNat
<1> QED BY <1>4, <1>5

LEMMA BytesParts ==
    ASSUME NEW size \in Sizes, NEW C \in SUBSET Chunk, NEW D \in SUBSET C
    PROVE  Bytes(size, C) = Bytes(size, D) + Bytes(size, C \ D)
<1>1. IsFiniteSet(C) /\ \A c \in C : Price(size)[c] \in Nat
  BY FS_Subset, Constants, PriceNat
<1>2. SumFunctionOnSet(Price(size), C)
        = SumFunctionOnSet(Price(size), D) + SumFunctionOnSet(Price(size), C \ D)
  BY <1>1, SumParts
<1> QED BY <1>2, BytesIs

LEMMA BytesSame ==
    ASSUME NEW size \in Sizes, NEW more \in Sizes, NEW C \in SUBSET Chunk,
           \A c \in C : size[c] = more[c]
    PROVE  Bytes(size, C) = Bytes(more, C)
<1>1. IsFiniteSet(C) /\ \A c \in C : Price(size)[c] = Price(more)[c]
  BY FS_Subset, Constants DEF Price
<1>2. SumFunctionOnSet(Price(size), C) = SumFunctionOnSet(Price(more), C)
  BY <1>1, SumSame
<1> QED BY <1>2, BytesIs

LEMMA BytesGrow ==
    ASSUME NEW size \in Sizes, NEW more \in Sizes, NEW C \in SUBSET Chunk,
           \A c \in C, a \in Array : size[c][a] <= more[c][a]
    PROVE  Bytes(size, C) <= Bytes(more, C)
<1>1. IsFiniteSet(C)
  BY FS_Subset, Constants
<1>2. ASSUME NEW c \in C PROVE Price(size)[c] <= Price(more)[c]
  <2>1. size[c] \in [Array -> Nat] /\ more[c] \in [Array -> Nat]
    BY DEF Sizes
  <2>2. Items(size[c]) \in Nat /\ Items(more[c]) \in Nat
    BY <2>1, ItemsNat
  <2>3. \A a \in Array : size[c][a] \in Nat /\ more[c][a] \in Nat /\ size[c][a] <= more[c][a]
    BY <2>1
  <2>4. Items(size[c]) <= Items(more[c])
    BY <2>3, Constants, SumGrows DEF Items
  <2> QED BY <2>2, <2>4, Constants DEF Price
<1>3. \A c \in C : /\ Price(size)[c] \in Nat /\ Price(more)[c] \in Nat
                   /\ Price(size)[c] <= Price(more)[c]
  BY <1>2, PriceNat
<1>4. SumFunctionOnSet(Price(size), C) <= SumFunctionOnSet(Price(more), C)
  BY <1>1, <1>3, SumGrows
<1> QED BY <1>4, BytesIs

\* One chunk has other arrays.
LEMMA BytesChange ==
    ASSUME NEW size \in Sizes, NEW more \in Sizes, NEW C \in SUBSET Chunk, NEW c \in C,
           \A d \in C \ {c} : size[d] = more[d]
    PROVE  Bytes(size, C) + Items(more[c]) = Bytes(more, C) + Items(size[c])
<1>1. IsFiniteSet(C)
  BY FS_Subset, Constants
<1>2. \A d \in C \ {c} : Price(size)[d] = Price(more)[d]
  BY DEF Price
<1>3. \A d \in C : Price(size)[d] \in Nat /\ Price(more)[d] \in Nat
  BY PriceNat
<1>4. SumFunctionOnSet(Price(size), C) + Price(more)[c]
        = SumFunctionOnSet(Price(more), C) + Price(size)[c]
  BY <1>1, <1>2, <1>3, SumChange
<1>5. /\ Price(size)[c] = ChunkSize + Items(size[c])
      /\ Price(more)[c] = ChunkSize + Items(more[c])
  BY DEF Price
<1>6. Items(size[c]) \in Nat /\ Items(more[c]) \in Nat /\ ChunkSize \in Nat
  BY ItemsNat, Constants DEF Sizes
<1>7. Bytes(size, C) \in Nat /\ Bytes(more, C) \in Nat
  BY BytesIs
<1>8. /\ Bytes(size, C) = SumFunctionOnSet(Price(size), C)
      /\ Bytes(more, C) = SumFunctionOnSet(Price(more), C)
  BY BytesIs
<1> QED BY <1>4, <1>5, <1>6, <1>7, <1>8

LEMMA BytesOfOne ==
    ASSUME NEW size \in Sizes, NEW c \in Chunk
    PROVE  Bytes(size, {c}) = ChunkSize + Items(size[c])
<1>1. IsFiniteSet({c}) /\ \A d \in {c} : Price(size)[d] \in Nat
  BY FS_Singleton, PriceNat
<1>2. SumFunctionOnSet(Price(size), {c}) = Price(size)[c] + SumFunctionOnSet(Price(size), {c} \ {c})
  BY <1>1, SumStep
<1>3. {c} \ {c} = {} /\ Price(size)[c] \in Nat
  BY <1>1
<1>4. SumFunctionOnSet(Price(size), {}) = 0
  BY SumEmpty
<1>5. SumFunctionOnSet(Price(size), {c}) = Price(size)[c]
  BY <1>2, <1>3, <1>4
<1>6. Price(size)[c] = ChunkSize + Items(size[c])
  BY DEF Price
<1> QED BY <1>5, <1>6, BytesIs

-----------------------------------------------------------------------------
(* The memory between the calls *)

Alive(n) == {f \in Fn : n.core[f] # Nil}
Shares(n, c) == {f \in Fn : n.core[f] = c}
There(n) == {c \in Chunk : n.ref[c] > 0}
Owned(n, R) == {c \in Chunk : \E f \in R : n.core[f] = c}
Loose(n) == {c \in Chunk : n.cap[c] # n.num[c]}

\* Every chunk is counted, what is not there is empty, an array has room for its
\* items, and the constants of a chunk are there.
Sound(n) ==
    /\ n \in Memory
    /\ \A c \in Chunk : n.ref[c] = Cardinality(Shares(n, c))
    /\ \A c \in Chunk : n.ref[c] = 0 => n.num[c] = Empty /\ n.cap[c] = Empty /\ n.consts[c] = {}
    /\ \A c \in Chunk, a \in Array : n.num[c][a] <= n.cap[c][a]
    /\ \A c \in Chunk : n.consts[c] \subseteq Alive(n)

\* The blocks take this much; the account has k more, and exactly so if `exact'.
Size(n) == FuncSize * Cardinality(Alive(n)) + Bytes(n.cap, There(n)) + n.live + n.junk
Pays(n, k, exact) ==
    /\ n.used >= Size(n) + k
    /\ exact => n.used = Size(n) + k

\* What a call that may collect leaves of the memory: the functions of R and their
\* chunks, but for the arrays of D.
Later(n, q, R, D) ==
    /\ \A f \in R : q.core[f] = n.core[f]
    /\ \A f \in Fn : q.core[f] \in {n.core[f], Nil}
    /\ \A c \in Owned(n, R) : q.consts[c] = n.consts[c]
    /\ \A c \in Owned(n, R) \ D : q.num[c] = n.num[c] /\ q.cap[c] = n.cap[c]
    /\ \A c \in Chunk : n.ref[c] = 0 => q.ref[c] = 0
    /\ Loose(q) \subseteq Loose(n) \cup D
    /\ q.live = n.live

LEMMA Fields ==
    ASSUME NEW n \in Memory
    PROVE  /\ n.used \in Nat /\ n.live \in Nat /\ n.junk \in Nat /\ n.threshold \in 0 .. Words - 1
           /\ n.num \in Sizes /\ n.cap \in Sizes
           /\ n.core \in [Fn -> Chunk \cup {Nil}] /\ n.ref \in [Chunk -> Nat]
           /\ n.consts \in [Chunk -> SUBSET Fn]
BY DEF Memory, Sizes

LEMMA Counts ==
    ASSUME NEW n \in Memory
    PROVE  /\ IsFiniteSet(Alive(n)) /\ Cardinality(Alive(n)) \in Nat
           /\ There(n) \in SUBSET Chunk
           /\ Bytes(n.cap, There(n)) \in Nat
           /\ FuncSize * Cardinality(Alive(n)) \in Nat
           /\ Size(n) \in Nat
<1>1. IsFiniteSet(Alive(n)) /\ Cardinality(Alive(n)) \in Nat
  <2>1. Alive(n) \in SUBSET Fn
    BY DEF Alive
  <2> QED BY <2>1, Constants, FS_Subset, FS_CardinalityType
<1>2. There(n) \in SUBSET Chunk
  BY DEF There
<1>3. Bytes(n.cap, There(n)) \in Nat
  BY <1>2, BytesIs, Fields
<1>4. FuncSize * Cardinality(Alive(n)) \in Nat
  <2>1. \A x, y \in Nat : x * y \in Nat
    OBVIOUS
  <2> QED BY <2>1, <1>1, Constants
<1> QED BY <1>1, <1>2, <1>3, <1>4, Fields DEF Size

\* A chunk that is referred to has a function, and the other way round.
LEMMA Counted ==
    ASSUME NEW n, Sound(n), NEW c \in Chunk
    PROVE  /\ n.ref[c] \in Nat
           /\ n.ref[c] = 0 <=> Shares(n, c) = {}
           /\ n.ref[c] > 0 <=> \E f \in Fn : n.core[f] = c
<1>1. Shares(n, c) \in SUBSET Fn
  BY DEF Shares
<1>2. IsFiniteSet(Shares(n, c))
  BY <1>1, Constants, FS_Subset
<1>3. n.ref[c] = 0 <=> Shares(n, c) = {}
  BY <1>2, FS_EmptySet DEF Sound
<1>4. n.ref[c] \in Nat
  BY Fields DEF Sound
<1>5. Shares(n, c) # {} <=> \E f \in Fn : n.core[f] = c
  BY DEF Shares
<1> QED BY <1>3, <1>4, <1>5

LEMMA OwnedIsThere ==
    ASSUME NEW n, Sound(n), NEW R \in SUBSET Fn
    PROVE  Owned(n, R) \subseteq There(n)
BY Counted DEF Owned, There

-----------------------------------------------------------------------------
(* Collection *)

\* func_final of dead functions that no constant of the others refers to.
Unneeded(n, dead) ==
    /\ dead \subseteq Alive(n)
    /\ \A f \in Alive(n) \ dead : n.consts[n.core[f]] \cap dead = {}
Gone(n, dead) == {c \in There(n) : Shares(n, c) \subseteq dead}

IsFinal(n, dead, q) ==
    /\ \A c \in Chunk : q.ref[c] = Cardinality(Shares(n, c) \ dead)
    /\ q.ref \in [Chunk -> Nat]
    /\ q.core = [f \in Fn |-> IF f \in dead THEN Nil ELSE n.core[f]]
    /\ q.num = [c \in Chunk |-> IF c \in Gone(n, dead) THEN Empty ELSE n.num[c]]
    /\ q.cap = [c \in Chunk |-> IF c \in Gone(n, dead) THEN Empty ELSE n.cap[c]]
    /\ q.consts = [c \in Chunk |-> IF c \in Gone(n, dead) THEN {} ELSE n.consts[c]]
    /\ q.threshold = n.threshold /\ q.live = n.live /\ q.junk = n.junk
    /\ q.used = n.used - (FuncSize * Cardinality(dead) + Bytes(n.num, Gone(n, dead)))
    /\ q = [used |-> q.used, threshold |-> q.threshold, core |-> q.core, ref |-> q.ref,
            num |-> q.num, cap |-> q.cap, consts |-> q.consts,
            live |-> q.live, junk |-> q.junk]

LEMMA FinalIs ==
    ASSUME NEW n, Sound(n), NEW dead, Unneeded(n, dead), NEW q, q = Final(n, dead)
    PROVE  IsFinal(n, dead, q)
<1> DEFINE drops(c) == Cardinality({f \in dead : n.core[f] = c})
           gone == {c \in Chunk : drops(c) > 0 /\ n.ref[c] <= drops(c)}
           freed == FuncSize * Cardinality(dead) + Bytes(n.num, gone)
<1>1. n \in Memory /\ dead \in SUBSET Fn
  BY DEF Sound, Unneeded, Alive
<1>2. ASSUME NEW c \in Chunk
      PROVE  /\ drops(c) \in Nat
             /\ drops(c) > 0 <=> \E f \in dead : n.core[f] = c
             /\ n.ref[c] = Cardinality(Shares(n, c) \ dead) + drops(c)
             /\ Cardinality(Shares(n, c) \ dead) \in Nat
             /\ Cardinality(Shares(n, c) \ dead) = 0 <=> Shares(n, c) \subseteq dead
  <2> DEFINE A == {f \in dead : n.core[f] = c}
             S == Shares(n, c)
  <2>1. A \in SUBSET Fn /\ S \in SUBSET Fn /\ S \cap dead = A
    BY <1>1 DEF Shares
  <2>2. IsFiniteSet(A) /\ IsFiniteSet(S) /\ IsFiniteSet(S \ dead)
    <3>1. S \ dead \in SUBSET Fn
      BY <2>1
    <3> QED BY <2>1, <3>1, Constants, FS_Subset
  <2>3. /\ Cardinality(S) \in Nat /\ Cardinality(A) \in Nat /\ Cardinality(S \ dead) \in Nat
    BY <2>2, FS_CardinalityType
  <2>4. Cardinality(S \ dead) = Cardinality(S) - Cardinality(A)
    <3> HIDE DEF S, A
    <3>1. Cardinality(S \ dead) = Cardinality(S) - Cardinality(S \cap dead)
      BY <2>2, FS_Difference
    <3> QED BY <3>1, <2>1
  <2>5. Cardinality(A) = 0 <=> A = {}
    <3> HIDE DEF A
    <3> QED BY <2>2, FS_EmptySet
  <2>6. Cardinality(S \ dead) = 0 <=> S \ dead = {}
    <3> HIDE DEF S
    <3> QED BY <2>2, FS_EmptySet
  <2>7. n.ref[c] = Cardinality(S)
    BY DEF Sound
  <2>8. A # {} <=> \E f \in dead : n.core[f] = c
    OBVIOUS
  <2>9. S \ dead = {} <=> S \subseteq dead
    OBVIOUS
  <2>10. drops(c) = Cardinality(A)
    OBVIOUS
  <2> HIDE DEF A, drops, S
  <2>11. drops(c) > 0 <=> \E f \in dead : n.core[f] = c
    BY <2>3, <2>5, <2>8, <2>10
  <2>12. n.ref[c] = Cardinality(S \ dead) + drops(c)
    BY <2>3, <2>4, <2>7, <2>10
  <2> QED BY <2>3, <2>6, <2>9, <2>10, <2>11, <2>12 DEF S
<1>3. gone = Gone(n, dead)
  <2> SUFFICES ASSUME NEW c \in Chunk
               PROVE  drops(c) > 0 /\ n.ref[c] <= drops(c)
                        <=> n.ref[c] > 0 /\ Shares(n, c) \subseteq dead
    BY DEF Gone, There
  <2> DEFINE left == Cardinality(Shares(n, c) \ dead)
  <2>1. /\ drops(c) \in Nat /\ n.ref[c] = left + drops(c) /\ left \in Nat
        /\ left = 0 <=> Shares(n, c) \subseteq dead
    BY <1>2
  <2> HIDE DEF drops, left
  <2> QED BY <2>1
<1>4. q = [n EXCEPT !.used = @ - freed,
                 !.core = [f \in Fn |-> IF f \in dead THEN Nil ELSE @[f]],
                 !.ref = [c \in Chunk |-> @[c] - drops(c)],
                 !.num = [c \in Chunk |-> IF c \in gone THEN Empty ELSE @[c]],
                 !.cap = [c \in Chunk |-> IF c \in gone THEN Empty ELSE @[c]],
                 !.consts = [c \in Chunk |-> IF c \in gone THEN {} ELSE @[c]]]
  BY DEF Final
<1> HIDE DEF gone, drops
<1>5. /\ q.ref = [c \in Chunk |-> n.ref[c] - drops(c)]
      /\ q.core = [f \in Fn |-> IF f \in dead THEN Nil ELSE n.core[f]]
      /\ q.num = [c \in Chunk |-> IF c \in gone THEN Empty ELSE n.num[c]]
      /\ q.cap = [c \in Chunk |-> IF c \in gone THEN Empty ELSE n.cap[c]]
      /\ q.consts = [c \in Chunk |-> IF c \in gone THEN {} ELSE n.consts[c]]
      /\ q.threshold = n.threshold /\ q.live = n.live /\ q.junk = n.junk
      /\ q.used = n.used - freed
      /\ q = [used |-> q.used, threshold |-> q.threshold, core |-> q.core, ref |-> q.ref,
              num |-> q.num, cap |-> q.cap, consts |-> q.consts,
              live |-> q.live, junk |-> q.junk]
  BY <1>1, <1>4 DEF Memory
<1>6. ASSUME NEW c \in Chunk
      PROVE  q.ref[c] = Cardinality(Shares(n, c) \ dead) /\ q.ref[c] \in Nat
  <2>1. q.ref[c] = n.ref[c] - drops(c)
    BY <1>5
  <2>2. /\ drops(c) \in Nat /\ n.ref[c] = Cardinality(Shares(n, c) \ dead) + drops(c)
        /\ Cardinality(Shares(n, c) \ dead) \in Nat
    BY <1>2
  <2> QED BY <2>1, <2>2
<1>7. q.ref \in [Chunk -> Nat]
  BY <1>5, <1>6
<1> QED BY <1>3, <1>5, <1>6, <1>7 DEF IsFinal

LEMMA FinalLeaves ==
    ASSUME NEW n, Sound(n), NEW dead, Unneeded(n, dead), NEW q, q = Final(n, dead)
    PROVE  /\ Alive(q) = Alive(n) \ dead
           /\ There(q) = There(n) \ Gone(n, dead)
           /\ \A c \in Chunk : Shares(q, c) = Shares(n, c) \ dead
<1>0. IsFinal(n, dead, q)
  BY FinalIs
<1>1. n \in Memory /\ dead \in SUBSET Fn
  BY DEF Sound, Unneeded, Alive
<1>2. q.core = [f \in Fn |-> IF f \in dead THEN Nil ELSE n.core[f]]
  BY <1>0 DEF IsFinal
<1>3. Alive(q) = Alive(n) \ dead
  BY <1>2 DEF Alive
<1>4. \A c \in Chunk : Shares(q, c) = Shares(n, c) \ dead
  BY <1>2, Constants DEF Shares
<1>5. ASSUME NEW c \in Chunk
      PROVE  q.ref[c] > 0 <=> n.ref[c] > 0 /\ ~ (Shares(n, c) \subseteq dead)
  <2>1. q.ref[c] = Cardinality(Shares(n, c) \ dead)
    BY <1>0 DEF IsFinal
  <2>2. IsFiniteSet(Shares(n, c) \ dead)
    <3>1. Shares(n, c) \ dead \in SUBSET Fn
      BY DEF Shares
    <3> QED BY <3>1, Constants, FS_Subset
  <2>3. q.ref[c] \in Nat /\ (q.ref[c] = 0 <=> Shares(n, c) \ dead = {})
    BY <2>1, <2>2, FS_EmptySet, FS_CardinalityType
  <2>4. n.ref[c] > 0 <=> Shares(n, c) # {}
    BY Counted
  <2> QED BY <2>3, <2>4
<1>6. There(q) = There(n) \ Gone(n, dead)
  BY <1>5 DEF There, Gone
<1> QED BY <1>3, <1>4, <1>6

LEMMA FinalPays ==
    ASSUME NEW n, Sound(n), NEW dead, Unneeded(n, dead), NEW q, q = Final(n, dead),
           NEW k \in Nat, NEW exact \in BOOLEAN, Pays(n, k, exact),
           exact => Loose(n) \cap Gone(n, dead) = {}
    PROVE  /\ q.used \in Nat
           /\ q.used >= Size(q) + k
           /\ exact => q.used = Size(q) + k
           /\ Size(q) \in Nat
<1>0. IsFinal(n, dead, q)
  BY FinalIs
<1>1. n \in Memory /\ dead \in SUBSET Alive(n)
  BY DEF Sound, Unneeded, Alive
<1> DEFINE gone == Gone(n, dead)
           A == Cardinality(Alive(n))
           D == Cardinality(dead)
<1>2. /\ q.live = n.live /\ q.junk = n.junk
      /\ q.used = n.used - (FuncSize * D + Bytes(n.num, gone))
      /\ q.cap = [c \in Chunk |-> IF c \in gone THEN Empty ELSE n.cap[c]]
  BY <1>0 DEF IsFinal
<1>3. /\ n.used \in Nat /\ n.live \in Nat /\ n.junk \in Nat
      /\ n.num \in Sizes /\ n.cap \in Sizes
  BY <1>1, Fields
<1>4. q.cap \in Sizes
  BY <1>2, <1>3 DEF Sizes, Empty
<1>5. There(n) \in SUBSET Chunk /\ gone \in SUBSET There(n) /\ There(q) = There(n) \ gone
  BY FinalLeaves DEF There, Gone
<1>6. IsFiniteSet(dead) /\ D \in Nat /\ A \in Nat /\ Cardinality(Alive(q)) = A - D
  <2>1. IsFiniteSet(Alive(n)) /\ A \in Nat
    BY <1>1, Counts
  <2>2. IsFiniteSet(dead) /\ D \in Nat
    BY <1>1, <2>1, FS_Subset, FS_CardinalityType
  <2>3. Alive(q) = Alive(n) \ dead /\ Alive(n) \cap dead = dead
    BY <1>1, FinalLeaves
  <2>4. Cardinality(Alive(n) \ dead) = Cardinality(Alive(n)) - Cardinality(Alive(n) \cap dead)
    BY <2>1, FS_Difference
  <2> QED BY <2>1, <2>2, <2>3, <2>4
<1>7. Bytes(n.cap, There(n)) = Bytes(n.cap, gone) + Bytes(q.cap, There(q))
  <2>1. Bytes(n.cap, There(n)) = Bytes(n.cap, gone) + Bytes(n.cap, There(n) \ gone)
    BY <1>3, <1>5, BytesParts
  <2>2. \A c \in There(n) \ gone : n.cap[c] = q.cap[c]
    BY <1>2, <1>5
  <2>3. Bytes(n.cap, There(n) \ gone) = Bytes(q.cap, There(n) \ gone)
    <3> HIDE DEF gone
    <3> QED BY <1>3, <1>4, <1>5, <2>2, BytesSame
  <2> QED BY <1>5, <2>1, <2>3
<1>8. Bytes(n.num, gone) <= Bytes(n.cap, gone)
  <2>1. \A c \in gone, a \in Array : n.num[c][a] <= n.cap[c][a]
    BY <1>5 DEF Sound
  <2> HIDE DEF gone
  <2> QED BY <1>3, <1>5, <2>1, BytesGrow
<1>9. exact => Bytes(n.num, gone) = Bytes(n.cap, gone)
  <2>1. exact => \A c \in gone : n.num[c] = n.cap[c]
    BY <1>5 DEF Loose
  <2> HIDE DEF gone
  <2> QED BY <1>3, <1>5, <2>1, BytesSame
<1>10. /\ Bytes(n.num, gone) \in Nat /\ Bytes(n.cap, gone) \in Nat
       /\ Bytes(q.cap, There(q)) \in Nat
  <2>1. gone \in SUBSET Chunk /\ There(q) \in SUBSET Chunk
    BY <1>5
  <2> HIDE DEF gone
  <2> QED BY <2>1, <1>3, <1>4, BytesIs
<1>11. FuncSize * Cardinality(Alive(q)) = FuncSize * A - FuncSize * D
  <2>1. \A x, y, z \in Nat : x * (y - z) = x * y - x * z
    OBVIOUS
  <2> HIDE DEF A, D
  <2> QED BY <1>6, <2>1, Constants
<1>12. /\ FuncSize * A \in Nat /\ FuncSize * D \in Nat
       /\ FuncSize * Cardinality(Alive(q)) \in Nat
  <2>1. \A x, y \in Nat : x * y \in Nat
    OBVIOUS
  <2>2. Cardinality(Alive(q)) \in Nat
    <3>1. Alive(q) \in SUBSET Fn
      BY DEF Alive
    <3> QED BY <3>1, Constants, FS_Subset, FS_CardinalityType
  <2> HIDE DEF A, D
  <2> QED BY <1>6, <2>1, <2>2, Constants
<1>13. Size(n) = FuncSize * A + Bytes(n.cap, There(n)) + n.live + n.junk
  BY DEF Size
<1>14. Size(q) = FuncSize * Cardinality(Alive(q)) + Bytes(q.cap, There(q)) + n.live + n.junk
  BY <1>2 DEF Size
<1>15. n.used >= Size(n) + k /\ (exact => n.used = Size(n) + k)
  BY DEF Pays
<1> DEFINE fa == FuncSize * A
           fd == FuncSize * D
           fq == FuncSize * Cardinality(Alive(q))
           bn == Bytes(n.num, gone)
           bc == Bytes(n.cap, gone)
           bq == Bytes(q.cap, There(q))
<1>16. /\ fa \in Nat /\ fd \in Nat /\ fq \in Nat /\ bn \in Nat /\ bc \in Nat /\ bq \in Nat
       /\ fq = fa - fd /\ bn <= bc /\ (exact => bn = bc)
       /\ q.used = n.used - (fd + bn)
       /\ Size(n) = fa + (bc + bq) + n.live + n.junk
       /\ Size(q) = fq + bq + n.live + n.junk
  BY <1>2, <1>7, <1>8, <1>9, <1>10, <1>11, <1>12, <1>13, <1>14
<1> HIDE DEF fa, fd, fq, bn, bc, bq, gone, A, D
<1>17. Size(q) \in Nat
  BY <1>3, <1>16
<1>18. q.used >= Size(q) + k
  BY <1>3, <1>15, <1>16
<1>19. exact => q.used = Size(q) + k
  BY <1>3, <1>15, <1>16
<1>20. q.used \in Nat
  BY <1>3, <1>16, <1>17, <1>18
<1> QED BY <1>17, <1>18, <1>19, <1>20

LEMMA FinalSound ==
    ASSUME NEW n, Sound(n), NEW dead, Unneeded(n, dead), NEW q, q = Final(n, dead),
           q.used \in Nat
    PROVE  Sound(q)
<1>0. IsFinal(n, dead, q)
  BY FinalIs
<1>1. n \in Memory /\ dead \in SUBSET Fn
  BY DEF Sound, Unneeded, Alive
<1> DEFINE gone == Gone(n, dead)
<1>2. /\ q.ref \in [Chunk -> Nat]
      /\ q.core = [f \in Fn |-> IF f \in dead THEN Nil ELSE n.core[f]]
      /\ q.num = [c \in Chunk |-> IF c \in gone THEN Empty ELSE n.num[c]]
      /\ q.cap = [c \in Chunk |-> IF c \in gone THEN Empty ELSE n.cap[c]]
      /\ q.consts = [c \in Chunk |-> IF c \in gone THEN {} ELSE n.consts[c]]
      /\ q.threshold = n.threshold /\ q.live = n.live /\ q.junk = n.junk
  BY <1>0 DEF IsFinal
<1>3. Empty \in [Array -> Nat]
  BY DEF Empty
<1>4. /\ q.core \in [Fn -> Chunk \cup {Nil}] /\ q.num \in Sizes /\ q.cap \in Sizes
      /\ q.consts \in [Chunk -> SUBSET Fn]
  <2>1. /\ n.core \in [Fn -> Chunk \cup {Nil}] /\ n.num \in Sizes /\ n.cap \in Sizes
        /\ n.consts \in [Chunk -> SUBSET Fn]
    BY <1>1, Fields
  <2> HIDE DEF gone
  <2> QED BY <1>2, <1>3, <2>1 DEF Sizes
<1>5. q \in Memory
  <2>1. q = [used |-> q.used, threshold |-> q.threshold, core |-> q.core, ref |-> q.ref,
             num |-> q.num, cap |-> q.cap, consts |-> q.consts, live |-> q.live, junk |-> q.junk]
    BY <1>0 DEF IsFinal
  <2>2. q.threshold \in 0 .. Words - 1 /\ q.live \in Nat /\ q.junk \in Nat
    BY <1>1, <1>2, Fields
  <2> QED BY <1>2, <1>4, <2>1, <2>2 DEF Memory, Sizes
<1>6. \A c \in Chunk : q.ref[c] = Cardinality(Shares(q, c))
  BY <1>0, FinalLeaves DEF IsFinal
<1>7. ASSUME NEW c \in Chunk, q.ref[c] = 0
      PROVE  q.num[c] = Empty /\ q.cap[c] = Empty /\ q.consts[c] = {}
  <2>1. c \notin There(n) \ gone
    BY <1>7, FinalLeaves DEF There
  <2>2. CASE c \in gone
    <3> HIDE DEF gone
    <3> QED BY <1>2, <2>2
  <2>3. CASE c \notin gone
    <3>1. n.ref[c] = 0
      BY <2>1, <2>3, Counted DEF There
    <3>2. n.num[c] = Empty /\ n.cap[c] = Empty /\ n.consts[c] = {}
      BY <3>1 DEF Sound
    <3> HIDE DEF gone
    <3> QED BY <1>2, <2>3, <3>2
  <2> QED BY <2>2, <2>3
<1>8. ASSUME NEW c \in Chunk, NEW a \in Array PROVE q.num[c][a] <= q.cap[c][a]
  <2>1. CASE c \in gone
    <3>1. q.num[c] = Empty /\ q.cap[c] = Empty
      <4> HIDE DEF gone
      <4> QED BY <1>2, <2>1
    <3> QED BY <3>1 DEF Empty
  <2>2. CASE c \notin gone
    <3>1. q.num[c] = n.num[c] /\ q.cap[c] = n.cap[c]
      <4> HIDE DEF gone
      <4> QED BY <1>2, <2>2
    <3> QED BY <3>1 DEF Sound
  <2> QED BY <2>1, <2>2
<1>9. ASSUME NEW c \in Chunk PROVE q.consts[c] \subseteq Alive(q)
  <2>1. CASE q.ref[c] = 0
    BY <1>7, <2>1
  <2>2. CASE q.ref[c] # 0
    <3>1. c \in There(q)
      BY <1>2, <2>2 DEF There
    <3>2. c \in There(n) /\ c \notin gone
      BY <3>1, FinalLeaves
    <3>3. PICK f \in Shares(n, c) : f \notin dead
      BY <3>2 DEF Gone
    <3>4. f \in Alive(n) \ dead /\ n.core[f] = c
      BY <3>3, Constants DEF Shares, Alive
    <3>5. n.consts[c] \cap dead = {} /\ n.consts[c] \subseteq Alive(n)
      BY <3>4 DEF Unneeded, Sound
    <3>6. q.consts[c] = n.consts[c]
      <4> HIDE DEF gone
      <4> QED BY <1>2, <3>2
    <3> QED BY <3>5, <3>6, FinalLeaves
  <2> QED BY <2>1, <2>2
<1> QED BY <1>5, <1>6, <1>7, <1>8, <1>9 DEF Sound

\* The account and the other objects do not matter to the blocks.
SameBlocks(n, q) ==
    /\ q.core = n.core /\ q.ref = n.ref /\ q.num = n.num /\ q.cap = n.cap
    /\ q.consts = n.consts

LEMMA BlocksKept ==
    ASSUME NEW n, Sound(n), NEW q \in Memory, SameBlocks(n, q)
    PROVE  /\ Sound(q) /\ Alive(q) = Alive(n) /\ There(q) = There(n) /\ Loose(q) = Loose(n)
           /\ Size(q) + (n.live + n.junk) = Size(n) + (q.live + q.junk)
<1>1. /\ Alive(q) = Alive(n) /\ There(q) = There(n) /\ Loose(q) = Loose(n)
      /\ \A c \in Chunk : Shares(q, c) = Shares(n, c)
  BY DEF SameBlocks, Alive, There, Loose, Shares
<1>2. Sound(q)
  BY <1>1 DEF Sound, SameBlocks
<1>3. /\ Size(n) = FuncSize * Cardinality(Alive(n)) + Bytes(n.cap, There(n)) + n.live + n.junk
      /\ Size(q) = FuncSize * Cardinality(Alive(n)) + Bytes(n.cap, There(n)) + q.live + q.junk
  BY <1>1 DEF Size, SameBlocks
<1>4. /\ FuncSize * Cardinality(Alive(n)) \in Nat /\ Bytes(n.cap, There(n)) \in Nat
      /\ n.live \in Nat /\ n.junk \in Nat /\ q.live \in Nat /\ q.junk \in Nat
  BY Counts, Fields DEF Sound
<1>5. Size(q) + (n.live + n.junk) = Size(n) + (q.live + q.junk)
  <2> DEFINE fa == FuncSize * Cardinality(Alive(n))
             b == Bytes(n.cap, There(n))
  <2>1. /\ fa \in Nat /\ b \in Nat
        /\ Size(n) = fa + b + n.live + n.junk /\ Size(q) = fa + b + q.live + q.junk
    BY <1>3, <1>4
  <2> HIDE DEF fa, b
  <2> QED BY <1>4, <2>1
<1> QED BY <1>1, <1>2, <1>5

\* What is reached from functions that are there is there, R included, and the
\* constants of what is reached are reached.
LEMMA ReachedIs ==
    ASSUME NEW n, Sound(n), NEW R \in SUBSET Alive(n)
    PROVE  /\ R \subseteq Reached(n, R) /\ Reached(n, R) \subseteq Alive(n)
           /\ \A f \in Reached(n, R) : n.consts[n.core[f]] \subseteq Reached(n, R)
<1>1. Alive(n) \in SUBSET Fn /\ R \subseteq Fn
  BY DEF Alive
<1>2. R \subseteq Reached(n, R)
  BY <1>1 DEF Reached
<1>3. ASSUME NEW g \in Fn, n.core[g] # Nil PROVE n.core[g] \in Chunk /\ n.consts[n.core[g]] \subseteq Alive(n)
  <2>1. n.core[g] \in Chunk
    BY <1>3, Fields DEF Sound
  <2> QED BY <2>1 DEF Sound
<1>4. Reached(n, R) \subseteq Alive(n)
  <2>1. \A g \in Alive(n) : n.core[g] # Nil => n.consts[n.core[g]] \subseteq Alive(n)
    BY <1>3 DEF Alive
  <2> QED BY <1>1, <2>1 DEF Reached
<1>5. ASSUME NEW f \in Reached(n, R), NEW g \in n.consts[n.core[f]] PROVE g \in Reached(n, R)
  <2>1. f \in Fn /\ n.core[f] # Nil
    BY <1>4 DEF Alive
  <2>2. g \in Fn
    BY <1>3, <2>1 DEF Alive
  <2>3. ASSUME NEW C \in SUBSET Fn,
               R \subseteq C /\ \A h \in C : n.core[h] # Nil => n.consts[n.core[h]] \subseteq C
        PROVE  g \in C
    <3>1. f \in C
      BY <2>3 DEF Reached
    <3> QED BY <2>1, <2>3, <3>1
  <2> QED BY <2>2, <2>3 DEF Reached
<1> QED BY <1>2, <1>4, <1>5

\* No garbage is left, seen from the roots R; a call that records leaves that or an
\* account below the threshold; or the account has not grown.
SameFunctions(n, q) == q.core = n.core /\ q.consts = n.consts /\ q.junk = n.junk
Bare(n, R) == n.junk = 0 /\ Alive(n) \subseteq Reached(n, R)
Within(n, R) == n.used <= n.threshold \/ Bare(n, R)
Quiet(n, q) == SameFunctions(n, q) /\ q.used <= n.used /\ q.threshold = n.threshold
Tidied(n, q, R) == Within(q, R) \/ Quiet(n, q)

LEMMA BareKept ==
    ASSUME NEW n, NEW q, NEW R, SameFunctions(n, q), Bare(n, R)
    PROVE  Bare(q, R)
BY DEF SameFunctions, Bare, Alive, Reached

LEMMA WithinKept ==
    ASSUME NEW n \in Memory, NEW q \in Memory, NEW R, Within(n, R), Quiet(n, q)
    PROVE  Within(q, R)
<1>1. CASE n.used <= n.threshold
  <2>1. n.used \in Nat /\ q.used \in Nat /\ n.threshold \in Int
    BY Fields
  <2> QED BY <1>1, <2>1 DEF Within, Quiet
<1>2. CASE Bare(n, R)
  BY <1>2, BareKept DEF Within, Quiet
<1> QED BY <1>1, <1>2 DEF Within

LEMMA TidiedTwice ==
    ASSUME NEW n \in Memory, NEW r \in Memory, NEW q \in Memory, NEW R,
           Tidied(n, r, R), Tidied(r, q, R)
    PROVE  Tidied(n, q, R)
<1>1. CASE Within(q, R)
  BY <1>1 DEF Tidied
<1>2. CASE Quiet(r, q) /\ Within(r, R)
  BY <1>2, WithinKept DEF Tidied
<1>3. CASE Quiet(r, q) /\ Quiet(n, r)
  <2>1. n.used \in Nat /\ r.used \in Nat /\ q.used \in Nat
    BY Fields
  <2>2. Quiet(n, q)
    BY <1>3, <2>1 DEF Quiet, SameFunctions
  <2> QED BY <2>2 DEF Tidied
<1> QED BY <1>1, <1>2, <1>3 DEF Tidied

\* What the functions that are not reached held does not matter to what is reached.
LEMMA ReachedKept ==
    ASSUME NEW n, Sound(n), NEW R \in SUBSET Alive(n), NEW q,
           \A f \in Reached(n, R) : q.core[f] = n.core[f],
           \A f \in Reached(n, R) : q.consts[n.core[f]] = n.consts[n.core[f]]
    PROVE  Reached(n, R) \subseteq Reached(q, R)
<1> SUFFICES ASSUME NEW f \in Reached(n, R), NEW C \in SUBSET Fn, R \subseteq C,
                    \A g \in C : q.core[g] # Nil => q.consts[q.core[g]] \subseteq C
             PROVE  f \in C
  BY DEF Reached
<1> DEFINE S == C \cap Reached(n, R)
<1>1. /\ R \subseteq Reached(n, R) /\ Reached(n, R) \subseteq Alive(n)
      /\ \A g \in Reached(n, R) : n.consts[n.core[g]] \subseteq Reached(n, R)
  BY ReachedIs
<1>2. ASSUME NEW g \in S PROVE n.consts[n.core[g]] \subseteq S
  <2>1. q.core[g] = n.core[g] /\ q.consts[n.core[g]] = n.consts[n.core[g]] /\ n.core[g] # Nil
    BY <1>1 DEF Alive
  <2> QED BY <1>1, <2>1
<1>3. S \in SUBSET Fn /\ R \subseteq S
  BY <1>1
<1>4. f \in S
  <2> HIDE DEF S
  <2> QED BY <1>2, <1>3 DEF Reached
<1> QED BY <1>4

\* The capacity mm_need gives to an array of x items, w at a time.
Rounded(x, w) == IF x % w = 0 THEN x ELSE x + (w - (x % w))
Round(n, c) == \A a \in Array : n.cap[c][a] = Rounded(n.num[c][a], Align[a])

\* What holds after a call that may collect from the roots R: the account has k more than
\* the blocks, and the arrays of D are rounded.
After(n, q, R, D, k, exact) ==
    /\ Sound(q) /\ Pays(q, k, exact) /\ R \subseteq Alive(q) /\ Later(n, q, R, D)
    /\ \A c \in D : Round(q, c)
    /\ Tidied(n, q, R)

LEMMA SweptIs ==
    ASSUME NEW n, Sound(n), NEW R \in SUBSET Alive(n), NEW q, q = Swept(n, R),
           NEW k \in Nat, NEW exact \in BOOLEAN, Pays(n, k, exact),
           exact => Loose(n) \subseteq Owned(n, R)
    PROVE  /\ Sound(q) /\ Pays(q, k, exact) /\ R \subseteq Alive(q) /\ Later(n, q, R, {})
           /\ Bare(q, R)
<1> DEFINE dead == {f \in Fn : n.core[f] # Nil} \ Reached(n, R)
           gone == Gone(n, dead)
<1>1. n \in Memory /\ R \in SUBSET Fn
  BY DEF Sound, Alive
<1>2. /\ dead \subseteq Alive(n) /\ dead \cap R = {}
      /\ \A f \in Alive(n) \ dead : n.consts[n.core[f]] \cap dead = {}
  BY ReachedIs DEF Alive
<1>3. Unneeded(n, dead)
  BY <1>2 DEF Unneeded
<1>4. PICK s : s = Final(n, dead)
  OBVIOUS
<1>5. q = [s EXCEPT !.used = @ - n.junk, !.junk = 0]
  BY <1>4 DEF Swept
<1>6. Owned(n, R) \cap gone = {}
  <2>1. ASSUME NEW c \in Chunk, NEW f \in R, n.core[f] = c PROVE c \notin Gone(n, dead)
    <3>1. f \in Shares(n, c) /\ f \notin dead
      BY <1>1, <1>2, <2>1 DEF Shares
    <3> HIDE DEF dead
    <3> QED BY <3>1 DEF Gone
  <2> HIDE DEF dead
  <2> QED BY <2>1 DEF Owned
<1> HIDE DEF dead
<1>7. IsFinal(n, dead, s)
  BY <1>3, <1>4, FinalIs
<1>8. s.used \in Nat /\ s.used >= Size(s) + k /\ (exact => s.used = Size(s) + k) /\ Size(s) \in Nat
  BY <1>3, <1>4, <1>6, FinalPays
<1>9. Sound(s)
  BY <1>3, <1>4, <1>8, FinalSound
<1>10. s.live = n.live /\ s.junk = n.junk /\ n.live \in Nat /\ n.junk \in Nat
  BY <1>1, <1>7, Fields DEF IsFinal
<1>11. Size(s) >= n.junk
  <2>1. /\ FuncSize * Cardinality(Alive(s)) \in Nat /\ Bytes(s.cap, There(s)) \in Nat
    BY <1>9, Counts DEF Sound
  <2> DEFINE fa == FuncSize * Cardinality(Alive(s))
             b == Bytes(s.cap, There(s))
  <2>2. fa \in Nat /\ b \in Nat /\ Size(s) = fa + b + n.live + n.junk
    BY <1>10, <2>1 DEF Size
  <2> HIDE DEF fa, b
  <2> QED BY <1>10, <2>2
<1>12. s.used - n.junk \in Nat
  BY <1>8, <1>10, <1>11
<1>13. /\ q \in Memory /\ SameBlocks(s, q) /\ q.used = s.used - n.junk /\ q.junk = 0
       /\ q.live = s.live
  <2>1. s \in Memory
    BY <1>9 DEF Sound
  <2>2. PICK u \in Nat : u = s.used - n.junk
    BY <1>12
  <2>3. q = [s EXCEPT !.used = u, !.junk = 0]
    BY <1>5, <2>1, <2>2 DEF Memory
  <2>4. q = [used |-> u, threshold |-> s.threshold, core |-> s.core, ref |-> s.ref,
             num |-> s.num, cap |-> s.cap, consts |-> s.consts, live |-> s.live, junk |-> 0]
    BY <2>1, <2>3 DEF Memory
  <2>6. q \in Memory /\ q.used = u
    BY <2>1, <2>2, <2>4 DEF Memory
  <2>5. SameBlocks(s, q) /\ q.junk = 0 /\ q.live = s.live
    BY <2>1, <2>3 DEF Memory, SameBlocks
  <2> QED BY <2>2, <2>5, <2>6
<1>14. /\ Sound(q) /\ Alive(q) = Alive(s) /\ Loose(q) = Loose(s)
       /\ Size(q) + (s.live + s.junk) = Size(s) + (q.live + q.junk)
  BY <1>9, <1>13, BlocksKept
<1>15. Pays(q, k, exact)
  <2>1. Size(q) \in Nat
    BY <1>13, Counts
  <2>2. Size(q) + n.junk = Size(s)
    BY <1>8, <1>10, <1>13, <1>14, <2>1
  <2> QED BY <1>8, <1>10, <1>13, <2>1, <2>2 DEF Pays
<1>16. R \subseteq Alive(q)
  BY <1>2, <1>3, <1>4, <1>14, FinalLeaves
<1>17. Later(n, q, R, {})
  <2>1. /\ q.core = [f \in Fn |-> IF f \in dead THEN Nil ELSE n.core[f]]
        /\ q.num = [c \in Chunk |-> IF c \in gone THEN Empty ELSE n.num[c]]
        /\ q.cap = [c \in Chunk |-> IF c \in gone THEN Empty ELSE n.cap[c]]
        /\ q.consts = [c \in Chunk |-> IF c \in gone THEN {} ELSE n.consts[c]]
    BY <1>7, <1>13 DEF IsFinal, SameBlocks
  <2>2. /\ \A f \in R : q.core[f] = n.core[f]
        /\ \A f \in Fn : q.core[f] \in {n.core[f], Nil}
    BY <1>1, <1>2, <2>1
  <2>3. \A c \in Owned(n, R) : q.consts[c] = n.consts[c] /\ q.num[c] = n.num[c] /\ q.cap[c] = n.cap[c]
    <3> HIDE DEF gone
    <3> QED BY <1>6, <2>1 DEF Owned
  <2>4. ASSUME NEW c \in Chunk, n.ref[c] = 0 PROVE q.ref[c] = 0
    <3>1. c \notin There(s)
      BY <1>3, <1>4, <2>4, FinalLeaves DEF There
    <3>2. q.ref[c] \in Nat /\ q.ref = s.ref
      BY <1>13, Fields DEF SameBlocks
    <3> QED BY <3>1, <3>2 DEF There
  <2>5. Loose(q) \subseteq Loose(n)
    <3> HIDE DEF gone
    <3> QED BY <2>1 DEF Loose
  <2> QED BY <1>10, <1>13, <2>2, <2>3, <2>4, <2>5 DEF Later
<1>18. Bare(q, R)
  <2>1. Alive(q) = Alive(n) \ dead
    BY <1>3, <1>4, <1>14, FinalLeaves
  <2>2. Alive(q) \subseteq Reached(n, R)
    BY <2>1 DEF dead, Alive
  <2>3. ASSUME NEW f \in Reached(n, R)
        PROVE  q.core[f] = n.core[f] /\ q.consts[n.core[f]] = n.consts[n.core[f]]
    <3>1. f \in Fn /\ f \notin dead /\ n.core[f] \in Chunk
      <4>1. f \in Alive(n)
        BY ReachedIs
      <4> QED BY <1>1, <4>1, Fields DEF Alive, dead
    <3>2. n.core[f] \notin Gone(n, dead)
      BY <3>1 DEF Gone, Shares
    <3>3. /\ q.core = [g \in Fn |-> IF g \in dead THEN Nil ELSE n.core[g]]
          /\ q.consts = [c \in Chunk |-> IF c \in Gone(n, dead) THEN {} ELSE n.consts[c]]
      BY <1>7, <1>13 DEF IsFinal, SameBlocks
    <3> QED BY <3>1, <3>2, <3>3
  <2>4. Reached(n, R) \subseteq Reached(q, R)
    BY <2>3, ReachedKept
  <2> QED BY <1>13, <2>2, <2>4 DEF Bare
<1> QED BY <1>14, <1>15, <1>16, <1>17, <1>18

LEMMA AdjustedIs ==
    ASSUME NEW n, Sound(n), NEW freed, NEW q, q = Adjusted(n, freed)
    PROVE  /\ q \in Memory /\ SameBlocks(n, q)
           /\ q.used = n.used /\ q.live = n.live /\ q.junk = n.junk
<1>1. n \in Memory /\ n.threshold \in 0 .. Words - 1 /\ Words \in Nat \ {0}
  BY Fields, Constants DEF Sound
<1>2. (2 * n.threshold) % Words \in 0 .. Words - 1 /\ n.threshold \div 2 \in 0 .. Words - 1
  <2>1. \A x \in Nat, w \in Nat \ {0} : x % w \in 0 .. w - 1
    OBVIOUS
  <2>2. n.threshold \in Nat /\ 2 * n.threshold \in Nat
    BY <1>1
  <2>3. (2 * n.threshold) % Words \in 0 .. Words - 1
    BY <1>1, <2>1, <2>2
  <2>4. n.threshold \div 2 \in Nat /\ n.threshold \div 2 <= n.threshold
    BY <2>2
  <2>5. n.threshold <= Words - 1
    BY <1>1
  <2> QED BY <1>1, <2>2, <2>3, <2>4, <2>5
<1>3. \/ q = [n EXCEPT !.threshold = (2 * n.threshold) % Words]
      \/ q = [n EXCEPT !.threshold = n.threshold \div 2]
      \/ q = n
  BY <1>1 DEF Adjusted
<1> QED BY ZenonT(60), <1>1, <1>2, <1>3 DEF Memory, SameBlocks

LEMMA CollectedIs ==
    ASSUME NEW n, Sound(n), NEW R \in SUBSET Alive(n), NEW q, q = Collected(n, R),
           NEW k \in Nat, NEW exact \in BOOLEAN, Pays(n, k, exact),
           exact => Loose(n) \subseteq Owned(n, R)
    PROVE  After(n, q, R, {}, k, exact) /\ Bare(q, R)
<1>1. PICK s : s = Swept(n, R)
  OBVIOUS
<1>2. /\ Sound(s) /\ Pays(s, k, exact) /\ R \subseteq Alive(s) /\ Later(n, s, R, {})
      /\ Bare(s, R)
  BY <1>1, SweptIs
<1>3. q = Adjusted(s, n.used - s.used)
  BY <1>1 DEF Collected
<1>4. /\ q \in Memory /\ SameBlocks(s, q)
      /\ q.used = s.used /\ q.live = s.live /\ q.junk = s.junk
  BY <1>2, <1>3, AdjustedIs
<1>5. /\ Sound(q) /\ Alive(q) = Alive(s) /\ Loose(q) = Loose(s)
      /\ Size(q) + (s.live + s.junk) = Size(s) + (q.live + q.junk)
  BY <1>2, <1>4, BlocksKept
<1>6. Pays(q, k, exact)
  <2>1. Size(q) \in Nat /\ Size(s) \in Nat /\ s.live \in Nat /\ s.junk \in Nat
    BY <1>2, <1>4, Counts, Fields DEF Sound
  <2>2. Size(q) = Size(s)
    BY <1>4, <1>5, <2>1
  <2> QED BY <1>2, <1>4, <2>2 DEF Pays
<1>7. Later(n, q, R, {})
  BY <1>2, <1>4, <1>5 DEF Later, SameBlocks
<1>8. Bare(q, R)
  <2>1. SameFunctions(s, q)
    BY <1>4 DEF SameBlocks, SameFunctions
  <2> QED BY <1>2, <2>1, BareKept
<1> QED BY <1>2, <1>5, <1>6, <1>7, <1>8 DEF After, Tidied, Within

\* gc_record, of blocks that are there already when there is something to collect.
LEMMA RecordedIs ==
    ASSUME NEW n, Sound(n), NEW R \in SUBSET Alive(n), NEW size \in Nat,
           NEW q, q = Recorded(n, size, R), NEW k \in Nat, NEW exact \in BOOLEAN,
           n.used + size >= Size(n) + k, exact => n.used + size = Size(n) + k,
           exact => Loose(n) \subseteq Owned(n, R)
    PROVE  After(n, q, R, {}, k, exact)
<1>1. PICK more : more = [n EXCEPT !.used = @ + size]
  OBVIOUS
<1>2. n \in Memory /\ n.used \in Nat /\ n.live \in Nat /\ n.junk \in Nat
  BY Fields DEF Sound
<1>3. PICK u \in Nat : u = n.used + size
  BY <1>2
<1>4. more = [n EXCEPT !.used = u]
  BY <1>1, <1>2, <1>3 DEF Memory
<1>5. more \in Memory /\ more.used = u
  BY <1>2, <1>3, <1>4 DEF Memory
<1>6. SameBlocks(n, more) /\ more.live = n.live /\ more.junk = n.junk
  BY <1>2, <1>4 DEF Memory, SameBlocks
<1>7. /\ Sound(more) /\ Alive(more) = Alive(n) /\ Loose(more) = Loose(n)
      /\ Size(more) + (n.live + n.junk) = Size(n) + (more.live + more.junk)
  BY <1>5, <1>6, BlocksKept
<1>8. Size(more) = Size(n)
  <2>1. Size(more) \in Nat /\ Size(n) \in Nat
    BY <1>2, <1>5, Counts
  <2> QED BY <1>2, <1>6, <1>7, <2>1
<1>9. Pays(more, k, exact)
  BY <1>3, <1>5, <1>8 DEF Pays
<1>10. Owned(more, R) = Owned(n, R)
  BY <1>6 DEF Owned, SameBlocks
<1>11. Later(n, more, R, {})
  BY <1>6, <1>7 DEF Later, SameBlocks
<1>12. CASE more.used > more.threshold
  <2>1. q = Collected(more, R)
    BY <1>1, <1>12 DEF Recorded
  <2>2. /\ Sound(q) /\ Pays(q, k, exact) /\ R \subseteq Alive(q) /\ Later(more, q, R, {})
        /\ Within(q, R)
    <3>1. After(more, q, R, {}, k, exact) /\ Bare(q, R)
      BY <1>7, <1>9, <1>10, <2>1, CollectedIs
    <3> QED BY <3>1 DEF After, Within
  <2>3. Later(n, q, R, {})
    BY <1>6, <1>7, <1>10, <2>2 DEF Later, SameBlocks
  <2> QED BY <2>2, <2>3 DEF After, Tidied
<1>13. CASE ~ (more.used > more.threshold)
  <2>1. q = more
    BY <1>1, <1>13 DEF Recorded
  <2>2. Within(q, R)
    <3>1. more.used \in Nat /\ more.threshold \in Int
      BY <1>5, Fields
    <3> QED BY <1>13, <2>1, <3>1 DEF Within
  <2> QED BY <1>7, <1>9, <1>11, <2>1, <2>2 DEF After, Tidied
<1> QED BY <1>12, <1>13

-----------------------------------------------------------------------------
(* The arrays of a chunk *)

LEMMA Division ==
    ASSUME NEW x \in Nat, NEW w \in Nat \ {0}
    PROVE  x = w * (x \div w) + (x % w) /\ x % w \in 0 .. w - 1 /\ x \div w \in Nat
OBVIOUS

LEMMA SmallMultiple ==
    ASSUME NEW w \in Nat \ {0}, NEW d \in Int, w * d < w, w * d > 0 - w
    PROVE  d = 0
<1>1. CASE d >= 1
  <2>1. w * d >= w * 1
    BY <1>1
  <2> QED BY <2>1
<1>2. CASE d <= 0 - 1
  <2>1. w * d <= w * (0 - 1)
    BY <1>2
  <2> QED BY <2>1
<1> QED BY <1>1, <1>2

LEMMA Remainder ==
    ASSUME NEW x \in Nat, NEW w \in Nat \ {0}, NEW k \in Int, NEW r \in 0 .. w - 1,
           x = w * k + r
    PROVE  x % w = r
<1>1. PICK j \in Nat, s \in 0 .. w - 1 : x = w * j + s /\ s = x % w
  BY Division
<1>2. w * (j - k) = r - s
  <2>1. PICK a \in Int, b \in Int : a = w * j /\ b = w * k
    OBVIOUS
  <2>2. w * (j - k) = w * j - w * k
    OBVIOUS
  <2>3. x = a + s /\ x = b + r /\ s \in Int /\ r \in Int
    BY <1>1, <2>1
  <2>4. a - b = r - s
    BY <2>3
  <2> QED BY <2>1, <2>2, <2>4
<1>3. j - k = 0
  BY <1>2, SmallMultiple
<1>4. r - s = 0
  <2>1. w * 0 = 0
    OBVIOUS
  <2> QED BY <1>2, <1>3, <2>1
<1>5. r \in Int /\ s \in Int
  OBVIOUS
<1>6. r = s
  BY ONLY <1>4, <1>5
<1> QED BY <1>1, <1>6

LEMMA NextRemainder ==
    ASSUME NEW x \in Nat, NEW w \in Nat \ {0}
    PROVE  (x + 1) % w = IF (x % w) + 1 = w THEN 0 ELSE (x % w) + 1
<1>1. PICK j \in Nat, s \in 0 .. w - 1 : x = w * j + s /\ s = x % w
  BY Division
<1>2. w * (j + 1) = w * j + w /\ w * j \in Nat
  OBVIOUS
<1>3. CASE s + 1 = w
  <2>1. PICK y \in Nat, k \in Int : y = x + 1 /\ k = j + 1 /\ y = w * k + 0
    BY <1>1, <1>2, <1>3
  <2>2. 0 \in 0 .. w - 1
    OBVIOUS
  <2>3. y % w = 0
    BY <2>1, <2>2, Remainder
  <2> QED BY <1>1, <1>3, <2>1, <2>3
<1>4. CASE s + 1 # w
  <2>1. PICK y \in Nat, r \in 0 .. w - 1 : y = x + 1 /\ r = s + 1 /\ y = w * j + r
    BY <1>1, <1>2, <1>4
  <2>2. j \in Int /\ y = w * j + r
    BY <2>1
  <2>3. y % w = r
    BY ONLY <2>2, Remainder, y \in Nat, w \in Nat \ {0}, r \in 0 .. w - 1
  <2> QED BY <1>1, <1>4, <2>1, <2>3
<1> QED BY <1>3, <1>4

LEMMA RoundedStep ==
    ASSUME NEW x \in Nat, NEW w \in Nat \ {0}
    PROVE  /\ Rounded(x, w) \in Nat /\ Rounded(x, w) >= x
           /\ x % w = 0 => Rounded(x, w) = x /\ Rounded(x + 1, w) = x + w
           /\ x % w # 0 => Rounded(x, w) >= x + 1 /\ Rounded(x + 1, w) = Rounded(x, w)
<1>1. PICK y : y = x % w
  OBVIOUS
<1>2. PICK z : z = (x + 1) % w
  OBVIOUS
<1>3. y \in 0 .. w - 1 /\ z = IF y + 1 = w THEN 0 ELSE y + 1
  BY <1>1, <1>2, NextRemainder, Division
<1>4. /\ Rounded(x, w) = IF y = 0 THEN x ELSE x + (w - y)
      /\ Rounded(x + 1, w) = IF z = 0 THEN x + 1 ELSE (x + 1) + (w - z)
  BY <1>1, <1>2 DEF Rounded
<1>5. CASE y = 0
  <2>1. Rounded(x, w) = x /\ Rounded(x + 1, w) = x + w
    BY <1>3, <1>4, <1>5
  <2> QED BY <1>1, <1>5, <2>1
<1>6. CASE y # 0
  <2>1. Rounded(x, w) = x + (w - y) /\ Rounded(x + 1, w) = x + (w - y)
    BY <1>3, <1>4, <1>6
  <2>2. w - y \in Nat /\ w - y >= 1
    BY <1>3
  <2> QED BY <1>1, <1>6, <2>1, <2>2
<1> QED BY <1>5, <1>6

\* The item stored.
WithItem(n, q, c, a) ==
    /\ Sound(q) /\ Alive(q) = Alive(n) /\ Size(q) = Size(n)
    /\ q.used = n.used /\ q.live = n.live /\ q.core = n.core /\ q.ref = n.ref
    /\ q.cap = n.cap /\ q.consts = n.consts /\ Quiet(n, q)
    /\ q.num = [n.num EXCEPT ![c][a] = @ + 1]

LEMMA ItemIs ==
    ASSUME NEW n, Sound(n), NEW c \in Chunk, NEW a \in Array, n.ref[c] > 0,
           n.num[c][a] < n.cap[c][a], NEW q, q = [n EXCEPT !.num[c][a] = @ + 1]
    PROVE  WithItem(n, q, c, a)
<1>1. n \in Memory /\ n.num \in Sizes
  BY Fields DEF Sound
<1>2. PICK num : num = [n.num EXCEPT ![c][a] = @ + 1]
  OBVIOUS
<1>3. num \in Sizes
  <2>1. n.num[c] \in [Array -> Nat]
    BY <1>1 DEF Sizes
  <2>2. [n.num[c] EXCEPT ![a] = @ + 1] \in [Array -> Nat]
    BY <2>1
  <2>3. num = [n.num EXCEPT ![c] = [n.num[c] EXCEPT ![a] = @ + 1]]
    BY <1>1, <1>2, <2>1 DEF Sizes
  <2> QED BY <1>1, <2>2, <2>3 DEF Sizes
<1>4. q = [n EXCEPT !.num = num]
  BY <1>1, <1>2 DEF Memory
<1>5. q \in Memory
  BY <1>1, <1>3, <1>4 DEF Memory, Sizes
<1>6. /\ q.used = n.used /\ q.live = n.live /\ q.core = n.core /\ q.ref = n.ref
      /\ q.cap = n.cap /\ q.consts = n.consts /\ q.num = num /\ q.junk = n.junk
  BY <1>1, <1>4 DEF Memory
<1>7. /\ Alive(q) = Alive(n) /\ There(q) = There(n) /\ Size(q) = Size(n)
      /\ \A d \in Chunk : Shares(q, d) = Shares(n, d)
  BY <1>6 DEF Alive, There, Size, Shares
<1>8. ASSUME NEW d \in Chunk, NEW b \in Array
      PROVE  /\ d # c \/ b # a => num[d][b] = n.num[d][b]
             /\ d # c => num[d] = n.num[d]
             /\ num[c][a] = n.num[c][a] + 1
  BY <1>1, <1>2 DEF Sizes
<1>9. \A d \in Chunk, b \in Array : q.num[d][b] <= q.cap[d][b]
  <2> SUFFICES ASSUME NEW d \in Chunk, NEW b \in Array PROVE num[d][b] <= n.cap[d][b]
    BY <1>6
  <2>1. n.num[d][b] \in Nat /\ n.cap[d][b] \in Nat /\ n.num[d][b] <= n.cap[d][b]
    BY <1>1, Fields DEF Sound, Sizes
  <2>2. CASE d = c /\ b = a
    BY <1>8, <2>1, <2>2
  <2>3. CASE d # c \/ b # a
    BY <1>8, <2>1, <2>3
  <2> QED BY <2>2, <2>3
<1>10. ASSUME NEW d \in Chunk, q.ref[d] = 0
       PROVE  q.num[d] = Empty /\ q.cap[d] = Empty /\ q.consts[d] = {}
  <2>1. d # c
    BY <1>6, <1>10, Fields, <1>1
  <2> QED BY <1>6, <1>8, <1>10, <2>1 DEF Sound
<1>11. /\ \A d \in Chunk : q.ref[d] = Cardinality(Shares(q, d))
       /\ \A d \in Chunk : q.consts[d] \subseteq Alive(q)
  BY <1>6, <1>7 DEF Sound
<1>12. Sound(q)
  BY <1>5, <1>9, <1>10, <1>11 DEF Sound
<1>13. Quiet(n, q)
  <2>1. n.used \in Nat /\ q.threshold = n.threshold
    BY <1>1, <1>4, Fields DEF Memory
  <2> QED BY <1>6, <2>1 DEF Quiet, SameFunctions
<1> QED BY <1>2, <1>6, <1>7, <1>12, <1>13 DEF WithItem

\* The array reallocated.
WithRoom(n, q, c, a, w) ==
    /\ Sound(q) /\ Alive(q) = Alive(n) /\ Size(q) = Size(n) + w
    /\ q.used = n.used /\ q.live = n.live /\ q.core = n.core /\ q.ref = n.ref
    /\ q.num = n.num /\ q.consts = n.consts /\ Quiet(n, q)
    /\ q.cap = [n.cap EXCEPT ![c][a] = n.num[c][a] + w]

LEMMA GrownIs ==
    ASSUME NEW n, Sound(n), NEW c \in Chunk, NEW a \in Array, n.ref[c] > 0,
           n.cap[c][a] = n.num[c][a], NEW w \in Nat,
           NEW q, q = [n EXCEPT !.cap[c][a] = n.num[c][a] + w]
    PROVE  WithRoom(n, q, c, a, w)
<1>1. n \in Memory /\ n.num \in Sizes /\ n.cap \in Sizes
  BY Fields DEF Sound
<1>2. PICK cap : cap = [n.cap EXCEPT ![c][a] = n.num[c][a] + w]
  OBVIOUS
<1>3. cap \in Sizes
  <2>1. n.cap[c] \in [Array -> Nat] /\ n.num[c][a] + w \in Nat
    BY <1>1 DEF Sizes
  <2>2. [n.cap[c] EXCEPT ![a] = n.num[c][a] + w] \in [Array -> Nat]
    BY <2>1
  <2>3. cap = [n.cap EXCEPT ![c] = [n.cap[c] EXCEPT ![a] = n.num[c][a] + w]]
    BY <1>1, <1>2, <2>1 DEF Sizes
  <2> QED BY <1>1, <2>2, <2>3 DEF Sizes
<1>4. q = [n EXCEPT !.cap = cap]
  BY <1>1, <1>2 DEF Memory
<1>5. q \in Memory
  BY <1>1, <1>3, <1>4 DEF Memory, Sizes
<1>6. /\ q.used = n.used /\ q.live = n.live /\ q.core = n.core /\ q.ref = n.ref
      /\ q.cap = cap /\ q.consts = n.consts /\ q.num = n.num /\ q.junk = n.junk
  BY <1>1, <1>4 DEF Memory
<1>7. /\ Alive(q) = Alive(n) /\ There(q) = There(n)
      /\ \A d \in Chunk : Shares(q, d) = Shares(n, d)
  BY <1>6 DEF Alive, There, Shares
<1>8. ASSUME NEW d \in Chunk, NEW b \in Array
      PROVE  /\ d # c \/ b # a => cap[d][b] = n.cap[d][b]
             /\ d # c => cap[d] = n.cap[d]
             /\ cap[c][a] = n.num[c][a] + w
  BY <1>1, <1>2 DEF Sizes
<1>9. \A d \in Chunk, b \in Array : q.num[d][b] <= q.cap[d][b]
  <2> SUFFICES ASSUME NEW d \in Chunk, NEW b \in Array PROVE n.num[d][b] <= cap[d][b]
    BY <1>6
  <2>1. n.num[d][b] \in Nat /\ n.cap[d][b] \in Nat /\ n.num[d][b] <= n.cap[d][b]
    BY <1>1, Fields DEF Sound, Sizes
  <2>2. CASE d = c /\ b = a
    BY <1>8, <2>1, <2>2
  <2>3. CASE d # c \/ b # a
    BY <1>8, <2>1, <2>3
  <2> QED BY <2>2, <2>3
<1>10. ASSUME NEW d \in Chunk, q.ref[d] = 0
       PROVE  q.num[d] = Empty /\ q.cap[d] = Empty /\ q.consts[d] = {}
  <2>1. d # c
    BY <1>6, <1>10, Fields, <1>1
  <2> QED BY <1>6, <1>8, <1>10, <2>1 DEF Sound
<1>11. /\ \A d \in Chunk : q.ref[d] = Cardinality(Shares(q, d))
       /\ \A d \in Chunk : q.consts[d] \subseteq Alive(q)
  BY <1>6, <1>7 DEF Sound
<1>12. Sound(q)
  BY <1>5, <1>9, <1>10, <1>11 DEF Sound
<1>13. Size(q) = Size(n) + w
  <2>1. There(n) \in SUBSET Chunk /\ c \in There(n)
    BY DEF There
  <2>2. Bytes(n.cap, There(n)) + Items(cap[c]) = Bytes(cap, There(n)) + Items(n.cap[c])
    <3>1. \A d \in There(n) \ {c} : n.cap[d] = cap[d]
      BY <1>8, <2>1, Constants
    <3> QED BY <1>1, <1>3, <2>1, <3>1, BytesChange
  <2>3. Items(n.cap[c]) + cap[c][a] = Items(cap[c]) + n.cap[c][a]
    <3>1. \A b \in Array : n.cap[c][b] \in Nat /\ cap[c][b] \in Nat
      BY <1>1, <1>3 DEF Sizes
    <3>2. \A b \in Array \ {a} : n.cap[c][b] = cap[c][b]
      BY <1>8
    <3> QED BY <3>1, <3>2, SumChange, Constants DEF Items
  <2>4. cap[c][a] = n.cap[c][a] + w /\ n.cap[c][a] \in Nat
    BY <1>1, <1>8 DEF Sizes
  <2>5. Items(n.cap[c]) \in Nat /\ Items(cap[c]) \in Nat
    <3>1. n.cap[c] \in [Array -> Nat] /\ cap[c] \in [Array -> Nat]
      BY <1>1, <1>3 DEF Sizes
    <3> QED BY <3>1, ItemsNat
  <2>6. Items(cap[c]) = Items(n.cap[c]) + w
    BY <2>3, <2>4, <2>5
  <2>7. Bytes(n.cap, There(n)) \in Nat /\ Bytes(cap, There(n)) \in Nat
    BY <1>1, <1>3, <2>1, BytesIs
  <2>8. Bytes(cap, There(n)) = Bytes(n.cap, There(n)) + w
    BY <2>2, <2>5, <2>6, <2>7
  <2>9. /\ Size(n) = FuncSize * Cardinality(Alive(n)) + Bytes(n.cap, There(n)) + n.live + n.junk
        /\ Size(q) = FuncSize * Cardinality(Alive(n)) + Bytes(cap, There(n)) + n.live + n.junk
    BY <1>6, <1>7 DEF Size
  <2>10. FuncSize * Cardinality(Alive(n)) \in Nat /\ n.live \in Nat /\ n.junk \in Nat
    BY <1>1, Counts, Fields
  <2>11. PICK fa : fa = FuncSize * Cardinality(Alive(n))
    OBVIOUS
  <2>12. /\ Size(n) = fa + Bytes(n.cap, There(n)) + n.live + n.junk
         /\ Size(q) = fa + Bytes(cap, There(n)) + n.live + n.junk
         /\ fa \in Nat
    BY <2>9, <2>10, <2>11
  <2> QED BY <2>7, <2>8, <2>10, <2>12
<1>14. Quiet(n, q)
  <2>1. n.used \in Nat /\ q.threshold = n.threshold
    BY <1>1, <1>4, Fields DEF Memory
  <2> QED BY <1>6, <2>1 DEF Quiet, SameFunctions
<1> QED BY <1>2, <1>6, <1>7, <1>12, <1>13, <1>14 DEF WithRoom

LEMMA NeededIs ==
    ASSUME NEW n, Sound(n), NEW R \in SUBSET Alive(n), NEW c \in Owned(n, R), NEW a \in Array,
           NEW q, q = Needed(n, c, a, R), NEW k \in Nat, NEW exact \in BOOLEAN,
           Pays(n, k, exact), exact => Loose(n) \subseteq Owned(n, R), Round(n, c)
    PROVE  After(n, q, R, {c}, k, exact)
<1>1. /\ c \in Chunk /\ R \in SUBSET Fn /\ n \in Memory /\ n.num \in Sizes /\ n.cap \in Sizes
      /\ n.num[c][a] \in Nat /\ Align[a] \in Nat \ {0} /\ n.cap[c][a] \in Nat /\ n.used \in Nat
  BY Fields, Constants DEF Owned, Sound, Alive, Sizes
<1>15. PICK x \in Nat, w \in Nat \ {0} : x = n.num[c][a] /\ w = Align[a]
  BY <1>1
<1>2. n.ref[c] > 0
  BY <1>1, OwnedIsThere DEF There
<1>3. n.cap[c][a] = Rounded(x, w)
  BY <1>15 DEF Round
<1>4. \E r : /\ q = [r EXCEPT !.num[c][a] = @ + 1]
             /\ Sound(r) /\ Pays(r, k, exact) /\ R \subseteq Alive(r)
             /\ Later(n, r, R, {c}) /\ Tidied(n, r, R)
             /\ r.num[c] = n.num[c]
             /\ \A b \in Array \ {a} : r.cap[c][b] = n.cap[c][b]
             /\ r.cap[c][a] = Rounded(x + 1, w) /\ r.cap[c][a] > x
  <2>1. CASE x % w = 0
    <3>1. PICK g : g = [n EXCEPT !.cap[c][a] = x + w]
      OBVIOUS
    <3>2. n.cap[c][a] = x /\ Rounded(x + 1, w) = x + w /\ x + w > x
      <4>1. Rounded(x, w) = x /\ Rounded(x + 1, w) = x + w
        BY <2>1, RoundedStep
      <4> QED BY <1>3, <4>1
    <3>3. /\ Sound(g) /\ Alive(g) = Alive(n) /\ Size(g) = Size(n) + w
          /\ g.used = n.used /\ g.live = n.live /\ g.core = n.core /\ g.ref = n.ref
          /\ g.num = n.num /\ g.consts = n.consts
          /\ g.cap = [n.cap EXCEPT ![c][a] = x + w] /\ Quiet(n, g)
      <4>1. n.cap[c][a] = n.num[c][a] /\ g = [n EXCEPT !.cap[c][a] = n.num[c][a] + w] /\ w \in Nat
        BY <1>15, <3>1, <3>2
      <4>2. WithRoom(n, g, c, a, w)
        BY <1>1, <1>2, <4>1, GrownIs
      <4> QED BY <1>15, <4>2 DEF WithRoom
    <3>4. Owned(g, R) = Owned(n, R)
      BY <3>3 DEF Owned
    <3>5. \A d \in Chunk \ {c} : g.cap[d] = n.cap[d]
      BY <1>1, <3>3 DEF Sizes
    <3>6. g.cap[c][a] = x + w /\ \A b \in Array \ {a} : g.cap[c][b] = n.cap[c][b]
      BY <1>1, <3>3 DEF Sizes
    <3>7. Loose(g) \subseteq Loose(n) \cup {c}
      BY <3>3, <3>5 DEF Loose
    <3>8. exact => Loose(g) \subseteq Owned(g, R)
      BY <3>4, <3>7
    <3>9. g.used + w >= Size(g) + k /\ (exact => g.used + w = Size(g) + k)
      <4>1. Size(n) \in Nat
        BY <1>1, Counts
      <4> QED BY <1>1, <3>3, <4>1 DEF Pays
    <3>10. PICK r : r = Recorded(g, w, R)
      OBVIOUS
    <3>11. /\ Sound(r) /\ Pays(r, k, exact) /\ R \subseteq Alive(r) /\ Later(g, r, R, {})
           /\ Tidied(g, r, R)
      <4>1. Sound(g) /\ R \in SUBSET Alive(g) /\ w \in Nat
        BY <3>3
      <4> QED BY <4>1, <3>8, <3>9, <3>10, RecordedIs DEF After
    <3>12. Later(n, r, R, {c})
      BY <3>3, <3>4, <3>5, <3>7, <3>11 DEF Later, Owned
    <3>13. r.num[c] = g.num[c] /\ r.cap[c] = g.cap[c]
      BY <3>4, <3>11 DEF Later
    <3>14. q = [r EXCEPT !.num[c][a] = @ + 1]
      BY <1>15, <2>1, <3>1, <3>10 DEF Needed
    <3>15. r.num[c] = n.num[c] /\ r.cap[c][a] = Rounded(x + 1, w) /\ r.cap[c][a] > x
      BY <3>2, <3>3, <3>6, <3>13
    <3>16. \A b \in Array \ {a} : r.cap[c][b] = n.cap[c][b]
      BY <3>6, <3>13
    <3>17. Tidied(n, r, R)
      BY <1>1, <3>3, <3>11, TidiedTwice DEF Tidied, Sound
    <3> QED BY <3>11, <3>12, <3>14, <3>15, <3>16, <3>17
  <2>2. CASE x % w # 0
    <3>1. Rounded(x, w) >= x + 1 /\ Rounded(x + 1, w) = Rounded(x, w)
      BY <2>2, RoundedStep
    <3>2. q = [n EXCEPT !.num[c][a] = @ + 1]
      BY <1>15, <2>2 DEF Needed
    <3>3. Later(n, n, R, {c}) /\ Tidied(n, n, R)
      BY Fields, <1>1 DEF Later, Tidied, Quiet, SameFunctions
    <3>4. n.cap[c][a] = Rounded(x + 1, w) /\ n.cap[c][a] > x
      BY <1>1, <1>3, <3>1
    <3> QED BY <3>2, <3>3, <3>4
  <2> QED BY <2>1, <2>2
<1>5. PICK r : /\ q = [r EXCEPT !.num[c][a] = @ + 1]
               /\ Sound(r) /\ Pays(r, k, exact) /\ R \subseteq Alive(r)
               /\ Later(n, r, R, {c}) /\ Tidied(n, r, R)
               /\ r.num[c] = n.num[c]
               /\ \A b \in Array \ {a} : r.cap[c][b] = n.cap[c][b]
               /\ r.cap[c][a] = Rounded(x + 1, w) /\ r.cap[c][a] > x
  BY <1>4
<1>6. c \in Owned(r, R)
  BY <1>5 DEF Later, Owned
<1>7. r.ref[c] > 0
  BY <1>1, <1>5, <1>6, OwnedIsThere DEF There
<1>8. /\ Sound(q) /\ Alive(q) = Alive(r) /\ Size(q) = Size(r)
      /\ q.used = r.used /\ q.live = r.live /\ q.core = r.core /\ q.ref = r.ref
      /\ q.cap = r.cap /\ q.consts = r.consts
      /\ q.num = [r.num EXCEPT ![c][a] = @ + 1] /\ Quiet(r, q)
  <2>1. r.num[c][a] < r.cap[c][a]
    BY <1>1, <1>5, <1>15
  <2>2. Sound(r) /\ q = [r EXCEPT !.num[c][a] = @ + 1]
    BY <1>5
  <2>3. WithItem(r, q, c, a)
    BY <1>1, <1>7, <2>1, <2>2, ItemIs
  <2> QED BY <2>3 DEF WithItem
<1>9. r.num \in Sizes /\ r.cap \in Sizes
  BY <1>5, Fields DEF Sound
<1>10. \A d \in Chunk \ {c} : q.num[d] = r.num[d]
  BY <1>1, <1>8, <1>9 DEF Sizes
<1>11. q.num[c][a] = x + 1 /\ \A b \in Array \ {a} : q.num[c][b] = r.num[c][b]
  BY <1>1, <1>5, <1>8, <1>9, <1>15 DEF Sizes
<1>12. Later(n, q, R, {c})
  <2>1. \A d \in Owned(n, R) \ {c} : q.num[d] = n.num[d] /\ q.cap[d] = n.cap[d]
    BY <1>5, <1>8, <1>10 DEF Later, Owned
  <2>2. Loose(q) \subseteq Loose(n) \cup {c}
    BY <1>5, <1>8, <1>10 DEF Later, Loose
  <2> QED BY <1>5, <1>8, <2>1, <2>2 DEF Later
<1>13. Round(q, c)
  <2> SUFFICES ASSUME NEW b \in Array PROVE q.cap[c][b] = Rounded(q.num[c][b], Align[b])
    BY DEF Round
  <2>1. CASE b = a
    BY <1>5, <1>8, <1>11, <1>15, <2>1
  <2>2. CASE b # a
    BY <1>5, <1>8, <1>11, <2>2 DEF Round
  <2> QED BY <2>1, <2>2
<1>14. Pays(q, k, exact)
  BY <1>5, <1>8 DEF Pays
<1>16. Tidied(n, q, R)
  <2>1. r \in Memory /\ q \in Memory /\ Tidied(r, q, R)
    BY <1>5, <1>8 DEF Sound, Tidied
  <2> QED BY <1>1, <1>5, <2>1, TidiedTwice
<1> QED BY <1>5, <1>8, <1>12, <1>13, <1>14, <1>16 DEF After

LEMMA LaterTwice ==
    ASSUME NEW n, NEW r, NEW q, NEW R \in SUBSET Fn, NEW D, NEW E,
           Later(n, r, R, D), Later(r, q, R, E)
    PROVE  Later(n, q, R, D \cup E)
<1>1. Owned(r, R) = Owned(n, R)
  BY DEF Later, Owned
<1>2. /\ \A f \in R : q.core[f] = n.core[f]
      /\ \A f \in Fn : q.core[f] \in {n.core[f], Nil}
  BY DEF Later
<1>3. \A c \in Owned(n, R) : q.consts[c] = n.consts[c]
  BY <1>1 DEF Later
<1>4. \A c \in Owned(n, R) \ (D \cup E) : q.num[c] = n.num[c] /\ q.cap[c] = n.cap[c]
  BY <1>1 DEF Later
<1>5. \A c \in Chunk : n.ref[c] = 0 => q.ref[c] = 0
  BY DEF Later
<1>6. Loose(q) \subseteq Loose(n) \cup (D \cup E) /\ q.live = n.live
  BY DEF Later
<1> QED BY <1>2, <1>3, <1>4, <1>5, <1>6 DEF Later

LEMMA EmittedIs ==
    ASSUME NEW n, Sound(n), NEW R \in SUBSET Alive(n), NEW c \in Owned(n, R),
           NEW q, q = Emitted(n, c, R), NEW k \in Nat, NEW exact \in BOOLEAN,
           Pays(n, k, exact), exact => Loose(n) \subseteq Owned(n, R), Round(n, c)
    PROVE  After(n, q, R, {c}, k, exact)
<1>1. PICK r : r = Needed(n, c, "inst", R)
  OBVIOUS
<1>2. "inst" \in Array /\ "line" \in Array /\ R \in SUBSET Fn
  BY Constants DEF Alive
<1>3. /\ Sound(r) /\ Pays(r, k, exact) /\ R \subseteq Alive(r) /\ Later(n, r, R, {c})
      /\ Round(r, c) /\ Tidied(n, r, R)
  <2>1. After(n, r, R, {c}, k, exact)
    BY <1>1, <1>2, NeededIs
  <2> QED BY <2>1 DEF After
<1>4. Owned(r, R) = Owned(n, R)
  BY <1>3 DEF Later, Owned
<1>5. exact => Loose(r) \subseteq Owned(r, R)
  BY <1>3, <1>4 DEF Later
<1>6. q = Needed(r, c, "line", R)
  BY <1>1 DEF Emitted
<1>7. /\ Sound(q) /\ Pays(q, k, exact) /\ R \subseteq Alive(q) /\ Later(r, q, R, {c})
      /\ Round(q, c) /\ Tidied(r, q, R)
  <2>1. Sound(r) /\ R \in SUBSET Alive(r) /\ c \in Owned(r, R) /\ Pays(r, k, exact) /\ Round(r, c)
    BY <1>3, <1>4
  <2>2. After(r, q, R, {c}, k, exact)
    BY <1>2, <1>5, <1>6, <2>1, NeededIs
  <2> QED BY <2>2 DEF After
<1>8. Later(n, q, R, {c} \cup {c})
  BY <1>2, <1>3, <1>7, LaterTwice
<1>9. {c} \cup {c} = {c}
  OBVIOUS
<1>10. Tidied(n, q, R)
  BY <1>3, <1>7, TidiedTwice DEF Sound
<1> QED BY <1>7, <1>8, <1>9, <1>10 DEF After

\* What mm_shrink gives back is what mm_need took too much of.
LEMMA ShrunkIs ==
    ASSUME NEW n, Sound(n), NEW c \in Chunk, n.ref[c] > 0, NEW q, q = Shrunk(n, c),
           NEW k \in Nat, NEW exact \in BOOLEAN, Pays(n, k, exact), Round(n, c)
    PROVE  /\ Sound(q) /\ Pays(q, k, exact) /\ Alive(q) = Alive(n)
           /\ q.live = n.live /\ q.core = n.core /\ q.ref = n.ref /\ q.num = n.num
           /\ q.consts = n.consts /\ q.cap = [n.cap EXCEPT ![c] = n.num[c]] /\ Quiet(n, q)
<1>1. /\ n \in Memory /\ n.num \in Sizes /\ n.cap \in Sizes /\ n.used \in Nat
      /\ n.live \in Nat /\ n.junk \in Nat
  BY Fields DEF Sound
<1>2. n.num[c] \in [Array -> Nat] /\ n.cap[c] \in [Array -> Nat]
  BY <1>1 DEF Sizes
<1>3. ASSUME NEW a \in Array
      PROVE  Slack(n, c)[a] \in Nat /\ n.cap[c][a] = n.num[c][a] + Slack(n, c)[a]
  <2> DEFINE x == n.num[c][a]
             w == Align[a]
  <2>1. x \in Nat /\ w \in Nat \ {0}
    BY <1>2, Constants
  <2>2. Slack(n, c)[a] = IF x % w = 0 THEN 0 ELSE w - (x % w)
    BY DEF Slack
  <2>3. n.cap[c][a] = IF x % w = 0 THEN x ELSE x + (w - (x % w))
    BY DEF Round, Rounded
  <2>4. PICK y \in 0 .. w - 1 : y = x % w
    <3> HIDE DEF x, w
    <3> QED BY <2>1, Division
  <2>5. /\ Slack(n, c)[a] = IF y = 0 THEN 0 ELSE w - y
        /\ n.cap[c][a] = IF y = 0 THEN x ELSE x + (w - y)
    BY <2>2, <2>3, <2>4
  <2> HIDE DEF x, w
  <2>6. Slack(n, c)[a] \in Nat /\ n.cap[c][a] = x + Slack(n, c)[a]
    BY <2>1, <2>4, <2>5
  <2> QED BY <2>6 DEF x
<1>4. DOMAIN Slack(n, c) = Array
  BY DEF Slack
<1>5. SumFunction(Slack(n, c)) = Items(Slack(n, c))
  BY <1>4 DEF SumFunction, Items
<1>6. PICK s \in Nat : s = SumFunction(Slack(n, c)) /\ Items(n.cap[c]) = Items(n.num[c]) + s
  <2>1. Slack(n, c) \in [Array -> Nat]
    BY <1>3, <1>4 DEF Slack
  <2>2. Items(Slack(n, c)) \in Nat
    BY <2>1, ItemsNat
  <2>3. \A a \in Array : /\ n.num[c][a] \in Nat /\ Slack(n, c)[a] \in Nat
                         /\ n.cap[c][a] = n.num[c][a] + Slack(n, c)[a]
    BY <1>2, <1>3
  <2>4. Items(n.cap[c]) = Items(n.num[c]) + Items(Slack(n, c))
    BY <2>3, Constants, SumOfSums DEF Items
  <2> QED BY <1>5, <2>2, <2>4
<1>7. PICK cap : cap = [n.cap EXCEPT ![c] = n.num[c]]
  OBVIOUS
<1>8. cap \in Sizes /\ cap[c] = n.num[c] /\ \A d \in Chunk \ {c} : cap[d] = n.cap[d]
  BY <1>1, <1>2, <1>7 DEF Sizes
<1>9. There(n) \in SUBSET Chunk /\ c \in There(n)
  BY DEF There
<1>10. Bytes(n.cap, There(n)) = Bytes(cap, There(n)) + s
  <2>1. Bytes(n.cap, There(n)) + Items(cap[c]) = Bytes(cap, There(n)) + Items(n.cap[c])
    <3>1. \A d \in There(n) \ {c} : n.cap[d] = cap[d]
      BY <1>8, <1>9
    <3> QED BY <1>1, <1>8, <1>9, <3>1, BytesChange
  <2>2. Items(n.num[c]) \in Nat
    BY <1>2, ItemsNat
  <2>3. Bytes(n.cap, There(n)) \in Nat /\ Bytes(cap, There(n)) \in Nat
    BY <1>1, <1>8, <1>9, BytesIs
  <2> QED BY <1>6, <1>8, <2>1, <2>2, <2>3
<1>11. PICK fa \in Nat : fa = FuncSize * Cardinality(Alive(n))
  BY <1>1, Counts
<1>12. PICK b \in Nat : b = Bytes(cap, There(n))
  BY <1>8, <1>9, BytesIs
<1>13. Size(n) = fa + (b + s) + n.live + n.junk
  BY <1>10, <1>11, <1>12 DEF Size
<1>14. PICK u \in Nat : u = n.used - s
  BY <1>1, <1>6, <1>13 DEF Pays
<1>15. q = [n EXCEPT !.used = u, !.cap = cap]
  BY <1>1, <1>6, <1>7, <1>14 DEF Shrunk, Memory
<1>16. q = [used |-> u, threshold |-> n.threshold, core |-> n.core, ref |-> n.ref,
            num |-> n.num, cap |-> cap, consts |-> n.consts, live |-> n.live, junk |-> n.junk]
  BY <1>1, <1>15 DEF Memory
<1>17. q \in Memory
  BY <1>1, <1>8, <1>16 DEF Memory, Sizes
<1>18. /\ q.used = u /\ q.live = n.live /\ q.core = n.core /\ q.ref = n.ref
       /\ q.cap = cap /\ q.consts = n.consts /\ q.num = n.num /\ q.junk = n.junk
  BY <1>16
<1>19. /\ Alive(q) = Alive(n) /\ There(q) = There(n)
       /\ \A d \in Chunk : Shares(q, d) = Shares(n, d)
  BY <1>18 DEF Alive, There, Shares
<1>20. Size(q) = fa + b + n.live + n.junk
  BY <1>11, <1>12, <1>18, <1>19 DEF Size
<1>21. Pays(q, k, exact)
  BY <1>1, <1>6, <1>13, <1>14, <1>18, <1>20 DEF Pays
<1>22. \A d \in Chunk, a \in Array : q.num[d][a] <= q.cap[d][a]
  <2> SUFFICES ASSUME NEW d \in Chunk, NEW a \in Array PROVE n.num[d][a] <= cap[d][a]
    BY <1>18
  <2>1. CASE d = c
    BY <1>2, <1>8, <2>1
  <2>2. CASE d # c
    BY <1>8, <2>2 DEF Sound
  <2> QED BY <2>1, <2>2
<1>23. ASSUME NEW d \in Chunk, q.ref[d] = 0
       PROVE  q.num[d] = Empty /\ q.cap[d] = Empty /\ q.consts[d] = {}
  <2>1. d # c
    BY <1>18, <1>23, <1>1, Fields
  <2> QED BY <1>8, <1>18, <1>23, <2>1 DEF Sound
<1>24. /\ \A d \in Chunk : q.ref[d] = Cardinality(Shares(q, d))
       /\ \A d \in Chunk : q.consts[d] \subseteq Alive(q)
  BY <1>18, <1>19 DEF Sound
<1>25. Sound(q)
  BY <1>17, <1>22, <1>23, <1>24 DEF Sound
<1>26. Quiet(n, q)
  BY <1>1, <1>6, <1>14, <1>16, <1>18 DEF Quiet, SameFunctions
<1> QED BY <1>7, <1>18, <1>19, <1>21, <1>25, <1>26

\* A function linked to its chunk: fn->u.core = core; core->ref++.
Linked(n, q, f, c) ==
    /\ Sound(q) /\ Alive(q) = Alive(n) \cup {f}
    /\ Size(q) = Size(n) + FuncSize + (IF n.ref[c] = 0 THEN ChunkSize ELSE 0)
    /\ q.used = n.used /\ q.core = [n.core EXCEPT ![f] = c]
    /\ q.num = n.num /\ q.cap = n.cap /\ q.consts = n.consts
    /\ q.junk = n.junk /\ q.threshold = n.threshold

LEMMA LinkedIs ==
    ASSUME NEW n, Sound(n), NEW f \in Fn, n.core[f] = Nil, NEW c \in Chunk,
           NEW q, q = [n EXCEPT !.core[f] = c, !.ref[c] = @ + 1]
    PROVE  Linked(n, q, f, c)
<1>1. /\ n \in Memory /\ n.core \in [Fn -> Chunk \cup {Nil}] /\ n.ref \in [Chunk -> Nat]
      /\ n.used \in Nat /\ n.live \in Nat /\ n.junk \in Nat /\ n.cap \in Sizes
  BY Fields DEF Sound
<1>2. PICK core : core = [n.core EXCEPT ![f] = c]
  OBVIOUS
<1>3. PICK ref : ref = [n.ref EXCEPT ![c] = @ + 1]
  OBVIOUS
<1>4. core \in [Fn -> Chunk \cup {Nil}] /\ core[f] = c /\ \A g \in Fn \ {f} : core[g] = n.core[g]
  BY <1>1, <1>2
<1>5. /\ ref \in [Chunk -> Nat] /\ ref[c] = n.ref[c] + 1
      /\ \A d \in Chunk \ {c} : ref[d] = n.ref[d]
  BY <1>1, <1>3
<1>6. q = [n EXCEPT !.core = core, !.ref = ref]
  BY <1>1, <1>2, <1>3 DEF Memory
<1>7. q = [used |-> n.used, threshold |-> n.threshold, core |-> core, ref |-> ref,
           num |-> n.num, cap |-> n.cap, consts |-> n.consts, live |-> n.live, junk |-> n.junk]
  BY <1>1, <1>6 DEF Memory
<1>8. q \in Memory
  BY <1>1, <1>4, <1>5, <1>7 DEF Memory
<1>9. /\ q.used = n.used /\ q.live = n.live /\ q.core = core /\ q.ref = ref
      /\ q.cap = n.cap /\ q.consts = n.consts /\ q.num = n.num /\ q.junk = n.junk
  BY <1>1, <1>6 DEF Memory
<1>10. Alive(q) = Alive(n) \cup {f} /\ f \notin Alive(n)
  BY <1>4, <1>9, Constants DEF Alive
<1>11. ASSUME NEW d \in Chunk PROVE q.ref[d] = Cardinality(Shares(q, d))
  <2>1. CASE d = c
    <3>1. Shares(q, c) = Shares(n, c) \cup {f} /\ f \notin Shares(n, c)
      BY <1>4, <1>9, Constants DEF Shares
    <3>2. IsFiniteSet(Shares(n, c))
      <4>1. Shares(n, c) \in SUBSET Fn
        BY DEF Shares
      <4> QED BY <4>1, Constants, FS_Subset
    <3>3. Cardinality(Shares(n, c) \cup {f}) = Cardinality(Shares(n, c)) + 1
      BY <3>1, <3>2, FS_AddElement
    <3>4. n.ref[c] = Cardinality(Shares(n, c))
      BY DEF Sound
    <3> QED BY <1>5, <1>9, <2>1, <3>1, <3>3, <3>4
  <2>2. CASE d # c
    <3>1. Shares(q, d) = Shares(n, d)
      BY <1>4, <1>9, <2>2, Constants DEF Shares
    <3> QED BY <1>5, <1>9, <2>2, <3>1 DEF Sound
  <2> QED BY <2>1, <2>2
<1>12. ASSUME NEW d \in Chunk, q.ref[d] = 0
       PROVE  q.num[d] = Empty /\ q.cap[d] = Empty /\ q.consts[d] = {}
  <2>1. d # c
    BY <1>1, <1>5, <1>9, <1>12
  <2> QED BY <1>5, <1>9, <1>12, <2>1 DEF Sound
<1>13. /\ \A d \in Chunk, a \in Array : q.num[d][a] <= q.cap[d][a]
       /\ \A d \in Chunk : q.consts[d] \subseteq Alive(q)
  BY <1>9, <1>10 DEF Sound
<1>14. Sound(q)
  BY <1>8, <1>11, <1>12, <1>13 DEF Sound
<1>15. PICK one \in Nat : one = IF n.ref[c] = 0 THEN ChunkSize ELSE 0
  BY Constants
<1>16. Bytes(n.cap, There(q)) = Bytes(n.cap, There(n)) + one
  <2>1. There(q) = There(n) \cup {c} /\ There(q) \in SUBSET Chunk
    BY <1>1, <1>5, <1>9 DEF There
  <2>2. CASE n.ref[c] = 0
    <3>1. c \notin There(n) /\ There(q) \ {c} = There(n) /\ {c} \in SUBSET There(q)
      BY <2>1, <2>2 DEF There
    <3>2. Bytes(n.cap, There(q)) = Bytes(n.cap, {c}) + Bytes(n.cap, There(q) \ {c})
      BY <1>1, <2>1, <3>1, BytesParts
    <3>3. Bytes(n.cap, {c}) = ChunkSize + 0
      <4>1. n.cap[c] = Empty
        BY <2>2 DEF Sound
      <4> QED BY <1>1, <4>1, BytesOfOne, ItemsOfEmpty
    <3>4. Bytes(n.cap, There(n)) \in Nat
      BY <1>1, BytesIs DEF There
    <3>5. Bytes(n.cap, There(q)) = (ChunkSize + 0) + Bytes(n.cap, There(n))
      BY <3>1, <3>2, <3>3
    <3>6. one = ChunkSize /\ ChunkSize \in Nat
      BY <1>15, <2>2, Constants
    <3> QED BY <3>4, <3>5, <3>6
  <2>3. CASE n.ref[c] # 0
    <3>1. There(q) = There(n)
      BY <1>1, <2>1, <2>3 DEF There
    <3>2. Bytes(n.cap, There(n)) \in Nat
      BY <1>1, BytesIs DEF There
    <3> QED BY <1>15, <2>3, <3>1, <3>2
  <2> QED BY <2>2, <2>3
<1>17. PICK fa \in Nat : fa = FuncSize * Cardinality(Alive(n))
  BY <1>1, Counts
<1>18. FuncSize * Cardinality(Alive(q)) = fa + FuncSize
  <2>1. IsFiniteSet(Alive(n)) /\ Cardinality(Alive(n)) \in Nat
    BY <1>1, Counts
  <2>2. Cardinality(Alive(q)) = Cardinality(Alive(n)) + 1
    BY <1>10, <2>1, FS_AddElement
  <2>3. \A x, y \in Nat : x * (y + 1) = x * y + x
    OBVIOUS
  <2> QED BY <1>17, <2>1, <2>2, <2>3, Constants
<1>19. PICK b \in Nat : b = Bytes(n.cap, There(n))
  BY <1>1, BytesIs DEF There
<1>20. /\ Size(n) = fa + b + n.live + n.junk
       /\ Size(q) = (fa + FuncSize) + (b + one) + n.live + n.junk
  BY <1>9, <1>16, <1>17, <1>18, <1>19 DEF Size
<1>21. Size(q) = Size(n) + FuncSize + one
  BY <1>1, <1>20, Constants
<1>22. q.threshold = n.threshold
  BY <1>7
<1> QED BY <1>2, <1>9, <1>10, <1>14, <1>15, <1>21, <1>22 DEF Linked

\* A new function is garbage only for roots without it.
LEMMA LinkedWithin ==
    ASSUME NEW n, Sound(n), NEW f \in Fn, n.core[f] = Nil, NEW c \in Chunk, NEW q,
           Linked(n, q, f, c), NEW R \in SUBSET Alive(n), Within(n, R)
    PROVE  Within(q, R \cup {f})
<1>1. CASE n.used <= n.threshold
  BY <1>1 DEF Linked, Within
<1>2. CASE Bare(n, R)
  <2>1. /\ Alive(q) = Alive(n) \cup {f} /\ q.junk = 0 /\ q.consts = n.consts
        /\ Alive(n) \subseteq Reached(n, R)
    BY <1>2 DEF Linked, Bare
  <2>2. f \notin Alive(n) /\ n.core \in [Fn -> Chunk \cup {Nil}] /\ q.core = [n.core EXCEPT ![f] = c]
    BY Fields DEF Alive, Linked, Sound
  <2>3. \A g \in Reached(n, R) : q.core[g] = n.core[g]
    <3>1. Reached(n, R) \subseteq Alive(n)
      BY ReachedIs
    <3> QED BY <2>2, <3>1 DEF Alive
  <2>4. Reached(n, R) \subseteq Reached(q, R)
    BY <2>1, <2>3, ReachedKept
  <2>5. Reached(q, R) \subseteq Reached(q, R \cup {f}) /\ f \in Reached(q, R \cup {f})
    BY DEF Reached
  <2> QED BY <2>1, <2>4, <2>5 DEF Within, Bare
<1> QED BY <1>1, <1>2 DEF Within

\* A function made a constant of a chunk.
WithConst(n, q) ==
    /\ Sound(q) /\ Alive(q) = Alive(n) /\ Size(q) = Size(n) /\ q.used = n.used
    /\ q.core = n.core /\ q.num = n.num /\ q.cap = n.cap
    /\ q.junk = n.junk /\ q.threshold = n.threshold
    /\ \A d \in Chunk : n.consts[d] \subseteq q.consts[d]

LEMMA ConstIs ==
    ASSUME NEW n, Sound(n), NEW c \in Chunk, n.ref[c] > 0, NEW f \in Alive(n),
           NEW q, q = [n EXCEPT !.consts[c] = @ \cup {f}]
    PROVE  WithConst(n, q) /\ f \in q.consts[c]
<1>1. n \in Memory /\ n.consts \in [Chunk -> SUBSET Fn] /\ n.ref \in [Chunk -> Nat] /\ f \in Fn
  BY Fields DEF Sound, Alive
<1>2. PICK consts : consts = [n.consts EXCEPT ![c] = @ \cup {f}]
  OBVIOUS
<1>3. /\ consts \in [Chunk -> SUBSET Fn] /\ consts[c] = n.consts[c] \cup {f}
      /\ \A d \in Chunk \ {c} : consts[d] = n.consts[d]
  BY <1>1, <1>2
<1>4. q = [n EXCEPT !.consts = consts]
  BY <1>1, <1>2 DEF Memory
<1>5. q \in Memory
  BY <1>1, <1>3, <1>4 DEF Memory
<1>6. /\ q.used = n.used /\ q.live = n.live /\ q.core = n.core /\ q.ref = n.ref
      /\ q.cap = n.cap /\ q.consts = consts /\ q.num = n.num /\ q.junk = n.junk
  BY <1>1, <1>4 DEF Memory
<1>7. /\ Alive(q) = Alive(n) /\ There(q) = There(n) /\ Size(q) = Size(n)
      /\ \A d \in Chunk : Shares(q, d) = Shares(n, d)
  BY <1>6 DEF Alive, There, Size, Shares
<1>8. ASSUME NEW d \in Chunk, q.ref[d] = 0
      PROVE  q.num[d] = Empty /\ q.cap[d] = Empty /\ q.consts[d] = {}
  <2>1. d # c
    BY <1>1, <1>6, <1>8
  <2> QED BY <1>3, <1>6, <1>8, <2>1 DEF Sound
<1>9. ASSUME NEW d \in Chunk PROVE q.consts[d] \subseteq Alive(q)
  <2>1. n.consts[d] \subseteq Alive(n)
    BY DEF Sound
  <2>2. consts[d] \subseteq n.consts[d] \cup {f}
    BY <1>3
  <2> QED BY <1>6, <1>7, <2>1, <2>2
<1>10. /\ \A d \in Chunk : q.ref[d] = Cardinality(Shares(q, d))
       /\ \A d \in Chunk, a \in Array : q.num[d][a] <= q.cap[d][a]
  BY <1>6, <1>7 DEF Sound
<1>11. Sound(q)
  BY <1>5, <1>8, <1>9, <1>10 DEF Sound
<1>12. f \in q.consts[c] /\ \A d \in Chunk : n.consts[d] \subseteq q.consts[d]
  <2>1. \A d \in Chunk : n.consts[d] \subseteq consts[d]
    BY <1>3
  <2> QED BY <1>3, <1>6, <2>1
<1>13. q.threshold = n.threshold
  BY <1>1, <1>4 DEF Memory
<1> QED BY <1>6, <1>7, <1>11, <1>12, <1>13 DEF WithConst

\* A function that has become a constant of what is reached is reached without the stack.
LEMMA ConstWithin ==
    ASSUME NEW n, Sound(n), NEW c \in Chunk, NEW f \in Alive(n), NEW q,
           WithConst(n, q), f \in q.consts[c],
           NEW R \in SUBSET Alive(n), NEW S \in SUBSET Fn, R \subseteq S \cup {f},
           NEW g \in S, n.core[g] = c, Within(n, R)
    PROVE  Within(q, S)
<1>1. CASE n.used <= n.threshold
  BY <1>1 DEF WithConst, Within
<1>2. CASE Bare(n, R)
  <2>1. /\ Alive(q) = Alive(n) /\ q.junk = 0 /\ q.core = n.core
        /\ Alive(n) \subseteq Reached(n, R) /\ \A d \in Chunk : n.consts[d] \subseteq q.consts[d]
    BY <1>2 DEF WithConst, Bare
  <2>2. n.core \in [Fn -> Chunk \cup {Nil}]
    BY Fields DEF Sound
  <2>3. ASSUME NEW h \in Reached(n, R), NEW C \in SUBSET Fn, S \subseteq C,
               \A i \in C : q.core[i] # Nil => q.consts[q.core[i]] \subseteq C
        PROVE  h \in C
    <3>1. f \in C
      BY <2>1, <2>3, Constants
    <3>2. R \subseteq C
      BY <2>3, <3>1
    <3>3. \A i \in C : n.core[i] # Nil => n.consts[n.core[i]] \subseteq C
      BY <2>1, <2>2, <2>3
    <3> QED BY <3>2, <3>3 DEF Reached
  <2>4. Reached(n, R) \subseteq Reached(q, S)
    <3>1. Reached(n, R) \subseteq Fn
      BY DEF Reached
    <3> QED BY <2>3, <3>1 DEF Reached
  <2> QED BY <2>1, <2>4 DEF Within, Bare
<1> QED BY <1>1, <1>2 DEF Within

-----------------------------------------------------------------------------
(* The chunks being compiled *)

\* The functions of the innermost chunks are on top of the stack, each chunk once, and
\* the arrays of these chunks alone have room to spare, up to the step of the array.
OpenChunks(n, s, b, exact) ==
    /\ Len(b) <= Len(s)
    /\ \A i \in 1 .. Len(b) : n.core[s[Len(s) - Len(b) + i]] = b[i] /\ Round(n, b[i])
    /\ \A i, j \in 1 .. Len(b) : i # j => b[i] # b[j]
    /\ exact => Loose(n) \subseteq Range(b)

LEMMA RangeOf ==
    ASSUME NEW S, NEW s \in Seq(S)
    PROVE  /\ \A i \in 1 .. Len(s) : s[i] \in Range(s) /\ s[i] \in S
           /\ \A x \in Range(s) : \E i \in 1 .. Len(s) : s[i] = x
           /\ Range(s) \subseteq S /\ Len(s) \in Nat
<1>1. DOMAIN s = 1 .. Len(s) /\ \A i \in 1 .. Len(s) : s[i] \in S
  OBVIOUS
<1> QED BY <1>1 DEF Range

LEMMA OpenOwned ==
    ASSUME NEW n, NEW s \in Seq(Fn), NEW b \in Seq(Chunk), NEW exact \in BOOLEAN,
           OpenChunks(n, s, b, exact), NEW R \in SUBSET Fn, Range(s) \subseteq R
    PROVE  Range(b) \subseteq Owned(n, R)
<1> SUFFICES ASSUME NEW c \in Range(b) PROVE c \in Owned(n, R)
  OBVIOUS
<1>1. PICK i \in 1 .. Len(b) : b[i] = c
  BY RangeOf
<1>2. Len(s) \in Nat /\ Len(b) \in Nat /\ Len(b) <= Len(s)
  BY RangeOf DEF OpenChunks
<1>3. Len(s) - Len(b) + i \in 1 .. Len(s)
  BY <1>2
<1>4. s[Len(s) - Len(b) + i] \in R
  BY <1>3, RangeOf
<1>5. n.core[s[Len(s) - Len(b) + i]] = c /\ c \in Chunk
  BY <1>1, RangeOf DEF OpenChunks
<1> QED BY <1>4, <1>5 DEF Owned

LEMMA OpenLater ==
    ASSUME NEW n, NEW s \in Seq(Fn), NEW b \in Seq(Chunk), NEW exact \in BOOLEAN,
           OpenChunks(n, s, b, exact), NEW R \in SUBSET Fn, Range(s) \subseteq R,
           NEW q, NEW D \in SUBSET Range(b), Later(n, q, R, D), \A c \in D : Round(q, c)
    PROVE  OpenChunks(q, s, b, exact)
<1>1. Len(s) \in Nat /\ Len(b) \in Nat /\ Len(b) <= Len(s)
  BY RangeOf DEF OpenChunks
<1>2. ASSUME NEW i \in 1 .. Len(b)
      PROVE  q.core[s[Len(s) - Len(b) + i]] = b[i] /\ Round(q, b[i])
  <2>1. Len(s) - Len(b) + i \in 1 .. Len(s)
    BY <1>1
  <2>2. s[Len(s) - Len(b) + i] \in R
    BY <2>1, RangeOf
  <2>3. n.core[s[Len(s) - Len(b) + i]] = b[i] /\ Round(n, b[i])
    BY DEF OpenChunks
  <2>4. b[i] \in Range(b)
    BY RangeOf
  <2>5. b[i] \in Owned(n, R)
    BY <2>4, OpenOwned
  <2>6. CASE b[i] \in D
    BY <2>2, <2>3, <2>6 DEF Later
  <2>7. CASE b[i] \notin D
    <3>1. q.num[b[i]] = n.num[b[i]] /\ q.cap[b[i]] = n.cap[b[i]]
      BY <2>5, <2>7 DEF Later
    <3> QED BY <2>2, <2>3, <3>1 DEF Later, Round
  <2> QED BY <2>6, <2>7
<1>3. exact => Loose(q) \subseteq Range(b)
  BY DEF OpenChunks, Later
<1> QED BY <1>1, <1>2, <1>3 DEF OpenChunks

-----------------------------------------------------------------------------
(* The invariant *)

Types ==
    /\ stk \in Seq(Fn) /\ kept \subseteq Fn /\ blk \in Seq(Chunk)
    /\ failed \in Nat /\ over \in BOOLEAN

Exact == failed = 0

\* The memory is sound and paid for, what the stack and the globals hold is there, and
\* the open chunks are those of the functions on top of the stack.
AccountInv ==
    /\ Types
    /\ Sound(m) /\ Pays(m, 0, Exact)
    /\ Held \subseteq Alive(m)
    /\ OpenChunks(m, stk, blk, Exact)

LEMMA InvFacts ==
    ASSUME AccountInv
    PROVE  /\ Exact \in BOOLEAN
           /\ Range(stk) \subseteq Held /\ Held \in SUBSET Fn /\ Held \in SUBSET Alive(m)
           /\ Range(blk) \subseteq Owned(m, Held)
           /\ Exact => Loose(m) \subseteq Owned(m, Held)
           /\ m \in Memory /\ m.used \in Nat /\ m.live \in Nat /\ m.junk \in Nat
           /\ Size(m) \in Nat
<1>1. Range(stk) \subseteq Held /\ Held \in SUBSET Fn /\ Held \in SUBSET Alive(m)
  BY DEF AccountInv, Held, Alive
<1>2. Exact \in BOOLEAN
  BY DEF Exact
<1>3. Range(blk) \subseteq Owned(m, Held)
  BY <1>1, <1>2, OpenOwned DEF AccountInv, Types
<1>4. Exact => Loose(m) \subseteq Owned(m, Held)
  BY <1>3 DEF AccountInv, OpenChunks
<1>5. m \in Memory
  BY DEF AccountInv, Sound
<1> QED BY <1>1, <1>2, <1>3, <1>4, <1>5, Fields, Counts

LEMMA InnermostIs ==
    ASSUME AccountInv, blk # <<>>
    PROVE  /\ Len(blk) \in Nat \ {0} /\ Innermost \in Range(blk) /\ Innermost \in Chunk
           /\ Innermost \in Owned(m, Held) /\ Round(m, Innermost)
<1>1. blk \in Seq(Chunk) /\ Len(blk) \in Nat \ {0}
  BY DEF AccountInv, Types
<1>2. Len(blk) \in 1 .. Len(blk)
  BY <1>1
<1>3. Innermost \in Range(blk) /\ Innermost \in Chunk
  BY <1>1, <1>2, RangeOf DEF Innermost
<1>4. Round(m, Innermost)
  BY <1>2 DEF AccountInv, OpenChunks, Innermost
<1> QED BY <1>1, <1>3, <1>4, InvFacts

\* What a step leaves of the garbage, see Bounded.
LEMMA BoundedIs ==
    ASSUME AccountInv, m' \in Memory, Within(m', Held') \/ m'.used <= m.used
    PROVE  Bounded
<1>1. m'.used \in Nat /\ m.used \in Nat
  BY Fields, InvFacts
<1>2. CASE m'.used <= m.used
  BY <1>1, <1>2 DEF Bounded
<1>3. CASE Bare(m', Held')
  <2>1. Garbage' = {}
    BY <1>3 DEF Garbage, Bare, Alive, Reached
  <2> QED BY <1>3, <2>1 DEF Bounded, Bare
<1>4. CASE m'.used <= m'.threshold
  BY <1>4 DEF Bounded
<1> QED BY <1>2, <1>3, <1>4 DEF Within

\* A step that only collects and adds items to open chunks.
LEMMA MemoryStep ==
    ASSUME AccountInv, NEW D \in SUBSET Range(blk), After(m, m', Held, D, 0, Exact),
           UNCHANGED <<stk, kept, blk, failed, over>>
    PROVE  AccountInv' /\ Bounded
<1>1. Types' /\ Held' = Held /\ Exact' = Exact
  BY DEF AccountInv, Types, Held, Exact
<1>2. OpenChunks(m', stk, blk, Exact)
  BY InvFacts, OpenLater DEF AccountInv, Types, After
<1>3. OpenChunks(m, stk, blk, Exact)'
  BY <1>1, <1>2
<1>4. Pays(m, 0, Exact)' /\ Sound(m)'
  BY <1>1 DEF After
<1>5. (Held \subseteq Alive(m))'
  BY <1>1 DEF After
<1>6. Bounded
  <2>1. m' \in Memory /\ (Within(m', Held') \/ m'.used <= m.used)
    BY <1>1 DEF After, Tidied, Quiet, Sound
  <2> QED BY <2>1, BoundedIs
<1> QED BY <1>1, <1>3, <1>4, <1>5, <1>6 DEF AccountInv

LEMMA EmitInv == ASSUME AccountInv, Emit PROVE AccountInv' /\ Bounded
<1>1. blk # <<>> /\ m' = Emitted(m, Innermost, Held) /\ UNCHANGED <<stk, kept, blk, failed, over>>
  BY DEF Emit, Compiling
<1>2. /\ Innermost \in Owned(m, Held) /\ Round(m, Innermost) /\ Innermost \in Range(blk)
  BY <1>1, InnermostIs
<1>3. /\ Sound(m) /\ Pays(m, 0, Exact) /\ Exact \in BOOLEAN /\ Held \in SUBSET Alive(m)
      /\ Exact => Loose(m) \subseteq Owned(m, Held)
  BY InvFacts DEF AccountInv
<1>4. After(m, m', Held, {Innermost}, 0, Exact)
  BY <1>1, <1>2, <1>3, EmittedIs
<1> QED BY <1>1, <1>2, <1>4, MemoryStep

LEMMA AddItemInv ==
    ASSUME AccountInv, NEW a \in {"kval", "lz"}, AddItem(a)
    PROVE  AccountInv' /\ Bounded
<1>1. blk # <<>> /\ m' = Needed(m, Innermost, a, Held) /\ UNCHANGED <<stk, kept, blk, failed, over>>
  BY DEF AddItem, Compiling
<1>2. /\ Innermost \in Owned(m, Held) /\ Round(m, Innermost) /\ Innermost \in Range(blk)
  BY <1>1, InnermostIs
<1>3. /\ Sound(m) /\ Pays(m, 0, Exact) /\ Exact \in BOOLEAN /\ Held \in SUBSET Alive(m)
      /\ Exact => Loose(m) \subseteq Owned(m, Held)
  BY InvFacts DEF AccountInv
<1>4. a \in Array
  BY Constants
<1>5. After(m, m', Held, {Innermost}, 0, Exact)
  BY <1>1, <1>2, <1>3, <1>4, NeededIs
<1> QED BY <1>1, <1>2, <1>5, MemoryStep

LEMMA CollectInv == ASSUME AccountInv, Collect PROVE AccountInv' /\ Bounded
<1>1. m' = Collected(m, Held) /\ UNCHANGED <<stk, kept, blk, failed, over>>
  BY DEF Collect
<1>2. Sound(m) /\ Pays(m, 0, Exact)
  BY DEF AccountInv
<1>3. After(m, m', Held, {}, 0, Exact)
  BY <1>1, <1>2, InvFacts, CollectedIs
<1> QED BY <1>1, <1>3, MemoryStep

LEMMA MakeInv ==
    ASSUME AccountInv, NEW size \in 1 .. MaxUnits, Make(size)
    PROVE  AccountInv' /\ Bounded
<1>1. /\ m' = [Recorded(m, size, Held) EXCEPT !.live = @ + size]
      /\ UNCHANGED <<stk, kept, blk, failed, over>>
  BY DEF Make
<1>2. size \in Nat
  BY AccountAssumption
<1>3. PICK n : n = Recorded(m, size, Held)
  OBVIOUS
<1>4. m.used + size >= Size(m) + size /\ (Exact => m.used + size = Size(m) + size)
  BY <1>2, InvFacts DEF AccountInv, Pays
<1>5. /\ Sound(n) /\ Pays(n, size, Exact) /\ Held \subseteq Alive(n) /\ Later(m, n, Held, {})
      /\ Tidied(m, n, Held)
  <2>1. Sound(m)
    BY DEF AccountInv
  <2>2. After(m, n, Held, {}, size, Exact)
    BY <1>2, <1>3, <1>4, <2>1, InvFacts, RecordedIs
  <2> QED BY <2>2 DEF After
<1>6. n \in Memory /\ n.live \in Nat /\ n.junk \in Nat /\ n.used \in Nat
  BY <1>5, Fields DEF Sound
<1>7. PICK l \in Nat : l = n.live + size
  BY <1>2, <1>6
<1>8. m' = [n EXCEPT !.live = l]
  BY <1>1, <1>3, <1>6, <1>7 DEF Memory
<1>9. m' \in Memory
  BY <1>6, <1>8 DEF Memory
<1>10. SameBlocks(n, m') /\ m'.live = l /\ m'.junk = n.junk /\ m'.used = n.used
  BY <1>6, <1>8 DEF Memory, SameBlocks
<1>11. /\ Sound(m') /\ Alive(m') = Alive(n) /\ Loose(m') = Loose(n)
       /\ Size(m') + (n.live + n.junk) = Size(n) + (m'.live + m'.junk)
  BY <1>5, <1>9, <1>10, BlocksKept
<1>12. Size(m') = Size(n) + size
  <2>1. Size(m') \in Nat /\ Size(n) \in Nat
    BY <1>6, <1>9, Counts
  <2> QED BY <1>2, <1>6, <1>7, <1>10, <1>11, <2>1
<1>13. Pays(m', 0, Exact)
  <2>1. Size(n) \in Nat
    BY <1>6, Counts
  <2> QED BY <1>2, <1>5, <1>6, <1>10, <1>12, <2>1 DEF Pays
<1>14. OpenChunks(m', stk, blk, Exact)
  <2>1. OpenChunks(n, stk, blk, Exact)
    BY <1>5, InvFacts, OpenLater DEF AccountInv, Types
  <2> QED BY <1>10, <1>11, <2>1 DEF OpenChunks, SameBlocks, Round
<1>15. Types' /\ Held' = Held /\ Exact' = Exact
  BY <1>1 DEF AccountInv, Types, Held, Exact
<1>16. OpenChunks(m, stk, blk, Exact)' /\ Pays(m, 0, Exact)' /\ Sound(m)'
  BY <1>1, <1>11, <1>13, <1>14, <1>15
<1>17. (Held \subseteq Alive(m))'
  BY <1>5, <1>11, <1>15
<1>18. Bounded
  <2>1. m'.threshold = n.threshold
    BY <1>6, <1>8 DEF Memory
  <2>2. Quiet(n, m')
    BY <1>6, <1>10, <2>1 DEF Quiet, SameFunctions, SameBlocks
  <2>3. Tidied(n, m', Held)
    BY <2>2 DEF Tidied
  <2>4. Tidied(m, m', Held)
    BY <1>5, <1>6, <1>9, <2>3, InvFacts, TidiedTwice
  <2>5. Within(m', Held') \/ m'.used <= m.used
    BY <1>15, <2>4 DEF Tidied, Quiet
  <2> QED BY <1>9, <2>5, BoundedIs
<1> QED BY <1>15, <1>16, <1>17, <1>18 DEF AccountInv

LEMMA LeaveInv ==
    ASSUME AccountInv, NEW size \in 1 .. MaxUnits, Leave(size)
    PROVE  AccountInv' /\ Bounded
<1>1. /\ m' = [m EXCEPT !.live = @ - size, !.junk = @ + size] /\ size <= m.live
      /\ UNCHANGED <<stk, kept, blk, failed, over>>
  BY DEF Leave
<1>2. size \in Nat /\ m \in Memory /\ m.live \in Nat /\ m.junk \in Nat /\ m.used \in Nat
  BY AccountAssumption, InvFacts
<1>3. PICK l \in Nat, j \in Nat : l = m.live - size /\ j = m.junk + size
  BY <1>1, <1>2
<1>4. m' = [m EXCEPT !.live = l, !.junk = j]
  BY <1>1, <1>2, <1>3 DEF Memory
<1>5. m' = [used |-> m.used, threshold |-> m.threshold, core |-> m.core, ref |-> m.ref,
            num |-> m.num, cap |-> m.cap, consts |-> m.consts, live |-> l, junk |-> j]
  BY <1>2, <1>4 DEF Memory
<1>6. m' \in Memory
  BY <1>2, <1>5 DEF Memory
<1>7. SameBlocks(m, m') /\ m'.live = l /\ m'.junk = j /\ m'.used = m.used
  BY <1>2, <1>4 DEF Memory, SameBlocks
<1>8. /\ Sound(m') /\ Alive(m') = Alive(m) /\ Loose(m') = Loose(m)
      /\ Size(m') + (m.live + m.junk) = Size(m) + (m'.live + m'.junk)
  BY <1>6, <1>7, BlocksKept DEF AccountInv
<1>9. Size(m') = Size(m)
  <2>1. Size(m') \in Nat /\ Size(m) \in Nat
    BY <1>2, <1>6, Counts
  <2> QED BY <1>2, <1>3, <1>7, <1>8, <2>1
<1>10. Pays(m', 0, Exact)
  BY <1>7, <1>9 DEF AccountInv, Pays
<1>11. OpenChunks(m', stk, blk, Exact)
  BY <1>7, <1>8 DEF AccountInv, OpenChunks, SameBlocks, Round
<1>12. Types' /\ Held' = Held /\ Exact' = Exact
  BY <1>1 DEF AccountInv, Types, Held, Exact
<1>13. OpenChunks(m, stk, blk, Exact)' /\ Pays(m, 0, Exact)' /\ Sound(m)'
  BY <1>1, <1>8, <1>10, <1>11, <1>12
<1>14. (Held \subseteq Alive(m))'
  BY <1>8, <1>12 DEF AccountInv
<1>15. Bounded
  BY <1>2, <1>6, <1>7, BoundedIs
<1> QED BY <1>12, <1>13, <1>14, <1>15 DEF AccountInv

\* The rest of the invariant, from what holds of the memory.
LEMMA StepInv ==
    ASSUME Types', Sound(m'), Pays(m', 0, Exact'), Held' \subseteq Alive(m'),
           OpenChunks(m', stk', blk', Exact')
    PROVE  AccountInv'
<1>1. Sound(m)' /\ Pays(m, 0, Exact)' /\ (Held \subseteq Alive(m))' /\ OpenChunks(m, stk, blk, Exact)'
  OBVIOUS
<1> QED BY <1>1 DEF AccountInv

\* r is s without its last element.
IsFront(S, s, r) ==
    /\ r \in Seq(S) /\ Len(r) = Len(s) - 1 /\ Len(s) \in Nat \ {0}
    /\ \A i \in 1 .. Len(s) - 1 : r[i] = s[i]
    /\ Range(r) \subseteq Range(s) /\ Range(s) \subseteq Range(r) \cup {s[Len(s)]}

LEMMA FrontIs ==
    ASSUME NEW S, NEW s \in Seq(S), s # <<>>, NEW r, r = SubSeq(s, 1, Len(s) - 1)
    PROVE  IsFront(S, s, r)
<1>1. Len(s) \in Nat \ {0} /\ Len(s) - 1 \in Nat
  OBVIOUS
<1>4. r \in Seq(S)
  BY <1>1
<1>5. Len(r) = Len(s) - 1
  <2>1. PICK n \in Nat : n = Len(s) - 1
    BY <1>1
  <2>2. r = SubSeq(s, 1, n) /\ n <= Len(s)
    BY <1>1, <2>1
  <2>3. Len(r) = n
    BY <2>2
  <2> QED BY <2>1, <2>3
<1>6. ASSUME NEW i \in 1 .. Len(s) - 1 PROVE r[i] = s[i]
  BY <1>1
<1>2. r \in Seq(S) /\ Len(r) = Len(s) - 1 /\ \A i \in 1 .. Len(s) - 1 : r[i] = s[i]
  BY <1>4, <1>5, <1>6
<1>3. ASSUME NEW x \in Range(r) PROVE x \in Range(s)
  <2>1. PICK i \in 1 .. Len(r) : r[i] = x
    BY <1>2, RangeOf
  <2>2. i \in 1 .. Len(s) /\ s[i] = x
    BY <1>1, <1>2, <2>1
  <2> QED BY <2>2, RangeOf
<1>7. ASSUME NEW x \in Range(s), x # s[Len(s)] PROVE x \in Range(r)
  <2>1. PICK i \in 1 .. Len(s) : s[i] = x
    BY <1>7, RangeOf
  <2>2. i \in 1 .. Len(s) - 1
    BY <1>1, <1>7, <2>1
  <2>3. i \in 1 .. Len(r) /\ r[i] = x
    BY <1>2, <2>1, <2>2
  <2>4. DOMAIN r = 1 .. Len(r)
    BY <1>2
  <2> QED BY <2>3, <2>4 DEF Range
<1> QED BY <1>1, <1>2, <1>3, <1>7 DEF IsFront

LEMMA FailInv == ASSUME AccountInv, Fail PROVE AccountInv' /\ Bounded
<1>1. /\ blk # <<>> /\ failed' = failed + 1 /\ blk' = <<>> /\ UNCHANGED <<m, kept, over>>
      /\ stk' = SubSeq(stk, 1, Len(stk) - 1)
  BY DEF Fail, Compiling
<1>2. stk \in Seq(Fn) /\ stk # <<>>
  <2>1. Len(blk) >= 1 /\ Len(blk) <= Len(stk) /\ stk \in Seq(Fn) /\ Len(stk) \in Nat
    BY InnermostIs, <1>1 DEF AccountInv, OpenChunks, Types
  <2> QED BY <2>1
<1>3. stk' \in Seq(Fn) /\ Range(stk') \subseteq Range(stk) /\ Len(stk') \in Nat
  <2>1. IsFront(Fn, stk, stk')
    BY <1>1, <1>2, FrontIs
  <2> QED BY <2>1 DEF IsFront
<1>4. Exact' = FALSE /\ Types'
  BY <1>1, <1>3 DEF AccountInv, Types, Exact
<1>5. Held' \subseteq Alive(m')
  BY <1>1, <1>3 DEF AccountInv, Held
<1>6. OpenChunks(m', stk', blk', Exact')
  BY <1>1, <1>3, <1>4 DEF OpenChunks
<1>7. Pays(m', 0, Exact') /\ Sound(m')
  BY <1>1, <1>4 DEF AccountInv, Pays
<1>8. Bounded
  BY <1>1, InvFacts, BoundedIs
<1> QED BY <1>4, <1>5, <1>6, <1>7, <1>8, StepInv

LEMMA StoreInv == ASSUME AccountInv, Store PROVE AccountInv' /\ Bounded
<1>1. /\ blk = <<>> /\ stk # <<>> /\ kept' \in {kept, kept \cup {stk[Len(stk)]}}
      /\ stk' = SubSeq(stk, 1, Len(stk) - 1) /\ UNCHANGED <<m, blk, failed, over>>
  BY DEF Store, Scripting, Compiling
<1>2. stk \in Seq(Fn) /\ Len(stk) \in 1 .. Len(stk)
  BY <1>1 DEF AccountInv, Types
<1>3. stk' \in Seq(Fn) /\ Range(stk') \subseteq Range(stk) /\ Len(stk') \in Nat
  <2>1. IsFront(Fn, stk, stk')
    BY <1>1, <1>2, FrontIs
  <2> QED BY <2>1 DEF IsFront
<1>4. stk[Len(stk)] \in Range(stk) /\ stk[Len(stk)] \in Fn
  BY <1>2, RangeOf
<1>5. Exact' = Exact /\ Types'
  BY <1>1, <1>3, <1>4 DEF AccountInv, Types, Exact
<1>6. Held' \subseteq Alive(m')
  BY <1>1, <1>3, <1>4 DEF AccountInv, Held
<1>7. OpenChunks(m', stk', blk', Exact')
  BY <1>1, <1>3, <1>5 DEF AccountInv, OpenChunks
<1>8. Pays(m', 0, Exact') /\ Sound(m')
  BY <1>1, <1>5 DEF AccountInv
<1>9. Bounded
  BY <1>1, InvFacts, BoundedIs
<1> QED BY <1>5, <1>6, <1>7, <1>8, <1>9, StepInv

LEMMA ForgetInv ==
    ASSUME AccountInv, NEW f \in Fn, Forget(f)
    PROVE  AccountInv' /\ Bounded
<1>1. kept' = kept \ {f} /\ UNCHANGED <<m, stk, blk, failed, over>>
  BY DEF Forget
<1>2. Exact' = Exact /\ Types'
  BY <1>1 DEF AccountInv, Types, Exact
<1>3. Held' \subseteq Alive(m')
  BY <1>1 DEF AccountInv, Held
<1>4. OpenChunks(m', stk', blk', Exact') /\ Pays(m', 0, Exact') /\ Sound(m')
  BY <1>1, <1>2 DEF AccountInv
<1>5. Bounded
  BY <1>1, InvFacts, BoundedIs
<1> QED BY <1>2, <1>3, <1>4, <1>5, StepInv

LEMMA FinishInv == ASSUME AccountInv, Finish PROVE AccountInv' /\ Bounded
<1>1. /\ blk = <<>> /\ stk' = <<>> /\ kept' = {} /\ over' = TRUE /\ UNCHANGED <<blk, failed>>
      /\ m' = [Final(m, {f \in Fn : m.core[f] # Nil})
                  EXCEPT !.used = @ - (m.live + m.junk), !.live = 0, !.junk = 0]
  BY DEF Finish, Scripting, Compiling
<1>2. PICK dead : dead = {f \in Fn : m.core[f] # Nil}
  OBVIOUS
<1>3. dead = Alive(m)
  BY <1>2 DEF Alive
<1>4. Unneeded(m, dead)
  BY <1>3 DEF Unneeded
<1>5. PICK s : s = Final(m, dead)
  OBVIOUS
<1>6. Sound(m) /\ Pays(m, 0, Exact) /\ Exact \in BOOLEAN /\ (Exact => Loose(m) = {})
  <2>1. Range(blk) = {}
    BY <1>1 DEF Range
  <2> QED BY <2>1, InvFacts DEF AccountInv, OpenChunks
<1>7. IsFinal(m, dead, s)
  BY <1>4, <1>5, <1>6, FinalIs
<1>8. s.used \in Nat /\ s.used >= Size(s) + 0 /\ (Exact => s.used = Size(s) + 0) /\ Size(s) \in Nat
  BY <1>4, <1>5, <1>6, FinalPays
<1>9. Sound(s)
  BY <1>4, <1>5, <1>6, <1>8, FinalSound
<1>10. s.live = m.live /\ s.junk = m.junk /\ m.live \in Nat /\ m.junk \in Nat /\ s \in Memory
  BY <1>7, <1>9, InvFacts DEF IsFinal, Sound
<1>11. PICK z \in Nat : z = Size(s) - (m.live + m.junk)
  <2>1. PICK fa \in Nat : fa = FuncSize * Cardinality(Alive(s))
    BY <1>10, Counts
  <2>2. PICK b \in Nat : b = Bytes(s.cap, There(s))
    BY <1>10, Counts
  <2>3. Size(s) = fa + b + m.live + m.junk
    BY <1>10, <2>1, <2>2 DEF Size
  <2>4. Size(s) - (m.live + m.junk) = fa + b
    BY <1>10, <2>3
  <2> QED BY <2>4
<1>12. PICK u \in Nat : u = s.used - (m.live + m.junk)
  BY <1>8, <1>10, <1>11
<1>13. m' = [s EXCEPT !.used = u, !.live = 0, !.junk = 0]
  BY <1>1, <1>2, <1>5, <1>10, <1>12 DEF Memory
<1>14. m' = [used |-> u, threshold |-> s.threshold, core |-> s.core, ref |-> s.ref,
             num |-> s.num, cap |-> s.cap, consts |-> s.consts, live |-> 0, junk |-> 0]
  BY <1>10, <1>13 DEF Memory
<1>15. m' \in Memory
  BY <1>10, <1>14 DEF Memory
<1>16. SameBlocks(s, m') /\ m'.live = 0 /\ m'.junk = 0 /\ m'.used = u
  BY <1>10, <1>13 DEF Memory, SameBlocks
<1>17. /\ Sound(m') /\ Loose(m') = Loose(s)
       /\ Size(m') + (s.live + s.junk) = Size(s) + (m'.live + m'.junk)
  BY <1>9, <1>15, <1>16, BlocksKept
<1>18. Size(m') = z
  <2>1. Size(m') \in Nat
    BY <1>15, Counts
  <2> QED BY <1>8, <1>10, <1>11, <1>16, <1>17, <2>1
<1>19. Pays(m', 0, Exact)
  BY <1>8, <1>10, <1>11, <1>12, <1>16, <1>18 DEF Pays
<1>20. Exact' = Exact /\ Types' /\ Held' = {}
  <2>1. Range(stk') = {} /\ stk' \in Seq(Fn)
    BY <1>1 DEF Range
  <2> QED BY <1>1, <2>1 DEF AccountInv, Types, Exact, Held
<1>21. Exact => Loose(s) = {}
  <2>1. /\ s.num = [c \in Chunk |-> IF c \in Gone(m, dead) THEN Empty ELSE m.num[c]]
        /\ s.cap = [c \in Chunk |-> IF c \in Gone(m, dead) THEN Empty ELSE m.cap[c]]
    BY <1>7 DEF IsFinal
  <2> QED BY <1>6, <2>1 DEF Loose
<1>22. OpenChunks(m', stk', blk', Exact')
  <2>1. blk' = <<>> /\ Len(blk') = 0 /\ Len(stk') = 0
    BY <1>1
  <2> QED BY <1>17, <1>20, <1>21, <2>1 DEF OpenChunks
<1>23. Bounded
  <2>1. Alive(m') = {}
    <3>1. Alive(s) = Alive(m) \ dead
      BY <1>4, <1>5, <1>6, FinalLeaves
    <3>2. Alive(s) = {}
      BY <1>3, <3>1
    <3> QED BY <1>16, <3>2 DEF Alive, SameBlocks
  <2>2. Within(m', Held')
    BY <1>16, <2>1 DEF Within, Bare
  <2> QED BY <1>15, <2>2, BoundedIs
<1> QED BY <1>17, <1>19, <1>20, <1>22, <1>23, StepInv

LEMMA CloneInv ==
    ASSUME AccountInv, NEW f \in Fn, NEW g \in Fn, Clone(f, g)
    PROVE  AccountInv' /\ Bounded
<1>1. /\ blk = <<>> /\ f \in kept /\ m.core[g] = Nil
      /\ kept' = kept \cup {g} /\ UNCHANGED <<stk, blk, failed, over>>
  BY DEF Clone, Scripting, Compiling
<1>2. PICK n : n = Recorded(m, FuncSize, Held)
  OBVIOUS
<1>3. PICK c : c = m.core[f]
  OBVIOUS
<1>4. m' = [n EXCEPT !.core[g] = c, !.ref[c] = @ + 1]
  BY <1>2, <1>3 DEF Clone
<1>5. f \in Held /\ c \in Chunk /\ m.core \in [Fn -> Chunk \cup {Nil}]
  <2>1. f \in Held /\ m.core[f] # Nil /\ m.core \in [Fn -> Chunk \cup {Nil}]
    BY <1>1, InvFacts, Fields DEF Held, Alive
  <2> QED BY <1>3, <2>1
<1>6. /\ Sound(m) /\ Pays(m, 0, Exact) /\ Exact \in BOOLEAN /\ Held \in SUBSET Alive(m)
      /\ Exact => Loose(m) \subseteq Owned(m, Held)
  BY InvFacts DEF AccountInv
<1>7. FuncSize \in Nat /\ Size(m) \in Nat /\ m.used \in Nat
  BY Constants, InvFacts
<1>8. m.used + FuncSize >= Size(m) + FuncSize /\ (Exact => m.used + FuncSize = Size(m) + FuncSize)
  BY <1>6, <1>7 DEF Pays
<1>9. After(m, n, Held, {}, FuncSize, Exact)
  BY <1>2, <1>6, <1>7, <1>8, RecordedIs
<1>10. /\ Sound(n) /\ Pays(n, FuncSize, Exact) /\ Held \subseteq Alive(n)
       /\ n.core[f] = c /\ n.core[g] = Nil /\ Loose(n) \subseteq Loose(m)
  BY <1>1, <1>3, <1>5, <1>9 DEF After, Later
<1>11. Linked(n, m', g, c)
  BY <1>4, <1>5, <1>10, LinkedIs
<1>12. n.ref[c] # 0
  BY <1>5, <1>10, Counted
<1>13. Size(m') = Size(n) + FuncSize /\ m'.used = n.used /\ Size(n) \in Nat /\ n.used \in Nat
  <2>1. Size(n) \in Nat /\ n.used \in Nat
    BY <1>10, Counts, Fields DEF Sound
  <2>2. Size(m') = Size(n) + FuncSize + 0 /\ m'.used = n.used
    BY <1>11, <1>12 DEF Linked
  <2> QED BY <1>7, <2>1, <2>2
<1>14. Pays(m', 0, Exact)
  BY <1>7, <1>10, <1>13 DEF Pays
<1>15. Exact' = Exact /\ Types' /\ Held' = Held \cup {g}
  BY <1>1 DEF AccountInv, Types, Exact, Held
<1>16. Sound(m') /\ Held' \subseteq Alive(m') /\ Loose(m') = Loose(n)
  BY <1>10, <1>11, <1>15 DEF Linked, Loose
<1>17. OpenChunks(m', stk', blk', Exact')
  BY <1>1, <1>10, <1>15, <1>16 DEF AccountInv, OpenChunks
<1>18. Bounded
  <2>1. CASE Within(n, Held)
    <3>1. Within(m', Held \cup {g})
      BY <1>5, <1>10, <1>11, <2>1, LinkedWithin
    <3> QED BY <1>15, <1>16, <3>1, BoundedIs DEF Sound
  <2>2. CASE Quiet(m, n)
    BY <1>13, <1>16, <2>2, BoundedIs DEF Quiet, Sound
  <2> QED BY <1>9, <2>1, <2>2 DEF After, Tidied
<1> QED BY <1>14, <1>15, <1>16, <1>17, <1>18, StepInv

\* r is s with e at the end.
IsPushed(S, s, e, r) ==
    /\ r \in Seq(S) /\ Len(r) = Len(s) + 1 /\ Len(s) \in Nat
    /\ r[Len(s) + 1] = e /\ \A i \in 1 .. Len(s) : r[i] = s[i]
    /\ Range(r) = Range(s) \cup {e}

LEMMA AppendIs ==
    ASSUME NEW S, NEW s \in Seq(S), NEW e \in S, NEW r, r = Append(s, e)
    PROVE  IsPushed(S, s, e, r)
<1>1. r \in Seq(S) /\ Len(r) = Len(s) + 1 /\ Len(s) \in Nat
  OBVIOUS
<1>2. r[Len(s) + 1] = e /\ \A i \in 1 .. Len(s) : r[i] = s[i]
  OBVIOUS
<1>3. ASSUME NEW x \in Range(r) PROVE x \in Range(s) \cup {e}
  <2>1. PICK i \in 1 .. Len(r) : r[i] = x
    BY <1>1, RangeOf
  <2>2. i = Len(s) + 1 \/ i \in 1 .. Len(s)
    BY <1>1
  <2> QED BY <1>2, <2>1, <2>2, RangeOf
<1>4. ASSUME NEW x \in Range(s) \cup {e} PROVE x \in Range(r)
  <2>1. CASE x = e
    <3>1. Len(s) + 1 \in 1 .. Len(r) /\ r \in Seq(S)
      BY <1>1
    <3>2. r[Len(s) + 1] \in Range(r)
      BY <3>1, RangeOf
    <3> QED BY <1>2, <2>1, <3>2
  <2>2. CASE x \in Range(s)
    <3>1. PICK i \in 1 .. Len(s) : s[i] = x
      BY <2>2, RangeOf
    <3>2. i \in 1 .. Len(r) /\ r[i] = x
      BY <1>1, <1>2, <3>1
    <3> QED BY <1>1, <3>2, RangeOf
  <2> QED BY <2>1, <2>2
<1> QED BY <1>1, <1>2, <1>3, <1>4 DEF IsPushed

\* A new function and its chunk on top.
LEMMA OpenPushed ==
    ASSUME NEW n, NEW s \in Seq(Fn), NEW b \in Seq(Chunk), NEW exact \in BOOLEAN,
           OpenChunks(n, s, b, exact), NEW f \in Fn, NEW c \in Chunk, c \notin Range(b),
           NEW q, q.core[f] = c, \A g \in Range(s) : q.core[g] = n.core[g],
           q.num = n.num, q.cap = n.cap, Round(q, c)
    PROVE  OpenChunks(q, Append(s, f), Append(b, c), exact)
<1>1. PICK t : t = Append(s, f)
  OBVIOUS
<1>2. PICK d : d = Append(b, c)
  OBVIOUS
<1>3. /\ Len(t) = Len(s) + 1 /\ Len(s) \in Nat /\ t[Len(s) + 1] = f
      /\ \A i \in 1 .. Len(s) : t[i] = s[i]
  <2>1. IsPushed(Fn, s, f, t)
    BY <1>1, AppendIs
  <2> QED BY <2>1 DEF IsPushed
<1>4. /\ Len(d) = Len(b) + 1 /\ Len(b) \in Nat /\ d[Len(b) + 1] = c
      /\ \A i \in 1 .. Len(b) : d[i] = b[i]
      /\ Range(d) = Range(b) \cup {c}
  <2>1. IsPushed(Chunk, b, c, d)
    BY <1>2, AppendIs
  <2> QED BY <2>1 DEF IsPushed
<1>5. Len(b) <= Len(s)
  BY DEF OpenChunks
<1>6. Len(d) <= Len(t)
  BY <1>3, <1>4, <1>5
<1>7. ASSUME NEW i \in 1 .. Len(d)
      PROVE  q.core[t[Len(t) - Len(d) + i]] = d[i] /\ Round(q, d[i])
  <2>1. CASE i = Len(b) + 1
    <3>1. Len(t) - Len(d) + i = Len(s) + 1
      BY <1>3, <1>4, <2>1
    <3> QED BY <1>3, <1>4, <2>1, <3>1
  <2>2. CASE i # Len(b) + 1
    <3>1. i \in 1 .. Len(b)
      BY <1>4, <2>2
    <3>2. PICK j : j = Len(s) - Len(b) + i /\ j \in 1 .. Len(s)
      BY <1>3, <1>4, <1>5, <3>1
    <3>3. Len(t) - Len(d) + i = j
      BY <1>3, <1>4, <3>2
    <3>4. n.core[s[j]] = b[i] /\ Round(n, b[i])
      BY <3>1, <3>2 DEF OpenChunks
    <3>5. s[j] \in Range(s)
      BY <3>2, RangeOf
    <3>6. Round(q, b[i])
      BY <3>4 DEF Round
    <3> QED BY ZenonT(60), <1>3, <1>4, <3>1, <3>2, <3>3, <3>4, <3>5, <3>6
  <2> QED BY <2>1, <2>2
<1>8. ASSUME NEW i \in 1 .. Len(d), NEW j \in 1 .. Len(d), i # j PROVE d[i] # d[j]
  <2>1. \A k \in 1 .. Len(d) : k = Len(b) + 1 \/ k \in 1 .. Len(b)
    BY <1>4
  <2>2. \A k \in 1 .. Len(b) : d[k] = b[k] /\ b[k] \in Range(b)
    BY <1>4, RangeOf
  <2>3. CASE i \in 1 .. Len(b) /\ j \in 1 .. Len(b)
    BY <1>8, <2>2, <2>3 DEF OpenChunks
  <2>4. CASE i = Len(b) + 1 /\ j \in 1 .. Len(b)
    BY <1>4, <2>2, <2>4
  <2>5. CASE j = Len(b) + 1 /\ i \in 1 .. Len(b)
    BY <1>4, <2>2, <2>5
  <2> QED BY <1>8, <2>1, <2>3, <2>4, <2>5
<1>9. exact => Loose(q) \subseteq Range(d)
  BY <1>4 DEF OpenChunks, Loose
<1> QED BY ZenonT(60), <1>1, <1>2, <1>6, <1>7, <1>8, <1>9 DEF OpenChunks

\* The innermost chunk is done: it has no room to spare.
LEMMA OpenPopped ==
    ASSUME NEW n, NEW s \in Seq(Fn), NEW b \in Seq(Chunk), NEW exact \in BOOLEAN,
           OpenChunks(n, s, b, exact), b # <<>>, NEW R \in SUBSET Fn, Range(s) \subseteq R,
           NEW q, Later(n, q, R, {b[Len(b)]}), b[Len(b)] \notin Loose(q)
    PROVE  OpenChunks(q, SubSeq(s, 1, Len(s) - 1), SubSeq(b, 1, Len(b) - 1), exact)
<1>1. PICK t : t = SubSeq(s, 1, Len(s) - 1)
  OBVIOUS
<1>2. PICK d : d = SubSeq(b, 1, Len(b) - 1)
  OBVIOUS
<1>3. Len(b) \in Nat \ {0} /\ Len(b) <= Len(s) /\ Len(s) \in Nat /\ s # <<>>
  BY DEF OpenChunks
<1>4. Len(t) = Len(s) - 1 /\ \A i \in 1 .. Len(s) - 1 : t[i] = s[i]
  <2>1. IsFront(Fn, s, t)
    BY <1>1, <1>3, FrontIs
  <2> QED BY <2>1 DEF IsFront
<1>5. d \in Seq(Chunk) /\ Len(d) = Len(b) - 1 /\ \A i \in 1 .. Len(b) - 1 : d[i] = b[i]
  <2>1. IsFront(Chunk, b, d)
    BY <1>2, FrontIs
  <2> QED BY <2>1 DEF IsFront
<1>6. Len(d) <= Len(t)
  BY <1>3, <1>4, <1>5
<1>7. ASSUME NEW i \in 1 .. Len(d)
      PROVE  q.core[t[Len(t) - Len(d) + i]] = d[i] /\ Round(q, d[i])
  <2>1. i \in 1 .. Len(b) - 1 /\ i \in 1 .. Len(b) /\ i # Len(b) /\ Len(b) \in 1 .. Len(b)
    BY <1>3, <1>5
  <2>2. PICK j : j = Len(s) - Len(b) + i /\ j \in 1 .. Len(s) - 1 /\ j \in 1 .. Len(s)
    BY <1>3, <2>1
  <2>3. Len(t) - Len(d) + i = j
    BY <1>3, <1>4, <1>5, <2>1, <2>2
  <2>4. n.core[s[j]] = b[i] /\ Round(n, b[i]) /\ b[i] # b[Len(b)]
    BY <2>1, <2>2 DEF OpenChunks
  <2>5. s[j] \in R /\ b[i] \in Range(b)
    BY <2>1, <2>2, RangeOf
  <2>6. b[i] \in Owned(n, R)
    BY <2>5, OpenOwned
  <2>7. q.num[b[i]] = n.num[b[i]] /\ q.cap[b[i]] = n.cap[b[i]] /\ q.core[s[j]] = n.core[s[j]]
    BY <2>4, <2>5, <2>6 DEF Later
  <2>8. Round(q, b[i])
    BY <2>4, <2>7 DEF Round
  <2> QED BY ZenonT(60), <1>4, <1>5, <2>1, <2>2, <2>3, <2>4, <2>7, <2>8
<1>8. \A i, j \in 1 .. Len(d) : i # j => d[i] # d[j]
  <2>1. \A k \in 1 .. Len(d) : k \in 1 .. Len(b) /\ d[k] = b[k]
    BY <1>3, <1>5
  <2> QED BY <2>1 DEF OpenChunks
<1>9. ASSUME exact, NEW x \in Loose(q) PROVE x \in Range(d)
  <2>1. x # b[Len(b)] /\ x \in Range(b)
    BY <1>9 DEF OpenChunks, Later
  <2>2. PICK i \in 1 .. Len(b) : b[i] = x
    BY <2>1, RangeOf
  <2>3. i \in 1 .. Len(d) /\ d[i] = x
    BY <1>3, <1>5, <2>1, <2>2
  <2> QED BY <1>5, <2>3, RangeOf
<1> QED BY <1>1, <1>2, <1>6, <1>7, <1>8, <1>9 DEF OpenChunks

LEMMA RoundedZero == ASSUME NEW w \in Nat \ {0} PROVE Rounded(0, w) = 0
<1>1. 0 = w * 0 + 0 /\ 0 \in 0 .. w - 1 /\ 0 \in Nat /\ 0 \in Int
  OBVIOUS
<1>2. 0 % w = 0
  BY <1>1, Remainder
<1> QED BY <1>2 DEF Rounded

LEMMA OpenInv ==
    ASSUME AccountInv, NEW f \in Fn, NEW c \in Chunk, Open(f, c)
    PROVE  AccountInv' /\ Bounded
<1>1. /\ m.core[f] = Nil /\ m.ref[c] = 0 /\ stk' = Append(stk, f) /\ blk' = Append(blk, c)
      /\ UNCHANGED <<kept, failed, over>>
  BY DEF Open
<1>2. PICK chunk : chunk = Recorded(m, ChunkSize, Held)
  OBVIOUS
<1>3. PICK func : func = Recorded(chunk, FuncSize, Held)
  OBVIOUS
<1>4. PICK linked : linked = [func EXCEPT !.core[f] = c, !.ref[c] = @ + 1]
  OBVIOUS
<1>5. m' = Needed(linked, c, "lz", Held \cup {f})
  BY <1>2, <1>3, <1>4 DEF Open
<1>6. /\ Sound(m) /\ Pays(m, 0, Exact) /\ Exact \in BOOLEAN /\ Held \in SUBSET Alive(m)
      /\ (Exact => Loose(m) \subseteq Owned(m, Held))
      /\ Held \in SUBSET Fn /\ Range(stk) \subseteq Held
      /\ stk \in Seq(Fn) /\ blk \in Seq(Chunk) /\ OpenChunks(m, stk, blk, Exact)
  BY InvFacts DEF AccountInv, Types
<1>7. ChunkSize \in Nat /\ FuncSize \in Nat /\ Size(m) \in Nat /\ m.used \in Nat
  BY Constants, InvFacts
<1>8. After(m, chunk, Held, {}, ChunkSize, Exact)
  <2>1. /\ m.used + ChunkSize >= Size(m) + ChunkSize
        /\ (Exact => m.used + ChunkSize = Size(m) + ChunkSize)
    BY <1>6, <1>7 DEF Pays
  <2> QED BY <1>2, <1>6, <1>7, <2>1, RecordedIs
<1>9. /\ Sound(chunk) /\ Pays(chunk, ChunkSize, Exact) /\ Held \in SUBSET Alive(chunk)
      /\ Later(m, chunk, Held, {}) /\ Tidied(m, chunk, Held)
      /\ (Exact => Loose(chunk) \subseteq Owned(chunk, Held))
  <2>1. Owned(chunk, Held) = Owned(m, Held)
    BY <1>8 DEF After, Later, Owned
  <2> QED BY <1>6, <1>8, <2>1 DEF After, Later
<1>10. PICK both \in Nat : both = ChunkSize + FuncSize
  BY <1>7
<1>11. After(chunk, func, Held, {}, both, Exact)
  <2>1. Size(chunk) \in Nat /\ chunk.used \in Nat
    BY <1>9, Counts, Fields DEF Sound
  <2>2. /\ chunk.used + FuncSize >= Size(chunk) + both
        /\ (Exact => chunk.used + FuncSize = Size(chunk) + both)
    BY <1>7, <1>9, <1>10, <2>1 DEF Pays
  <2> QED BY <1>3, <1>6, <1>7, <1>9, <2>2, RecordedIs
<1>12. /\ Sound(func) /\ Pays(func, both, Exact) /\ Held \subseteq Alive(func)
       /\ Later(m, func, Held, {}) /\ Tidied(m, func, Held)
  <2>1. Later(m, func, Held, {} \cup {})
    BY <1>6, <1>9, <1>11, LaterTwice DEF After
  <2>2. {} \cup {} = {}
    OBVIOUS
  <2>3. Sound(func) /\ Tidied(chunk, func, Held)
    BY <1>11 DEF After
  <2>4. Tidied(m, func, Held)
    BY <1>6, <1>9, <2>3, TidiedTwice DEF Sound
  <2> QED BY <1>11, <2>1, <2>2, <2>4 DEF After
<1>13. func.core[f] = Nil /\ func.ref[c] = 0
  BY <1>1, <1>12 DEF Later
<1>14. Linked(func, linked, f, c)
  BY <1>4, <1>12, <1>13, LinkedIs
<1>15. /\ Sound(linked) /\ Alive(linked) = Alive(func) \cup {f} /\ linked.used = func.used
       /\ Size(linked) = Size(func) + FuncSize + ChunkSize
       /\ linked.core = [func.core EXCEPT ![f] = c] /\ linked.num = func.num
       /\ linked.cap = func.cap /\ func.core \in [Fn -> Chunk \cup {Nil}]
  BY <1>12, <1>13, <1>14, Fields DEF Linked, Sound
<1>16. Pays(linked, 0, Exact)
  <2>1. Size(func) \in Nat /\ func.used \in Nat
    BY <1>12, Counts, Fields DEF Sound
  <2> QED BY <1>7, <1>10, <1>12, <1>15, <2>1 DEF Pays
<1>17. f \notin Held /\ linked.core[f] = c /\ \A g \in Held : linked.core[g] = func.core[g]
  <2>1. f \notin Held
    BY <1>1, <1>6 DEF Alive
  <2> QED BY <1>6, <1>15, <2>1
<1>18. Round(linked, c)
  <2>1. func.num[c] = Empty /\ func.cap[c] = Empty
    BY <1>12, <1>13 DEF Sound
  <2>2. \A a \in Array : linked.num[c][a] = 0 /\ linked.cap[c][a] = 0
    BY <1>15, <2>1 DEF Empty
  <2> QED BY <2>2, RoundedZero, Constants DEF Round
<1>19. c \notin Range(blk)
  <2>1. Range(blk) \subseteq There(m)
    BY <1>6, InvFacts, OwnedIsThere
  <2>2. c \notin There(m)
    BY <1>1 DEF There
  <2> QED BY <2>1, <2>2
<1>20. OpenChunks(func, stk, blk, Exact)
  BY <1>6, <1>12, OpenLater
<1>21. OpenChunks(linked, stk', blk', Exact)
  <2>1. \A g \in Range(stk) : linked.core[g] = func.core[g]
    BY <1>6, <1>17
  <2>2. OpenChunks(linked, Append(stk, f), Append(blk, c), Exact)
    BY <1>6, <1>15, <1>17, <1>18, <1>19, <1>20, <2>1, OpenPushed
  <2> QED BY <1>1, <2>2
<1>22. IsPushed(Fn, stk, f, stk') /\ IsPushed(Chunk, blk, c, blk')
  BY <1>1, <1>6, AppendIs
<1>23. /\ stk' \in Seq(Fn) /\ blk' \in Seq(Chunk)
       /\ Range(stk') = Range(stk) \cup {f} /\ Range(blk') = Range(blk) \cup {c}
  BY <1>22 DEF IsPushed
<1>24. PICK R \in SUBSET Fn : R = Held \cup {f}
  BY <1>6
<1>25. /\ R \in SUBSET Alive(linked) /\ c \in Owned(linked, R) /\ Range(stk') \subseteq R
       /\ (Exact => Loose(linked) \subseteq Owned(linked, R))
  <2>1. R \in SUBSET Alive(linked) /\ c \in Owned(linked, R) /\ Range(stk') \subseteq R
    BY <1>6, <1>12, <1>15, <1>17, <1>23, <1>24 DEF Owned
  <2>2. Range(blk') \subseteq Owned(linked, R)
    BY <1>6, <1>21, <1>23, <2>1, OpenOwned
  <2> QED BY <1>21, <2>1, <2>2 DEF OpenChunks
<1>26. After(linked, m', R, {c}, 0, Exact)
  <2>1. "lz" \in Array
    BY Constants
  <2>2. m' = Needed(linked, c, "lz", R) /\ Sound(linked) /\ Exact \in BOOLEAN
    BY <1>5, <1>6, <1>15, <1>24
  <2> QED BY <1>16, <1>18, <1>25, <2>1, <2>2, NeededIs
<1>27. OpenChunks(m', stk', blk', Exact)
  <2>1. {c} \in SUBSET Range(blk')
    BY <1>23
  <2> QED BY <1>6, <1>21, <1>23, <1>25, <1>26, <2>1, OpenLater DEF After
<1>28. Exact' = Exact /\ Types' /\ Held' = R
  <2>1. Exact' = Exact /\ Types'
    BY <1>1, <1>23 DEF AccountInv, Types, Exact
  <2>2. Held' = R
    BY <1>1, <1>23, <1>24 DEF Held
  <2> QED BY <2>1, <2>2
<1>29. Sound(m') /\ Pays(m', 0, Exact') /\ Held' \subseteq Alive(m')
  BY <1>26, <1>28 DEF After
<1>30. Bounded
  <2>1. m' \in Memory /\ linked \in Memory /\ Tidied(linked, m', R)
    BY <1>15, <1>26 DEF After, Sound
  <2>2. CASE Within(func, Held)
    <3>1. Within(linked, R)
      BY <1>12, <1>13, <1>14, <1>24, <2>2, LinkedWithin
    <3>2. Within(m', R)
      BY <2>1, <3>1, WithinKept DEF Tidied
    <3> QED BY <1>28, <2>1, <3>2, BoundedIs
  <2>3. CASE Quiet(m, func)
    <3>1. Within(m', R) \/ m'.used <= m.used
      <4>1. m'.used \in Nat /\ linked.used \in Nat
        BY <2>1, Fields
      <4> QED BY <1>7, <1>15, <2>1, <2>3, <4>1 DEF Tidied, Quiet
    <3> QED BY <1>28, <2>1, <3>1, BoundedIs
  <2> QED BY <1>12, <2>2, <2>3 DEF Tidied
<1> QED BY <1>27, <1>28, <1>29, <1>30, StepInv

\* ymk_emit_end and ymk_leave.
LEMMA LeftIs ==
    ASSUME AccountInv, blk # <<>>, NEW end \in BOOLEAN, NEW q, q = Left(end)
    PROVE  /\ Sound(q) /\ Pays(q, 0, Exact) /\ Held \subseteq Alive(q)
           /\ Later(m, q, Held, {Innermost}) /\ Innermost \notin Loose(q)
           /\ Tidied(m, q, Held)
<1>1. PICK c : c = Innermost
  OBVIOUS
<1>2. PICK n : n = IF end THEN Emitted(m, c, Held) ELSE m
  OBVIOUS
<1>3. q = Shrunk(n, c)
  BY <1>1, <1>2 DEF Left
<1>4. /\ Sound(m) /\ Pays(m, 0, Exact) /\ Exact \in BOOLEAN /\ Held \in SUBSET Alive(m)
      /\ (Exact => Loose(m) \subseteq Owned(m, Held))
      /\ Held \in SUBSET Fn /\ c \in Owned(m, Held) /\ Round(m, c) /\ c \in Chunk
  BY <1>1, InvFacts, InnermostIs DEF AccountInv
<1>5. After(m, n, Held, {c}, 0, Exact)
  <2>1. CASE end
    BY <1>2, <1>4, <2>1, EmittedIs
  <2>2. CASE ~ end
    <3>1. n = m
      BY <1>2, <2>2
    <3>2. Later(m, m, Held, {c})
      BY <1>4, Fields DEF Later, Sound
    <3>3. Tidied(m, m, Held)
      BY InvFacts DEF Tidied, Quiet, SameFunctions
    <3> QED BY <1>4, <3>1, <3>2, <3>3 DEF After
  <2> QED BY <2>1, <2>2
<1>6. /\ Sound(n) /\ Pays(n, 0, Exact) /\ Held \subseteq Alive(n) /\ Later(m, n, Held, {c})
      /\ Round(n, c)
  BY <1>5 DEF After
<1>7. c \in Owned(n, Held) /\ Owned(n, Held) = Owned(m, Held)
  BY <1>4, <1>6 DEF Later, Owned
<1>8. n.ref[c] > 0
  BY <1>4, <1>6, <1>7, OwnedIsThere DEF There
<1>9. /\ Sound(q) /\ Pays(q, 0, Exact) /\ Alive(q) = Alive(n)
      /\ q.live = n.live /\ q.core = n.core /\ q.ref = n.ref /\ q.num = n.num
      /\ q.consts = n.consts /\ q.cap = [n.cap EXCEPT ![c] = n.num[c]] /\ Quiet(n, q)
  BY <1>3, <1>4, <1>6, <1>8, ShrunkIs
<1>10. n.cap \in Sizes /\ DOMAIN n.cap = Chunk
  BY <1>6, Fields DEF Sound, Sizes
<1>11. q.cap[c] = q.num[c] /\ \A d \in Chunk \ {c} : q.cap[d] = n.cap[d]
  BY <1>4, <1>9, <1>10
<1>12. c \notin Loose(q) /\ Loose(q) \subseteq Loose(n)
  BY <1>9, <1>11 DEF Loose
<1>13. Later(m, q, Held, {c})
  <2>1. \A d \in Owned(m, Held) \ {c} : q.num[d] = m.num[d] /\ q.cap[d] = m.cap[d]
    BY <1>6, <1>9, <1>11 DEF Later, Owned
  <2>2. Loose(q) \subseteq Loose(m) \cup {c}
    BY <1>6, <1>12 DEF Later
  <2> QED BY <1>6, <1>9, <2>1, <2>2 DEF Later
<1>14. Tidied(m, q, Held)
  <2>1. n \in Memory /\ q \in Memory /\ Tidied(m, n, Held) /\ Tidied(n, q, Held)
    BY <1>5, <1>6, <1>9 DEF After, Sound, Tidied
  <2> QED BY <2>1, InvFacts, TidiedTwice
<1> QED BY <1>1, <1>6, <1>9, <1>12, <1>13, <1>14

LEMMA CloseLastInv ==
    ASSUME AccountInv, NEW end \in BOOLEAN, CloseLast(end)
    PROVE  AccountInv' /\ Bounded
<1>1. Len(blk) = 1 /\ m' = Left(end) /\ blk' = <<>> /\ UNCHANGED <<stk, kept, failed, over>>
  BY DEF CloseLast
<1>2. blk # <<>> /\ blk \in Seq(Chunk) /\ Len(blk) \in Nat
  <2>1. blk \in Seq(Chunk)
    BY DEF AccountInv, Types
  <2>2. blk # <<>>
    <3> SUFFICES ASSUME blk = <<>> PROVE FALSE
      OBVIOUS
    <3>1. Len(blk) = 0
      OBVIOUS
    <3> QED BY <1>1, <3>1
  <2> QED BY <2>1, <2>2
<1>3. /\ Sound(m') /\ Pays(m', 0, Exact) /\ Held \subseteq Alive(m')
      /\ Later(m, m', Held, {Innermost}) /\ Innermost \notin Loose(m')
      /\ Tidied(m, m', Held)
  BY <1>1, <1>2, LeftIs
<1>4. Range(blk) \subseteq {Innermost}
  <2>1. \A i \in 1 .. Len(blk) : i = Len(blk)
    BY <1>1
  <2> QED BY <1>2, <2>1, RangeOf DEF Innermost
<1>5. Exact => Loose(m') = {}
  BY <1>3, <1>4 DEF AccountInv, OpenChunks, Later
<1>6. Types' /\ Held' = Held /\ Exact' = Exact
  BY <1>1 DEF AccountInv, Types, Held, Exact
<1>7. OpenChunks(m', stk', blk', Exact')
  <2>1. Len(stk) \in Nat /\ Len(blk') = 0 /\ stk' = stk
    BY <1>1, RangeOf DEF AccountInv, Types
  <2> QED BY <1>5, <1>6, <2>1 DEF OpenChunks
<1>8. Bounded
  <2>1. m' \in Memory /\ (Within(m', Held') \/ m'.used <= m.used)
    BY <1>3, <1>6 DEF Tidied, Quiet, Sound
  <2> QED BY <2>1, BoundedIs
<1> QED BY <1>3, <1>6, <1>7, <1>8, StepInv

LEMMA CloseInv ==
    ASSUME AccountInv, NEW end \in BOOLEAN, Close(end)
    PROVE  AccountInv' /\ Bounded
<1>1. PICK p : p = blk[Len(blk) - 1]
  OBVIOUS
<1>2. PICK f : f = stk[Len(stk)]
  OBVIOUS
<1>3. PICK left : left = Left(end)
  OBVIOUS
<1>4. PICK n : n = Needed(left, p, "kval", Held)
  OBVIOUS
<1>5. /\ Len(blk) > 1 /\ m' = [n EXCEPT !.consts[p] = @ \cup {f}]
      /\ stk' = SubSeq(stk, 1, Len(stk) - 1) /\ blk' = SubSeq(blk, 1, Len(blk) - 1)
      /\ UNCHANGED <<kept, failed, over>>
  BY <1>1, <1>2, <1>3, <1>4 DEF Close
<1>6. /\ Exact \in BOOLEAN /\ Held \in SUBSET Alive(m) /\ Held \in SUBSET Fn
      /\ Range(stk) \subseteq Held /\ stk \in Seq(Fn) /\ blk \in Seq(Chunk)
      /\ OpenChunks(m, stk, blk, Exact) /\ Len(blk) \in Nat /\ Len(stk) \in Nat
      /\ Len(blk) <= Len(stk)
  BY InvFacts, RangeOf DEF AccountInv, Types, OpenChunks
<1>7. blk # <<>> /\ stk # <<>>
  BY <1>5, <1>6
<1>8. /\ Sound(left) /\ Pays(left, 0, Exact) /\ Held \subseteq Alive(left)
      /\ Later(m, left, Held, {Innermost}) /\ Innermost \notin Loose(left)
      /\ Tidied(m, left, Held)
  BY <1>3, <1>7, LeftIs
<1>9. PICK s : s = stk'
  OBVIOUS
<1>10. PICK b : b = blk'
  OBVIOUS
<1>11. OpenChunks(left, s, b, Exact)
  <2>1. Later(m, left, Held, {blk[Len(blk)]}) /\ blk[Len(blk)] \notin Loose(left)
    BY <1>8 DEF Innermost
  <2>2. OpenChunks(left, SubSeq(stk, 1, Len(stk) - 1), SubSeq(blk, 1, Len(blk) - 1), Exact)
    BY <1>6, <1>7, <2>1, OpenPopped
  <2> QED BY <1>5, <1>9, <1>10, <2>2
<1>12. IsFront(Fn, stk, s) /\ IsFront(Chunk, blk, b)
  BY <1>5, <1>6, <1>7, <1>9, <1>10, FrontIs
<1>13. /\ s \in Seq(Fn) /\ b \in Seq(Chunk) /\ Range(s) \subseteq Range(stk)
       /\ Len(b) = Len(blk) - 1 /\ \A i \in 1 .. Len(blk) - 1 : b[i] = blk[i]
  BY <1>12 DEF IsFront
<1>14. p \in Range(b) /\ p \in Chunk /\ Round(left, p)
  <2>1. Len(blk) - 1 \in 1 .. Len(blk) - 1 /\ Len(blk) - 1 \in 1 .. Len(b)
    BY <1>5, <1>6, <1>13
  <2>2. b[Len(blk) - 1] = p
    BY <1>1, <1>13, <2>1
  <2>3. Round(left, b[Len(blk) - 1])
    BY <1>11, <2>1 DEF OpenChunks
  <2>4. b[Len(blk) - 1] \in Range(b) /\ b[Len(blk) - 1] \in Chunk
    BY <1>13, <2>1, RangeOf
  <2> QED BY <2>2, <2>3, <2>4
<1>15. Range(b) \subseteq Owned(left, Held) /\ Range(s) \subseteq Held
  <2>1. Range(s) \subseteq Held
    BY <1>6, <1>13
  <2> QED BY <1>6, <1>11, <1>13, <2>1, OpenOwned
<1>16. p \in Owned(left, Held) /\ (Exact => Loose(left) \subseteq Owned(left, Held))
  BY <1>11, <1>14, <1>15 DEF OpenChunks
<1>17. After(left, n, Held, {p}, 0, Exact)
  <2>1. "kval" \in Array /\ Held \in SUBSET Alive(left)
    BY <1>8, Constants
  <2> QED BY <1>4, <1>6, <1>8, <1>14, <1>16, <2>1, NeededIs
<1>18. /\ Sound(n) /\ Pays(n, 0, Exact) /\ Held \subseteq Alive(n)
       /\ Later(left, n, Held, {p}) /\ Round(n, p) /\ Tidied(left, n, Held)
  BY <1>17 DEF After
<1>19. OpenChunks(n, s, b, Exact)
  <2>1. {p} \in SUBSET Range(b) /\ \A c \in {p} : Round(n, c)
    BY <1>14, <1>18
  <2> QED BY <1>6, <1>11, <1>13, <1>15, <1>18, <2>1, OpenLater
<1>20. f \in Alive(n) /\ f \in Fn
  <2>1. Len(stk) \in 1 .. Len(stk)
    BY <1>6, <1>7
  <2>2. f \in Range(stk)
    BY <1>2, <1>6, <2>1, RangeOf
  <2> QED BY <1>6, <1>18, <2>2
<1>21. n.ref[p] > 0
  <2>1. p \in Owned(n, Held)
    BY <1>16, <1>18 DEF Later, Owned
  <2> QED BY <1>6, <1>18, <2>1, OwnedIsThere DEF There
<1>22. WithConst(n, m') /\ f \in m'.consts[p]
  BY <1>5, <1>14, <1>18, <1>20, <1>21, ConstIs
<1>23. Exact' = Exact /\ Types' /\ Held' \subseteq Held
  <2>1. Exact' = Exact /\ Types'
    BY <1>5, <1>9, <1>10, <1>13 DEF AccountInv, Types, Exact
  <2>2. Held' \subseteq Held
    BY <1>5, <1>9, <1>13 DEF Held
  <2> QED BY <2>1, <2>2
<1>24. Sound(m') /\ Held' \subseteq Alive(m') /\ Pays(m', 0, Exact')
  BY <1>18, <1>22, <1>23 DEF WithConst, Pays
<1>25. OpenChunks(m', s, b, Exact)
  BY <1>19, <1>22 DEF WithConst, OpenChunks, Round, Loose
<1>26. OpenChunks(m', stk', blk', Exact')
  BY <1>9, <1>10, <1>23, <1>25
<1>27. Bounded
  <2>1. /\ m \in Memory /\ left \in Memory /\ n \in Memory /\ m' \in Memory
        /\ m.used \in Nat /\ n.used \in Nat
    BY <1>8, <1>18, <1>24, InvFacts, Fields DEF Sound
  <2>2. Tidied(m, n, Held)
    BY <1>8, <1>18, <2>1, TidiedTwice
  <2>3. CASE Within(n, Held)
    <3>1. Held' \in SUBSET Fn /\ Held \subseteq Held' \cup {f}
      <4>1. Range(stk) \subseteq Range(s) \cup {f}
        BY <1>2, <1>12 DEF IsFront
      <4> QED BY <1>5, <1>6, <1>9, <1>23, <4>1 DEF Held
    <3>2. PICK g \in Held' : n.core[g] = p
      <4>1. Range(b) \subseteq Owned(n, Range(s))
        BY <1>6, <1>13, <1>19, OpenOwned
      <4>2. p \in Owned(n, Range(s))
        BY <1>14, <4>1
      <4>3. Range(s) \subseteq Held'
        BY <1>9 DEF Held
      <4> QED BY <4>2, <4>3 DEF Owned
    <3>3. PICK S \in SUBSET Fn : S = Held'
      BY <3>1
    <3>4. /\ Sound(n) /\ p \in Chunk /\ f \in Alive(n) /\ WithConst(n, m') /\ f \in m'.consts[p]
          /\ Held \in SUBSET Alive(n) /\ Held \subseteq S \cup {f} /\ g \in S /\ n.core[g] = p
          /\ Within(n, Held)
      BY <1>14, <1>18, <1>20, <1>22, <2>3, <3>1, <3>2, <3>3
    <3>5. Within(m', S)
      BY <3>4, ConstWithin
    <3> QED BY <2>1, <3>3, <3>5, BoundedIs
  <2>4. CASE Quiet(m, n)
    BY <1>22, <2>1, <2>4, BoundedIs DEF Quiet, WithConst
  <2> QED BY <2>2, <2>3, <2>4 DEF Tidied
<1> QED BY <1>23, <1>24, <1>26, <1>27, StepInv

LEMMA InitInv == ASSUME Init PROVE AccountInv
<1>1. /\ m = [used |-> 0, threshold |-> Threshold,
              core |-> [f \in Fn |-> Nil], ref |-> [c \in Chunk |-> 0],
              num |-> [c \in Chunk |-> Empty], cap |-> [c \in Chunk |-> Empty],
              consts |-> [c \in Chunk |-> {}], live |-> 0, junk |-> 0]
      /\ stk = <<>> /\ kept = {} /\ blk = <<>> /\ failed = 0 /\ over = FALSE
  BY DEF Init
<1>2. Empty \in [Array -> Nat] /\ Threshold \in 0 .. Words - 1
  BY AccountAssumption DEF Empty
<1>3. m \in Memory
  BY <1>1, <1>2 DEF Memory
<1>4. Alive(m) = {} /\ There(m) = {} /\ Loose(m) = {} /\ \A c \in Chunk : Shares(m, c) = {}
  BY <1>1, Constants DEF Alive, There, Loose, Shares
<1>5. Sound(m)
  <2>1. \A c \in Chunk : m.ref[c] = Cardinality(Shares(m, c))
    BY <1>1, <1>4, FS_EmptySet
  <2>2. \A c \in Chunk : /\ m.num[c] = Empty /\ m.cap[c] = Empty /\ m.consts[c] = {}
                         /\ \A a \in Array : m.num[c][a] <= m.cap[c][a]
    BY <1>1 DEF Empty
  <2> QED BY <1>3, <2>1, <2>2 DEF Sound
<1>6. Size(m) = 0
  <2>1. Cardinality(Alive(m)) = 0 /\ FuncSize * 0 = 0
    BY <1>4, FS_EmptySet, Constants
  <2>2. Bytes(m.cap, {}) = SumFunctionOnSet(Price(m.cap), {})
    BY <1>3, BytesIs, Fields
  <2>3. Bytes(m.cap, There(m)) = 0
    BY <1>4, <2>2, SumEmpty
  <2>4. m.live = 0 /\ m.junk = 0
    BY <1>1
  <2> QED BY <2>1, <2>3, <2>4 DEF Size
<1>7. Pays(m, 0, Exact)
  BY <1>1, <1>6 DEF Pays
<1>8. Types /\ Held = {}
  <2>1. Range(stk) = {}
    BY <1>1 DEF Range
  <2>2. stk \in Seq(Fn) /\ blk \in Seq(Chunk)
    BY <1>1
  <2>3. kept \subseteq Fn /\ failed \in Nat /\ over \in BOOLEAN
    BY <1>1
  <2>4. Held = {}
    BY <1>1, <2>1 DEF Held
  <2> QED BY <2>2, <2>3, <2>4 DEF Types
<1>9. OpenChunks(m, stk, blk, Exact)
  <2>1. Len(stk) = 0 /\ Len(blk) = 0
    BY <1>1
  <2> QED BY <1>4, <2>1 DEF OpenChunks
<1> QED BY <1>5, <1>7, <1>8, <1>9 DEF AccountInv

LEMMA NextInv == ASSUME AccountInv, [Next]_vars PROVE AccountInv'
<1>1. ASSUME NEW f \in Fn, NEW c \in Chunk, Open(f, c) PROVE AccountInv'
  BY <1>1, OpenInv
<1>2. CASE Emit
  BY <1>2, EmitInv
<1>3. ASSUME NEW a \in {"kval", "lz"}, AddItem(a) PROVE AccountInv'
  BY <1>3, AddItemInv
<1>4. ASSUME NEW end \in BOOLEAN, Close(end) PROVE AccountInv'
  BY <1>4, CloseInv
<1>5. ASSUME NEW end \in BOOLEAN, CloseLast(end) PROVE AccountInv'
  BY <1>5, CloseLastInv
<1>6. CASE Fail
  BY <1>6, FailInv
<1>7. CASE Store
  BY <1>7, StoreInv
<1>8. ASSUME NEW f \in Fn, Forget(f) PROVE AccountInv'
  BY <1>8, ForgetInv
<1>9. ASSUME NEW f \in Fn, NEW g \in Fn, Clone(f, g) PROVE AccountInv'
  BY <1>9, CloneInv
<1>10. ASSUME NEW size \in 1 .. MaxUnits, Make(size) PROVE AccountInv'
  BY <1>10, MakeInv
<1>11. ASSUME NEW size \in 1 .. MaxUnits, Leave(size) PROVE AccountInv'
  BY <1>11, LeaveInv
<1>12. CASE Collect
  BY <1>12, CollectInv
<1>13. CASE Finish
  BY <1>13, FinishInv
<1>14. CASE UNCHANGED vars
  <2>1. m' = m /\ stk' = stk /\ kept' = kept /\ blk' = blk /\ failed' = failed /\ over' = over
    BY <1>14 DEF vars
  <2>2. Types' /\ Held' = Held /\ Exact' = Exact
    BY <2>1 DEF AccountInv, Types, Held, Exact
  <2>3. OpenChunks(m', stk', blk', Exact') /\ Pays(m', 0, Exact') /\ Sound(m') /\ Held' \subseteq Alive(m')
    BY <2>1, <2>2 DEF AccountInv
  <2> QED BY <2>2, <2>3, StepInv
<1> QED
  BY <1>1, <1>2, <1>3, <1>4, <1>5, <1>6, <1>7, <1>8, <1>9, <1>10, <1>11, <1>12, <1>13, <1>14
  DEF Next

LEMMA NextBounded == ASSUME AccountInv, Next PROVE Bounded
<1>1. ASSUME NEW f \in Fn, NEW c \in Chunk, Open(f, c) PROVE Bounded
  BY <1>1, OpenInv
<1>2. CASE Emit
  BY <1>2, EmitInv
<1>3. ASSUME NEW a \in {"kval", "lz"}, AddItem(a) PROVE Bounded
  BY <1>3, AddItemInv
<1>4. ASSUME NEW end \in BOOLEAN, Close(end) PROVE Bounded
  BY <1>4, CloseInv
<1>5. ASSUME NEW end \in BOOLEAN, CloseLast(end) PROVE Bounded
  BY <1>5, CloseLastInv
<1>6. CASE Fail
  BY <1>6, FailInv
<1>7. CASE Store
  BY <1>7, StoreInv
<1>8. ASSUME NEW f \in Fn, Forget(f) PROVE Bounded
  BY <1>8, ForgetInv
<1>9. ASSUME NEW f \in Fn, NEW g \in Fn, Clone(f, g) PROVE Bounded
  BY <1>9, CloneInv
<1>10. ASSUME NEW size \in 1 .. MaxUnits, Make(size) PROVE Bounded
  BY <1>10, MakeInv
<1>11. ASSUME NEW size \in 1 .. MaxUnits, Leave(size) PROVE Bounded
  BY <1>11, LeaveInv
<1>12. CASE Collect
  BY <1>12, CollectInv
<1>13. CASE Finish
  BY <1>13, FinishInv
<1> QED
  BY <1>1, <1>2, <1>3, <1>4, <1>5, <1>6, <1>7, <1>8, <1>9, <1>10, <1>11, <1>12, <1>13
  DEF Next

LEMMA InvAlways == Spec => []AccountInv
BY InitInv, NextInv, PTL DEF Spec

\* Every memory is a memory: in particular no counter of closure.c or memory.c is taken
\* below zero, whatever is compiled, fails, is cloned or is collected.  core->ref counts
\* the functions that share the chunk, and what can be reached, or is being compiled, was
\* not freed (blk_final, func_final, ymc_final).
THEOREM ChunksAreCounted == Spec => []RefCounted
<1>1. ASSUME AccountInv PROVE RefCounted
  <2>1. TypeOK
    BY <1>1 DEF AccountInv, Types, Sound, TypeOK
  <2>2. \A c \in Chunk : m.ref[c] = Cardinality(Sharing(c))
    BY <1>1 DEF AccountInv, Sound, Sharing, Shares
  <2>3. \A f \in Reached(m, Held) : m.core[f] # Nil
    <3>1. Reached(m, Held) \subseteq Alive(m)
      BY <1>1, InvFacts, ReachedIs DEF AccountInv
    <3> QED BY <3>1 DEF Alive
  <2>4. Range(blk) \subseteq Chunks
    <3>1. Range(blk) \subseteq Owned(m, Held) /\ Owned(m, Held) \subseteq There(m)
      BY <1>1, InvFacts, OwnedIsThere DEF AccountInv
    <3> QED BY <3>1 DEF There, Chunks
  <2> QED BY <2>1, <2>2, <2>3, <2>4 DEF RefCounted
<1> QED BY <1>1, InvAlways, PTL

\* Until a compilation fails gc->used is the size of the blocks there are: what mm_need and
\* mm_shrink record for the arrays of a chunk, and mm_free gives back, agrees, whatever the
\* steps of the arrays are.
THEOREM AccountIsExact == Spec => []Accounted
<1>1. ASSUME AccountInv PROVE Accounted
  <2>1. There(m) = Chunks /\ Alive(m) = {f \in Fn : m.core[f] # Nil}
    BY DEF There, Chunks, Alive
  <2>2. SUFFICES ASSUME failed = 0
                 PROVE  m.used = FuncSize * Cardinality(Alive(m)) + Bytes(m.cap, There(m)) + m.live + m.junk
    BY <2>1 DEF Accounted
  <2>3. m.used = Size(m) + 0
    BY <1>1, <2>2 DEF AccountInv, Pays, Exact
  <2>4. Size(m) \in Nat
    BY <1>1, InvFacts
  <2> QED BY <2>3, <2>4 DEF Size
<1> QED BY <1>1, InvAlways, PTL

\* mm_need and the other allocations call gc_record, and gc_record collects once gc->used has
\* passed the threshold: no step leaves gc->used higher than before and above the threshold
\* while there is garbage, whichever allocation of the step was the one that collected.
THEOREM GarbageIsCollected == Spec => CollectsInTime
<1>1. ASSUME AccountInv, [Next]_vars PROVE [Bounded]_vars
  BY <1>1, NextBounded
<1> QED BY <1>1, InvAlways, PTL DEF Spec, CollectsInTime

\* A finalized machine has nothing left and stays as it is.
Finished ==
    over => blk = <<>> /\ (\A f \in Fn : m.core[f] = Nil) /\ m.live = 0 /\ m.junk = 0

LEMMA FinishedAlways == Spec => []Finished
<1>1. Init => Finished
  BY DEF Init, Finished
<1>2. ASSUME AccountInv, Finished, [Next]_vars PROVE Finished'
  <2>1. CASE over
    <3>1. blk = <<>> /\ Len(blk) = 0
      BY <1>2, <2>1 DEF Finished
    <3>2. UNCHANGED vars
      BY <1>2, <2>1, <3>1
      DEF Next, vars, Open, Emit, AddItem, Close, CloseLast, Fail, Store, Forget, Clone, Make,
          Leave, Collect, Finish, Scripting, Compiling
    <3> QED BY <1>2, <3>2 DEF vars, Finished
  <2>2. CASE ~ over /\ Finish
    <3>1. blk = <<>> /\ blk' = blk
      BY <2>2 DEF Finish, Scripting, Compiling
    <3>2. PICK s : s = Final(m, Alive(m))
      OBVIOUS
    <3>3. m' = [s EXCEPT !.used = @ - (m.live + m.junk), !.live = 0, !.junk = 0]
      BY <2>2, <3>2 DEF Finish, Alive
    <3>4. IsFinal(m, Alive(m), s)
      <4>1. Unneeded(m, Alive(m))
        BY DEF Unneeded
      <4> QED BY <1>2, <3>2, <4>1, FinalIs DEF AccountInv
    <3>5. s.core = [f \in Fn |-> IF f \in Alive(m) THEN Nil ELSE m.core[f]]
      BY <3>4 DEF IsFinal
    <3>6. m'.core = s.core /\ m'.live = 0 /\ m'.junk = 0
      <4>1. PICK r : s = [used |-> r.used, threshold |-> r.threshold, core |-> r.core, ref |-> r.ref,
                          num |-> r.num, cap |-> r.cap, consts |-> r.consts,
                          live |-> r.live, junk |-> r.junk]
        BY <3>4 DEF IsFinal
      <4> QED BY <3>3, <4>1
    <3>7. \A f \in Fn : m'.core[f] = Nil
      BY <3>5, <3>6 DEF Alive
    <3> QED BY <3>1, <3>6, <3>7 DEF Finished
  <2>3. CASE ~ over /\ ~ Finish
    <3>1. ~ over'
      BY ZenonT(60), <1>2, <2>3
      DEF Next, vars, Open, Emit, AddItem, Close, CloseLast, Fail, Store, Forget, Clone, Make,
          Leave, Collect
    <3> QED BY SMTT(60), <3>1 DEF Finished
  <2> QED BY <2>1, <2>2, <2>3
<1> QED BY <1>1, <1>2, InvAlways, PTL DEF Spec

\* The assertion of ymd_final, that all memory is given back, holds of every machine whose
\* compilations all succeeded; the run on AllFreed shows that one that failed breaks it.
THEOREM FreedUnlessFailed == Spec => [](failed = 0 => AllFreed)
<1>1. ASSUME AccountInv, Accounted, Finished, failed = 0, over PROVE m.used = 0
  <2>1. Alive(m) = {} /\ m.live = 0 /\ m.junk = 0
    BY <1>1 DEF Finished, Alive
  <2>2. There(m) = {}
    <3> SUFFICES ASSUME NEW c \in There(m) PROVE FALSE
      OBVIOUS
    <3>1. c \in Chunk /\ m.ref[c] > 0
      BY DEF There
    <3>2. PICK f \in Fn : m.core[f] = c
      BY <1>1, <3>1, Counted DEF AccountInv
    <3> QED BY <1>1, <3>1, <3>2, Constants DEF Finished
  <2>3. m.used = Size(m) + 0 /\ Size(m) \in Nat
    BY <1>1, InvFacts DEF AccountInv, Pays, Exact
  <2>4. Bytes(m.cap, {}) = 0
    <3>1. Bytes(m.cap, {}) = SumFunctionOnSet(Price(m.cap), {})
      BY <1>1, BytesIs, InvFacts, Fields
    <3> QED BY <3>1, SumEmpty
  <2>5. Size(m) = 0
    <3>1. Cardinality(Alive(m)) = 0 /\ FuncSize * 0 = 0
      BY <2>1, FS_EmptySet, Constants
    <3> QED BY <2>1, <2>2, <2>4, <3>1 DEF Size
  <2> QED BY <2>3, <2>5
<1>2. ASSUME AccountInv, Accounted, Finished PROVE failed = 0 => AllFreed
  BY <1>1, <1>2 DEF AllFreed
<1> QED BY <1>2, InvAlways, AccountIsExact, FinishedAlways, PTL
=============================================================================

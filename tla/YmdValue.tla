------------------------------ MODULE YmdValue -------------------------------
(***************************************************************************)
(* Equality and order of values (value.c): `equals' decides whether a key  *)
(* is there, `compare' where it is looked for in a skip list.              *)
(*                                                                         *)
(* A value is a record with its type tt and what it is: i, z, p, the       *)
(* elements of an array or the pairs of a map or a list, in the order in   *)
(* which they are walked.  A map has the size of its table too.  Functions *)
(* and managed data are left out: `compare' and `equals' stop the program  *)
(* for some of them.  So are containers that hold themselves: both recurse *)
(* without end.                                                            *)
(***************************************************************************)
EXTENDS Integers, Sequences, SequencesExt

T_NIL == 0
T_INT == 1
T_BOOL == 2
T_EXT == 3
T_KSTR == 4
T_DYAY == 6
T_HMAP == 7
T_SKLS == 8

Nothing == [tt |-> T_NIL]

\* safe_compare
Sign(l, r) == IF l < r THEN -1 ELSE IF l > r THEN 1 ELSE 0

Shorter(s, t) == IF Len(s) < Len(t) THEN Len(s) ELSE Len(t)

RECURSIVE equals(_, _), compare(_, _)

\* hfind in the other map, for keys that hash the same when they are equal.
HFind(t, k) ==
    LET hits == {j \in DOMAIN t.kids : equals(t.kids[j][1], k)}
    IN IF hits = {} THEN Nothing ELSE t.kids[CHOOSE j \in hits : TRUE][2]

\* skfind in the other list: the first key that is not before k, if it is k.
SkFind(t, k) ==
    LET rest == {j \in DOMAIN t.kids : compare(t.kids[j][1], k) >= 0}
        first == CHOOSE j \in rest : \A h \in rest : j <= h
    IN IF rest # {} /\ equals(t.kids[first][1], k) THEN t.kids[first][2] ELSE Nothing

Found(t, k) == IF t.tt = T_HMAP THEN HFind(t, k) ELSE SkFind(t, k)

dyay_equals(v, w) ==
    /\ Len(v.kids) = Len(w.kids)
    /\ \A j \in DOMAIN v.kids : equals(v.kids[j], w.kids[j])

skls_equals(v, w) ==
    /\ Len(v.kids) = Len(w.kids)
    /\ \A j \in DOMAIN v.kids : equals(v.kids[j][2], Found(w, v.kids[j][1]))

\* Two maps with the same bindings are not equal if one has ever been larger.
hmap_equals(v, w) == v.size = w.size /\ skls_equals(v, w)

equals(v, w) ==
    /\ v.tt = w.tt
    /\ CASE v.tt = T_NIL -> TRUE
         [] v.tt \in {T_INT, T_BOOL} -> v.i = w.i
         [] v.tt = T_EXT -> v.p = w.p
         [] v.tt = T_KSTR -> v.z = w.z
         [] v.tt = T_DYAY -> dyay_equals(v, w)
         [] v.tt = T_HMAP -> hmap_equals(v, w)
         [] v.tt = T_SKLS -> skls_equals(v, w)

\* kz_compare, dyay_compare: how the elements compare at the first place where they
\* differ, or else the lengths.
Lexicographic(signs, s, t) ==
    LET differ == {j \in DOMAIN signs : signs[j] # 0}
        first == CHOOSE j \in differ : \A h \in differ : j <= h
    IN IF differ # {} THEN Sign(signs[first], 0) ELSE Sign(Len(s), Len(t))

kz_compare(s, t) == Lexicographic([j \in 1 .. Shorter(s, t) |-> Sign(s[j], t[j])], s, t)
dyay_compare(v, w) ==
    Lexicographic([j \in 1 .. Shorter(v.kids, w.kids) |-> compare(v.kids[j], w.kids[j])],
                  v.kids, w.kids)

\* hmap_compare, skls_compare: how its values compare with those the other has for
\* the same keys, summed; what only the other has counts nothing.
Excess(v, w) ==
    FoldLeft(LAMBDA rv, kv : rv + compare(kv[2], Found(w, kv[1])), 0, v.kids)

compare(v, w) ==
    IF v.tt # w.tt THEN Sign(v.tt, w.tt)
    ELSE CASE v.tt \in {T_NIL, T_EXT} -> 0
           [] v.tt \in {T_INT, T_BOOL} -> Sign(v.i, w.i)
           [] v.tt = T_KSTR -> kz_compare(v.z, w.z)
           [] v.tt = T_DYAY -> dyay_compare(v, w)
           [] v.tt \in {T_HMAP, T_SKLS} -> Excess(v, w)
=============================================================================

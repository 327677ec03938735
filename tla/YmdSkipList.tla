---------------------------- MODULE YmdSkipList -----------------------------
(***************************************************************************)
(* The skip list (skip_list.c): nodes of random height, each on the linked *)
(* lists of the levels below its height, in the order of `compare'         *)
(* (value.c).  The search goes right as long as the next key is smaller,   *)
(* then down.                                                              *)
(*                                                                         *)
(* `compare' calls all pointers (T_EXT) the same, and an empty map or list *)
(* the same as any other; `equals' tells them apart.  An array, map or     *)
(* list is in it as an object: the program may change it afterwards, and   *)
(* the list is then searched in an order it was not built in.              *)
(*                                                                         *)
(* UpdateOfTop, LinkedAtHead and FollowingOnTop are faulty variants of the *)
(* definition after each, for the mutation tests; nothing else uses them.  *)
(***************************************************************************)
EXTENDS Naturals, FiniteSets

CONSTANTS
    Key, Val, Nil,
    May,        \* what each key may be: a value, for a container whatever it may hold
    Less,       \* the pairs of values for which `compare' is negative ...
    Same,       \* ... and those that are `equals'
    Settled,    \* the keys of types without pointers, maps, lists and changes
    MaxLevel,   \* MAX_LEVEL
    MaxNodes    \* bound on the number of nodes

ASSUME ListAssumption ==
    /\ DOMAIN May = Key /\ Nil \notin Key \cup Val \cup Nat
    /\ Settled \subseteq Key
    /\ MaxLevel \in Nat \ {0} /\ MaxNodes \in Nat

Content == UNION {May[k] : k \in Key}

\* The value v of a settled key is before or after whatever another key may be, the same
\* through all its changes, and not equal to it; and it is in order with any two values,
\* which `compare' may not order otherwise (compare, equals).
ASSUME OrderAssumption ==
    \A s \in Settled : \E v \in May[s] :
        /\ May[s] = {v} /\ <<v, v>> \in Same \ Less
        /\ \A k \in Key \ {s} : \A c, d \in May[k] :
              /\ <<c, v>> \in Less <=> <<v, d>> \notin Less
              /\ {<<c, v>>, <<v, c>>} \cap Same = {}
        /\ \A c, d \in Content :
              /\ {<<c, d>>, <<d, v>>} \subseteq Less => <<c, v>> \in Less
              /\ {<<c, v>>, <<v, d>>} \subseteq Less => <<c, d>> \in Less
              /\ {<<v, c>>, <<c, d>>} \subseteq Less => <<v, d>> \in Less
              /\ <<c, d>> \in Same => (<<c, v>> \in Less <=> <<d, v>> \in Less)

VARIABLES
    now,    \* what each key is
    count,  \* list->count; the nodes are 1 .. count in the order they were made
    lv,     \* list->lv, the levels in use
    key,    \* the key ...
    val,    \* ... and the value of each node
    fwd,    \* fwd[x][i]: the next node of x on level i, or Nil; 0 is the head
    iter,   \* bind[0] of the iterator of a loop over the list; head outside of one
    old,    \* the number of nodes when the loop began ...
    seen    \* ... and those it has met, for the properties

list == <<now, count, lv, key, val, fwd>>
loop == <<iter, old, seen>>
vars == <<now, count, lv, key, val, fwd, iter, old, seen>>

head == 0
Levels == 0 .. MaxLevel - 1
Nodes == 1 .. count
Looping == iter # head

Before(x, k) == <<now[key[x]], now[k]>> \in Less

\* The heights randlv draws.
Heights == 1 .. MaxLevel

\* From node x to the right on level i, up to the last node before k.
Right(x, i, k) ==
    LET last[y \in {head} \cup Nodes] ==
            IF fwd[y][i] # Nil /\ Before(fwd[y][i], k) THEN last[fwd[y][i]] ELSE y
    IN last[x]

\* The search of skindex and skfind: on every level in use the last node before
\* k, from the top level down.
UpdateOfTop(k) == [i \in 0 .. lv - 1 |-> Right(head, lv - 1, k)]
Update(k) ==
    LET update[i \in 0 .. lv - 1] ==
            Right(IF i = lv - 1 THEN head ELSE update[i + 1], i, k)
    IN update

\* The node after the one the search ends at.
Reached(k) == fwd[IF lv = 0 THEN head ELSE Update(k)[0]][0]
Hit(k) == Reached(k) # Nil /\ <<now[key[Reached(k)]], now[k]>> \in Same

-----------------------------------------------------------------------------
LinkedAtHead(k, n) ==
    LET x == count + 1
    IN [y \in DOMAIN fwd |-> [i \in Levels |->
           IF i >= n THEN fwd[y][i]
           ELSE IF y = x THEN fwd[IF i < lv THEN Update(k)[i] ELSE head][i]
           ELSE IF y = head THEN x
           ELSE fwd[y][i]]]
\* append: a new node of n levels after the nodes the search ended at; the head
\* on levels that were not in use.
Linked(k, n) ==
    LET path == Update(k)
        update == [i \in Levels |-> IF i < lv THEN path[i] ELSE head]
        x == count + 1
    IN [y \in DOMAIN fwd |-> [i \in Levels |->
           IF i >= n THEN fwd[y][i]
           ELSE IF y = x THEN fwd[update[i]][i]
           ELSE IF y = update[i] THEN x
           ELSE fwd[y][i]]]

\* skls_put and the write through the pointer it returns.
Put(k, v, n) ==
    /\ IF Hit(k)
       THEN /\ val' = [val EXCEPT ![Reached(k)] = v]
            /\ key' = [key EXCEPT ![Reached(k)] = k]
            /\ UNCHANGED <<count, lv, fwd>>
       ELSE /\ count < MaxNodes
            /\ fwd' = Linked(k, n)
            /\ count' = count + 1
            /\ lv' = IF n > lv THEN n ELSE lv
            /\ key' = [key EXCEPT ![count + 1] = k]
            /\ val' = [val EXCEPT ![count + 1] = v]
    /\ UNCHANGED <<now, loop>>

\* skls_get
Find(k) == IF Hit(k) THEN val[Reached(k)] ELSE Nil

\* The program changes a container it has used as a key.
Mutate(k, c) ==
    /\ c \in May[k]
    /\ now' = [now EXCEPT ![k] = c]
    /\ UNCHANGED <<count, lv, key, val, fwd, loop>>

\* new_contain_iter: a loop begins at the first node; over an empty list it is
\* given `libx_end' and has nothing to meet.
Begin ==
    /\ ~Looping /\ fwd[head][0] # Nil
    /\ iter' = fwd[head][0] /\ old' = count /\ seen' = {}
    /\ UNCHANGED list

FollowingOnTop(x) == fwd[x][lv - 1]
Following(x) == fwd[x][0]

\* skls_iter: the node is given to the loop's body, which may put, and the
\* iterator has already gone to the next one.
Meet ==
    /\ iter \in Nodes
    /\ iter' = Following(iter)
    /\ seen' = seen \cup {iter}
    /\ UNCHANGED old /\ UNCHANGED list

\* skls_iter without a node: nil, which ends the loop (I_FOREACH); or the body
\* broke out of it.
End ==
    /\ Looping
    /\ iter' = head /\ old' = 0 /\ seen' = {}
    /\ UNCHANGED list

-----------------------------------------------------------------------------
Init ==
    /\ now \in {f \in [Key -> Content] : \A k \in Key : f[k] \in May[k]}
    /\ count = 0 /\ lv = 0
    /\ key = [x \in 1 .. MaxNodes |-> Nil] /\ val = [x \in 1 .. MaxNodes |-> Nil]
    /\ fwd = [x \in 0 .. MaxNodes |-> [i \in Levels |-> Nil]]
    /\ iter = head /\ old = 0 /\ seen = {}

Next ==
    \/ \E k \in Key, v \in Val, n \in Heights : Put(k, v, n)
    \/ \E k \in Key, c \in Content : Mutate(k, c)
    \/ Begin \/ Meet \/ End

Spec == Init /\ [][Next]_vars

-----------------------------------------------------------------------------
(* Properties *)

\* The list's words hold what they should: nodes and levels that exist.
TypeOK ==
    /\ \A k \in Key : now[k] \in May[k]
    /\ count \in 0 .. MaxNodes
    /\ lv \in 0 .. MaxLevel
    /\ key \in [1 .. MaxNodes -> Key \cup {Nil}]
    /\ val \in [1 .. MaxNodes -> Val \cup {Nil}]
    /\ fwd \in [0 .. MaxNodes -> [Levels -> Nodes \cup {Nil}]]
    /\ iter \in {head, Nil} \cup Nodes
    /\ old \in 0 .. count /\ seen \subseteq Nodes

\* Types; and every level is a part of the level below it, and the lowest holds every
\* node, whatever heights were drawn: a node linked on level i + 1 is the next but some
\* on level i.  Settled keys stay in order on every level, whatever becomes of the others
\* (skindex, append; compare).
OnLevel(i) == {fwd[x][i] : x \in {head} \cup Nodes} \ {Nil}
Sorted ==
    /\ TypeOK
    /\ OnLevel(0) = Nodes
    /\ \A i \in Levels : i >= lv => OnLevel(i) = {}
    /\ \A i \in Levels \ {0} : OnLevel(i) \subseteq OnLevel(i - 1)
    /\ \A i \in Levels : \A x \in Nodes :
          /\ LET y == fwd[x][i]
             IN y # Nil /\ {key[x], key[y]} \cap Settled # {} => Before(x, key[y])
          /\ Cardinality({y \in {head} \cup Nodes : fwd[y][i] = x}) <= 1

\* Settled keys behave as a function to values, whatever is done with keys `compare' does
\* not tell apart and with containers that are changed after they were put: keys of
\* different types never come between each other (skindex, skfind; compare, equals).
Dictionary == INSTANCE YmdMap WITH Key <- Settled, dict <- [k \in Settled |-> Find(k)]
IsDictionary == Dictionary!Spec

\* A loop meets each node the list had when it began once, and meets none twice,
\* whatever its body puts: what it has still to meet lies from `iter' on.
LoopIsWhole ==
    Looping =>
        LET onward[x \in Nodes \cup {Nil}] ==
                IF x = Nil THEN {} ELSE {x} \cup onward[fwd[x][0]]
        IN /\ 1 .. old \subseteq seen \cup onward[iter]
           /\ seen \cap onward[iter] = {}
=============================================================================

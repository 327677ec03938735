----------------------------- MODULE YmdHashMap -----------------------------
(***************************************************************************)
(* The hash map (hash_map.c): one array of entries that holds the heads    *)
(* ("slots") at the position of their hash, and the rest of each chain     *)
(* ("nodes") in whatever entry was free.  A new head evicts a node that    *)
(* sits on its position.  A full array is replaced by one twice as big,    *)
(* into which the old entries are put again one at a time.                 *)
(*                                                                         *)
(* The hash of a key is the hash of its contents: that of an array, map or *)
(* list used as a key changes when the program modifies it.                *)
(*                                                                         *)
(* A loop over the map (libc.c, hmap_iter) keeps a pointer into the array. *)
(* Its body may put into the map: an entry evicted then may be met twice,  *)
(* or not at all, and when the array is replaced the iterator goes on in   *)
(* memory that was freed.                                                  *)
(*                                                                         *)
(* HitsByHash, FreeEntriesOfOld, LinkedToHead, EvictedUnlinked and         *)
(* EndOfOthers are faulty variants of the definition after each, for       *)
(* mutation tests; nothing else uses them.                                 *)
(***************************************************************************)
EXTENDS Naturals, FiniteSetsExt

CONSTANTS
    Key,        \* keys, no two of them equal
    Mutable,    \* those that are containers
    Refused,    \* keys the program also tries to bind to nil
    Val,
    Nil,        \* nil, or no entry
    Unwritten,  \* the value of a put that panics after hmap_put
    Hash,       \* hash values
    Kinds,      \* the kinds of loops there are: "key", "value", "kv"
    Sizes,      \* 1 << shift of a new map
    MaxSize     \* bound on the size of the array

ASSUME MapAssumption ==
    /\ Nil \notin Key \cup Val \cup Nat
    /\ Unwritten \notin Val \cup {Nil}
    /\ Mutable \subseteq Key /\ Refused \subseteq Key
    /\ Hash \subseteq Nat /\ Kinds \subseteq {"key", "value", "kv"}
    /\ Sizes \subseteq Nat /\ \A n \in Sizes : n > 1 /\ n % 2 = 0

VARIABLES
    hash,   \* the hash of each key as it is now
    size,   \* 1 << map->shift
    item,   \* map->item
    bak,    \* during a resize the old array, otherwise empty
    ip,     \* during a resize the next entry of bak to put again
    req,    \* during a resize the key and value being put
    iter,   \* the bound values of the iterator of a loop, Nil outside of one
    due,    \* the settled keys there were when it began and have stayed in place ...
    met     \* ... and those of them it was given, for the properties

map == <<hash, size, item, bak, ip, req>>
loop == <<iter, due, met>>
vars == <<map, loop>>

\* Keys that never hash anew and are never refused a value.
Settled == Key \ (Mutable \cup Refused)
Looping == iter # Nil
Resizing == DOMAIN bak # {}

Free == [flag |-> "free", hash |-> Nil, k |-> Nil, v |-> Nil, next |-> Nil]
Blank(n) == [i \in 0 .. n - 1 |-> Free]

\* ((h - 1) | 1) % n on unsigned numbers: always odd.
Position(h, n) == IF h = 0 THEN n - 1 ELSE (IF h % 2 = 1 THEN h ELSE h - 1) % n

Used(t) == {i \in DOMAIN t : t[i].flag # "free"}

\* The entries that others point at.
Targets(t) == {t[i].next : i \in Used(t)} \ {Nil}

\* The entries on the chain that starts at entry i, none if that is free: i and the
\* least set that holds what i and its members point at.
Chain(t, i) ==
    LET whole == {C \in SUBSET Targets(t) : \A y \in C \cup {i} : t[y].next \in C \cup {Nil}}
    IN IF t[i].flag = "free" THEN {} ELSE {i} \cup {x \in Targets(t) : \A C \in whole : x \in C}

\* What walking the chain from the head at the position of k finds (hfind).
HitsByHash(t, k) ==
    LET p == Position(hash[k], size)
    IN IF t[p].flag # "slot" THEN {} ELSE {x \in Chain(t, p) : t[x].hash = hash[k]}
Hits(t, k) ==
    LET p == Position(hash[k], size)
    IN IF t[p].flag # "slot" THEN {}
       ELSE {x \in Chain(t, p) : t[x].hash = hash[k] /\ t[x].k = k}

\* alloc_free: from the last entry down to the second.
FreeEntriesOfOld(t) ==
    {i \in DOMAIN t \ {0} : i < size \div 2 /\ t[i].flag = "free"}
FreeEntries(t) == {i \in DOMAIN t \ {0} : t[i].flag = "free"}
AllocFree(t) == Max(FreeEntries(t))

-----------------------------------------------------------------------------
(* hindex and the write through the pointer hmap_put returns *)

\* Does the put of k need a free entry?
NeedsEntry(t, k) == t[Position(hash[k], size)].flag # "free" /\ Hits(t, k) = {}

\* What an entry with value `old' holds after the caller's write.
Written(old, v) == IF v = Unwritten THEN old ELSE v

\* index_if_head, when k is on the chain already.
Replaced(t, k, v) ==
    LET x == CHOOSE x \in Hits(t, k) : TRUE
    IN [t EXCEPT ![x].k = k, ![x].v = Written(@, v)]

\* index_if_head, when it is not: a node at the end of the chain.
Node(k, v) ==
    [flag |-> "node", hash |-> hash[k], k |-> k, v |-> Written(Nil, v), next |-> Nil]
LinkedToHead(t, k, v) ==
    LET fnd == AllocFree(t)
    IN [t EXCEPT ![fnd] = Node(k, v), ![Position(hash[k], size)].next = fnd]
Linked(t, k, v) ==
    LET fnd == AllocFree(t)
        pos == CHOOSE x \in Chain(t, Position(hash[k], size)) : t[x].next = Nil
    IN [t EXCEPT ![fnd] = Node(k, v), ![pos].next = fnd]

\* A new head in entry p, which was free or whose node has moved; a value the
\* node had stays behind until it is written.
Head(t, p, k, v) ==
    [flag |-> "slot", hash |-> hash[k], k |-> k, v |-> Written(t[p].v, v), next |-> Nil]
Headed(t, k, v) ==
    LET p == Position(hash[k], size) IN [t EXCEPT ![p] = Head(t, p, k, v)]

\* index_if_node: the node on k's position moves to a free entry, the entry before
\* it found anew from the key it holds.
Prev(t, slot) == {x \in Chain(t, Position(hash[t[slot].k], size)) : t[x].next = slot}
Moved(t, slot) == [t[slot] EXCEPT !.flag = "node", !.hash = hash[t[slot].k]]
EvictedUnlinked(t, k, v) ==
    LET slot == Position(hash[k], size)
    IN [t EXCEPT ![AllocFree(t)] = Moved(t, slot), ![slot] = Head(t, slot, k, v)]
Evicted(t, k, v) ==
    LET slot == Position(hash[k], size)
        prev == CHOOSE x \in Prev(t, slot) : TRUE
    IN [t EXCEPT ![AllocFree(t)] = Moved(t, slot), ![prev].next = AllocFree(t),
                 ![slot] = Head(t, slot, k, v)]

\* The put of k into the array t, which has the entry it needs.
Stored(t, k, v) ==
    LET flag == t[Position(hash[k], size)].flag
    IN IF flag = "free" THEN Headed(t, k, v)
       ELSE IF flag = "node" THEN Evicted(t, k, v)
       ELSE IF Hits(t, k) # {} THEN Replaced(t, k, v)
       ELSE Linked(t, k, v)

\* assert(prev) of index_if_node: the head of the node on k's position is found.
HeadFound(t, k) ==
    LET slot == Position(hash[k], size)
    IN t[slot].flag = "node" => Prev(t, slot) # {}

Fits(k) == NeedsEntry(item, k) => FreeEntries(item) # {}

-----------------------------------------------------------------------------
(* hmap_put, resize, hmap_get *)

\* resize, up to the rehash: the array of twice the size.
Grow(k, v) ==
    /\ size * 2 <= MaxSize
    /\ size' = size * 2
    /\ bak' = item /\ ip' = 0
    /\ item' = Blank(size * 2)
    /\ req' = <<k, v>>
    /\ UNCHANGED hash

Store(k, v) ==
    /\ HeadFound(item, k)
    /\ item' = Stored(item, k, v)
    /\ UNCHANGED <<hash, size>>

\* What a put in the body is to the loop around it: a panic leaves it.
Left == iter' = Nil /\ due' = {} /\ met' = {}
Replacing ==
    /\ iter' = IF Looping THEN [iter EXCEPT !.live = FALSE] ELSE iter
    /\ due' = {} /\ met' = {}
Evicting(k) ==
    LET moved == item[Position(hash[k], size)].k
    IN due' = due \ {moved} /\ met' = met \ {moved} /\ UNCHANGED iter

\* vm_iput writes the value unless that is nil: then it panics, and the entry
\* hmap_put has found or made is left as it is.
Put(k, v) ==
    /\ ~Resizing
    /\ v = Unwritten => k \in Refused
    /\ IF v = Unwritten THEN Left
       ELSE IF ~Fits(k) THEN Replacing
       ELSE IF item[Position(hash[k], size)].flag = "node" THEN Evicting(k)
       ELSE UNCHANGED loop
    /\ \/ Fits(k) /\ Store(k, v) /\ UNCHANGED <<bak, ip, req>>
       \/ ~Fits(k) /\ Grow(k, v)

\* One turn of the loop of resize.  A hmap_put that would resize again is left out
\* here and in Retry: none does (RehashFits).
Rehash ==
    /\ ip \in DOMAIN bak
    /\ IF bak[ip].flag = "free" THEN UNCHANGED <<hash, size, item>>
       ELSE Fits(bak[ip].k) /\ Store(bak[ip].k, bak[ip].v)
    /\ ip' = ip + 1
    /\ UNCHANGED <<bak, req, loop>>

\* The end of resize: index_if_head or index_if_node starts again with hindex.
Retry ==
    /\ Resizing /\ ip \notin DOMAIN bak
    /\ Fits(req[1]) /\ Store(req[1], req[2])
    /\ bak' = Blank(0) /\ ip' = 0 /\ req' = Nil
    /\ UNCHANGED loop

\* hmap_get
Find(k) ==
    LET found == Hits(item, k)
    IN IF found = {} THEN Nil ELSE item[CHOOSE x \in found : TRUE].v

\* The program changes a container it has used as a key.
Mutate(k, h) ==
    /\ ~Resizing
    /\ hash' = [hash EXCEPT ![k] = h]
    /\ UNCHANGED <<size, item, bak, ip, req, loop>>

-----------------------------------------------------------------------------
(* Loops *)

\* move2valid: the next entry that is not free, or the end.
Valid(i, m) ==
    LET used == {x \in i .. m - 1 : item[x].flag # "free"}
    IN IF used = {} THEN m ELSE Min(used)

\* new_contain_iter: bind[0] and bind[1]; an empty map has nothing to meet.
EndOfOthers == size - 1
EndOfItem == size
Begin(kind) ==
    /\ ~Resizing /\ ~Looping /\ Used(item) # {}
    /\ iter' = [kind |-> kind, i |-> Valid(0, EndOfItem), m |-> EndOfItem, live |-> TRUE]
    /\ due' = {item[x].k : x \in Used(item)} \cap Settled /\ met' = {}
    /\ UNCHANGED map

\* hmap_iter: the body is given the entry and the iterator has already gone on.  A nil
\* given, here the value of an entry a refused put has left, ends the loop (I_FOREACH).
Meet ==
    /\ ~Resizing /\ Looping /\ iter.i < iter.m /\ iter.live
    /\ IF iter.kind = "value" /\ item[iter.i].v = Nil THEN Left
       ELSE /\ iter' = [iter EXCEPT !.i = Valid(iter.i + 1, iter.m)]
            /\ met' = met \cup ({item[iter.i].k} \cap due)
            /\ UNCHANGED due
    /\ UNCHANGED map

\* The same when the array has been replaced: the memory may hold anything.
MeetFreed ==
    /\ ~Resizing /\ Looping /\ iter.i < iter.m /\ ~iter.live
    /\ \/ Left
       \/ \E i \in iter.i + 1 .. iter.m : iter' = [iter EXCEPT !.i = i] /\ UNCHANGED <<due, met>>
    /\ UNCHANGED map

\* hmap_iter at the end, or a break.
End == ~Resizing /\ Looping /\ Left /\ UNCHANGED map

-----------------------------------------------------------------------------
Init ==
    /\ hash \in [Key -> Hash]
    /\ size \in Sizes
    /\ item = Blank(size)
    /\ bak = Blank(0) /\ ip = 0 /\ req = Nil
    /\ iter = Nil /\ due = {} /\ met = {}

Next ==
    \/ \E k \in Key, v \in Val \cup {Unwritten} : Put(k, v)
    \/ Rehash \/ Retry
    \/ \E k \in Mutable, h \in Hash : Mutate(k, h)
    \/ \E kind \in Kinds : Begin(kind)
    \/ Meet \/ MeetFreed \/ End

Spec == Init /\ [][Next]_vars

-----------------------------------------------------------------------------
(* Properties *)

Entry == [flag : {"free", "slot", "node"}, hash : Hash \cup {Nil}, k : Key \cup {Nil},
          v : Val \cup {Nil}, next : Nat \cup {Nil}]

TypeOK ==
    /\ hash \in [Key -> Hash]
    /\ size \in Nat
    /\ item \in [0 .. size - 1 -> Entry]
    /\ ip \in Nat
    /\ IF Resizing THEN /\ bak \in [0 .. (size \div 2) - 1 -> Entry]
                        /\ req \in Key \X (Val \cup {Unwritten})
       ELSE bak = Blank(0) /\ req = Nil

\* Types; and every entry is on the chain of a head, which sits on the position of its
\* hash, and has at most one predecessor, whatever the order in which entries were
\* added, evicted and put again, and whatever became of the hashes of containers.
\* Unless its key is a container the head is the one at the position of its hash.
Chained ==
    /\ TypeOK
    /\ \A i, j \in Used(item) : item[i].next # Nil /\ item[i].next = item[j].next => i = j
    /\ \A i \in Used(item) :
          LET p == Position(item[i].hash, size)
          IN /\ item[i].flag = "slot" => i = p
             /\ \E s \in Used(item) : item[s].flag = "slot" /\ i \in Chain(item, s)
             /\ item[i].k \notin Mutable => item[p].flag = "slot" /\ i \in Chain(item, p)

\* The rehash of a resize never resizes again, which would put the entries not
\* yet moved in an array only the C stack points at; nor does the put it is for, so
\* that every put ends.
RehashFits ==
    Resizing => IF ip \in DOMAIN bak THEN bak[ip].flag # "free" => Fits(bak[ip].k)
                                      ELSE Fits(req[1])

\* hash_map.c, index_if_node: `assert(prev)'.  It holds when the key of the node to evict
\* is no container.
HeadsFound ==
    \A k \in Key : item[Position(hash[k], size)].k \notin Mutable => HeadFound(item, k)

\* What is left of the old array, or is in the new one already.
Binding(k) ==
    LET old == {i \in DOMAIN bak : i >= ip /\ bak[i].k = k}
    IN IF old # {} THEN bak[CHOOSE i \in old : TRUE].v ELSE Find(k)

\* Keys whose hash is settled behave as a function to values, through evictions
\* and resizes, and whatever becomes of containers used as keys and of puts that
\* are refused: a get returns what was last put under that key.
Dictionary == INSTANCE YmdMap WITH Key <- Settled, dict <- [k \in Settled |-> Binding(k)]
IsDictionary == Dictionary!Spec

\* A loop is given each settled key the map had when it began once, whatever its body
\* puts, mutates or is refused, unless the put of another key evicts it, as long as no
\* put replaces the array: what it has still to meet lies between i and m (hmap_iter).
LoopIsWhole ==
    Looping /\ iter.live =>
        \A k \in due : (k \in met) # (\E x \in iter.i .. iter.m - 1 :
                                        item[x].flag # "free" /\ item[x].k = k)
=============================================================================

--------------------------- MODULE YmdLibraryProofs --------------------------
(***************************************************************************)
(* Theorems about what the library (libc.c, libtest.c) stands on: arrays   *)
(* and loops (YmdArray), importing and the unit tests (YmdTest).           *)
(*                                                                         *)
(* The array implements the sequence it promises (YmdList): for any        *)
(* values, capacities and growth, through every reallocation, shift, and   *)
(* loss of its block.  And a loop over it is whole, whatever its body      *)
(* appends and overwrites; a loop over numbers is given those of its       *)
(* range.                                                                  *)
(*                                                                         *)
(* Assertions of the library `Assert' land where they should: whatever     *)
(* scripts do, however many files, suites and tests there are, a failed    *)
(* assertion in a suite jumps to the yut_test that is running; no file     *)
(* that scripts import is run again while it is being run; the result of   *)
(* the program says what has happened (RInv); and the cases of a suite run *)
(* in order, each once (OInv).                                             *)
(***************************************************************************)
EXTENDS YmdArray, YmdTest, SequenceTheorems, FiniteSetTheorems, TLAPS

Elem == Val \cup {Nil}
Cell == Val \cup {Nil, Junk}

\* The block is as long as arr->max says, and written below arr->count.
AInv == TypeOK /\ max \in Nat /\ count \in Nat

\* What an operation that may resize works on: the length of the block and its contents.
Room == IF Full THEN NewMax(count) ELSE max

-----------------------------------------------------------------------------
(* The block *)

LEMMA NewMaxGrows == ASSUME NEW n \in Nat PROVE NewMax(n) \in Nat /\ n < NewMax(n)
BY ArrayAssumption DEF ArrayAssumption, NewMax

LEMMA ResizeIsEnough ==
    ASSUME AInv
    PROVE  /\ Room \in Nat /\ count < Room
           /\ Resized \in [0 .. Room - 1 -> Cell]
           /\ \A i \in 0 .. count - 1 : Resized[i] = elem[i] /\ Resized[i] \in Elem
           /\ Resize => max' = Room /\ charged' = Room
<1>1. /\ count \in Nat /\ max \in Nat /\ count <= max /\ charged = max
      /\ elem \in [0 .. max - 1 -> Cell] /\ \A i \in 0 .. count - 1 : elem[i] # Junk
  BY DEF AInv, TypeOK, Cell
<1>2. NewMax(count) \in Nat /\ count < NewMax(count)
  BY <1>1, NewMaxGrows
<1>3. CASE Full
  <2>1. Room = NewMax(count) /\ count = max /\ Resized = Roomy(NewMax(count))
    BY <1>1, <1>3 DEF Room, Full, Resized
  <2>2. Roomy(NewMax(count)) \in [0 .. NewMax(count) - 1 -> Cell]
    BY <1>1, <1>2 DEF Roomy, Cell
  <2>3. \A i \in 0 .. count - 1 : Roomy(NewMax(count))[i] = elem[i]
    BY <1>1, <1>2, <2>1 DEF Roomy
  <2>4. \A i \in 0 .. count - 1 : elem[i] \in Elem
    BY <1>1 DEF Elem, Cell
  <2>5. Resize => max' = Room /\ charged' = Room
    BY <1>1, <1>2, <1>3, <2>1 DEF Resize
  <2> QED BY <1>2, <2>1, <2>2, <2>3, <2>4, <2>5
<1>4. CASE ~Full
  <2>1. Room = max /\ count < max /\ Resized = elem
    BY <1>1, <1>4 DEF Room, Full, Resized
  <2>2. \A i \in 0 .. count - 1 : elem[i] \in Elem
    BY <1>1 DEF Elem, Cell
  <2>3. Resize => max' = Room /\ charged' = Room
    BY <1>1, <1>4, <2>1 DEF Resize
  <2> QED BY <1>1, <2>1, <2>2, <2>3
<1> QED BY <1>3, <1>4

\* What is written in a block is a sequence.
LEMMA WrittenIsSeq ==
    ASSUME NEW n \in Nat, NEW t, \A i \in 0 .. n - 1 : t[i] \in Elem
    PROVE  LET s == [i \in 1 .. n |-> t[i - 1]]
           IN s \in Seq(Elem) /\ Len(s) = n /\ DOMAIN s = 1 .. n
<1>1. \A i \in 1 .. n : i - 1 \in 0 .. n - 1
  OBVIOUS
<1>2. [i \in 1 .. n |-> t[i - 1]] \in [1 .. n -> Elem]
  BY <1>1
<1> QED BY <1>2

LEMMA ContentIsSeq ==
    ASSUME AInv
    PROVE  Content \in Seq(Elem) /\ Len(Content) = count /\ DOMAIN Content = 1 .. count
<1>1. count \in Nat /\ \A i \in 0 .. count - 1 : elem[i] \in Elem
  BY DEF AInv, TypeOK, Elem
<1> QED BY <1>1, WrittenIsSeq DEF Content

-----------------------------------------------------------------------------
(* Each operation *)

\* dyay_add appends.
LEMMA AddAppends ==
    ASSUME AInv, NEW v \in Elem, Add(v)
    PROVE  AInv' /\ Content' = Append(Content, v)
<1>1. /\ Room \in Nat /\ count < Room /\ Resized \in [0 .. Room - 1 -> Cell]
      /\ \A i \in 0 .. count - 1 : Resized[i] = elem[i] /\ Resized[i] \in Elem
      /\ max' = Room /\ charged' = Room
  BY ResizeIsEnough DEF Add
<1>2. count \in Nat /\ count' = count + 1 /\ elem' = [Resized EXCEPT ![count] = v]
  BY DEF AInv, Add
<1>3. v \in Cell /\ v # Junk
  BY ArrayAssumption DEF ArrayAssumption, Elem, Cell
<1>4. elem' \in [0 .. Room - 1 -> Cell]
  BY <1>1, <1>2, <1>3
<1>5. elem'[count] = v /\ \A i \in 0 .. count - 1 : elem'[i] = elem[i]
  BY <1>1, <1>2
<1>6. \A i \in 0 .. count - 1 : elem'[i] # Junk
  BY <1>1, <1>5, ArrayAssumption DEF ArrayAssumption, Elem
<1>7. AInv'
  BY <1>1, <1>2, <1>3, <1>4, <1>5, <1>6 DEF AInv, TypeOK, Cell
<1>8. Content \in Seq(Elem) /\ Len(Content) = count
  BY ContentIsSeq
<1>9. /\ Append(Content, v) \in Seq(Elem) /\ Len(Append(Content, v)) = count + 1
      /\ \A i \in 1 .. count : Append(Content, v)[i] = Content[i]
      /\ Append(Content, v)[count + 1] = v
  BY <1>8, AppendProperties
<1>10. Content' \in Seq(Elem) /\ Len(Content') = count + 1
  <2>1. count' \in Nat /\ \A i \in 0 .. count' - 1 : elem'[i] \in Elem
    BY <1>1, <1>2, <1>5
  <2>2. Content' = [i \in 1 .. count' |-> elem'[i - 1]]
    BY DEF Content
  <2> QED BY <1>2, <2>1, <2>2, WrittenIsSeq
<1>11. \A i \in 1 .. count + 1 : Content'[i] = Append(Content, v)[i]
  <2> SUFFICES ASSUME NEW i \in 1 .. count + 1 PROVE Content'[i] = Append(Content, v)[i]
    OBVIOUS
  <2>0. i = count + 1 \/ i \in 1 .. count
    BY <1>2
  <2>1. Content'[i] = elem'[i - 1]
    BY <1>2 DEF Content
  <2>2. CASE i = count + 1
    BY <1>2, <1>5, <1>9, <2>1, <2>2
  <2>3. CASE i \in 1 .. count
    <3>1. i - 1 \in 0 .. count - 1
      BY <1>2, <2>3
    <3>2. Content[i] = elem[i - 1]
      BY <2>3 DEF Content
    <3>3. Append(Content, v)[i] = Content[i]
      BY <1>9, <2>3
    <3> QED BY <1>5, <2>1, <3>1, <3>2, <3>3
  <2> QED BY <2>0, <2>2, <2>3
<1> QED BY <1>7, <1>9, <1>10, <1>11, SeqEqual

LEMMA InsertAtProperties ==
    ASSUME NEW s \in Seq(Elem), NEW k \in 1 .. Len(s), NEW v \in Elem
    PROVE  /\ List!InsertAt(s, k, v) \in Seq(Elem) /\ Len(List!InsertAt(s, k, v)) = Len(s) + 1
           /\ \A j \in 1 .. Len(s) + 1 : List!InsertAt(s, k, v)[j] =
                 IF j < k THEN s[j] ELSE IF j = k THEN v ELSE s[j - 1]
<1> DEFINE before == SubSeq(s, 1, k - 1)
           after == SubSeq(s, k, Len(s))
<1>1. Len(s) \in Nat /\ k \in Nat /\ \A j \in 1 .. Len(s) : s[j] \in Elem
  OBVIOUS
<1>2. /\ before \in Seq(Elem) /\ Len(before) = k - 1
      /\ \A j \in 1 .. k - 1 : before[j] = s[j]
  BY <1>1, SubSeqProperties
<1>3. /\ after \in Seq(Elem) /\ Len(after) = Len(s) - k + 1
      /\ \A j \in 1 .. Len(s) - k + 1 : after[j] = s[k + j - 1]
  BY <1>1, SubSeqProperties
<1> HIDE DEF before, after
<1>4. /\ before \o <<v>> \in Seq(Elem) /\ Len(before \o <<v>>) = k
      /\ \A j \in 1 .. k : (before \o <<v>>)[j] = IF j < k THEN before[j] ELSE v
  BY <1>1, <1>2, ConcatProperties
<1> DEFINE front == before \o <<v>>
<1>5. List!InsertAt(s, k, v) = front \o after
  BY DEF List!InsertAt, before, after
<1> HIDE DEF front
<1>6. /\ front \o after \in Seq(Elem) /\ Len(front \o after) = Len(s) + 1
      /\ \A j \in 1 .. Len(s) + 1 : (front \o after)[j] =
            IF j <= k THEN front[j] ELSE after[j - k]
  <2>1. /\ front \in Seq(Elem) /\ Len(front) = k /\ after \in Seq(Elem)
        /\ Len(front) + Len(after) = Len(s) + 1
    <3>1. front \in Seq(Elem) /\ Len(front) = k
      BY <1>4 DEF front
    <3>2. after \in Seq(Elem) /\ Len(after) = Len(s) - k + 1
      BY <1>3
    <3> QED BY <1>1, <3>1, <3>2
  <2>2. /\ front \o after \in Seq(Elem) /\ Len(front \o after) = Len(front) + Len(after)
        /\ \A j \in 1 .. Len(front) + Len(after) : (front \o after)[j] =
              IF j <= Len(front) THEN front[j] ELSE after[j - Len(front)]
    BY <2>1, ConcatProperties
  <2> QED BY <2>1, <2>2
<1>7. ASSUME NEW j \in 1 .. Len(s) + 1
      PROVE  (front \o after)[j] = IF j < k THEN s[j] ELSE IF j = k THEN v ELSE s[j - 1]
  <2>1. CASE j < k
    BY <1>1, <1>2, <1>4, <1>6, <2>1 DEF front
  <2>2. CASE j = k
    BY <1>1, <1>4, <1>6, <2>2 DEF front
  <2>3. CASE j > k
    <3>1. j - k \in 1 .. Len(s) - k + 1 /\ k + (j - k) - 1 = j - 1
      BY <1>1, <2>3
    <3> QED BY <1>1, <1>3, <1>6, <2>3, <3>1
  <2>4. j < k \/ j = k \/ j > k
    BY <1>1
  <2> QED BY <2>1, <2>2, <2>3, <2>4
<1> QED BY <1>5, <1>6, <1>7

\* do_insert and dyay_insert.
LEMMA InsertInserts ==
    ASSUME AInv, NEW i \in 0 .. count - 1, NEW v \in Val, Insert(i, v)
    PROVE  AInv' /\ Content' = List!InsertAt(Content, i + 1, v)
<1>1. /\ Room \in Nat /\ count < Room /\ Resized \in [0 .. Room - 1 -> Cell]
      /\ \A j \in 0 .. count - 1 : Resized[j] = elem[j] /\ Resized[j] \in Elem
      /\ max' = Room /\ charged' = Room
  BY ResizeIsEnough DEF Insert
<1>2. /\ count \in Nat /\ count' = count + 1
      /\ elem' = [Shifted(Resized, i) EXCEPT ![i] = v]
  BY DEF AInv, Insert
<1>3. v \in Elem /\ v \in Cell
  BY DEF Elem, Cell
<1>4. /\ elem' \in [0 .. Room - 1 -> Cell]
      /\ \A j \in 0 .. Room - 1 : elem'[j] =
            IF j = i THEN v ELSE IF j > i /\ j <= count THEN Resized[j - 1] ELSE Resized[j]
  <2>1. \A j \in 0 .. Room - 1 : j > i => j - 1 \in 0 .. Room - 1
    BY <1>1, <1>2
  <2>2. Shifted(Resized, i) \in [0 .. Room - 1 -> Cell]
    BY <1>1, <1>2, <2>1 DEF Shifted
  <2>3. \A j \in 0 .. Room - 1 : Shifted(Resized, i)[j] =
            IF j > i /\ j <= count THEN Resized[j - 1] ELSE Resized[j]
    BY <1>1 DEF Shifted
  <2> QED BY <1>1, <1>2, <1>3, <2>2, <2>3
<1>5. \A j \in 0 .. count : elem'[j] =
            IF j = i THEN v ELSE IF j > i THEN elem[j - 1] ELSE elem[j]
  <2> SUFFICES ASSUME NEW j \in 0 .. count
               PROVE  elem'[j] = IF j = i THEN v ELSE IF j > i THEN elem[j - 1] ELSE elem[j]
    OBVIOUS
  <2>1. j \in 0 .. Room - 1
    BY <1>1, <1>2
  <2>2. CASE j > i
    <3>1. j - 1 \in 0 .. count - 1
      BY <1>2, <2>2
    <3> QED BY <1>1, <1>2, <1>4, <2>1, <2>2, <3>1
  <2>3. CASE j < i
    <3>1. j \in 0 .. count - 1
      BY <1>2, <2>3
    <3> QED BY <1>1, <1>2, <1>4, <2>1, <2>3, <3>1
  <2>4. CASE j = i
    BY <1>4, <2>1, <2>4
  <2> QED BY <1>2, <2>2, <2>3, <2>4
<1>6. \A j \in 0 .. count : elem'[j] \in Elem
  <2> SUFFICES ASSUME NEW j \in 0 .. count PROVE elem'[j] \in Elem
    OBVIOUS
  <2>1. j = i \/ (j > i /\ j - 1 \in 0 .. count - 1) \/ (j < i /\ j \in 0 .. count - 1)
    BY <1>2
  <2> QED BY <1>1, <1>3, <1>5, <2>1
<1>7. AInv'
  <2>1. \A j \in 0 .. count' - 1 : elem'[j] # Junk
    BY <1>2, <1>6, ArrayAssumption DEF ArrayAssumption, Elem
  <2> QED BY <1>1, <1>2, <1>4, <2>1 DEF AInv, TypeOK, Cell
<1>8. Content \in Seq(Elem) /\ Len(Content) = count /\ i + 1 \in 1 .. count
  BY <1>2, ContentIsSeq
<1>9. /\ List!InsertAt(Content, i + 1, v) \in Seq(Elem)
      /\ Len(List!InsertAt(Content, i + 1, v)) = count + 1
      /\ \A j \in 1 .. count + 1 : List!InsertAt(Content, i + 1, v)[j] =
            IF j < i + 1 THEN Content[j] ELSE IF j = i + 1 THEN v ELSE Content[j - 1]
  <2>1. i + 1 \in 1 .. Len(Content)
    BY <1>8
  <2>2. /\ List!InsertAt(Content, i + 1, v) \in Seq(Elem)
        /\ Len(List!InsertAt(Content, i + 1, v)) = Len(Content) + 1
        /\ \A j \in 1 .. Len(Content) + 1 : List!InsertAt(Content, i + 1, v)[j] =
              IF j < i + 1 THEN Content[j] ELSE IF j = i + 1 THEN v ELSE Content[j - 1]
    BY ZenonT(60), <1>3, <1>8, <2>1, InsertAtProperties
  <2> QED BY <1>8, <2>2
<1>10. Content' \in Seq(Elem) /\ Len(Content') = count + 1
  <2>1. count' \in Nat /\ \A j \in 0 .. count' - 1 : elem'[j] \in Elem
    BY <1>2, <1>6
  <2>2. Content' = [j \in 1 .. count' |-> elem'[j - 1]]
    BY DEF Content
  <2> QED BY <1>2, <2>1, <2>2, WrittenIsSeq
<1>11. \A j \in 1 .. count + 1 : Content'[j] = List!InsertAt(Content, i + 1, v)[j]
  <2> SUFFICES ASSUME NEW j \in 1 .. count + 1
               PROVE  Content'[j] = List!InsertAt(Content, i + 1, v)[j]
    OBVIOUS
  <2>1. Content'[j] = elem'[j - 1] /\ j - 1 \in 0 .. count
    BY <1>2 DEF Content
  <2>2. CASE j < i + 1
    <3>1. j \in 1 .. count /\ j - 1 < i
      BY <1>2, <2>2
    <3>2. Content[j] = elem[j - 1]
      BY <3>1 DEF Content
    <3> QED BY <1>2, <1>5, <1>9, <2>1, <2>2, <3>1, <3>2
  <2>3. CASE j = i + 1
    <3>1. j - 1 = i
      BY <1>2, <2>3
    <3> QED BY <1>5, <1>9, <2>1, <2>3, <3>1
  <2>4. CASE j > i + 1
    <3>1. j - 1 \in 1 .. count /\ j - 1 > i
      BY <1>2, <2>4
    <3>2. Content[j - 1] = elem[(j - 1) - 1]
      BY <3>1 DEF Content
    <3> QED BY <1>2, <1>5, <1>9, <2>1, <2>4, <3>1, <3>2
  <2> QED BY <1>2, <2>2, <2>3, <2>4
<1> QED BY <1>7, <1>9, <1>10, <1>11, SeqEqual

\* vm_put.
LEMMA SetOverwrites ==
    ASSUME AInv, NEW i \in 0 .. count - 1, NEW v \in Val, Set(i, v)
    PROVE  AInv' /\ Content' = [Content EXCEPT ![i + 1] = v]
<1>1. /\ count \in Nat /\ count' = count /\ max' = max /\ charged' = charged
      /\ elem' = [elem EXCEPT ![i] = v]
  BY DEF AInv, Set
<1>2. elem \in [0 .. max - 1 -> Cell] /\ max \in Nat /\ count <= max /\ charged = max
  BY <1>1 DEF AInv, TypeOK, Cell
<1>3. v \in Cell /\ v # Junk
  BY ArrayAssumption DEF ArrayAssumption, Cell
<1>4. AInv'
  <2>1. elem' \in [0 .. max - 1 -> Cell]
    BY <1>1, <1>2, <1>3
  <2>2. \A j \in 0 .. count - 1 : elem[j] # Junk /\ j \in 0 .. max - 1
    BY <1>1, <1>2 DEF AInv, TypeOK
  <2>3. \A j \in 0 .. count - 1 : elem'[j] # Junk
    BY <1>1, <1>2, <1>3, <2>2
  <2> QED BY <1>1, <1>2, <2>1, <2>3 DEF AInv, TypeOK, Cell
<1>5. Content' = [j \in 1 .. count |-> elem'[j - 1]]
  BY <1>1 DEF Content
<1>6. \A j \in 1 .. count : elem'[j - 1] = IF j = i + 1 THEN v ELSE elem[j - 1]
  <2>1. \A j \in 1 .. count : j - 1 \in 0 .. max - 1 /\ (j - 1 = i <=> j = i + 1)
    BY <1>1, <1>2
  <2> QED BY <1>1, <1>2, <2>1
<1>7. [Content EXCEPT ![i + 1] = v] =
          [j \in 1 .. count |-> IF j = i + 1 THEN v ELSE elem[j - 1]]
  BY DEF Content
<1> QED BY <1>4, <1>5, <1>6, <1>7

\* dyay_final.
LEMMA FinalClears == ASSUME AInv, Final PROVE AInv' /\ Content' = <<>>
<1>1. count' = 0 /\ max' = 0 /\ elem' = <<>> /\ charged' = charged - max
  BY DEF Final
<1>2. charged' = 0
  BY <1>1 DEF AInv, TypeOK
<1>3. elem' \in [0 .. max' - 1 -> Val \cup {Nil, Junk}]
  BY <1>1
<1>4. AInv'
  BY <1>1, <1>2, <1>3 DEF AInv, TypeOK
<1>5. Content' = <<>>
  BY <1>1 DEF Content
<1> QED BY <1>4, <1>5

\* A loop leaves the array alone.
LEMMA LoopsLeaveTheArray ==
    ASSUME AInv, UNCHANGED array
    PROVE  AInv' /\ Content' = Content
BY DEF AInv, TypeOK, Content, array

-----------------------------------------------------------------------------
\* Init is that of a list without elements.
LEMMA InitIsEmpty == Init => AInv /\ List!Init
<1> SUFFICES ASSUME Init PROVE AInv /\ List!Init
  OBVIOUS
<1>1. max \in Nat /\ charged = max /\ count = 0 /\ elem = Zeroed(max)
  BY ArrayAssumption DEF Init, ArrayAssumption
<1>2. Zeroed(max) \in [0 .. max - 1 -> Val \cup {Nil, Junk}]
  BY DEF Zeroed
<1>3. Content = <<>>
  BY <1>1 DEF Content
<1> QED BY <1>1, <1>2, <1>3 DEF AInv, TypeOK, List!Init

LEMMA NextIsListStep ==
    ASSUME AInv, [Next]_vars
    PROVE  AInv' /\ [List!Next]_Content
<1>1. CASE UNCHANGED vars
  BY <1>1, LoopsLeaveTheArray DEF vars, array
<1>2. ASSUME NEW v \in Val \cup {Nil}, AppendArg(v) \/ InsertLast(v)
      PROVE  AInv' /\ [List!Next]_Content
  <2>1. Add(v) /\ v \in Elem
    BY <1>2 DEF AppendArg, InsertLast, Elem
  <2>2. AInv' /\ Content' = Append(Content, v)
    BY <2>1, AddAppends
  <2> QED BY <2>2 DEF List!Next, List!Append1
<1>3. ASSUME NEW i \in 0 .. count - 1, NEW v \in Val, Insert(i, v) \/ Set(i, v)
      PROVE  AInv' /\ [List!Next]_Content
  <2>1. i + 1 \in DOMAIN Content
    BY ContentIsSeq DEF AInv
  <2>2. CASE Insert(i, v)
    <3>1. AInv' /\ Content' = List!InsertAt(Content, i + 1, v)
      BY <2>2, InsertInserts
    <3> QED BY <2>1, <3>1 DEF List!Next, List!Insert
  <2>3. CASE Set(i, v)
    <3>1. AInv' /\ Content' = [Content EXCEPT ![i + 1] = v]
      BY <2>3, SetOverwrites
    <3> QED BY <2>1, <3>1 DEF List!Next, List!Set
  <2> QED BY <1>3, <2>2, <2>3
<1>4. CASE Final
  BY <1>4, FinalClears DEF List!Next, List!Clear
<1>5. ASSUME UNCHANGED array PROVE AInv' /\ [List!Next]_Content
  BY <1>5, LoopsLeaveTheArray
<1>6. Next => \/ \E v \in Val \cup {Nil} : AppendArg(v) \/ InsertLast(v)
              \/ \E i \in 0 .. count - 1, v \in Val : Insert(i, v) \/ Set(i, v)
              \/ Final
              \/ UNCHANGED array
  BY DEF Next, BeginArray, MeetElement, EndArray, BeginRange, MeetNumber, EndRange, Break
<1> QED BY <1>1, <1>2, <1>3, <1>4, <1>5, <1>6

\* The array is the sequence its operations describe, however it grows and shifts
\* (dynamic_array.c).
THEOREM ArrayIsList == Spec => IsList
<1>1. Init => AInv /\ List!Init
  BY InitIsEmpty
<1>2. AInv /\ [Next]_vars => AInv' /\ [List!Next]_Content
  BY NextIsListStep
<1> QED BY <1>1, <1>2, PTL DEF Spec, IsList, List!Spec

-----------------------------------------------------------------------------
(* Loops *)

\* The iterator is one of the records new_contain_iter and new_step_iter bind.
ArrayIter == iter = [kind |-> iter.kind, i |-> iter.i, m |-> iter.m, idx |-> iter.idx,
                     live |-> iter.live]
RangeIter == iter = [kind |-> "step", first |-> iter.first, i |-> iter.i, m |-> iter.m,
                     s |-> iter.s]

\* A loop that nothing has spoiled: its block is the array's, which still has the
\* elements there were, and the key counts with the place.
Whole ==
    /\ iter.live = TRUE /\ iter.m <= count
    /\ iter.kind # "value" => iter.idx = iter.i
    /\ met = [k \in 1 .. iter.i |-> Given(iter.kind, k - 1, due[k])]
    /\ \A k \in iter.i .. iter.m - 1 : elem[k] = due[k + 1]

Going ==
    /\ ArrayIter
    /\ iter.kind \in {"value", "key", "kv"}
    /\ iter.m \in Nat /\ iter.i \in 0 .. iter.m
    /\ due \in Seq(Elem) /\ Len(due) = iter.m
    /\ ~spoiled => Whole

LInv ==
    /\ AInv
    /\ OverRange => RangeIter
    /\ OverArray => Going

LEMMA LInvIsWhole == LInv => LoopIsWhole
BY DEF LInv, AInv, Going, Whole, LoopIsWhole

LEMMA InitLInv == Init => LInv
BY InitIsEmpty DEF Init, LInv, OverRange, OverArray, Looping

\* An append leaves what the loop has still to meet, or the block has moved.
LEMMA AddKeeps == ASSUME LInv, NEW v \in Elem, Add(v) PROVE LInv'
<1>1. AInv /\ AInv'
  BY AddAppends DEF LInv
<1>2. count \in Nat /\ count' = count + 1 /\ met' = met /\ due' = due
  BY <1>1 DEF AInv, Add
<1>3. \A k \in 0 .. count - 1 : elem'[k] = elem[k]
  <2>1. /\ Room \in Nat /\ count < Room /\ Resized \in [0 .. Room - 1 -> Cell]
        /\ \A k \in 0 .. count - 1 : Resized[k] = elem[k]
    BY <1>1, ResizeIsEnough
  <2> QED BY <1>2, <2>1 DEF Add
<1>4. CASE UNCHANGED iter /\ Spoil(FALSE)
  <2>1. iter' = iter /\ (OverArray => (spoiled' <=> spoiled))
    BY <1>4 DEF Spoil
  <2>2. (OverRange => RangeIter) => (OverRange => RangeIter)'
    BY <2>1 DEF OverRange, Looping, RangeIter
  <2>3. ASSUME OverArray, Going PROVE Going'
    <3>1. /\ ArrayIter' /\ iter'.kind \in {"value", "key", "kv"}
          /\ iter'.m \in Nat /\ iter'.i \in 0 .. iter'.m
          /\ due' \in Seq(Elem) /\ Len(due') = iter'.m
      BY <1>2, <2>1, <2>3 DEF Going, ArrayIter
    <3>2. ASSUME Whole PROVE Whole'
      <4>1. iter.i \in 0 .. iter.m /\ iter.m \in Nat /\ iter.m <= count
        BY <2>3, <3>2 DEF Going, Whole
      <4>2. \A k \in iter.i .. iter.m - 1 : k \in 0 .. count - 1
        BY <1>2, <4>1
      <4>3. \A k \in iter'.i .. iter'.m - 1 : elem'[k] = due'[k + 1]
        BY <1>2, <1>3, <2>1, <3>2, <4>2 DEF Whole
      <4>4. met' = [k \in 1 .. iter'.i |-> Given(iter'.kind, k - 1, due'[k])]
        BY <1>2, <2>1, <3>2 DEF Whole
      <4> QED BY <1>2, <2>1, <3>2, <4>1, <4>3, <4>4 DEF Whole
    <3> QED BY <2>1, <2>3, <3>1, <3>2 DEF Going
  <2> QED BY <1>1, <2>1, <2>2, <2>3 DEF LInv, OverArray, Looping
<1>5. CASE OverArray /\ iter' = [iter EXCEPT !.live = FALSE] /\ Spoil(TRUE)
  <2>1. Going /\ spoiled'
    BY <1>5 DEF LInv, Spoil
  <2>2. iter' = [kind |-> iter.kind, i |-> iter.i, m |-> iter.m, idx |-> iter.idx,
                 live |-> FALSE]
    BY <1>5, <2>1 DEF Going, ArrayIter
  <2>3. iter'.kind = iter.kind /\ iter'.kind # "step" /\ ArrayIter'
        /\ iter'.i = iter.i /\ iter'.m = iter.m
    BY <1>5, <2>2 DEF OverArray, ArrayIter
  <2>4. Going'
    BY <1>2, <2>1, <2>3 DEF Going
  <2>5. ~OverRange'
    BY <2>3 DEF OverRange
  <2> QED BY <1>1, <2>4, <2>5 DEF LInv
<1> QED BY <1>4, <1>5 DEF Add, Grown

\* An insert and the end of a call of a function spoil the loop.
LEMMA SpoiledKeeps ==
    ASSUME LInv, AInv', Spoil(TRUE), UNCHANGED due,
           iter' = iter \/ (OverArray /\ iter' = [iter EXCEPT !.live = FALSE])
    PROVE  LInv'
<1>1. CASE iter' = iter
  <2>1. OverArray => spoiled' /\ Going
    BY DEF LInv, Spoil
  <2>2. OverArray' => Going'
    BY <1>1, <2>1 DEF OverArray, Looping, Going, ArrayIter
  <2>3. (OverRange => RangeIter)'
    BY <1>1 DEF LInv, OverRange, Looping, RangeIter
  <2> QED BY <2>2, <2>3 DEF LInv
<1>2. CASE OverArray /\ iter' = [iter EXCEPT !.live = FALSE]
  <2>1. Going /\ spoiled'
    BY <1>2 DEF LInv, Spoil
  <2>2. iter' = [kind |-> iter.kind, i |-> iter.i, m |-> iter.m, idx |-> iter.idx,
                 live |-> FALSE]
    BY <1>2, <2>1 DEF Going, ArrayIter
  <2>3. iter'.kind = iter.kind /\ iter'.kind # "step" /\ ArrayIter'
        /\ iter'.i = iter.i /\ iter'.m = iter.m
    BY <1>2, <2>2 DEF OverArray, ArrayIter
  <2>4. Going'
    BY <2>1, <2>3 DEF Going
  <2>5. ~OverRange'
    BY <2>3 DEF OverRange
  <2> QED BY <2>4, <2>5 DEF LInv
<1> QED BY <1>1, <1>2

\* An element overwritten ahead of the loop is met with its new value.
LEMMA SetKeeps ==
    ASSUME LInv, NEW i \in 0 .. count - 1, NEW v \in Val, Set(i, v)
    PROVE  LInv'
<1>1. AInv /\ AInv'
  BY SetOverwrites DEF LInv
<1>2. /\ count \in Nat /\ max \in Nat /\ count <= max
      /\ elem \in [0 .. max - 1 -> Val \cup {Nil, Junk}]
  BY <1>1 DEF AInv, TypeOK
<1>3. /\ count' = count /\ iter' = iter /\ met' = met /\ spoiled' = spoiled
      /\ elem' = [elem EXCEPT ![i] = v]
  BY DEF Set
<1>4. (OverRange => RangeIter)'
  BY <1>3 DEF LInv, OverRange, Looping, RangeIter
<1>5. ASSUME OverArray, Going PROVE Going'
  <2>1. /\ iter.m \in Nat /\ iter.i \in 0 .. iter.m /\ due \in Seq(Elem) /\ Len(due) = iter.m
        /\ DOMAIN due = 1 .. iter.m
    BY <1>5 DEF Going
  <2>2. due' = IF i >= iter.i /\ i + 1 \in 1 .. iter.m THEN [due EXCEPT ![i + 1] = v] ELSE due
    BY <1>5, <2>1 DEF Set
  <2>3. v \in Elem
    BY DEF Elem
  <2>4. due' \in Seq(Elem) /\ Len(due') = iter.m
    BY <2>1, <2>2, <2>3
  <2>5. \A k \in 1 .. iter.m :
            due'[k] = IF k = i + 1 /\ i >= iter.i THEN v ELSE due[k]
    BY <2>1, <2>2
  <2>6. ASSUME Whole PROVE Whole'
    <3>1. iter.m <= count
      BY <2>6 DEF Whole
    <3>2. \A k \in 1 .. iter.i : due'[k] = due[k]
      <4>1. \A k \in 1 .. iter.i : k \in 1 .. iter.m /\ ~(k = i + 1 /\ i >= iter.i)
        BY <2>1
      <4> QED BY <2>5, <4>1
    <3>3. met' = [k \in 1 .. iter.i |-> Given(iter.kind, k - 1, due'[k])]
      <4>1. met' = [k \in 1 .. iter.i |-> Given(iter.kind, k - 1, due[k])]
        BY <1>3, <2>6 DEF Whole
      <4> QED BY <3>2, <4>1
    <3>4. ASSUME NEW k \in iter.i .. iter.m - 1 PROVE elem'[k] = due'[k + 1]
      <4>1. k \in 0 .. max - 1 /\ k + 1 \in 1 .. iter.m /\ (k + 1 = i + 1 <=> k = i)
        BY <1>2, <2>1, <3>1
      <4>2. elem[k] = due[k + 1]
        BY <2>6 DEF Whole
      <4>3. CASE k = i
        <5>1. i >= iter.i
          BY <2>1, <4>3
        <5> QED BY <1>2, <1>3, <2>5, <4>1, <4>3, <5>1
      <4>4. CASE k # i
        BY <1>2, <1>3, <2>5, <4>1, <4>2, <4>4
      <4> QED BY <4>3, <4>4
    <3> QED BY <1>3, <2>6, <3>3, <3>4 DEF Whole
  <2> QED BY <1>3, <1>5, <2>4, <2>6 DEF Going, ArrayIter
<1> QED BY <1>1, <1>3, <1>4, <1>5 DEF LInv, OverArray, Looping

\* new_contain_iter.
LEMMA BeginArrayKeeps ==
    ASSUME LInv, NEW kind \in {"value", "key", "kv"}, BeginArray(kind)
    PROVE  LInv'
<1>1. AInv /\ AInv' /\ count' = count /\ elem' = elem
  BY LoopsLeaveTheArray DEF LInv, BeginArray, array
<1>2. /\ iter' = [kind |-> kind, i |-> 0, m |-> count, idx |-> 0, live |-> TRUE]
      /\ met' = <<>> /\ due' = Content /\ spoiled' = FALSE
  BY DEF BeginArray, EndOfArray
<1>3. Content \in Seq(Elem) /\ Len(Content) = count /\ count \in Nat
  BY <1>1, ContentIsSeq DEF AInv
<1>4. Whole'
  <2>1. \A k \in 0 .. count - 1 : elem[k] = Content[k + 1]
    <3>1. \A k \in 0 .. count - 1 : k + 1 \in 1 .. count /\ (k + 1) - 1 = k
      BY <1>3
    <3> QED BY <3>1 DEF Content
  <2>2. met' = [k \in 1 .. iter'.i |-> Given(iter'.kind, k - 1, due'[k])]
    BY <1>2
  <2> QED BY <1>1, <1>2, <1>3, <2>1, <2>2 DEF Whole
<1>5. Going'
  BY <1>2, <1>3, <1>4 DEF Going, ArrayIter
<1>6. ~OverRange'
  BY <1>2 DEF OverRange
<1> QED BY <1>1, <1>5, <1>6 DEF LInv

LEMMA LeftKeeps == ASSUME LInv, Left, UNCHANGED array PROVE LInv'
BY LoopsLeaveTheArray DEF LInv, Left, OverRange, OverArray, Looping

\* dyay_iter: what is given next is the next element there was.
LEMMA MeetElementKeeps == ASSUME LInv, MeetElement PROVE LInv'
<1>1. AInv /\ AInv' /\ count' = count /\ elem' = elem
  BY LoopsLeaveTheArray DEF LInv, MeetElement, array
<1>2. CASE Left
  BY <1>2, LeftKeeps DEF MeetElement
<1>3. ASSUME NEW v \in IF iter.live THEN {elem[iter.i]} ELSE Val \cup {Nil, Junk},
             met' = Append(met, Given(iter.kind, iter.idx, v)),
             iter' = [iter EXCEPT !.i = @ + 1,
                                  !.idx = IF iter.kind = "value" THEN @ ELSE @ + 1],
             UNCHANGED <<due, spoiled>>
      PROVE  LInv'
  <2>1. OverArray /\ Going /\ iter.i < iter.m
    BY DEF LInv, MeetElement
  <2>2. /\ iter' = [kind |-> iter.kind, i |-> iter.i + 1, m |-> iter.m,
                    idx |-> IF iter.kind = "value" THEN iter.idx ELSE iter.idx + 1,
                    live |-> iter.live]
        /\ due' = due /\ spoiled' = spoiled
    BY <1>3, <2>1 DEF Going, ArrayIter
  <2>3. /\ iter'.kind = iter.kind /\ iter'.i = iter.i + 1 /\ iter'.m = iter.m
        /\ iter'.live = iter.live /\ ArrayIter'
        /\ iter'.idx = IF iter.kind = "value" THEN iter.idx ELSE iter.idx + 1
    BY <2>2 DEF ArrayIter
  <2>4. /\ iter.kind \in {"value", "key", "kv"} /\ iter.m \in Nat /\ iter.i \in Nat
        /\ due \in Seq(Elem) /\ Len(due) = iter.m
    BY <2>1 DEF Going
  <2>5. ASSUME Whole PROVE Whole'
    <3>1. v = elem[iter.i] /\ elem[iter.i] = due[iter.i + 1]
      BY SMTT(60), <1>3, <2>1, <2>4, <2>5 DEF Whole
    <3>2. Given(iter.kind, iter.idx, v) = Given(iter.kind, iter.i, due[iter.i + 1])
      BY <2>4, <2>5, <3>1 DEF Whole, Given
    <3>3. met' = [k \in 1 .. iter.i + 1 |-> Given(iter.kind, k - 1, due[k])]
      <4> DEFINE given(k) == Given(iter.kind, k - 1, due[k])
      <4>1. met = [k \in 1 .. iter.i |-> given(k)]
        BY <2>5 DEF Whole
      <4>2. met' = Append(met, given(iter.i + 1))
        <5>1. (iter.i + 1) - 1 = iter.i
          BY <2>4
        <5> QED BY <1>3, <3>2, <5>1
      <4> HIDE DEF given
      <4>3. Append([k \in 1 .. iter.i |-> given(k)], given(iter.i + 1)) =
                [k \in 1 .. iter.i + 1 |-> given(k)]
        BY <2>4
      <4> QED BY <4>1, <4>2, <4>3 DEF given
    <3>4. \A k \in iter.i + 1 .. iter.m - 1 : elem'[k] = due[k + 1]
      BY <1>1, <2>4, <2>5 DEF Whole
    <3>5. iter.kind # "value" => iter'.idx = iter.i + 1
      BY <2>3, <2>5 DEF Whole
    <3> QED BY <1>1, <2>2, <2>3, <2>5, <3>3, <3>4, <3>5 DEF Whole
  <2>6. Going'
    BY <2>1, <2>2, <2>3, <2>4, <2>5 DEF Going
  <2>7. ~OverRange'
    BY <2>1, <2>3 DEF OverRange, OverArray
  <2> QED BY <1>1, <2>6, <2>7 DEF LInv
<1> QED BY <1>2, <1>3 DEF MeetElement

\* new_step_iter and step_iter.
LEMMA RangeKeeps ==
    ASSUME LInv, (\E i, m, s : BeginRange(i, m, s)) \/ MeetNumber
    PROVE  LInv'
<1>1. AInv'
  BY LoopsLeaveTheArray DEF LInv, BeginRange, MeetNumber, array
<1>2. iter'.kind = "step" /\ RangeIter'
  <2>1. CASE \E i, m, s : BeginRange(i, m, s)
    BY <2>1 DEF BeginRange, RangeIter
  <2>2. CASE MeetNumber
    <3>1. RangeIter /\ iter' = [iter EXCEPT !.i = Wrapped(iter.i + iter.s)]
      BY <2>2 DEF LInv, MeetNumber
    <3>2. iter' = [kind |-> "step", first |-> iter.first, i |-> Wrapped(iter.i + iter.s),
                   m |-> iter.m, s |-> iter.s]
      BY <3>1 DEF RangeIter
    <3> QED BY <3>2 DEF RangeIter
  <2> QED BY <2>1, <2>2
<1> QED BY <1>1, <1>2 DEF LInv, OverArray

LEMMA NextLInv == ASSUME LInv, [Next]_vars PROVE LInv'
<1>1. CASE UNCHANGED vars
  BY <1>1, LoopsLeaveTheArray DEF LInv, vars, array, OverArray, OverRange, Looping, Going,
     Whole, ArrayIter, RangeIter, Given
<1>2. ASSUME NEW v \in Val \cup {Nil}, AppendArg(v) \/ InsertLast(v) PROVE LInv'
  BY <1>2, AddKeeps DEF AppendArg, InsertLast, Elem
<1>3. ASSUME NEW i \in 0 .. count - 1, NEW v \in Val, Insert(i, v) PROVE LInv'
  BY <1>3, InsertInserts, SpoiledKeeps DEF LInv, Insert
<1>4. ASSUME NEW i \in 0 .. count - 1, NEW v \in Val, Set(i, v) PROVE LInv'
  BY <1>4, SetKeeps
<1>5. CASE Final
  BY <1>5, FinalClears, SpoiledKeeps DEF LInv, Final
<1>6. ASSUME NEW kind \in {"value", "key", "kv"}, BeginArray(kind) PROVE LInv'
  BY <1>6, BeginArrayKeeps
<1>7. CASE MeetElement
  BY <1>7, MeetElementKeeps
<1>8. CASE EndArray \/ EndRange \/ Break
  BY <1>8, LeftKeeps DEF EndArray, EndRange, Break
<1>9. CASE (\E i, m, s : BeginRange(i, m, s)) \/ MeetNumber
  BY <1>9, RangeKeeps
<1> QED BY <1>1, <1>2, <1>3, <1>4, <1>5, <1>6, <1>7, <1>8, <1>9 DEF Next

\* A loop that is not spoiled is given each element once and in order, whatever its body
\* appends and overwrites, for any length (dyay_iter).
THEOREM LoopsAreWhole == Spec => []LoopIsWhole
<1>1. Init => LInv
  BY InitLInv
<1>2. LInv /\ [Next]_vars => LInv'
  BY NextLInv
<1>3. LInv => LoopIsWhole
  BY LInvIsWhole
<1> QED BY <1>1, <1>2, <1>3, PTL DEF Spec

-----------------------------------------------------------------------------
(* Loops over numbers *)

\* A number of the range to which its step cannot be added.
Edge == \E n \in InRange : n + iter.s \notin Numbers

\* A loop away from the edge of the numbers has been given those up to the next.
Exact ==
    /\ iter.i = iter.first + Len(met) * iter.s
    /\ met = [k \in 1 .. Len(met) |-> iter.first + (k - 1) * iter.s]
    /\ ToSet(met) \subseteq InRange

Counting ==
    /\ iter.first \in Numbers /\ iter.i \in Numbers /\ iter.m \in Numbers
    /\ iter.s \in Int \ {0}
    /\ met \in Seq(Int)
    /\ Edge \/ Exact

NInv == LInv /\ (OverRange => Counting)

LEMMA NumbersAre ==
    /\ Half \in Nat /\ 2 * Half \in Nat /\ 2 * Half > 0
    /\ \A n : n \in Numbers <=> n \in Int /\ -Half <= n /\ n < Half
BY ArrayAssumption DEF ArrayAssumption, Numbers

\* A sum that stays in ymd_int_t is exact.
LEMMA WrappedIs ==
    ASSUME NEW n \in Int
    PROVE  Wrapped(n) \in Numbers /\ (n \in Numbers => Wrapped(n) = n)
<1>1. (n + Half) % (2 * Half) \in 0 .. 2 * Half - 1
  BY NumbersAre
<1>2. Wrapped(n) \in Numbers
  BY <1>1, NumbersAre DEF Wrapped
<1>3. ASSUME NEW a \in Nat, NEW b \in Nat, a < b PROVE a % b = a
  BY <1>3
<1>4. ASSUME n \in Numbers PROVE Wrapped(n) = n
  <2>1. n + Half \in Nat /\ n + Half < 2 * Half
    BY <1>4, NumbersAre
  <2>2. (n + Half) % (2 * Half) = n + Half
    BY <1>3, <2>1, NumbersAre
  <2> QED BY <2>2, NumbersAre DEF Wrapped
<1> QED BY <1>2, <1>4

\* The arithmetic of steps.
LEMMA Steps ==
    ASSUME NEW s \in Int \ {0}
    PROVE  /\ \A a \in Int : a * s \in Int /\ (a + 1) * s = a * s + s
           /\ \A a \in Int : a * s < 0 <=> (IF s > 0 THEN a < 0 ELSE a > 0)
           /\ \A a, b \in Int : a <= b =>
                 IF s > 0 THEN a * s <= b * s ELSE a * s >= b * s
<1>1. \A a \in Int : a * s \in Int /\ (a + 1) * s = a * s + s
  OBVIOUS
<1>2. \A a \in Int : a * s < 0 <=> (IF s > 0 THEN a < 0 ELSE a > 0)
  OBVIOUS
<1>3. \A a, b \in Int : a <= b => IF s > 0 THEN a * s <= b * s ELSE a * s >= b * s
  OBVIOUS
<1> QED BY <1>1, <1>2, <1>3

\* The end the code tests for is that of the range.
LEMMA WithinIs ==
    ASSUME OverRange, Counting, NEW n \in Int
    PROVE  (n - iter.m) * iter.s < 0 <=> Within(n)
<1>1. iter.m \in Int /\ iter.s \in Int \ {0}
  BY NumbersAre DEF Counting
<1>2. n - iter.m \in Int
  BY <1>1
<1>3. (n - iter.m) * iter.s < 0 <=> (IF iter.s > 0 THEN n - iter.m < 0 ELSE n - iter.m > 0)
  BY <1>1, <1>2, Steps
<1> QED BY <1>1, <1>3 DEF Within

\* A range with a step of one stays away from the edge.
LEMMA OneStays == ASSUME OverRange, Counting, iter.s \in {1, -1} PROVE ~Edge
<1> SUFFICES ASSUME NEW n \in InRange PROVE n + iter.s \in Numbers
  BY DEF Edge
<1>1. n \in Numbers /\ (n - iter.m) * iter.s < 0 /\ iter.m \in Numbers
  BY DEF InRange, Counting
<1>2. Within(n)
  BY <1>1, WithinIs, NumbersAre
<1> QED BY <1>1, <1>2, NumbersAre DEF Within

\* A loop that is over has been given all.
LEMMA EndsExact ==
    ASSUME OverRange, Counting, Exact, ~Within(iter.i)
    PROVE  ToSet(met) = InRange
<1> DEFINE f == iter.first
           s == iter.s
           l == Len(met)
<1>1. f \in Int /\ s \in Int \ {0} /\ iter.m \in Int /\ l \in Nat /\ iter.i = f + l * s
      /\ met = [k \in 1 .. l |-> f + (k - 1) * s]
  BY NumbersAre DEF Counting, Exact
<1>2. ASSUME NEW n \in InRange PROVE n \in ToSet(met)
  <2>1. PICK k \in 0 .. 2 * Half : n = f + k * s
    BY DEF InRange
  <2>2. n \in Int /\ Within(n) /\ k \in Int /\ k >= 0
    <3>1. n \in Int /\ (n - iter.m) * iter.s < 0 /\ k \in Int /\ k >= 0
      BY <1>2, NumbersAre DEF InRange
    <3> QED BY <3>1, WithinIs
  <2>3. k < l
    <3>1. SUFFICES ASSUME l <= k PROVE FALSE
      BY <1>1, <2>2
    <3>2. IF s > 0 THEN l * s <= k * s ELSE l * s >= k * s
      <4> HIDE DEF l, s
      <4> QED BY <1>1, <2>2, <3>1, Steps
    <3>3. l * s \in Int /\ k * s \in Int
      BY <1>1, <2>2, Steps
    <3>4. IF s > 0 THEN iter.i <= n ELSE iter.i >= n
      BY SMTT(60), <1>1, <2>1, <3>2, <3>3
    <3>5. iter.i \in Int
      BY <1>1, <3>3
    <3> QED BY <1>1, <2>2, <3>4, <3>5 DEF Within
  <2>4. k + 1 \in 1 .. l /\ (k + 1) - 1 = k
    BY <1>1, <2>2, <2>3
  <2>5. met[k + 1] = n
    BY <1>1, <2>1, <2>4
  <2> QED BY <2>4, <2>5 DEF ToSet
<1> QED BY <1>2 DEF Exact

LEMMA NInvIsExact == NInv => RangeIsExact
<1> SUFFICES ASSUME NInv, OverRange PROVE RangeIsExact
  BY DEF RangeIsExact
<1>1. Counting /\ (AtEdge <=> Edge)
  BY DEF NInv, AtEdge, Edge
<1> QED BY <1>1, OneStays, EndsExact DEF RangeIsExact, Counting, Exact

\* new_step_iter.
LEMMA BeginRangeCounts ==
    ASSUME NEW i \in Numbers, NEW m \in Numbers, NEW s \in Int, BeginRange(i, m, s)
    PROVE  Counting'
<1>1. iter' = [kind |-> "step", first |-> i, i |-> i, m |-> m, s |-> s] /\ met' = <<>> /\ s # 0
  BY DEF BeginRange
<1>2. iter'.first = i /\ iter'.i = i /\ iter'.m = m /\ iter'.s = s
  BY <1>1
<1>3. Exact'
  <2>1. Len(met') = 0 /\ i = i + 0 * s
    BY <1>1, NumbersAre
  <2>2. met' = [k \in 1 .. 0 |-> i + (k - 1) * s]
    BY <1>1
  <2>3. ToSet(met') = {}
    BY <1>1 DEF ToSet
  <2> QED BY <1>2, <2>1, <2>2, <2>3 DEF Exact
<1> QED BY <1>1, <1>2, <1>3 DEF Counting, Numbers

\* step_iter.
LEMMA MeetNumberCounts == ASSUME LInv, Counting, MeetNumber PROVE Counting'
<1> DEFINE f == iter.first
           s == iter.s
           i == iter.i
           l == Len(met)
<1>1. OverRange /\ RangeIter /\ Within(i) /\ l < 2 * Half /\ met' = Append(met, i)
      /\ iter' = [iter EXCEPT !.i = Wrapped(i + s)]
  BY DEF MeetNumber, LInv
<1>2. iter'.first = f /\ iter'.i = Wrapped(i + s) /\ iter'.m = iter.m /\ iter'.s = s
  BY <1>1 DEF RangeIter
<1>3. f \in Int /\ i \in Int /\ i \in Numbers /\ s \in Int \ {0} /\ iter.m \in Numbers
      /\ met \in Seq(Int) /\ l \in Nat /\ i + s \in Int
  BY NumbersAre DEF Counting
<1>4. Wrapped(i + s) \in Numbers /\ (i + s \in Numbers => Wrapped(i + s) = i + s)
  BY <1>3, WrappedIs
<1>5. InRange' = InRange
  BY <1>2 DEF InRange, Numbers
<1>6. Edge' = Edge
  BY <1>2, <1>5 DEF Edge, Numbers
<1>7. met' \in Seq(Int) /\ Len(met') = l + 1
      /\ met' = [k \in 1 .. l + 1 |-> IF k = l + 1 THEN i ELSE met[k]]
  BY <1>1, <1>3
<1>8. ASSUME ~Edge, Exact PROVE Exact'
  <2>1. i = f + l * s /\ met = [k \in 1 .. l |-> f + (k - 1) * s]
        /\ ToSet(met) \subseteq InRange
    BY <1>8 DEF Exact
  <2>2. i \in InRange
    <3>1. l \in 0 .. 2 * Half
      BY <1>1, <1>3, NumbersAre
    <3>2. (i - iter.m) * iter.s < 0
      BY <1>1, <1>3, WithinIs
    <3> QED BY <1>3, <2>1, <3>1, <3>2 DEF InRange
  <2>3. Wrapped(i + s) = i + s
    BY <1>4, <1>8, <2>2 DEF Edge
  <2>4. Wrapped(i + s) = f + (l + 1) * s
    <3>1. (l + 1) * s = l * s + s /\ l * s \in Int
      BY <1>3, Steps
    <3> QED BY SMTT(60), <1>3, <2>1, <2>3, <3>1
  <2>5. met' = [k \in 1 .. l + 1 |-> f + (k - 1) * s]
    <3>1. ASSUME NEW k \in 1 .. l + 1
          PROVE  (IF k = l + 1 THEN i ELSE met[k]) = f + (k - 1) * s
      <4>1. CASE k = l + 1
        <5>1. k - 1 = l
          BY <1>3, <4>1
        <5> QED BY <2>1, <4>1, <5>1
      <4>2. CASE k # l + 1
        <5>1. k \in 1 .. l
          BY <1>3, <4>2
        <5> QED BY <2>1, <4>2, <5>1
      <4> QED BY <4>1, <4>2
    <3> QED BY <1>7, <3>1
  <2>6. ToSet(met') \subseteq InRange
    <3>1. ASSUME NEW k \in 1 .. l + 1 PROVE met'[k] \in InRange
      <4>1. CASE k = l + 1
        BY <1>7, <2>2, <4>1
      <4>2. CASE k # l + 1
        <5>1. k \in 1 .. l /\ met'[k] = met[k]
          BY <1>3, <1>7, <4>2
        <5>2. met[k] \in ToSet(met)
          BY <5>1 DEF ToSet
        <5> QED BY <2>1, <5>1, <5>2
      <4> QED BY <4>1, <4>2
    <3>2. DOMAIN met' = 1 .. l + 1
      BY <1>7
    <3> QED BY <3>1, <3>2 DEF ToSet
  <2> QED BY <1>2, <1>5, <1>7, <2>4, <2>5, <2>6 DEF Exact
<1>9. (Edge \/ Exact)'
  BY <1>6, <1>8 DEF Counting
<1>10. /\ iter'.first \in Numbers /\ iter'.i \in Numbers /\ iter'.m \in Numbers
       /\ iter'.s \in Int \ {0}
  BY <1>2, <1>3, <1>4 DEF Counting
<1> QED BY <1>7, <1>9, <1>10 DEF Counting, Numbers

LEMMA NextNInv == ASSUME NInv, [Next]_vars PROVE NInv'
<1>1. LInv /\ LInv'
  BY NextLInv DEF NInv
<1>2. CASE \E i, m \in Numbers :
             BeginRange(i, m, RangeStep(i, m)) \/ \E s \in Numbers : BeginRange(i, m, s)
  <2>1. PICK i \in Numbers, m \in Numbers, s \in Int : BeginRange(i, m, s)
    BY <1>2, NumbersAre DEF RangeStep
  <2> QED BY <1>1, <2>1, BeginRangeCounts DEF NInv
<1>3. CASE MeetNumber
  BY <1>1, <1>3, MeetNumberCounts DEF NInv, MeetNumber
<1>4. ASSUME UNCHANGED <<iter, met>> PROVE NInv'
  <2>1. InRange' = InRange /\ Edge' = Edge
    BY <1>4 DEF InRange, Edge, Numbers
  <2>2. Exact' = Exact
    BY <1>4, <2>1 DEF Exact
  <2> QED BY <1>1, <1>4, <2>1, <2>2 DEF NInv, Counting, OverRange, Looping, Numbers
<1>5. ASSUME ~OverRange' PROVE NInv'
  BY <1>1, <1>5 DEF NInv
<1>6. ASSUME OverArray, iter' = [iter EXCEPT !.live = FALSE] PROVE ~OverRange'
  <2>1. iter'.kind = iter.kind
    BY <1>1, <1>6 DEF LInv, Going, ArrayIter
  <2> QED BY <1>6, <2>1 DEF OverArray, OverRange
<1>7. ASSUME NEW v \in Val \cup {Nil}, AppendArg(v) \/ InsertLast(v) PROVE NInv'
  BY <1>4, <1>5, <1>6, <1>7 DEF AppendArg, InsertLast, Add, Grown
<1>8. ASSUME NEW i, NEW v, Insert(i, v) \/ Set(i, v) PROVE NInv'
  BY <1>4, <1>5, <1>6, <1>8 DEF Insert, Set
<1>9. CASE Final
  BY <1>4, <1>5, <1>6, <1>9 DEF Final
<1>10. ASSUME NEW kind \in {"value", "key", "kv"}, BeginArray(kind) PROVE NInv'
  <2>1. iter'.kind = kind
    BY <1>10 DEF BeginArray
  <2> QED BY <1>5, <1>10, <2>1 DEF OverRange
<1>11. CASE MeetElement \/ EndArray \/ EndRange \/ Break
  <2>1. ASSUME ~Left, MeetElement PROVE ~OverRange'
    <3>1. OverArray /\ ArrayIter
      BY <1>1, <2>1 DEF MeetElement, LInv, Going
    <3>2. iter'.kind = iter.kind
      BY <2>1, <3>1 DEF MeetElement, ArrayIter
    <3> QED BY <3>1, <3>2 DEF OverArray, OverRange
  <2>2. Left => ~OverRange'
    BY DEF Left, OverRange, Looping
  <2> QED BY <1>5, <1>11, <2>1, <2>2 DEF EndArray, EndRange, Break
<1>12. CASE UNCHANGED vars
  BY <1>4, <1>12 DEF vars
<1> QED BY <1>2, <1>3, <1>7, <1>8, <1>9, <1>10, <1>11, <1>12 DEF Next

\* A loop over numbers is given those of its range and no other, in order, for any width
\* of ymd_int_t: unless the step after the last leaves it, which a step of one never does
\* (step_iter).
THEOREM RangesAreExact == Spec => []RangeIsExact
<1>1. Init => NInv
  BY InitLInv DEF Init, NInv, OverRange, Looping
<1>2. NInv /\ [Next]_vars => NInv'
  BY NextNInv
<1> QED BY <1>1, <1>2, NInvIsExact, PTL DEF Spec

-----------------------------------------------------------------------------
(* The unit tests: numbers and sets *)

(* A set of naturals has a least element: of the intervals 0 .. y that end in one of its *)
(* elements, all parts of the finite 0 .. m, one has no strict part among them.          *)
LEMMA LeastExists ==
    ASSUME NEW S \in SUBSET Nat, S # {}
    PROVE  \E x \in S : \A y \in S : x <= y
<1>1. PICK m \in S : TRUE
  OBVIOUS
<1> DEFINE N == 0 .. m
           T == {C \in SUBSET N : \E y \in S : C = 0 .. y}
<1>2. PICK C \in T : \A D \in T : ~ (<<D, C>> \in StrictSubsetOrdering(N))
  <2>1. IsFiniteSet(N)
    BY FS_Interval
  <2>2. FiniteSubsetsOf(N) = SUBSET N
    BY <2>1, FS_FiniteSubsetsOfFinite
  <2>3. T \subseteq FiniteSubsetsOf(N) /\ 0 .. m \in T
    BY <2>2
  <2> HIDE DEF T, N
  <2> QED BY <2>3, FS_StrictSubsetOrderingWellFounded, WFMin
<1>3. PICK x \in S : C = 0 .. x
  OBVIOUS
<1>4. ASSUME NEW y \in S, y < x PROVE FALSE
  <2>1. x \in Nat /\ y \in Nat
    OBVIOUS
  <2>2. x \in C /\ x \notin 0 .. y /\ 0 .. y \subseteq C
    BY <1>3, <1>4, <2>1
  <2> QED BY <1>2, <2>2 DEF StrictSubsetOrdering
<1>5. \A y \in S : x \in Nat /\ y \in Nat
  OBVIOUS
<1> QED BY <1>4, <1>5

LEMMA MinIsLeast ==
    ASSUME NEW S \in SUBSET Nat, S # {}
    PROVE  Min(S) \in S /\ \A y \in S : Min(S) <= y
BY LeastExists DEF Min

AllSteps == {"start", "main", "walk", "init", "setup", "unit", "teardown", "final", "done",
             "stopped"}
Testing == {"init", "setup", "unit", "teardown", "final"}

\* Scripts run for ymd_main or for a suite, never between two suites; and yut_test has
\* called setjmp before it calls anything of its suite.
IInv ==
    /\ step \in AllSteps
    /\ step \in {"start", "main"} => promised = None
    /\ step \in {"start", "walk"} => calls = <<>>
    /\ step \in Testing => at \in Suite /\ cookie = at
    /\ StopsForCause

LEMMA InitIInv == TestInit => IInv
BY DEF TestInit, IInv, AllSteps, Testing, StopsForCause

LEMMA NextIInv == ASSUME IInv, [TestNext]_testVars PROVE IInv'
<1> USE DEF IInv, AllSteps, Testing, StopsForCause
<1>0. None \notin Suite
  BY TestAssumption DEF TestAssumption
<1>1. CASE UNCHANGED testVars
  BY <1>1 DEF testVars, importVars, tableVars, walkVars, suiteVars, endVars
<1>2. ASSUME NEW c \in OnDisk, Start(c) PROVE IInv'
  BY <1>2 DEF Start, Exits, Stops, importVars, tableVars, suiteVars
<1>3. CASE Return
  BY <1>3 DEF Return, Running, walkVars, suiteVars, endVars, tableVars
<1>4. CASE Panic
  BY <1>4 DEF Panic, Panics, Running, Caught, Exits, suiteVars, tableVars
<1>5. CASE Eval
  BY <1>5 DEF Eval, Running, walkVars, suiteVars, endVars, tableVars, importVars
<1>6. CASE Raise
  BY <1>6, <1>0 DEF Raise, Running, GivesUp, Exits, Stops, suiteVars, tableVars
<1>7. CASE Replace
  BY <1>7 DEF Replace, Running, walkVars, endVars, tableVars, importVars
<1>8. ASSUME NEW n \in 1 .. MaxCalls, Throw(n) PROVE IInv'
  BY <1>8 DEF Throw, Running, Unwound, Caught, Exits, suiteVars, tableVars
<1>9. ASSUME NEW f \in File, NEW c \in OnDisk, NEW args \in BOOLEAN, Import(f, c, args)
      PROVE IInv'
  BY <1>9 DEF Import, Running, Panics, Caught, Exits, suiteVars, tableVars
<1>10. ASSUME NEW g \in Suite \cup {None}, NEW c \in Contents, Define(g, c) PROVE IInv'
  <2>1. step' = step /\ calls' = calls /\ promised' = promised /\ at' = at /\ cookie' = cookie
    BY <1>10 DEF Define, endVars
  <2>2. step # "stopped"
    BY <1>10 DEF Define, Running
  <2> QED BY <2>1, <2>2
<1>11. ASSUME NEW t \in Test, AddTest(t) PROVE IInv'
  BY <1>11 DEF AddTest, Running, walkVars, endVars, importVars
<1>12. CASE MainEnds
  BY <1>12 DEF MainEnds, Waiting, importVars, tableVars, suiteVars
<1>13. ASSUME NEW g \in Suite, BeginSuite(g) PROVE IInv'
  BY <1>13 DEF BeginSuite, Waiting, SetJump, importVars, tableVars, endVars
<1>14. ASSUME NEW g \in Suite, SkipSuite(g) PROVE IInv'
  BY <1>14 DEF SkipSuite, Waiting, importVars, tableVars, suiteVars, endVars
<1>15. CASE NextCase
  BY <1>15, <1>0 DEF NextCase, Waiting, Stops, importVars, tableVars, suiteVars
<1>16. CASE CaseGoesOn("setup", "unit") \/ CaseGoesOn("unit", "teardown")
  BY <1>16 DEF CaseGoesOn, Waiting, importVars, tableVars, suiteVars, endVars
<1>17. CASE LastCase
  BY <1>17 DEF LastCase, Waiting, importVars, tableVars, suiteVars, endVars
<1>18. CASE EndSuite
  BY <1>18 DEF EndSuite, Waiting, importVars, tableVars, endVars
<1>19. CASE Done
  BY <1>19 DEF Done, Waiting, Exits, importVars, tableVars, suiteVars
<1>20. CASE Astray
  BY <1>20 DEF Astray, Stops, importVars, tableVars, suiteVars
<1> QED
  BY <1>1, <1>2, <1>3, <1>4, <1>5, <1>6, <1>7, <1>8, <1>9, <1>10, <1>11, <1>12, <1>13,
     <1>14, <1>15, <1>16, <1>17, <1>18, <1>19, <1>20 DEF TestNext

\* libtest.c, yut_raise and yut_test: for any files, suites and tests, the only stops are
\* those StopsForCause names, and none of them is the jump of an assertion in a suite.
THEOREM RaisesLand == TestSpec => []StopsForCause
<1>1. IInv => StopsForCause
  BY DEF IInv
<1> QED
  BY InitIInv, NextIInv, <1>1, PTL DEF TestSpec

-----------------------------------------------------------------------------
(* Imports *)

LEMMA InitImported == TestInit => ImportedOnce
<1>1. <<>> \in Seq(Code) /\ ToSet(<<>>) = {}
  BY DEF ToSet
<1> QED
  BY <1>1 DEF TestInit, ImportedOnce, TestTypeOK

\* Calls that are neither added nor gone.
LEMMA SameCalls == ASSUME ImportedOnce, calls' = calls, UNCHANGED importVars
                   PROVE  ImportedOnce'
BY DEF ImportedOnce, TestTypeOK, importVars

\* The harness calls something when nothing runs.
LEMMA IdleCalls ==
    ASSUME ImportedOnce, calls = <<>>, UNCHANGED importVars,
           NEW e \in Code \ File, calls' = <<e>>
    PROVE  ImportedOnce'
<1>1. ToSet(calls) = {} /\ ToSet(calls') = {e}
  BY DEF ToSet
<1>2. calls' \in Seq(Code) /\ DOMAIN calls' = {1}
  OBVIOUS
<1> QED
  BY <1>1, <1>2 DEF ImportedOnce, TestTypeOK, importVars

\* A panic leaves no call, and no import under way.
LEMMA PanicEmpties ==
    ASSUME ImportedOnce, NEW marked, NEW fates, Panics(marked, fates),
           reached \subseteq marked, marked \subseteq File,
           fates \in [File -> {"none", "running", "over"}],
           \A f \in File : fates[f] # "none" <=> f \in marked,
           \A f \in File : fates[f] = "running" => fate[f] = "running"
    PROVE  ImportedOnce'
<1>1. /\ calls' = <<>> /\ reached' = marked
      /\ fate' = [f \in File |-> IF f \in ToSet(calls) THEN "over" ELSE fates[f]]
  BY DEF Panics
<1>2. ToSet(calls') = {} /\ calls' \in Seq(Code) /\ DOMAIN calls' = {}
  BY <1>1 DEF ToSet
<1>3. ASSUME NEW f \in File
      PROVE  fate'[f] \in {"none", "over"} /\ (fate'[f] # "none" <=> f \in reached')
  <2>1. f \in ToSet(calls) => f \in marked
    BY DEF ImportedOnce
  <2>2. f \notin ToSet(calls) => fates[f] # "running"
    BY DEF ImportedOnce
  <2> QED BY <1>1, <2>1, <2>2
<1>4. fate' \in [File -> {"none", "running", "over"}]
  BY <1>1
<1> QED
  BY <1>1, <1>2, <1>3, <1>4 DEF ImportedOnce, TestTypeOK

\* What is left of the calls when the innermost n are gone.
LEMMA CallsLeft ==
    ASSUME ImportedOnce, NEW n \in 1 .. Len(calls)
    PROVE  LET rest == SubSeq(calls, 1, Len(calls) - n)
               gone == SubSeq(calls, Len(calls) - n + 1, Len(calls))
           IN  /\ rest \in Seq(Code)
               /\ \A f \in File :
                     f \in ToSet(rest) <=> f \in ToSet(calls) /\ f \notin ToSet(gone)
               /\ \A i, j \in DOMAIN rest : rest[i] \in File /\ rest[i] = rest[j] => i = j
<1> DEFINE rest == SubSeq(calls, 1, Len(calls) - n)
           gone == SubSeq(calls, Len(calls) - n + 1, Len(calls))
<1>1. calls \in Seq(Code)
  BY DEF ImportedOnce, TestTypeOK
<1>2. /\ rest \in Seq(Code) /\ Len(rest) = Len(calls) - n
      /\ \A i \in 1 .. Len(calls) - n : rest[i] = calls[i]
  BY <1>1
<1>3. /\ gone \in Seq(Code) /\ Len(gone) = n
      /\ \A i \in 1 .. n : gone[i] = calls[Len(calls) - n + i]
  BY <1>1
<1> HIDE DEF rest, gone
<1>4. DOMAIN rest = 1 .. Len(calls) - n /\ DOMAIN gone = 1 .. n
      /\ DOMAIN calls = 1 .. Len(calls)
  BY <1>1, <1>2, <1>3
<1>5. \A i, j \in 1 .. Len(calls) : calls[i] \in File /\ calls[i] = calls[j] => i = j
  BY <1>4 DEF ImportedOnce
<1>6. ASSUME NEW i \in DOMAIN rest, NEW j \in DOMAIN rest, rest[i] \in File, rest[i] = rest[j]
      PROVE  i = j
  <2>1. i \in 1 .. Len(calls) - n /\ j \in 1 .. Len(calls) - n
    BY <1>4
  <2>2. /\ i \in 1 .. Len(calls) /\ rest[i] = calls[i]
        /\ j \in 1 .. Len(calls) /\ rest[j] = calls[j]
    BY SMTT(60), <1>1, <1>2, <2>1
  <2> QED BY <1>5, <1>6, <2>2
<1>7. ASSUME NEW f \in File
      PROVE  f \in ToSet(rest) <=> f \in ToSet(calls) /\ f \notin ToSet(gone)
  <2>1. ASSUME f \in ToSet(rest) PROVE f \in ToSet(calls) /\ f \notin ToSet(gone)
    <3>1. PICK i \in 1 .. Len(calls) - n : rest[i] = f
      BY <2>1, <1>4 DEF ToSet
    <3>2. i \in 1 .. Len(calls) /\ calls[i] = f
      BY <3>1, <1>1, <1>2
    <3>3. ASSUME NEW j \in 1 .. n, gone[j] = f PROVE FALSE
      <4>1. Len(calls) - n + j \in 1 .. Len(calls) /\ calls[Len(calls) - n + j] = f
        BY <3>3, <1>1, <1>3
      <4>2. i = Len(calls) - n + j
        BY <4>1, <3>2, <1>5
      <4> QED BY <4>2, <3>1, <1>1
    <3> QED BY <3>2, <3>3, <1>4 DEF ToSet
  <2>2. ASSUME f \in ToSet(calls), f \notin ToSet(gone) PROVE f \in ToSet(rest)
    <3>1. PICK i \in 1 .. Len(calls) : calls[i] = f
      BY <2>2, <1>4 DEF ToSet
    <3>2. CASE i <= Len(calls) - n
      <4>1. i \in 1 .. Len(calls) - n
        BY <3>1, <3>2, <1>1
      <4>2. i \in DOMAIN rest /\ rest[i] = f
        BY <4>1, <3>1, <1>2, <1>4
      <4> QED BY <4>2 DEF ToSet
    <3>3. CASE i > Len(calls) - n
      <4> DEFINE j == i - (Len(calls) - n)
      <4>1. j \in 1 .. n /\ Len(calls) - n + j = i
        BY <3>1, <3>3, <1>1
      <4>2. gone[j] = f
        BY <4>1, <3>1, <1>3
      <4> HIDE DEF j
      <4> QED BY <4>1, <4>2, <2>2, <1>4 DEF ToSet
    <3> QED BY <3>1, <3>2, <3>3, <1>1
  <2> QED BY <2>1, <2>2
<1> QED BY <1>2, <1>6, <1>7 DEF rest, gone

\* The innermost calls are gone, and the imports among them over.
LEMMA UnwindDrops ==
    ASSUME ImportedOnce, NEW n \in 1 .. Len(calls), Unwound(n), reached' = reached
    PROVE  ImportedOnce'
<1> DEFINE rest == SubSeq(calls, 1, Len(calls) - n)
           gone == SubSeq(calls, Len(calls) - n + 1, Len(calls))
<1>1. /\ calls' = rest
      /\ fate' = [f \in File |-> IF f \in ToSet(gone) THEN "over" ELSE fate[f]]
  BY DEF Unwound
<1>2. /\ calls' \in Seq(Code)
      /\ \A f \in File : f \in ToSet(calls') <=> f \in ToSet(calls) /\ f \notin ToSet(gone)
      /\ \A i, j \in DOMAIN calls' : calls'[i] \in File /\ calls'[i] = calls'[j] => i = j
  <2>1. /\ rest \in Seq(Code)
        /\ \A f \in File : f \in ToSet(rest) <=> f \in ToSet(calls) /\ f \notin ToSet(gone)
        /\ \A i, j \in DOMAIN rest : rest[i] \in File /\ rest[i] = rest[j] => i = j
    BY CallsLeft
  <2> HIDE DEF rest, gone
  <2> QED BY <1>1, <2>1
<1>3. ToSet(gone) \subseteq ToSet(calls)
  <2>1. calls \in Seq(Code)
    BY DEF ImportedOnce, TestTypeOK
  <2>2. ASSUME NEW j \in DOMAIN gone PROVE gone[j] \in ToSet(calls)
    <3>1. j \in 1 .. n /\ gone[j] = calls[Len(calls) - n + j]
      BY <2>1
    <3>2. Len(calls) - n + j \in DOMAIN calls
      BY <3>1, <2>1
    <3> QED BY <3>1, <3>2 DEF ToSet
  <2> QED BY <2>2 DEF ToSet
<1> HIDE DEF rest, gone
<1>4. ASSUME NEW f \in File
      PROVE  /\ fate'[f] # "none" <=> f \in reached'
             /\ fate'[f] = "running" <=> f \in ToSet(calls')
  BY <1>1, <1>2, <1>3 DEF ImportedOnce
<1>5. fate' \in [File -> {"none", "running", "over"}]
  BY <1>1 DEF ImportedOnce, TestTypeOK
<1> QED
  BY <1>2, <1>4, <1>5 DEF ImportedOnce, TestTypeOK

\* A call is added: of something that is no file, or of a file not reached before.
LEMMA CallAdded ==
    ASSUME ImportedOnce, NEW e \in Code, calls' = Append(calls, e),
           e \in File => e \notin reached
    PROVE  /\ calls' \in Seq(Code) /\ ToSet(calls') = ToSet(calls) \cup {e}
           /\ \A i, j \in DOMAIN calls' :
                 calls'[i] \in File /\ calls'[i] = calls'[j] => i = j
<1>1. calls \in Seq(Code)
  BY DEF ImportedOnce, TestTypeOK
<1>2. /\ calls' \in Seq(Code) /\ Len(calls') = Len(calls) + 1
      /\ calls'[Len(calls) + 1] = e
      /\ \A i \in 1 .. Len(calls) : calls'[i] = calls[i]
  BY <1>1
<1>3. DOMAIN calls' = 1 .. Len(calls) + 1 /\ DOMAIN calls = 1 .. Len(calls)
      /\ Len(calls) \in Nat
  BY <1>1, <1>2
<1>4. ToSet(calls') = ToSet(calls) \cup {e}
  BY <1>2, <1>3 DEF ToSet
<1>5. e \in File => \A i \in 1 .. Len(calls) : calls[i] # e
  BY <1>3 DEF ImportedOnce, ToSet
<1>6. \A i, j \in 1 .. Len(calls) : calls[i] \in File /\ calls[i] = calls[j] => i = j
  BY <1>3 DEF ImportedOnce
<1>7. ASSUME NEW i \in 1 .. Len(calls) + 1, NEW j \in 1 .. Len(calls) + 1,
             calls'[i] \in File, calls'[i] = calls'[j]
      PROVE  i = j
  BY <1>2, <1>3, <1>5, <1>6, <1>7
<1> QED BY <1>2, <1>3, <1>4, <1>7

LEMMA ImportKeeps ==
    ASSUME ImportedOnce, NEW f \in File, NEW c \in OnDisk, NEW args \in BOOLEAN,
           Import(f, c, args)
    PROVE  ImportedOnce'
<1>0. "other" \in Code /\ "other" \notin File /\ f \in Code
  BY TestAssumption DEF TestAssumption, Code
<1>1. f \notin reached /\ fate[f] = "none" /\ f \notin ToSet(calls)
  BY DEF Import, ImportedOnce, TestTypeOK
<1>2. fate \in [File -> {"none", "running", "over"}] /\ reached \subseteq File
      /\ \A h \in File : fate[h] # "none" <=> h \in reached
  BY DEF ImportedOnce, TestTypeOK
<1>3. CASE calls' = Append(calls, f) /\ reached' = Reached(f)
           /\ fate' = [fate EXCEPT ![f] = "running"]
  <2>1. /\ calls' \in Seq(Code) /\ ToSet(calls') = ToSet(calls) \cup {f}
        /\ \A i, j \in DOMAIN calls' : calls'[i] \in File /\ calls'[i] = calls'[j] => i = j
    BY <1>0, <1>1, <1>3, CallAdded
  <2>2. ASSUME NEW h \in File
        PROVE  /\ fate'[h] # "none" <=> h \in reached'
               /\ fate'[h] = "running" <=> h \in ToSet(calls')
    BY <1>1, <1>2, <1>3, <2>1 DEF ImportedOnce, Reached
  <2> QED BY <1>2, <1>3, <2>1, <2>2 DEF ImportedOnce, TestTypeOK, Reached
<1>4. CASE calls' = Append(calls, "other") /\ reached' = Reached(f)
           /\ fate' = [fate EXCEPT ![f] = "over"]
  <2>1. /\ calls' \in Seq(Code) /\ ToSet(calls') = ToSet(calls) \cup {"other"}
        /\ \A i, j \in DOMAIN calls' : calls'[i] \in File /\ calls'[i] = calls'[j] => i = j
    BY <1>0, <1>4, CallAdded
  <2>2. ASSUME NEW h \in File
        PROVE  /\ fate'[h] # "none" <=> h \in reached'
               /\ fate'[h] = "running" <=> h \in ToSet(calls')
    BY <1>0, <1>1, <1>2, <1>4, <2>1 DEF ImportedOnce, Reached
  <2> QED BY <1>2, <1>4, <2>1, <2>2 DEF ImportedOnce, TestTypeOK, Reached
<1>5. CASE Panics(Reached(f), [fate EXCEPT ![f] = "over"])
  <2> DEFINE marked == Reached(f)
             fates == [fate EXCEPT ![f] = "over"]
  <2>1. reached \subseteq marked /\ marked \subseteq File
    BY <1>2 DEF Reached
  <2>2. fates \in [File -> {"none", "running", "over"}]
    BY <1>2
  <2>3. \A h \in File : fates[h] # "none" <=> h \in marked
    BY <1>2 DEF Reached
  <2>4. \A h \in File : fates[h] = "running" => fate[h] = "running"
    BY <1>2
  <2>5. Panics(marked, fates)
    BY <1>5
  <2> HIDE DEF marked, fates
  <2> QED BY <2>1, <2>2, <2>3, <2>4, <2>5, PanicEmpties
<1> QED
  BY <1>3, <1>4, <1>5 DEF Import

LEMMA NextImported == ASSUME ImportedOnce, IInv, [TestNext]_testVars PROVE ImportedOnce'
<1>0. {"main", "other", "test"} \subseteq Code \ File
  BY TestAssumption DEF TestAssumption, Code
<1>1. CASE UNCHANGED testVars
  BY <1>1, SameCalls DEF testVars
<1>2. ASSUME NEW c \in OnDisk, Start(c) PROVE ImportedOnce'
  <2>1. calls = <<>> /\ UNCHANGED importVars
    BY <1>2 DEF Start, IInv
  <2>2. CASE calls' = calls
    BY <2>1, <2>2, SameCalls
  <2>3. CASE calls' = <<"main">>
    BY <2>1, <2>3, <1>0, IdleCalls
  <2> QED BY <1>2, <2>2, <2>3 DEF Start
<1>3. CASE Return
  <2>1. calls # <<>> /\ calls \in Seq(Code)
    BY <1>3 DEF Return, Running, ImportedOnce, TestTypeOK
  <2>2. /\ 1 \in 1 .. Len(calls) /\ Front(calls) = SubSeq(calls, 1, Len(calls) - 1)
        /\ ToSet(SubSeq(calls, Len(calls) - 1 + 1, Len(calls))) = {Top}
    <3>1. Len(calls) \in Nat /\ Len(calls) >= 1 /\ Len(calls) - 1 + 1 = Len(calls)
      BY <2>1
    <3>2. Front(calls) = SubSeq(calls, 1, Len(calls) - 1) /\ Top = calls[Len(calls)]
      BY DEF Front, Top, Last
    <3> DEFINE gone == SubSeq(calls, Len(calls), Len(calls))
    <3>3. gone \in Seq(Code) /\ Len(gone) = 1 /\ gone[1] = calls[Len(calls)]
      BY <2>1, <3>1
    <3> HIDE DEF gone
    <3>4. DOMAIN gone = {1}
      BY <3>3
    <3>5. ToSet(gone) = {Top}
      BY <3>2, <3>3, <3>4 DEF ToSet
    <3> QED BY <3>1, <3>2, <3>5 DEF gone
  <2>4. fate \in [File -> {"none", "running", "over"}]
    BY DEF ImportedOnce, TestTypeOK
  <2>5. fate' = [f \in File |-> IF f \in {Top} THEN "over" ELSE fate[f]]
    BY <1>3, <2>4 DEF Return
  <2>6. Unwound(1) /\ reached' = reached
    BY <1>3, <2>2, <2>5 DEF Return, Unwound
  <2> QED BY <2>2, <2>6, UnwindDrops
<1>4. CASE Panic
  <2>1. Panics(reached, fate)
    BY <1>4 DEF Panic
  <2> QED BY <2>1, PanicEmpties DEF ImportedOnce, TestTypeOK
<1>5. CASE Eval
  <2>1. calls' = Append(calls, "other") /\ UNCHANGED importVars
    BY <1>5 DEF Eval
  <2>2. /\ calls' \in Seq(Code) /\ ToSet(calls') = ToSet(calls) \cup {"other"}
        /\ \A i, j \in DOMAIN calls' : calls'[i] \in File /\ calls'[i] = calls'[j] => i = j
    BY <2>1, <1>0, CallAdded
  <2> QED BY <2>1, <2>2, <1>0 DEF ImportedOnce, TestTypeOK, importVars
<1>6. CASE Raise
  <2>1. /\ calls' = <<>> /\ reached' = reached
        /\ fate' = [f \in File |-> IF f \in ToSet(calls) THEN "over" ELSE fate[f]]
    BY <1>6 DEF Raise, GivesUp
  <2>2. ToSet(calls') = {} /\ calls' \in Seq(Code) /\ DOMAIN calls' = {}
    BY <2>1 DEF ToSet
  <2>3. ASSUME NEW f \in File
        PROVE  fate'[f] \in {"none", "over"} /\ (fate'[f] # "none" <=> f \in reached')
    BY <2>1 DEF ImportedOnce, TestTypeOK
  <2>4. fate' \in [File -> {"none", "running", "over"}]
    BY <2>1 DEF ImportedOnce, TestTypeOK
  <2> QED BY <2>1, <2>2, <2>3, <2>4 DEF ImportedOnce, TestTypeOK
<1>7. CASE Replace
  BY <1>7, SameCalls DEF Replace
<1>8. ASSUME NEW n \in 1 .. MaxCalls, Throw(n) PROVE ImportedOnce'
  BY <1>8, UnwindDrops DEF Throw
<1>9. ASSUME NEW f \in File, NEW c \in OnDisk, NEW args \in BOOLEAN, Import(f, c, args)
      PROVE ImportedOnce'
  BY <1>9, ImportKeeps
<1>10. ASSUME NEW g \in Suite \cup {None}, NEW c \in Contents, Define(g, c)
       PROVE ImportedOnce'
  BY <1>10, SameCalls DEF Define
<1>11. ASSUME NEW t \in Test, AddTest(t) PROVE ImportedOnce'
  BY <1>11, SameCalls DEF AddTest
<1>12. ASSUME NEW m, NEW t, NEW has, Calls(m, t, has), calls = <<>>, UNCHANGED importVars
       PROVE ImportedOnce'
  <2>1. CASE calls' = calls
    BY <1>12, <2>1, SameCalls
  <2>2. CASE calls' = <<"test">>
    BY <1>12, <2>2, <1>0, IdleCalls
  <2> QED BY <1>12, <2>1, <2>2 DEF Calls
<1>13. ASSUME NEW g \in Suite, BeginSuite(g) PROVE ImportedOnce'
  BY <1>13, <1>12 DEF BeginSuite, Waiting
<1>14. ASSUME NEW g \in Suite, SkipSuite(g) PROVE ImportedOnce'
  BY <1>14, SameCalls DEF SkipSuite
<1>15. CASE NextCase
  <2>1. calls = <<>> /\ UNCHANGED importVars
    BY <1>15 DEF NextCase, Waiting
  <2>2. calls' = calls \/ Calls("setup", node', cur.has)
    BY <1>15 DEF NextCase
  <2> QED BY <2>1, <2>2, <1>12, SameCalls
<1>16. CASE CaseGoesOn("setup", "unit") \/ CaseGoesOn("unit", "teardown")
  BY <1>16, <1>12 DEF CaseGoesOn, Waiting
<1>17. CASE LastCase
  BY <1>17, <1>12 DEF LastCase, Waiting
<1>18. CASE MainEnds \/ EndSuite \/ Done \/ Astray
  BY <1>18, SameCalls DEF MainEnds, EndSuite, Done, Astray
<1> QED
  BY <1>1, <1>2, <1>3, <1>4, <1>5, <1>6, <1>7, <1>8, <1>9, <1>10, <1>11, <1>13, <1>14,
     <1>15, <1>16, <1>17, <1>18 DEF TestNext

\* libc.c, libx_import: whatever files import each other and whatever fails or is thrown
\* on the way, a file is on the call stack at most once and was marked before.
THEOREM FilesRunOnce == TestSpec => []ImportedOnce
BY InitIInv, NextIInv, InitImported, NextImported, PTL DEF TestSpec

-----------------------------------------------------------------------------
(* The result *)

Never(s, g) == \A k \in DOMAIN s : s[k] # g
Once(s, g) == \E j \in DOMAIN s : s[j] = g /\ \A k \in DOMAIN s : s[k] = g => k = j

\* A suite is before the harness, at hand, or behind it, once.
Tracked(g) ==
    \/ g \in todo /\ at # g /\ Never(visited, g)
    \/ g \notin todo /\ at = g /\ Never(visited, g)
    \/ g \notin todo /\ at # g /\ Once(visited, g)

\* No suite there was after the main script goes unseen as long as entries stay where
\* they are; the harness is at none between two, and goes on only if nothing failed.
RInv ==
    /\ table \in [Suite -> Contained \cup {None}] /\ visited \in Seq(Suite)
    /\ \A g \in todo : g \in Suite /\ table[g] # None
    /\ step \in {"start", "main"} => visited = <<>>
    /\ step \in Testing => cur \in Contained
    /\ step \in {"start", "main", "walk"} => at = None
    /\ step \notin {"done", "stopped"} => ~raised
    /\ step \in {"walk"} \cup Testing /\ shifted = "no" =>
          \A g \in promised : g \in Suite /\ table[g] # None /\ Tracked(g)
    /\ ResultTells

LEMMA OnceIsOne ==
    ASSUME NEW s \in Seq(Suite), NEW g, Once(s, g)
    PROVE  Cardinality({j \in DOMAIN s : s[j] = g}) = 1
<1>1. PICK j \in DOMAIN s : s[j] = g /\ \A k \in DOMAIN s : s[k] = g => k = j
  BY DEF Once
<1>2. {k \in DOMAIN s : s[k] = g} = {j}
  BY <1>1
<1> QED BY <1>2, FS_Singleton

LEMMA Looked ==
    ASSUME NEW s \in Seq(Suite), NEW h \in Suite, NEW g
    PROVE  /\ Never(s, g) /\ h # g => Never(Append(s, h), g)
           /\ Never(s, g) /\ h = g => Once(Append(s, h), g)
           /\ Once(s, g) /\ h # g => Once(Append(s, h), g)
<1> DEFINE r == Append(s, h)
<1>1. /\ DOMAIN s = 1 .. Len(s) /\ DOMAIN r = 1 .. Len(s) + 1 /\ Len(s) \in Nat
      /\ r[Len(s) + 1] = h /\ \A k \in 1 .. Len(s) : r[k] = s[k]
  OBVIOUS
<1> HIDE DEF r
<1>2. \A k \in DOMAIN r : k \in DOMAIN s \/ k = Len(s) + 1
  BY <1>1
<1>3. Never(s, g) /\ h # g => Never(r, g)
  BY <1>1, <1>2 DEF Never
<1>4. Never(s, g) /\ h = g => Once(r, g)
  <2>1. Len(s) + 1 \in DOMAIN r
    BY <1>1
  <2> QED BY <1>1, <1>2, <2>1 DEF Never, Once
<1>5. ASSUME Once(s, g), h # g PROVE Once(r, g)
  <2>1. PICK j \in DOMAIN s : s[j] = g /\ \A k \in DOMAIN s : s[k] = g => k = j
    BY <1>5 DEF Once
  <2>2. j \in DOMAIN r /\ r[j] = g
    BY <1>1, <2>1
  <2>3. \A k \in DOMAIN r : r[k] = g => k = j
    BY <1>1, <1>2, <1>5, <2>1
  <2> QED BY <2>2, <2>3 DEF Once
<1> QED BY <1>3, <1>4, <1>5 DEF r

LEMMA InitRInv == TestInit => RInv
BY DEF TestInit, RInv, Testing, ResultTells

\* What the harness has before it and behind it stays the same.
LEMMA SameWalk ==
    ASSUME RInv, UNCHANGED <<tableVars, todo, at, visited, cur, promised, raised>>,
           step' \in {step, "stopped"}, step' \in {"done"} => result' = result
    PROVE  RInv'
BY DEF RInv, tableVars, Testing, Tracked, ResultTells

\* The harness goes on with the suite it is at.
LEMMA SameSuite ==
    ASSUME RInv, step \in Testing,
           UNCHANGED <<tableVars, todo, at, visited, cur, promised, raised>>, step' \in Testing
    PROVE  RInv'
BY DEF RInv, tableVars, Testing, Tracked, ResultTells

LEMMA CaughtR ==
    ASSUME RInv, IInv, Caught,
           UNCHANGED <<tableVars, todo, at, visited, cur, promised, raised>>
    PROVE  RInv'
<1>1. CASE step = "main"
  BY <1>1 DEF Caught, Exits, RInv, IInv, tableVars, Testing, ResultTells
<1>2. CASE step # "main"
  BY <1>2, SameWalk DEF Caught
<1> QED BY <1>1, <1>2

LEMMA DefineR ==
    ASSUME RInv, IInv, NEW h \in Suite \cup {None}, NEW c \in Contents, Define(h, c)
    PROVE  RInv'
<1>0. None \notin Suite /\ c \in Contained /\ c # None
  BY TestAssumption DEF TestAssumption
<1>1. /\ step \in {"main"} \cup Testing
      /\ step' = step /\ at' = at /\ cur' = cur /\ visited' = visited
      /\ UNCHANGED endVars
  BY DEF Define, Running, IInv, AllSteps, Testing
<1>2. /\ table' \in [Suite -> Contained \cup {None}]
      /\ \A g \in Suite : table[g] # None => table'[g] # None
  BY <1>0 DEF Define, RInv
<1>3. ASSUME step \in Testing, shifted' = "no", NEW g \in promised
      PROVE  g \in Suite /\ table'[g] # None /\ Tracked(g)'
  <2>1. shifted = "no"
    BY <1>3 DEF Define, Placed
  <2>2. g \in Suite /\ table[g] # None /\ Tracked(g)
    BY <2>1, <1>3 DEF RInv
  <2>3. todo' \in {todo, todo \cup ({h} \cap Suite)} /\ (g = h => todo' = todo)
    BY <1>3, <2>2 DEF Define, Placed, Testing
  <2>4. g \in todo' <=> g \in todo
    BY <2>3
  <2>5. visited' = visited /\ at' = at
    BY <1>1
  <2> QED BY <1>2, <2>2, <2>4, <2>5 DEF Tracked
<1>4. \A g \in todo' : g \in Suite /\ table'[g] # None
  <2>1. h \in Suite => table'[h] # None
    BY <1>0 DEF Define, RInv
  <2>2. \A g \in todo' : g \in todo \/ g = h \/ (g \in Suite /\ table[g] # None)
    BY DEF Define, Placed
  <2>3. \A g \in todo' : g \in Suite
    BY <1>1 DEF Define, Placed, RInv
  <2> QED BY <1>2, <2>1, <2>2, <2>3 DEF RInv
<1>5. step' \notin {"walk", "done"} /\ UNCHANGED <<promised, raised>>
  BY <1>1 DEF Testing, endVars
<1> QED
  BY <1>1, <1>2, <1>3, <1>4, <1>5 DEF RInv, Testing, ResultTells

LEMMA NextRInv == ASSUME RInv, IInv, [TestNext]_testVars PROVE RInv'
<1>0. None \notin Suite /\ None \notin Contained
  BY TestAssumption DEF TestAssumption
<1>1. CASE UNCHANGED testVars
  BY <1>1, SameWalk DEF testVars, tableVars, walkVars, suiteVars, endVars
<1>2. ASSUME NEW c \in OnDisk, Start(c) PROVE RInv'
  BY <1>2 DEF Start, Exits, Stops, tableVars, suiteVars, RInv, IInv, Testing, ResultTells
<1>3. CASE Return \/ Eval
  BY <1>3, SameWalk DEF Return, Eval, walkVars, suiteVars, endVars
<1>4. CASE Panic
  BY <1>4, CaughtR DEF Panic, Panics, suiteVars
<1>5. CASE Raise
  <2>0. /\ step \in {"main"} \cup Testing
        /\ UNCHANGED <<tableVars, todo, at, visited, suiteVars, promised>>
    BY <1>5 DEF Raise, Running, IInv, AllSteps, Testing
  <2>1. CASE at # None /\ cookie = at
    <3>1. raised' = TRUE /\ step' = "done" /\ result' = -1
      BY <1>5, <2>1 DEF Raise, GivesUp, Exits
    <3> QED BY <2>0, <3>1 DEF RInv, Testing, ResultTells, suiteVars, tableVars
  <2>2. CASE ~(at # None /\ cookie = at)
    <3>1. raised' = raised /\ step' = "stopped"
      BY <1>5, <2>2 DEF Raise, Stops
    <3> QED BY <2>0, <3>1, SameWalk DEF suiteVars
  <2> QED BY <2>1, <2>2
<1>6. CASE Replace
  BY <1>6, SameWalk DEF Replace, walkVars, endVars
<1>7. ASSUME NEW n \in 1 .. MaxCalls, Throw(n) PROVE RInv'
  <2>1. UNCHANGED <<tableVars, todo, at, visited, cur, promised, raised>>
    BY <1>7 DEF Throw, suiteVars
  <2>2. Caught \/ UNCHANGED <<step, result>>
    BY <1>7 DEF Throw
  <2> QED BY <2>1, <2>2, CaughtR, SameWalk
<1>8. ASSUME NEW f \in File, NEW c \in OnDisk, NEW args \in BOOLEAN, Import(f, c, args)
      PROVE RInv'
  <2>1. UNCHANGED <<tableVars, todo, at, visited, cur, promised, raised>>
    BY <1>8 DEF Import, suiteVars
  <2>2. Caught \/ UNCHANGED <<step, result>>
    BY <1>8 DEF Import, Panics
  <2> QED BY <2>1, <2>2, CaughtR, SameWalk
<1>9. ASSUME NEW g \in Suite \cup {None}, NEW c \in Contents, Define(g, c) PROVE RInv'
  BY <1>9, DefineR
<1>10. ASSUME NEW t \in Test, AddTest(t) PROVE RInv'
  <2>1. step \in Testing /\ at \in Suite /\ cur \in Contained
    BY <1>10 DEF AddTest, Running, IInv, RInv, AllSteps, Testing
  <2>2. cur' = [cur EXCEPT !.tests = @ \cup {t}] /\ cur' \in Contained
    BY <1>10, <2>1 DEF AddTest, Contained
  <2>3. /\ table' = [table EXCEPT ![at] = cur']
        /\ UNCHANGED <<step, todo, at, visited, shifted, promised, raised>>
    BY <1>10 DEF AddTest, walkVars, endVars
  <2>4. table' \in [Suite -> Contained \cup {None}]
        /\ \A g \in Suite : table[g] # None => table'[g] # None
    BY <1>0, <2>2, <2>3 DEF RInv
  <2>5. \A g : Tracked(g)' <=> Tracked(g)
    BY <2>3 DEF Tracked
  <2> QED BY <2>1, <2>2, <2>3, <2>4, <2>5 DEF RInv, Testing, ResultTells
<1>11. CASE MainEnds
  <2>1. /\ step = "main" /\ step' = "walk" /\ todo' = {g \in Suite : table[g] # None}
        /\ promised' = todo' /\ UNCHANGED <<table, at, cur, visited, raised>>
    BY <1>11 DEF MainEnds, Waiting, tableVars, suiteVars
  <2>2. at = None /\ visited = <<>>
    BY <2>1 DEF RInv
  <2>3. \A g \in promised' : g \in Suite /\ table'[g] # None /\ Tracked(g)'
    BY <1>0, <2>1, <2>2 DEF Tracked, Never
  <2>4. \A g \in todo' : g \in Suite /\ table'[g] # None
    BY <2>1
  <2> QED BY <2>1, <2>2, <2>3, <2>4 DEF RInv, Testing, ResultTells
<1>12. ASSUME NEW g \in Suite, BeginSuite(g) PROVE RInv'
  <2>1. /\ step = "walk" /\ step' = "init" /\ g \in todo /\ todo' = todo \ {g}
        /\ at' = g /\ cur' = table[g] /\ cur'.type = "skls"
        /\ UNCHANGED <<table, shifted, visited, promised, raised>>
    BY <1>12 DEF BeginSuite, Waiting, tableVars, endVars
  <2>2. ASSUME shifted = "no", NEW h \in promised
        PROVE  h \in Suite /\ table[h] # None /\ Tracked(h)'
    <3>1. h \in Suite /\ table[h] # None /\ Tracked(h) /\ at = None
      BY <2>1, <2>2 DEF RInv
    <3> QED BY <1>0, <2>1, <3>1 DEF Tracked
  <2>3. cur' \in Contained
    <3>1. cur' \in Contained \cup {None}
      BY <2>1 DEF RInv
    <3>2. cur' # None
      BY <2>1 DEF RInv
    <3> QED BY <3>1, <3>2
  <2> QED BY <2>1, <2>2, <2>3 DEF RInv, Testing, ResultTells
<1>13. ASSUME NEW g \in Suite, SkipSuite(g) PROVE RInv'
  <2>1. /\ step = "walk" /\ step' = step /\ g \in todo /\ todo' = todo \ {g}
        /\ visited' = Append(visited, g)
        /\ UNCHANGED <<table, shifted, at, cur, promised, raised>>
    BY <1>13 DEF SkipSuite, Waiting, tableVars, suiteVars, endVars
  <2>2. visited \in Seq(Suite) /\ visited' \in Seq(Suite)
    BY <2>1 DEF RInv
  <2>3. ASSUME shifted = "no", NEW h \in promised
        PROVE  h \in Suite /\ table[h] # None /\ Tracked(h)'
    <3>1. h \in Suite /\ table[h] # None /\ Tracked(h) /\ at = None
      BY <2>1, <2>3 DEF RInv
    <3> QED BY <1>0, <2>1, <2>2, <3>1, Looked DEF Tracked
  <2> QED BY <2>1, <2>2, <2>3 DEF RInv, Testing, ResultTells
<1>14. CASE NextCase
  <2>1. /\ step \in Testing /\ step' \in Testing \cup {"stopped"}
        /\ UNCHANGED <<tableVars, todo, at, visited, cur, promised, raised>>
    BY <1>14 DEF NextCase, Waiting, Stops, suiteVars, Testing
  <2> QED BY <2>1, SameSuite, SameWalk DEF Testing
<1>15. CASE CaseGoesOn("setup", "unit") \/ CaseGoesOn("unit", "teardown")
  BY <1>15, SameSuite DEF CaseGoesOn, Waiting, suiteVars, endVars, Testing
<1>16. CASE LastCase
  BY <1>16, SameSuite DEF LastCase, Waiting, suiteVars, endVars, Testing
<1>17. CASE EndSuite
  <2>1. /\ step = "final" /\ step' = "walk" /\ at' = None /\ visited' = Append(visited, at)
        /\ UNCHANGED <<table, shifted, todo, promised, raised>>
    BY <1>17 DEF EndSuite, Waiting, tableVars, endVars
  <2>2. at \in Suite /\ visited \in Seq(Suite) /\ visited' \in Seq(Suite)
    BY <2>1 DEF RInv, IInv, Testing
  <2>3. ASSUME shifted = "no", NEW h \in promised
        PROVE  h \in Suite /\ table[h] # None /\ Tracked(h)'
    <3>1. h \in Suite /\ table[h] # None /\ Tracked(h)
      BY <2>1, <2>3 DEF RInv, Testing
    <3> QED BY <1>0, <2>1, <2>2, <3>1, Looked DEF Tracked
  <2>4. \A g \in todo' : g \in Suite /\ table'[g] # None
    BY <2>1 DEF RInv
  <2> QED BY <2>1, <2>2, <2>3, <2>4 DEF RInv, Testing, ResultTells
<1>18. CASE Done
  <2>1. /\ step = "walk" /\ todo = {} /\ step' = "done" /\ result' = 0
        /\ UNCHANGED <<todo, table, shifted, at, cur, visited, promised, raised>>
    BY <1>18 DEF Done, Waiting, Exits, tableVars, suiteVars
  <2>2. ~raised /\ at = None /\ visited \in Seq(Suite)
    BY <2>1 DEF RInv
  <2>3. ASSUME shifted = "no", NEW h \in promised
        PROVE  Cardinality({j \in DOMAIN visited' : visited'[j] = h}) = 1
    <3>1. h \in Suite /\ Tracked(h)
      BY <2>1, <2>3 DEF RInv
    <3>2. Once(visited, h) /\ visited' = visited
      BY <1>0, <2>1, <2>2, <3>1 DEF Tracked
    <3>3. Cardinality({j \in DOMAIN visited : visited[j] = h}) = 1
      BY <2>2, <3>2, OnceIsOne
    <3> QED BY <3>2, <3>3
  <2>4. ResultTells'
    BY <2>1, <2>2, <2>3 DEF ResultTells
  <2> QED BY <2>1, <2>4 DEF RInv, Testing
<1>19. CASE Astray
  BY <1>19, SameWalk DEF Astray, Stops, suiteVars
<1> QED
  BY <1>1, <1>2, <1>3, <1>4, <1>5, <1>6, <1>7, <1>8, <1>9, <1>10, <1>11, <1>12, <1>13,
     <1>14, <1>15, <1>16, <1>17, <1>18, <1>19 DEF TestNext

\* libtest.c, ymd_test: for any suites, however scripts change them and whatever fails,
\* the result of the program says what has happened, and no suite is left out or tested
\* twice while the entries of the table stay where they are.
THEOREM ResultIsTrue == TestSpec => []ResultTells
<1>1. RInv => ResultTells
  BY DEF RInv
<1> QED
  BY InitIInv, NextIInv, InitRInv, NextRInv, <1>1, PTL DEF TestSpec

-----------------------------------------------------------------------------
(* The order of the cases *)

Stages == {"setup", "unit", "teardown"}

\* What the loop of yut_test is at, and what it has called when it is there.
Now == <<step, IF step = "final" THEN 0 ELSE node>>
Past(w, d) == {c \in w : Before(c, d) \/ c = d}
Increasing(l) == \A i, j \in DOMAIN l : i < j => Before(l[i], l[j])

\* While nothing the harness holds is gone, it has called what comes before the place
\* it is at, in order; the tests it will come to are those owed after that place.
OInv ==
    /\ step \in {"start", "main", "walk"} => log = <<>>
    /\ step \in Testing /\ ~loose =>
          /\ owed \subseteq Test /\ node \in Nat
          /\ step = "init" => node = 0
          /\ step \in Stages => node \in owed
          /\ step # "final" => {t \in owed : t > node} = After
          /\ log \in Seq(Wanted) /\ ToSet(log) = Past(Wanted, Now) /\ Increasing(log)

\* A method is called, or not there: the log goes on as far as it.
LEMMA LogGrows ==
    ASSUME NEW w, NEW l \in Seq(w), Increasing(l), NEW d,
           \A c : c \in ToSet(l) <=> c \in w /\ Before(c, d),
           NEW r, r = IF d \in w THEN Append(l, d) ELSE l
    PROVE  r \in Seq(w) /\ ToSet(r) = Past(w, d) /\ Increasing(r)
<1>1. CASE d \notin w
  BY <1>1 DEF Past
<1>2. CASE d \in w
  <2>1. /\ r \in Seq(w) /\ DOMAIN r = 1 .. Len(l) + 1 /\ DOMAIN l = 1 .. Len(l)
        /\ Len(l) \in Nat /\ r[Len(l) + 1] = d /\ \A k \in 1 .. Len(l) : r[k] = l[k]
    BY <1>2
  <2>2. ToSet(r) = ToSet(l) \cup {d}
    BY <2>1 DEF ToSet
  <2>3. \A k \in 1 .. Len(l) : Before(l[k], d)
    BY <2>1 DEF ToSet
  <2>4. ASSUME NEW i \in 1 .. Len(l) + 1, NEW j \in 1 .. Len(l) + 1, i < j
        PROVE  Before(r[i], r[j])
    <3>1. i \in 1 .. Len(l) /\ r[i] = l[i]
      BY <2>1, <2>4
    <3>2. CASE j \in 1 .. Len(l)
      BY <2>1, <2>4, <3>1, <3>2 DEF Increasing
    <3>3. CASE j = Len(l) + 1
      BY <2>1, <2>3, <3>1, <3>3
    <3> QED BY <2>1, <3>2, <3>3
  <2>5. Increasing(r)
    BY <2>1, <2>4 DEF Increasing
  <2> QED BY <1>2, <2>1, <2>2, <2>5 DEF Past
<1> QED BY <1>1, <1>2

LEMMA InitOInv == TestInit => OInv
BY DEF TestInit, OInv, Testing

\* Nothing the loop looks at has changed, or it is over.
LEMMA SameLoop ==
    ASSUME OInv, UNCHANGED <<cur, node, log, owed>>, step' \in {step, "done", "stopped"},
           loose' \in {loose, TRUE}
    PROVE  OInv'
<1>1. step' \in {"start", "main", "walk"} => log' = <<>>
  BY DEF OInv
<1>2. CASE step' \notin Testing
  BY <1>1, <1>2 DEF OInv
<1>3. CASE loose' = TRUE
  BY <1>1, <1>3 DEF OInv
<1>4. CASE step' \in Testing /\ loose' = loose
  <2>1. step' = step
    BY <1>4 DEF Testing
  <2>2. Now' = Now /\ Wanted' = Wanted /\ After' = After
    BY <2>1 DEF Now, Wanted, After
  <2>3. Past(Wanted, Now)' = Past(Wanted, Now) /\ Increasing(log)' = Increasing(log)
    BY <2>2 DEF Past, Increasing
  <2> QED BY <1>1, <1>4, <2>1, <2>2, <2>3 DEF OInv
<1> QED BY <1>2, <1>3, <1>4

\* The loop goes on to a stage of a test, or to the end.
LEMMA LoopGoesOn ==
    ASSUME OInv, step \in Testing, ~loose, UNCHANGED <<cur, owed, loose>>,
           NEW m \in Stages \cup {"final"}, NEW t, step' = m, node' \in Nat,
           t = (IF m = "final" THEN 0 ELSE node'), Calls(m, t, cur.has),
           m \in Stages => node' \in owed /\ {u \in owed : u > node'} = After',
           \A c \in Wanted : Before(c, <<m, t>>) <=> Before(c, Now) \/ c = Now
    PROVE  OInv'
<1> DEFINE d == <<m, t>>
<1>1. d \in Wanted <=> m = "unit" \/ m \in cur.has
  BY DEF Wanted, Stages
<1>2. log' = IF d \in Wanted THEN Append(log, d) ELSE log
  BY <1>1 DEF Calls
<1>3. log \in Seq(Wanted) /\ Increasing(log) /\ ToSet(log) = Past(Wanted, Now)
  BY DEF OInv
<1>4. \A c : c \in ToSet(log) <=> c \in Wanted /\ Before(c, d)
  BY <1>3 DEF Past
<1>5. log' \in Seq(Wanted) /\ Increasing(log') /\ ToSet(log') = Past(Wanted, d)
  <2> DEFINE w == Wanted
  <2>1. /\ log \in Seq(w) /\ Increasing(log)
        /\ \A c : c \in ToSet(log) <=> c \in w /\ Before(c, d)
        /\ log' = IF d \in w THEN Append(log, d) ELSE log
    BY <1>2, <1>3, <1>4
  <2>2. log' \in Seq(w) /\ ToSet(log') = Past(w, d) /\ Increasing(log')
    <3> HIDE DEF d, w
    <3> QED BY <2>1, LogGrows
  <2> QED BY <2>2
<1>6. Wanted' = Wanted /\ Now' = d
  BY DEF Wanted, Now, Stages
<1>7. owed \subseteq Test
  BY DEF OInv
<1> HIDE DEF d
<1>8. step' \notin {"start", "main", "walk", "init"} /\ (step' \in Stages <=> m \in Stages)
      /\ (step' # "final" <=> m \in Stages)
  BY DEF Stages
<1>9. Past(Wanted, Now)' = Past(Wanted, d) /\ Increasing(log)' = Increasing(log')
  BY <1>6 DEF Past, Increasing
<1> QED
  BY <1>5, <1>6, <1>7, <1>8, <1>9 DEF OInv

\* Entries of the log: which methods are called, and with which tests.
LEMMA WantedAre ==
    ASSUME NEW c \in Wanted
    PROVE  \/ c = <<"init", 0>> \/ c = <<"final", 0>>
           \/ \E s \in Stages, t \in owed : c = <<s, t>>
BY DEF Wanted, Stages

LEMMA NextCaseO == ASSUME OInv, RInv, NextCase PROVE OInv'
<1>1. CASE cur.odd /\ step = "init"
  BY <1>1, SameLoop DEF NextCase, Stops, suiteVars
<1>2. CASE ~(cur.odd /\ step = "init")
  <2>1. /\ step \in {"init", "teardown"} /\ ~loose /\ After # {} /\ node' = Min(After)
        /\ step' = "setup" /\ Calls("setup", node', cur.has) /\ UNCHANGED suiteVars
    BY <1>2 DEF NextCase, Waiting
  <2>2. /\ owed \subseteq Test /\ node \in Nat /\ {t \in owed : t > node} = After
        /\ step = "init" => node = 0
        /\ step = "teardown" => node \in owed
    BY <2>1 DEF OInv, Testing, Stages
  <2>3. Test \subseteq Nat \ {0}
    BY TestAssumption DEF TestAssumption
  <2>4. node' \in After /\ \A t \in After : node' <= t
    <3>1. After \in SUBSET Nat
      BY <2>2, <2>3
    <3> HIDE DEF After
    <3> QED BY <2>1, <3>1, MinIsLeast
  <2>5. node' \in owed /\ node' \in Nat /\ node' > node
    BY <2>2, <2>3, <2>4
  <2>6. \A t \in owed : t \in Nat \ {0} /\ (t <= node \/ t >= node')
    BY <2>2, <2>3, <2>4
  <2>7. cur.tests \subseteq Nat
    BY <2>1, <2>3 DEF RInv, Testing, Contained
  <2>8. {t \in owed : t > node'} = After'
    <3>1. ASSUME NEW t PROVE t \in owed /\ t > node' <=> t \in cur.tests /\ t > node'
      <4>1. t \in cur.tests /\ t > node <=> t \in owed /\ t > node
        BY <2>2 DEF After
      <4>2. CASE t \in owed
        BY <2>2, <2>5, <2>6, <4>1, <4>2
      <4>3. CASE t \in cur.tests /\ t > node'
        <5>1. t \in Nat
          BY <2>7, <4>3
        <5> QED BY <2>2, <2>5, <4>1, <4>3, <5>1
      <4> QED BY <4>2, <4>3
    <3>2. cur' = cur
      BY <2>1 DEF suiteVars
    <3> QED BY <3>1, <3>2 DEF After
  <2>9. ASSUME NEW c \in Wanted
        PROVE  Before(c, <<"setup", node'>>) <=> Before(c, Now) \/ c = Now
    <3>1. Now = <<step, node>>
      BY <2>1 DEF Now
    <3>2. CASE c = <<"init", 0>>
      BY <2>1, <2>2, <3>1, <3>2 DEF Before
    <3>3. CASE c = <<"final", 0>>
      BY <2>1, <3>1, <3>3 DEF Before
    <3>4. ASSUME NEW s \in Stages, NEW t \in owed, c = <<s, t>>
          PROVE  Before(c, <<"setup", node'>>) <=> Before(c, Now) \/ c = Now
      <4>1. t \in Nat \ {0} /\ (t <= node \/ t >= node')
        BY <2>6
      <4>2. Before(c, <<"setup", node'>>) <=> t < node'
        BY <2>5, <3>4, <4>1 DEF Before, Stages
      <4>3. CASE step = "init"
        BY <2>2, <2>5, <3>1, <3>4, <4>1, <4>2, <4>3 DEF Before, Stages
      <4>4. CASE step = "teardown"
        <5>1. Before(c, Now) \/ c = Now <=> t <= node
          BY <2>2, <3>1, <3>4, <4>1, <4>4 DEF Before, Stages
        <5> QED BY <2>2, <2>5, <4>1, <4>2, <5>1
      <4> QED BY <2>1, <4>3, <4>4
    <3> QED BY <3>2, <3>3, <3>4, WantedAre
  <2> QED BY <2>1, <2>5, <2>8, <2>9, LoopGoesOn DEF Stages, Testing, suiteVars
<1> QED BY <1>1, <1>2

LEMMA CaseGoesOnO ==
    ASSUME OInv, NEW s, NEW next, CaseGoesOn(s, next),
           <<s, next>> \in {<<"setup", "unit">>, <<"unit", "teardown">>}
    PROVE  OInv'
<1>1. /\ step = s /\ step' = next /\ ~loose /\ Calls(next, node, cur.has)
      /\ UNCHANGED <<node, cur, owed, loose>> /\ s \in Stages /\ next \in Stages
  BY DEF CaseGoesOn, Waiting, suiteVars, Stages
<1>2. /\ owed \subseteq Test /\ node \in owed /\ Test \subseteq Nat
     /\ {t \in owed : t > node} = After
  BY <1>1, TestAssumption DEF OInv, Testing, Stages, TestAssumption
<1>3. node \in Nat /\ After' = After
  BY <1>1, <1>2 DEF After
<1>4. ASSUME NEW c \in Wanted
      PROVE  Before(c, <<next, node>>) <=> Before(c, Now) \/ c = Now
  <2>1. Now = <<s, node>>
    BY <1>1 DEF Now, Stages
  <2>2. CASE c = <<"init", 0>>
    BY <1>1, <2>1, <2>2 DEF Before, Stages
  <2>3. CASE c = <<"final", 0>>
    BY <1>1, <2>1, <2>3 DEF Before, Stages
  <2>4. ASSUME NEW r \in Stages, NEW t \in owed, c = <<r, t>>
        PROVE  Before(c, <<next, node>>) <=> Before(c, Now) \/ c = Now
    <3>1. t \in Nat
      BY <1>2
    <3> QED BY <1>3, <2>1, <2>4, <3>1 DEF Before, Stages
  <2> QED BY <2>2, <2>3, <2>4, WantedAre
<1> QED
  BY <1>1, <1>2, <1>3, <1>4, LoopGoesOn DEF Stages, Testing

LEMMA LastCaseO == ASSUME OInv, LastCase PROVE OInv'
<1>1. /\ step \in {"init", "teardown"} /\ step' = "final" /\ ~loose /\ After = {}
      /\ Calls("final", 0, cur.has) /\ UNCHANGED <<node, cur, owed, loose>>
  BY DEF LastCase, Waiting, suiteVars
<1>2. /\ owed \subseteq Test /\ node \in Nat /\ {t \in owed : t > node} = After
      /\ step = "init" => node = 0
      /\ Test \subseteq Nat \ {0}
  BY <1>1, TestAssumption DEF OInv, Testing, Stages, TestAssumption
<1>3. ASSUME NEW c \in Wanted
      PROVE  Before(c, <<"final", 0>>) <=> Before(c, Now) \/ c = Now
  <2>1. Now = <<step, node>>
    BY <1>1 DEF Now
  <2>2. CASE c = <<"init", 0>>
    BY <1>1, <1>2, <2>1, <2>2 DEF Before
  <2>3. CASE c = <<"final", 0>>
    BY <1>1, <2>1, <2>3 DEF Before
  <2>4. ASSUME NEW r \in Stages, NEW t \in owed, c = <<r, t>>
        PROVE  Before(c, <<"final", 0>>) <=> Before(c, Now) \/ c = Now
    <3>1. t \in Nat \ {0} /\ t <= node
      BY <1>1, <1>2
    <3> QED BY <1>1, <1>2, <2>1, <2>4, <3>1 DEF Before, Stages
  <2> QED BY <2>2, <2>3, <2>4, WantedAre
<1> QED
  BY <1>1, <1>2, <1>3, LoopGoesOn DEF Stages, Testing

LEMMA BeginSuiteO ==
    ASSUME OInv, RInv, NEW g \in Suite, BeginSuite(g)
    PROVE  OInv'
<1>1. /\ step = "walk" /\ step' = "init" /\ ~loose /\ node' = 0 /\ cur' = table[g]
      /\ owed' = cur'.tests /\ loose' = loose /\ Calls("init", 0, cur'.has)
  BY DEF BeginSuite, Waiting
<1>2. log = <<>>
  BY <1>1 DEF OInv
<1>3. cur' \in Contained
  BY DEF BeginSuite, RInv
<1>4. owed' \subseteq Test /\ Test \subseteq Nat \ {0}
  BY <1>1, <1>3, TestAssumption DEF Contained, TestAssumption
<1> DEFINE d == <<"init", 0>>
           w == Wanted'
<1>5. d \in w <=> "init" \in cur'.has
  BY DEF Wanted
<1>6. \A c \in w : ~Before(c, d)
  BY DEF Before
<1>7. <<>> \in Seq(w) /\ Increasing(<<>>) 
      /\ \A c : c \in ToSet(<<>>) <=> c \in w /\ Before(c, d)
  BY <1>6 DEF Increasing, ToSet
<1>8. log' = IF d \in w THEN Append(<<>>, d) ELSE <<>>
  BY <1>1, <1>2, <1>5 DEF Calls
<1>9. log' \in Seq(w) /\ ToSet(log') = Past(w, d) /\ Increasing(log')
  <2> HIDE DEF d, w
  <2> QED BY <1>7, <1>8, LogGrows
<1>10. Now' = d
  BY <1>1 DEF Now
<1>11. {t \in owed' : t > node'} = After'
  BY <1>1 DEF After
<1>12. Past(Wanted, Now)' = Past(w, d) /\ Increasing(log)' = Increasing(log')
  BY <1>10 DEF Past, Increasing
<1> HIDE DEF d
<1> QED
  BY <1>1, <1>4, <1>9, <1>10, <1>11, <1>12 DEF OInv, Stages

\* A test is added: none the loop has called, or only those, are among the wanted.
LEMMA AddTestO ==
    ASSUME OInv, IInv, RInv, NEW t \in Test, AddTest(t)
    PROVE  OInv'
<1>1. /\ step \in Testing /\ ~loose /\ UNCHANGED <<step, node, log, loose>>
      /\ cur' = [cur EXCEPT !.tests = @ \cup {t}]
      /\ owed' = IF t > node /\ step # "final" THEN owed \cup {t} ELSE owed
  BY DEF AddTest, walkVars, RInv, Testing, Running, AllSteps, IInv
<1>2. /\ owed \subseteq Test /\ node \in Nat /\ Test \subseteq Nat \ {0}
      /\ step = "init" => node = 0
      /\ step \in Stages => node \in owed
      /\ step # "final" => {u \in owed : u > node} = After
      /\ log \in Seq(Wanted) /\ ToSet(log) = Past(Wanted, Now) /\ Increasing(log)
  BY <1>1, TestAssumption DEF OInv, TestAssumption
<1>3. cur'.has = cur.has /\ cur'.tests = cur.tests \cup {t}
  BY <1>1 DEF RInv, Contained
<1>4. step # "final" => {u \in owed' : u > node} = After'
  BY <1>1, <1>2, <1>3 DEF After
<1>5. Now' = Now /\ Wanted \subseteq Wanted'
  BY <1>1, <1>3 DEF Now, Wanted
<1>6. ASSUME NEW c \in Wanted', c \notin Wanted PROVE ~Before(c, Now) /\ c # Now
  <2>1. step # "final" /\ t > node /\ \E s \in Stages : c = <<s, t>>
    BY <1>1, <1>3, <1>6 DEF Wanted, Stages
  <2>2. step \in {"init"} \cup Stages /\ Now = <<step, node>>
    BY <1>1, <2>1 DEF Testing, Stages, Now
  <2>3. t \in Nat
    BY <1>2
  <2> QED BY <1>2, <2>1, <2>2, <2>3 DEF Before, Stages
<1>7. Past(Wanted, Now)' = Past(Wanted, Now)
  BY <1>5, <1>6 DEF Past
<1>8. log' \in Seq(Wanted') /\ Increasing(log)'
  <2>1. log' = log /\ log \in Seq(Wanted')
    BY <1>1, <1>2, <1>5
  <2> QED BY <2>1, <1>2 DEF Increasing
<1>9. owed' \subseteq Test /\ (step \in Stages => node \in owed')
  BY <1>1, <1>2
<1> QED
  BY <1>1, <1>2, <1>4, <1>7, <1>8, <1>9 DEF OInv, Testing

LEMMA NextOInv == ASSUME OInv, IInv, RInv, [TestNext]_testVars PROVE OInv'
<1>1. CASE UNCHANGED testVars
  BY <1>1, SameLoop DEF testVars, walkVars, suiteVars
<1>2. ASSUME NEW c \in OnDisk, Start(c) PROVE OInv'
  BY <1>2 DEF Start, Exits, Stops, OInv, Testing
<1>3. CASE Return \/ Eval \/ Replace
  BY <1>3, SameLoop DEF Return, Eval, Replace, walkVars, suiteVars
<1>4. CASE Panic \/ Raise
  BY <1>4, SameLoop DEF Panic, Panics, Caught, Raise, GivesUp, Exits, Stops, suiteVars
<1>5. ASSUME NEW n \in 1 .. MaxCalls, Throw(n) PROVE OInv'
  BY <1>5, SameLoop DEF Throw, Caught, Exits, suiteVars
<1>6. ASSUME NEW f \in File, NEW c \in OnDisk, NEW args \in BOOLEAN, Import(f, c, args)
      PROVE OInv'
  BY <1>6, SameLoop DEF Import, Panics, Caught, Exits, suiteVars
<1>7. ASSUME NEW g \in Suite \cup {None}, NEW c \in Contents, Define(g, c) PROVE OInv'
  <2>1. UNCHANGED <<step, cur, node, log, owed>>
    BY <1>7 DEF Define
  <2>2. step \in {"main"} \cup Testing
    BY <1>7 DEF Define, Running, IInv, AllSteps, Testing
  <2>3. step \in Testing => at # None
    BY TestAssumption DEF IInv, TestAssumption
  <2>4. step \in Testing /\ ~loose' => ~loose
    BY <1>7, <2>3 DEF Define, Placed
  <2> QED BY <2>1, <2>2, <2>4
          DEF OInv, Testing, Stages, Past, Now, Wanted, After, Increasing, Before
<1>8. ASSUME NEW t \in Test, AddTest(t) PROVE OInv'
  BY <1>8, AddTestO
<1>9. CASE MainEnds
  BY <1>9 DEF MainEnds, Waiting, OInv, Testing
<1>10. ASSUME NEW g \in Suite, BeginSuite(g) PROVE OInv'
  BY <1>10, BeginSuiteO
<1>11. ASSUME NEW g \in Suite, SkipSuite(g) PROVE OInv'
  BY <1>11, SameLoop DEF SkipSuite, suiteVars
<1>12. CASE NextCase
  BY <1>12, NextCaseO
<1>13. CASE CaseGoesOn("setup", "unit") \/ CaseGoesOn("unit", "teardown")
  BY <1>13, CaseGoesOnO
<1>14. CASE LastCase
  BY <1>14, LastCaseO
<1>15. CASE EndSuite
  BY <1>15 DEF EndSuite, OInv, Testing
<1>16. CASE Done \/ Astray
  BY <1>16, SameLoop DEF Done, Astray, Exits, Stops, suiteVars
<1> QED
  BY <1>1, <1>2, <1>3, <1>4, <1>5, <1>6, <1>7, <1>8, <1>9, <1>10, <1>11, <1>12, <1>13,
     <1>14, <1>15, <1>16 DEF TestNext

\* libtest.c, yut_test and yut_case: for any tests, whatever they do short of taking away
\* what the harness holds, and whichever they add, every test is called once, in order,
\* between setup and teardown.
THEOREM CasesRunInOrder == TestSpec => []CasesInOrder
<1>1. ASSUME OInv PROVE CasesInOrder
  <2> SUFFICES ASSUME step = "final", ~loose
               PROVE  ToSet(log) = Wanted /\ Increasing(log)
    BY DEF CasesInOrder, Increasing
  <2>1. ToSet(log) = Past(Wanted, Now) /\ Increasing(log)
    BY <1>1 DEF OInv, Testing
  <2>2. ASSUME NEW c \in Wanted PROVE Before(c, Now) \/ c = Now
    BY DEF Wanted, Now, Before
  <2> QED BY <2>1, <2>2 DEF Past
<1> QED
  BY InitIInv, NextIInv, InitRInv, NextRInv, InitOInv, NextOInv, <1>1, PTL DEF TestSpec
=============================================================================

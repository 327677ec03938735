--------------------------- MODULE YmdCompilerProofs --------------------------
(***************************************************************************)
(* Theorems of the two parts of the compiler, the lexer (YmdLex) and the   *)
(* code generator (YmdCode).                                               *)
(*                                                                         *)
(* The lexer: the cursor stays in the text and knows its line, and the     *)
(* tokens are those the text says.  CInv strengthens CursorTells: what it  *)
(* says of the line is kept by each step of the cursor, and a comment the  *)
(* lexer is in has begun on this line.  WInv strengthens AsWritten:        *)
(* between the token before and the cursor there are only blanks and       *)
(* comments, and the token that is read has begun at the first place       *)
(* behind them and is, so far, the longest.                                *)
(*                                                                         *)
(* The code generator: no jump that is held is forgotten.  GInv says for   *)
(* each function of the chain that what is held in it is claimed by some   *)
(* pending function of the parser, at the level of the chain it writes to; *)
(* Aligned says that the chains of functions and of loops are those of the *)
(* parser's stack.  When a function is left nothing pending is at its      *)
(* level, so nothing is held in it.                                        *)
(***************************************************************************)
EXTENDS YmdLex, YmdCode, FiniteSetTheorems, TLAPS

(* A set of naturals has a least element: of the intervals 0 .. y that end in one of its *)
(* elements, all parts of the finite 0 .. m, one has no strict part among them.          *)
LEMMA LeastExists ==
    ASSUME NEW S \in SUBSET Nat, S # {}
    PROVE  \E least \in S : \A y \in S : least <= y
<1>1. PICK m \in S : TRUE
  OBVIOUS
<1> DEFINE N == 0 .. m
           T == {C \in SUBSET N : \E y \in S : C = 0 .. y}
<1>2. PICK C \in T : \A D \in T : ~ (<<D, C>> \in StrictSubsetOrdering(N))
  <2>1. IsFiniteSet(N)
    BY FS_Interval
  <2>2. FiniteSubsetsOf(N) = SUBSET N
    BY <2>1, FS_FiniteSubsetsOfFinite
  <2>3. T \subseteq FiniteSubsetsOf(N) /\ 0 .. m \in T
    BY <2>2
  <2> HIDE DEF T, N
  <2> QED BY <2>3, FS_StrictSubsetOrderingWellFounded, WFMin
<1>3. PICK least \in S : C = 0 .. least
  OBVIOUS
<1>4. ASSUME NEW y \in S, y < least PROVE FALSE
  <2>1. least \in Nat /\ y \in Nat
    OBVIOUS
  <2>2. least \in C /\ least \notin 0 .. y /\ 0 .. y \subseteq C
    BY <1>3, <1>4, <2>1
  <2> QED BY <1>2, <2>2 DEF StrictSubsetOrdering
<1>5. \A y \in S : least \in Nat /\ y \in Nat
  OBVIOUS
<1> QED BY <1>4, <1>5

LEMMA MinIsLeast ==
    ASSUME NEW S \in SUBSET Nat, S # {}
    PROVE  Min(S) \in S /\ \A y \in S : Min(S) <= y
BY LeastExists DEF Min

LEMMA MaxIsIn ==
    ASSUME NEW bound \in Nat, NEW S \in SUBSET (0 .. bound - 1), S # {}
    PROVE  Max(S) \in S /\ \A y \in S : y <= Max(S)
<1> DEFINE T == {bound - y : y \in S}
<1>1. T \in SUBSET Nat /\ T # {}
  OBVIOUS
<1>2. PICK least \in T : \A y \in T : least <= y
  <2> HIDE DEF T
  <2> QED BY <1>1, LeastExists
<1>3. PICK z \in S : least = bound - z
  BY <1>2
<1>4. ASSUME NEW y \in S PROVE z >= y /\ y <= z
  <2>1. bound - y \in T /\ y \in Int /\ z \in Int
    OBVIOUS
  <2>2. bound - z <= bound - y
    BY <2>1, <1>2, <1>3
  <2> QED BY <2>1, <2>2
<1> QED BY <1>3, <1>4 DEF Max
-----------------------------------------------------------------------------
(* The text *)

\* The text stays, and with it what it says.
LEMMA SameText ==
    ASSUME text' = text
    PROVE  /\ \A i : At(i)' = At(i) /\ CommentAt(i)' = CommentAt(i) /\ AtNUL(i)' = AtNUL(i)
           /\ \A i, j : SameLine(i, j)' = SameLine(i, j)
           /\ \A i : LineStart(i)' = LineStart(i) /\ Newlines(i)' = Newlines(i)
<1>1. \A i : At(i)' = At(i) /\ CommentAt(i)' = CommentAt(i) /\ AtNUL(i)' = AtNUL(i)
  BY DEF At, AtNUL, CommentAt
<1>2. \A i, j : SameLine(i, j)' = SameLine(i, j)
  BY DEF SameLine, At, AtNUL
<1>3. \A i : LineStart(i)' = LineStart(i) /\ Newlines(i)' = Newlines(i)
  BY DEF LineStart, Newlines, At, AtNUL
<1> QED BY <1>1, <1>2, <1>3

\* A character stands at each place of the text, or what is taken for the end, the NUL behind it.
LEMMA InText ==
    ASSUME LexTypeOK, NEW i \in Nat
    PROVE  /\ Len(text) \in Nat
           /\ At(i) \in Char \cup {EOS}
           /\ AtNUL(i) <=> i >= Len(text)
           /\ AtNUL(i) => At(i) = EOS
<1>1. text \in Seq(Char) /\ Len(text) \in Nat
  BY DEF LexTypeOK
<1>2. EOS \notin Char
  BY LexAssumption
  DEF LexAssumption, EOS, Letter, Digit, TermChar, PrexChar, Space, Alone, MinusOne
<1>3. CASE i < Len(text)
  <2>1. i + 1 \in 1 .. Len(text) /\ text[i + 1] \in Char
    BY <1>1, <1>3
  <2> QED BY <1>1, <1>2, <1>3, <2>1 DEF At, AtNUL
<1>4. CASE ~(i < Len(text))
  BY <1>1, <1>4 DEF At, AtNUL
<1> QED BY <1>3, <1>4

\* The line of a place begins at the greatest place not behind it that follows a newline.
LEMMA LineStartIs ==
    ASSUME NEW i \in Nat
    PROVE  /\ LineStart(i) \in 0 .. i
           /\ LineStart(i) = 0 \/ At(LineStart(i) - 1) = "newline"
           /\ \A j \in 0 .. i : j = 0 \/ At(j - 1) = "newline" => j <= LineStart(i)
<1> DEFINE S == {j \in 0 .. i : j = 0 \/ At(j - 1) = "newline"}
<1>1. 0 \in S /\ S \subseteq 0 .. (i + 1) - 1 /\ i + 1 \in Nat
  OBVIOUS
<1>2. Max(S) \in S /\ \A j \in S : j <= Max(S)
  <2> HIDE DEF S
  <2> QED BY <1>1, MaxIsIn
<1>3. LineStart(i) = Max(S)
  BY DEF LineStart
<1> QED BY <1>2, <1>3

LEMMA LineGoesOn ==
    ASSUME NEW i \in Nat
    PROVE  LineStart(i + 1) = IF At(i) = "newline" THEN i + 1 ELSE LineStart(i)
<1>1. /\ LineStart(i) \in 0 .. i
      /\ LineStart(i) = 0 \/ At(LineStart(i) - 1) = "newline"
      /\ \A j \in 0 .. i : j = 0 \/ At(j - 1) = "newline" => j <= LineStart(i)
  BY LineStartIs
<1>2. /\ LineStart(i + 1) \in 0 .. i + 1
      /\ LineStart(i + 1) = 0 \/ At(LineStart(i + 1) - 1) = "newline"
      /\ \A j \in 0 .. i + 1 : j = 0 \/ At(j - 1) = "newline" => j <= LineStart(i + 1)
  <2>1. i + 1 \in Nat
    OBVIOUS
  <2> QED BY <2>1, LineStartIs
<1>3. (i + 1) - 1 = i /\ i + 1 \in 0 .. i + 1
  OBVIOUS
<1>4. CASE At(i) = "newline"
  <2>1. i + 1 <= LineStart(i + 1)
    BY <1>2, <1>3, <1>4
  <2> QED BY <1>2, <1>4, <2>1
<1>5. CASE At(i) # "newline"
  <2>1. LineStart(i + 1) # i + 1
    BY <1>2, <1>3, <1>5
  <2>2. LineStart(i + 1) \in 0 .. i
    BY <1>2, <2>1
  <2>3. LineStart(i + 1) <= LineStart(i)
    BY <1>1, <1>2, <2>2
  <2>4. LineStart(i) \in 0 .. i + 1 /\ LineStart(i) <= LineStart(i + 1)
    BY <1>1, <1>2
  <2> QED BY <1>1, <1>5, <2>2, <2>3, <2>4
<1> QED BY <1>4, <1>5

LEMMA NewlinesGoOn ==
    ASSUME NEW i \in Nat
    PROVE  /\ IsFiniteSet(Newlines(i)) /\ Cardinality(Newlines(i)) \in Nat
           /\ Cardinality(Newlines(i + 1)) =
                  Cardinality(Newlines(i)) + (IF At(i) = "newline" THEN 1 ELSE 0)
<1>1. Newlines(i) \subseteq 0 .. i - 1 /\ IsFiniteSet(0 .. i - 1)
  BY FS_Interval DEF Newlines
<1>2. IsFiniteSet(Newlines(i)) /\ Cardinality(Newlines(i)) \in Nat
  BY <1>1, FS_Subset, FS_CardinalityType
<1>3. CASE At(i) = "newline"
  <2>1. Newlines(i + 1) = Newlines(i) \cup {i} /\ i \notin Newlines(i)
    BY <1>3 DEF Newlines
  <2> QED BY <1>2, <1>3, <2>1, FS_AddElement
<1>4. CASE At(i) # "newline"
  <2>1. Newlines(i + 1) = Newlines(i)
    BY <1>4 DEF Newlines
  <2> QED BY <1>2, <1>4, <2>1
<1> QED BY <1>2, <1>3, <1>4
-----------------------------------------------------------------------------
(* Line and column *)

Placed == i_line = 1 + Cardinality(Newlines(off)) /\ i_column = off - LineStart(off)

LEMMA NewlinePlaces ==
    ASSUME LexTypeOK, Placed, text' = text, Newline, Peek = "newline"
    PROVE  Placed'
<1>1. off \in Nat /\ off' = off + 1 /\ i_column' = 0 /\ i_line' = i_line + 1
  BY DEF LexTypeOK, Newline
<1>2. LineStart(off + 1) = off + 1
      /\ Cardinality(Newlines(off + 1)) = Cardinality(Newlines(off)) + 1
      /\ Cardinality(Newlines(off)) \in Nat
  <2>1. At(off) = "newline"
    BY DEF Peek
  <2> QED BY <1>1, <2>1, LineGoesOn, NewlinesGoOn
<1>3. LineStart(off)' = off + 1 /\ Newlines(off)' = Newlines(off + 1)
  BY <1>1, <1>2, SameText
<1> QED BY <1>1, <1>2, <1>3 DEF Placed

LEMMA ReadPlaces ==
    ASSUME LexTypeOK, Placed, text' = text, NEW n \in {1, 2}, Read(n), Peek # "newline",
           n = 2 => At(off + 1) # "newline"
    PROVE  Placed'
<1>1. off \in Nat /\ off' = off + n /\ i_column' = i_column + n /\ i_line' = i_line
  BY DEF LexTypeOK, Read
<1>2. LineStart(off) \in Nat /\ Cardinality(Newlines(off)) \in Nat
  <2>1. LineStart(off) \in 0 .. off
    BY <1>1, LineStartIs
  <2>2. Cardinality(Newlines(off)) \in Nat
    BY <1>1, NewlinesGoOn
  <2> QED BY <1>1, <2>1, <2>2
<1>3. LineStart(off + 1) = LineStart(off)
      /\ Cardinality(Newlines(off + 1)) = Cardinality(Newlines(off))
  <2>1. At(off) # "newline"
    BY DEF Peek
  <2> QED BY <1>1, <1>2, <2>1, LineGoesOn, NewlinesGoOn
<1>4. LineStart(off + n) = LineStart(off)
      /\ Cardinality(Newlines(off + n)) = Cardinality(Newlines(off))
  <2>1. CASE n = 1
    BY <1>3, <2>1
  <2>2. CASE n = 2
    <3>1. off + 1 \in Nat /\ (off + 1) + 1 = off + 2
      BY <1>1
    <3>2. LineStart((off + 1) + 1) = LineStart(off + 1)
          /\ Cardinality(Newlines((off + 1) + 1)) = Cardinality(Newlines(off + 1))
      BY <1>2, <1>3, <2>2, <3>1, LineGoesOn, NewlinesGoOn
    <3> QED BY <1>3, <2>2, <3>1, <3>2
  <2> QED BY <2>1, <2>2
<1>5. LineStart(off)' = LineStart(off + n) /\ Newlines(off)' = Newlines(off + n)
  BY <1>1, SameText
<1> QED BY <1>1, <1>2, <1>4, <1>5 DEF Placed

LEMMA StillPlaces == ASSUME Placed, text' = text, UNCHANGED cursor PROVE Placed'
<1>1. LineStart(off)' = LineStart(off) /\ Newlines(off)' = Newlines(off)
  BY SameText DEF cursor
<1> QED BY <1>1 DEF Placed, cursor

Reading == {"next", "dec", "hex", "symbol", "string", "line"}
InComment == \E c \in 0 .. Len(text) : CommentAt(c) /\ c <= off /\ SameLine(c, off)

\* The parser has been given the NUL.
BehindNul == off = Len(text) + 1 /\ tokens # <<>> /\ Last(tokens) = Token(EOS, Len(text), 1)
ShownLine ==
    mode = "failed" /\ off <= Len(text) /\ ~escaped =>
        /\ shown[1] = LineStart(off)
        /\ SameLine(shown[1], shown[2]) /\ (At(shown[2]) = "newline" \/ AtNUL(shown[2]))

\* While it reads the lexer is in the text, and a comment it is in has begun on this line.
CInv ==
    /\ LexTypeOK
    /\ mode \in Reading => off <= Len(text)
    /\ mode \in {"idle", "done", "failed"} => off <= Len(text) \/ BehindNul
    /\ mode = "line" => InComment
    /\ mode = "beyond" => InComment \/ BehindNul
    /\ ~escaped => Placed
    /\ ShownLine

LEMMA CInvTells == CInv => CursorTells
<1> SUFFICES ASSUME CInv PROVE CursorTells
  OBVIOUS
<1>1. LexTypeOK /\ mode \in Modes
  BY DEF CInv, LexTypeOK
<1>2. \/ off <= Len(text) /\ mode # "beyond"
      \/ off = Len(text) + 1 /\ tokens # <<>> /\ Last(tokens) = Token(EOS, Len(text), 1)
      \/ mode = "beyond" /\ \E c \in 0 .. Len(text) : CommentAt(c) /\ SameLine(c, off)
  <2>1. CASE mode = "beyond"
    BY <2>1 DEF CInv, InComment, BehindNul
  <2>2. CASE mode # "beyond"
    BY <1>1, <2>2 DEF CInv, Modes, Reading, BehindNul
  <2> QED BY <2>1, <2>2
<1> QED BY <1>1, <1>2 DEF CInv, CursorTells, Placed, ShownLine

LEMMA NoTokenIs == NoToken \in Tokens
BY DEF NoToken, Token, Tokens, Kind

LEMMA InitCInv == LexInit => CInv
<1> SUFFICES ASSUME LexInit PROVE CInv
  OBVIOUS
<1>1. text \in Seq(Char)
  BY LexAssumption DEF LexInit, LexAssumption
<1>2. off = 0 /\ i_line = 1 /\ i_column = 0 /\ mode = "idle" /\ x = NoToken /\ tokens = <<>>
      /\ Len(text) \in Nat
  BY <1>1 DEF LexInit
<1>5. escaped \in BOOLEAN
  BY Zenon DEF LexInit
<1>3. LexTypeOK
  <2>1. tokens \in Seq(Tokens) /\ mode \in Modes /\ x \in Tokens
    BY <1>2, NoTokenIs DEF Modes
  <2> QED BY <1>1, <1>2, <1>5, <2>1 DEF LexTypeOK
<1>4. Placed
  <2>1. Newlines(0) = {} /\ Cardinality({}) = 0
    BY FS_EmptySet DEF Newlines
  <2>2. LineStart(0) \in 0 .. 0
    BY LineStartIs
  <2>3. off = 0 /\ i_line = 1 /\ i_column = 0
    BY <1>2
  <2>4. Cardinality(Newlines(off)) = 0
    BY <2>1, <2>3
  <2>5. LineStart(off) = 0
    BY <2>2, <2>3
  <2> QED BY <2>3, <2>4, <2>5 DEF Placed
<1> QED BY <1>1, <1>2, <1>3, <1>4 DEF CInv, Reading, ShownLine

\* The parser gets a token that begins and ends in the text, or the NUL.
LEMMA GivenC ==
    ASSUME CInv, NEW kind \in Kind, NEW at \in Int, NEW len \in Nat, Given(kind, at, len),
           off' \in Nat, i_line' \in Nat, i_column' \in Nat,
           \/ off' <= Len(text)
           \/ kind = EOS /\ at = Len(text) /\ len = 1 /\ off' = Len(text) + 1,
           ~escaped => Placed'
    PROVE  CInv'
<1> DEFINE t == Token(kind, at, len)
<1>1. t \in Tokens /\ t.kind = kind
  BY DEF Token, Tokens
<1>2. tokens \in Seq(Tokens) /\ tokens' = Append(tokens, t)
  BY DEF CInv, LexTypeOK, Given
<1>3. tokens' \in Seq(Tokens) /\ tokens' # <<>> /\ Last(tokens') = t
  BY <1>1, <1>2 DEF Last
<1>4. mode' = "idle" /\ x' = NoToken /\ x' \in Tokens /\ UNCHANGED <<text, shown, escaped>>
  BY NoTokenIs DEF Given
<1>5. LexTypeOK'
  <2>1. text \in Seq(Char) /\ escaped \in BOOLEAN
    BY DEF CInv, LexTypeOK
  <2> QED BY <1>3, <1>4, <2>1 DEF LexTypeOK, Modes
<1> QED
  <2>1. off' <= Len(text') \/ BehindNul'
    BY <1>3, <1>4 DEF BehindNul, Token
  <2>2. ~escaped' => Placed'
    BY <1>4
  <2> QED BY <1>4, <1>5, <2>1, <2>2 DEF CInv, Reading, ShownLine

\* The lexer goes on reading, not in a comment.
LEMMA ReadsC ==
    ASSUME CInv, NEW m \in Reading \ {"line"}, mode' = m, x' \in Tokens,
           UNCHANGED <<text, tokens, shown>>, escaped' \in {escaped, TRUE},
           off' \in Nat, i_line' \in Nat, i_column' \in Nat,
           off' <= Len(text), ~escaped' => Placed'
    PROVE  CInv'
<1>1. LexTypeOK'
  BY DEF CInv, LexTypeOK, Modes, Reading
<1> QED BY <1>1 DEF CInv, Reading, ShownLine

LEMMA SameC == ASSUME CInv, UNCHANGED lex_vars PROVE CInv'
<1>1. LexTypeOK'
  BY DEF CInv, LexTypeOK, lex_vars, cursor
<1>2. ~escaped => Placed'
  <2>1. text' = text /\ UNCHANGED cursor
    BY DEF lex_vars, cursor
  <2>2. ~escaped => Placed
    BY DEF CInv
  <2> QED BY <2>1, <2>2, StillPlaces
<1>3. InComment => InComment'
  BY SameText DEF InComment, lex_vars, cursor
<1>4. ShownLine'
  BY SameText DEF CInv, ShownLine, lex_vars, cursor
<1>5. BehindNul => BehindNul'
  BY DEF BehindNul, Token, lex_vars, cursor
<1> QED BY <1>1, <1>2, <1>3, <1>4, <1>5 DEF CInv, lex_vars, cursor

\* What the steps that do nothing but read or count do to the cursor.
LEMMA CursorMoves ==
    ASSUME LexTypeOK, text' = text, ~escaped => Placed
    PROVE  /\ UNCHANGED cursor =>
                 /\ off' = off /\ i_line' \in Nat /\ i_column' \in Nat
                 /\ ~escaped => Placed'
           /\ Read(1) /\ Peek # "newline" =>
                 /\ off' = off + 1 /\ i_line' \in Nat /\ i_column' \in Nat
                 /\ ~escaped => Placed'
           /\ Read(2) /\ Peek # "newline" /\ At(off + 1) # "newline" =>
                 /\ off' = off + 2 /\ i_line' \in Nat /\ i_column' \in Nat
                 /\ ~escaped => Placed'
           /\ Newline /\ Peek = "newline" =>
                 /\ off' = off + 1 /\ i_line' \in Nat /\ i_column' \in Nat
                 /\ ~escaped => Placed'
<1>1. off \in Nat /\ i_line \in Nat /\ i_column \in Nat
  BY DEF LexTypeOK
<1>2. ASSUME UNCHANGED cursor
      PROVE  /\ off' = off /\ i_line' \in Nat /\ i_column' \in Nat
             /\ ~escaped => Placed'
  BY <1>1, <1>2, StillPlaces DEF cursor
<1>3. ASSUME NEW n \in {1, 2}, Read(n), Peek # "newline", n = 2 => At(off + 1) # "newline"
      PROVE  /\ off' = off + n /\ i_line' \in Nat /\ i_column' \in Nat
             /\ ~escaped => Placed'
  <2>1. off' = off + n /\ i_line' \in Nat /\ i_column' \in Nat
    BY <1>1, <1>3 DEF Read
  <2>2. ~escaped => Placed'
    BY <1>3, ReadPlaces
  <2> QED BY <2>1, <2>2
<1>4. ASSUME Newline, Peek = "newline"
      PROVE  /\ off' = off + 1 /\ i_line' \in Nat /\ i_column' \in Nat
             /\ ~escaped => Placed'
  <2>1. off' = off + 1 /\ i_line' \in Nat /\ i_column' \in Nat
    BY <1>1, <1>4 DEF Newline
  <2>2. ~escaped => Placed'
    BY <1>4, NewlinePlaces
  <2> QED BY <2>1, <2>2
<1> QED BY <1>2, <1>3, <1>4

LEMMA Firsts == {p[1] : p \in Pairs} = {"<", ">", "|", "!", "="}
BY DEF Pairs

\* Where the cursor is in the text, and what it sees there.
LEMMA Seen ==
    ASSUME CInv, mode \in Reading
    PROVE  /\ off \in Nat /\ off + 1 \in Nat /\ Len(text) \in Nat /\ off <= Len(text)
           /\ Peek = At(off) /\ Peek \in Char \cup {EOS} /\ Peek \in Kind
           /\ Peek # EOS => off + 1 <= Len(text)
           /\ Peek # EOS /\ At(off + 1) # EOS => off + 2 <= Len(text)
           /\ ~AtNUL(off) => off + 1 <= Len(text)
           /\ ~AtNUL(off + 1) => off + 2 <= Len(text)
           /\ AtNUL(off) => Peek = EOS /\ off = Len(text)
           /\ x \in Tokens
<1>1. LexTypeOK /\ off <= Len(text) /\ off \in Nat /\ off + 1 \in Nat /\ Peek = At(off)
      /\ x \in Tokens
  BY DEF CInv, LexTypeOK, Reading, Peek
<1>2. /\ Len(text) \in Nat /\ Peek \in Char \cup {EOS}
      /\ AtNUL(off) <=> off >= Len(text)
      /\ AtNUL(off) => Peek = EOS
      /\ AtNUL(off + 1) <=> off + 1 >= Len(text)
      /\ AtNUL(off + 1) => At(off + 1) = EOS
  BY <1>1, InText
<1> QED BY <1>1, <1>2 DEF Kind

LEMMA SingleC == ASSUME CInv, Single PROVE CInv'
<1>1. mode \in Reading /\ LexTypeOK /\ (~escaped => Placed) /\ text' = text
  BY DEF Single, Reading, CInv, Given
<1>2. Given(Peek, off, 1) /\ Read(1)
  BY DEF Single
<1>3. Peek # "newline"
  BY Firsts DEF Single, TermChar, EOS
<1>4. off' = off + 1 /\ i_line' \in Nat /\ i_column' \in Nat /\ (~escaped => Placed')
  BY <1>1, <1>2, <1>3, CursorMoves
<1>5. /\ off' \in Nat /\ off \in Int /\ Peek \in Kind
      /\ \/ off' <= Len(text)
         \/ Peek = EOS /\ off = Len(text) /\ off' = Len(text) + 1
  BY <1>1, <1>4, Seen
<1> QED BY <1>2, <1>4, <1>5, GivenC

LEMMA DoubleC == ASSUME CInv, Double PROVE CInv'
<1>1. mode \in Reading /\ LexTypeOK /\ (~escaped => Placed) /\ text' = text
  BY DEF Double, Reading, CInv, Given
<1>2. Read(2) /\ \E kind \in {"pair", "list", "dict"}, at \in {off, off - 1} : Given(kind, at, 2)
  BY DEF Double
<1>3. Peek # "newline" /\ At(off + 1) # "newline" /\ Peek # EOS /\ At(off + 1) # EOS
  BY DEF Double, EOS, Pairs
<1>4. off' = off + 2 /\ i_line' \in Nat /\ i_column' \in Nat /\ (~escaped => Placed')
  BY <1>1, <1>2, <1>3, CursorMoves
<1>5. off' \in Nat /\ off \in Int /\ off - 1 \in Int /\ off' <= Len(text)
  BY <1>1, <1>3, <1>4, Seen
<1>6. PICK kind \in {"pair", "list", "dict"}, at \in {off, off - 1} : Given(kind, at, 2)
  BY <1>2
<1>7. kind \in Kind /\ at \in Int
  BY <1>5 DEF Kind
<1> QED BY <1>4, <1>5, <1>6, <1>7, GivenC

LEMMA BadC == ASSUME CInv, Bad PROVE CInv'
<1>1. mode \in Reading /\ LexTypeOK /\ (~escaped => Placed) /\ text' = text
  BY DEF Bad, Reading, CInv, Given
<1>2. /\ \E n \in {0, 1} : Given(ERROR, off, n)
      /\ UNCHANGED cursor \/ (Read(1) /\ Peek = "@")
  BY DEF Bad
<1>3. /\ off' \in {off, off + 1} /\ i_line' \in Nat /\ i_column' \in Nat
      /\ ~escaped => Placed'
      /\ off' = off + 1 => Peek = "@" /\ "@" # EOS
  BY <1>1, <1>2, CursorMoves, Seen DEF EOS
<1>4. off' \in Nat /\ off \in Int /\ off' <= Len(text)
  BY <1>1, <1>3, Seen
<1>5. ERROR \in Kind
  BY DEF Kind
<1> QED BY <1>2, <1>3, <1>4, <1>5, GivenC

LEMMA AskC == ASSUME CInv, Ask PROVE CInv'
<1>1. /\ mode = "idle" /\ LexTypeOK /\ (~escaped => Placed)
      /\ UNCHANGED <<text, tokens, shown, escaped, cursor>>
  BY DEF Ask, Reads, CInv
<1>2. /\ mode' = (IF off > Len(text) THEN "beyond" ELSE "next")
      /\ x' = Token(Nil, off, 0) /\ off \in Nat /\ Len(text) \in Nat
      /\ off <= Len(text) \/ BehindNul
  BY <1>1 DEF Ask, Reads, CInv, LexTypeOK
<1>3. x' \in Tokens
  BY <1>2 DEF Token, Tokens, Kind
<1>4. off' = off /\ i_line' \in Nat /\ i_column' \in Nat /\ (~escaped => Placed')
  BY <1>1, CursorMoves
<1>5. CASE off <= Len(text)
  BY <1>1, <1>2, <1>3, <1>4, <1>5, ReadsC DEF Reading
<1>6. CASE ~(off <= Len(text))
  <2>1. mode' = "beyond" /\ BehindNul
    BY <1>2, <1>6
  <2>2. LexTypeOK'
    BY <1>1, <1>3, <1>4, <2>1, <1>2 DEF LexTypeOK, Modes
  <2>3. BehindNul'
    BY <1>1, <1>4, <2>1 DEF BehindNul, Token
  <2> QED BY <1>1, <1>4, <2>1, <2>2, <2>3 DEF CInv, Reading, ShownLine
<1> QED BY <1>5, <1>6

\* A comment begins or goes on.
LEMMA CommentC ==
    ASSUME CInv, mode \in Reading, mode' \in {"line", "beyond"}, x' \in Tokens,
           UNCHANGED <<text, tokens, shown, escaped>>,
           off' \in Nat, i_line' \in Nat, i_column' \in Nat,
           mode' = "line" => off' <= Len(text), ~escaped => Placed',
           NEW c \in 0 .. Len(text), CommentAt(c), c <= off', SameLine(c, off')
    PROVE  CInv'
<1>1. LexTypeOK'
  BY DEF CInv, LexTypeOK, Modes
<1>2. InComment'
  BY SameText DEF InComment
<1> QED BY <1>1, <1>2 DEF CInv, Reading, ShownLine

LEMMA SkipC == ASSUME CInv, Skip PROVE CInv'
<1>1. mode \in Reading /\ LexTypeOK /\ (~escaped => Placed)
      /\ UNCHANGED <<text, tokens, shown, escaped>>
  BY DEF Skip, Reading, CInv, Reads
<1>2. /\ off \in Nat /\ off + 1 \in Nat /\ Len(text) \in Nat /\ off <= Len(text)
      /\ Peek = At(off) /\ (Peek # EOS => off + 1 <= Len(text))
  BY <1>1, Seen
<1>3. Token(Nil, off, 0) \in Tokens
  BY <1>2 DEF Token, Tokens, Kind
<1>4. CASE Reads("next", off, 0) /\ ((Peek = "newline" /\ Newline) \/ (Peek = " " /\ Blank))
  <2>1. off' = off + 1 /\ i_line' \in Nat /\ i_column' \in Nat /\ (~escaped => Placed')
    BY <1>1, <1>4, CursorMoves DEF Blank
  <2>2. mode' = "next" /\ x' \in Tokens /\ off' <= Len(text)
    BY <1>2, <1>3, <1>4, <2>1 DEF Reads, EOS
  <2> QED BY <1>1, <1>2, <2>1, <2>2, ReadsC DEF Reading
<1>5. CASE /\ Reads("line", off, 0)
           /\ \/ Peek = "#" /\ UNCHANGED cursor
              \/ Peek = "/" /\ At(off + 1) = "/" /\ Read(1)
  <2>1. off' \in {off, off + 1} /\ i_line' \in Nat /\ i_column' \in Nat /\ (~escaped => Placed')
    BY <1>1, <1>5, CursorMoves
  <2>2. mode' = "line" /\ x' \in Tokens /\ off' <= Len(text)
    BY <1>2, <1>3, <1>5, <2>1 DEF Reads, EOS
  <2>3. off \in 0 .. Len(text) /\ CommentAt(off) /\ off <= off'
    BY <1>2, <1>5, <2>1 DEF CommentAt
  <2>4. SameLine(off, off')
    <3>1. CASE off' = off
      BY <1>2, <3>1 DEF SameLine
    <3>2. CASE off' = off + 1
      <4>1. At(off) # "newline" /\ off \in Nat
        BY <1>2, <1>5
      <4>2. ASSUME NEW h \in off .. (off + 1) - 1 PROVE At(h) # "newline"
        <5>1. h = off
          BY <4>1
        <5> QED BY <4>1, <5>1
      <4>3. SameLine(off, off + 1)
        BY <4>2 DEF SameLine
      <4> QED BY <3>2, <4>3
    <3> QED BY <2>1, <3>1, <3>2
  <2> QED BY <1>1, <1>2, <2>1, <2>2, <2>3, <2>4, CommentC
<1> QED BY <1>4, <1>5 DEF Skip

LEMMA BeginC == ASSUME CInv, Begin PROVE CInv'
<1>1. mode \in Reading /\ LexTypeOK /\ (~escaped => Placed)
      /\ UNCHANGED <<text, tokens, shown, escaped>>
  BY DEF Begin, Reading, CInv, Reads
<1>2. /\ off \in Nat /\ off + 1 \in Nat /\ Len(text) \in Nat /\ off <= Len(text)
      /\ Peek = At(off) /\ (Peek # EOS => off + 1 <= Len(text))
      /\ Peek # EOS /\ At(off + 1) # EOS => off + 2 <= Len(text)
  BY <1>1, Seen
<1>3. /\ \E m \in {"dec", "hex", "symbol", "string"}, at \in {off, off + 1}, n \in {0, 1, 2} :
            Reads(m, at, n)
      /\ \/ UNCHANGED cursor
         \/ Read(1) /\ Peek \in {"-", "quote"}
         \/ Read(2) /\ Peek = "0" /\ At(off + 1) = "x"
  BY DEF Begin
<1>4. /\ off' \in {off, off + 1, off + 2} /\ i_line' \in Nat /\ i_column' \in Nat
      /\ ~escaped => Placed'
      /\ off' <= Len(text)
  BY <1>1, <1>2, <1>3, CursorMoves DEF EOS
<1>5. PICK m \in {"dec", "hex", "symbol", "string"}, at \in {off, off + 1}, n \in {0, 1, 2} :
            Reads(m, at, n)
  BY <1>3
<1>6. mode' = m /\ x' \in Tokens
  BY <1>2, <1>5 DEF Reads, Token, Tokens, Kind
<1> QED BY <1>1, <1>2, <1>4, <1>6, ReadsC DEF Reading

LEMMA LongerReads ==
    ASSUME x \in Tokens, NEW n \in Nat, Longer(n)
    PROVE  /\ mode' = mode /\ x' \in Tokens /\ x'.off = x.off /\ x'.len = x.len + n
           /\ UNCHANGED <<text, tokens, shown, escaped>>
BY DEF Longer, Reads, Token, Tokens, Kind

LEMMA ScanC == ASSUME CInv, Scan PROVE CInv'
<1>1. mode \in {"dec", "hex", "symbol"} /\ mode \in Reading /\ LexTypeOK /\ (~escaped => Placed)
  BY DEF Scan, Of, Reading, CInv
<1>2. /\ off \in Nat /\ off + 1 \in Nat /\ Len(text) \in Nat /\ off <= Len(text)
      /\ Peek # EOS => off + 1 <= Len(text)
      /\ x \in Tokens
  BY <1>1, Seen
<1>3. CASE Peek \in Of[mode] /\ Longer(1) /\ Read(1)
  <2>1. Peek # EOS /\ Peek # "newline"
    BY <1>1, <1>3 DEF Of, Digit, XDigit, Letter, EOS
  <2>2. mode' = mode /\ x' \in Tokens /\ UNCHANGED <<text, tokens, shown, escaped>>
    BY <1>2, <1>3, LongerReads
  <2>3. off' = off + 1 /\ i_line' \in Nat /\ i_column' \in Nat /\ (~escaped => Placed')
    BY <1>1, <1>3, <2>1, <2>2, CursorMoves
  <2> QED BY <1>1, <1>2, <2>1, <2>2, <2>3, ReadsC DEF Reading
<1>4. CASE Peek \in Term /\ Given(mode, x.off, x.len) /\ Back
  <2>1. text' = text /\ x.off \in Int /\ x.len \in Nat /\ mode \in Kind
    BY <1>1, <1>2, <1>4 DEF Given, Tokens, Kind
  <2>2. off' = off /\ i_line' \in Nat /\ i_column' \in Nat /\ (~escaped => Placed')
    BY <1>1, <1>4, <2>1, CursorMoves DEF Back
  <2> QED BY <1>2, <1>4, <2>1, <2>2, GivenC
<1>5. CASE /\ Peek \notin Of[mode] \cup Term
           /\ IF mode = "symbol" THEN Given(ERROR, x.off, x.len) /\ UNCHANGED cursor
              ELSE Given(ERROR, x.off, x.len + 1) /\ Read(1)
  <2>1. text' = text /\ x.off \in Int /\ x.len \in Nat /\ x.len + 1 \in Nat /\ ERROR \in Kind
    BY <1>2, <1>5 DEF Given, Tokens, Kind
  <2>2. Peek # EOS /\ Peek # "newline"
    BY <1>5 DEF Term, Space
  <2>3. off' \in {off, off + 1} /\ i_line' \in Nat /\ i_column' \in Nat /\ (~escaped => Placed')
    BY <1>1, <1>5, <2>1, <2>2, CursorMoves
  <2>4. off' \in Nat /\ off' <= Len(text)
    BY <1>2, <2>2, <2>3
  <2>5. Given(ERROR, x.off, x.len) \/ Given(ERROR, x.off, x.len + 1)
    BY <1>5
  <2> QED BY <2>1, <2>3, <2>4, <2>5, GivenC
<1> QED BY <1>3, <1>4, <1>5 DEF Scan

LEMMA ReadRawC == ASSUME CInv, ReadRaw PROVE CInv'
<1>1. mode = "string" /\ mode \in Reading /\ LexTypeOK /\ (~escaped => Placed)
  BY DEF ReadRaw, Reading, CInv
<1>2. /\ off \in Nat /\ off + 1 \in Nat /\ Len(text) \in Nat /\ off <= Len(text)
      /\ Peek # EOS => off + 1 <= Len(text)
      /\ ~AtNUL(off) => off + 1 <= Len(text)
      /\ ~AtNUL(off + 1) => off + 2 <= Len(text)
      /\ x \in Tokens
  BY <1>1, Seen
<1>3. x.off \in Int /\ x.len \in Nat /\ "string" \in Kind /\ ERROR \in Kind
  BY <1>2 DEF Tokens, Kind
<1>4. CASE Peek = "quote" /\ Given("string", x.off, x.len) /\ Read(1)
  <2>1. text' = text
    BY <1>4 DEF Given
  <2>2. off' = off + 1 /\ i_line' \in Nat /\ i_column' \in Nat /\ (~escaped => Placed')
    BY <1>1, <1>4, <2>1, CursorMoves
  <2>3. off' <= Len(text)
    BY <1>2, <1>4, <2>2 DEF EOS
  <2> QED BY <1>2, <1>3, <1>4, <2>2, <2>3, GivenC
<1>5. CASE /\ Peek = "backslash"
           /\ Read(IF AtNUL(off + 1) THEN 1 ELSE 2)
           /\ mode' = mode /\ x' = [x EXCEPT !.len = @ + 2]
           /\ escaped' = (escaped \/ At(off + 1) = "newline")
           /\ UNCHANGED <<text, tokens, shown>>
  <2>1. x' \in Tokens
    BY <1>2, <1>5 DEF Tokens
  <2>2. ~escaped' => ~escaped /\ At(off + 1) # "newline"
    BY <1>5
  <2>3. off' \in {off + 1, off + 2} /\ i_line' \in Nat /\ i_column' \in Nat /\ off' <= Len(text)
    BY <1>1, <1>2, <1>5 DEF Read, LexTypeOK, EOS
  <2>4. ~escaped' => Placed'
    BY <1>1, <1>5, <2>2, CursorMoves
  <2>5. mode' = "string" /\ UNCHANGED <<text, tokens, shown>> /\ "string" \in Reading \ {"line"}
    BY <1>1, <1>5 DEF Reading
  <2>6. escaped' \in {escaped, TRUE}
    <3>1. escaped \in BOOLEAN
      BY <1>1 DEF LexTypeOK
    <3> QED BY <1>5, <3>1
  <2>7. off' \in Nat
    BY <1>2, <2>3
  <2> QED BY <2>1, <2>3, <2>4, <2>5, <2>6, <2>7, ReadsC
<1>6. CASE Peek = "newline" /\ Given(ERROR, x.off, x.len) /\ UNCHANGED cursor
  <2>1. text' = text
    BY <1>6 DEF Given
  <2>2. off' = off /\ i_line' \in Nat /\ i_column' \in Nat /\ (~escaped => Placed')
    BY <1>1, <1>6, <2>1, CursorMoves
  <2> QED BY <1>2, <1>3, <1>6, <2>2, GivenC
<1>7. CASE /\ ~AtNUL(off) /\ Peek \notin {"quote", "backslash", "newline"}
           /\ Longer(1) /\ Read(1)
  <2>1. mode' = mode /\ x' \in Tokens /\ UNCHANGED <<text, tokens, shown, escaped>>
    BY <1>2, <1>7, LongerReads
  <2>2. off' = off + 1 /\ i_line' \in Nat /\ i_column' \in Nat /\ (~escaped => Placed')
    BY <1>1, <1>7, <2>1, CursorMoves
  <2> QED BY <1>1, <1>2, <1>7, <2>1, <2>2, ReadsC DEF Reading
<1>8. CASE UNCHANGED lex_vars
  BY <1>8, SameC
<1> QED BY <1>4, <1>5, <1>6, <1>7, <1>8 DEF ReadRaw

LEMMA SkipLineC == ASSUME CInv, SkipLine PROVE CInv'
<1>1. /\ mode = "line" /\ mode \in Reading /\ LexTypeOK /\ (~escaped => Placed) /\ InComment
      /\ UNCHANGED <<text, tokens, shown, escaped>>
  BY DEF SkipLine, Reading, CInv, Reads
<1>2. /\ off \in Nat /\ off + 1 \in Nat /\ Len(text) \in Nat /\ off <= Len(text)
      /\ Peek = At(off) /\ (Peek # EOS => off + 1 <= Len(text))
      /\ ~AtNUL(off) => off + 1 <= Len(text)
  BY <1>1, Seen
<1>3. Token(Nil, off, 0) \in Tokens
  BY <1>2 DEF Token, Tokens, Kind
<1>4. CASE Peek = "newline"
  <2>1. Newline /\ mode' = "next" /\ x' \in Tokens
    BY <1>3, <1>4 DEF SkipLine, Reads
  <2>2. off' = off + 1 /\ i_line' \in Nat /\ i_column' \in Nat /\ (~escaped => Placed')
    BY <1>1, <1>4, <2>1, CursorMoves
  <2>3. off' <= Len(text)
    BY <1>2, <1>4, <2>2 DEF EOS
  <2> QED BY <1>1, <1>2, <2>1, <2>2, <2>3, ReadsC DEF Reading
<1>5. CASE Peek # "newline"
  <2>1. Read(1) /\ mode' = (IF AtNUL(off) THEN "beyond" ELSE "line") /\ x' \in Tokens
    BY <1>3, <1>5 DEF SkipLine, Reads
  <2>2. off' = off + 1 /\ i_line' \in Nat /\ i_column' \in Nat /\ (~escaped => Placed')
    BY <1>1, <1>5, <2>1, CursorMoves
  <2>3. PICK c \in 0 .. Len(text) : CommentAt(c) /\ c <= off /\ SameLine(c, off)
    BY <1>1 DEF InComment
  <2>4. c <= off' /\ SameLine(c, off')
    BY <1>2, <1>5, <2>2, <2>3 DEF SameLine
  <2> QED BY <1>1, <1>2, <2>1, <2>2, <2>3, <2>4, CommentC
<1> QED BY <1>4, <1>5

\* The line that is printed is the one the cursor is in.
LEMMA StopC == ASSUME CInv, Stop PROVE CInv'
<1>1. /\ mode = "idle" /\ tokens # <<>> /\ mode' \in {"done", "failed"} /\ LexTypeOK
      /\ UNCHANGED <<text, cursor, x, tokens, escaped>>
      /\ ~escaped => Placed
      /\ off <= Len(text) \/ BehindNul
  BY DEF Stop, CInv
<1>2. LexTypeOK'
  BY <1>1 DEF LexTypeOK, Modes, cursor
<1>3. ~escaped => Placed'
  BY <1>1, StillPlaces
<1>4. off' = off
  BY <1>1 DEF cursor
<1>5. ASSUME mode' = "failed", off <= Len(text), ~escaped
      PROVE  /\ shown'[1] = LineStart(off)
             /\ SameLine(shown'[1], shown'[2])
             /\ At(shown'[2]) = "newline" \/ AtNUL(shown'[2])
  <2> DEFINE S == {i \in off .. Len(text) : At(i) = "newline" \/ AtNUL(i)}
  <2>1. off \in Nat /\ Len(text) \in Nat /\ off <= Len(text) /\ i_column = off - LineStart(off)
    BY <1>1, <1>5 DEF LexTypeOK, Placed
  <2>2. Len(text) \in S /\ S \in SUBSET Nat
    BY <1>1, <2>1, InText
  <2>3. Min(S) \in S /\ \A i \in S : Min(S) <= i
    <3> HIDE DEF S
    <3> QED BY <2>2, MinIsLeast
  <2>4. shown' = <<off - i_column, Min(S)>>
    BY <1>5, <2>1 DEF Stop, Line
  <2>5. LineStart(off) \in 0 .. off /\ \A j \in 0 .. off : At(j - 1) = "newline" => j <= LineStart(off)
    BY <2>1, LineStartIs
  <2>6. shown'[1] = LineStart(off) /\ shown'[2] = Min(S)
    BY <2>1, <2>4, <2>5
  <2>7. ASSUME NEW h \in LineStart(off) .. Min(S) - 1 PROVE At(h) # "newline"
    <3>1. h \in Nat /\ Min(S) \in off .. Len(text)
      BY <2>3, <2>5
    <3>2. CASE h < off
      <4>1. h + 1 \in 0 .. off /\ (h + 1) - 1 = h /\ ~(h + 1 <= LineStart(off))
        BY <2>1, <2>5, <3>1, <3>2
      <4> QED BY <2>5, <4>1
    <3>3. CASE h >= off
      <4>1. h \in off .. Len(text) /\ ~(Min(S) <= h)
        BY <2>1, <3>1, <3>3
      <4> QED BY <2>3, <4>1
    <3> QED BY <2>1, <3>1, <3>2, <3>3
  <2> QED BY <2>3, <2>6, <2>7 DEF SameLine
<1>7. ShownLine'
  BY <1>1, <1>4, <1>5, SameText DEF ShownLine
<1>8. mode' \in {"done", "failed"} /\ text' = text /\ tokens' = tokens /\ escaped' = escaped
  BY <1>1
<1>9. off' <= Len(text') \/ BehindNul'
  BY <1>1, <1>4 DEF BehindNul, Token
<1> QED BY <1>2, <1>3, <1>7, <1>8, <1>9 DEF CInv, Reading

LEMMA NextCInv == ASSUME CInv, [LexNext]_lex_vars PROVE CInv'
BY AskC, SingleC, DoubleC, BadC, SkipC, BeginC, ScanC, ReadRawC, SkipLineC, StopC, SameC
DEF LexNext, Lexing

\* lex.c: however long a text is and whatever is in it, and whatever the parser takes for the
\* bracket of a literal, the cursor stays in it but for the cases CursorTells names, and line
\* and column are those of the cursor.
THEOREM CursorIsPlaced == LexSpec => []CursorTells
BY InitCInv, NextCInv, CInvTells, PTL DEF LexSpec
-----------------------------------------------------------------------------
(* The tokens *)

\* Where the token before ended.
From == IF tokens = <<>> THEN 0 ELSE EndOf(Last(tokens))

\* Between i and o there are blanks and comments, the last of them over, or not.
Passed(i, o) == \A j \in i .. o - 1 :
    At(j) \in Space \/ \E c \in i .. j : CommentAt(c) /\ SameLine(c, j)
Clear(i, o) == \A c \in i .. o - 1 : CommentAt(c) => ~SameLine(c, o)
Inside(i, o) == \E c \in i .. o : CommentAt(c) /\ SameLine(c, o)

\* What has been read of the token that begins at s.
All(i, o, set) == \A j \in i .. o - 1 : At(j) \in set
Sign(s) == IF At(s) = "-" THEN 1 ELSE 0
InDec(s) ==
    /\ x.off = s /\ off = s + x.len /\ Sign(s) <= x.len
    /\ <<At(s), At(s + 1)>> # <<"0", "x">> /\ At(s + Sign(s)) \in Digit
    /\ All(s + Sign(s), off, Digit)
InHex(s) ==
    /\ x.off = s /\ off = s + x.len /\ 2 <= x.len
    /\ <<At(s), At(s + 1)>> = <<"0", "x">> /\ All(s + 2, off, XDigit)
InSymbol(s) ==
    /\ x.off = s /\ off = s + x.len
    /\ At(s) \in Letter /\ All(s, off, Letter \cup Digit)
InString(s) ==
    /\ x.off = s + 1 /\ At(s) = "quote"
    /\ \/ AtNUL(off)
       \/ /\ off = s + 1 + x.len /\ Unescaped(s + 1, off)
          /\ \A j \in s + 1 .. off - 1 : j \notin Closing(s + 1)

\* What is read has begun at the first place after the token before that is no blank
\* and in no comment, and is as long as it can be so far.
WInv ==
    /\ mode = "idle" => off = IF tokens = <<>> THEN 0 ELSE EndOf(Last(tokens))
    /\ mode \in Reading => From \in 0 .. Len(text)
    /\ mode = "next" => From <= off /\ Passed(From, off) /\ Clear(From, off)
    /\ mode = "line" => From <= off /\ Passed(From, off) /\ Inside(From, off)
    /\ mode \in {"dec", "hex", "symbol", "string"} => FirstFrom(From) \in Nat
    /\ mode = "dec" => InDec(FirstFrom(From))
    /\ mode = "hex" => InHex(FirstFrom(From))
    /\ mode = "symbol" => InSymbol(FirstFrom(From))
    /\ mode = "string" => InString(FirstFrom(From))
    /\ AsWritten

LEMMA InitWInv == LexInit => WInv
BY DEF LexInit, WInv, Reading, AsWritten

LEMMA SameMeaning ==
    ASSUME text' = text
    PROVE  /\ \A i : FirstFrom(i)' = FirstFrom(i) /\ Written(i)' = Written(i)
           /\ \A i, o : /\ Passed(i, o)' = Passed(i, o) /\ Clear(i, o)' = Clear(i, o)
                        /\ Inside(i, o)' = Inside(i, o) /\ Unescaped(i, o)' = Unescaped(i, o)
           /\ \A i, o, set : All(i, o, set)' = All(i, o, set)
           /\ \A i : Sign(i)' = Sign(i) /\ Closing(i)' = Closing(i)
<1>1. \A i : FirstFrom(i)' = FirstFrom(i)
  BY DEF FirstFrom, CommentAt, SameLine, At, AtNUL
<1>2. \A i : Written(i)' = Written(i)
  BY DEF Written, Closing, Unescaped, RunOf, At, AtNUL
<1>3. \A i, o : /\ Passed(i, o)' = Passed(i, o) /\ Clear(i, o)' = Clear(i, o)
                /\ Inside(i, o)' = Inside(i, o) /\ Unescaped(i, o)' = Unescaped(i, o)
  BY DEF Passed, Clear, Inside, Unescaped, CommentAt, SameLine, At, AtNUL
<1>4. \A i, o, set : All(i, o, set)' = All(i, o, set)
  BY DEF All, At, AtNUL
<1>5. \A i : Sign(i)' = Sign(i) /\ Closing(i)' = Closing(i)
  BY DEF Sign, Closing, Unescaped, At, AtNUL
<1> QED BY <1>1, <1>2, <1>3, <1>4, <1>5

\* The lexer is at the first place of a token.
LEMMA FirstIs ==
    ASSUME LexTypeOK, NEW f \in Nat, NEW o \in Nat, f <= o, o <= Len(text),
           Passed(f, o), Clear(f, o), At(o) \notin Space, ~CommentAt(o)
    PROVE  FirstFrom(f) = o
<1> DEFINE S == {j \in f .. Len(text) : At(j) \notin Space /\
            ~\E c \in f .. j : ~AtNUL(j) /\ CommentAt(c) /\ SameLine(c, j)}
<1>1. Len(text) \in Nat
  BY DEF LexTypeOK
<1>2. o \in S
  <2>1. ASSUME NEW c \in f .. o, CommentAt(c), SameLine(c, o) PROVE FALSE
    <3>1. CASE c = o
      BY <2>1, <3>1
    <3>2. CASE c # o
      <4>1. c \in f .. o - 1
        BY <2>1, <3>2
      <4> QED BY <2>1, <4>1 DEF Clear
    <3> QED BY <3>1, <3>2
  <2> QED BY <1>1, <2>1
<1>3. ASSUME NEW j \in S PROVE o <= j
  <2>1. SUFFICES ASSUME j < o PROVE FALSE
    OBVIOUS
  <2>2. j \in f .. o - 1 /\ ~AtNUL(j)
    BY <1>1, <2>1 DEF AtNUL
  <2> QED BY <1>3, <2>2 DEF Passed
<1>4. S \in SUBSET Nat
  OBVIOUS
<1>5. Min(S) \in S /\ \A j \in S : Min(S) <= j
  <2> HIDE DEF S
  <2> QED BY <1>2, <1>4, MinIsLeast
<1>6. Min(S) = o
  <2>1. \A n \in S : n \in Int
    BY <1>1
  <2>2. Min(S) <= o /\ o <= Min(S) /\ Min(S) \in Int
    <3> HIDE DEF S
    <3> QED BY <1>2, <1>3, <1>5, <2>1
  <2> QED BY <2>2
<1> QED BY <1>6 DEF FirstFrom

\* A run of characters ends where the first stands that is not one of them.
LEMMA RunIs ==
    ASSUME LexTypeOK, NEW set, NEW i \in Nat, NEW o \in Nat, i <= o, o <= Len(text),
           All(i, o, set), At(o) \notin set, EOS \notin set
    PROVE  RunOf(i, set) = o - i
<1> DEFINE S == {n \in 0 .. Len(text) - i : \A j \in i .. i + n - 1 : At(j) \in set}
<1>1. Len(text) \in Nat
  BY DEF LexTypeOK
<1>2. o - i \in S
  <2>1. o - i \in 0 .. Len(text) - i /\ i + (o - i) - 1 = o - 1
    BY <1>1
  <2>2. \A j \in i .. i + (o - i) - 1 : At(j) \in set
    BY <2>1 DEF All
  <2> QED BY <2>1, <2>2
<1>3. ASSUME NEW n \in S PROVE n <= o - i
  <2>1. SUFFICES ASSUME n > o - i PROVE FALSE
    BY <1>1
  <2>2. o \in i .. i + n - 1
    BY <1>1, <2>1
  <2> QED BY <1>3, <2>2
<1>4. Len(text) - i + 1 \in Nat /\ S \in SUBSET (0 .. (Len(text) - i + 1) - 1)
  BY <1>1
<1>5. Max(S) \in S /\ \A n \in S : n <= Max(S)
  <2> HIDE DEF S
  <2> QED BY <1>2, <1>4, MaxIsIn
<1>6. Max(S) = o - i
  <2>1. \A n \in S : n \in Int
    BY <1>1
  <2>2. Max(S) <= o - i /\ o - i <= Max(S) /\ Max(S) \in Int /\ o - i \in Int
    <3> HIDE DEF S
    <3> QED BY <1>2, <1>3, <1>5, <2>1
  <2> QED BY <2>2
<1> QED BY <1>6 DEF RunOf

\* The backslashes before a place, as Unescaped counts them.
Slashes(i, j) == Max({n \in 0 .. j - i : \A h \in j - n .. j - 1 : At(h) = "backslash"})

LEMMA SlashesAre ==
    ASSUME NEW i \in Nat, NEW j \in Nat, i <= j
    PROVE  /\ Slashes(i, j) \in 0 .. j - i
           /\ \A h \in j - Slashes(i, j) .. j - 1 : At(h) = "backslash"
           /\ \A n \in 0 .. j - i :
                 (\A h \in j - n .. j - 1 : At(h) = "backslash") => n <= Slashes(i, j)
<1> DEFINE S == {n \in 0 .. j - i : \A h \in j - n .. j - 1 : At(h) = "backslash"}
<1>1. 0 \in S /\ S \in SUBSET (0 .. (j - i + 1) - 1) /\ j - i + 1 \in Nat
  OBVIOUS
<1>2. Max(S) \in S /\ \A n \in S : n <= Max(S)
  <2> HIDE DEF S
  <2> QED BY <1>1, MaxIsIn
<1> QED BY <1>2 DEF Slashes

LEMMA SlashesGoOn ==
    ASSUME NEW i \in Nat, NEW j \in Nat, i <= j
    PROVE  Slashes(i, j + 1) = IF At(j) = "backslash" THEN Slashes(i, j) + 1 ELSE 0
<1> DEFINE a == Slashes(i, j)
           b == Slashes(i, j + 1)
<1>1. /\ a \in 0 .. j - i
      /\ \A h \in j - a .. j - 1 : At(h) = "backslash"
      /\ \A n \in 0 .. j - i : (\A h \in j - n .. j - 1 : At(h) = "backslash") => n <= a
  BY SlashesAre
<1>2. /\ b \in 0 .. (j + 1) - i
      /\ \A h \in (j + 1) - b .. (j + 1) - 1 : At(h) = "backslash"
      /\ \A n \in 0 .. (j + 1) - i :
            (\A h \in (j + 1) - n .. (j + 1) - 1 : At(h) = "backslash") => n <= b
  <2>1. j + 1 \in Nat /\ i <= j + 1
    OBVIOUS
  <2> QED BY <2>1, SlashesAre
<1> HIDE DEF a, b
<1>3. CASE At(j) # "backslash"
  <2>1. ASSUME b # 0 PROVE FALSE
    <3>1. j \in (j + 1) - b .. (j + 1) - 1
      BY <1>2, <2>1
    <3> QED BY <1>2, <1>3, <3>1
  <2> QED BY <1>3, <2>1 DEF a, b
<1>4. CASE At(j) = "backslash"
  <2>1. a + 1 \in 0 .. (j + 1) - i
    BY <1>1
  <2>2. ASSUME NEW h \in (j + 1) - (a + 1) .. (j + 1) - 1 PROVE At(h) = "backslash"
    <3>1. h = j \/ h \in j - a .. j - 1
      BY <1>1
    <3> QED BY <1>1, <1>4, <3>1
  <2>3. a + 1 <= b
    BY <1>2, <2>1, <2>2
  <2>4. b - 1 \in 0 .. j - i
    BY <1>1, <1>2, <2>3
  <2>5. ASSUME NEW h \in j - (b - 1) .. j - 1 PROVE At(h) = "backslash"
    <3>1. h \in (j + 1) - b .. (j + 1) - 1
      BY <1>2
    <3> QED BY <1>2, <3>1
  <2>6. b - 1 <= a
    BY <1>1, <2>4, <2>5
  <2>7. b = a + 1
    BY <1>1, <1>2, <2>3, <2>6
  <2> QED BY <1>4, <2>7 DEF a, b
<1> QED BY <1>3, <1>4

LEMMA UnescapedIs ==
    ASSUME NEW i \in Nat, NEW j \in Nat, i <= j
    PROVE  /\ Unescaped(i, i)
           /\ Unescaped(i, j) /\ At(j) # "backslash" => Unescaped(i, j + 1)
           /\ Unescaped(i, j) /\ At(j) = "backslash" =>
                 ~Unescaped(i, j + 1) /\ Unescaped(i, j + 2)
<1>1. \A k, l : Unescaped(k, l) <=> Slashes(k, l) % 2 = 0
  BY DEF Unescaped, Slashes
<1>2. Slashes(i, i) \in 0 .. i - i
  BY SlashesAre
<1>3. Slashes(i, i) = 0 /\ 0 % 2 = 0
  BY <1>2
<1>4. Slashes(i, j) \in Nat
  <2>1. Slashes(i, j) \in 0 .. j - i
    BY SlashesAre
  <2> QED BY <2>1
<1>5. Slashes(i, j + 1) = IF At(j) = "backslash" THEN Slashes(i, j) + 1 ELSE 0
  BY SlashesGoOn
<1>6. Slashes(i, j + 2) = IF At(j + 1) = "backslash" THEN Slashes(i, j + 1) + 1 ELSE 0
  <2>1. j + 1 \in Nat /\ i <= j + 1 /\ (j + 1) + 1 = j + 2
    OBVIOUS
  <2>2. Slashes(i, (j + 1) + 1) = IF At(j + 1) = "backslash" THEN Slashes(i, j + 1) + 1 ELSE 0
    BY <2>1, SlashesGoOn
  <2> QED BY <2>1, <2>2
<1>7. \A n \in Nat : n % 2 = 0 => (n + 1) % 2 # 0 /\ (n + 2) % 2 = 0
  OBVIOUS
<1>8. Unescaped(i, j) /\ At(j) # "backslash" => Unescaped(i, j + 1)
  BY <1>1, <1>3, <1>5
<1>9. ASSUME Unescaped(i, j), At(j) = "backslash"
      PROVE  ~Unescaped(i, j + 1) /\ Unescaped(i, j + 2)
  <2>1. Slashes(i, j) % 2 = 0 /\ Slashes(i, j + 1) = Slashes(i, j) + 1
    BY <1>1, <1>5, <1>9
  <2>2. (Slashes(i, j) + 1) % 2 # 0 /\ (Slashes(i, j) + 2) % 2 = 0
    BY <1>4, <1>7, <2>1
  <2>3. Slashes(i, j + 2) = Slashes(i, j) + 2 \/ Slashes(i, j + 2) = 0
    BY <1>4, <1>6, <2>1
  <2> QED BY <1>1, <1>3, <2>1, <2>2, <2>3
<1> QED BY <1>1, <1>3, <1>8, <1>9

\* What the parser gets is what the text says.
LEMMA GivenW ==
    ASSUME CInv, WInv, mode \in Reading, NEW kind, NEW at, NEW len, Given(kind, at, len),
           Token(kind, at, len) = Written(FirstFrom(From)),
           off' = EndOf(Token(kind, at, len))
    PROVE  WInv'
<1> DEFINE t == Token(kind, at, len)
<1>1. /\ tokens' = Append(tokens, t) /\ mode' = "idle" /\ text' = text
      /\ tokens \in Seq(Tokens)
  BY DEF Given, CInv, LexTypeOK
<1>2. Len(tokens') = Len(tokens) + 1 /\ tokens' # <<>> /\ Last(tokens') = t
      /\ Len(tokens) \in Nat
  BY <1>1 DEF Last
<1>3. (IF Len(tokens') = 1 THEN 0 ELSE EndOf(tokens'[Len(tokens') - 1])) = From
  <2>1. CASE tokens = <<>>
    BY <1>2, <2>1 DEF From
  <2>2. CASE tokens # <<>>
    <3>1. Len(tokens) >= 1 /\ Len(tokens') # 1 /\ Len(tokens') - 1 = Len(tokens)
      BY <1>1, <1>2, <2>2
    <3>2. tokens'[Len(tokens)] = tokens[Len(tokens)]
      BY <1>1, <3>1
    <3> QED BY <2>2, <3>1, <3>2 DEF From, Last
  <2> QED BY <2>1, <2>2
<1>4. \A i : Written(FirstFrom(i))' = Written(FirstFrom(i))
  <2>1. \A i : FirstFrom(i)' = FirstFrom(i) /\ Written(i)' = Written(i)
    BY <1>1, SameMeaning
  <2> QED BY <2>1
<1>6. off' = EndOf(t)
  OBVIOUS
<1>5. AsWritten'
  <2> DEFINE before == IF Len(tokens) = 1 THEN 0 ELSE EndOf(tokens[Len(tokens) - 1])
  <2>1. before' = From
    BY <1>3
  <2>2. Written(FirstFrom(before))' = t
    <3> HIDE DEF before
    <3> QED BY <1>4, <2>1
  <2>3. Last(tokens)' = t /\ EndOf(Last(tokens))' = EndOf(t)
    BY <1>2 DEF EndOf
  <2> HIDE DEF t
  <2> QED BY <1>2, <1>6, <2>2, <2>3 DEF AsWritten, EndOf
<1> HIDE DEF t
<1> QED BY <1>1, <1>2, <1>5, <1>6 DEF WInv, Reading, EndOf

\* The lexer goes on reading: what is to be shown of each mode.
LEMMA ReadsW ==
    ASSUME mode' \in Reading, UNCHANGED <<text, tokens>>, From \in 0 .. Len(text),
           mode' = "next" => From <= off' /\ Passed(From, off') /\ Clear(From, off'),
           mode' = "line" => From <= off' /\ Passed(From, off') /\ Inside(From, off'),
           mode' \in {"dec", "hex", "symbol", "string"} => FirstFrom(From) \in Nat,
           NEW s, s = FirstFrom(From),
           mode' = "dec" => InDec(s)', mode' = "hex" => InHex(s)',
           mode' = "symbol" => InSymbol(s)', mode' = "string" => InString(s)'
    PROVE  WInv'
<1>1. From' = From
  BY DEF From
<1>2. FirstFrom(From)' = FirstFrom(From)
  BY <1>1, SameMeaning
<1>3. /\ Passed(From, off)' = Passed(From, off') /\ Clear(From, off)' = Clear(From, off')
      /\ Inside(From, off)' = Inside(From, off')
  BY <1>1, SameMeaning
<1>4. /\ mode' = "dec" => InDec(FirstFrom(From))'
      /\ mode' = "hex" => InHex(FirstFrom(From))'
      /\ mode' = "symbol" => InSymbol(FirstFrom(From))'
      /\ mode' = "string" => InString(FirstFrom(From))'
  BY <1>2 DEF InDec, InHex, InSymbol, InString
<1>5. mode' # "idle"
  BY DEF Reading
<1> QED BY <1>1, <1>2, <1>3, <1>4, <1>5 DEF WInv, AsWritten

LEMMA AskW == ASSUME CInv, WInv, Ask PROVE WInv'
<1>1. /\ mode = "idle" /\ UNCHANGED <<text, tokens>> /\ off' = off
      /\ mode' = IF off > Len(text) THEN "beyond" ELSE "next"
  BY DEF Ask, Reads, cursor
<1>2. off \in Nat /\ Len(text) \in Nat
  BY DEF CInv, LexTypeOK
<1>3. From = off
  BY <1>1 DEF WInv, From
<1>4. CASE off <= Len(text)
  <2>1. Passed(off, off) /\ Clear(off, off)
    BY <1>2 DEF Passed, Clear
  <2> QED BY <1>1, <1>2, <1>3, <1>4, <2>1, ReadsW DEF Reading
<1>5. CASE mode' = "beyond"
  BY <1>5 DEF WInv, Reading, AsWritten
<1> QED BY <1>1, <1>2, <1>4, <1>5

\* A place on the way to the next token.
LEMMA Passes ==
    ASSUME NEW f \in Nat, NEW o \in Nat, f <= o, Passed(f, o),
           At(o) \in Space \/ Inside(f, o)
    PROVE  Passed(f, o + 1)
<1> SUFFICES ASSUME NEW j \in f .. (o + 1) - 1
             PROVE  At(j) \in Space \/ \E c \in f .. j : CommentAt(c) /\ SameLine(c, j)
  BY DEF Passed
<1>1. CASE j \in f .. o - 1
  BY <1>1 DEF Passed
<1>2. CASE j = o
  BY <1>2 DEF Inside
<1> QED BY <1>1, <1>2

LEMMA SkipW == ASSUME CInv, WInv, Skip PROVE WInv'
<1>1. /\ mode = "next" /\ UNCHANGED <<text, tokens>> /\ mode \in Reading
      /\ From \in 0 .. Len(text) /\ From <= off /\ Passed(From, off) /\ Clear(From, off)
  BY DEF Skip, Reads, WInv, Reading
<1>2. off \in Nat /\ Len(text) \in Nat /\ Peek = At(off) /\ From \in Nat
  BY <1>1, Seen
<1>3. CASE mode' = "next" /\ off' = off + 1 /\ At(off) \in {" ", "newline"}
  <2>1. Passed(From, off + 1)
    BY <1>1, <1>2, <1>3, Passes DEF Space
  <2>2. ASSUME NEW c \in From .. (off + 1) - 1, CommentAt(c), SameLine(c, off + 1) PROVE FALSE
    <3>1. CASE c = off
      BY <1>3, <2>2, <3>1 DEF CommentAt
    <3>2. CASE c \in From .. off - 1
      <4>1. SameLine(c, off)
        BY <1>2, <2>2 DEF SameLine
      <4> QED BY <1>1, <2>2, <3>2, <4>1 DEF Clear
    <3> QED BY <1>2, <3>1, <3>2
  <2>3. Clear(From, off + 1)
    BY <2>2 DEF Clear
  <2>4. Passed(From, off') /\ Clear(From, off')
    BY <1>3, <2>1, <2>3
  <2>5. off' = off + 1 /\ mode' = "next"
    BY <1>3
  <2>6. From <= off'
    BY <1>1, <1>2, <2>5
  <2>7. mode' \in Reading
    BY <2>5 DEF Reading
  <2> QED BY <1>1, <2>4, <2>5, <2>6, <2>7, ReadsW
<1>4. CASE mode' = "line" /\ off' = off /\ At(off) = "#"
  <2>1. CommentAt(off) /\ SameLine(off, off)
    BY <1>2, <1>4 DEF CommentAt, SameLine
  <2>2. Inside(From, off)
    BY <1>1, <1>2, <2>1 DEF Inside
  <2> QED BY <1>1, <1>2, <1>4, <2>2, ReadsW DEF Reading
<1>5. CASE mode' = "line" /\ off' = off + 1 /\ At(off) = "/" /\ At(off + 1) = "/"
  <2>1. CommentAt(off) /\ SameLine(off, off)
    BY <1>2, <1>5 DEF CommentAt, SameLine
  <2>2. Inside(From, off)
    BY <1>1, <1>2, <2>1 DEF Inside
  <2>3. Passed(From, off + 1)
    BY <1>1, <1>2, <2>2, Passes
  <2>4. SameLine(off, off + 1)
    <3>1. ASSUME NEW h \in off .. (off + 1) - 1 PROVE At(h) # "newline"
      <4>1. h = off
        BY <1>2
      <4> QED BY <1>5, <4>1
    <3> QED BY <3>1 DEF SameLine
  <2>5. Inside(From, off + 1)
    BY <1>1, <1>2, <2>1, <2>4 DEF Inside
  <2> QED BY <1>1, <1>2, <1>5, <2>3, <2>5, ReadsW DEF Reading
<1> QED BY <1>2, <1>3, <1>4, <1>5 DEF Skip, Newline, Blank, Read, Reads, cursor

LEMMA SkipLineW == ASSUME CInv, WInv, SkipLine PROVE WInv'
<1>1. /\ mode = "line" /\ UNCHANGED <<text, tokens>> /\ mode \in Reading
      /\ From \in 0 .. Len(text) /\ From <= off /\ Passed(From, off) /\ Inside(From, off)
      /\ off' = off + 1
  BY DEF SkipLine, Reads, WInv, Reading, Newline, Read
<1>2. off \in Nat /\ Len(text) \in Nat /\ Peek = At(off) /\ From \in Nat
  BY <1>1, Seen
<1>3. Passed(From, off + 1)
  BY <1>1, <1>2, Passes
<1>4. CASE Peek = "newline"
  <2>1. mode' = "next"
    BY <1>4 DEF SkipLine, Reads
  <2>2. ASSUME NEW c \in From .. (off + 1) - 1 PROVE ~SameLine(c, off + 1)
    <3>1. off \in c .. (off + 1) - 1
      BY <1>1, <1>2
    <3> QED BY <1>2, <1>4, <3>1 DEF SameLine
  <2>3. Clear(From, off + 1)
    BY <2>2 DEF Clear
  <2> QED BY <1>1, <1>2, <1>3, <2>1, <2>3, ReadsW DEF Reading
<1>5. CASE Peek # "newline" /\ AtNUL(off)
  <2>1. mode' = "beyond"
    BY <1>5 DEF SkipLine, Reads
  <2> QED BY <2>1 DEF WInv, Reading, AsWritten
<1>6. CASE Peek # "newline" /\ ~AtNUL(off)
  <2>1. mode' = "line"
    BY <1>6 DEF SkipLine, Reads
  <2>2. PICK c \in From .. off : CommentAt(c) /\ SameLine(c, off)
    BY <1>1 DEF Inside
  <2>3. ASSUME NEW h \in c .. (off + 1) - 1 PROVE At(h) # "newline"
    <3>1. h = off \/ h \in c .. off - 1
      BY <1>1, <1>2
    <3> QED BY <1>2, <1>6, <2>2, <3>1 DEF SameLine
  <2>4. Inside(From, off + 1)
    BY <1>1, <1>2, <2>2, <2>3 DEF Inside, SameLine
  <2> QED BY <1>1, <1>2, <1>3, <2>1, <2>4, ReadsW DEF Reading
<1> QED BY <1>4, <1>5, <1>6

\* No blank and no comment: a token begins here.
LEMMA Starts ==
    ASSUME CInv, WInv, mode = "next", Peek \notin Space, Peek # "#",
           ~(Peek = "/" /\ At(off + 1) = "/")
    PROVE  FirstFrom(From) = off /\ mode \in Reading
<1>1. mode \in Reading
  BY DEF Reading
<1>2. /\ off \in Nat /\ off <= Len(text) /\ Len(text) \in Nat /\ Peek = At(off) /\ LexTypeOK
      /\ From \in Nat /\ From <= off /\ Passed(From, off) /\ Clear(From, off)
  <2>1. From \in 0 .. Len(text)
    BY <1>1 DEF WInv
  <2> QED BY <1>1, <2>1, Seen DEF WInv, CInv
<1>3. ~CommentAt(off)
  BY <1>2 DEF CommentAt
<1> QED BY <1>1, <1>2, <1>3, FirstIs

\* What the text says of the token that begins at i, by its first characters.
LEMMA WrittenAs ==
    ASSUME NEW i \in Nat
    PROVE  /\ <<At(i), At(i + 1)>> = <<"0", "x">> =>
                 Written(i) = Wanting(At(i + (2 + RunOf(i + 2, XDigit))) \in Term,
                                      "hex", i, 2 + RunOf(i + 2, XDigit), 2 + RunOf(i + 2, XDigit) + 1)
           /\ At(i + Sign(i)) \in Digit /\ <<At(i), At(i + 1)>> # <<"0", "x">> =>
                 Written(i) = Wanting(At(i + (Sign(i) + RunOf(i + Sign(i), Digit))) \in Term,
                                      "dec", i, Sign(i) + RunOf(i + Sign(i), Digit),
                                      Sign(i) + RunOf(i + Sign(i), Digit) + 1)
           /\ At(i) \in Letter =>
                 Written(i) = Wanting(At(i + RunOf(i, Letter \cup Digit)) \in Term,
                                      "symbol", i, RunOf(i, Letter \cup Digit),
                                      RunOf(i, Letter \cup Digit))
           /\ At(i) = "quote" =>
                 Written(i) = Wanting(At(Min(Closing(i + 1))) = "quote",
                                      "string", i + 1, Min(Closing(i + 1)) - i - 1,
                                      Min(Closing(i + 1)) - i - 1)
           /\ <<At(i), At(i + 1)>> \in Pairs => Written(i) = Token("pair", i, 2)
           /\ At(i) = "-" /\ At(i + 1) = ">" => Written(i) = Token("dict", i - 1, 2)
           /\ At(i) = "@" => Written(i) = Wanting(At(i + 1) = "{", "list", i, 2, 1)
           /\ /\ At(i) \notin Digit \cup Letter \cup {"quote", "@"}
              /\ <<At(i), At(i + 1)>> \notin Pairs
              /\ At(i) = "-" => At(i + 1) \notin Digit \cup {">"}
              => Written(i) = Wanting(At(i) \notin Alone, At(i), i, 1, 0)
<1>0. (At(i) # "-" => Sign(i) = 0 /\ i + Sign(i) = i) /\ (At(i) = "-" => Sign(i) = 1)
  BY DEF Sign
<1>1. <<At(i), At(i + 1)>> = <<"0", "x">> =>
         Written(i) = Wanting(At(i + (2 + RunOf(i + 2, XDigit))) \in Term,
                              "hex", i, 2 + RunOf(i + 2, XDigit), 2 + RunOf(i + 2, XDigit) + 1)
  BY DEF Written
<1>2. At(i + Sign(i)) \in Digit /\ <<At(i), At(i + 1)>> # <<"0", "x">> =>
         Written(i) = Wanting(At(i + (Sign(i) + RunOf(i + Sign(i), Digit))) \in Term,
                              "dec", i, Sign(i) + RunOf(i + Sign(i), Digit),
                                      Sign(i) + RunOf(i + Sign(i), Digit) + 1)
  BY DEF Written, Sign
<1>3. At(i) \in Letter =>
         Written(i) = Wanting(At(i + RunOf(i, Letter \cup Digit)) \in Term,
                              "symbol", i, RunOf(i, Letter \cup Digit),
                                      RunOf(i, Letter \cup Digit))
  BY <1>0 DEF Written, Letter, Digit, Sign
<1>4. At(i) = "quote" =>
         Written(i) = Wanting(At(Min(Closing(i + 1))) = "quote",
                              "string", i + 1, Min(Closing(i + 1)) - i - 1,
                                      Min(Closing(i + 1)) - i - 1)
  BY <1>0 DEF Written, Letter, Digit, Sign
<1>5. <<At(i), At(i + 1)>> \in Pairs => Written(i) = Token("pair", i, 2)
  BY <1>0 DEF Written, Letter, Digit, Sign, Pairs
<1>6. At(i) = "-" /\ At(i + 1) = ">" => Written(i) = Token("dict", i - 1, 2)
  BY <1>0 DEF Written, Letter, Digit, Sign, Pairs
<1>7. At(i) = "@" => Written(i) = Wanting(At(i + 1) = "{", "list", i, 2, 1)
  BY <1>0 DEF Written, Letter, Digit, Sign, Pairs
<1>8. /\ At(i) \notin Digit \cup Letter \cup {"quote", "@"}
      /\ <<At(i), At(i + 1)>> \notin Pairs
      /\ At(i) = "-" => At(i + 1) \notin Digit \cup {">"}
      => Written(i) = Wanting(At(i) \notin Alone, At(i), i, 1, 0)
  BY <1>0 DEF Written, Letter, Digit, Sign
<1> QED BY <1>1, <1>2, <1>3, <1>4, <1>5, <1>6, <1>7, <1>8

\* A token that is complete with its first characters, or none.
LEMMA SingleW == ASSUME CInv, WInv, Single PROVE WInv'
<1>1. mode \in Reading /\ mode = "next"
  BY DEF Single, Reading
<1>2. /\ off \in Nat /\ Peek = At(off) /\ Peek \in Char \cup {EOS}
  BY <1>1, Seen
<1>3. /\ Peek \notin Digit \cup Letter \cup {"quote", "@"} \cup Alone \cup Space
      /\ Peek # "#" /\ Peek # ERROR
      /\ <<Peek, At(off + 1)>> \notin Pairs
      /\ Peek = "-" => At(off + 1) \notin Digit \cup {">"}
      /\ ~(Peek = "/" /\ At(off + 1) = "/")
  BY Firsts DEF Single, Digit, Letter, Alone, Space, TermChar, EOS, ERROR, Pairs
<1>4. FirstFrom(From) = off
  BY <1>1, <1>3, Starts
<1>5. Written(off) = Wanting(Peek \notin Alone, Peek, off, 1, 0)
  BY <1>2, <1>3, WrittenAs
<1>6. Written(off) = Token(Peek, off, 1)
  BY <1>3, <1>5 DEF Wanting
<1>7. Given(Peek, off, 1) /\ off' = off + 1
  BY DEF Single, Read
<1>8. EndOf(Token(Peek, off, 1)) = off + 1
  <2>1. Peek \notin {"string", "dict"}
    BY <1>2, LexAssumption
       DEF LexAssumption, EOS, Letter, Digit, TermChar, PrexChar, Space, Alone, MinusOne
  <2> QED BY <1>2, <2>1 DEF EndOf, Token
<1> QED BY <1>1, <1>3, <1>4, <1>6, <1>7, <1>8, GivenW

LEMMA DoubleW == ASSUME CInv, WInv, Double PROVE WInv'
<1>1. mode \in Reading /\ mode = "next"
  BY DEF Double, Reading
<1>2. off \in Nat /\ Peek = At(off) /\ off' = off + 2
  BY <1>1, Seen DEF Double, Read
<1>3. ASSUME NEW kind \in {"pair", "list", "dict"}, NEW at \in {off, off - 1},
             Given(kind, at, 2), Written(off) = Token(kind, at, 2),
             at = IF kind = "dict" THEN off - 1 ELSE off, FirstFrom(From) = off
      PROVE  WInv'
  <2>1. EndOf(Token(kind, at, 2)) = off + 2
    BY <1>2, <1>3 DEF EndOf, Token
  <2> QED BY <1>1, <1>2, <1>3, <2>1, GivenW
<1>4. CASE <<Peek, At(off + 1)>> \in Pairs /\ Given("pair", off, 2)
  <2>1. FirstFrom(From) = off
    BY <1>1, <1>4, Starts DEF Pairs, Space
  <2> QED BY <1>2, <1>3, <1>4, <2>1, WrittenAs
<1>5. CASE Peek = "@" /\ At(off + 1) = "{" /\ Given("list", off, 2)
  <2>1. FirstFrom(From) = off
    BY <1>1, <1>5, Starts DEF Space
  <2> QED BY <1>2, <1>3, <1>5, <2>1, WrittenAs DEF Wanting
<1>6. CASE Peek = "-" /\ At(off + 1) = ">" /\ Given("dict", off - 1, 2)
  <2>1. FirstFrom(From) = off
    BY <1>1, <1>6, Starts DEF Space
  <2> QED BY <1>2, <1>3, <1>6, <2>1, WrittenAs
<1> QED BY <1>4, <1>5, <1>6 DEF Double

LEMMA BadW == ASSUME CInv, WInv, Bad PROVE WInv'
<1>1. mode \in Reading /\ mode = "next"
  BY DEF Bad, Reading
<1>2. off \in Nat /\ Peek = At(off)
  BY <1>1, Seen
<1>3. \A n \in {0, 1} : EndOf(Token(ERROR, off, n)) = off + n
  BY <1>2 DEF EndOf, Token, ERROR
<1>4. CASE Peek = "@" /\ At(off + 1) # "{" /\ Given(ERROR, off, 1) /\ Read(1)
  <2>1. FirstFrom(From) = off
    BY <1>1, <1>4, Starts DEF Space
  <2>2. Written(off) = Wanting(At(off + 1) = "{", "list", off, 2, 1)
    BY <1>2, <1>4, WrittenAs
  <2>3. Written(off) = Token(ERROR, off, 1)
    BY <1>4, <2>2 DEF Wanting
  <2>4. off' = EndOf(Token(ERROR, off, 1))
    BY <1>3, <1>4 DEF Read
  <2> QED BY <1>1, <1>4, <2>1, <2>3, <2>4, GivenW
<1>5. CASE Peek \in Alone /\ Given(ERROR, off, 0) /\ UNCHANGED cursor
  <2>1. FirstFrom(From) = off
    BY <1>1, <1>5, Starts DEF Space, Alone
  <2>2. Written(off) = Wanting(At(off) \notin Alone, At(off), off, 1, 0)
    BY <1>2, <1>5, WrittenAs DEF Alone, Digit, Letter, Pairs
  <2>3. Written(off) = Token(ERROR, off, 0)
    BY <1>2, <1>5, <2>2 DEF Wanting
  <2>4. off' = EndOf(Token(ERROR, off, 0))
    BY <1>2, <1>3, <1>5 DEF cursor
  <2> QED BY <1>1, <1>5, <2>1, <2>3, <2>4, GivenW
<1> QED BY <1>4, <1>5 DEF Bad

\* What is to be shown of a token that is read on.
LEMMA ReadingOn ==
    ASSUME text' = text, NEW s
    PROVE  /\ InDec(s)' <=>
                /\ x'.off = s /\ off' = s + x'.len /\ Sign(s) <= x'.len
                /\ <<At(s), At(s + 1)>> # <<"0", "x">> /\ At(s + Sign(s)) \in Digit
                /\ All(s + Sign(s), off', Digit)
           /\ InHex(s)' <=>
                /\ x'.off = s /\ off' = s + x'.len /\ 2 <= x'.len
                /\ <<At(s), At(s + 1)>> = <<"0", "x">> /\ All(s + 2, off', XDigit)
           /\ InSymbol(s)' <=>
                /\ x'.off = s /\ off' = s + x'.len
                /\ At(s) \in Letter /\ All(s, off', Letter \cup Digit)
           /\ InString(s)' <=>
                /\ x'.off = s + 1 /\ At(s) = "quote"
                /\ \/ AtNUL(off')
                   \/ /\ off' = s + 1 + x'.len /\ Unescaped(s + 1, off')
                      /\ \A j \in s + 1 .. off' - 1 : j \notin Closing(s + 1)
<1>1. InDec(s)' <=>
        /\ x'.off = s /\ off' = s + x'.len /\ Sign(s) <= x'.len
        /\ <<At(s), At(s + 1)>> # <<"0", "x">> /\ At(s + Sign(s)) \in Digit
        /\ All(s + Sign(s), off', Digit)
  BY DEF InDec, Sign, All, At, AtNUL
<1>2. InHex(s)' <=>
        /\ x'.off = s /\ off' = s + x'.len /\ 2 <= x'.len
        /\ <<At(s), At(s + 1)>> = <<"0", "x">> /\ All(s + 2, off', XDigit)
  BY DEF InHex, All, At, AtNUL
<1>3. InSymbol(s)' <=>
        /\ x'.off = s /\ off' = s + x'.len
        /\ At(s) \in Letter /\ All(s, off', Letter \cup Digit)
  BY DEF InSymbol, All, At, AtNUL
<1>4. InString(s)' <=>
        /\ x'.off = s + 1 /\ At(s) = "quote"
        /\ \/ AtNUL(off')
           \/ /\ off' = s + 1 + x'.len /\ Unescaped(s + 1, off')
              /\ \A j \in s + 1 .. off' - 1 : j \notin Closing(s + 1)
  BY DEF InString, Closing, Unescaped, At, AtNUL
<1> QED BY <1>1, <1>2, <1>3, <1>4

LEMMA BeginW == ASSUME CInv, WInv, Begin PROVE WInv'
<1>1. /\ mode \in Reading /\ mode = "next" /\ UNCHANGED <<text, tokens>>
      /\ From \in 0 .. Len(text)
  BY DEF Begin, Reading, Reads, WInv
<1>2. /\ off \in Nat /\ Peek = At(off)
  BY <1>1, Seen
<1>3. /\ Peek \notin Space /\ Peek # "#" /\ Peek # "/"
  BY DEF Begin, Space, Digit, Letter
<1>4. FirstFrom(From) = off
  BY <1>1, <1>3, Starts
<1>5. PICK s \in Nat : s = off
  BY <1>2
<1>6. CASE /\ Peek \in Digit /\ <<Peek, At(off + 1)>> # <<"0", "x">>
           /\ Reads("dec", off, 0) /\ UNCHANGED cursor
  <2>1. mode' = "dec" /\ mode' \in Reading
    BY <1>6 DEF Reads, Reading
  <2>2. x'.off = s /\ x'.len = 0 /\ off' = s
    BY <1>5, <1>6 DEF Reads, Token, cursor
  <2>3. Sign(s) = 0 /\ s + Sign(s) = s
    BY <1>2, <1>5, <1>6 DEF Sign, Digit
  <2>4. All(s + Sign(s), off', Digit)
    BY <2>2, <2>3 DEF All
  <2>5. /\ <<At(s), At(s + 1)>> # <<"0", "x">> /\ At(s + Sign(s)) \in Digit
        /\ off' = s + x'.len /\ Sign(s) <= x'.len
    BY <1>2, <1>5, <1>6, <2>2, <2>3
  <2>6. InDec(s)'
    BY <1>1, <2>2, <2>4, <2>5, ReadingOn
  <2> QED BY <1>1, <1>4, <1>5, <2>1, <2>6, ReadsW
<1>7. CASE Peek = "-" /\ At(off + 1) \in Digit /\ Reads("dec", off, 1) /\ Read(1)
  <2>1. mode' = "dec" /\ mode' \in Reading
    BY <1>7 DEF Reads, Reading
  <2>2. x'.off = s /\ x'.len = 1 /\ off' = s + 1
    BY <1>5, <1>7 DEF Reads, Token, Read
  <2>3. Sign(s) = 1
    BY <1>2, <1>5, <1>7 DEF Sign
  <2>4. All(s + Sign(s), off', Digit)
    BY <2>2, <2>3 DEF All
  <2>5. /\ <<At(s), At(s + 1)>> # <<"0", "x">> /\ At(s + Sign(s)) \in Digit
        /\ off' = s + x'.len /\ Sign(s) <= x'.len
    <3>1. s + Sign(s) = off + 1
      BY <1>5, <2>3
    <3>2. <<At(s), At(s + 1)>> # <<"0", "x">>
      BY <1>2, <1>5, <1>7
    <3> QED BY <1>7, <2>2, <2>3, <3>1, <3>2
  <2>6. InDec(s)'
    BY <1>1, <2>2, <2>4, <2>5, ReadingOn
  <2> QED BY <1>1, <1>4, <1>5, <2>1, <2>6, ReadsW
<1>8. CASE <<Peek, At(off + 1)>> = <<"0", "x">> /\ Reads("hex", off, 2) /\ Read(2)
  <2>1. mode' = "hex" /\ mode' \in Reading
    BY <1>8 DEF Reads, Reading
  <2>2. x'.off = s /\ x'.len = 2 /\ off' = s + 2
    BY <1>5, <1>8 DEF Reads, Token, Read
  <2>3. All(s + 2, off', XDigit)
    BY <2>2 DEF All
  <2>4. <<At(s), At(s + 1)>> = <<"0", "x">> /\ off' = s + x'.len /\ 2 <= x'.len
    BY <1>2, <1>5, <1>8, <2>2
  <2>5. InHex(s)'
    BY <1>1, <2>2, <2>3, <2>4, ReadingOn
  <2> QED BY <1>1, <1>4, <1>5, <2>1, <2>5, ReadsW
<1>9. CASE Peek \in Letter /\ Reads("symbol", off, 0) /\ UNCHANGED cursor
  <2>1. mode' = "symbol" /\ mode' \in Reading
    BY <1>9 DEF Reads, Reading
  <2>2. x'.off = s /\ x'.len = 0 /\ off' = s
    BY <1>5, <1>9 DEF Reads, Token, cursor
  <2>3. All(s, off', Letter \cup Digit)
    BY <2>2 DEF All
  <2>4. At(s) \in Letter /\ off' = s + x'.len
    BY <1>2, <1>5, <1>9, <2>2
  <2>5. InSymbol(s)'
    BY <1>1, <2>2, <2>3, <2>4, ReadingOn
  <2> QED BY <1>1, <1>4, <1>5, <2>1, <2>5, ReadsW
<1>10. CASE Peek = "quote" /\ Reads("string", off + 1, 0) /\ Read(1)
  <2>1. mode' = "string" /\ mode' \in Reading
    BY <1>10 DEF Reads, Reading
  <2>2. x'.off = s + 1 /\ x'.len = 0 /\ off' = s + 1
    BY <1>5, <1>10 DEF Reads, Token, Read
  <2>3. s + 1 \in Nat /\ Unescaped(s + 1, s + 1)
    BY UnescapedIs
  <2>4. \A j \in s + 1 .. off' - 1 : j \notin Closing(s + 1)
    BY <2>2
  <2>5. off' = s + 1 + x'.len /\ Unescaped(s + 1, off')
    BY <2>2, <2>3
  <2>6. InString(s)'
    BY <1>1, <1>2, <1>5, <1>10, <2>2, <2>4, <2>5, ReadingOn
  <2> QED BY <1>1, <1>4, <1>5, <2>1, <2>6, ReadsW
<1> QED BY <1>6, <1>7, <1>8, <1>9, <1>10 DEF Begin

\* A number or a symbol ends where the first character stands that it cannot have, and the
\* text says the same.
LEMMA ScanIs ==
    ASSUME CInv, WInv, mode \in {"dec", "hex", "symbol"}, NEW s, s = FirstFrom(From)
    PROVE  /\ s \in Nat /\ x.off = s /\ x.len \in Nat /\ off = s + x.len
           /\ Peek \notin Of[mode] =>
                 Written(s) = Wanting(Peek \in Term, mode, s, x.len,
                                     IF mode = "symbol" THEN x.len ELSE x.len + 1)
<1>1. mode \in Reading /\ LexTypeOK
  BY DEF Reading, CInv
<1>2. /\ off \in Nat /\ Len(text) \in Nat /\ off <= Len(text) /\ Peek = At(off)
      /\ x \in Tokens
  BY <1>1, Seen
<1>3. s \in Nat /\ x.off = s /\ off = s + x.len /\ x.len \in Nat
  BY <1>2 DEF WInv, InDec, InHex, InSymbol, Tokens
<1>4. ASSUME Peek \notin Of[mode], mode = "dec"
      PROVE  Written(s) = Wanting(Peek \in Term, mode, s, x.len, x.len + 1)
  <2>1. InDec(s)
    BY <1>4 DEF WInv
  <2>2. Sign(s) \in Nat /\ s + Sign(s) \in Nat /\ s + Sign(s) <= off
    BY <1>3, <2>1 DEF Sign, InDec
  <2>3. Of[mode] = Digit /\ EOS \notin Digit
    BY <1>4 DEF Of, EOS, Digit
  <2>4. RunOf(s + Sign(s), Digit) = off - (s + Sign(s))
    BY <1>1, <1>2, <1>4, <2>1, <2>2, <2>3, RunIs DEF InDec
  <2>5. Sign(s) + RunOf(s + Sign(s), Digit) = x.len
    <3>1. PICK g \in Nat : g = Sign(s)
      BY <2>2
    <3>2. g + (off - (s + g)) = x.len
      BY <1>3
    <3> QED BY <2>4, <3>1, <3>2
  <2>6. Written(s) = Wanting(At(s + x.len) \in Term, "dec", s, x.len, x.len + 1)
    BY <1>3, <2>1, <2>5, WrittenAs DEF InDec
  <2> QED BY <1>2, <1>3, <1>4, <2>6
<1>5. ASSUME Peek \notin Of[mode], mode = "hex"
      PROVE  Written(s) = Wanting(Peek \in Term, mode, s, x.len, x.len + 1)
  <2>1. InHex(s)
    BY <1>5 DEF WInv
  <2>2. s + 2 \in Nat /\ s + 2 <= off
    BY <1>3, <2>1 DEF InHex
  <2>3. Of[mode] = XDigit /\ EOS \notin XDigit
    BY <1>5 DEF Of, EOS, XDigit
  <2>4. RunOf(s + 2, XDigit) = off - (s + 2)
    BY <1>1, <1>2, <1>5, <2>1, <2>2, <2>3, RunIs DEF InHex
  <2>5. 2 + RunOf(s + 2, XDigit) = x.len
    BY SMTT(60), <1>2, <1>3, <2>4
  <2>6. Written(s) = Wanting(At(s + x.len) \in Term, "hex", s, x.len, x.len + 1)
    BY <1>3, <2>1, <2>5, WrittenAs DEF InHex
  <2> QED BY <1>2, <1>3, <1>5, <2>6
<1>6. ASSUME Peek \notin Of[mode], mode = "symbol"
      PROVE  Written(s) = Wanting(Peek \in Term, mode, s, x.len, x.len)
  <2>1. InSymbol(s)
    BY <1>6 DEF WInv
  <2>2. s <= off
    BY <1>3
  <2>3. Of[mode] = Letter \cup Digit /\ EOS \notin Letter \cup Digit
    BY <1>6 DEF Of, EOS, Letter, Digit
  <2>4. RunOf(s, Letter \cup Digit) = off - s
    BY <1>1, <1>2, <1>3, <1>6, <2>1, <2>2, <2>3, RunIs DEF InSymbol
  <2>5. RunOf(s, Letter \cup Digit) = x.len
    BY <1>2, <1>3, <2>4
  <2>6. Written(s) = Wanting(At(s + x.len) \in Term, "symbol", s, x.len, x.len)
    BY <1>3, <2>1, <2>5, WrittenAs DEF InSymbol
  <2> QED BY <1>2, <1>3, <1>6, <2>6
<1> QED BY <1>3, <1>4, <1>5, <1>6

LEMMA ScanW == ASSUME CInv, WInv, Scan PROVE WInv'
<1>1. /\ mode \in {"dec", "hex", "symbol"} /\ mode \in Reading
      /\ From \in 0 .. Len(text)
  BY DEF Scan, Of, Reading, WInv
<1>2. PICK s : s = FirstFrom(From)
  OBVIOUS
<1>3. /\ s \in Nat /\ x.off = s /\ x.len \in Nat /\ off = s + x.len
      /\ Peek \notin Of[mode] =>
            Written(s) = Wanting(Peek \in Term, mode, s, x.len,
                                 IF mode = "symbol" THEN x.len ELSE x.len + 1)
  BY <1>1, <1>2, ScanIs
<1>4. /\ off \in Nat /\ Peek = At(off) /\ x \in Tokens
  BY <1>1, Seen
<1>5. CASE Peek \in Of[mode] /\ Longer(1) /\ Read(1)
  <2>1. /\ mode' = mode /\ x'.off = s /\ x'.len = x.len + 1 /\ off' = off + 1
        /\ UNCHANGED <<text, tokens>>
    BY <1>3, <1>4, <1>5, LongerReads DEF Read
  <2>2. off' = s + x'.len
    BY <1>3, <2>1
  <2>3. ASSUME NEW i \in Nat, NEW set, All(i, off, set), Of[mode] = set
        PROVE  All(i, off', set)
    <3>1. ASSUME NEW j \in i .. off' - 1 PROVE At(j) \in set
      <4>1. j = off \/ j \in i .. off - 1
        BY <1>4, <2>1
      <4> QED BY <1>4, <1>5, <2>3, <4>1 DEF All
    <3> QED BY <3>1 DEF All
  <2>4. CASE mode = "dec"
    <3>1. InDec(s)
      BY <1>2, <2>4 DEF WInv
    <3>2. s + Sign(s) \in Nat /\ Sign(s) \in Nat /\ Of[mode] = Digit
      BY <1>3, <2>4 DEF Sign, Of
    <3>3. All(s + Sign(s), off', Digit)
      BY <2>3, <3>1, <3>2 DEF InDec
    <3>4. Sign(s) <= x'.len
      BY <1>3, <2>1, <3>1, <3>2 DEF InDec
    <3>5. <<At(s), At(s + 1)>> # <<"0", "x">> /\ At(s + Sign(s)) \in Digit
      BY <3>1 DEF InDec
    <3>6. InDec(s)'
      BY <2>1, <2>2, <3>3, <3>4, <3>5, ReadingOn
    <3> QED BY <1>1, <1>2, <1>3, <2>1, <2>4, <3>6, ReadsW
  <2>5. CASE mode = "hex"
    <3>1. InHex(s)
      BY <1>2, <2>5 DEF WInv
    <3>2. s + 2 \in Nat /\ Of[mode] = XDigit
      BY <1>3, <2>5 DEF Of
    <3>3. All(s + 2, off', XDigit)
      BY <2>3, <3>1, <3>2 DEF InHex
    <3>4. 2 <= x'.len
      BY <1>3, <2>1, <3>1 DEF InHex
    <3>5. <<At(s), At(s + 1)>> = <<"0", "x">>
      BY <3>1 DEF InHex
    <3>6. InHex(s)'
      BY <2>1, <2>2, <3>3, <3>4, <3>5, ReadingOn
    <3> QED BY <1>1, <1>2, <1>3, <2>1, <2>5, <3>6, ReadsW
  <2>6. CASE mode = "symbol"
    <3>1. InSymbol(s)
      BY <1>2, <2>6 DEF WInv
    <3>2. Of[mode] = Letter \cup Digit
      BY <2>6 DEF Of
    <3>3. All(s, off', Letter \cup Digit)
      BY <1>3, <2>3, <3>1, <3>2 DEF InSymbol
    <3>4. At(s) \in Letter
      BY <3>1 DEF InSymbol
    <3>5. InSymbol(s)'
      BY <2>1, <2>2, <3>3, <3>4, ReadingOn
    <3> QED BY <1>1, <1>2, <1>3, <2>1, <2>6, <3>5, ReadsW
  <2> QED BY <1>1, <2>4, <2>5, <2>6
<1>6. CASE Peek \in Term /\ Given(mode, x.off, x.len) /\ Back
  <2>1. Peek \notin Of[mode]
    <3>1. Of[mode] \in {Digit, XDigit, Letter \cup Digit}
      BY <1>1 DEF Of
    <3>2. Peek \notin Digit \cup XDigit \cup Letter
      BY <1>6 DEF Term, EOS, TermChar, PrexChar, Space, Digit, XDigit, Letter
    <3> QED BY <3>1, <3>2
  <2>2. Written(s) = Token(mode, s, x.len)
    BY <1>3, <1>6, <2>1 DEF Wanting
  <2>3. mode \notin {"string", "dict"}
    BY <1>1
  <2>4. EndOf(Token(mode, s, x.len)) = off
    BY <1>3, <2>3 DEF EndOf, Token
  <2>5. off' = off
    BY <1>6 DEF Back, cursor
  <2>6. Given(mode, s, x.len)
    BY <1>3, <1>6
  <2> QED BY <1>1, <1>2, <2>2, <2>3, <2>4, <2>5, <2>6, GivenW
<1>7. ASSUME NEW n \in Nat, Peek \notin Of[mode] \cup Term, Given(ERROR, x.off, n), off' = s + n,
             n = IF mode = "symbol" THEN x.len ELSE x.len + 1
      PROVE  WInv'
  <2>1. Written(s) = Token(ERROR, s, n)
    BY <1>3, <1>7 DEF Wanting
  <2>2. EndOf(Token(ERROR, s, n)) = s + n
    BY <1>3 DEF EndOf, Token, ERROR
  <2>3. Given(ERROR, s, n)
    BY <1>3, <1>7
  <2> QED BY <1>1, <1>2, <1>7, <2>1, <2>2, <2>3, GivenW
<1>8. CASE /\ Peek \notin Of[mode] \cup Term /\ mode = "symbol"
           /\ Given(ERROR, x.off, x.len) /\ UNCHANGED cursor
  BY <1>3, <1>7, <1>8 DEF cursor
<1>9. CASE /\ Peek \notin Of[mode] \cup Term /\ mode # "symbol"
           /\ Given(ERROR, x.off, x.len + 1) /\ Read(1)
  <2>1. off' = s + (x.len + 1) /\ x.len + 1 \in Nat
    BY <1>3, <1>9 DEF Read
  <2> QED BY <1>7, <1>9, <2>1
<1> QED BY <1>5, <1>6, <1>8, <1>9 DEF Scan

LEMMA SameW == ASSUME WInv, UNCHANGED lex_vars PROVE WInv'
<1>1. /\ text' = text /\ off' = off /\ mode' = mode /\ x' = x /\ tokens' = tokens
  BY DEF lex_vars, cursor
<1>2. From' = From /\ AsWritten'
  <2>1. From' = From
    BY <1>1 DEF From
  <2>2. \A i : FirstFrom(i)' = FirstFrom(i) /\ Written(i)' = Written(i)
    BY <1>1, SameMeaning
  <2> DEFINE before == IF Len(tokens) = 1 THEN 0 ELSE EndOf(tokens[Len(tokens) - 1])
             w == Written(FirstFrom(before))
  <2>3. w' = w
    <3>1. before' = before
      BY <1>1
    <3> HIDE DEF before
    <3> QED BY <2>2, <3>1
  <2>4. AsWritten
    BY DEF WInv
  <2>5. AsWritten'
    BY <1>1, <2>3, <2>4 DEF AsWritten
  <2> QED BY <2>1, <2>5
<1>3. FirstFrom(From)' = FirstFrom(From)
  BY <1>1, <1>2, SameMeaning
<1>4. /\ Passed(From, off)' = Passed(From, off) /\ Clear(From, off)' = Clear(From, off)
      /\ Inside(From, off)' = Inside(From, off)
  BY <1>1, <1>2, SameMeaning
<1>5. \A s : /\ InDec(s)' = InDec(s) /\ InHex(s)' = InHex(s)
             /\ InSymbol(s)' = InSymbol(s) /\ InString(s)' = InString(s)
  BY SMTT(60), <1>1 DEF InDec, InHex, InSymbol, InString, All, Sign, Closing, Unescaped, At, AtNUL
<1>6. /\ InDec(FirstFrom(From))' = InDec(FirstFrom(From))
      /\ InHex(FirstFrom(From))' = InHex(FirstFrom(From))
      /\ InSymbol(FirstFrom(From))' = InSymbol(FirstFrom(From))
      /\ InString(FirstFrom(From))' = InString(FirstFrom(From))
  BY <1>3, <1>5 DEF InDec, InHex, InSymbol, InString
<1> QED BY <1>1, <1>2, <1>3, <1>4, <1>6 DEF WInv

LEMMA ReadRawW == ASSUME CInv, WInv, ReadRaw PROVE WInv'
<1>1. mode = "string" /\ mode \in Reading /\ LexTypeOK /\ From \in 0 .. Len(text)
  BY DEF ReadRaw, Reading, CInv, WInv
<1>2. /\ off \in Nat /\ Len(text) \in Nat /\ Peek = At(off) /\ x \in Tokens
      /\ ~AtNUL(off) => off + 1 <= Len(text)
      /\ AtNUL(off) => Peek = EOS
  BY <1>1, Seen
<1>3. PICK s : s = FirstFrom(From)
  OBVIOUS
<1>4. s \in Nat /\ InString(s)
  BY <1>1, <1>3 DEF WInv
<1>5. x.off = s + 1 /\ At(s) = "quote" /\ x.len \in Nat
  BY <1>2, <1>4 DEF InString, Tokens
<1>6. ASSUME ~AtNUL(off)
      PROVE  /\ off = s + 1 + x.len /\ Unescaped(s + 1, off)
             /\ \A j \in s + 1 .. off - 1 : j \notin Closing(s + 1)
  BY <1>2, <1>4, <1>6 DEF InString
<1>7. ASSUME Peek \in {"quote", "newline"}
      PROVE  Min(Closing(s + 1)) = off
  <2>1. ~AtNUL(off)
    BY <1>2, <1>7 DEF EOS
  <2>2. off \in Closing(s + 1)
    <3>1. off \in s + 1 .. Len(text) - 1
      BY <1>2, <1>4, <1>5, <1>6, <2>1
    <3> QED BY <1>2, <1>6, <1>7, <2>1, <3>1 DEF Closing
  <2>3. Closing(s + 1) \in SUBSET Nat
    BY <1>2, <1>4 DEF Closing
  <2>4. Min(Closing(s + 1)) \in Closing(s + 1) /\ Min(Closing(s + 1)) <= off
    BY <2>2, <2>3, MinIsLeast
  <2>5. \A j \in Closing(s + 1) : j \in Nat /\ s + 1 <= j
    BY <1>2, <1>4 DEF Closing
  <2>6. ASSUME NEW m \in Closing(s + 1), m <= off PROVE m = off
    <3>1. m \in Nat /\ s + 1 <= m
      BY <2>5, <2>6
    <3>2. CASE m < off
      <4>1. m \in s + 1 .. off - 1
        BY <1>2, <1>4, <3>1, <3>2
      <4> QED BY <1>6, <2>1, <2>6, <4>1
    <3> QED BY <1>2, <2>6, <3>1, <3>2
  <2> QED BY <2>4, <2>6
<1>8. CASE Peek = "quote" /\ Given("string", x.off, x.len) /\ Read(1)
  <2>1. ~AtNUL(off)
    BY <1>2, <1>8 DEF EOS
  <2>2. Written(s) = Wanting(At(off) = "quote", "string", s + 1, off - s - 1, off - s - 1)
    BY <1>4, <1>5, <1>7, <1>8, WrittenAs
  <2>3. off - s - 1 = x.len
    BY SMTT(60), <1>2, <1>4, <1>5, <1>6, <2>1
  <2>4. Written(s) = Token("string", s + 1, x.len)
    BY <1>2, <1>8, <2>2, <2>3 DEF Wanting
  <2>5. off' = EndOf(Token("string", s + 1, x.len))
    <3>1. EndOf(Token("string", s + 1, x.len)) = s + 1 + x.len + 1
      BY DEF EndOf, Token
    <3>2. off' = off + 1
      BY <1>8 DEF Read
    <3> QED BY <1>6, <2>1, <3>1, <3>2
  <2>6. Given("string", s + 1, x.len)
    BY <1>5, <1>8
  <2> QED BY <1>1, <1>3, <2>1, <2>4, <2>5, <2>6, GivenW
<1>9. CASE /\ Peek = "backslash" /\ Read(IF AtNUL(off + 1) THEN 1 ELSE 2)
           /\ mode' = mode /\ x' = [x EXCEPT !.len = @ + 2]
           /\ UNCHANGED <<text, tokens>>
  <2>1. ~AtNUL(off)
    BY <1>2, <1>9 DEF EOS
  <2>2. x'.off = s + 1 /\ x'.len = x.len + 2
    BY <1>2, <1>5, <1>9 DEF Tokens
  <2>3. CASE AtNUL(off + 1)
    <3>1. off' = off + 1
      BY <1>9, <2>3 DEF Read
    <3>2. InString(s)'
      BY <1>5, <1>9, <2>2, <2>3, <3>1, ReadingOn
    <3> QED BY <1>1, <1>3, <1>4, <1>9, <3>2, ReadsW
  <2>4. CASE ~AtNUL(off + 1)
    <3>1. off' = off + 2
      BY <1>9, <2>4 DEF Read
    <3>2. s + 1 \in Nat /\ s + 1 <= off
      BY <1>4, <1>5, <1>6, <2>1
    <3>3. ~Unescaped(s + 1, off + 1) /\ Unescaped(s + 1, off + 2)
      BY <1>2, <1>6, <1>9, <2>1, <3>2, UnescapedIs
    <3>4. off \notin Closing(s + 1) /\ off + 1 \notin Closing(s + 1)
      BY <1>2, <1>9, <3>3 DEF Closing
    <3>5. ASSUME NEW j \in s + 1 .. off' - 1 PROVE j \notin Closing(s + 1)
      <4>1. j \in s + 1 .. off - 1 \/ j = off \/ j = off + 1
        BY <1>2, <3>1, <3>2
      <4> QED BY <1>6, <2>1, <3>4, <4>1
    <3>6. off' = s + 1 + x'.len
      BY <1>4, <1>5, <1>6, <2>1, <2>2, <3>1
    <3>7. Unescaped(s + 1, off')
      BY <3>1, <3>3
    <3>8. InString(s)'
      BY <1>5, <1>9, <2>2, <3>5, <3>6, <3>7, ReadingOn
    <3> QED BY <1>1, <1>3, <1>4, <1>9, <3>8, ReadsW
  <2> QED BY <2>3, <2>4
<1>10. CASE Peek = "newline" /\ Given(ERROR, x.off, x.len) /\ UNCHANGED cursor
  <2>1. Written(s) = Wanting(At(off) = "quote", "string", s + 1, off - s - 1, off - s - 1)
    BY <1>4, <1>5, <1>7, <1>10, WrittenAs
  <2>2. ~AtNUL(off)
    BY <1>2, <1>10 DEF EOS
  <2>3. off - s - 1 = x.len
    BY SMTT(60), <1>2, <1>4, <1>5, <1>6, <2>2
  <2>4. Written(s) = Token(ERROR, s + 1, x.len)
    BY <1>2, <1>10, <2>1, <2>3 DEF Wanting
  <2>5. off' = EndOf(Token(ERROR, s + 1, x.len))
    <3>1. EndOf(Token(ERROR, s + 1, x.len)) = s + 1 + x.len
      BY <1>4, <1>5 DEF EndOf, Token, ERROR
    <3> QED BY <1>6, <1>10, <2>2, <3>1 DEF cursor
  <2>6. Given(ERROR, s + 1, x.len)
    BY <1>5, <1>10
  <2> QED BY <1>1, <1>3, <2>4, <2>5, <2>6, GivenW
<1>11. CASE /\ ~AtNUL(off) /\ Peek \notin {"quote", "backslash", "newline"}
            /\ Longer(1) /\ Read(1)
  <2>1. /\ mode' = mode /\ x'.off = s + 1 /\ x'.len = x.len + 1 /\ off' = off + 1
        /\ UNCHANGED <<text, tokens>> /\ ~AtNUL(off)
    BY <1>2, <1>5, <1>11, LongerReads DEF Read
  <2>2. s + 1 \in Nat /\ s + 1 <= off
    BY <1>4, <1>5, <1>6, <2>1
  <2>3. Unescaped(s + 1, off')
    BY <1>2, <1>6, <1>11, <2>1, <2>2, UnescapedIs
  <2>4. ASSUME NEW j \in s + 1 .. off' - 1 PROVE j \notin Closing(s + 1)
    <3>1. j \in s + 1 .. off - 1 \/ j = off
      BY <1>2, <2>1, <2>2
    <3>2. off \notin Closing(s + 1)
      BY <1>2, <1>11 DEF Closing
    <3> QED BY <1>6, <2>1, <3>1, <3>2
  <2>5. off' = s + 1 + x'.len
    BY <1>4, <1>5, <1>6, <2>1
  <2>6. InString(s)'
    BY <1>5, <2>1, <2>3, <2>4, <2>5, ReadingOn
  <2> QED BY <1>1, <1>3, <1>4, <2>1, <2>6, ReadsW
<1>12. CASE UNCHANGED lex_vars
  BY <1>12, SameW
<1> QED BY <1>8, <1>9, <1>10, <1>11, <1>12 DEF ReadRaw

\* The parser stops: nothing is to be shown of a lexer that is asked no more.
LEMMA StopW == ASSUME CInv, WInv, Stop PROVE WInv'
BY DEF Stop, WInv, AsWritten, Reading

LEMMA NextWInv == ASSUME CInv, WInv, [LexNext]_lex_vars PROVE WInv'
BY AskW, SingleW, DoubleW, BadW, SkipW, BeginW, ScanW, ReadRawW, SkipLineW, StopW, SameW
DEF LexNext, Lexing

\* lex_next: whatever text the parser reads, each token it is given is the one the text
\* says, the longest that begins where the blanks and comments after the one before end,
\* also when the one before is an error, or the byte taken for EOS, and the parser goes on.
THEOREM TokensAreWritten == LexSpec => []AsWritten
<1>1. LexInit => CInv /\ WInv
  BY InitCInv, InitWInv
<1>2. CInv /\ WInv /\ [LexNext]_lex_vars => (CInv /\ WInv)'
  BY NextCInv, NextWInv
<1>3. WInv => AsWritten
  BY DEF WInv
<1> QED BY <1>1, <1>2, <1>3, PTL DEF LexSpec

-----------------------------------------------------------------------------
(* The code generator: the invariant *)

Items == [do : Doings, at : Where, outs : Seq(Where), n : Nat, vt : Kinds]
Chunks == [inst : Seq(Inst), h : Int, outer : Nat]
LoopInfos == [retry : Where, jcond : Where, breaks : Seq(Where), death : BOOLEAN, id : LoopId]

\* Item j of the parser's stack t writes into function Level(t, j) of the chain, and is within
\* so many loops: those of the items below it that are of the kinds D.
Those(t, j, D) == {i \in 1 .. j - 1 : t[i].do \in D}
Opens(t, j, D) == Cardinality(Those(t, j, D))
Level(t, j) == 1 + Opens(t, j, {"func"})
Around(t, j) == Opens(t, j, {"loop", "iter"})

\* The chains of functions and of loops are those of the parser's stack.
Aligned(t, ch, lp) ==
    /\ t # <<>> /\ t[1].do = "block" /\ ch[1].outer = 0
    /\ Level(t, Len(t) + 1) = Len(ch) /\ Around(t, Len(t) + 1) = Len(lp)
    /\ \A j \in 1 .. Len(t) : t[j].do = "func" => ch[Level(t, j) + 1].outer = Around(t, j)

\* Code whose jumps stay in it, and whose conditions have something to look at.
Sound(code) ==
    \A i \in 1 .. Len(code) :
        /\ code[i].to <= Len(code) + 1
        /\ code[i].op \in {"jne", "jnt", "jnn", "foreach"} => code[i].takes >= 1

\* A pending function `it' that writes into c, the loop l its own if it has one, will patch
\* what takes a condition.
Tests(c, i) == i \in 1 .. Len(c.inst) /\ c.inst[i].takes >= 1
Kept(it, c, l) ==
    /\ it.do \in {"logc", "branch"} => Tests(c, it.at)
    /\ it.do \in {"logic", "logc"} => it.vt \in {"jnt", "jnn"}
    /\ it.do = "lval" => it.vt \in {"symbol", "dot", "index", "call"}
    /\ it.do = "assign" => it.vt \in {"symbol", "dot", "index"}
    /\ it.do = "loop" => (l.death \/ Tests(c, l.jcond))
    /\ it.do = "iter" => ~ l.death
    /\ it.do = "func" => it.at \in 1 .. Len(c.inst)

\* The held jumps that `it' will patch.
Claim(it, l) ==
    (IF it.do \in {"logc", "branch", "func"} THEN {it.at} ELSE {})
    \cup (IF it.do \in {"cond", "branch", "else"} THEN Range(it.outs) ELSE {})
    \cup (IF it.do \in {"loop", "iter"} THEN Range(l.breaks) ELSE {})
    \cup (IF it.do = "loop" /\ ~ l.death THEN {l.jcond} ELSE {})

Held(c) == {i \in 1 .. Len(c.inst) : c.inst[i].op = "panic"}
\* The held jumps that the items which write into function k will patch.
Claimed(t, lp, k) ==
    UNION {Claim(t[j], lp[Around(t, j) + 1]) : j \in {i \in 1 .. Len(t) : Level(t, i) = k}}

\* Before the code that is known to forget a jump.
Clean(s) == s \cap {"elif", "outer"} = {}

\* While the program is parsed: what is held in a function is claimed.
Parsed(t, ch, lp, s) ==
    /\ Aligned(t, ch, lp)
    /\ \A k \in 1 .. Len(ch) : Sound(ch[k].inst)
    /\ \A j \in 1 .. Len(t) : Kept(t[j], ch[Level(t, j)], lp[Around(t, j) + 1])
    /\ Clean(s) => \A k \in 1 .. Len(ch) : Held(ch[k]) \subseteq Claimed(t, lp, k)

\* The inductive invariant, of the generator and of the machine after it.
GInv ==
    /\ todo \in Seq(Items) /\ chunks \in Seq(Chunks) /\ loops \in Seq(LoopInfos)
    /\ slips \subseteq {"elif", "outer", "chain"}
    /\ out \in Seq(Inst) /\ pc \in Nat /\ depth \in Nat
    /\ IF todo = <<>> THEN chunks = <<>> /\ loops = <<>>
                      ELSE Parsed(todo, chunks, loops, slips)
    /\ Sound(out)
    /\ Clean(slips) => \A i \in 1 .. Len(out) : out[i].op # "panic"

-----------------------------------------------------------------------------
(* Levels: the items below j that are of the kinds D *)

\* Of the items below j, those of some kinds: how many there are.
LEMMA ThoseFinite ==
    ASSUME NEW t, NEW j \in Nat, NEW D
    PROVE  IsFiniteSet(Those(t, j, D)) /\ Opens(t, j, D) \in Nat
<1>1. IsFiniteSet(1 .. j - 1)
  BY FS_Interval
<1>2. Those(t, j, D) \in SUBSET (1 .. j - 1)
  BY DEF Those
<1>3. IsFiniteSet(Those(t, j, D))
  BY <1>1, <1>2, FS_Subset
<1> QED BY <1>3, FS_CardinalityType DEF Opens

LEMMA OpensFirst ==
    ASSUME NEW t, NEW D
    PROVE  Opens(t, 1, D) = 0
<1>1. Those(t, 1, D) = {}
  BY DEF Those
<1> QED BY <1>1, FS_EmptySet DEF Opens

\* One item further.
LEMMA OpensNext ==
    ASSUME NEW t, NEW j \in Nat \ {0}, NEW D
    PROVE  Opens(t, j + 1, D) = IF t[j].do \in D THEN Opens(t, j, D) + 1 ELSE Opens(t, j, D)
<1>1. IsFiniteSet(Those(t, j, D))
  BY ThoseFinite
<1>2. /\ Those(t, j + 1, D) = IF t[j].do \in D THEN Those(t, j, D) \cup {j} ELSE Those(t, j, D)
      /\ j \notin Those(t, j, D)
  BY DEF Those
<1>3. Cardinality(Those(t, j, D) \cup {j}) = Cardinality(Those(t, j, D)) + 1
  BY <1>1, <1>2, FS_AddElement
<1> QED BY <1>2, <1>3 DEF Opens

\* Below j the items do the same.
SameBelow(t, u, j) == \A i \in 1 .. j - 1 : u[i].do = t[i].do

\* Levels depend on what is below only.
LEMMA OpensSame ==
    ASSUME NEW t, NEW u, NEW j, SameBelow(t, u, j), NEW D
    PROVE  Opens(u, j, D) = Opens(t, j, D)
<1>1. Those(u, j, D) = Those(t, j, D)
  BY DEF Those, SameBelow
<1> QED BY <1>1 DEF Opens

LEMMA OpensGrows ==
    ASSUME NEW t, NEW j \in Nat, NEW i \in Nat, i <= j, NEW D
    PROVE  Opens(t, i, D) <= Opens(t, j, D)
<1>1. Those(t, i, D) \subseteq Those(t, j, D)
  BY DEF Those
<1>2. IsFiniteSet(Those(t, j, D))
  BY ThoseFinite
<1> QED BY <1>1, <1>2, FS_Subset DEF Opens

\* The last item below j of these kinds, when there is one.
LEMMA OpensLast ==
    ASSUME NEW t, NEW j \in Nat \ {0}, NEW D, Opens(t, j, D) # 0
    PROVE  \E i \in 1 .. j - 1 :
              /\ t[i].do \in D /\ Opens(t, i, D) + 1 = Opens(t, j, D)
              /\ Opens(t, i + 1, D) = Opens(t, j, D)
<1>1. Those(t, j, D) # {}
  BY FS_EmptySet DEF Opens
<1>2. Those(t, j, D) \in SUBSET (0 .. j - 1)
  BY DEF Those
<1>3. PICK i \in Those(t, j, D) : \A p \in Those(t, j, D) : p <= i
  BY <1>1, <1>2, MaxIsIn
<1>4. i \in 1 .. j - 1 /\ i \in Nat \ {0} /\ t[i].do \in D
  BY DEF Those
<1>5. Those(t, i + 1, D) = Those(t, j, D)
  BY <1>3, <1>4 DEF Those
<1>6. Opens(t, i + 1, D) = Opens(t, j, D)
  BY <1>5 DEF Opens
<1>7. Opens(t, i, D) + 1 = Opens(t, i + 1, D)
  BY <1>4, OpensNext
<1> QED BY <1>4, <1>6, <1>7
-----------------------------------------------------------------------------
(* Sequences *)

\* r is s with u in place of its last element.
IsReplaced(S, s, u, r) ==
    /\ r \in Seq(S) /\ Len(s) \in Nat \ {0} /\ Len(u) \in Nat /\ Len(r) = Len(s) - 1 + Len(u)
    /\ \A j \in 1 .. Len(s) - 1 : r[j] = s[j]
    /\ \A q \in 1 .. Len(u) : r[Len(s) - 1 + q] = u[q]

\* What the operators of sequences give that the actions are built from.
LEMMA FrontOf ==
    ASSUME NEW S, NEW s \in Seq(S), s # <<>>
    PROVE  /\ Front(s) \in Seq(S) /\ Len(s) \in Nat \ {0} /\ Len(Front(s)) = Len(s) - 1
           /\ \A j \in 1 .. Len(s) - 1 : Front(s)[j] = s[j]
           /\ Last(s) = s[Len(s)] /\ Last(s) \in S
<1>1. Len(s) \in Nat \ {0}
  OBVIOUS
<1>2. PICK n \in Nat : n = Len(s) - 1
  BY <1>1
<1>3. Front(s) = SubSeq(s, 1, n) /\ n <= Len(s)
  BY <1>1, <1>2 DEF Front
<1>4. SubSeq(s, 1, n) \in Seq(S) /\ Len(SubSeq(s, 1, n)) = n /\ \A j \in 1 .. n : SubSeq(s, 1, n)[j] = s[j]
  BY <1>1, <1>2
<1>5. Last(s) = s[Len(s)] /\ Last(s) \in S
  BY <1>1 DEF Last
<1> QED BY <1>1, <1>2, <1>3, <1>4, <1>5

LEMMA ConcatIs ==
    ASSUME NEW S, NEW s \in Seq(S), NEW u \in Seq(S)
    PROVE  /\ s \o u \in Seq(S) /\ Len(s \o u) = Len(s) + Len(u)
           /\ \A j \in 1 .. Len(s) : (s \o u)[j] = s[j]
           /\ \A q \in 1 .. Len(u) : (s \o u)[Len(s) + q] = u[q]
           /\ Len(s) \in Nat /\ Len(u) \in Nat
OBVIOUS

LEMMA ReplacedIs ==
    ASSUME NEW S, NEW s \in Seq(S), s # <<>>, NEW u \in Seq(S), NEW r, r = Front(s) \o u
    PROVE  IsReplaced(S, s, u, r)
<1>1. PICK f : f = Front(s)
  OBVIOUS
<1>2. f \in Seq(S) /\ Len(s) \in Nat \ {0} /\ Len(f) = Len(s) - 1 /\ \A j \in 1 .. Len(s) - 1 : f[j] = s[j]
  BY <1>1, FrontOf
<1>3. r = f \o u /\ Len(u) \in Nat
  BY <1>1
<1>4. /\ r \in Seq(S) /\ Len(r) = Len(f) + Len(u) /\ \A j \in 1 .. Len(f) : r[j] = f[j]
      /\ \A q \in 1 .. Len(u) : r[Len(f) + q] = u[q]
  <2>1. f \in Seq(S) /\ u \in Seq(S)
    BY <1>2
  <2>2. /\ f \o u \in Seq(S) /\ Len(f \o u) = Len(f) + Len(u)
        /\ \A j \in 1 .. Len(f) : (f \o u)[j] = f[j]
        /\ \A q \in 1 .. Len(u) : (f \o u)[Len(f) + q] = u[q]
    BY <2>1, ConcatIs
  <2> QED BY <1>3, <2>2, Zenon
<1> QED BY <1>2, <1>3, <1>4 DEF IsReplaced

\* r is s and then u; v is the last element of s, e, and then u.
Grown(S, s, e, u, v, r) ==
    /\ IsReplaced(S, s, v, r) /\ v \in Seq(S) /\ Len(v) = Len(u) + 1 /\ Len(u) \in Nat
    /\ v[1] = e /\ \A q \in 1 .. Len(u) : v[q + 1] = u[q]

LEMMA DescendedIs ==
    ASSUME NEW S, NEW s \in Seq(S), s # <<>>, NEW u \in Seq(S), NEW r, r = s \o u,
           NEW v, v = <<Last(s)>> \o u
    PROVE  Grown(S, s, Last(s), u, v, r)
<1>1. Len(s) \in Nat \ {0} /\ Last(s) = s[Len(s)] /\ Last(s) \in S /\ Len(u) \in Nat
  BY FrontOf
<1>3. /\ v \in Seq(S) /\ Len(v) = Len(u) + 1 /\ v[1] = Last(s)
      /\ \A q \in 1 .. Len(u) : v[q + 1] = u[q]
  BY <1>1
<1>4. /\ r \in Seq(S) /\ Len(r) = Len(s) + Len(u) /\ \A j \in 1 .. Len(s) : r[j] = s[j]
      /\ \A q \in 1 .. Len(u) : r[Len(s) + q] = u[q]
  BY <1>1
<1>5. ASSUME NEW q \in 1 .. Len(v) PROVE r[Len(s) - 1 + q] = v[q]
  <2>1. CASE q = 1
    BY <1>1, <1>3, <1>4, <2>1
  <2>2. CASE q # 1
    <3>1. PICK p \in 1 .. Len(u) : q = p + 1
      BY <1>1, <1>3, <2>2
    <3>2. Len(s) - 1 + q = Len(s) + p
      BY <1>1, <3>1
    <3> QED BY <1>3, <1>4, <3>1, <3>2
  <2> QED BY <2>1, <2>2
<1>6. IsReplaced(S, s, v, r)
  BY <1>1, <1>3, <1>4, <1>5 DEF IsReplaced
<1> QED BY <1>1, <1>3, <1>6 DEF Grown

\* r is s with e in place of its last element.
IsTopped(S, s, e, r) ==
    /\ r \in Seq(S) /\ Len(s) \in Nat \ {0} /\ Len(r) = Len(s)
    /\ r[Len(s)] = e /\ \A j \in 1 .. Len(s) - 1 : r[j] = s[j]

LEMMA ToppedIs ==
    ASSUME NEW S, NEW s \in Seq(S), s # <<>>, NEW e \in S, NEW r, r = Append(Front(s), e)
    PROVE  IsTopped(S, s, e, r)
<1>1. PICK f : f = Front(s)
  OBVIOUS
<1>2. f \in Seq(S) /\ Len(s) \in Nat \ {0} /\ Len(f) = Len(s) - 1 /\ \A j \in 1 .. Len(s) - 1 : f[j] = s[j]
  BY <1>1, FrontOf
<1>3. r \in Seq(S) /\ Len(r) = Len(f) + 1 /\ r[Len(f) + 1] = e /\ \A j \in 1 .. Len(f) : r[j] = f[j]
  BY <1>1, <1>2
<1> QED BY <1>2, <1>3 DEF IsTopped

LEMMA ElementOf ==
    ASSUME NEW S, NEW s \in Seq(S)
    PROVE  /\ Len(s) \in Nat /\ DOMAIN s = 1 .. Len(s) /\ \A i \in 1 .. Len(s) : s[i] \in S
           /\ Range(s) \subseteq S /\ \A i \in 1 .. Len(s) : s[i] \in Range(s)
<1>1. Len(s) \in Nat /\ DOMAIN s = 1 .. Len(s) /\ \A i \in 1 .. Len(s) : s[i] \in S
  OBVIOUS
<1> QED BY <1>1 DEF Range
-----------------------------------------------------------------------------
(* From a function to what emitting and patching make of it *)

\* From c to d, patching the jumps held at `done' and leaving those at `new' held.
Goes(c, d, done, new) ==
    /\ d \in Chunks /\ d.outer = c.outer /\ Sound(d.inst)
    /\ Len(c.inst) \in Nat /\ Len(d.inst) \in Nat /\ Len(c.inst) <= Len(d.inst)
    /\ \A i \in 1 .. Len(c.inst) : d.inst[i].takes = c.inst[i].takes
    /\ Held(d) \subseteq (Held(c) \ done) \cup new

LEMMA InstIs ==
    ASSUME NEW s \in Seq(Inst), NEW i \in 1 .. Len(s)
    PROVE  /\ s[i] \in Inst /\ s[i].to \in Nat /\ s[i].takes \in Nat /\ s[i].gives \in Nat
           /\ s[i].h \in Int
<1>1. s[i] \in Inst
  OBVIOUS
<1> QED BY <1>1 DEF Inst, Where

\* One after the other.
LEMMA GoesOn ==
    ASSUME NEW c, NEW d, NEW e, NEW D1, NEW D2, NEW N1, NEW N2, Goes(c, d, D1, N1), Goes(d, e, D2, N2)
    PROVE  Goes(c, e, D1 \cup D2, N1 \cup N2)
<1>1. \A i \in 1 .. Len(c.inst) : e.inst[i].takes = c.inst[i].takes
  BY DEF Goes
<1>2. Held(e) \subseteq (Held(c) \ (D1 \cup D2)) \cup (N1 \cup N2)
  BY DEF Goes
<1> QED BY <1>1, <1>2 DEF Goes

LEMMA GoesNowhere ==
    ASSUME NEW c \in Chunks, Sound(c.inst)
    PROVE  Goes(c, c, {}, {})
BY ElementOf DEF Goes, Chunks

LEMMA NestIs ==
    ASSUME loops \in Seq(LoopInfos), NEW c \in Chunks
    PROVE  NestOf(c) \in Seq(LoopId)
<1>1. c.outer \in Nat
  BY DEF Chunks
<1>2. PICK a \in Nat : a = c.outer
  BY <1>1
<1>3. Own(c) = SubSeq(loops, a + 1, Len(loops)) /\ Len(loops) \in Nat
  BY <1>2 DEF Own
<1>4. Own(c) \in Seq(LoopInfos)
  BY <1>3
<1>5. DOMAIN Own(c) = 1 .. Len(Own(c)) /\ Len(Own(c)) \in Nat /\ \A i \in 1 .. Len(Own(c)) : Own(c)[i] \in LoopInfos
  BY <1>4
<1>6. \A i \in 1 .. Len(Own(c)) : Own(c)[i].id \in LoopId
  BY <1>5 DEF LoopInfos
<1>7. NestOf(c) = [i \in 1 .. Len(Own(c)) |-> Own(c)[i].id]
  BY <1>5 DEF NestOf
<1> QED BY <1>5, <1>6, <1>7

\* The held jumps of s, when it is put behind n instructions.
HeldFrom(n, s) == {n + q : q \in {p \in 1 .. Len(s) : s[p].op = "panic"}}

\* Instructions appended that are no jumps, or one that stays in the code.
Plain(s, n) ==
    \A q \in 1 .. Len(s) : s[q].to <= n + 1 /\ s[q].op \in {"data", "jmp", "ret", "panic"}
\* d is c with the instructions s after its own.
IsAppended(c, s, k, d) ==
    /\ Goes(c, d, {}, HeldFrom(Len(c.inst), s))
    /\ Len(d.inst) = Len(c.inst) + Len(s) /\ d.h = k
    /\ \A q \in 1 .. Len(s) : d.inst[Len(c.inst) + q] = s[q]

LEMMA AppendedGoes ==
    ASSUME NEW c \in Chunks, Sound(c.inst), NEW s \in Seq(Inst), NEW k \in Int,
           Plain(s, Len(c.inst)),
           NEW d, d = [inst |-> c.inst \o s, h |-> k, outer |-> c.outer]
    PROVE  IsAppended(c, s, k, d)
<1>1. c.inst \in Seq(Inst) /\ d = [inst |-> c.inst \o s, h |-> k, outer |-> c.outer] /\ c.outer \in Nat
  BY DEF Chunks
<1>2. PICK r : r = c.inst \o s
  OBVIOUS
<1>3. /\ r \in Seq(Inst) /\ Len(r) = Len(c.inst) + Len(s)
      /\ \A j \in 1 .. Len(c.inst) : r[j] = c.inst[j]
      /\ \A q \in 1 .. Len(s) : r[Len(c.inst) + q] = s[q]
      /\ Len(c.inst) \in Nat /\ Len(s) \in Nat
  BY <1>1, <1>2, ConcatIs
<1>4. d = [inst |-> r, h |-> k, outer |-> c.outer] /\ d \in Chunks /\ d.inst = r
  BY <1>1, <1>2, <1>3 DEF Chunks
<1>5. ASSUME NEW i \in 1 .. Len(r), i \notin 1 .. Len(c.inst)
      PROVE  \E q \in 1 .. Len(s) : i = Len(c.inst) + q /\ r[i] = s[q]
  <2>1. i - Len(c.inst) \in 1 .. Len(s) /\ i = Len(c.inst) + (i - Len(c.inst))
    BY <1>3, <1>5
  <2> QED BY <1>3, <2>1
<1>6. Sound(r)
  <2> SUFFICES ASSUME NEW i \in 1 .. Len(r)
               PROVE  /\ r[i].to <= Len(r) + 1
                      /\ r[i].op \in {"jne", "jnt", "jnn", "foreach"} => r[i].takes >= 1
    BY DEF Sound
  <2>1. CASE i \in 1 .. Len(c.inst)
    <3>1. /\ c.inst[i].to <= Len(c.inst) + 1
          /\ c.inst[i].op \in {"jne", "jnt", "jnn", "foreach"} => c.inst[i].takes >= 1
      BY <2>1 DEF Sound
    <3>2. c.inst[i].to \in Nat
      BY <1>1, <2>1, InstIs
    <3> QED BY SMTT(60), <1>3, <2>1, <3>1, <3>2
  <2>2. CASE i \notin 1 .. Len(c.inst)
    <3>1. PICK q \in 1 .. Len(s) : r[i] = s[q]
      BY <1>5, <2>2
    <3>2. s[q].to \in Nat
      BY InstIs
    <3>3. s[q].to <= Len(c.inst) + 1 /\ s[q].op \in {"data", "jmp", "ret", "panic"}
      BY <3>1 DEF Plain
    <3> QED BY SMTT(60), <1>3, <3>1, <3>2, <3>3
  <2> QED BY <2>1, <2>2
<1>7. Held(d) \subseteq (Held(c) \ {}) \cup HeldFrom(Len(c.inst), s)
  <2> SUFFICES ASSUME NEW i \in 1 .. Len(r), r[i].op = "panic", i \notin Held(c)
               PROVE  i \in HeldFrom(Len(c.inst), s)
    BY <1>4 DEF Held
  <2>1. i \notin 1 .. Len(c.inst)
    BY <1>3 DEF Held
  <2> QED BY <1>5, <2>1 DEF HeldFrom
<1>8. d.outer = c.outer /\ d.h = k /\ Len(c.inst) <= Len(d.inst)
  BY <1>3, <1>4
<1>9. \A i \in 1 .. Len(c.inst) : d.inst[i].takes = c.inst[i].takes
  BY <1>3, <1>4
<1>10. Goes(c, d, {}, HeldFrom(Len(c.inst), s))
  <2>1. Sound(d.inst) /\ d \in Chunks
    BY <1>4, <1>6, Zenon
  <2>2. Len(c.inst) \in Nat /\ Len(d.inst) \in Nat
    BY <1>3, <1>4
  <2> QED BY <1>7, <1>8, <1>9, <2>1, <2>2, Zenon DEF Goes
<1> QED BY <1>3, <1>4, <1>8, <1>10 DEF IsAppended

\* d is c with one instruction more.
IsCoded(c, op, takes, gives, d) ==
    /\ Goes(c, d, {}, IF op = "panic" THEN {Pos(c)} ELSE {})
    /\ Len(d.inst) = Len(c.inst) + 1 /\ Len(c.inst) \in Nat /\ d.h = c.h - takes + gives
    /\ d.inst[Pos(c)].takes = takes /\ d.inst[Pos(c)].op = op

LEMMA CodedGoes ==
    ASSUME loops \in Seq(LoopInfos), NEW c \in Chunks, Sound(c.inst),
           NEW op \in {"data", "jmp", "ret", "panic"}, NEW takes \in Nat, NEW gives \in Nat,
           NEW to \in Nat, to <= Pos(c), NEW d, d = Coded(c, op, takes, gives, to)
    PROVE  IsCoded(c, op, takes, gives, d)
<1>1. PICK e : e = [op |-> op, takes |-> takes, gives |-> gives, to |-> to,
                    leaves |-> FALSE, h |-> c.h, nest |-> NestOf(c)]
  OBVIOUS
<1>2. e \in Inst
  <2>1. NestOf(c) \in Seq(LoopId) /\ c.h \in Int /\ op \in Jumps \cup {"data", "panic", "ret"}
    BY NestIs DEF Chunks, Jumps
  <2> QED BY <1>1, <2>1 DEF Inst, Where
<1>3. c.inst \in Seq(Inst) /\ Len(c.inst) \in Nat /\ c.h \in Int
  BY DEF Chunks
<1>4. <<e>> \in Seq(Inst) /\ Len(<<e>>) = 1 /\ <<e>>[1] = e
  BY <1>2
<1>5. PICK k \in Int : k = c.h - takes + gives
  BY <1>3
<1>6. d = [inst |-> c.inst \o <<e>>, h |-> k, outer |-> c.outer]
  <2>1. Append(c.inst, e) = c.inst \o <<e>>
    BY SMTT(60), <1>2, <1>3
  <2>2. c = [inst |-> c.inst, h |-> c.h, outer |-> c.outer]
    BY DEF Chunks
  <2> QED BY <1>1, <1>5, <2>1, <2>2 DEF Coded
<1>7. /\ Goes(c, d, {}, HeldFrom(Len(c.inst), <<e>>)) /\ Len(d.inst) = Len(c.inst) + 1
      /\ d.h = k /\ d.inst[Len(c.inst) + 1] = e
  <2>1. PICK s \in Seq(Inst) : s = <<e>> /\ Len(s) = 1 /\ s[1] = e
    BY <1>4
  <2>2. Plain(s, Len(c.inst))
    BY <1>1, <2>1 DEF Pos, Plain
  <2>3. d = [inst |-> c.inst \o s, h |-> k, outer |-> c.outer]
    BY <1>6, <2>1
  <2>4. IsAppended(c, s, k, d)
    BY <2>2, <2>3, AppendedGoes
  <2> QED BY <2>1, <2>4 DEF IsAppended
<1>8. HeldFrom(Len(c.inst), <<e>>) = IF op = "panic" THEN {Pos(c)} ELSE {}
  BY <1>1, <1>3, <1>4 DEF HeldFrom, Pos
<1> QED BY <1>1, <1>3, <1>5, <1>7, <1>8 DEF Pos, IsCoded

\* p is the instruction e, patched.
IsPatched(e, op, to, leaves, p) ==
    /\ p \in Inst /\ p.op = op /\ p.to = to /\ p.leaves = leaves
    /\ p.takes = e.takes /\ p.gives = e.gives /\ p.h = e.h /\ p.nest = e.nest

\* The instruction e, patched.
Repatched(e, op, to, leaves) == [e EXCEPT !.op = op, !.to = to, !.leaves = leaves]

LEMMA InstPatched ==
    ASSUME NEW e \in Inst, NEW op \in Jumps, NEW to \in Nat, NEW leaves \in BOOLEAN
    PROVE  IsPatched(e, op, to, leaves, Repatched(e, op, to, leaves))
BY DEF Inst, Where, IsPatched, Repatched

LEMMA PatchedGoes ==
    ASSUME NEW c \in Chunks, Sound(c.inst), NEW P, NEW op \in Jumps, NEW leaves \in BOOLEAN,
           op # "jmp" => \A i \in P \cap (1 .. Len(c.inst)) : c.inst[i].takes >= 1,
           NEW d, d = Patched(c, P, op, leaves)
    PROVE  /\ Goes(c, d, P, {}) /\ Len(d.inst) = Len(c.inst) /\ d.h = c.h
<1>1. c.inst \in Seq(Inst) /\ Len(c.inst) \in Nat /\ DOMAIN c.inst = 1 .. Len(c.inst)
  BY DEF Chunks
<1>2. PICK t : t = [i \in 1 .. Len(c.inst) |-> i + ((Pos(c) - i) % OffsetLimit)]
  OBVIOUS
<1>3. \A i \in 1 .. Len(c.inst) : t[i] \in Nat /\ t[i] <= Len(c.inst) + 1
  <2> SUFFICES ASSUME NEW i \in 1 .. Len(c.inst)
               PROVE  t[i] \in Nat /\ t[i] <= Len(c.inst) + 1
    OBVIOUS
  <2>0. Pos(c) - i \in Nat
    BY <1>1 DEF Pos
  <2>1. PICK n \in Nat : n = Pos(c) - i
    BY <2>0
  <2>2. n % OffsetLimit \in Nat /\ n % OffsetLimit <= n
    BY CodeAssumption
  <2> QED BY <1>1, <1>2, <2>1, <2>2 DEF Pos
<1>4. PICK r : r = [i \in 1 .. Len(c.inst) |->
                      IF i \in P
                      THEN [c.inst[i] EXCEPT !.op = op, !.to = t[i], !.leaves = leaves]
                      ELSE c.inst[i]]
  OBVIOUS
<1>5. d = [inst |-> r, h |-> c.h, outer |-> c.outer]
  <2>1. r = [i \in DOMAIN c.inst |->
               IF i \in P
               THEN [c.inst[i] EXCEPT !.op = op, !.to = i + ((Pos(c) - i) % OffsetLimit), !.leaves = leaves]
               ELSE c.inst[i]]
    BY ZenonT(60), <1>1, <1>2, <1>4
  <2>2. d = [c EXCEPT !.inst = r]
    BY <2>1 DEF Patched
  <2> QED BY SMTT(60), <2>2 DEF Chunks
<1>6. ASSUME NEW i \in 1 .. Len(c.inst)
      PROVE  /\ r[i] \in Inst /\ r[i].takes = c.inst[i].takes /\ r[i].to <= Len(c.inst) + 1
             /\ r[i].op \in {"jne", "jnt", "jnn", "foreach"} => r[i].takes >= 1
             /\ r[i].op = IF i \in P THEN op ELSE c.inst[i].op
  <2>1. c.inst[i] \in Inst
    BY <1>1, InstIs
  <2>2. CASE i \in P
    <3>1. r[i] = [c.inst[i] EXCEPT !.op = op, !.to = t[i], !.leaves = leaves]
      BY <1>4, <2>2
    <3>2. /\ r[i] \in Inst /\ r[i].takes = c.inst[i].takes /\ r[i].to = t[i] /\ r[i].op = op
      <4>1. PICK e \in Inst : e = c.inst[i]
        BY <2>1
      <4>2. t[i] \in Nat /\ r[i] = Repatched(e, op, t[i], leaves)
        BY <1>3, <3>1, <4>1 DEF Repatched
      <4>3. r[i] \in Inst /\ r[i].takes = e.takes /\ r[i].to = t[i] /\ r[i].op = op
        <5>1. IsPatched(e, op, t[i], leaves, r[i])
          BY <4>2, InstPatched
        <5> QED BY <5>1 DEF IsPatched
      <4> QED BY <4>1, <4>3
    <3>3. r[i].op \in {"jne", "jnt", "jnn", "foreach"} => r[i].takes >= 1
      BY <2>2, <3>2
    <3> QED BY <1>3, <2>2, <3>2, <3>3
  <2>3. CASE i \notin P
    BY <1>4, <2>1, <2>3 DEF Sound
  <2> QED BY <2>2, <2>3
<1>7. r \in Seq(Inst) /\ Len(r) = Len(c.inst) /\ DOMAIN r = 1 .. Len(c.inst)
  <2>1. DOMAIN r = 1 .. Len(c.inst)
    BY <1>4
  <2>2. \A i \in 1 .. Len(c.inst) : r[i] \in Inst
    BY SMTT(60), <1>6
  <2>3. r = [i \in 1 .. Len(c.inst) |-> r[i]]
    BY <1>4
  <2>4. r \in [1 .. Len(c.inst) -> Inst]
    BY <2>2, <2>3
  <2> QED BY <1>1, <2>1, <2>4
<1>8. d \in Chunks /\ d.inst = r /\ d.outer = c.outer /\ d.h = c.h
  BY <1>5, <1>7 DEF Chunks
<1>9. Sound(r)
  BY <1>6, <1>7 DEF Sound
<1>10. Held(d) \subseteq (Held(c) \ P) \cup {}
  BY <1>6, <1>7, <1>8 DEF Held, Jumps
<1> QED BY <1>1, <1>6, <1>7, <1>8, <1>9, <1>10 DEF Goes
-----------------------------------------------------------------------------
(* What the generator emits *)

LEMMA EmitGoes ==
    ASSUME loops \in Seq(LoopInfos), NEW c \in Chunks, Sound(c.inst), NEW takes \in Nat, NEW gives \in Nat
    PROVE  Goes(c, Emit(c, takes, gives), {}, {})
<1>1. 0 <= Pos(c)
  BY ElementOf DEF Chunks, Pos
<1>2. IsCoded(c, "data", takes, gives, Emit(c, takes, gives))
  BY <1>1, CodedGoes DEF Emit
<1> QED BY <1>2 DEF IsCoded

LEMMA HoldGoes ==
    ASSUME loops \in Seq(LoopInfos), NEW c \in Chunks, Sound(c.inst), NEW takes \in Nat, NEW gives \in Nat
    PROVE  /\ Goes(c, Hold(c, takes, gives), {}, {Pos(c)}) /\ Pos(c) \in Nat
           /\ Pos(c) \in 1 .. Len(Hold(c, takes, gives).inst)
           /\ Hold(c, takes, gives).inst[Pos(c)].takes = takes
<1>1. 0 <= Pos(c) /\ Len(c.inst) \in Nat
  BY ElementOf DEF Chunks, Pos
<1>2. IsCoded(c, "panic", takes, gives, Hold(c, takes, gives))
  BY <1>1, CodedGoes DEF Hold
<1> QED BY <1>1, <1>2 DEF Pos, IsCoded

LEMMA JumpBackGoes ==
    ASSUME loops \in Seq(LoopInfos), NEW c \in Chunks, Sound(c.inst), NEW target \in Nat, target <= Pos(c)
    PROVE  Goes(c, JumpBack(c, target), {}, {})
<1>1. Pos(c) - target \in Nat /\ Pos(c) \in Nat
  BY ElementOf DEF Chunks, Pos
<1>2. PICK n \in Nat : n = Pos(c) - target
  BY <1>1
<1>3. n % OffsetLimit \in Nat /\ n % OffsetLimit <= n
  BY CodeAssumption
<1>4. PICK to \in Nat : to = Pos(c) - (n % OffsetLimit)
  BY <1>1, <1>2, <1>3
<1>5. to <= Pos(c)
  BY <1>1, <1>3, <1>4
<1>6. JumpBack(c, target) = Coded(c, "jmp", 0, 0, to)
  BY <1>2, <1>4 DEF JumpBack
<1>7. IsCoded(c, "jmp", 0, 0, Coded(c, "jmp", 0, 0, to))
  BY <1>5, CodedGoes
<1> QED BY <1>6, <1>7 DEF IsCoded

LEMMA RetGoes ==
    ASSUME loops \in Seq(LoopInfos), NEW c \in Chunks, Sound(c.inst), NEW takes \in Nat
    PROVE  Goes(c, Coded(c, "ret", takes, 0, 0), {}, {})
<1>1. 0 <= Pos(c)
  BY ElementOf DEF Chunks, Pos
<1>2. IsCoded(c, "ret", takes, 0, Coded(c, "ret", takes, 0, 0))
  BY <1>1, CodedGoes
<1> QED BY <1>2 DEF IsCoded

LEMMA EndedGoes ==
    ASSUME loops \in Seq(LoopInfos), NEW c \in Chunks, Sound(c.inst)
    PROVE  Goes(c, Ended(c), {}, {})
BY RetGoes, GoesNowhere DEF Ended

\* Many instructions at once, none of them a jump.
LEMMA DataGoes ==
    ASSUME NEW c \in Chunks, Sound(c.inst), NEW s \in Seq(Inst), NEW k \in Int,
           \A q \in 1 .. Len(s) : s[q].op = "data" /\ s[q].to = 0,
           NEW d, d = [c EXCEPT !.inst = @ \o s, !.h = k]
    PROVE  Goes(c, d, {}, {})
<1>1. d = [inst |-> c.inst \o s, h |-> k, outer |-> c.outer]
  BY DEF Chunks
<1>2. Len(c.inst) \in Nat
  BY DEF Chunks
<1>3. Plain(s, Len(c.inst)) /\ HeldFrom(Len(c.inst), s) = {}
  BY <1>2 DEF Plain, HeldFrom
<1>4. IsAppended(c, s, k, d)
  BY <1>1, <1>3, AppendedGoes
<1> QED BY <1>3, <1>4 DEF IsAppended

LEMMA ManyAre ==
    ASSUME NEW n \in Nat, NEW w, \A i \in 1 .. n : w[i] \in Inst /\ w[i].op = "data" /\ w[i].to = 0,
           w = [i \in 1 .. n |-> w[i]]
    PROVE  /\ w \in Seq(Inst) /\ Len(w) = n
           /\ \A q \in 1 .. Len(w) : w[q].op = "data" /\ w[q].to = 0
<1>1. w \in [1 .. n -> Inst]
  OBVIOUS
<1> QED BY <1>1

LEMMA PushesGoes ==
    ASSUME loops \in Seq(LoopInfos), NEW c \in Chunks, Sound(c.inst), NEW n \in Nat
    PROVE  Goes(c, Pushes(c, n), {}, {})
<1>1. PICK w : w = [i \in 1 .. n |-> [op |-> "data", takes |-> 0, gives |-> 1, to |-> 0,
                                      leaves |-> FALSE, h |-> c.h + i - 1, nest |-> NestOf(c)]]
  OBVIOUS
<1>2. c.h \in Int /\ NestOf(c) \in Seq(LoopId)
  BY NestIs DEF Chunks
<1>3. \A i \in 1 .. n : w[i] \in Inst /\ w[i].op = "data" /\ w[i].to = 0
  BY <1>1, <1>2 DEF Inst, Where
<1>4. w = [i \in 1 .. n |-> w[i]]
  BY <1>1
<1>5. w \in Seq(Inst) /\ \A q \in 1 .. Len(w) : w[q].op = "data" /\ w[q].to = 0
  BY SMTT(60), <1>3, <1>4, ManyAre
<1>6. PICK k \in Int : k = c.h + n
  BY <1>2
<1>7. Pushes(c, n) = [c EXCEPT !.inst = @ \o w, !.h = k]
  BY <1>1, <1>6 DEF Pushes, Chunks
<1> QED BY <1>5, <1>7, DataGoes

LEMMA FieldsGoes ==
    ASSUME loops \in Seq(LoopInfos), NEW c \in Chunks, Sound(c.inst), NEW n \in Int
    PROVE  Goes(c, Fields(c, n), {}, {})
<1>1. PICK w : w = [i \in 1 .. n |-> [op |-> "data", takes |-> 1, gives |-> 1, to |-> 0,
                                      leaves |-> FALSE, h |-> c.h, nest |-> NestOf(c)]]
  OBVIOUS
<1>2. c.h \in Int /\ NestOf(c) \in Seq(LoopId) /\ c = [inst |-> c.inst, h |-> c.h, outer |-> c.outer]
  BY NestIs DEF Chunks
<1>3. \A i \in 1 .. n : w[i] \in Inst /\ w[i].op = "data" /\ w[i].to = 0
  BY <1>1, <1>2 DEF Inst, Where
<1>4. PICK p \in Nat : 1 .. n = 1 .. p
  <2>1. CASE n \in Nat
    BY <2>1
  <2>2. CASE n \notin Nat
    <3>1. 1 .. n = 1 .. 0
      BY <2>2
    <3> QED BY <3>1
  <2> QED BY <2>1, <2>2
<1>5. w \in Seq(Inst) /\ \A q \in 1 .. Len(w) : w[q].op = "data" /\ w[q].to = 0
  <2>1. w = [i \in 1 .. p |-> w[i]] /\ \A i \in 1 .. p : w[i] \in Inst /\ w[i].op = "data" /\ w[i].to = 0
    BY <1>1, <1>3, <1>4
  <2> QED BY <2>1, ManyAre
<1>6. Fields(c, n) = [c EXCEPT !.inst = @ \o w, !.h = c.h]
  BY <1>1, <1>2 DEF Fields
<1> QED BY <1>2, <1>5, <1>6, DataGoes

LEMMA LoadedGoes ==
    ASSUME NEW c \in Chunks, Sound(c.inst), NEW i \in 1 .. Len(c.inst)
    PROVE  Goes(c, Loaded(c, i), {i}, {})
<1>1. c.inst \in Seq(Inst) /\ Len(c.inst) \in Nat /\ c = [inst |-> c.inst, h |-> c.h, outer |-> c.outer]
  BY DEF Chunks
<1>2. PICK e \in Inst : e = c.inst[i]
  BY <1>1, InstIs
<1>3. PICK p : p = [e EXCEPT !.op = "data"]
  OBVIOUS
<1>4. p \in Inst /\ p.op = "data" /\ p.takes = e.takes /\ p.to = e.to
  BY <1>3 DEF Inst
<1>5. PICK r : r = [c.inst EXCEPT ![i] = p]
  OBVIOUS
<1>6. /\ r \in Seq(Inst) /\ Len(r) = Len(c.inst) /\ r[i] = p
      /\ \A j \in 1 .. Len(c.inst) : j # i => r[j] = c.inst[j]
  BY <1>1, <1>4, <1>5
<1>7. Loaded(c, i) = [inst |-> r, h |-> c.h, outer |-> c.outer]
  <2>1. r = [c.inst EXCEPT ![i] = [c.inst[i] EXCEPT !.op = "data"]]
    BY <1>2, <1>3, <1>5
  <2>2. Loaded(c, i) = [c EXCEPT !.inst = r]
    BY <2>1 DEF Loaded
  <2> QED BY <2>2 DEF Chunks
<1>8. PICK d : d = Loaded(c, i)
  OBVIOUS
<1>9. d \in Chunks /\ d.inst = r /\ d.outer = c.outer
  BY <1>6, <1>7, <1>8 DEF Chunks
<1>10. Sound(r)
  BY <1>2, <1>4, <1>6 DEF Sound
<1>11. Held(d) \subseteq (Held(c) \ {i}) \cup {}
  BY <1>4, <1>6, <1>9 DEF Held
<1>12. \A j \in 1 .. Len(c.inst) : d.inst[j].takes = c.inst[j].takes
  BY <1>2, <1>4, <1>6, <1>9
<1>13. Goes(c, d, {i}, {})
  BY <1>1, <1>6, <1>9, <1>10, <1>11, <1>12 DEF Goes
<1> QED BY <1>8, <1>13
-----------------------------------------------------------------------------
(* A step of the parser: what it leaves alone *)

\* No item from j to before k is of the kinds D.
NoneFrom(r, D, j, k) == \A p \in j .. k - 1 : ~ (r[p].do \in D)

LEMMA OpensPast ==
    ASSUME NEW r, NEW D, NEW j \in Nat, NEW k \in Nat, j <= k, NoneFrom(r, D, j, k)
    PROVE  Opens(r, k, D) = Opens(r, j, D)
<1>1. Those(r, k, D) = Those(r, j, D)
  <2>1. \A p \in 1 .. k - 1 : p \in 1 .. j - 1 \/ p \in j .. k - 1
    OBVIOUS
  <2> QED BY <2>1 DEF Those, NoneFrom
<1> QED BY <1>1 DEF Opens

LEMMA LevelType ==
    ASSUME NEW t, NEW j \in Nat
    PROVE  Level(t, j) \in Nat \ {0} /\ Around(t, j) \in Nat
BY ThoseFinite DEF Level, Around

\* The items of the stack are in the chains.
LEMMA LevelsIn ==
    ASSUME NEW t \in Seq(Items), NEW ch \in Seq(Chunks), NEW lp \in Seq(LoopInfos), Aligned(t, ch, lp),
           NEW j \in 1 .. Len(t)
    PROVE  /\ Level(t, j) \in 1 .. Len(ch) /\ Around(t, j) \in 0 .. Len(lp)
           /\ t[j].do \in {"loop", "iter"} => Around(t, j) + 1 \in 1 .. Len(lp)
           /\ t[j].do = "func" => Level(t, j) + 1 \in 1 .. Len(ch)
<1>1. Len(t) \in Nat /\ j \in Nat \ {0} /\ j + 1 \in Nat /\ j + 1 <= Len(t) + 1 /\ Len(t) + 1 \in Nat
      /\ Len(ch) \in Nat /\ Len(lp) \in Nat
  OBVIOUS
<1>2. Level(t, j) \in Nat \ {0} /\ Around(t, j) \in Nat
  BY <1>1, LevelType
<1>3. /\ Opens(t, j, {"func"}) <= Opens(t, j + 1, {"func"})
      /\ Opens(t, j, {"loop", "iter"}) <= Opens(t, j + 1, {"loop", "iter"})
      /\ Opens(t, j + 1, {"func"}) <= Opens(t, Len(t) + 1, {"func"})
      /\ Opens(t, j + 1, {"loop", "iter"}) <= Opens(t, Len(t) + 1, {"loop", "iter"})
  BY <1>1, OpensGrows
<1>4. /\ t[j].do \in {"func"} => Opens(t, j + 1, {"func"}) = Opens(t, j, {"func"}) + 1
      /\ t[j].do \in {"loop", "iter"} =>
            Opens(t, j + 1, {"loop", "iter"}) = Opens(t, j, {"loop", "iter"}) + 1
  BY <1>1, OpensNext
<1>5. /\ Opens(t, j, {"func"}) \in Nat /\ Opens(t, j, {"loop", "iter"}) \in Nat
      /\ Opens(t, j + 1, {"func"}) \in Nat /\ Opens(t, j + 1, {"loop", "iter"}) \in Nat
      /\ Opens(t, Len(t) + 1, {"func"}) \in Nat /\ Opens(t, Len(t) + 1, {"loop", "iter"}) \in Nat
  BY <1>1, ThoseFinite
<1>6. Len(ch) = 1 + Opens(t, Len(t) + 1, {"func"}) /\ Len(lp) = Opens(t, Len(t) + 1, {"loop", "iter"})
  BY DEF Aligned, Level, Around
<1> QED BY SMTT(60), <1>1, <1>2, <1>3, <1>4, <1>5, <1>6 DEF Level, Around

\* What is asked of an item outlives what is emitted; only a loop's item looks at a loop.
LEMMA KeptGoes ==
    ASSUME NEW it, NEW c, NEW d, NEW D, NEW N, Goes(c, d, D, N), NEW l, Kept(it, c, l)
    PROVE  Kept(it, d, l)
<1>1. \A i : Tests(c, i) => Tests(d, i)
  BY DEF Goes, Tests
<1>2. \A i \in 1 .. Len(c.inst) : i \in 1 .. Len(d.inst)
  BY DEF Goes
<1> QED BY <1>1, <1>2 DEF Kept

LEMMA NoLoop ==
    ASSUME NEW it, it.do \notin {"loop", "iter"}, NEW l, NEW k, NEW c
    PROVE  Claim(it, l) = Claim(it, k) /\ (Kept(it, c, l) => Kept(it, c, k))
BY DEF Claim, Kept

\* The top of t gives way to u, and the function it writes into to d; what is below, in t
\* and in both chains, stays.
Below(t, ch, lp, u, r, h, p, d) ==
    /\ IsReplaced(Items, t, u, r)
    /\ h \in Seq(Chunks) /\ p \in Seq(LoopInfos)
    /\ Len(h) = Level(r, Len(r) + 1) /\ Len(p) = Around(r, Len(r) + 1)
    /\ \A k \in 1 .. Level(t, Len(t)) - 1 : h[k] = ch[k]
    /\ h[Level(t, Len(t))] = d
    /\ \A k \in 1 .. Around(t, Len(t)) : p[k] = lp[k]
    /\ r # <<>> /\ r[1].do = "block"

\* And what is new is well placed.
Above(t, lp, u, r, h, p) ==
    /\ \A q \in 1 .. Len(u) :
          /\ Kept(u[q], h[Level(r, Len(t) - 1 + q)], p[Around(r, Len(t) - 1 + q) + 1])
          /\ u[q].do = "func" => h[Level(r, Len(t) - 1 + q) + 1].outer = Around(r, Len(t) - 1 + q)
    /\ \A k \in Level(t, Len(t)) + 1 .. Len(h) : Sound(h[k].inst) /\ Held(h[k]) = {}

\* Every jump that is held in d was and is not patched by the top of t, or is the business
\* of an item of u.
Cared(t, lp, u, r, p, c, d) ==
    \A i \in Held(d) :
        \/ i \in Held(c) \ Claim(t[Len(t)], lp[Around(t, Len(t)) + 1])
        \/ \E q \in 1 .. Len(u) : /\ Level(r, Len(t) - 1 + q) = Level(t, Len(t))
                                  /\ i \in Claim(u[q], p[Around(r, Len(t) - 1 + q) + 1])

\* A step that changes the top of the stack and the innermost function keeps the invariant.
LEMMA StepKeeps ==
    ASSUME NEW t \in Seq(Items), NEW ch \in Seq(Chunks), NEW lp \in Seq(LoopInfos),
           NEW s, NEW z, Parsed(t, ch, lp, s), Clean(z) => Clean(s),
           NEW u, NEW r, NEW h, NEW p, NEW d, Below(t, ch, lp, u, r, h, p, d), Above(t, lp, u, r, h, p),
           NEW D, NEW N, Goes(ch[Level(t, Len(t))], d, D, N),
           Clean(z) => Cared(t, lp, u, r, p, ch[Level(t, Len(t))], d)
    PROVE  Parsed(r, h, p, z)
<1>1. /\ Aligned(t, ch, lp) /\ r \in Seq(Items) /\ Len(t) \in Nat \ {0} /\ Len(u) \in Nat
      /\ Len(r) = Len(t) - 1 + Len(u)
      /\ \A j \in 1 .. Len(t) - 1 : r[j] = t[j]
      /\ \A q \in 1 .. Len(u) : r[Len(t) - 1 + q] = u[q]
      /\ Len(ch) \in Nat /\ Len(h) \in Nat /\ Len(lp) \in Nat
  BY SMTT(60) DEF Below, IsReplaced, Parsed
<1>2. PICK M \in 1 .. Len(ch) : M = Level(t, Len(t))
  <2>1. Len(t) \in 1 .. Len(t)
    BY <1>1
  <2> QED BY <1>1, <2>1, LevelsIn
<1>3. PICK A \in 0 .. Len(lp) : A = Around(t, Len(t))
  <2>1. Len(t) \in 1 .. Len(t)
    BY <1>1
  <2> QED BY <1>1, <2>1, LevelsIn
<1>4. ASSUME NEW j \in 1 .. Len(t)
      PROVE  Level(r, j) = Level(t, j) /\ Around(r, j) = Around(t, j)
  <2>1. \A i \in 1 .. j - 1 : i \in 1 .. Len(t) - 1
    <3>1. Len(t) \in Nat
      OBVIOUS
    <3> QED BY <3>1
  <2>2. SameBelow(t, r, j)
    <3>1. \A i \in 1 .. Len(t) - 1 : r[i] = t[i]
      BY <1>1
    <3> QED BY <2>1, <3>1 DEF SameBelow
  <2>3. /\ Opens(r, j, {"func"}) = Opens(t, j, {"func"})
        /\ Opens(r, j, {"loop", "iter"}) = Opens(t, j, {"loop", "iter"})
    <3>1. Opens(r, j, {"func"}) = Opens(t, j, {"func"})
      BY <2>2, OpensSame
    <3>2. Opens(r, j, {"loop", "iter"}) = Opens(t, j, {"loop", "iter"})
      BY <2>2, OpensSame
    <3> QED BY <3>1, <3>2
  <2> QED BY <2>3 DEF Level, Around
\* an item below the top
<1>5. ASSUME NEW j \in 1 .. Len(t) - 1
      PROVE  /\ Level(t, j) \in 1 .. M /\ Around(t, j) \in 0 .. A
             /\ t[j].do \in {"loop", "iter"} => Around(t, j) + 1 \in 1 .. A
             /\ t[j].do = "func" => Level(t, j) + 1 \in 1 .. M
  <2>1. j \in Nat \ {0} /\ j + 1 \in Nat /\ j + 1 <= Len(t) /\ Len(t) \in Nat
    BY SMTT(60), <1>1
  <2>2. /\ Opens(t, j, {"func"}) <= Opens(t, j + 1, {"func"})
        /\ Opens(t, j, {"loop", "iter"}) <= Opens(t, j + 1, {"loop", "iter"})
        /\ Opens(t, j + 1, {"func"}) <= Opens(t, Len(t), {"func"})
        /\ Opens(t, j + 1, {"loop", "iter"}) <= Opens(t, Len(t), {"loop", "iter"})
    BY <2>1, OpensGrows
  <2>3. /\ t[j].do \in {"func"} => Opens(t, j + 1, {"func"}) = Opens(t, j, {"func"}) + 1
        /\ t[j].do \in {"loop", "iter"} =>
              Opens(t, j + 1, {"loop", "iter"}) = Opens(t, j, {"loop", "iter"}) + 1
    BY <2>1, OpensNext
  <2>4. /\ Opens(t, j, {"func"}) \in Nat /\ Opens(t, j, {"loop", "iter"}) \in Nat
        /\ Opens(t, j + 1, {"func"}) \in Nat /\ Opens(t, j + 1, {"loop", "iter"}) \in Nat
        /\ Opens(t, Len(t), {"func"}) \in Nat /\ Opens(t, Len(t), {"loop", "iter"}) \in Nat
    BY <2>1, ThoseFinite
  <2>5. M = 1 + Opens(t, Len(t), {"func"}) /\ A = Opens(t, Len(t), {"loop", "iter"})
    BY <1>2, <1>3 DEF Level, Around
  <2>6. Level(t, j) = 1 + Opens(t, j, {"func"}) /\ Around(t, j) = Opens(t, j, {"loop", "iter"})
    BY DEF Level, Around
  <2>7. Level(t, j) \in 1 .. M /\ Around(t, j) \in 0 .. A
    BY SMTT(60), <2>2, <2>4, <2>5, <2>6
  <2>8. t[j].do \in {"loop", "iter"} => Around(t, j) + 1 \in 1 .. A
    BY SMTT(60), <2>2, <2>3, <2>4, <2>5, <2>6
  <2>9. t[j].do = "func" => Level(t, j) + 1 \in 1 .. M
    BY SMTT(60), <2>2, <2>3, <2>4, <2>5, <2>6
  <2> QED BY <2>7, <2>8, <2>9
<1>6. \A k \in 1 .. M : h[k].outer = ch[k].outer
  <2>1. d.outer = ch[M].outer
    BY <1>2 DEF Goes
  <2>2. h[M] = d /\ \A k \in 1 .. M - 1 : h[k] = ch[k]
    BY <1>2 DEF Below
  <2>3. \A k \in 1 .. M : k = M \/ k \in 1 .. M - 1
    BY SMTT(60), <1>1, <1>2
  <2> QED BY <2>1, <2>2, <2>3
<1>7. Aligned(r, h, p)
  <2>1. h[1].outer = 0
    BY SMTT(60), <1>1, <1>2, <1>6 DEF Aligned
  <2>2. ASSUME NEW j \in 1 .. Len(r), r[j].do = "func"
        PROVE  h[Level(r, j) + 1].outer = Around(r, j)
    <3>1. CASE j \in 1 .. Len(t) - 1
      <4>1. t[j].do = "func" /\ j \in 1 .. Len(t) /\ Level(r, j) = Level(t, j) /\ Around(r, j) = Around(t, j)
        BY SMTT(60), <1>1, <1>4, <2>2, <3>1
      <4>2. ch[Level(t, j) + 1].outer = Around(t, j)
        BY <1>1, <4>1 DEF Aligned
      <4>3. Level(t, j) + 1 \in 1 .. M
        BY <1>5, <3>1, <4>1
      <4> QED BY <1>6, <4>1, <4>2, <4>3
    <3>2. CASE j \notin 1 .. Len(t) - 1
      <4>1. PICK q \in 1 .. Len(u) : j = Len(t) - 1 + q
        <5>1. j - (Len(t) - 1) \in 1 .. Len(u) /\ j = Len(t) - 1 + (j - (Len(t) - 1))
          BY <1>1, <3>2
        <5> QED BY <5>1
      <4> QED BY <1>1, <2>2, <4>1 DEF Above
    <3> QED BY <3>1, <3>2
  <2>3. r # <<>> /\ r[1].do = "block" /\ Level(r, Len(r) + 1) = Len(h) /\ Around(r, Len(r) + 1) = Len(p)
    BY DEF Below
  <2> QED BY <2>1, <2>2, <2>3 DEF Aligned
<1>8. ASSUME NEW k \in 1 .. Len(h) PROVE Sound(h[k].inst)
  <2>1. CASE k \in 1 .. M - 1
    <3>1. h[k] = ch[k] /\ k \in 1 .. Len(ch)
      BY SMTT(60), <1>1, <1>2, <2>1 DEF Below
    <3> QED BY <3>1 DEF Parsed
  <2>2. CASE k = M
    BY <1>2, <2>2 DEF Below, Goes
  <2>3. CASE k \in Level(t, Len(t)) + 1 .. Len(h)
    BY <2>3 DEF Above
  <2> QED BY SMTT(60), <1>1, <1>2, <2>1, <2>2, <2>3
<1>9. ASSUME NEW j \in 1 .. Len(t) - 1
      PROVE  Kept(r[j], h[Level(r, j)], p[Around(r, j) + 1])
  <2>1. j \in 1 .. Len(t) /\ r[j] = t[j] /\ Level(r, j) = Level(t, j) /\ Around(r, j) = Around(t, j)
    BY SMTT(60), <1>1, <1>4
  <2>2. Kept(t[j], ch[Level(t, j)], lp[Around(t, j) + 1])
    BY <2>1 DEF Parsed
  <2>3. Kept(t[j], h[Level(t, j)], lp[Around(t, j) + 1])
    <3>1. CASE Level(t, j) = M
      BY SMTT(60), <1>2, <2>2, <3>1, KeptGoes DEF Below
    <3>2. CASE Level(t, j) \in 1 .. M - 1
      BY <1>2, <2>2, <3>2 DEF Below
    <3> QED BY SMTT(60), <1>2, <1>5, <3>1, <3>2
  <2>4. Kept(t[j], h[Level(t, j)], p[Around(t, j) + 1])
    <3>1. CASE t[j].do \in {"loop", "iter"}
      <4>1. p[Around(t, j) + 1] = lp[Around(t, j) + 1]
        BY <1>3, <1>5, <3>1 DEF Below
      <4> QED BY <2>3, <4>1
    <3>2. CASE t[j].do \notin {"loop", "iter"}
      BY <2>3, <3>2, NoLoop
    <3> QED BY <3>1, <3>2
  <2> QED BY <2>1, <2>4
<1>10. ASSUME NEW j \in 1 .. Len(r) PROVE Kept(r[j], h[Level(r, j)], p[Around(r, j) + 1])
  <2>1. CASE j \in 1 .. Len(t) - 1
    BY <1>9, <2>1
  <2>2. CASE j \notin 1 .. Len(t) - 1
    <3>1. PICK q \in 1 .. Len(u) : j = Len(t) - 1 + q
      <4>1. j - (Len(t) - 1) \in 1 .. Len(u) /\ j = Len(t) - 1 + (j - (Len(t) - 1))
        BY <1>1, <2>2
      <4> QED BY <4>1
    <3> QED BY <1>1, <3>1 DEF Above
  <2> QED BY <2>1, <2>2
\* the claims of the items below the top
<1>11. ASSUME NEW j \in 1 .. Len(t) - 1
       PROVE  /\ Level(r, j) = Level(t, j) /\ j \in 1 .. Len(r)
              /\ Claim(r[j], p[Around(r, j) + 1]) = Claim(t[j], lp[Around(t, j) + 1])
  <2>1. j \in 1 .. Len(t) /\ r[j] = t[j] /\ Level(r, j) = Level(t, j) /\ Around(r, j) = Around(t, j)
        /\ j \in 1 .. Len(r)
    <3>1. j \in 1 .. Len(t)
      BY SMTT(60), <1>1
    <3>2. j \in 1 .. Len(r)
      BY <1>1
    <3> QED BY <1>1, <1>4, <3>1, <3>2
  <2>2. CASE t[j].do \in {"loop", "iter"}
    <3>1. p[Around(t, j) + 1] = lp[Around(t, j) + 1]
      BY <1>3, <1>5, <2>2 DEF Below
    <3> QED BY <2>1, <3>1
  <2>3. CASE t[j].do \notin {"loop", "iter"}
    BY <2>1, <2>3, NoLoop
  <2> QED BY <2>2, <2>3
<1>12. ASSUME Clean(z), NEW k \in 1 .. Len(h), NEW i \in Held(h[k]) PROVE i \in Claimed(r, p, k)
  <2>1. CASE k \in 1 .. M /\ i \in Held(ch[k])
             /\ (k = M => i \notin Claim(t[Len(t)], lp[Around(t, Len(t)) + 1]))
    <3>1. i \in Claimed(t, lp, k)
      BY <1>12, <2>1, <1>2 DEF Parsed
    <3>2. PICK j \in 1 .. Len(t) : Level(t, j) = k /\ i \in Claim(t[j], lp[Around(t, j) + 1])
      BY <3>1 DEF Claimed
    <3>3. j \in 1 .. Len(t) - 1
      <4>1. j # Len(t)
        BY <1>2, <2>1, <3>2
      <4> QED BY <1>1, <4>1
    <3> QED BY <1>11, <3>2, <3>3 DEF Claimed
  <2>2. CASE k \in 1 .. M - 1
    <3>1. h[k] = ch[k] /\ k # M /\ k \in 1 .. M
      BY SMTT(60), <1>2, <2>2 DEF Below
    <3> QED BY <2>1, <3>1
  <2>3. CASE k = M
    <3>1. i \in Held(d)
      BY <1>2, <2>3 DEF Below
    <3>2. CASE i \in Held(ch[M]) \ Claim(t[Len(t)], lp[Around(t, Len(t)) + 1])
      BY <1>2, <2>1, <2>3, <3>2
    <3>3. ASSUME NEW q \in 1 .. Len(u), Level(r, Len(t) - 1 + q) = M,
                 i \in Claim(u[q], p[Around(r, Len(t) - 1 + q) + 1])
          PROVE  i \in Claimed(r, p, k)
      <4>1. Len(t) - 1 + q \in 1 .. Len(r) /\ r[Len(t) - 1 + q] = u[q]
        BY <1>1
      <4> QED BY <2>3, <3>3, <4>1 DEF Claimed
    <3>4. Cared(t, lp, u, r, p, ch[M], d)
      BY <1>2, <1>12
    <3> QED BY <1>2, <3>1, <3>2, <3>3, <3>4 DEF Cared
  <2>4. CASE k \in Level(t, Len(t)) + 1 .. Len(h)
    BY <2>4 DEF Above
  <2> QED BY SMTT(60), <1>1, <1>2, <2>2, <2>3, <2>4
<1> QED BY <1>7, <1>8, <1>10, <1>12 DEF Parsed
-----------------------------------------------------------------------------
(* A step within a function and its loops *)

\* The items that write into a function of their own, or have a loop of their own.
Deep == {"func", "loop", "iter"}

\* What an item claims that has no loop of its own.
PlainClaim(it) ==
    (IF it.do \in {"logc", "branch", "func"} THEN {it.at} ELSE {})
    \cup (IF it.do \in {"cond", "branch", "else"} THEN Range(it.outs) ELSE {})
PlainClaims(u) == UNION {PlainClaim(u[q]) : q \in 1 .. Len(u)}

\* Items that do neither, and of which d has what is asked.
Shallow(u, d) == \A q \in 1 .. Len(u) : u[q].do \notin Deep /\ \A l : Kept(u[q], d, l)

LEMMA PlainClaimIs ==
    ASSUME NEW it, it.do \notin {"loop", "iter"}, NEW l
    PROVE  Claim(it, l) = PlainClaim(it)
BY DEF Claim, PlainClaim

\* Where the stack was replaced by items without functions and loops, the levels are the same.
LEMMA ShallowLevels ==
    ASSUME NEW t \in Seq(Items), t # <<>>, NEW u, NEW r, IsReplaced(Items, t, u, r),
           \A q \in 1 .. Len(u) : u[q].do \notin Deep,
           NEW q \in 0 .. Len(u)
    PROVE  /\ Level(r, Len(t) + q) = Level(t, Len(t)) /\ Around(r, Len(t) + q) = Around(t, Len(t))
<1>1. /\ Len(t) \in Nat \ {0} /\ Len(u) \in Nat
      /\ \A j \in 1 .. Len(t) - 1 : r[j] = t[j]
      /\ \A i \in 1 .. Len(u) : r[Len(t) - 1 + i] = u[i]
  BY DEF IsReplaced
<1>2. SameBelow(t, r, Len(t))
  BY <1>1 DEF SameBelow
<1>3. ASSUME NEW p \in Len(t) .. Len(t) + q - 1 PROVE r[p].do \notin Deep
  <2>1. p - (Len(t) - 1) \in 1 .. Len(u) /\ p = Len(t) - 1 + (p - (Len(t) - 1))
    BY <1>1
  <2> QED BY <1>1, <2>1
<1>4. NoneFrom(r, {"func"}, Len(t), Len(t) + q) /\ NoneFrom(r, {"loop", "iter"}, Len(t), Len(t) + q)
  BY <1>3 DEF NoneFrom, Deep
<1>5. Len(t) \in Nat /\ Len(t) + q \in Nat /\ Len(t) <= Len(t) + q
  BY <1>1
<1>6. /\ Opens(r, Len(t) + q, {"func"}) = Opens(r, Len(t), {"func"})
      /\ Opens(r, Len(t) + q, {"loop", "iter"}) = Opens(r, Len(t), {"loop", "iter"})
  BY <1>4, <1>5, OpensPast
<1>7. /\ Opens(r, Len(t), {"func"}) = Opens(t, Len(t), {"func"})
      /\ Opens(r, Len(t), {"loop", "iter"}) = Opens(t, Len(t), {"loop", "iter"})
  BY <1>2, OpensSame
<1> QED BY <1>6, <1>7 DEF Level, Around

\* The levels at the top of the stack.
LEMMA TopLevels ==
    ASSUME NEW t \in Seq(Items), NEW ch, NEW lp, Aligned(t, ch, lp)
    PROVE  /\ Level(t, Len(t)) = IF t[Len(t)].do = "func" THEN Len(ch) - 1 ELSE Len(ch)
           /\ Around(t, Len(t)) = IF t[Len(t)].do \in {"loop", "iter"} THEN Len(lp) - 1 ELSE Len(lp)
           /\ Len(t) \in Nat \ {0}
<1>1. Len(t) \in Nat \ {0}
  BY DEF Aligned
<1>2. /\ Opens(t, Len(t) + 1, {"func"})
            = IF t[Len(t)].do \in {"func"} THEN Opens(t, Len(t), {"func"}) + 1
              ELSE Opens(t, Len(t), {"func"})
      /\ Opens(t, Len(t) + 1, {"loop", "iter"})
            = IF t[Len(t)].do \in {"loop", "iter"} THEN Opens(t, Len(t), {"loop", "iter"}) + 1
              ELSE Opens(t, Len(t), {"loop", "iter"})
  BY <1>1, OpensNext
<1>3. Opens(t, Len(t), {"func"}) \in Nat /\ Opens(t, Len(t), {"loop", "iter"}) \in Nat
  BY <1>1, ThoseFinite
<1>4. Len(ch) = 1 + Opens(t, Len(t) + 1, {"func"}) /\ Len(lp) = Opens(t, Len(t) + 1, {"loop", "iter"})
  BY DEF Aligned, Level, Around
<1> QED BY <1>1, <1>2, <1>3, <1>4 DEF Level, Around

\* The top of t gives way to u, the innermost function to d.
Within(t, ch, u, r, h, d, D, N, z) ==
    /\ Last(t).do \notin Deep
    /\ u \in Seq(Items) /\ IsReplaced(Items, t, u, r) /\ (Len(t) > 1 \/ (u # <<>> /\ u[1] = Last(t)))
    /\ IsTopped(Chunks, ch, d, h) /\ Shallow(u, d)
    /\ Goes(Last(ch), d, D, N)
    /\ Clean(z) => PlainClaim(Last(t)) \subseteq D \cup PlainClaims(u) /\ N \subseteq PlainClaims(u)

\* Where the items of u, and what is around them, have their place.
Fits(t, ch, lp, u, r, h, d) ==
    /\ Below(t, ch, lp, u, r, h, lp, d)
    /\ Level(t, Len(t)) = Len(ch) /\ Around(t, Len(t)) = Len(lp) /\ Last(t) = t[Len(t)]
    /\ Len(t) \in Nat \ {0} /\ Len(ch) \in Nat \ {0} /\ Len(lp) \in Nat /\ Last(ch) = ch[Len(ch)]
    /\ h \in Seq(Chunks) /\ Len(h) = Len(ch) /\ h[Len(ch)] = d
    /\ \A q \in 1 .. Len(u) : Level(r, Len(t) - 1 + q) = Len(ch) /\ Around(r, Len(t) - 1 + q) = Len(lp)

LEMMA PlainFits ==
    ASSUME NEW t \in Seq(Items), NEW ch \in Seq(Chunks), NEW lp \in Seq(LoopInfos), Aligned(t, ch, lp),
           Last(t).do \notin Deep, NEW u \in Seq(Items), NEW r, IsReplaced(Items, t, u, r),
           Len(t) > 1 \/ (u # <<>> /\ u[1] = Last(t)), \A q \in 1 .. Len(u) : u[q].do \notin Deep,
           NEW d, NEW h, IsTopped(Chunks, ch, d, h)
    PROVE  Fits(t, ch, lp, u, r, h, d)
<1>1. t # <<>> /\ t[1].do = "block"
  BY DEF Aligned
<1>2. /\ Level(t, Len(t)) = Len(ch) /\ Around(t, Len(t)) = Len(lp) /\ Last(t) = t[Len(t)]
      /\ Len(t) \in Nat \ {0} /\ Len(ch) \in Nat /\ Len(lp) \in Nat
  <2>1. Last(t) = t[Len(t)]
    BY <1>1, FrontOf
  <2>2. Level(t, Len(t)) = Len(ch) /\ Around(t, Len(t)) = Len(lp) /\ Len(t) \in Nat \ {0}
    BY <1>1, <2>1, TopLevels DEF Deep
  <2> QED BY <2>1, <2>2
<1>3. Len(ch) # 0 /\ ch # <<>> /\ Last(ch) = ch[Len(ch)]
  <2>1. Len(t) + 1 \in Nat
    BY <1>2
  <2>2. Level(t, Len(t) + 1) \in Nat \ {0} /\ Len(ch) = Level(t, Len(t) + 1)
    BY <1>1, <2>1, LevelType DEF Aligned
  <2>3. ch # <<>>
    BY <2>2
  <2> QED BY <2>2, <2>3, FrontOf
<1>4. /\ r \in Seq(Items) /\ Len(u) \in Nat /\ Len(r) = Len(t) - 1 + Len(u)
      /\ \A j \in 1 .. Len(t) - 1 : r[j] = t[j]
      /\ \A q \in 1 .. Len(u) : r[Len(t) - 1 + q] = u[q]
  BY DEF IsReplaced
<1>5. h \in Seq(Chunks) /\ Len(h) = Len(ch) /\ h[Len(ch)] = d /\ \A k \in 1 .. Len(ch) - 1 : h[k] = ch[k]
  BY DEF IsTopped
<1>6. ASSUME NEW q \in 1 .. Len(u)
      PROVE  Level(r, Len(t) - 1 + q) = Len(ch) /\ Around(r, Len(t) - 1 + q) = Len(lp)
  <2>1. PICK p \in 0 .. Len(u) : q = p + 1
    <3>1. q - 1 \in 0 .. Len(u) /\ q = (q - 1) + 1
      BY <1>4
    <3> QED BY <3>1
  <2>2. Len(t) - 1 + q = Len(t) + p
    BY <1>2, <2>1
  <2>3. Level(r, Len(t) + p) = Len(ch) /\ Around(r, Len(t) + p) = Len(lp)
    BY SMTT(60), <1>1, <1>2, ShallowLevels
  <2> QED BY <2>2, <2>3
<1>7. Len(h) = Level(r, Len(r) + 1) /\ Len(lp) = Around(r, Len(r) + 1)
  <2>1. PICK p \in 0 .. Len(u) : p = Len(u)
    BY <1>4
  <2>2. Level(r, Len(t) + p) = Len(ch) /\ Around(r, Len(t) + p) = Len(lp)
    BY ZenonT(60), <1>1, <1>2, ShallowLevels
  <2>3. Len(r) + 1 = Len(t) + p
    BY <1>2, <1>4, <2>1
  <2> QED BY <1>5, <2>2, <2>3
<1>8. r # <<>> /\ r[1].do = "block"
  <2>1. CASE Len(t) > 1
    <3>1. 1 \in 1 .. Len(t) - 1 /\ Len(r) # 0
      BY <1>2, <1>4, <2>1
    <3> QED BY <1>1, <1>4, <3>1
  <2>2. CASE Len(t) = 1
    <3>1. Len(t) = 1 /\ u # <<>> /\ u[1] = Last(t)
      BY <2>2
    <3>2. Len(u) # 0 /\ 1 \in 1 .. Len(u)
      BY <1>4, <3>1
    <3>3. r[1] = u[1] /\ Len(r) # 0
      BY <1>4, <3>1, <3>2
    <3> QED BY <1>1, <1>2, <3>1, <3>3
  <2>3. \A n \in Nat \ {0} : n = 1 \/ n > 1
    OBVIOUS
  <2> QED BY <1>2, <2>1, <2>2, <2>3
<1>9. Below(t, ch, lp, u, r, h, lp, d)
  BY <1>2, <1>5, <1>7, <1>8 DEF Below
<1> QED BY <1>2, <1>3, <1>5, <1>6, <1>9 DEF Fits

\* A step that enters and leaves no function and no loop.
LEMMA PlainStep ==
    ASSUME NEW t \in Seq(Items), NEW ch \in Seq(Chunks), NEW lp \in Seq(LoopInfos),
           NEW s, NEW z, Parsed(t, ch, lp, s), Clean(z) => Clean(s),
           NEW u, NEW r, NEW d, NEW h, NEW D, NEW N, Within(t, ch, u, r, h, d, D, N, z)
    PROVE  Parsed(r, h, lp, z)
<1>0. /\ Last(t).do \notin Deep
      /\ u \in Seq(Items) /\ IsReplaced(Items, t, u, r) /\ (Len(t) > 1 \/ (u # <<>> /\ u[1] = Last(t)))
      /\ IsTopped(Chunks, ch, d, h) /\ Shallow(u, d)
      /\ Goes(Last(ch), d, D, N)
      /\ Clean(z) => PlainClaim(Last(t)) \subseteq D \cup PlainClaims(u) /\ N \subseteq PlainClaims(u)
  BY DEF Within
<1> USE <1>0
<1>1. Aligned(t, ch, lp) /\ t # <<>> /\ t[1].do = "block"
  BY DEF Parsed, Aligned
<1>2. Fits(t, ch, lp, u, r, h, d)
  BY <1>1, PlainFits DEF Shallow
<1>3. /\ Level(t, Len(t)) = Len(ch) /\ Around(t, Len(t)) = Len(lp) /\ Last(t) = t[Len(t)]
      /\ Len(t) \in Nat \ {0} /\ Len(ch) \in Nat /\ Len(lp) \in Nat /\ Last(ch) = ch[Len(ch)]
  BY <1>2 DEF Fits
<1>5. h \in Seq(Chunks) /\ Len(h) = Len(ch) /\ h[Len(ch)] = d
  BY <1>2 DEF Fits
<1>6. ASSUME NEW q \in 1 .. Len(u)
      PROVE  Level(r, Len(t) - 1 + q) = Len(ch) /\ Around(r, Len(t) - 1 + q) = Len(lp)
  BY <1>2 DEF Fits
<1>9. Below(t, ch, lp, u, r, h, lp, d)
  BY <1>2 DEF Fits
<1>10. Above(t, lp, u, r, h, lp)
  <2>1. ASSUME NEW q \in 1 .. Len(u)
        PROVE  /\ Kept(u[q], h[Level(r, Len(t) - 1 + q)], lp[Around(r, Len(t) - 1 + q) + 1])
               /\ u[q].do # "func"
    BY <1>5, <1>6 DEF Shallow, Deep
  <2>2. Level(t, Len(t)) + 1 .. Len(h) = {}
    BY <1>3, <1>5
  <2> QED BY <2>1, <2>2 DEF Above
<1>11. Clean(z) => Cared(t, lp, u, r, lp, ch[Level(t, Len(t))], d)
  <2> SUFFICES ASSUME Clean(z), NEW i \in Held(d)
               PROVE  \/ i \in Held(Last(ch)) \ Claim(t[Len(t)], lp[Around(t, Len(t)) + 1])
                      \/ \E q \in 1 .. Len(u) : /\ Level(r, Len(t) - 1 + q) = Level(t, Len(t))
                                                /\ i \in Claim(u[q], lp[Around(r, Len(t) - 1 + q) + 1])
    BY <1>3 DEF Cared
  <2>1. Claim(t[Len(t)], lp[Around(t, Len(t)) + 1]) = PlainClaim(Last(t))
    BY <1>3, PlainClaimIs DEF Deep
  <2>2. ASSUME i \in PlainClaims(u)
        PROVE  \E q \in 1 .. Len(u) : /\ Level(r, Len(t) - 1 + q) = Level(t, Len(t))
                                      /\ i \in Claim(u[q], lp[Around(r, Len(t) - 1 + q) + 1])
    <3>1. PICK q \in 1 .. Len(u) : i \in PlainClaim(u[q])
      BY <2>2 DEF PlainClaims
    <3>2. Claim(u[q], lp[Around(r, Len(t) - 1 + q) + 1]) = PlainClaim(u[q])
      BY PlainClaimIs DEF Shallow, Deep
    <3> QED BY <1>3, <1>6, <3>1, <3>2
  <2>3. i \in (Held(Last(ch)) \ D) \cup N
    BY DEF Goes
  <2>4. PlainClaim(Last(t)) \subseteq D \cup PlainClaims(u) /\ N \subseteq PlainClaims(u)
    OBVIOUS
  <2>5. CASE i \in PlainClaims(u)
    BY <2>2, <2>5
  <2>6. CASE i \notin PlainClaims(u)
    BY <2>1, <2>3, <2>4, <2>6
  <2> QED BY <2>5, <2>6
<1>12. Goes(ch[Level(t, Len(t))], d, D, N)
  BY <1>3
<1> QED BY <1>9, <1>10, <1>11, <1>12, StepKeeps
-----------------------------------------------------------------------------
(* The actions that stay in their function and loops *)

\* What is there to start from, with `it' the pending function on top and c the function it
\* writes into.
Writes(it, c) ==
    /\ todo # <<>> /\ it = Last(todo) /\ c = Last(chunks) /\ it \in Items /\ c \in Chunks
    /\ Sound(c.inst) /\ chunks # <<>> /\ (it.do # "block" => Len(todo) > 1)
    /\ Len(chunks) \in Nat /\ Len(todo) \in Nat
    /\ it.do \notin Deep => \A l : Kept(it, c, l)

LEMMA WritesIs ==
    ASSUME GInv, todo # <<>>
    PROVE  Writes(It, Blk)
<1>1. Parsed(todo, chunks, loops, slips) /\ todo \in Seq(Items) /\ chunks \in Seq(Chunks) /\ loops \in Seq(LoopInfos)
  BY DEF GInv
<1>2. Aligned(todo, chunks, loops)
  BY <1>1 DEF Parsed
<1>3. Len(todo) \in Nat \ {0} /\ It = todo[Len(todo)] /\ It \in Items
  BY <1>1, FrontOf DEF It
<1>4. Level(todo, Len(todo)) \in 1 .. Len(chunks) /\ Len(todo) \in 1 .. Len(todo)
  <2>1. Len(todo) \in 1 .. Len(todo)
    BY <1>3
  <2> QED BY <1>1, <1>2, <2>1, LevelsIn
<1>5. chunks # <<>> /\ Len(chunks) \in Nat
  BY <1>1, <1>4
<1>6. Blk = chunks[Len(chunks)] /\ Blk \in Chunks /\ Len(chunks) \in 1 .. Len(chunks)
  BY <1>1, <1>5, FrontOf DEF Blk
<1>7. Sound(Blk.inst)
  BY <1>1, <1>6 DEF Parsed
<1>8. It.do # "block" => Len(todo) > 1
  <2>1. todo[1].do = "block"
    BY <1>2 DEF Aligned
  <2> QED BY <1>3, <2>1
<1>9. It.do \notin Deep => \A l : Kept(It, Blk, l)
  <2> SUFFICES ASSUME It.do \notin Deep, NEW l PROVE Kept(It, Blk, l)
    OBVIOUS
  <2>1. Level(todo, Len(todo)) = Len(chunks)
    BY <1>1, <1>2, <1>3, TopLevels DEF Deep
  <2>2. Kept(It, Blk, loops[Around(todo, Len(todo)) + 1])
    BY <1>1, <1>3, <1>4, <1>6, <2>1 DEF Parsed
  <2> QED BY <2>2, NoLoop DEF Deep
<1> QED BY <1>3, <1>5, <1>6, <1>7, <1>8, <1>9 DEF Writes, It, Blk

\* What the generator gets wrong is never forgotten.
Slipping == slips' \in {slips, slips \cup {"elif"}, slips \cup {"outer"}, slips \cup {"chain"}}

LEMMA SlipsMore ==
    ASSUME Slipping
    PROVE  Clean(slips') => Clean(slips)
BY DEF Slipping, Clean

LEMMA PlainInv ==
    ASSUME GInv, todo # <<>>, UNCHANGED <<loops, out, pc, depth>>, Slipping, It.do \notin Deep,
           NEW u \in Seq(Items), IsReplaced(Items, todo, u, todo'), Len(todo) > 1 \/ (u # <<>> /\ u[1] = It),
           NEW d, IsTopped(Chunks, chunks, d, chunks'), Shallow(u, d),
           NEW D, NEW N, Goes(Blk, d, D, N),
           Clean(slips') => PlainClaim(It) \subseteq D \cup PlainClaims(u) /\ N \subseteq PlainClaims(u)
    PROVE  GInv'
<1>1. /\ Parsed(todo, chunks, loops, slips) /\ (Clean(slips') => Clean(slips))
      /\ todo \in Seq(Items) /\ chunks \in Seq(Chunks) /\ loops \in Seq(LoopInfos)
  BY SlipsMore DEF GInv
<1>2. Parsed(todo', chunks', loops', slips')
  <2>1. Within(todo, chunks, u, todo', chunks', d, D, N, slips')
    BY DEF Within, It, Blk
  <2>2. Parsed(todo', chunks', loops, slips')
    BY <1>1, <2>1, PlainStep
  <2> QED BY <2>2
<1>3. todo' # <<>> /\ todo' \in Seq(Items)
  BY <1>2 DEF Parsed, Aligned, IsReplaced
<1>4. slips' \subseteq {"elif", "outer", "chain"}
  BY DEF GInv, Slipping
<1>5. chunks' \in Seq(Chunks)
  BY DEF IsTopped
<1> QED BY <1>1, <1>2, <1>3, <1>4, <1>5 DEF GInv

\* Items that hold nothing yet.
Free(it) ==
    \/ it.do \in {"expr", "apply", "block", "ret"}
    \/ it.do = "lval" /\ it.vt \in {"symbol", "dot", "index", "call"}
    \/ it.do = "assign" /\ it.vt \in {"symbol", "dot", "index"}
    \/ it.do = "cond" /\ it.outs = <<>>
    \/ it.do = "logic" /\ it.vt \in {"jnt", "jnn"}

LEMMA FreeIs ==
    ASSUME NEW it, Free(it)
    PROVE  it.do \notin Deep /\ (\A d, l : Kept(it, d, l)) /\ PlainClaim(it) = {}
<1>1. Range(<<>>) = {}
  BY DEF Range
<1> QED BY <1>1 DEF Free, Deep, Kept, PlainClaim

AllFree(u) == \A q \in 1 .. Len(u) : Free(u[q])

LEMMA FreeInv ==
    ASSUME GInv, todo # <<>>, UNCHANGED <<loops, out, pc, depth>>, Slipping, Free(It),
           NEW u \in Seq(Items), IsReplaced(Items, todo, u, todo'), Len(todo) > 1 \/ (u # <<>> /\ u[1] = It),
           AllFree(u),
           NEW d, IsTopped(Chunks, chunks, d, chunks'), Goes(Blk, d, {}, {})
    PROVE  GInv'
<1>1. Shallow(u, d)
  BY FreeIs DEF Shallow, AllFree
<1>2. It.do \notin Deep /\ PlainClaim(It) = {}
  BY FreeIs
<1> QED BY <1>1, <1>2, PlainInv

\* The stack and the chain of functions of an action.
LEMMA GoIs ==
    ASSUME GInv, todo # <<>>, NEW u \in Seq(Items), Go(u)
    PROVE  IsReplaced(Items, todo, u, todo')
BY ReplacedIs DEF GInv, Go

LEMMA InBlkIs ==
    ASSUME GInv, chunks # <<>>, NEW d \in Chunks, InBlk(d)
    PROVE  IsTopped(Chunks, chunks, d, chunks')
BY ToppedIs DEF GInv, InBlk

LEMMA SameBlk ==
    ASSUME GInv, chunks # <<>>, UNCHANGED chunks
    PROVE  IsTopped(Chunks, chunks, Blk, chunks')
BY FrontOf DEF GInv, Blk, IsTopped

LEMMA ItemIs ==
    ASSUME NEW do \in Doings
    PROVE  Item(do) \in Items /\ Item(do).do = do /\ Item(do).outs = <<>> /\ Item(do).vt = "none"
BY DEF Item, Items, Where, Kinds

\* An item of which some fields are set.
IsItem(a, do, at, outs, vt) ==
    a \in Items /\ a.do = do /\ a.at = at /\ a.outs = outs /\ a.vt = vt

LEMMA SetItem ==
    ASSUME NEW it \in Items
    PROVE  /\ \A n \in Nat : IsItem([it EXCEPT !.n = n], it.do, it.at, it.outs, it.vt)
           /\ \A at, n \in Nat : IsItem([it EXCEPT !.at = at, !.n = n], it.do, at, it.outs, it.vt)
           /\ \A vt \in Kinds : IsItem([it EXCEPT !.vt = vt], it.do, it.at, it.outs, vt)
           /\ \A do \in Doings : IsItem([it EXCEPT !.do = do], do, it.at, it.outs, it.vt)
           /\ \A at \in Nat : IsItem([it EXCEPT !.at = at], it.do, at, it.outs, it.vt)
           /\ \A do \in Doings, at \in Nat :
                  IsItem([it EXCEPT !.do = do, !.at = at], do, at, it.outs, it.vt)
           /\ \A do \in Doings, outs \in Seq(Nat) :
                  IsItem([it EXCEPT !.do = do, !.outs = outs, !.n = @ + 1], do, it.at, outs, it.vt)
<1>1. \A n \in Nat : IsItem([it EXCEPT !.n = n], it.do, it.at, it.outs, it.vt)
  BY DEF IsItem, Items, Where
<1>2. \A at, n \in Nat : IsItem([it EXCEPT !.at = at, !.n = n], it.do, at, it.outs, it.vt)
  BY DEF IsItem, Items, Where
<1>3. \A vt \in Kinds : IsItem([it EXCEPT !.vt = vt], it.do, it.at, it.outs, vt)
  BY DEF IsItem, Items, Where
<1>4. \A do \in Doings : IsItem([it EXCEPT !.do = do], do, it.at, it.outs, it.vt)
  BY DEF IsItem, Items, Where
<1>5. \A at \in Nat : IsItem([it EXCEPT !.at = at], it.do, at, it.outs, it.vt)
  BY DEF IsItem, Items, Where
<1>6. \A do \in Doings, at \in Nat :
         IsItem([it EXCEPT !.do = do, !.at = at], do, at, it.outs, it.vt)
  BY DEF IsItem, Items, Where
<1>7. ASSUME NEW do \in Doings, NEW outs \in Seq(Nat)
      PROVE  IsItem([it EXCEPT !.do = do, !.outs = outs, !.n = @ + 1], do, it.at, outs, it.vt)
  <2>1. \A n \in Nat : IsItem([it EXCEPT !.do = do, !.outs = outs, !.n = n], do, it.at, outs, it.vt)
    BY DEF IsItem, Items, Where
  <2>2. it.n + 1 \in Nat
    BY DEF Items
  <2> QED BY <2>1, <2>2
<1> QED BY <1>1, <1>2, <1>3, <1>4, <1>5, <1>6, <1>7

LEMMA ExprsAre ==
    ASSUME NEW n \in Nat
    PROVE  Exprs(n) \in Seq(Items) /\ AllFree(Exprs(n))
<1>1. Item("expr") \in Items /\ Item("expr").do = "expr"
  BY ItemIs DEF Doings
<1> QED BY <1>1 DEF Exprs, AllFree, Free

LEMMA NoneAre ==
    <<>> \in Seq(Items) /\ Len(<<>>) = 0 /\ PlainClaims(<<>>) = {} /\ AllFree(<<>>)
    /\ \A d : Shallow(<<>>, d)
BY DEF PlainClaims, Shallow, AllFree

LEMMA OneIs ==
    ASSUME NEW a \in Items
    PROVE  /\ <<a>> \in Seq(Items) /\ Len(<<a>>) = 1 /\ <<a>>[1] = a /\ PlainClaims(<<a>>) = PlainClaim(a)
           /\ <<a>> # <<>> /\ (Free(a) => AllFree(<<a>>))
<1>1. <<a>> \in Seq(Items) /\ Len(<<a>>) = 1 /\ <<a>>[1] = a
  OBVIOUS
<1>2. \A q : q \in 1 .. 1 <=> q = 1
  OBVIOUS
<1> QED BY <1>1, <1>2 DEF PlainClaims, AllFree

LEMMA PairIs ==
    ASSUME NEW a \in Items, NEW b \in Items
    PROVE  /\ <<a, b>> \in Seq(Items) /\ Len(<<a, b>>) = 2 /\ <<a, b>>[1] = a /\ <<a, b>>[2] = b
           /\ PlainClaims(<<a, b>>) = PlainClaim(a) \cup PlainClaim(b)
           /\ \A d : (\A l : Kept(a, d, l) /\ Kept(b, d, l)) /\ a.do \notin Deep /\ b.do \notin Deep
                     => Shallow(<<a, b>>, d)
           /\ Free(a) /\ Free(b) => AllFree(<<a, b>>)
<1>1. <<a, b>> \in Seq(Items) /\ Len(<<a, b>>) = 2 /\ <<a, b>>[1] = a /\ <<a, b>>[2] = b
  OBVIOUS
<1>2. \A q : q \in 1 .. 2 <=> q = 1 \/ q = 2
  OBVIOUS
<1>3. PlainClaims(<<a, b>>) = PlainClaim(a) \cup PlainClaim(b)
  BY <1>1, <1>2 DEF PlainClaims
<1>4. \A d : (\A l : Kept(a, d, l) /\ Kept(b, d, l)) /\ a.do \notin Deep /\ b.do \notin Deep
             => Shallow(<<a, b>>, d)
  BY <1>1, <1>2 DEF Shallow
<1>5. Free(a) /\ Free(b) => AllFree(<<a, b>>)
  BY <1>1, <1>2 DEF AllFree
<1> QED BY <1>1, <1>3, <1>4, <1>5

LEMMA BothFree ==
    ASSUME NEW u \in Seq(Items), NEW v \in Seq(Items), AllFree(u), AllFree(v)
    PROVE  u \o v \in Seq(Items) /\ AllFree(u \o v)
<1>1. /\ u \o v \in Seq(Items) /\ Len(u \o v) = Len(u) + Len(v)
      /\ \A j \in 1 .. Len(u) : (u \o v)[j] = u[j]
      /\ \A q \in 1 .. Len(v) : (u \o v)[Len(u) + q] = v[q]
      /\ Len(u) \in Nat /\ Len(v) \in Nat
  BY ConcatIs
<1> DEFINE w == u \o v
<1> HIDE DEF w
<1>2. ASSUME NEW q \in 1 .. Len(w) PROVE Free(w[q])
  <2>1. CASE q \in 1 .. Len(u)
    BY <1>1, <2>1 DEF AllFree, w
  <2>2. CASE q \notin 1 .. Len(u)
    <3>1. q - Len(u) \in 1 .. Len(v) /\ q = Len(u) + (q - Len(u))
      BY <1>1, <2>2 DEF w
    <3> QED BY <1>1, <3>1 DEF AllFree, w
  <2> QED BY <2>1, <2>2
<1> QED BY <1>1, <1>2 DEF AllFree, w

\* A step that holds nothing.
LEMMA FreeGo ==
    ASSUME GInv, todo # <<>>, UNCHANGED <<loops, out, pc, depth>>, Slipping, Free(It), It.do # "block",
           NEW u \in Seq(Items), Go(u), AllFree(u),
           NEW d, Goes(Blk, d, {}, {}), InBlk(d)
    PROVE  GInv'
<1>1. Writes(It, Blk)
  BY WritesIs
<1>2. IsReplaced(Items, todo, u, todo') /\ Len(todo) > 1
  BY <1>1, GoIs DEF Writes
<1>3. IsTopped(Chunks, chunks, d, chunks')
  BY <1>1, InBlkIs DEF Writes, Goes
<1> QED BY <1>2, <1>3, FreeInv

LEMMA SameIs ==
    ASSUME GInv, todo # <<>>, UNCHANGED chunks
    PROVE  InBlk(Blk) /\ Goes(Blk, Blk, {}, {})
<1>1. Writes(It, Blk)
  BY WritesIs
<1>2. Goes(Blk, Blk, {}, {})
  BY <1>1, GoesNowhere DEF Writes
<1>3. chunks = Append(Front(chunks), Last(chunks))
  <2>1. chunks \in Seq(Chunks) /\ chunks # <<>>
    BY <1>1 DEF GInv, Writes
  <2> QED BY <2>1, FrontOf
<1> QED BY <1>2, <1>3 DEF InBlk, Blk

LEMMA DescendIs ==
    ASSUME todo \in Seq(Items), todo # <<>>, NEW w \in Seq(Items), Descend(w),
           NEW v, v = <<It>> \o w
    PROVE  Grown(Items, todo, It, w, v, todo')
<1>1. todo' = todo \o w /\ It = Last(todo)
  BY DEF Descend, It
<1>2. v = <<Last(todo)>> \o w
  BY <1>1
<1>3. Grown(Items, todo, Last(todo), w, v, todo')
  BY <1>1, <1>2, DescendedIs
<1> QED BY <1>1, <1>3

LEMMA FreeDescend ==
    ASSUME GInv, Parsing("block"), UNCHANGED <<chunks, loops, slips, out, pc, depth>>,
           NEW u \in Seq(Items), Descend(u), AllFree(u)
    PROVE  GInv'
<1>1. todo # <<>> /\ It.do = "block" /\ todo \in Seq(Items) /\ It = Last(todo)
  BY DEF Parsing, It, GInv
<1>2. Free(It) /\ Slipping
  BY <1>1 DEF Free, Slipping
<1>3. Writes(It, Blk)
  BY <1>1, WritesIs
<1>4. IsTopped(Chunks, chunks, Blk, chunks') /\ Goes(Blk, Blk, {}, {})
  BY <1>1, <1>3, SameBlk, SameIs DEF Writes
<1> DEFINE v == <<It>> \o u
<1>5. /\ IsReplaced(Items, todo, v, todo') /\ v \in Seq(Items)
      /\ Len(v) = Len(u) + 1 /\ Len(u) \in Nat
      /\ v[1] = It /\ \A q \in 1 .. Len(u) : v[q + 1] = u[q]
  <2>1. Grown(Items, todo, It, u, v, todo')
    BY <1>1, DescendIs
  <2> HIDE DEF v
  <2> QED BY <2>1 DEF Grown
<1> HIDE DEF v
<1>6. v # <<>>
  BY <1>5
<1>7. AllFree(v)
  <2>1. ASSUME NEW q \in 1 .. Len(v) PROVE Free(v[q])
    <3>1. CASE q = 1
      BY <1>2, <1>5, <3>1
    <3>2. CASE q # 1
      <4>1. q - 1 \in 1 .. Len(u) /\ q = (q - 1) + 1
        BY <1>5, <3>2
      <4> QED BY <1>5, <4>1 DEF AllFree
    <3> QED BY <3>1, <3>2
  <2> QED BY <2>1 DEF AllFree
<1> QED BY <1>1, <1>2, <1>4, <1>5, <1>6, <1>7, FreeInv

-----------------------------------------------------------------------------
(* Expressions and plain statements *)

LEMMA LeafInv == ASSUME GInv, Leaf PROVE GInv'
<1>1. todo # <<>> /\ It.do = "expr" /\ Free(It) /\ Slipping /\ UNCHANGED <<loops, out, pc, depth>>
  BY DEF Leaf, Parsing, It, Free, Slipping, Neutral, Proceeds, Stopped
<1>2. Goes(Blk, Emit(Blk, 0, 1), {}, {})
  BY <1>1, WritesIs, EmitGoes DEF Writes, GInv
<1> QED BY <1>1, <1>2, NoneAre, FreeGo DEF Leaf

LEMMA OperandsInv == ASSUME GInv, NEW n \in 1 .. MaxOperands, Operands(n) PROVE GInv'
<1>1. todo # <<>> /\ It.do = "expr" /\ Free(It) /\ Slipping /\ UNCHANGED <<chunks, loops, out, pc, depth>>
  BY DEF Operands, Parsing, It, Free, Slipping, Neutral, Begins, Stopped
<1> DEFINE a == [Item("apply") EXCEPT !.at = 1, !.n = n]
<1>3. n \in Nat
  BY CodeAssumption
<1>2. a \in Items /\ Free(a)
  <2>1. Item("apply") \in Items /\ Item("apply").do = "apply" /\ 1 \in Nat
    BY SMTT(60), ItemIs DEF Doings
  <2>2. IsItem(a, "apply", 1, Item("apply").outs, Item("apply").vt)
    BY <1>3, <2>1, SetItem
  <2> QED BY <2>2 DEF IsItem, Free
<1>4. Go(<<a>> \o Exprs(n))
  BY DEF Operands
<1> HIDE DEF a
<1>5. <<a>> \o Exprs(n) \in Seq(Items) /\ AllFree(<<a>> \o Exprs(n))
  BY <1>2, <1>3, ExprsAre, OneIs, BothFree
<1> QED BY <1>1, <1>4, <1>5, SameIs, FreeGo

LEMMA ApplyInv == ASSUME GInv, Apply PROVE GInv'
<1>1. todo # <<>> /\ It.do = "apply" /\ Free(It) /\ Slipping /\ UNCHANGED <<loops, out, pc, depth>>
  BY DEF Apply, Parsing, It, Free, Slipping, Neutral, Proceeds, Stopped
<1>2. Writes(It, Blk)
  BY <1>1, WritesIs
<1>3. It.n \in Nat /\ It.at \in Nat
  BY <1>2 DEF Writes, Items, Where
<1>4. Goes(Blk, Emit(Blk, It.n, It.at), {}, {})
  BY <1>2, <1>3, EmitGoes DEF Writes, GInv
<1> QED BY <1>1, <1>4, NoneAre, FreeGo DEF Apply

LEMMA EndBlockInv == ASSUME GInv, EndBlock PROVE GInv'
<1>1. /\ todo # <<>> /\ It.do = "block" /\ Free(It) /\ Slipping
      /\ UNCHANGED <<chunks, loops, out, pc, depth>> /\ Go(<<>>) /\ Len(todo) > 1
  BY DEF EndBlock, Parsing, It, Free, Slipping, Neutral, Proceeds, Stopped
<1>2. Writes(It, Blk)
  BY <1>1, WritesIs
<1>3. IsReplaced(Items, todo, <<>>, todo')
  BY <1>1, NoneAre, GoIs
<1>4. IsTopped(Chunks, chunks, Blk, chunks') /\ Goes(Blk, Blk, {}, {})
  BY <1>1, <1>2, SameBlk, SameIs DEF Writes
<1> QED BY <1>1, <1>3, <1>4, NoneAre, FreeInv

LEMMA ReturnInv == ASSUME GInv, Return PROVE GInv'
<1>1. Item("ret") \in Items /\ Item("expr") \in Items /\ Free(Item("ret")) /\ Free(Item("expr"))
  BY ItemIs DEF Doings, Free
<1>2. UNCHANGED <<chunks, loops, slips, out, pc, depth>> /\ Parsing("block") /\ Descend(<<Item("ret"), Item("expr")>>)
  BY DEF Return, Neutral, Begins, Stopped
<1> QED BY <1>1, <1>2, PairIs, FreeDescend

LEMMA EmitRetInv == ASSUME GInv, EmitRet PROVE GInv'
<1>1. todo # <<>> /\ It.do = "ret" /\ Free(It) /\ Slipping /\ UNCHANGED <<loops, out, pc, depth>>
  BY DEF EmitRet, Parsing, It, Free, Slipping, Neutral, Proceeds, Stopped
<1>2. Goes(Blk, Coded(Blk, "ret", 1, 0, 0), {}, {})
  BY <1>1, WritesIs, RetGoes DEF Writes, GInv
<1> QED BY <1>1, <1>2, NoneAre, FreeGo DEF EmitRet

LEMMA LvalIs ==
    /\ Lval \in Items /\ Free(Lval) /\ Lval.vt = "symbol"
    /\ \A vt \in {"dot", "index", "call"} : [Lval EXCEPT !.vt = vt] \in Items /\ Free([Lval EXCEPT !.vt = vt])
<1>1. Item("lval") \in Items /\ Item("lval").do = "lval"
  BY SMTT(60), ItemIs DEF Doings
<1>2. IsItem(Lval, "lval", Item("lval").at, Item("lval").outs, "symbol")
  BY <1>1, SetItem DEF Lval, Kinds
<1>3. Lval \in Items /\ Lval.do = "lval" /\ Free(Lval) /\ Lval.vt = "symbol"
  BY <1>2 DEF IsItem, Free
<1>4. ASSUME NEW vt \in {"dot", "index", "call"} PROVE [Lval EXCEPT !.vt = vt] \in Items /\ Free([Lval EXCEPT !.vt = vt])
  <2>1. IsItem([Lval EXCEPT !.vt = vt], Lval.do, Lval.at, Lval.outs, vt)
    BY <1>3, SetItem DEF Kinds
  <2> QED BY SMTT(60), <1>3, <2>1 DEF IsItem, Free
<1> QED BY <1>3, <1>4

LEMMA BeginStatInv == ASSUME GInv, BeginStat PROVE GInv'
<1>1. Lval \in Items /\ Free(Lval)
  BY LvalIs
<1>2. UNCHANGED <<chunks, loops, slips, out, pc, depth>> /\ Parsing("block") /\ Descend(<<Lval>>)
  BY DEF BeginStat, Neutral, Begins, Stopped
<1> QED BY <1>1, <1>2, OneIs, FreeDescend

LEMMA PartialGoes ==
    ASSUME loops \in Seq(LoopInfos), NEW c \in Chunks, Sound(c.inst), NEW vt
    PROVE  vt \in {"symbol", "dot", "index", "call"} => Goes(c, Partial(c, vt), {}, {})
<1>1. Goes(c, Emit(c, 0, 1), {}, {}) /\ Goes(c, Emit(c, 1, 1), {}, {}) /\ Goes(c, Emit(c, 2, 1), {}, {})
      /\ Goes(c, c, {}, {})
  BY EmitGoes, GoesNowhere
<1> QED BY <1>1 DEF Partial

\* The kinds of a left side.
LEMMA LvalKind ==
    ASSUME GInv, Parsing("lval")
    PROVE  /\ todo # <<>> /\ It.do = "lval" /\ Free(It) /\ Writes(It, Blk) /\ It \in Items
           /\ It.vt \in {"symbol", "dot", "index", "call"}
<1>1. todo # <<>> /\ It.do = "lval"
  BY DEF Parsing, It
<1>2. Writes(It, Blk)
  BY <1>1, WritesIs
<1>3. Kept(It, Blk, 0) /\ It \in Items
  BY <1>1, <1>2 DEF Writes, Deep
<1> QED BY <1>1, <1>2, <1>3 DEF Free, Kept

LEMMA SuffixInv ==
    ASSUME GInv, NEW vt \in {"dot", "index", "call"}, NEW args \in Nat, Suffix(vt, args)
    PROVE  GInv'
<1>1. todo # <<>> /\ It.do = "lval" /\ Free(It) /\ Writes(It, Blk) /\ It \in Items
      /\ It.vt \in {"symbol", "dot", "index", "call"}
  BY LvalKind DEF Suffix
<1>2. UNCHANGED <<loops, out, pc, depth>> /\ Slipping
  BY DEF Suffix, Begins, Stopped, Slipping
<1>3. Goes(Blk, Partial(Blk, It.vt), {}, {})
  BY <1>1, PartialGoes DEF GInv, Writes
<1> DEFINE a == [Lval EXCEPT !.vt = vt]
           b == [Item("apply") EXCEPT !.n = args + 1]
           rest == CASE vt = "dot" -> <<>>
                     [] vt = "index" -> Exprs(1)
                     [] vt = "call" -> <<b>> \o Exprs(args)
<1>4. a \in Items /\ Free(a)
  BY LvalIs
<1>5. b \in Items /\ Free(b)
  <2>1. Item("apply") \in Items /\ Item("apply").do = "apply" /\ args + 1 \in Nat
    BY ItemIs DEF Doings
  <2>2. IsItem(b, "apply", Item("apply").at, Item("apply").outs, Item("apply").vt)
    BY <2>1, SetItem
  <2> QED BY <2>2 DEF IsItem, Free
<1>6. Go(<<a>> \o rest) /\ InBlk(Partial(Blk, It.vt))
  BY DEF Suffix
<1>7. rest \in Seq(Items) /\ AllFree(rest)
  <2>1. CASE vt = "dot"
    BY <2>1, NoneAre
  <2>2. CASE vt = "index"
    BY <2>2, ExprsAre
  <2>3. CASE vt = "call"
    <3> HIDE DEF b
    <3>1. <<b>> \o Exprs(args) \in Seq(Items) /\ AllFree(<<b>> \o Exprs(args))
      BY <1>5, ExprsAre, OneIs, BothFree
    <3> QED BY <2>3, <3>1
  <2> QED BY <2>1, <2>2, <2>3
<1> HIDE DEF a, rest
<1>8. <<a>> \o rest \in Seq(Items) /\ AllFree(<<a>> \o rest)
  BY <1>4, <1>7, OneIs, BothFree
<1> QED BY <1>1, <1>2, <1>3, <1>6, <1>8, FreeGo

LEMMA AssignInv == ASSUME GInv, Assign PROVE GInv'
<1>1. /\ todo # <<>> /\ It.do = "lval" /\ Free(It) /\ It \in Items
      /\ It.vt \in {"symbol", "dot", "index", "call"}
  BY LvalKind DEF Assign
<1>2. UNCHANGED <<chunks, loops, out, pc, depth>> /\ Slipping /\ It.vt # "call"
  BY DEF Assign, Neutral, Proceeds, Stopped, Slipping
<1> DEFINE a == [It EXCEPT !.do = "assign"]
<1>3. a \in Items /\ Free(a)
  <2>1. IsItem(a, "assign", It.at, It.outs, It.vt)
    BY ZenonT(60), <1>1, SetItem DEF Doings
  <2> QED BY <1>1, <1>2, <2>1 DEF IsItem, Free
<1>4. Go(<<a, Item("expr")>>)
  BY DEF Assign
<1>5. Item("expr") \in Items /\ Free(Item("expr"))
  BY ItemIs DEF Doings, Free
<1> HIDE DEF a
<1>6. <<a, Item("expr")>> \in Seq(Items) /\ AllFree(<<a, Item("expr")>>)
  BY <1>3, <1>5, PairIs
<1> QED BY <1>1, <1>2, <1>4, <1>6, SameIs, FreeGo

LEMMA AssignEndInv == ASSUME GInv, AssignEnd PROVE GInv'
<1>1. todo # <<>> /\ It.do = "assign" /\ UNCHANGED <<loops, out, pc, depth>> /\ Slipping
  BY DEF AssignEnd, Parsing, It, Neutral, Proceeds, Stopped, Slipping
<1>2. Writes(It, Blk) /\ It.vt \in {"symbol", "dot", "index"}
  <2>1. Writes(It, Blk)
    BY <1>1, WritesIs
  <2>2. Kept(It, Blk, 0)
    BY <1>1, <2>1 DEF Writes, Deep
  <2> QED BY <1>1, <2>1, <2>2 DEF Kept
<1> DEFINE n == CASE It.vt = "symbol" -> 1 [] It.vt = "dot" -> 2 [] It.vt = "index" -> 3
<1>3. n \in Nat
  BY <1>2
<1>4. InBlk(Emit(Blk, n, 0)) /\ Go(<<>>)
  BY DEF AssignEnd
<1> HIDE DEF n
<1>5. Goes(Blk, Emit(Blk, n, 0), {}, {})
  BY <1>2, <1>3, EmitGoes DEF Writes, GInv
<1>6. Free(It) /\ It.do # "block"
  BY <1>1, <1>2 DEF Free
<1> QED BY <1>1, <1>4, <1>5, <1>6, NoneAre, FreeGo

LEMMA EndStatInv == ASSUME GInv, EndStat PROVE GInv'
<1>1. todo # <<>> /\ It.do = "lval" /\ Free(It)
  BY LvalKind DEF EndStat
<1>2. UNCHANGED <<chunks, loops, out, pc, depth>> /\ Slipping /\ Go(<<>>)
  BY DEF EndStat, Neutral, Proceeds, Stopped, Slipping
<1> QED BY <1>1, <1>2, SameIs, NoneAre, FreeGo

LEMMA LogicInv == ASSUME GInv, NEW op \in {"jnt", "jnn"}, Logic(op) PROVE GInv'
<1>1. todo # <<>> /\ It.do = "expr" /\ UNCHANGED <<chunks, loops, out, pc, depth>> /\ Slipping
  BY DEF Logic, Parsing, It, Neutral, Begins, Stopped, Slipping
<1> DEFINE a == [Item("logic") EXCEPT !.vt = op]
<1>2. a \in Items /\ Free(a)
  <2>1. Item("logic") \in Items /\ Item("logic").do = "logic" /\ op \in Kinds
    BY SMTT(60), ItemIs DEF Doings, Kinds
  <2>2. IsItem(a, "logic", Item("logic").at, Item("logic").outs, op)
    BY <2>1, SetItem
  <2> QED BY <2>2 DEF IsItem, Free
<1>3. Go(<<a, Item("expr")>>)
  BY DEF Logic
<1>4. Item("expr") \in Items /\ Free(Item("expr")) /\ Free(It)
  BY <1>1, ItemIs DEF Doings, Free
<1> HIDE DEF a
<1>5. <<a, Item("expr")>> \in Seq(Items) /\ AllFree(<<a, Item("expr")>>)
  BY <1>2, <1>4, PairIs
<1> QED BY <1>1, <1>3, <1>4, <1>5, SameIs, FreeGo

LEMMA BeginIfInv == ASSUME GInv, BeginIf PROVE GInv'
<1>1. /\ Item("cond") \in Items /\ Item("expr") \in Items
      /\ Free(Item("cond")) /\ Free(Item("expr"))
  BY ItemIs DEF Doings, Free
<1>2. UNCHANGED <<chunks, loops, slips, out, pc, depth>> /\ Parsing("block")
      /\ Descend(<<Item("cond"), Item("expr")>>)
  BY DEF BeginIf, Neutral, Begins, Stopped
<1> QED BY <1>1, <1>2, PairIs, FreeDescend

LEMMA ContinueInv == ASSUME GInv, Continue PROVE GInv'
<1>1. todo # <<>> /\ It.do = "block" /\ Free(It) /\ UNCHANGED <<todo, loops, out, pc, depth>> /\ Slipping
  BY DEF Continue, Parsing, It, Free, Begins, Stopped, Slipped, Slipping
<1>2. Writes(It, Blk)
  BY <1>1, WritesIs
<1>3. Last(loops).retry \in Nat /\ Last(loops).retry <= Pos(Blk) /\ loops \in Seq(LoopInfos)
  <2>1. loops # <<>> /\ loops \in Seq(LoopInfos)
    BY DEF Continue, GInv
  <2>2. Last(loops) \in LoopInfos
    BY <2>1, FrontOf
  <2> QED BY <2>1, <2>2 DEF Continue, LoopInfos, Where
<1>4. Goes(Blk, JumpBack(Blk, Last(loops).retry), {}, {})
  BY <1>2, <1>3, JumpBackGoes DEF Writes
<1>5. IsTopped(Chunks, chunks, JumpBack(Blk, Last(loops).retry), chunks')
  BY <1>2, <1>4, InBlkIs DEF Writes, Goes, Continue
<1>6. It \in Items /\ <<It>> \in Seq(Items) /\ AllFree(<<It>>) /\ <<It>> # <<>> /\ <<It>>[1] = It
  BY <1>1, <1>2, OneIs DEF Writes
<1>7. IsReplaced(Items, todo, <<It>>, todo')
  BY <1>1, <1>6, FrontOf DEF IsReplaced, It, GInv
<1> QED BY <1>1, <1>4, <1>5, <1>6, <1>7, FreeInv

-----------------------------------------------------------------------------
(* Logical operators, if *)

LEMMA PlainGo ==
    ASSUME GInv, todo # <<>>, UNCHANGED <<loops, out, pc, depth>>, Slipping,
           It.do \notin Deep, It.do # "block",
           NEW u \in Seq(Items), Go(u), NEW d, InBlk(d), Shallow(u, d),
           NEW D, NEW N, Goes(Blk, d, D, N),
           Clean(slips') => PlainClaim(It) \subseteq D \cup PlainClaims(u) /\ N \subseteq PlainClaims(u)
    PROVE  GInv'
<1>1. Writes(It, Blk)
  BY WritesIs
<1>2. IsReplaced(Items, todo, u, todo') /\ Len(todo) > 1
  BY <1>1, GoIs DEF Writes
<1>3. IsTopped(Chunks, chunks, d, chunks')
  BY <1>1, InBlkIs DEF Writes, Goes
<1> QED BY <1>2, <1>3, PlainInv

LEMMA LogicHoldInv == ASSUME GInv, LogicHold PROVE GInv'
<1>1. todo # <<>> /\ It.do = "logic" /\ UNCHANGED <<loops, out, pc, depth>> /\ Slipping
  BY DEF LogicHold, Parsing, It, Neutral, Proceeds, Stopped, Slipping
<1>2. Writes(It, Blk)
  BY <1>1, WritesIs
<1>3. Kept(It, Blk, 0) /\ It \in Items /\ It.do \notin Deep
  BY <1>1, <1>2 DEF Writes, Deep
<1> DEFINE d == Hold(Blk, 1, 0)
           a == [It EXCEPT !.do = "logc", !.at = Pos(Blk)]
<1>4. /\ Goes(Blk, d, {}, {Pos(Blk)}) /\ Pos(Blk) \in Nat /\ Pos(Blk) \in 1 .. Len(d.inst)
      /\ d.inst[Pos(Blk)].takes = 1
  <2>1. loops \in Seq(LoopInfos) /\ Blk \in Chunks /\ Sound(Blk.inst)
    BY <1>2 DEF Writes, GInv
  <2> QED BY SMTT(60), <2>1, HoldGoes
<1>5. IsItem(a, "logc", Pos(Blk), It.outs, It.vt)
  BY ZenonT(60), <1>3, <1>4, SetItem DEF Doings
<1>6. InBlk(d) /\ Go(<<a, Item("expr")>>)
  BY DEF LogicHold
<1>7. Item("expr") \in Items /\ Free(Item("expr"))
  BY ItemIs DEF Doings, Free
<1> HIDE DEF a, d
<1>8. \A l : Kept(a, d, l)
  BY <1>1, <1>3, <1>4, <1>5 DEF Kept, IsItem, Tests
<1>9. PlainClaim(a) = {Pos(Blk)} /\ a.do \notin Deep /\ a \in Items
  BY <1>5 DEF PlainClaim, IsItem, Deep
<1>10. <<a, Item("expr")>> \in Seq(Items) /\ Shallow(<<a, Item("expr")>>, d)
       /\ PlainClaims(<<a, Item("expr")>>) = {Pos(Blk)}
  BY <1>7, <1>8, <1>9, PairIs, FreeIs
<1>11. PlainClaim(It) = {}
  BY <1>1 DEF PlainClaim
<1> QED BY <1>1, <1>3, <1>4, <1>6, <1>10, <1>11, PlainGo

LEMMA LogicEndInv == ASSUME GInv, LogicEnd PROVE GInv'
<1>1. todo # <<>> /\ It.do = "logc" /\ UNCHANGED <<loops, out, pc, depth>> /\ Slipping
  BY DEF LogicEnd, Parsing, It, Neutral, Proceeds, Stopped, Slipping
<1>2. Writes(It, Blk)
  BY <1>1, WritesIs
<1>3. Kept(It, Blk, 0) /\ It \in Items /\ It.do \notin Deep
  BY <1>1, <1>2 DEF Writes, Deep
<1>4. It.vt \in Jumps /\ It.vt # "jmp" /\ Tests(Blk, It.at)
  BY <1>1, <1>3 DEF Kept, Jumps
<1>5. Goes(Blk, Patched(Blk, {It.at}, It.vt, FALSE), {It.at}, {})
  <2>1. \A i \in {It.at} \cap (1 .. Len(Blk.inst)) : Blk.inst[i].takes >= 1
    BY <1>4 DEF Tests
  <2> QED BY <1>2, <1>4, <2>1, PatchedGoes DEF Writes
<1>6. InBlk(Patched(Blk, {It.at}, It.vt, FALSE)) /\ Go(<<>>)
  BY DEF LogicEnd
<1>7. PlainClaim(It) = {It.at}
  BY <1>1 DEF PlainClaim
<1> QED BY <1>1, <1>3, <1>5, <1>6, <1>7, NoneAre, PlainGo

LEMMA CondInv == ASSUME GInv, Cond PROVE GInv'
<1>1. todo # <<>> /\ It.do = "cond" /\ UNCHANGED <<loops, out, pc, depth>> /\ Slipping
  BY DEF Cond, Parsing, It, Neutral, Proceeds, Stopped, Slipping
<1>2. Writes(It, Blk)
  BY <1>1, WritesIs
<1>3. It \in Items /\ It.do \notin Deep
  BY <1>1, <1>2 DEF Writes, Deep
<1> DEFINE d == Hold(Blk, 1, 0)
           a == [It EXCEPT !.do = "branch", !.at = Pos(Blk)]
<1>4. /\ Goes(Blk, d, {}, {Pos(Blk)}) /\ Pos(Blk) \in Nat /\ Pos(Blk) \in 1 .. Len(d.inst)
      /\ d.inst[Pos(Blk)].takes = 1
  <2>1. loops \in Seq(LoopInfos) /\ Blk \in Chunks /\ Sound(Blk.inst)
    BY <1>2 DEF Writes, GInv
  <2> QED BY SMTT(60), <2>1, HoldGoes
<1>5. IsItem(a, "branch", Pos(Blk), It.outs, It.vt)
  BY ZenonT(60), <1>3, <1>4, SetItem DEF Doings
<1>6. InBlk(d) /\ Go(<<a, Item("block")>>)
  BY DEF Cond
<1>7. Item("block") \in Items /\ Free(Item("block"))
  BY ItemIs DEF Doings, Free
<1> HIDE DEF a, d
<1>8. \A l : Kept(a, d, l)
  BY <1>4, <1>5 DEF Kept, IsItem, Tests
<1>9. PlainClaim(a) = {Pos(Blk)} \cup Range(It.outs) /\ a.do \notin Deep /\ a \in Items
  BY <1>5 DEF PlainClaim, IsItem, Deep
<1>10. <<a, Item("block")>> \in Seq(Items) /\ Shallow(<<a, Item("block")>>, d)
       /\ PlainClaims(<<a, Item("block")>>) = {Pos(Blk)} \cup Range(It.outs)
  BY <1>7, <1>8, <1>9, PairIs, FreeIs
<1>11. PlainClaim(It) = Range(It.outs)
  BY <1>1 DEF PlainClaim
<1> QED BY <1>1, <1>3, <1>4, <1>6, <1>10, <1>11, PlainGo

\* The end of a branch that another one follows.
LEMMA OutsAre ==
    ASSUME NEW s \in Seq(Nat), NEW i \in Nat
    PROVE  Append(s, i) \in Seq(Nat) /\ Range(Append(s, i)) = Range(s) \cup {i}
<1>1. Append(s, i) \in Seq(Nat) /\ DOMAIN Append(s, i) = 1 .. Len(s) + 1 /\ DOMAIN s = 1 .. Len(s)
      /\ Len(s) \in Nat /\ (\A j \in 1 .. Len(s) : Append(s, i)[j] = s[j]) /\ Append(s, i)[Len(s) + 1] = i
  OBVIOUS
<1>2. \A j : j \in 1 .. Len(s) + 1 <=> j \in 1 .. Len(s) \/ j = Len(s) + 1
  BY <1>1
<1> DEFINE w == Append(s, i)
<1>3. DOMAIN w = 1 .. Len(s) + 1 /\ (\A j \in 1 .. Len(s) : w[j] = s[j]) /\ w[Len(s) + 1] = i
  BY <1>1
<1> HIDE DEF w
<1>4. Range(w) = Range(s) \cup {i}
  BY <1>1, <1>2, <1>3 DEF Range
<1> QED BY <1>1, <1>4 DEF w

LEMMA BranchedGoes ==
    ASSUME GInv, Parsing("branch")
    PROVE  /\ Goes(Blk, Branched, {It.at}, {Pos(Blk)})
           /\ Writes(It, Blk) /\ It.do = "branch" /\ todo # <<>> /\ It.do \notin Deep /\ It \in Items
           /\ PlainClaim(It) = {It.at} \cup Range(It.outs) /\ Tests(Blk, It.at)
           /\ Outs \in Seq(Nat) /\ Range(Outs) = Range(It.outs) \cup {Pos(Blk)}
<1>1. todo # <<>> /\ It.do = "branch"
  BY DEF Parsing, It
<1>2. Writes(It, Blk)
  BY <1>1, WritesIs
<1>3. Kept(It, Blk, 0) /\ It \in Items /\ It.do \notin Deep
  BY <1>1, <1>2 DEF Writes, Deep
<1>4. Tests(Blk, It.at)
  BY <1>1, <1>3 DEF Kept
<1> DEFINE e == Hold(Blk, 0, 0)
<1>5. Goes(Blk, e, {}, {Pos(Blk)}) /\ Pos(Blk) \in Nat
  BY <1>2, HoldGoes DEF Writes, GInv
<1> HIDE DEF e
<1>6. Goes(e, Patched(e, {It.at}, "jne", FALSE), {It.at}, {})
  <2>1. \A i \in {It.at} \cap (1 .. Len(e.inst)) : e.inst[i].takes >= 1
    BY <1>4, <1>5 DEF Tests, Goes
  <2>2. e \in Chunks /\ Sound(e.inst) /\ "jne" \in Jumps
    BY <1>5 DEF Goes, Jumps
  <2> QED BY <2>1, <2>2, PatchedGoes
<1>7. Goes(Blk, Branched, {} \cup {It.at}, {Pos(Blk)} \cup {})
  BY <1>5, <1>6, GoesOn DEF Branched, e
<1>8. Goes(Blk, Branched, {It.at}, {Pos(Blk)})
  BY <1>7
<1>9. PlainClaim(It) = {It.at} \cup Range(It.outs)
  BY <1>1 DEF PlainClaim
<1>10. Outs \in Seq(Nat) /\ Range(Outs) = Range(It.outs) \cup {Pos(Blk)}
  <2>1. It.outs \in Seq(Nat)
    BY <1>3 DEF Items, Where
  <2> QED BY <1>5, <2>1, OutsAre DEF Outs
<1> QED BY <1>1, <1>2, <1>3, <1>4, <1>8, <1>9, <1>10

LEMMA ElifInv == ASSUME GInv, Elif PROVE GInv'
<1>1. UNCHANGED <<loops, out, pc, depth>> /\ Slipping /\ Parsing("branch")
  BY DEF Elif, Neutral, Begins, Stopped, Slipping
<1>2. /\ Goes(Blk, Branched, {It.at}, {Pos(Blk)})
      /\ It.do = "branch" /\ todo # <<>> /\ It.do \notin Deep /\ It \in Items
      /\ PlainClaim(It) = {It.at} \cup Range(It.outs)
      /\ Outs \in Seq(Nat) /\ Range(Outs) = Range(It.outs) \cup {Pos(Blk)}
  BY <1>1, BranchedGoes
<1> DEFINE a == [It EXCEPT !.do = "cond", !.outs = Outs, !.n = @ + 1]
<1>3. IsItem(a, "cond", It.at, Outs, It.vt)
  BY ZenonT(60), <1>2, SetItem DEF Doings
<1>4. InBlk(Branched) /\ Go(<<a, Item("expr")>>)
  BY DEF Elif
<1>5. Item("expr") \in Items /\ Free(Item("expr"))
  BY ItemIs DEF Doings, Free
<1> HIDE DEF a
<1>6. a.do \notin Deep /\ a \in Items /\ PlainClaim(a) = Range(Outs) /\ \A l : Kept(a, Branched, l)
  BY <1>3 DEF IsItem, Deep, PlainClaim, Kept
<1>7. <<a, Item("expr")>> \in Seq(Items) /\ Shallow(<<a, Item("expr")>>, Branched)
       /\ PlainClaims(<<a, Item("expr")>>) = Range(Outs)
  BY <1>5, <1>6, PairIs, FreeIs
<1> QED BY ZenonT(60), <1>1, <1>2, <1>4, <1>7, PlainGo

LEMMA ElseInv == ASSUME GInv, Else PROVE GInv'
<1>1. UNCHANGED <<loops, out, pc, depth>> /\ Slipping /\ Parsing("branch")
  BY DEF Else, Neutral, Begins, Stopped, Slipping
<1>2. /\ Goes(Blk, Branched, {It.at}, {Pos(Blk)})
      /\ It.do = "branch" /\ todo # <<>> /\ It.do \notin Deep /\ It \in Items
      /\ PlainClaim(It) = {It.at} \cup Range(It.outs)
      /\ Outs \in Seq(Nat) /\ Range(Outs) = Range(It.outs) \cup {Pos(Blk)}
  BY SMTT(60), <1>1, BranchedGoes
<1> DEFINE a == [It EXCEPT !.do = "else", !.outs = Outs, !.n = @ + 1]
<1>3. IsItem(a, "else", It.at, Outs, It.vt)
  BY ZenonT(60), <1>2, SetItem DEF Doings
<1>4. InBlk(Branched) /\ Go(<<a, Item("block")>>)
  BY DEF Else
<1>5. Item("block") \in Items /\ Free(Item("block"))
  BY ItemIs DEF Doings, Free
<1> HIDE DEF a
<1>6. a.do \notin Deep /\ a \in Items /\ PlainClaim(a) = Range(Outs) /\ \A l : Kept(a, Branched, l)
  BY <1>3 DEF IsItem, Deep, PlainClaim, Kept
<1>7. <<a, Item("block")>> \in Seq(Items) /\ Shallow(<<a, Item("block")>>, Branched)
       /\ PlainClaims(<<a, Item("block")>>) = Range(Outs)
  BY <1>5, <1>6, PairIs, FreeIs
<1> QED BY ZenonT(60), <1>1, <1>2, <1>4, <1>7, PlainGo

LEMMA EndElseInv == ASSUME GInv, EndElse PROVE GInv'
<1>1. todo # <<>> /\ It.do = "else" /\ UNCHANGED <<loops, out, pc, depth>> /\ Slipping
  BY DEF EndElse, Parsing, It, Neutral, Proceeds, Stopped, Slipping
<1>2. Writes(It, Blk)
  BY <1>1, WritesIs
<1>3. Goes(Blk, Patched(Blk, Range(It.outs), "jmp", FALSE), Range(It.outs), {})
  BY <1>2, PatchedGoes DEF Writes, Jumps
<1>4. PlainClaim(It) = Range(It.outs) /\ It.do \notin Deep
  BY <1>1 DEF PlainClaim, Deep
<1>5. InBlk(Patched(Blk, Range(It.outs), "jmp", FALSE)) /\ Go(<<>>)
  BY DEF EndElse
<1> QED BY <1>1, <1>3, <1>4, <1>5, NoneAre, PlainGo

LEMMA EndIfInv == ASSUME GInv, EndIf PROVE GInv'
<1>1. UNCHANGED <<loops, out, pc, depth>> /\ Slipping /\ Parsing("branch")
  BY DEF EndIf, Proceeds, Stopped, Slipping
<1>2. /\ Writes(It, Blk) /\ It.do = "branch" /\ todo # <<>> /\ It.do \notin Deep /\ It \in Items
      /\ PlainClaim(It) = {It.at} \cup Range(It.outs) /\ Tests(Blk, It.at)
  BY <1>1, BranchedGoes
<1> DEFINE c == Patched(Blk, Range(It.outs), "jmp", FALSE)
           e == Patched(c, {It.at}, "jne", FALSE)
<1>3. Goes(Blk, c, Range(It.outs), {})
  BY <1>2, PatchedGoes DEF Writes, Jumps
<1>4. InBlk(IF It.n = 0 THEN e ELSE c) /\ Go(<<>>)
      /\ slips' = IF It.n > 0 THEN slips \cup {"elif"} ELSE slips
  BY DEF EndIf
<1>5. Goes(Blk, e, Range(It.outs) \cup {It.at}, {})
  <2> HIDE DEF c
  <2>1. \A i \in {It.at} \cap (1 .. Len(c.inst)) : c.inst[i].takes >= 1
    BY <1>2, <1>3 DEF Tests, Goes
  <2>2. c \in Chunks /\ Sound(c.inst) /\ "jne" \in Jumps
    BY <1>3 DEF Goes, Jumps
  <2>3. Goes(c, e, {It.at}, {})
    BY <2>1, <2>2, PatchedGoes
  <2> HIDE DEF e
  <2>4. Goes(Blk, e, Range(It.outs) \cup {It.at}, {} \cup {})
    BY <1>3, <2>3, GoesOn
  <2> QED BY <2>4
<1> HIDE DEF c, e
<1>6. CASE It.n = 0
  BY <1>1, <1>2, <1>4, <1>5, <1>6, NoneAre, PlainGo
<1>7. CASE It.n # 0
  <2>1. ~ Clean(slips')
    BY <1>2, <1>4, <1>7 DEF Clean, Items
  <2> QED BY <1>1, <1>2, <1>3, <1>4, <1>7, <2>1, NoneAre, PlainGo
<1> QED BY <1>6, <1>7

-----------------------------------------------------------------------------
(* The actions that enter or leave a loop *)

\* The levels of the items that come in.
Climbs(t, u, r) ==
    /\ Level(r, Len(t)) = Level(t, Len(t)) /\ Around(r, Len(t)) = Around(t, Len(t))
    /\ \A q \in 1 .. Len(u) :
          /\ Level(r, Len(t) + q)
                = IF u[q].do = "func" THEN Level(r, Len(t) - 1 + q) + 1 ELSE Level(r, Len(t) - 1 + q)
          /\ Around(r, Len(t) + q)
                = IF u[q].do \in {"loop", "iter"} THEN Around(r, Len(t) - 1 + q) + 1
                  ELSE Around(r, Len(t) - 1 + q)

LEMMA Climb ==
    ASSUME NEW t \in Seq(Items), t # <<>>, NEW u, NEW r, IsReplaced(Items, t, u, r)
    PROVE  Climbs(t, u, r)
<1>1. /\ Len(t) \in Nat \ {0} /\ Len(u) \in Nat
      /\ \A j \in 1 .. Len(t) - 1 : r[j] = t[j]
      /\ \A i \in 1 .. Len(u) : r[Len(t) - 1 + i] = u[i]
  BY DEF IsReplaced
<1>2. SameBelow(t, r, Len(t))
  BY <1>1 DEF SameBelow
<1>3. /\ Opens(r, Len(t), {"func"}) = Opens(t, Len(t), {"func"})
      /\ Opens(r, Len(t), {"loop", "iter"}) = Opens(t, Len(t), {"loop", "iter"})
  BY <1>2, OpensSame
<1>4. ASSUME NEW q \in 1 .. Len(u)
      PROVE  /\ Level(r, Len(t) + q)
                   = IF u[q].do = "func" THEN Level(r, Len(t) - 1 + q) + 1 ELSE Level(r, Len(t) - 1 + q)
             /\ Around(r, Len(t) + q)
                   = IF u[q].do \in {"loop", "iter"} THEN Around(r, Len(t) - 1 + q) + 1
                     ELSE Around(r, Len(t) - 1 + q)
  <2>1. PICK n \in Nat \ {0} : n = Len(t) - 1 + q
    <3>1. Len(t) - 1 + q \in Nat \ {0}
      BY <1>1
    <3> QED BY <3>1
  <2>2. n + 1 = Len(t) + q
    BY <1>1, <2>1
  <2>3. r[n] = u[q]
    BY <1>1, <2>1
  <2>4. /\ Opens(r, n + 1, {"func"})
              = IF r[n].do \in {"func"} THEN Opens(r, n, {"func"}) + 1 ELSE Opens(r, n, {"func"})
        /\ Opens(r, n + 1, {"loop", "iter"})
              = IF r[n].do \in {"loop", "iter"} THEN Opens(r, n, {"loop", "iter"}) + 1
                ELSE Opens(r, n, {"loop", "iter"})
    BY OpensNext
  <2>5. Opens(r, n, {"func"}) \in Nat /\ Opens(r, n, {"loop", "iter"}) \in Nat
    BY ThoseFinite
  <2>6. Level(r, n + 1) = IF u[q].do = "func" THEN Level(r, n) + 1 ELSE Level(r, n)
    BY <2>3, <2>4, <2>5 DEF Level
  <2>7. Around(r, n + 1) = IF u[q].do \in {"loop", "iter"} THEN Around(r, n) + 1 ELSE Around(r, n)
    BY <2>3, <2>4, <2>5 DEF Around
  <2> QED BY <2>1, <2>2, <2>6, <2>7
<1> QED BY <1>3, <1>4 DEF Climbs, Level, Around

LEMMA DeepInv ==
    ASSUME GInv, todo # <<>>, UNCHANGED <<out, pc, depth>>, Slipping,
           NEW u, NEW d, NEW D, NEW N,
           Below(todo, chunks, loops, u, todo', chunks', loops', d),
           Above(todo, loops, u, todo', chunks', loops'),
           Goes(chunks[Level(todo, Len(todo))], d, D, N),
           Clean(slips') => Cared(todo, loops, u, todo', loops', chunks[Level(todo, Len(todo))], d)
    PROVE  GInv'
<1>1. /\ Parsed(todo, chunks, loops, slips) /\ (Clean(slips') => Clean(slips))
      /\ todo \in Seq(Items) /\ chunks \in Seq(Chunks) /\ loops \in Seq(LoopInfos)
  BY SlipsMore DEF GInv
<1>2. Parsed(todo', chunks', loops', slips')
  BY <1>1, StepKeeps
<1>3. todo' # <<>> /\ todo' \in Seq(Items) /\ chunks' \in Seq(Chunks) /\ loops' \in Seq(LoopInfos)
  BY <1>2 DEF Below, IsReplaced
<1>4. slips' \subseteq {"elif", "outer", "chain"}
  BY DEF GInv, Slipping
<1> QED BY <1>1, <1>2, <1>3, <1>4 DEF GInv

\* Where the stack and the chains stand.
Stands(K, M, A) ==
    /\ todo \in Seq(Items) /\ chunks \in Seq(Chunks) /\ loops \in Seq(LoopInfos)
    /\ K = Len(todo) /\ K \in Nat \ {0} /\ todo[K] = It
    /\ M = Level(todo, K) /\ M \in 1 .. Len(chunks) /\ M \in Nat
    /\ A = Around(todo, K) /\ A \in 0 .. Len(loops) /\ A \in Nat
    /\ Len(chunks) \in Nat \ {0} /\ Len(loops) \in Nat
    /\ M = (IF It.do = "func" THEN Len(chunks) - 1 ELSE Len(chunks))
    /\ A = (IF It.do \in {"loop", "iter"} THEN Len(loops) - 1 ELSE Len(loops))
    /\ chunks[M] \in Chunks /\ Sound(chunks[M].inst)
    /\ Kept(It, chunks[M], loops[A + 1])
    /\ todo[1].do = "block" /\ Blk = chunks[Len(chunks)]
    /\ It.do # "func" => chunks[M] = Blk

LEMMA StandsSo ==
    ASSUME GInv, todo # <<>>
    PROVE  Stands(Len(todo), Level(todo, Len(todo)), Around(todo, Len(todo)))
<1>1. Parsed(todo, chunks, loops, slips) /\ todo \in Seq(Items) /\ chunks \in Seq(Chunks) /\ loops \in Seq(LoopInfos)
  BY DEF GInv
<1>2. Aligned(todo, chunks, loops) /\ todo[1].do = "block"
  BY <1>1 DEF Parsed, Aligned
<1>3. Len(todo) \in Nat \ {0} /\ It = todo[Len(todo)] /\ It \in Items
  BY <1>1, FrontOf DEF It
<1>4. /\ Level(todo, Len(todo)) \in 1 .. Len(chunks) /\ Around(todo, Len(todo)) \in 0 .. Len(loops)
      /\ Len(todo) \in 1 .. Len(todo)
  <2>1. Len(todo) \in 1 .. Len(todo)
    BY <1>3
  <2> QED BY <1>1, <1>2, <2>1, LevelsIn
<1>5. chunks # <<>> /\ Len(chunks) \in Nat \ {0} /\ Len(loops) \in Nat
  BY <1>1, <1>4
<1>6. Blk = chunks[Len(chunks)]
  BY <1>1, <1>5, FrontOf DEF Blk
<1>7. /\ Level(todo, Len(todo)) = (IF It.do = "func" THEN Len(chunks) - 1 ELSE Len(chunks))
      /\ Around(todo, Len(todo)) = (IF It.do \in {"loop", "iter"} THEN Len(loops) - 1 ELSE Len(loops))
  BY <1>1, <1>2, <1>3, TopLevels
<1>8. /\ Kept(It, chunks[Level(todo, Len(todo))], loops[Around(todo, Len(todo)) + 1])
      /\ chunks[Level(todo, Len(todo))] \in Chunks /\ Sound(chunks[Level(todo, Len(todo))].inst)
  BY <1>1, <1>3, <1>4 DEF Parsed
<1>9. Level(todo, Len(todo)) \in Nat /\ Around(todo, Len(todo)) \in Nat
  BY <1>4, <1>5
<1> QED BY <1>1, <1>2, <1>3, <1>4, <1>5, <1>6, <1>7, <1>8, <1>9 DEF Stands

\* The item of a loop that is entered.
Enters(a, L) == (a.do = "loop" /\ L.death) \/ (a.do = "iter" /\ ~ L.death)

\* for: the loop is entered, its item and one more are put above the block.
Begun(K, M, A, L, a, b, u) ==
    /\ Stands(K, M, A) /\ M = Len(chunks) /\ A = Len(loops)
    /\ u \in Seq(Items) /\ Len(u) = 3 /\ u[1] = It /\ u[2] = a /\ u[3] = b
    /\ Level(todo', K) = M /\ Level(todo', K + 1) = M /\ Level(todo', K + 2) = M
    /\ Around(todo', K) = A /\ Around(todo', K + 1) = A /\ Around(todo', K + 2) = A + 1
    /\ loops' \in Seq(LoopInfos) /\ Len(loops') = A + 1 /\ loops'[A + 1] = L
    /\ \A k \in 1 .. A : loops'[k] = loops[k]
    /\ Below(todo, chunks, loops, u, todo', chunks', loops', Blk)

LEMMA LoopBegun ==
    ASSUME GInv, Parsing("block"), UNCHANGED chunks,
           NEW L \in LoopInfos, loops' = Append(loops, L),
           NEW a \in Items, NEW b \in Items, Descend(<<a, b>>), Free(b),
           Enters(a, L)
    PROVE  \E K, M, A, u : Begun(K, M, A, L, a, b, u)
<1>1. todo # <<>> /\ It.do = "block"
  BY DEF Parsing, It
<1>2. PICK K, M, A : Stands(K, M, A)
  BY <1>1, StandsSo
<1> DEFINE u == <<It>> \o <<a, b>>
<1>3. /\ IsReplaced(Items, todo, u, todo') /\ u \in Seq(Items) /\ Len(u) = 3
      /\ u[1] = It /\ u[2] = a /\ u[3] = b
  <2> DEFINE w == <<a, b>>
  <2>1. w \in Seq(Items) /\ Len(w) = 2 /\ w[1] = a /\ w[2] = b
    OBVIOUS
  <2>2. todo \in Seq(Items) /\ todo # <<>> /\ Descend(w)
    BY <1>1, <1>2 DEF Stands
  <2> HIDE DEF w
  <2>3. u = <<It>> \o w
    BY DEF w
  <2> HIDE DEF u
  <2>4. Grown(Items, todo, It, w, u, todo')
    BY <2>1, <2>2, <2>3, DescendIs
  <2>5. 1 \in 1 .. 2 /\ 2 \in 1 .. 2 /\ 1 + 1 = 2 /\ 2 + 1 = 3
    OBVIOUS
  <2>6. u[2] = a /\ u[3] = b
    BY <2>1, <2>4, <2>5 DEF Grown
  <2> QED BY <2>1, <2>4, <2>6 DEF Grown
<1> HIDE DEF u
<1>4. /\ Len(todo') = K + 2 /\ todo' \in Seq(Items) /\ K \in Nat \ {0} /\ M \in Nat /\ A \in Nat
      /\ M = Len(chunks) /\ A = Len(loops) /\ \A j \in 1 .. K - 1 : todo'[j] = todo[j]
      /\ todo'[K] = It
  <2>1. \A q \in 1 .. 3 : todo'[K - 1 + q] = u[q]
    BY <1>2, <1>3 DEF IsReplaced, Stands
  <2>2. K - 1 + 1 = K /\ K - 1 + 3 = K + 2
    BY <1>2 DEF Stands
  <2> QED BY <1>1, <1>2, <1>3, <2>1, <2>2 DEF IsReplaced, Stands
<1>5. /\ Level(todo', K) = M /\ Level(todo', K + 1) = M /\ Level(todo', K + 2) = M /\ Level(todo', K + 3) = M
      /\ Around(todo', K) = A /\ Around(todo', K + 1) = A /\ Around(todo', K + 2) = A + 1
      /\ Around(todo', K + 3) = A + 1
  <2>1. /\ Level(todo', K) = M /\ Around(todo', K) = A
        /\ \A q \in 1 .. 3 :
              /\ Level(todo', K + q)
                    = IF u[q].do = "func" THEN Level(todo', K - 1 + q) + 1 ELSE Level(todo', K - 1 + q)
              /\ Around(todo', K + q)
                    = IF u[q].do \in {"loop", "iter"} THEN Around(todo', K - 1 + q) + 1
                      ELSE Around(todo', K - 1 + q)
    <3>1. todo \in Seq(Items) /\ K = Len(todo) /\ M = Level(todo, K) /\ A = Around(todo, K) /\ Len(u) = 3
      BY <1>2, <1>3 DEF Stands
    <3>2. Climbs(todo, u, todo')
      BY <1>1, <1>3, <3>1, Climb
    <3> QED BY <3>1, <3>2 DEF Climbs
  <2>2. K - 1 + 1 = K /\ K - 1 + 2 = K + 1 /\ K - 1 + 3 = K + 2 /\ b.do # "func" /\ b.do \notin {"loop", "iter"}
    BY <1>4, FreeIs DEF Deep
  <2>3. a.do \in {"loop", "iter"}
    BY DEF Enters
  <2> QED BY <1>1, <1>3, <2>1, <2>2, <2>3
<1>6. /\ loops' \in Seq(LoopInfos) /\ Len(loops') = A + 1 /\ loops'[A + 1] = L
      /\ \A k \in 1 .. A : loops'[k] = loops[k]
  BY <1>2, <1>4 DEF Stands
<1>7. Below(todo, chunks, loops, u, todo', chunks', loops', Blk)
  <2>1. todo' # <<>> /\ todo'[1].do = "block"
    <3>1. K = 1 \/ 1 \in 1 .. K - 1
      BY <1>4
    <3> QED BY <1>1, <1>2, <1>4, <3>1 DEF Stands
  <2>2. Len(todo') + 1 = K + 3
    BY <1>4
  <2>3. chunks[M] = Blk
    BY <1>1, <1>2 DEF Stands
  <2> QED BY <1>2, <1>3, <1>4, <1>5, <1>6, <2>1, <2>2, <2>3 DEF Below, Stands
<1>8. Begun(K, M, A, L, a, b, u)
  BY <1>2, <1>3, <1>4, <1>5, <1>6, <1>7 DEF Begun
<1> QED BY <1>8

LEMMA LoopEntered ==
    ASSUME GInv, Parsing("block"), UNCHANGED <<chunks, slips, out, pc, depth>>,
           NEW L \in LoopInfos, loops' = Append(loops, L),
           NEW a \in Items, NEW b \in Items, Descend(<<a, b>>), Free(b),
           Enters(a, L)
    PROVE  GInv'
<1>1. todo # <<>> /\ It.do = "block" /\ Slipping
  BY DEF Parsing, It, Slipping
<1>2. PICK K, M, A, u : Begun(K, M, A, L, a, b, u)
  BY LoopBegun
<1>3. Stands(K, M, A) /\ u \in Seq(Items) /\ Len(u) = 3 /\ u[1] = It /\ u[2] = a /\ u[3] = b
  BY <1>2 DEF Begun
<1>4. K \in Nat \ {0} /\ M \in Nat /\ A \in Nat /\ M = Len(chunks) /\ A = Len(loops)
  BY <1>2 DEF Begun, Stands
<1>5. /\ Level(todo', K) = M /\ Level(todo', K + 1) = M /\ Level(todo', K + 2) = M
      /\ Around(todo', K) = A /\ Around(todo', K + 1) = A /\ Around(todo', K + 2) = A + 1
  BY <1>2 DEF Begun
<1>6. loops'[A + 1] = L
  BY <1>2 DEF Begun
<1>7. Below(todo, chunks, loops, u, todo', chunks', loops', Blk)
  BY <1>2 DEF Begun
<1>8. \A q \in 1 .. 3 : q = 1 \/ q = 2 \/ q = 3
  OBVIOUS
<1>9. /\ Len(todo) - 1 + 1 = K /\ Len(todo) - 1 + 2 = K + 1 /\ Len(todo) - 1 + 3 = K + 2
  BY <1>3 DEF Stands
<1>10. Above(todo, loops, u, todo', chunks', loops')
  <2>1. Kept(a, chunks'[M], L) /\ a.do # "func"
    BY DEF Kept, Enters
  <2>2. Kept(b, chunks'[M], loops'[A + 2]) /\ b.do # "func"
    BY FreeIs DEF Deep
  <2>3. Kept(It, chunks'[M], loops'[A + 1]) /\ It.do # "func"
    BY <1>1 DEF Kept
  <2>4. ASSUME NEW q \in 1 .. Len(u)
        PROVE  /\ Kept(u[q], chunks'[Level(todo', Len(todo) - 1 + q)], loops'[Around(todo', Len(todo) - 1 + q) + 1])
               /\ u[q].do # "func"
    <3>1. CASE q = 1
      BY <1>3, <1>5, <1>9, <2>3, <3>1
    <3>2. CASE q = 2
      BY <1>3, <1>5, <1>6, <1>9, <2>1, <3>2
    <3>3. CASE q = 3
      <4>1. A + 1 + 1 = A + 2
        BY <1>4
      <4> QED BY <1>3, <1>5, <1>9, <2>2, <3>3, <4>1
    <3> QED BY <1>3, <1>8, <3>1, <3>2, <3>3
  <2>5. Level(todo, Len(todo)) + 1 .. Len(chunks') = {}
    BY <1>3, <1>4 DEF Stands
  <2> QED BY <2>4, <2>5 DEF Above
<1>11. Goes(chunks[Level(todo, Len(todo))], Blk, {}, {})
  BY <1>1, <1>3, GoesNowhere DEF Stands
<1>12. Cared(todo, loops, u, todo', loops', chunks[Level(todo, Len(todo))], Blk)
  <2>1. chunks[Level(todo, Len(todo))] = Blk /\ todo[Len(todo)] = It
    BY <1>1, <1>3 DEF Stands
  <2>2. Claim(It, loops[Around(todo, Len(todo)) + 1]) = {}
    BY <1>1 DEF Claim
  <2> QED BY <2>1, <2>2 DEF Cared
<1> QED BY <1>1, <1>7, <1>10, <1>11, <1>12, DeepInv

LEMMA NewLoop ==
    ASSUME GInv, todo # <<>>, NEW retry \in Nat, NEW death \in BOOLEAN
    PROVE  Loop(retry, death) \in LoopInfos /\ Loop(retry, death).death = death
<1>1. Pos(Blk) \in Nat /\ Len(loops) \in Nat
  <2>1. Blk \in Chunks /\ loops \in Seq(LoopInfos)
    BY WritesIs DEF Writes, GInv
  <2> QED BY <2>1 DEF Chunks, Pos
<1> QED BY <1>1 DEF Loop, LoopInfos, Where, LoopId

LEMMA ForInv == ASSUME GInv, For PROVE GInv'
<1>1. todo # <<>> /\ Parsing("block")
  BY DEF For, Parsing
<1>2. UNCHANGED <<chunks, slips, out, pc, depth>> /\ Descend(<<Item("loop"), Item("block")>>)
      /\ loops' = Append(loops, Loop(Pos(Blk), TRUE))
  BY DEF For, Begins, Stopped
<1>3. Pos(Blk) \in Nat
  <2>1. Blk \in Chunks
    BY <1>1, WritesIs DEF Writes
  <2> QED BY <2>1 DEF Chunks, Pos
<1>4. Loop(Pos(Blk), TRUE) \in LoopInfos /\ Loop(Pos(Blk), TRUE).death
  BY <1>1, <1>3, NewLoop
<1>5. Item("loop") \in Items /\ Item("block") \in Items /\ Free(Item("block")) /\ Item("loop").do = "loop"
  BY ItemIs DEF Doings, Free
<1> DEFINE L == Loop(Pos(Blk), TRUE)
<1>6. L \in LoopInfos /\ Enters(Item("loop"), L) /\ loops' = Append(loops, L)
  BY <1>2, <1>4, <1>5 DEF Enters
<1> HIDE DEF L
<1> QED BY <1>1, <1>2, <1>5, <1>6, LoopEntered

LEMMA ForInInv == ASSUME GInv, ForIn PROVE GInv'
<1>1. todo # <<>> /\ Parsing("block")
  BY DEF ForIn, Parsing
<1>2. UNCHANGED <<chunks, slips, out, pc, depth>> /\ Descend(<<Item("iter"), Item("expr")>>)
      /\ loops' = Append(loops, Loop(1, FALSE))
  BY DEF ForIn, Begins, Stopped
<1>3. Loop(1, FALSE) \in LoopInfos /\ ~ Loop(1, FALSE).death
  BY <1>1, NewLoop
<1>4. Item("iter") \in Items /\ Item("expr") \in Items /\ Free(Item("expr")) /\ Item("iter").do = "iter"
  BY ItemIs DEF Doings, Free
<1>5. Enters(Item("iter"), Loop(1, FALSE))
  BY <1>3, <1>4 DEF Enters
<1> QED BY <1>1, <1>2, <1>3, <1>4, <1>5, LoopEntered

\* A loop of which something is set.
IsLoop(k, death, breaks, jcond) ==
    k \in LoopInfos /\ k.death = death /\ k.breaks = breaks /\ k.jcond = jcond

LEMMA LoopSet ==
    ASSUME NEW l \in LoopInfos
    PROVE  /\ \A retry, jcond \in Nat :
                 IsLoop([l EXCEPT !.retry = retry, !.jcond = jcond], l.death, l.breaks, jcond)
           /\ \A breaks \in Seq(Nat) : IsLoop([l EXCEPT !.breaks = breaks], l.death, breaks, l.jcond)
<1>1. ASSUME NEW retry \in Nat, NEW jcond \in Nat
      PROVE  IsLoop([l EXCEPT !.retry = retry, !.jcond = jcond], l.death, l.breaks, jcond)
  BY DEF IsLoop, LoopInfos, Where
<1>2. ASSUME NEW breaks \in Seq(Nat)
      PROVE  IsLoop([l EXCEPT !.breaks = breaks], l.death, breaks, l.jcond)
  BY DEF IsLoop, LoopInfos, Where
<1> QED BY <1>1, <1>2

\* The code of the head of a loop over values.
LEMMA HeadGoes ==
    ASSUME loops \in Seq(LoopInfos), NEW c \in Chunks, Sound(c.inst),
           NEW called, called = Emit(Emit(Emit(c, 1, 0), 0, 1), 1, 1),
           NEW d, d = Emit(Hold(called, 1, 1), 1, 0)
    PROVE  Goes(c, d, {}, {Pos(called)}) /\ Tests(d, Pos(called)) /\ Pos(called) \in Nat
<1> DEFINE c1 == Emit(c, 1, 0)
           c2 == Emit(c1, 0, 1)
           c3 == Emit(c2, 1, 1)
           c4 == Hold(c3, 1, 1)
           c5 == Emit(c4, 1, 0)
<1>1. called = c3 /\ d = c5
  OBVIOUS
<1>2. Goes(c, c1, {}, {})
  BY EmitGoes
<1> HIDE DEF c1
<1>3. Goes(c1, c2, {}, {})
  BY <1>2, EmitGoes DEF Goes
<1> HIDE DEF c2
<1>4. Goes(c2, c3, {}, {})
  BY <1>3, EmitGoes DEF Goes
<1> HIDE DEF c3
<1>5. /\ Goes(c3, c4, {}, {Pos(c3)}) /\ Pos(c3) \in Nat /\ Pos(c3) \in 1 .. Len(c4.inst)
      /\ c4.inst[Pos(c3)].takes = 1
  BY <1>4, HoldGoes DEF Goes
<1> HIDE DEF c4
<1>6. Goes(c4, c5, {}, {})
  BY <1>5, EmitGoes DEF Goes
<1> HIDE DEF c5
<1>7. Goes(c, c2, {} \cup {}, {} \cup {})
  BY <1>2, <1>3, GoesOn
<1>8. Goes(c, c3, ({} \cup {}) \cup {}, ({} \cup {}) \cup {})
  BY <1>4, <1>7, GoesOn
<1>9. Goes(c, c4, (({} \cup {}) \cup {}) \cup {}, (({} \cup {}) \cup {}) \cup {Pos(c3)})
  BY <1>5, <1>8, GoesOn
<1>10. Goes(c, c5, ((({} \cup {}) \cup {}) \cup {}) \cup {}, ((({} \cup {}) \cup {}) \cup {Pos(c3)}) \cup {})
  BY <1>6, <1>9, GoesOn
<1>11. ((({} \cup {}) \cup {}) \cup {}) \cup {} = {} /\ ((({} \cup {}) \cup {}) \cup {Pos(c3)}) \cup {} = {Pos(c3)}
  OBVIOUS
<1>12. Tests(c5, Pos(c3))
  BY <1>5, <1>6 DEF Goes, Tests
<1> QED BY <1>1, <1>5, <1>10, <1>11, <1>12

\* for x in expr goes on with its block: what its head becomes, and the loop.
Headed(K, M, A, d, L, u) ==
    /\ Stands(K, M, A) /\ M = Len(chunks) /\ A = Len(loops) - 1 /\ M \in Nat \ {0} /\ Last(loops) = loops[A + 1]
    /\ loops # <<>> /\ d = Emit(Hold(Emit(Emit(Emit(Blk, 1, 0), 0, 1), 1, 1), 1, 1), 1, 0)
    /\ Goes(Blk, d, {}, {L.jcond}) /\ Tests(d, L.jcond) /\ L.jcond = Pos(Emit(Emit(Emit(Blk, 1, 0), 0, 1), 1, 1))
    /\ IsLoop(L, Last(loops).death, Last(loops).breaks, L.jcond)
    /\ L.id = Last(loops).id /\ L.retry = Pos(Blk) + 1
    /\ loops' \in Seq(LoopInfos) /\ Len(loops') = A + 1 /\ loops'[A + 1] = L
    /\ \A k \in 1 .. A : loops'[k] = loops[k]
    /\ u \in Seq(Items) /\ Len(u) = 2 /\ u[1].do = "loop" /\ u[2].do = "block"
    /\ Level(todo', K) = M /\ Level(todo', K + 1) = M /\ Around(todo', K) = A /\ Around(todo', K + 1) = A + 1
    /\ chunks'[M] = d /\ Len(chunks') = M
    /\ Below(todo, chunks, loops, u, todo', chunks', loops', d)

LEMMA IterHeaded == ASSUME GInv, Iter PROVE \E K, M, A, d, L, u : Headed(K, M, A, d, L, u)
<1>1. todo # <<>> /\ It.do = "iter"
  BY DEF Iter, Parsing, It
<1>2. PICK K, M, A : Stands(K, M, A)
  BY <1>1, StandsSo
<1> DEFINE called == Emit(Emit(Emit(Blk, 1, 0), 0, 1), 1, 1)
           d == Emit(Hold(called, 1, 1), 1, 0)
           L == [Last(loops) EXCEPT !.retry = Pos(Blk) + 1, !.jcond = Pos(called)]
           u == <<Item("loop"), Item("block")>>
<1>3. InBlk(d) /\ loops' = Append(Front(loops), L) /\ Go(u)
  BY DEF Iter
<1>4. /\ M = Len(chunks) /\ A = Len(loops) - 1 /\ K \in Nat \ {0} /\ M \in Nat \ {0} /\ A \in Nat
      /\ Blk = chunks[M] /\ Blk \in Chunks /\ Sound(Blk.inst) /\ chunks # <<>> /\ loops # <<>>
      /\ loops \in Seq(LoopInfos) /\ chunks \in Seq(Chunks) /\ todo \in Seq(Items) /\ It = todo[K] /\ K = Len(todo)
      /\ M = Level(todo, K) /\ A = Around(todo, K)
  BY <1>1, <1>2 DEF Stands
<1>5. Goes(Blk, d, {}, {Pos(called)}) /\ Tests(d, Pos(called)) /\ Pos(called) \in Nat
  <2> HIDE DEF called
  <2>1. called = Emit(Emit(Emit(Blk, 1, 0), 0, 1), 1, 1)
    BY DEF called
  <2> HIDE DEF d
  <2>2. d = Emit(Hold(called, 1, 1), 1, 0)
    BY DEF d
  <2> QED BY <1>4, <2>1, <2>2, HeadGoes
<1>5a. d = Emit(Hold(Emit(Emit(Emit(Blk, 1, 0), 0, 1), 1, 1), 1, 1), 1, 0)
       /\ Pos(called) = Pos(Emit(Emit(Emit(Blk, 1, 0), 0, 1), 1, 1))
  BY DEF called, d
<1> HIDE DEF called, d
<1>6. /\ L \in LoopInfos /\ IsLoop(L, Last(loops).death, Last(loops).breaks, Pos(called))
      /\ L.id = Last(loops).id /\ L.retry = Pos(Blk) + 1
  <2>1. Last(loops) \in LoopInfos
    BY <1>4, FrontOf
  <2>2. PICK retry \in Nat, jcond \in Nat : retry = Pos(Blk) + 1 /\ jcond = Pos(called)
    <3>1. Pos(Blk) + 1 \in Nat
      BY SMTT(60), <1>4 DEF Chunks, Pos
    <3> QED BY <1>5, <3>1
  <2>3. L = [Last(loops) EXCEPT !.retry = retry, !.jcond = jcond]
    BY <2>2 DEF L
  <2> HIDE DEF L
  <2>4. IsLoop(L, Last(loops).death, Last(loops).breaks, jcond)
    BY <2>1, <2>3, LoopSet
  <2>5. L.id = Last(loops).id /\ L.retry = retry
    BY <2>1, <2>3 DEF LoopInfos
  <2> QED BY <2>2, <2>4, <2>5 DEF IsLoop
<1> HIDE DEF L
<1>7. /\ loops' \in Seq(LoopInfos) /\ Len(loops') = A + 1 /\ loops'[A + 1] = L
      /\ (\A k \in 1 .. A : loops'[k] = loops[k]) /\ Last(loops) = loops[A + 1]
  <2>1. IsTopped(LoopInfos, loops, L, loops')
    BY <1>3, <1>4, <1>6, ToppedIs
  <2>2. Len(loops) = A + 1 /\ Len(loops) - 1 = A
    <3>1. Len(loops) \in Nat
      BY <1>4
    <3> QED BY <1>4, <3>1
  <2>3. Last(loops) = loops[Len(loops)]
    BY <1>4, FrontOf
  <2> QED BY <2>1, <2>2, <2>3 DEF IsTopped
<1>8. IsTopped(Chunks, chunks, d, chunks')
  BY <1>3, <1>4, <1>5, InBlkIs DEF Goes
<1>9. /\ Item("loop") \in Items /\ Item("block") \in Items /\ Item("loop").do = "loop"
      /\ Item("block").do = "block"
  BY ItemIs DEF Doings
<1>10. u \in Seq(Items) /\ Len(u) = 2 /\ u[1] = Item("loop") /\ u[2] = Item("block")
  BY <1>9
<1> HIDE DEF u
<1>11. IsReplaced(Items, todo, u, todo')
  BY <1>1, <1>3, <1>10, GoIs
<1>12. /\ Level(todo', K) = M /\ Level(todo', K + 1) = M /\ Level(todo', K + 2) = M
       /\ Around(todo', K) = A /\ Around(todo', K + 1) = A + 1 /\ Around(todo', K + 2) = A + 1
  <2>1. Climbs(todo, u, todo')
    BY <1>1, <1>4, <1>11, Climb
  <2>2. K - 1 + 1 = K /\ K - 1 + 2 = K + 1
    BY <1>4
  <2>3. 1 \in 1 .. Len(u) /\ 2 \in 1 .. Len(u)
    BY <1>10
  <2>4. Level(todo', K) = M /\ Around(todo', K) = A
    BY <1>4, <2>1 DEF Climbs
  <2>5. Level(todo', K + 1) = M /\ Around(todo', K + 1) = A + 1
    BY <1>4, <1>9, <1>10, <2>1, <2>2, <2>3, <2>4 DEF Climbs
  <2>6. Level(todo', K + 2) = M /\ Around(todo', K + 2) = A + 1
    BY <1>4, <1>9, <1>10, <2>1, <2>2, <2>3, <2>5 DEF Climbs
  <2> QED BY <2>4, <2>5, <2>6
<1>13. K > 1 /\ Len(todo') + 1 = K + 2 /\ todo' # <<>> /\ todo'[1].do = "block"
  <2>1. K > 1
    BY <1>1, <1>2, <1>4 DEF Stands
  <2>2. Len(todo') = Len(todo) - 1 + Len(u) /\ Len(todo') \in Nat
        /\ \A j \in 1 .. Len(todo) - 1 : todo'[j] = todo[j]
    BY <1>11 DEF IsReplaced
  <2>3. 1 \in 1 .. Len(todo) - 1
    BY <1>4, <2>1
  <2>4. Len(todo') + 1 = K + 2 /\ Len(todo') = K + 1 /\ todo'[1] = todo[1]
    BY <1>4, <1>10, <2>1, <2>2, <2>3
  <2> QED BY <1>2, <1>4, <2>1, <2>4 DEF Stands
<1>14. Below(todo, chunks, loops, u, todo', chunks', loops', d)
  BY <1>4, <1>7, <1>8, <1>11, <1>12, <1>13 DEF Below, IsTopped
<1>15. chunks'[M] = d /\ Len(chunks') = M
  BY <1>4, <1>8 DEF IsTopped
<1>16. L.jcond = Pos(called) /\ u[1].do = "loop" /\ u[2].do = "block"
  BY <1>6, <1>9, <1>10 DEF IsLoop
<1>17. Headed(K, M, A, d, L, u)
  BY <1>2, <1>4, <1>5, <1>5a, <1>6, <1>7, <1>10, <1>12, <1>14, <1>15, <1>16 DEF Headed
<1> QED BY <1>17

LEMMA IterInv == ASSUME GInv, Iter PROVE GInv'
<1>1. todo # <<>> /\ It.do = "iter" /\ Slipping /\ UNCHANGED <<out, pc, depth>>
  BY DEF Iter, Parsing, It, Slipping, Proceeds, Stopped
<1>2. PICK K, M, A, d, L, u : Headed(K, M, A, d, L, u)
  BY IterHeaded
<1>3. /\ Stands(K, M, A) /\ M = Len(chunks) /\ K = Len(todo) /\ M = Level(todo, K) /\ A = Around(todo, K)
      /\ K \in Nat \ {0} /\ M \in Nat /\ A \in Nat /\ Blk = chunks[M] /\ It = todo[K]
  BY <1>1, <1>2 DEF Headed, Stands
<1>4. Goes(Blk, d, {}, {L.jcond}) /\ Tests(d, L.jcond)
  BY <1>2 DEF Headed
<1>5. L.death = loops[A + 1].death /\ L.breaks = loops[A + 1].breaks /\ loops'[A + 1] = L
  BY <1>2 DEF Headed, IsLoop
<1>6. /\ Len(u) = 2 /\ u[1].do = "loop" /\ u[2].do = "block"
      /\ Level(todo', K) = M /\ Level(todo', K + 1) = M /\ Around(todo', K) = A
      /\ chunks'[M] = d /\ Len(chunks') = M
  BY <1>2 DEF Headed
<1>7. Below(todo, chunks, loops, u, todo', chunks', loops', d)
  BY <1>2 DEF Headed
<1>8. Len(todo) - 1 + 1 = K /\ Len(todo) - 1 + 2 = K + 1 /\ \A q \in 1 .. 2 : q = 1 \/ q = 2
  BY <1>3
<1>9. Above(todo, loops, u, todo', chunks', loops')
  <2>1. Kept(u[1], d, L) /\ \A l : Kept(u[2], d, l)
    BY <1>4, <1>6 DEF Kept
  <2>2. ASSUME NEW q \in 1 .. Len(u)
        PROVE  /\ Kept(u[q], chunks'[Level(todo', Len(todo) - 1 + q)], loops'[Around(todo', Len(todo) - 1 + q) + 1])
               /\ u[q].do # "func"
    <3>1. CASE q = 1
      BY <1>5, <1>6, <1>8, <2>1, <3>1
    <3>2. CASE q = 2
      BY <1>6, <1>8, <2>1, <3>2
    <3> QED BY <1>6, <1>8, <3>1, <3>2
  <2>3. Level(todo, Len(todo)) + 1 .. Len(chunks') = {}
    BY <1>3, <1>6
  <2> QED BY <2>2, <2>3 DEF Above
<1>10. Goes(chunks[Level(todo, Len(todo))], d, {}, {L.jcond})
  BY <1>3, <1>4
<1>11. Cared(todo, loops, u, todo', loops', chunks[Level(todo, Len(todo))], d)
  <2>1. Claim(It, loops[A + 1]) = Range(L.breaks)
    BY <1>1, <1>5 DEF Claim
  <2>2. Claim(u[1], L) = Range(L.breaks) \cup {L.jcond}
    <3>1. ~ L.death
      BY <1>1, <1>3, <1>5 DEF Stands, Kept
    <3> QED BY <1>6, <3>1 DEF Claim
  <2>3. ASSUME NEW i \in Held(d), i \notin Held(Blk) \ Claim(It, loops[A + 1])
        PROVE  i \in Claim(u[1], L)
    BY <1>4, <2>1, <2>2, <2>3 DEF Goes
  <2>4. 1 \in 1 .. Len(u) /\ Level(todo', Len(todo) - 1 + 1) = M
        /\ loops'[Around(todo', Len(todo) - 1 + 1) + 1] = L
    BY <1>5, <1>6, <1>8
  <2> QED BY <1>3, <2>3, <2>4 DEF Cared
<1> QED BY <1>1, <1>7, <1>9, <1>10, <1>11, DeepInv

\* ymk_loop_leave
LEMMA LeftGoes ==
    ASSUME loops \in Seq(LoopInfos), NEW c \in Chunks, Sound(c.inst), NEW l \in LoopInfos,
           l.retry <= Pos(c), l.death \/ Tests(c, l.jcond)
    PROVE  Goes(c, Left(c, l), Range(l.breaks) \cup (IF l.death THEN {} ELSE {l.jcond}), {})
<1> DEFINE c1 == JumpBack(c, l.retry)
           c2 == Patched(c1, Range(l.breaks), "jmp", TRUE)
           c3 == Patched(c2, {l.jcond}, "foreach", TRUE)
<1>1. Left(c, l) = IF l.death THEN c2 ELSE c3
  BY DEF Left, CondLeft
<1>2. Goes(c, c1, {}, {})
  BY JumpBackGoes DEF LoopInfos, Where
<1> HIDE DEF c1
<1>3. Goes(c1, c2, Range(l.breaks), {})
  <2>1. c1 \in Chunks /\ Sound(c1.inst) /\ "jmp" \in Jumps
    BY <1>2 DEF Goes, Jumps
  <2> QED BY <2>1, PatchedGoes
<1> HIDE DEF c2
<1>4. Goes(c, c2, {} \cup Range(l.breaks), {} \cup {})
  BY <1>2, <1>3, GoesOn
<1>5. Goes(c, c2, Range(l.breaks), {})
  BY <1>4
<1>6. CASE l.death
  BY <1>1, <1>5, <1>6
<1>7. CASE ~ l.death
  <2>1. \A i \in {l.jcond} \cap (1 .. Len(c2.inst)) : c2.inst[i].takes >= 1
    BY <1>5, <1>7 DEF Goes, Tests
  <2>2. c2 \in Chunks /\ Sound(c2.inst) /\ "foreach" \in Jumps
    BY <1>5 DEF Goes, Jumps
  <2>3. Goes(c2, c3, {l.jcond}, {})
    BY <2>1, <2>2, PatchedGoes
  <2> HIDE DEF c3
  <2>4. Goes(c, c3, Range(l.breaks) \cup {l.jcond}, {} \cup {})
    BY <1>5, <2>3, GoesOn
  <2> QED BY <1>1, <1>7, <2>4
<1> QED BY <1>6, <1>7

\* The last loop is left.
Leaves(K, M, A, d, l) ==
    /\ Stands(K, M, A) /\ M = Len(chunks) /\ A = Len(loops) - 1 /\ M \in Nat \ {0}
    /\ l \in LoopInfos /\ l = loops[A + 1] /\ l.retry <= Pos(Blk) /\ (l.death \/ Tests(Blk, l.jcond))
    /\ d = Left(Blk, l) /\ Goes(Blk, d, Range(l.breaks) \cup (IF l.death THEN {} ELSE {l.jcond}), {})
    /\ loops' \in Seq(LoopInfos) /\ Len(loops') = A /\ \A k \in 1 .. A : loops'[k] = loops[k]
    /\ chunks'[M] = d /\ Len(chunks') = M
    /\ Below(todo, chunks, loops, <<>>, todo', chunks', loops', d)

LEMMA LoopLeft == ASSUME GInv, EndLoop PROVE \E K, M, A, d, l : Leaves(K, M, A, d, l)
<1>1. todo # <<>> /\ It.do = "loop"
  BY DEF EndLoop, Parsing, It
<1>2. PICK K, M, A : Stands(K, M, A)
  BY <1>1, StandsSo
<1> DEFINE d == Left(Blk, Last(loops))
           l == Last(loops)
<1>3. InBlk(d) /\ loops' = Front(loops) /\ Go(<<>>) /\ l.retry <= Pos(Blk)
  BY DEF EndLoop
<1>4. /\ M = Len(chunks) /\ A = Len(loops) - 1 /\ K \in Nat \ {0} /\ M \in Nat \ {0} /\ A \in Nat
      /\ Blk = chunks[M] /\ Blk \in Chunks /\ Sound(Blk.inst) /\ chunks # <<>> /\ loops # <<>>
      /\ loops \in Seq(LoopInfos) /\ chunks \in Seq(Chunks) /\ todo \in Seq(Items) /\ It = todo[K] /\ K = Len(todo)
      /\ M = Level(todo, K) /\ A = Around(todo, K)
  BY <1>1, <1>2 DEF Stands
<1>5. l \in LoopInfos /\ l = loops[A + 1] /\ Len(loops') = A /\ loops' \in Seq(LoopInfos)
      /\ \A k \in 1 .. A : loops'[k] = loops[k]
  <2>1. /\ Front(loops) \in Seq(LoopInfos) /\ Len(loops) \in Nat /\ Len(Front(loops)) = Len(loops) - 1
        /\ \A j \in 1 .. Len(loops) - 1 : Front(loops)[j] = loops[j]
        /\ Last(loops) = loops[Len(loops)] /\ Last(loops) \in LoopInfos
    BY <1>4, FrontOf
  <2>2. Len(loops) = A + 1 /\ Len(loops) - 1 = A
    BY <1>4, <2>1
  <2> QED BY <1>3, <2>1, <2>2
<1>6. (l.death \/ Tests(Blk, l.jcond)) /\ d = Left(Blk, l)
  BY <1>1, <1>2, <1>4, <1>5 DEF Stands, Kept
<1> HIDE DEF l
<1>6a. Goes(Blk, d, Range(l.breaks) \cup (IF l.death THEN {} ELSE {l.jcond}), {})
  BY <1>3, <1>4, <1>5, <1>6, LeftGoes
<1> HIDE DEF d
<1>7. IsTopped(Chunks, chunks, d, chunks')
  BY <1>3, <1>4, <1>6a, InBlkIs DEF Goes
<1>8. IsReplaced(Items, todo, <<>>, todo')
  BY <1>1, <1>3, NoneAre, GoIs
<1>9. Level(todo', K) = M /\ Around(todo', K) = A
  <2>1. Climbs(todo, <<>>, todo')
    BY <1>1, <1>4, <1>8, Climb
  <2> QED BY <1>4, <2>1 DEF Climbs
<1>10. K > 1 /\ Len(todo') + 1 = K /\ todo' # <<>> /\ todo'[1].do = "block"
  <2>1. K > 1
    BY <1>1, <1>2, <1>4 DEF Stands
  <2>2. Len(todo') = K - 1 /\ todo'[1] = todo[1] /\ todo' \in Seq(Items)
    <3>1. /\ todo' \in Seq(Items) /\ Len(todo') = Len(todo) - 1 + 0
          /\ \A j \in 1 .. Len(todo) - 1 : todo'[j] = todo[j]
      BY <1>8, NoneAre DEF IsReplaced
    <3>2. 1 \in 1 .. Len(todo) - 1
      BY <1>4, <2>1
    <3> QED BY SMTT(60), <1>4, <3>1, <3>2
  <2> QED BY <1>2, <1>4, <2>1, <2>2 DEF Stands
<1>11. Below(todo, chunks, loops, <<>>, todo', chunks', loops', d)
  BY <1>4, <1>5, <1>7, <1>8, <1>9, <1>10 DEF Below, IsTopped
<1>12. chunks'[M] = d /\ Len(chunks') = M
  BY <1>4, <1>7 DEF IsTopped
<1>13. Leaves(K, M, A, d, l)
  BY <1>2, <1>3, <1>4, <1>5, <1>6, <1>6a, <1>11, <1>12 DEF Leaves
<1> QED BY <1>13

LEMMA EndLoopInv == ASSUME GInv, EndLoop PROVE GInv'
<1>1. todo # <<>> /\ It.do = "loop" /\ Slipping /\ UNCHANGED <<out, pc, depth>>
  BY DEF EndLoop, Parsing, It, Slipping, Proceeds, Stopped
<1>2. PICK K, M, A, d, l : Leaves(K, M, A, d, l)
  BY LoopLeft
<1>3. /\ Stands(K, M, A) /\ M = Len(chunks) /\ K = Len(todo) /\ M = Level(todo, K) /\ A = Around(todo, K)
      /\ M \in Nat /\ Blk = chunks[M] /\ It = todo[K]
  BY <1>1, <1>2 DEF Leaves, Stands
<1>4. Goes(Blk, d, Range(l.breaks) \cup (IF l.death THEN {} ELSE {l.jcond}), {}) /\ l = loops[A + 1]
  BY <1>2 DEF Leaves
<1>5. Below(todo, chunks, loops, <<>>, todo', chunks', loops', d) /\ Len(chunks') = M
  BY <1>2 DEF Leaves
<1>6. Above(todo, loops, <<>>, todo', chunks', loops')
  <2>1. Level(todo, Len(todo)) + 1 .. Len(chunks') = {}
    BY <1>3, <1>5
  <2>2. 1 .. Len(<<>>) = {}
    BY NoneAre
  <2> QED BY <2>1, <2>2 DEF Above
<1>7. Cared(todo, loops, <<>>, todo', loops', chunks[Level(todo, Len(todo))], d)
  <2>1. Claim(It, loops[A + 1]) = Range(l.breaks) \cup (IF l.death THEN {} ELSE {l.jcond})
    BY <1>1, <1>4 DEF Claim
  <2>2. Held(d) \subseteq Held(Blk) \ Claim(It, loops[A + 1])
    BY <1>4, <2>1 DEF Goes
  <2> QED BY <1>3, <2>2 DEF Cared
<1>8. Goes(chunks[Level(todo, Len(todo))], d, Range(l.breaks) \cup (IF l.death THEN {} ELSE {l.jcond}), {})
  BY <1>3, <1>4
<1> QED BY <1>1, <1>5, <1>6, <1>7, <1>8, DeepInv

-----------------------------------------------------------------------------
(* The actions that enter or leave a function *)

\* The chunk of a function that is entered.
LEMMA FreshIs ==
    ASSUME loops \in Seq(LoopInfos)
    PROVE  /\ Fresh \in Chunks /\ Fresh.outer = Len(loops) /\ Sound(Fresh.inst) /\ Held(Fresh) = {}
<1>1. Fresh.inst = <<>> /\ Fresh.outer = Len(loops) /\ Fresh \in Chunks
  BY DEF Fresh, Chunks
<1>2. 1 .. Len(<<>>) = {}
  OBVIOUS
<1> QED BY <1>1, <1>2 DEF Sound, Held

\* w is v and then u.
IsConcat(w, v, u) ==
    /\ u \in Seq(Items) /\ Len(u) = Len(w) + Len(v)
    /\ (\A j \in 1 .. Len(w) : u[j] = w[j])
    /\ \A q \in 1 .. Len(v) : u[Len(w) + q] = v[q]

LEMMA JoinIs ==
    ASSUME NEW w \in Seq(Items), NEW v \in Seq(Items), NEW u, u = w \o v
    PROVE  IsConcat(w, v, u)
BY ConcatIs DEF IsConcat

\* The items that Enter puts on the stack.
Entered(n, u, load) ==
    /\ u \in Seq(Items) /\ n \in 0 .. 1 /\ Len(u) = n + 2
    /\ IsItem(u[n + 1], "func", load, <<>>, "none") /\ u[n + 2].do = "block"
    /\ n = 1 => u[1] = It /\ It.do = "block"
    /\ n = 0 => It.do # "block"

LEMMA EnteredIs ==
    ASSUME GInv, todo # <<>>, NEW load \in Nat,
           NEW u, u = (IF Parsing("block") THEN <<It>> ELSE <<>>)
                      \o <<[Item("func") EXCEPT !.at = load], Item("block")>>
    PROVE  \E n : Entered(n, u, load)
<1> DEFINE f == [Item("func") EXCEPT !.at = load]
<1>1. Item("func") \in Items /\ Item("func").do = "func" /\ Item("func").outs = <<>> /\ Item("func").vt = "none"
  BY ItemIs DEF Doings
<1>2. IsItem(f, "func", load, <<>>, "none")
  BY <1>1, SetItem
<1>3. Item("block") \in Items /\ Item("block").do = "block"
  BY ItemIs DEF Doings
<1>4. u = (IF Parsing("block") THEN <<It>> ELSE <<>>) \o <<f, Item("block")>>
  OBVIOUS
<1> HIDE DEF f
<1>5. f \in Items /\ It \in Items
  BY <1>2, WritesIs DEF IsItem, Writes
<1> DEFINE v == <<f, Item("block")>>
           w == IF Parsing("block") THEN <<It>> ELSE <<>>
<1>6. v \in Seq(Items) /\ Len(v) = 2 /\ v[1] = f /\ v[2] = Item("block")
  BY <1>3, <1>5
<1>7. u = w \o v
  BY <1>4
<1>8. Parsing("block") => w \in Seq(Items) /\ Len(w) = 1 /\ w[1] = It
  BY <1>5
<1>9. ~ Parsing("block") => w \in Seq(Items) /\ Len(w) = 0
  OBVIOUS
<1> HIDE DEF v, w
<1>10. w \in Seq(Items)
  BY <1>8, <1>9
<1>11. IsConcat(w, v, u)
  <2>1. v \in Seq(Items)
    BY <1>6
  <2> QED BY <1>7, <1>10, <2>1, JoinIs
<1>12. 1 \in 1 .. 1 /\ 1 \in 1 .. 2 /\ 2 \in 1 .. 2
  OBVIOUS
<1>13. CASE Parsing("block")
  <2>1. It.do = "block" /\ 1 \in 0 .. 1
    BY <1>13 DEF Parsing, It
  <2>2. Len(w) = 1 /\ w[1] = It
    BY <1>8, <1>13
  <2>3. Len(u) = 1 + 2 /\ u[1] = It /\ u[1 + 1] = f /\ u[1 + 2] = Item("block")
    BY <1>6, <1>11, <1>12, <2>2 DEF IsConcat
  <2>4. Entered(1, u, load)
    BY <1>2, <1>3, <1>11, <2>1, <2>3 DEF Entered, IsConcat
  <2> QED BY <2>4
<1>14. CASE ~ Parsing("block")
  <2>1. It.do # "block" /\ 0 \in 0 .. 1
    BY <1>14 DEF Parsing, It
  <2>2. Len(w) = 0
    BY <1>9, <1>14
  <2>3. Len(u) = 0 + 2 /\ u[0 + 1] = f /\ u[0 + 2] = Item("block")
    BY <1>6, <1>11, <1>12, <2>2 DEF IsConcat
  <2>4. Entered(0, u, load)
    BY <1>2, <1>3, <1>11, <2>1, <2>3 DEF Entered, IsConcat
  <2> QED BY <2>4
<1> QED BY <1>13, <1>14

\* A function is entered: its items, and a chunk of its own.
Nests(K, M, A, n, u, c, load) ==
    /\ Stands(K, M, A) /\ M = Len(chunks) /\ A = Len(loops) /\ M \in Nat \ {0}
    /\ Entered(n, u, load) /\ n \in Nat
    /\ Len(chunks') = M + 1 /\ chunks'[M] = c /\ chunks'[M + 1] = Fresh
    /\ Level(todo', K) = M /\ Level(todo', K + n) = M /\ Level(todo', K + n + 1) = M + 1
    /\ Around(todo', K) = A /\ Around(todo', K + n) = A /\ Around(todo', K + n + 1) = A
    /\ Len(todo) - 1 + (n + 1) = K + n /\ Len(todo) - 1 + (n + 2) = K + n + 1 /\ Len(todo) - 1 + 1 = K
    /\ \A q \in 1 .. Len(u) : (q = 1 /\ n = 1) \/ q = n + 1 \/ q = n + 2
    /\ Below(todo, chunks, loops, u, todo', chunks', loops', c)

LEMMA FuncNests ==
    ASSUME GInv, todo # <<>>, UNCHANGED loops, It.do \in {"expr", "block"},
           NEW c \in Chunks, NEW load \in Nat, Enter(c, load)
    PROVE  \E K, M, A, n, u : Nests(K, M, A, n, u, c, load)
<1>1. PICK K, M, A : Stands(K, M, A)
  BY StandsSo
<1>2. /\ M = Len(chunks) /\ A = Len(loops) /\ K \in Nat \ {0} /\ M \in Nat \ {0} /\ A \in Nat
      /\ Blk = chunks[M] /\ Blk \in Chunks /\ Sound(Blk.inst) /\ chunks # <<>>
      /\ loops \in Seq(LoopInfos) /\ chunks \in Seq(Chunks) /\ todo \in Seq(Items) /\ It = todo[K] /\ K = Len(todo)
      /\ M = Level(todo, K) /\ A = Around(todo, K)
  BY <1>1 DEF Stands
<1> DEFINE u == (IF Parsing("block") THEN <<It>> ELSE <<>>)
                \o <<[Item("func") EXCEPT !.at = load], Item("block")>>
<1>3. Go(u) /\ chunks' = Append(Append(Front(chunks), c), Fresh)
  BY DEF Enter
<1>4. PICK n : Entered(n, u, load)
  BY EnteredIs
<1> HIDE DEF u
<1>5. /\ u \in Seq(Items) /\ n \in 0 .. 1 /\ Len(u) = n + 2 /\ n \in Nat
      /\ u[n + 1].do = "func" /\ u[n + 1].at = load /\ u[n + 2].do = "block"
      /\ (n = 1 => u[1] = It /\ It.do = "block") /\ (n = 0 => It.do # "block")
  BY <1>4 DEF Entered, IsItem
<1>6. IsReplaced(Items, todo, u, todo')
  BY <1>3, <1>5, GoIs
<1>7. /\ chunks' \in Seq(Chunks) /\ Len(chunks') = M + 1 /\ chunks'[M] = c /\ chunks'[M + 1] = Fresh
      /\ \A k \in 1 .. M - 1 : chunks'[k] = chunks[k]
  <2> DEFINE s == Append(Front(chunks), c)
  <2>2. IsTopped(Chunks, chunks, c, s)
    BY <1>2, ToppedIs
  <2>3. s \in Seq(Chunks) /\ Len(s) = M /\ s[M] = c /\ \A k \in 1 .. M - 1 : s[k] = chunks[k]
    BY <1>2, <2>2 DEF IsTopped
  <2>4. chunks' = Append(s, Fresh) /\ Fresh \in Chunks
    BY <1>2, <1>3, FreshIs
  <2> HIDE DEF s
  <2> QED BY SMTT(60), <1>2, <2>3, <2>4
<1>8. /\ Level(todo', K) = M /\ Level(todo', K + n) = M /\ Level(todo', K + n + 1) = M + 1
      /\ Level(todo', K + n + 2) = M + 1
      /\ Around(todo', K) = A /\ Around(todo', K + n) = A /\ Around(todo', K + n + 1) = A
      /\ Around(todo', K + n + 2) = A
  <2>1. Climbs(todo, u, todo')
    BY <1>2, <1>6, Climb
  <2>2. /\ K - 1 + 1 = K /\ K - 1 + (n + 1) = K + n /\ K - 1 + (n + 2) = K + n + 1
        /\ K + (n + 1) = K + n + 1 /\ K + (n + 2) = K + n + 2
        /\ n + 1 \in 1 .. Len(u) /\ n + 2 \in 1 .. Len(u)
    BY <1>2, <1>5
  <2>3. Level(todo', K) = M /\ Around(todo', K) = A
    BY <1>2, <2>1 DEF Climbs
  <2>4. Level(todo', K + n) = M /\ Around(todo', K + n) = A
    <3>1. CASE n = 0
      <4>1. K + n = K
        BY <1>2, <3>1
      <4> QED BY <2>3, <4>1
    <3>2. CASE n = 1
      <4>1. 1 \in 1 .. Len(u) /\ u[1].do = "block"
        BY <1>5, <3>2
      <4> QED BY <1>2, <2>1, <2>2, <2>3, <3>2, <4>1 DEF Climbs
    <3> QED BY <1>5, <3>1, <3>2
  <2>5. /\ Level(todo', K + (n + 1)) = Level(todo', K - 1 + (n + 1)) + 1
        /\ Around(todo', K + (n + 1)) = Around(todo', K - 1 + (n + 1))
    BY <1>2, <1>5, <2>1, <2>2 DEF Climbs
  <2>6. /\ Level(todo', K + (n + 2)) = Level(todo', K - 1 + (n + 2))
        /\ Around(todo', K + (n + 2)) = Around(todo', K - 1 + (n + 2))
    BY <1>2, <1>5, <2>1, <2>2 DEF Climbs
  <2> QED BY <2>2, <2>3, <2>4, <2>5, <2>6
<1>9. /\ Len(todo') = K + n + 1 /\ todo' \in Seq(Items) /\ todo' # <<>> /\ todo'[1].do = "block"
  <2>1. /\ todo' \in Seq(Items) /\ Len(todo') = Len(todo) - 1 + Len(u)
        /\ \A j \in 1 .. Len(todo) - 1 : todo'[j] = todo[j]
        /\ \A q \in 1 .. Len(u) : todo'[Len(todo) - 1 + q] = u[q]
    BY <1>6 DEF IsReplaced
  <2>2. Len(todo') = K + n + 1
    BY <1>2, <1>5, <2>1
  <2>3. todo' # <<>>
    BY <1>2, <1>5, <2>1, <2>2
  <2>4. CASE K = 1
    <3>1. It.do = "block" /\ n = 1 /\ Len(todo) - 1 + 1 = 1 /\ 1 \in 1 .. Len(u)
      BY <1>1, <1>2, <1>5, <2>4 DEF Stands
    <3> QED BY <1>5, <2>1, <2>2, <2>3, <3>1
  <2>5. CASE K # 1
    <3>1. 1 \in 1 .. Len(todo) - 1
      BY <1>2, <2>5
    <3> QED BY <1>1, <2>1, <2>2, <2>3, <3>1 DEF Stands
  <2> QED BY <2>4, <2>5
<1>10. Below(todo, chunks, loops, u, todo', chunks', loops', c)
  <2>1. Len(todo') + 1 = K + n + 2
    BY SMTT(60), <1>2, <1>5, <1>9
  <2> QED BY <1>2, <1>6, <1>7, <1>8, <1>9, <2>1 DEF Below
<1>11. /\ Len(todo) - 1 + (n + 1) = K + n /\ Len(todo) - 1 + (n + 2) = K + n + 1 /\ Len(todo) - 1 + 1 = K
       /\ \A q \in 1 .. Len(u) : (q = 1 /\ n = 1) \/ q = n + 1 \/ q = n + 2
  <2>1. /\ Len(todo) - 1 + (n + 1) = K + n /\ Len(todo) - 1 + (n + 2) = K + n + 1 /\ Len(todo) - 1 + 1 = K
    BY <1>2, <1>5
  <2>2. n = 0 \/ n = 1
    BY <1>5
  <2>3. ASSUME NEW q \in 1 .. Len(u)
        PROVE  (q = 1 /\ n = 1) \/ q = n + 1 \/ q = n + 2
    <3>1. CASE n = 0
      <4>1. q \in 1 .. 2
        BY <1>5, <3>1
      <4> QED BY <3>1, <4>1
    <3>2. CASE n = 1
      <4>1. q \in 1 .. 3
        BY <1>5, <3>2
      <4> QED BY <3>2, <4>1
    <3> QED BY <2>2, <3>1, <3>2
  <2> QED BY <2>1, <2>3
<1>12. Nests(K, M, A, n, u, c, load)
  BY <1>1, <1>2, <1>4, <1>5, <1>7, <1>8, <1>10, <1>11 DEF Nests
<1> QED BY <1>12

LEMMA EnterInv ==
    ASSUME GInv, todo # <<>>, UNCHANGED <<loops, slips, out, pc, depth>>, It.do \in {"expr", "block"},
           NEW c, NEW load \in Nat, Enter(c, load), Goes(Blk, c, {}, {load}), load \in 1 .. Len(c.inst)
    PROVE  GInv'
<1>1. PICK K, M, A, n, u : Nests(K, M, A, n, u, c, load)
  <2>1. c \in Chunks
    BY DEF Goes
  <2> QED BY <2>1, FuncNests
<1>2. /\ Stands(K, M, A) /\ M = Len(chunks) /\ A = Len(loops) /\ M \in Nat /\ A \in Nat
      /\ Blk = chunks[M] /\ loops \in Seq(LoopInfos) /\ It = todo[K] /\ K = Len(todo)
      /\ M = Level(todo, K) /\ A = Around(todo, K)
  BY <1>1 DEF Nests, Stands
<1>5. /\ Len(u) = n + 2 /\ n \in Nat
      /\ u[n + 1].do = "func" /\ u[n + 1].at = load /\ u[n + 2].do = "block"
      /\ (n = 1 => u[1] = It /\ It.do = "block")
  BY <1>1 DEF Nests, Entered, IsItem
<1>7. Len(chunks') = M + 1 /\ chunks'[M] = c /\ chunks'[M + 1] = Fresh
  BY <1>1 DEF Nests
<1>8. Level(todo', K + n) = M /\ Around(todo', K + n) = A
  BY <1>1 DEF Nests
<1>10. Below(todo, chunks, loops, u, todo', chunks', loops', c)
  BY <1>1 DEF Nests
<1>11. /\ Len(todo) - 1 + (n + 1) = K + n
       /\ \A q \in 1 .. Len(u) : (q = 1 /\ n = 1) \/ q = n + 1 \/ q = n + 2
  BY <1>1 DEF Nests
<1>12. Above(todo, loops, u, todo', chunks', loops')
  <2>1. ASSUME NEW q \in 1 .. Len(u)
        PROVE  /\ Kept(u[q], chunks'[Level(todo', Len(todo) - 1 + q)], loops'[Around(todo', Len(todo) - 1 + q) + 1])
               /\ u[q].do = "func" =>
                    chunks'[Level(todo', Len(todo) - 1 + q) + 1].outer = Around(todo', Len(todo) - 1 + q)
    <3>1. CASE q = 1 /\ n = 1
      BY <1>5, <3>1 DEF Kept
    <3>2. CASE q = n + 1
      <4>1. Fresh.outer = A
        BY <1>2, FreshIs
      <4>2. Kept(u[q], c, loops'[A + 1])
        BY <1>5, <3>2 DEF Kept
      <4> QED BY <1>7, <1>8, <1>11, <3>2, <4>1, <4>2
    <3>3. CASE q = n + 2
      BY <1>5, <3>3 DEF Kept
    <3> QED BY <1>11, <3>1, <3>2, <3>3
  <2>2. ASSUME NEW k \in Level(todo, Len(todo)) + 1 .. Len(chunks')
        PROVE  Sound(chunks'[k].inst) /\ Held(chunks'[k]) = {}
    <3>1. k = M + 1
      BY <1>2, <1>7
    <3> QED BY <1>2, <1>7, <3>1, FreshIs
  <2> QED BY <2>1, <2>2 DEF Above
<1>13. Cared(todo, loops, u, todo', loops', chunks[Level(todo, Len(todo))], c)
  <2>1. Claim(It, loops[A + 1]) = {}
    BY DEF Claim
  <2>2. load \in Claim(u[n + 1], loops'[Around(todo', Len(todo) - 1 + (n + 1)) + 1])
    BY <1>5 DEF Claim
  <2>3. n + 1 \in 1 .. Len(u) /\ Level(todo', Len(todo) - 1 + (n + 1)) = Level(todo, Len(todo))
    BY <1>2, <1>5, <1>8, <1>11
  <2>4. \A i \in Held(c) : i \in Held(Blk) \/ i = load
    BY DEF Goes
  <2> QED BY <1>2, <2>1, <2>2, <2>3, <2>4 DEF Cared
<1>14. Slipping
  BY DEF Slipping
<1> QED BY <1>2, <1>10, <1>12, <1>13, <1>14, DeepInv

LEMMA BindsGoes ==
    ASSUME loops \in Seq(LoopInfos), NEW c \in Chunks, Sound(c.inst), NEW n \in Nat
    PROVE  Goes(c, Binds(c, n), {}, {})
<1> DEFINE e == Pushes(c, n)
<1>1. Goes(c, e, {}, {})
  BY PushesGoes
<1> HIDE DEF e
<1>2. Goes(e, Emit(e, n + 1, 1), {}, {})
  <2>1. e \in Chunks /\ Sound(e.inst) /\ n + 1 \in Nat
    BY <1>1 DEF Goes
  <2> QED BY <2>1, EmitGoes
<1>3. Goes(c, Emit(e, n + 1, 1), {} \cup {}, {} \cup {})
  BY <1>1, <1>2, GoesOn
<1>4. Goes(c, Emit(e, n + 1, 1), {}, {})
  BY <1>3
<1> QED BY <1>4, GoesNowhere DEF Binds, e

LEMMA ClosureInv == ASSUME GInv, NEW n \in 0 .. MaxOperands - 1, Closure(n) PROVE GInv'
<1>1. todo # <<>> /\ It.do = "expr" /\ UNCHANGED <<loops, slips, out, pc, depth>> /\ n \in Nat
  BY CodeAssumption DEF Closure, Parsing, It, Neutral, Begins, Stopped
<1>2. Blk \in Chunks /\ Sound(Blk.inst) /\ loops \in Seq(LoopInfos)
  BY <1>1, WritesIs DEF Writes, GInv
<1> DEFINE c == Hold(Blk, 0, 1)
<1>3. Goes(Blk, c, {}, {Pos(Blk)}) /\ Pos(Blk) \in Nat /\ Pos(Blk) \in 1 .. Len(c.inst)
  BY <1>2, HoldGoes
<1> HIDE DEF c
<1>4. Goes(c, Binds(c, n), {}, {})
  BY <1>1, <1>2, <1>3, BindsGoes DEF Goes
<1>5. Goes(Blk, Binds(c, n), {} \cup {}, {Pos(Blk)} \cup {})
  BY <1>3, <1>4, GoesOn
<1>6. Goes(Blk, Binds(c, n), {}, {Pos(Blk)})
  BY <1>5
<1>7. Pos(Blk) \in 1 .. Len(Binds(c, n).inst)
  BY <1>3, <1>4 DEF Goes
<1>8. Enter(Binds(c, n), Pos(Blk))
  BY DEF Closure, c
<1> QED BY <1>1, <1>3, <1>6, <1>7, <1>8, EnterInv

LEMMA FuncDeclInv == ASSUME GInv, NEW n \in 1 .. 3, FuncDecl(n) PROVE GInv'
<1>1. todo # <<>> /\ It.do = "block" /\ UNCHANGED <<loops, slips, out, pc, depth>>
  BY DEF FuncDecl, Parsing, It, Neutral, Begins, Stopped
<1>2. Blk \in Chunks /\ Sound(Blk.inst) /\ loops \in Seq(LoopInfos)
  BY <1>1, WritesIs DEF Writes, GInv
<1> DEFINE one == Emit(Blk, 0, 1)
           path == Fields(one, n - 2)
           c == IF n = 1 THEN Blk ELSE path
           held == Hold(c, 0, 1)
           d == IF n = 1 THEN Emit(held, 1, 0) ELSE Emit(held, 2, 0)
<1>3. Enter(d, Len(held.inst))
  BY DEF FuncDecl
<1>4. Goes(Blk, one, {}, {})
  BY <1>2, EmitGoes
<1> HIDE DEF one
<1>5. Goes(one, path, {}, {})
  <2>1. one \in Chunks /\ Sound(one.inst) /\ n - 2 \in Int
    BY <1>4 DEF Goes
  <2> QED BY <1>2, <2>1, FieldsGoes
<1> HIDE DEF path
<1>6. Goes(Blk, path, {} \cup {}, {} \cup {})
  BY <1>4, <1>5, GoesOn
<1>7. Goes(Blk, c, {}, {})
  BY <1>2, <1>6, GoesNowhere
<1> HIDE DEF c
<1>8. /\ Goes(c, held, {}, {Pos(c)}) /\ Pos(c) \in Nat /\ Pos(c) \in 1 .. Len(held.inst)
      /\ Len(held.inst) = Pos(c)
  <2>1. c \in Chunks /\ Sound(c.inst)
    BY <1>7 DEF Goes
  <2>2. /\ Goes(c, held, {}, {Pos(c)}) /\ Pos(c) \in Nat /\ Pos(c) \in 1 .. Len(held.inst)
    BY <1>2, <2>1, HoldGoes
  <2>3. IsCoded(c, "panic", 0, 1, held)
    <3>1. 0 \in Nat /\ 1 \in Nat /\ 0 <= Pos(c) /\ "panic" \in {"data", "jmp", "ret", "panic"}
      BY <2>2
    <3>2. held = Coded(c, "panic", 0, 1, 0)
      BY DEF Hold
    <3> HIDE DEF held
    <3> QED BY <1>2, <2>1, <3>1, <3>2, CodedGoes
  <2>4. Len(held.inst) = Pos(c)
    BY <2>3 DEF IsCoded, Pos
  <2> QED BY <2>2, <2>4
<1> HIDE DEF held
<1>9. Goes(held, d, {}, {})
  <2>1. held \in Chunks /\ Sound(held.inst)
    BY <1>8 DEF Goes
  <2>2. Goes(held, Emit(held, 1, 0), {}, {}) /\ Goes(held, Emit(held, 2, 0), {}, {})
    BY <1>2, <2>1, EmitGoes
  <2> QED BY <2>2
<1> HIDE DEF d
<1>10. Goes(Blk, held, {} \cup {}, {} \cup {Pos(c)})
  BY <1>7, <1>8, GoesOn
<1>11. Goes(Blk, d, ({} \cup {}) \cup {}, ({} \cup {Pos(c)}) \cup {})
  BY <1>9, <1>10, GoesOn
<1>12. ({} \cup {}) \cup {} = {} /\ ({} \cup {Pos(c)}) \cup {} = {Pos(c)}
  OBVIOUS
<1>13. Pos(c) \in 1 .. Len(d.inst)
  BY <1>8, <1>9 DEF Goes
<1>14. Enter(d, Pos(c)) /\ Goes(Blk, d, {}, {Pos(c)})
  BY <1>3, <1>8, <1>11, <1>12
<1> QED BY <1>1, <1>8, <1>13, <1>14, EnterInv

\* The innermost function is left, and is loaded by the one around it.
Returns(K, M, A, d) ==
    /\ Stands(K, M, A) /\ M = Len(chunks) - 1 /\ A = Len(loops) /\ M \in Nat \ {0}
    /\ It.at \in 1 .. Len(chunks[M].inst) /\ d = Loaded(chunks[M], It.at) /\ Goes(chunks[M], d, {It.at}, {})
    /\ chunks'[M] = d /\ Len(chunks') = M
    /\ Below(todo, chunks, loops, <<>>, todo', chunks', loops', d)

LEMMA FuncReturns == ASSUME GInv, EndFunc PROVE \E K, M, A, d : Returns(K, M, A, d)
<1>1. todo # <<>> /\ It.do = "func" /\ UNCHANGED loops
  BY DEF EndFunc, Parsing, It, Neutral
<1>2. PICK K, M, A : Stands(K, M, A)
  BY <1>1, StandsSo
<1>3. /\ M = Len(chunks) - 1 /\ A = Len(loops) /\ K \in Nat \ {0} /\ M \in Nat \ {0} /\ A \in Nat
      /\ chunks[M] \in Chunks /\ Sound(chunks[M].inst) /\ Len(chunks) = M + 1
      /\ loops \in Seq(LoopInfos) /\ chunks \in Seq(Chunks) /\ todo \in Seq(Items) /\ It = todo[K] /\ K = Len(todo)
      /\ M = Level(todo, K) /\ A = Around(todo, K) /\ Kept(It, chunks[M], loops[A + 1])
  BY SMTT(60), <1>1, <1>2 DEF Stands
<1> DEFINE c == chunks[M]
           d == Loaded(c, It.at)
<1>4. chunks' = Append(SubSeq(chunks, 1, M - 1), d) /\ Go(<<>>)
  <2>1. Len(chunks) - 1 = M /\ Len(chunks) - 2 = M - 1
    BY <1>3
  <2> QED BY <2>1 DEF EndFunc
<1>5. It.at \in 1 .. Len(c.inst) /\ Goes(c, d, {It.at}, {}) /\ d = Loaded(chunks[M], It.at)
  <2>1. It.at \in 1 .. Len(c.inst)
    BY <1>1, <1>3 DEF Kept
  <2> QED BY <1>3, <2>1, LoadedGoes
<1> HIDE DEF d
<1>6. /\ chunks' \in Seq(Chunks) /\ Len(chunks') = M /\ chunks'[M] = d
      /\ \A k \in 1 .. M - 1 : chunks'[k] = chunks[k]
  <2> DEFINE s == SubSeq(chunks, 1, M - 1)
  <2>1. s \in Seq(Chunks) /\ Len(s) = M - 1 /\ \A k \in 1 .. M - 1 : s[k] = chunks[k]
    BY SMTT(60), <1>3
  <2>2. chunks' = Append(s, d) /\ d \in Chunks
    BY <1>4, <1>5 DEF Goes
  <2> HIDE DEF s
  <2>3. chunks' \in Seq(Chunks) /\ Len(chunks') = Len(s) + 1 /\ chunks'[Len(s) + 1] = d
        /\ \A k \in 1 .. Len(s) : chunks'[k] = s[k]
    BY <2>1, <2>2
  <2>4. Len(s) + 1 = M
    BY SMTT(60), <1>3, <2>1
  <2> QED BY <2>1, <2>3, <2>4
<1>7. IsReplaced(Items, todo, <<>>, todo')
  BY <1>1, <1>4, NoneAre, GoIs
<1>8. Level(todo', K) = M /\ Around(todo', K) = A
  <2>1. Climbs(todo, <<>>, todo')
    BY <1>1, <1>3, <1>7, Climb
  <2> QED BY <1>3, <2>1 DEF Climbs
<1>9. K > 1 /\ Len(todo') + 1 = K /\ todo' # <<>> /\ todo'[1].do = "block"
  <2>1. K > 1
    BY <1>1, <1>2, <1>3 DEF Stands
  <2>2. Len(todo') = K - 1 /\ todo'[1] = todo[1] /\ todo' \in Seq(Items)
    <3>1. /\ todo' \in Seq(Items) /\ Len(todo') = Len(todo) - 1 + 0
          /\ \A j \in 1 .. Len(todo) - 1 : todo'[j] = todo[j]
      BY <1>7, NoneAre DEF IsReplaced
    <3>2. 1 \in 1 .. Len(todo) - 1
      BY <1>3, <2>1
    <3> QED BY SMTT(60), <1>3, <3>1, <3>2
  <2> QED BY <1>2, <1>3, <2>1, <2>2 DEF Stands
<1>10. Below(todo, chunks, loops, <<>>, todo', chunks', loops', d)
  BY <1>1, <1>3, <1>6, <1>7, <1>8, <1>9 DEF Below
<1>11. Returns(K, M, A, d)
  BY <1>2, <1>3, <1>5, <1>6, <1>10 DEF Returns
<1> QED BY <1>11

LEMMA EndFuncInv == ASSUME GInv, EndFunc PROVE GInv'
<1>1. todo # <<>> /\ It.do = "func" /\ Slipping /\ UNCHANGED <<loops, out, pc, depth>>
  BY DEF EndFunc, Parsing, It, Slipping, Neutral, Proceeds, Stopped
<1>2. PICK K, M, A, d : Returns(K, M, A, d)
  BY FuncReturns
<1>3. /\ M \in Nat /\ It = todo[K] /\ K = Len(todo) /\ M = Level(todo, K) /\ A = Around(todo, K)
  BY <1>2 DEF Returns, Stands
<1>5. Goes(chunks[M], d, {It.at}, {}) /\ Len(chunks') = M
  BY <1>2 DEF Returns
<1>10. Below(todo, chunks, loops, <<>>, todo', chunks', loops', d)
  BY <1>2 DEF Returns
<1>11. Above(todo, loops, <<>>, todo', chunks', loops')
  <2>1. Level(todo, Len(todo)) + 1 .. Len(chunks') = {}
    BY <1>3, <1>5
  <2>2. 1 .. Len(<<>>) = {}
    BY NoneAre
  <2> QED BY <2>1, <2>2 DEF Above
<1>12. Cared(todo, loops, <<>>, todo', loops', chunks[Level(todo, Len(todo))], d)
  <2>1. Claim(It, loops[A + 1]) = {It.at}
    BY <1>1 DEF Claim
  <2>2. Held(d) \subseteq Held(chunks[M]) \ Claim(It, loops[A + 1])
    BY <1>5, <2>1 DEF Goes
  <2> QED BY <1>3, <2>2 DEF Cared
<1>13. Goes(chunks[Level(todo, Len(todo))], d, {It.at}, {})
  BY <1>3, <1>5
<1> QED BY <1>1, <1>10, <1>11, <1>12, <1>13, DeepInv

-----------------------------------------------------------------------------
(* break: the jump is the business of the innermost loop *)

\* A loop k that patches what l does and maybe more.
Widened(l, k) == k.death = l.death /\ k.jcond = l.jcond /\ Range(l.breaks) \subseteq Range(k.breaks)

LEMMA WidenedIs ==
    ASSUME NEW it, NEW c, NEW l, NEW k, Widened(l, k)
    PROVE  (Kept(it, c, l) => Kept(it, c, k)) /\ Claim(it, l) \subseteq Claim(it, k)
BY DEF Widened, Kept, Claim

\* The innermost loop is of the innermost function, when that has one.
LEMMA OwnLoop ==
    ASSUME NEW t \in Seq(Items), NEW ch \in Seq(Chunks), NEW lp \in Seq(LoopInfos), Aligned(t, ch, lp),
           t[Len(t)].do = "block", ch[Len(ch)].outer < Len(lp)
    PROVE  \E i \in 1 .. Len(t) :
              t[i].do \in {"loop", "iter"} /\ Around(t, i) + 1 = Len(lp) /\ Level(t, i) = Len(ch)
<1> DEFINE K == Len(t)
           M == Len(ch)
           A == Len(lp)
           F == {"func"}
           L == {"loop", "iter"}
<1>1. /\ Level(t, K) = M /\ Around(t, K) = A /\ K \in Nat \ {0} /\ M \in Nat /\ A \in Nat
  BY TopLevels
<1>2. Opens(t, K, F) = M - 1 /\ Opens(t, K, L) = A /\ Opens(t, K, F) \in Nat
  <2>1. Opens(t, K, F) \in Nat
    BY <1>1, ThoseFinite
  <2> QED BY <1>1, <2>1 DEF Level, Around
<1>3. Opens(t, K, L) # 0
  <2>1. ch[M].outer \in Nat
    <3>1. M # 0
      BY <1>1, <1>2
    <3>2. ch[M] \in Chunks
      BY <1>1, <3>1
    <3> QED BY <3>2 DEF Chunks
  <2> QED BY <1>1, <1>2, <2>1
<1>4. PICK i \in 1 .. K - 1 : t[i].do \in L /\ Opens(t, i, L) + 1 = A /\ Opens(t, i + 1, L) = A
  <2> HIDE DEF K, L
  <2>1. \E i \in 1 .. K - 1 :
           /\ t[i].do \in L /\ Opens(t, i, L) + 1 = Opens(t, K, L)
           /\ Opens(t, i + 1, L) = Opens(t, K, L)
    BY <1>1, <1>3, OpensLast
  <2> QED BY <1>2, <2>1
<1>5. i \in Nat \ {0} /\ i + 1 \in Nat /\ i \in 1 .. Len(t) /\ Around(t, i) + 1 = A
  BY <1>1, <1>4 DEF Around
<1>6. Level(t, i) \in 1 .. M
  BY <1>5, LevelsIn
<1>7. Level(t, i) = M
  <2>1. CASE M = 1
    BY <1>6, <2>1
  <2>2. CASE M # 1
    <3>1. Opens(t, K, F) # 0
      BY <1>1, <1>2, <2>2
    <3>2. PICK g \in 1 .. K - 1 : t[g].do \in F /\ Opens(t, g, F) + 1 = M - 1 /\ Opens(t, g + 1, F) = M - 1
      <4> HIDE DEF K, F
      <4>1. \E g \in 1 .. K - 1 :
               /\ t[g].do \in F /\ Opens(t, g, F) + 1 = Opens(t, K, F)
               /\ Opens(t, g + 1, F) = Opens(t, K, F)
        BY <1>1, <3>1, OpensLast
      <4> QED BY <1>2, <4>1
    <3>3. g \in Nat \ {0} /\ g + 1 \in Nat /\ g \in 1 .. Len(t)
      BY <1>1, <3>2
    <3>4. Opens(t, g, F) \in Nat /\ Opens(t, i, F) \in Nat /\ Opens(t, g, L) \in Nat
      BY <1>5, <3>3, ThoseFinite
    <3>5. ch[M].outer = Opens(t, g, L)
      <4>1. Level(t, g) + 1 = M
        BY SMTT(60), <1>1, <3>2, <3>4 DEF Level
      <4> QED BY <3>2, <3>3, <4>1 DEF Aligned, Around
    <3>6. ~ (i + 1 <= g)
      <4>1. ASSUME i + 1 <= g PROVE FALSE
        <5>1. Opens(t, i + 1, L) <= Opens(t, g, L)
          BY <1>5, <3>3, <4>1, OpensGrows
        <5> QED BY SMTT(60), <1>1, <1>4, <3>4, <3>5, <5>1
      <4> QED BY <4>1
    <3>7. g + 1 <= i
      <4>1. i # g
        BY <1>4, <3>2
      <4> QED BY <1>5, <3>3, <3>6, <4>1
    <3>8. Opens(t, g + 1, F) <= Opens(t, i, F)
      BY <1>5, <3>3, <3>7, OpensGrows
    <3>9. Level(t, i) = 1 + Opens(t, i, F)
      BY DEF Level
    <3> QED BY SMTT(60), <1>1, <1>6, <3>2, <3>4, <3>8, <3>9
  <2> QED BY <2>1, <2>2
<1> QED BY <1>4, <1>5, <1>7

LEMMA BreakInv == ASSUME GInv, Break PROVE GInv'
<1>1. todo # <<>> /\ It.do = "block" /\ UNCHANGED <<todo, out, pc, depth>> /\ Slipping /\ loops # <<>>
  BY DEF Break, Parsing, It, Begins, Stopped, Slipped, Slipping
<1>2. PICK K, M, A : Stands(K, M, A)
  BY <1>1, StandsSo
<1> DEFINE d == Hold(Blk, 0, 0)
           L == [Last(loops) EXCEPT !.breaks = Append(@, Pos(Blk))]
<1>3. InBlk(d) /\ loops' = Append(Front(loops), L)
  BY DEF Break
<1>4. /\ M = Len(chunks) /\ A = Len(loops) /\ K \in Nat \ {0} /\ M \in Nat \ {0} /\ A \in Nat
      /\ Blk = chunks[M] /\ Blk \in Chunks /\ Sound(Blk.inst) /\ chunks # <<>>
      /\ loops \in Seq(LoopInfos) /\ chunks \in Seq(Chunks) /\ todo \in Seq(Items) /\ It = todo[K] /\ K = Len(todo)
      /\ M = Level(todo, K) /\ A = Around(todo, K)
  BY <1>1, <1>2 DEF Stands
<1>5. Goes(Blk, d, {}, {Pos(Blk)}) /\ Pos(Blk) \in Nat
  BY <1>4, HoldGoes
<1> HIDE DEF d
<1>6. Last(loops) \in LoopInfos /\ Last(loops) = loops[A] /\ A \in 1 .. Len(loops) /\ A # 0
  <2>1. Last(loops) \in LoopInfos /\ Last(loops) = loops[Len(loops)] /\ Len(loops) \in Nat \ {0}
    BY <1>1, <1>4, FrontOf
  <2>2. A = Len(loops) /\ A \in Nat
    BY <1>4
  <2> QED BY <2>1, <2>2
<1>7. L \in LoopInfos /\ Widened(Last(loops), L) /\ Pos(Blk) \in Range(L.breaks)
  <2> DEFINE b == Append(Last(loops).breaks, Pos(Blk))
  <2>1. Last(loops).breaks \in Seq(Nat)
    BY <1>6 DEF LoopInfos, Where
  <2>2. b \in Seq(Nat) /\ Range(b) = Range(Last(loops).breaks) \cup {Pos(Blk)}
    BY <1>5, <2>1, OutsAre
  <2>3. L = [Last(loops) EXCEPT !.breaks = b]
    OBVIOUS
  <2> HIDE DEF b, L
  <2>4. IsLoop([Last(loops) EXCEPT !.breaks = b], Last(loops).death, b, Last(loops).jcond)
    BY <1>6, <2>2, LoopSet
  <2> QED BY <2>2, <2>3, <2>4 DEF IsLoop, Widened
<1> HIDE DEF L
<1>8. IsTopped(LoopInfos, loops, L, loops')
  BY <1>1, <1>3, <1>4, <1>7, ToppedIs
<1>9. /\ loops' \in Seq(LoopInfos) /\ Len(loops') = A /\ \A k \in 1 .. A : Widened(loops[k], loops'[k])
      /\ Pos(Blk) \in Range(loops'[A].breaks)
  <2>1. loops' \in Seq(LoopInfos) /\ Len(loops') = A /\ loops'[A] = L /\ \A k \in 1 .. A - 1 : loops'[k] = loops[k]
    BY <1>4, <1>8 DEF IsTopped
  <2>2. \A l : Widened(l, l)
    BY DEF Widened
  <2>3. \A k \in 1 .. A : k = A \/ k \in 1 .. A - 1
    BY <1>4
  <2> QED BY <1>6, <1>7, <2>1, <2>2, <2>3
<1>10. IsTopped(Chunks, chunks, d, chunks')
  BY <1>3, <1>4, <1>5, InBlkIs DEF Goes
<1>11. /\ chunks' \in Seq(Chunks) /\ Len(chunks') = M /\ chunks'[M] = d
       /\ \A k \in 1 .. M : k = M \/ (k \in 1 .. M - 1 /\ chunks'[k] = chunks[k])
  <2>1. \A k \in 1 .. M : k = M \/ k \in 1 .. M - 1
    BY <1>4
  <2> QED BY <1>4, <1>10, <2>1 DEF IsTopped
<1>12. Parsed(todo, chunks, loops, slips) /\ Aligned(todo, chunks, loops) /\ (Clean(slips') => Clean(slips))
  BY <1>1, SlipsMore DEF GInv, Parsed
<1>13. \A k \in 1 .. M : chunks'[k].outer = chunks[k].outer
  BY <1>4, <1>5, <1>11 DEF Goes
<1>14. ASSUME NEW j \in 1 .. Len(todo)
       PROVE  /\ Level(todo, j) \in 1 .. M
              /\ todo[j].do = "func" => Level(todo, j) + 1 \in 1 .. M
              /\ todo[j].do \in {"loop", "iter"} => Around(todo, j) + 1 \in 1 .. A
  BY <1>4, <1>12, LevelsIn
<1>15. Aligned(todo, chunks', loops')
  <2>1. chunks'[1].outer = 0
    BY <1>4, <1>12, <1>13 DEF Aligned
  <2>2. \A j \in 1 .. Len(todo) : todo[j].do = "func" => chunks'[Level(todo, j) + 1].outer = Around(todo, j)
    BY <1>12, <1>13, <1>14 DEF Aligned
  <2>3. todo # <<>> /\ todo[1].do = "block" /\ Level(todo, Len(todo) + 1) = Len(chunks')
        /\ Around(todo, Len(todo) + 1) = Len(loops')
    BY <1>4, <1>9, <1>11, <1>12 DEF Aligned
  <2> QED BY <2>1, <2>2, <2>3 DEF Aligned
<1>16. \A k \in 1 .. Len(chunks') : Sound(chunks'[k].inst)
  BY <1>4, <1>5, <1>11, <1>12 DEF Parsed, Goes
<1>17. ASSUME NEW j \in 1 .. Len(todo)
       PROVE  Kept(todo[j], chunks'[Level(todo, j)], loops'[Around(todo, j) + 1])
  <2>1. Kept(todo[j], chunks[Level(todo, j)], loops[Around(todo, j) + 1])
    BY <1>12 DEF Parsed
  <2>2. Kept(todo[j], chunks'[Level(todo, j)], loops[Around(todo, j) + 1])
    <3>1. CASE Level(todo, j) = M
      BY <1>4, <1>5, <1>11, <2>1, <3>1, KeptGoes
    <3>2. CASE Level(todo, j) # M
      BY <1>11, <1>14, <2>1, <3>2
    <3> QED BY <3>1, <3>2
  <2>3. CASE todo[j].do \in {"loop", "iter"}
    BY <1>9, <1>14, <2>2, <2>3, WidenedIs
  <2>4. CASE todo[j].do \notin {"loop", "iter"}
    BY <2>2, <2>4, NoLoop
  <2> QED BY <2>3, <2>4
<1>18. ASSUME NEW j \in 1 .. Len(todo)
       PROVE  Claim(todo[j], loops[Around(todo, j) + 1]) \subseteq Claim(todo[j], loops'[Around(todo, j) + 1])
  <2>1. CASE todo[j].do \in {"loop", "iter"}
    <3>1. Widened(loops[Around(todo, j) + 1], loops'[Around(todo, j) + 1])
      BY <1>9, <1>14, <2>1
    <3> QED BY <3>1, WidenedIs
  <2>2. CASE todo[j].do \notin {"loop", "iter"}
    BY <2>2, NoLoop
  <2> QED BY <2>1, <2>2
<1>19. ASSUME Clean(slips'), NEW k \in 1 .. Len(chunks'), NEW i \in Held(chunks'[k])
       PROVE  i \in Claimed(todo, loops', k)
  <2>1. CASE k \in 1 .. M /\ i \in Held(chunks[k])
    <3>1. i \in Claimed(todo, loops, k)
      BY <1>4, <1>12, <1>19, <2>1 DEF Parsed
    <3> QED BY <1>18, <3>1 DEF Claimed
  <2>2. CASE k = M /\ i = Pos(Blk)
    <3>1. Blk.outer < A
      <4>1. Own(Blk) # <<>>
        <5>1. slips' = IF Own(Blk) = <<>> THEN slips \cup {"outer"} ELSE slips
          BY DEF Break, Slipped
        <5> QED BY <1>19, <5>1 DEF Clean
      <4>2. Blk.outer \in Nat
        BY <1>4 DEF Chunks
      <4>3. Own(Blk) = SubSeq(loops, Blk.outer + 1, A)
        BY <1>4 DEF Own
      <4> QED BY SMTT(60), <1>4, <4>1, <4>2, <4>3
    <3>2. PICK j \in 1 .. Len(todo) :
             todo[j].do \in {"loop", "iter"} /\ Around(todo, j) + 1 = Len(loops) /\ Level(todo, j) = Len(chunks)
      <4>1. todo[Len(todo)].do = "block" /\ chunks[Len(chunks)].outer < Len(loops)
        BY <1>1, <1>4, <3>1
      <4> QED BY ZenonT(60), <1>4, <1>12, <4>1, OwnLoop
    <3>3. Pos(Blk) \in Claim(todo[j], loops'[Around(todo, j) + 1])
      BY <1>4, <1>9, <3>2 DEF Claim
    <3> QED BY <1>4, <2>2, <3>2, <3>3 DEF Claimed
  <2>3. (k \in 1 .. M /\ i \in Held(chunks[k])) \/ (k = M /\ i = Pos(Blk))
    BY <1>4, <1>5, <1>11 DEF Goes
  <2> QED BY <2>1, <2>2, <2>3
<1>20. Parsed(todo', chunks', loops', slips')
  <2>1. Parsed(todo, chunks', loops', slips')
    <3>1. Clean(slips') => \A k \in 1 .. Len(chunks') : Held(chunks'[k]) \subseteq Claimed(todo, loops', k)
      BY <1>19
    <3> QED BY <1>15, <1>16, <1>17, <3>1 DEF Parsed
  <2> QED BY <1>1, <2>1
<1>21. slips' \subseteq {"elif", "outer", "chain"}
  BY <1>1 DEF GInv, Slipping
<1> QED BY <1>1, <1>4, <1>9, <1>11, <1>12, <1>20, <1>21 DEF GInv

-----------------------------------------------------------------------------
(* The end of the program, and the machine *)

LEMMA FinishInv == ASSUME GInv, Finish PROVE GInv'
<1>1. /\ todo # <<>> /\ It.do = "block" /\ Len(todo) = 1 /\ out' = Ended(Blk).inst
      /\ chunks' = <<>> /\ todo' = Front(todo) \o <<>> /\ pc' = 1 /\ depth' = 0
      /\ UNCHANGED <<loops, slips>>
  BY DEF Finish, Parsing, It, Go, Neutral
<1>2. PICK K, M, A : Stands(K, M, A)
  BY <1>1, StandsSo
<1>3. /\ K = 1 /\ M = Level(todo, 1) /\ A = Around(todo, 1) /\ M = Len(chunks) /\ A = Len(loops)
      /\ Blk = chunks[M] /\ chunks[M] \in Chunks /\ Sound(chunks[M].inst) /\ It = todo[1]
      /\ todo \in Seq(Items) /\ chunks \in Seq(Chunks) /\ loops \in Seq(LoopInfos)
  BY <1>1, <1>2 DEF Stands
<1>4. M = 1 /\ A = 0
  <2>1. Opens(todo, 1, {"func"}) = 0 /\ Opens(todo, 1, {"loop", "iter"}) = 0
    BY OpensFirst
  <2> QED BY <1>3, <2>1 DEF Level, Around
<1>5. loops = <<>>
  <2>1. Len(loops) = 0 /\ loops \in Seq(LoopInfos)
    BY <1>3, <1>4
  <2> QED BY <2>1
<1>6. todo' = <<>>
  <2>1. Front(todo) \in Seq(Items) /\ Len(Front(todo)) = 0
    BY SMTT(60), <1>1, <1>3, FrontOf
  <2>2. Front(todo) = <<>>
    BY <2>1
  <2> QED BY <1>1, <2>2
<1>7. Goes(Blk, Ended(Blk), {}, {})
  BY <1>3, EndedGoes
<1>8. out' \in Seq(Inst) /\ Sound(out')
  BY <1>1, <1>7 DEF Goes, Chunks
<1>9. ASSUME Clean(slips'), NEW i \in 1 .. Len(out') PROVE out'[i].op # "panic"
  <2>1. SUFFICES ASSUME out'[i].op = "panic" PROVE FALSE
    OBVIOUS
  <2>2. i \in Held(chunks[1])
    BY ZenonT(60), <1>1, <1>3, <1>4, <1>7, <2>1 DEF Goes, Held
  <2>3. Held(chunks[1]) \subseteq Claimed(todo, loops, 1)
    BY <1>1, <1>3, <1>4, <1>9 DEF GInv, Parsed
  <2>4. PICK j \in 1 .. 1 : i \in Claim(todo[j], loops[Around(todo, j) + 1])
    BY <1>1, <2>2, <2>3 DEF Claimed
  <2>5. j = 1
    OBVIOUS
  <2> QED BY <1>1, <1>3, <2>4, <2>5 DEF Claim
<1>10. todo' \in Seq(Items) /\ chunks' \in Seq(Chunks) /\ loops' \in Seq(LoopInfos)
       /\ slips' \subseteq {"elif", "outer", "chain"} /\ pc' \in Nat /\ depth' \in Nat
  BY <1>1, <1>3, <1>6 DEF GInv
<1> QED BY <1>1, <1>5, <1>6, <1>8, <1>9, <1>10 DEF GInv

\* What the machine may rely on in sound code.
LEMMA SoundDoes ==
    ASSUME NEW s \in Seq(Inst), Sound(s), NEW i \in DOMAIN s
    PROVE  /\ s[i].to \in Nat /\ s[i].takes \in Nat /\ s[i].gives \in Nat
           /\ s[i].op \in {"jne", "jnt", "jnn", "foreach"} => s[i].takes >= 1
<1>1. i \in 1 .. Len(s)
  OBVIOUS
<1> QED BY <1>1, InstIs DEF Sound

\* The machine changes nothing of the code.
LEMMA MachineInv ==
    ASSUME GInv, NEW next \in Nat, NEW operands \in Nat, Machine(next, operands)
    PROVE  GInv'
<1>1. UNCHANGED <<chunks, loops, todo, slips, out>> /\ pc' = next /\ depth' = operands
  BY DEF Machine
<1>2. Parsed(todo, chunks, loops, slips)' <=> Parsed(todo, chunks, loops, slips)
  BY <1>1 DEF Parsed, Aligned, Level, Around, Opens, Those, Sound, Kept, Tests, Held, Claimed, Claim, Clean
<1> QED BY <1>1, <1>2 DEF GInv, Sound, Clean

LEMMA RunInv == ASSUME GInv, Run PROVE GInv'
<1>1. out \in Seq(Inst) /\ Sound(out) /\ pc \in Nat /\ depth \in Nat
  BY DEF GInv
<1>2. ASSUME NEW ops, Executing(ops)
      PROVE  /\ Now.to \in Nat /\ Now.takes \in Nat /\ Now.gives \in Nat /\ depth >= Now.takes
             /\ Now.op \in ops
             /\ Now.op \in {"jne", "jnt", "jnn", "foreach"} => Now.takes >= 1
  BY <1>1, <1>2, SoundDoes DEF Executing, Now
<1>3. CASE RunData
  <2>1. depth - Now.takes + Now.gives \in Nat /\ pc + 1 \in Nat
    BY <1>1, <1>2, <1>3 DEF RunData
  <2> QED BY <1>3, <2>1, MachineInv DEF RunData
<1>4. CASE RunJmp
  BY <1>1, <1>2, <1>4, MachineInv DEF RunJmp
<1>5. CASE RunJne
  <2>1. Now.to \in Nat /\ depth - 1 \in Nat /\ pc + 1 \in Nat
    <3>1. Executing({"jne"})
      BY <1>5 DEF RunJne
    <3>2. Now.takes >= 1 /\ Now.takes \in Nat /\ Now.to \in Nat /\ depth >= Now.takes
      BY <1>2, <3>1
    <3> QED BY <1>1, <3>2
  <2>2. PICK next \in {pc + 1, Now.to} : Machine(next, depth - 1)
    BY <1>5 DEF RunJne
  <2> QED BY <2>1, <2>2, MachineInv
<1>6. CASE RunLogic
  <2>1. Now.to \in Nat /\ depth - 1 \in Nat /\ pc + 1 \in Nat
    <3>1. Executing({"jnt", "jnn"})
      BY <1>6 DEF RunLogic
    <3>2. Now.takes >= 1 /\ Now.takes \in Nat /\ Now.to \in Nat /\ depth >= Now.takes
      BY <1>2, <3>1
    <3> QED BY <1>1, <3>2
  <2>2. Machine(pc + 1, depth - 1) \/ Machine(Now.to, depth)
    BY <1>6 DEF RunLogic
  <2> QED BY <1>1, <2>1, <2>2, MachineInv
<1>7. CASE RunForeach
  <2>1. Now.to \in Nat /\ depth - 1 \in Nat /\ pc + 1 \in Nat
    <3>1. Executing({"foreach"})
      BY <1>7 DEF RunForeach
    <3>2. Now.takes >= 1 /\ Now.takes \in Nat /\ Now.to \in Nat /\ depth >= Now.takes
      BY <1>2, <3>1
    <3> QED BY <1>1, <3>2
  <2>2. Machine(pc + 1, depth) \/ Machine(Now.to, depth - 1)
    BY <1>7 DEF RunForeach
  <2> QED BY <1>1, <2>1, <2>2, MachineInv
<1>8. CASE RunEnd
  BY <1>1, <1>8, MachineInv DEF RunEnd
<1> QED BY <1>3, <1>4, <1>5, <1>6, <1>7, <1>8 DEF Run

-----------------------------------------------------------------------------
(* The theorems *)

LEMMA InitInv == Init => GInv
<1> SUFFICES ASSUME Init PROVE GInv
  OBVIOUS
<1> DEFINE b == Item("block")
           c == [inst |-> <<>>, h |-> 0, outer |-> 0]
<1>1. todo = <<b>> /\ chunks = <<c>> /\ loops = <<>> /\ slips = {} /\ out = <<>> /\ pc = 0 /\ depth = 0
  BY DEF Init
<1>2. b \in Items /\ b.do = "block"
  BY ItemIs DEF Doings
<1>3. c \in Chunks /\ c.inst = <<>> /\ c.outer = 0
  BY DEF Chunks
<1> HIDE DEF b, c
<1>4. /\ todo \in Seq(Items) /\ Len(todo) = 1 /\ todo[1] = b /\ todo # <<>>
      /\ chunks \in Seq(Chunks) /\ Len(chunks) = 1 /\ chunks[1] = c
      /\ loops \in Seq(LoopInfos) /\ Len(loops) = 0
      /\ out \in Seq(Inst) /\ Len(out) = 0
  BY <1>1, <1>2, <1>3
<1>5. \A k : k \in 1 .. 1 <=> k = 1
  OBVIOUS
<1>6. 1 .. Len(<<>>) = {} /\ 1 .. 0 = {}
  OBVIOUS
<1>7. Level(todo, 1) = 1 /\ Around(todo, 1) = 0 /\ Level(todo, 2) = 1 /\ Around(todo, 2) = 0
  <2>1. Opens(todo, 1, {"func"}) = 0 /\ Opens(todo, 1, {"loop", "iter"}) = 0
    BY OpensFirst
  <2>2. 1 \in Nat \ {0} /\ 1 + 1 = 2 /\ todo[1].do \notin {"func"} /\ todo[1].do \notin {"loop", "iter"}
    BY <1>2, <1>4
  <2>3. Opens(todo, 1 + 1, {"func"}) = 0 /\ Opens(todo, 1 + 1, {"loop", "iter"}) = 0
    BY <2>1, <2>2, OpensNext
  <2> QED BY <2>1, <2>2, <2>3 DEF Level, Around
<1>8. Aligned(todo, chunks, loops)
  BY <1>2, <1>3, <1>4, <1>5, <1>7 DEF Aligned
<1>9. Sound(c.inst) /\ Held(c) = {} /\ Sound(out)
  BY <1>1, <1>3, <1>6 DEF Sound, Held
<1>10. \A l : Kept(b, c, l)
  BY <1>2 DEF Kept
<1>11. Parsed(todo, chunks, loops, slips)
  BY <1>4, <1>5, <1>7, <1>8, <1>9, <1>10 DEF Parsed
<1> QED BY <1>1, <1>4, <1>6, <1>9, <1>11 DEF GInv

LEMMA CompileInv == ASSUME GInv, Compile PROVE GInv'
<1>1. CASE Leaf
  BY <1>1, LeafInv
<1>2. CASE Apply
  BY <1>2, ApplyInv
<1>3. CASE \E n \in 1 .. MaxOperands : Operands(n)
  BY <1>3, OperandsInv
<1>4. CASE \E op \in {"jnt", "jnn"} : Logic(op)
  BY <1>4, LogicInv
<1>5. CASE LogicHold \/ LogicEnd
  BY <1>5, LogicHoldInv, LogicEndInv
<1>6. CASE \E n \in 0 .. MaxOperands - 1 : Closure(n)
  BY <1>6, ClosureInv
<1>7. CASE \E n \in 1 .. 3 : FuncDecl(n)
  BY <1>7, FuncDeclInv
<1>8. CASE EndFunc \/ EndBlock
  BY <1>8, EndFuncInv, EndBlockInv
<1>9. CASE Return \/ EmitRet
  BY <1>9, ReturnInv, EmitRetInv
<1>10. CASE BeginStat \/ Assign \/ AssignEnd \/ EndStat
  BY <1>10, BeginStatInv, AssignInv, AssignEndInv, EndStatInv
<1>11. CASE \E vt \in {"dot", "index"} : Suffix(vt, 0)
  BY <1>11, SuffixInv
<1>12. CASE \E n \in 0 .. MaxOperands - 1 : Suffix("call", n)
  <2>1. PICK n \in 0 .. MaxOperands - 1 : Suffix("call", n)
    BY <1>12
  <2>2. n \in Nat
    BY CodeAssumption
  <2> QED BY <2>1, <2>2, SuffixInv
<1>13. CASE BeginIf \/ Cond \/ Elif \/ Else
  BY <1>13, BeginIfInv, CondInv, ElifInv, ElseInv
<1>14. CASE EndElse \/ EndIf
  BY <1>14, EndElseInv, EndIfInv
<1>15. CASE For \/ ForIn \/ Iter \/ EndLoop
  BY <1>15, ForInv, ForInInv, IterInv, EndLoopInv
<1>16. CASE Break \/ Continue \/ Finish
  BY <1>16, BreakInv, ContinueInv, FinishInv
<1> QED BY <1>1, <1>2, <1>3, <1>4, <1>5, <1>6, <1>7, <1>8, <1>9, <1>10, <1>11, <1>12, <1>13, <1>14,
           <1>15, <1>16 DEF Compile

LEMMA NextInv == GInv /\ [Next]_vars => GInv'
<1> SUFFICES ASSUME GInv, [Next]_vars PROVE GInv'
  OBVIOUS
<1>1. CASE Next
  BY <1>1, CompileInv, RunInv DEF Next
<1>2. CASE UNCHANGED vars
  <2>1. Machine(pc, depth) /\ pc \in Nat /\ depth \in Nat
    BY <1>2 DEF vars, Machine, GInv
  <2> QED BY <2>1, MachineInv
<1> QED BY <1>1, <1>2

\* compiler.c as a whole: what a pending parse function will patch is what is held, at each
\* level of nested functions, and the machine finds code whose jumps stay in it.
THEOREM Generated == Spec => []GInv
BY InitInv, NextInv, PTL DEF Spec

\* A function that is about to be left has no pending item of its own.
LEMMA NothingPending ==
    ASSUME GInv, Parsing("func"), Clean(slips)
    PROVE  Held(Blk) = {}
<1>1. todo # <<>> /\ It.do = "func"
  BY DEF Parsing, It
<1>2. PICK K, M, A : Stands(K, M, A)
  BY <1>1, StandsSo
<1>3. /\ M = Len(chunks) - 1 /\ Len(chunks) = M + 1 /\ M \in Nat \ {0} /\ K = Len(todo) /\ K \in Nat \ {0}
      /\ M = Level(todo, K) /\ Blk = chunks[M + 1] /\ M + 1 \in 1 .. Len(chunks)
  BY SMTT(60), <1>1, <1>2 DEF Stands
<1>4. ASSUME NEW j \in 1 .. Len(todo) PROVE Level(todo, j) # M + 1
  <2>1. j \in Nat /\ j <= K
    BY <1>3
  <2>2. Opens(todo, j, {"func"}) <= Opens(todo, K, {"func"})
    BY <1>3, <2>1, OpensGrows
  <2>3. Opens(todo, j, {"func"}) \in Nat /\ Opens(todo, K, {"func"}) \in Nat
    BY <1>3, <2>1, ThoseFinite
  <2> QED BY <1>3, <2>2, <2>3 DEF Level
<1>5. Claimed(todo, loops, M + 1) = {}
  BY <1>4 DEF Claimed
<1>6. Held(Blk) \subseteq Claimed(todo, loops, M + 1)
  BY <1>1, <1>3 DEF GInv, Parsed
<1> QED BY <1>5, <1>6

\* ymk_hold, ymk_hack: no I_PANIC is left in a complete function, in any nesting of the
\* constructs that hold a jump; but for an elif without an else, and for a break out of an
\* outer function.
THEOREM NoJumpForgotten == Spec => []NothingHeldUnlessSlipped
<1>1. GInv => NothingHeldUnlessSlipped
  <2> SUFFICES ASSUME GInv, Clean(slips), NEW i \in DOMAIN Complete, Complete[i].op = "panic" PROVE FALSE
    BY DEF NothingHeldUnlessSlipped, NothingHeld, Clean
  <2>1. CASE Parsing("func")
    <3>1. todo # <<>>
      BY <2>1 DEF Parsing
    <3>2. Blk \in Chunks /\ Sound(Blk.inst) /\ loops \in Seq(LoopInfos)
      BY <3>1, WritesIs DEF Writes, GInv
    <3>3. Goes(Blk, Ended(Blk), {}, {})
      BY <3>2, EndedGoes
    <3>4. i \in 1 .. Len(Ended(Blk).inst) /\ Ended(Blk).inst[i].op = "panic"
      <4>1. Ended(Blk).inst \in Seq(Inst)
        BY <3>3 DEF Goes, Chunks
      <4> QED BY <2>1, <4>1 DEF Complete
    <3> QED BY <2>1, <3>3, <3>4, NothingPending DEF Goes, Held
  <2>2. CASE ~ Parsing("func")
    BY <2>2 DEF Complete, GInv
  <2> QED BY <2>1, <2>2
<1> QED BY <1>1, Generated, PTL

LEMMA Typed == GInv => TypeOK
<1> SUFFICES ASSUME GInv PROVE TypeOK
  OBVIOUS
<1>1. /\ chunks \in Seq(Chunks) /\ loops \in Seq(LoopInfos) /\ todo \in Seq(Items)
      /\ slips \subseteq {"elif", "outer", "chain"}
      /\ out \in Seq(Inst) /\ pc \in Where /\ depth \in Nat /\ Sound(out)
  BY DEF GInv, Where
<1>2. \A i \in DOMAIN out : out[i].to <= Len(out) + 1
  <2>1. DOMAIN out = 1 .. Len(out)
    BY <1>1
  <2> QED BY <1>1, <2>1 DEF Sound
<1> QED BY <1>1, <1>2 DEF TypeOK, Items, Chunks, LoopInfos

\* The types of the generator and of the machine; each jump goes to an instruction or to
\* the end of the code.
THEOREM CodeTypes == Spec => []TypeOK
BY Typed, Generated, PTL
=============================================================================

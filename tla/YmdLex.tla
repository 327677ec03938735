------------------------------- MODULE YmdLex --------------------------------
(***************************************************************************)
(* The lexer (lex.c): a cursor in a text that ends with a NUL.  The parser *)
(* asks for one token after the other until the end, or fails at a token   *)
(* it does not want: then it prints the line the cursor is in.             *)
(*                                                                         *)
(* A character stands for those the lexer treats alike: "a" for letters    *)
(* that are hexadecimal digits, "x" for x, "1" for the digits but 0, "!"   *)
(* for ! and ~, "+" for the characters that are always a token of their    *)
(* own, "$" for those that are never in one, "ff" for the byte that        *)
(* lex_peek, whose char has a sign, takes for EOS.  Keywords are symbols.  *)
(*                                                                         *)
(* NewlineUncounted, BlankKept and BackTwice are faulty variants of the    *)
(* definition after each, for mutation tests; nothing else uses them.      *)
(***************************************************************************)
EXTENDS Integers, Sequences, FiniteSetsExt, SequencesExt

CONSTANTS
    Char,   \* the characters of texts
    MaxLen  \* bound on the length of a text

VARIABLES
    text,    \* lex->buf without its NUL
    off,     \* lex->off
    i_line,
    i_column,
    mode,    \* "idle": the parser has its token; what the lexer is reading; how it ended
    x,       \* the token being read: its kind, offset and length, or NoToken
    tokens,  \* those the parser has been given
    shown,   \* where what the parser has printed begins and ends, <<>>: nothing it knows
    escaped  \* has a newline been skipped after a backslash?

cursor == <<off, i_line, i_column>>
lex_vars == <<text, off, i_line, i_column, mode, x, tokens, shown, escaped>>

Nil == "nil"
EOS == "EOS"
ERROR == "error"

Digit == {"0", "1"}
XDigit == {"0", "1", "a"}
Letter == {"a", "x"}
TermChar == {"+", "{"}
PrexChar == {"-", "<", ">", "=", "!", "@", "|", "/", "quote", "#"}
Space == {" ", "newline"}
Alone == {"$", "backslash"}
MinusOne == "ff"
ASSUME LexAssumption ==
    /\ Char \subseteq Letter \cup Digit \cup TermChar \cup PrexChar \cup Space \cup Alone
                    \cup {MinusOne}
    /\ MaxLen \in Nat

\* lex_term
Term == {EOS} \cup TermChar \cup PrexChar \cup Space

\* lex_peek, at any place; is the place the NUL's?
AtNUL(i) == i >= Len(text)
At(i) == IF ~AtNUL(i) /\ text[i + 1] # MinusOne THEN text[i + 1] ELSE EOS
Peek == At(off)

\* The tokens of two characters that begin like one of a single character.
Pairs == {<<"<", "=">>, <<"<", "<">>, <<">", "=">>, <<">", ">">>, <<"|", ">">>,
          <<"!", "=">>, <<"=", "=">>}

-----------------------------------------------------------------------------
\* lex_move, lex_read: the cursor goes on by n.
Read(n) == off' = off + n /\ i_column' = i_column + n /\ UNCHANGED i_line

\* The end of a line, and any other blank.
NewlineUncounted == off' = off + 1 /\ i_column' = 0 /\ UNCHANGED i_line
Newline == off' = off + 1 /\ i_column' = 0 /\ i_line' = i_line + 1

BlankKept == UNCHANGED cursor
Blank == Read(1)

Token(kind, at, len) == [kind |-> kind, off |-> at, len |-> len]
NoToken == Token(Nil, 0, 0)
Given(kind, at, len) ==
    /\ tokens' = Append(tokens, Token(kind, at, len))
    /\ mode' = "idle" /\ x' = NoToken
    /\ UNCHANGED <<text, shown, escaped>>
Reads(m, at, len) ==
    /\ mode' = m /\ x' = Token(Nil, at, len)
    /\ UNCHANGED <<text, tokens, shown, escaped>>
Longer(n) == Reads(mode, x.off, x.len + n)

\* A literal is left at any token that is no comma, and that one is taken for its
\* bracket: so the parser goes on behind EOS or an error that follows an element of an
\* array or a map, each time out of another literal (parse_array, parse_map, parse_simple).
Wrong == {EOS, ERROR}
Opener == {"+", "{", "list"}
Element == {"symbol", "dec", "hex", "string", "+"}
Count(kinds) == Cardinality({i \in DOMAIN tokens : tokens[i].kind \in kinds})
TakenForBracket ==
    /\ Count(Wrong) <= Count(Opener)
    /\ tokens[Len(tokens) - 1].kind \in Element \cup Wrong

\* The parser wants the next token (ymc_next).  What it gets from behind the NUL nobody knows.
Ask ==
    /\ mode = "idle"
    /\ tokens # <<>> /\ Last(tokens).kind \in Wrong => TakenForBracket
    /\ Reads(IF off > Len(text) THEN "beyond" ELSE "next", off, 0)
    /\ UNCHANGED cursor

\* lex_token_c, lex_token_l, lex_token_lt, lex_token_gt
Single ==
    /\ mode = "next"
    /\ \/ Peek \in {EOS} \cup TermChar
       \/ Peek \in {p[1] : p \in Pairs} /\ <<Peek, At(off + 1)>> \notin Pairs
       \/ Peek = "-" /\ At(off + 1) \notin Digit \cup {">"}
       \/ Peek = "/" /\ At(off + 1) # "/"
    /\ Given(Peek, off, 1) /\ Read(1)
Double ==
    /\ mode = "next"
    /\ \/ <<Peek, At(off + 1)>> \in Pairs /\ Given("pair", off, 2)
       \/ Peek = "@" /\ At(off + 1) = "{" /\ Given("list", off, 2)
       \/ Peek = "-" /\ At(off + 1) = ">" /\ Given("dict", off - 1, 2)
    /\ Read(2)

\* What no token begins with: the cursor stays before it, but for @.  (The length of an
\* error is what has been read of it.)
Bad ==
    /\ mode = "next"
    /\ \/ Peek = "@" /\ At(off + 1) # "{" /\ Given(ERROR, off, 1) /\ Read(1)
       \/ Peek \in Alone /\ Given(ERROR, off, 0) /\ UNCHANGED cursor

\* Blanks, and the begin of a comment.
Skip ==
    /\ mode = "next"
    /\ \/ Peek = "newline" /\ Newline /\ Reads("next", off, 0)
       \/ Peek = " " /\ Blank /\ Reads("next", off, 0)
       \/ Peek = "#" /\ Reads("line", off, 0) /\ UNCHANGED cursor
       \/ Peek = "/" /\ At(off + 1) = "/" /\ Reads("line", off, 0) /\ Read(1)

\* The begin of a number, a symbol or a string.
Begin ==
    /\ mode = "next"
    /\ \/ /\ Peek \in Digit /\ <<Peek, At(off + 1)>> # <<"0", "x">>
          /\ Reads("dec", off, 0) /\ UNCHANGED cursor
       \/ Peek = "-" /\ At(off + 1) \in Digit /\ Reads("dec", off, 1) /\ Read(1)
       \/ <<Peek, At(off + 1)>> = <<"0", "x">> /\ Reads("hex", off, 2) /\ Read(2)
       \/ Peek \in Letter /\ Reads("symbol", off, 0) /\ UNCHANGED cursor
       \/ Peek = "quote" /\ Reads("string", off + 1, 0) /\ Read(1)

\* lex_read_dec, lex_read_hex and lex_read_sym: one more character, or the end, where
\* what has been read too far is put back; the first two have read what is an error.
Of == [dec |-> Digit, hex |-> XDigit, symbol |-> Letter \cup Digit]
BackTwice == off' = off - 1 /\ i_column' = i_column - 1 /\ UNCHANGED i_line
Back == UNCHANGED cursor
Scan ==
    /\ mode \in DOMAIN Of
    /\ \/ Peek \in Of[mode] /\ Longer(1) /\ Read(1)
       \/ Peek \in Term /\ Given(mode, x.off, x.len) /\ Back
       \/ /\ Peek \notin Of[mode] \cup Term
          /\ IF mode = "symbol" THEN Given(ERROR, x.off, x.len) /\ UNCHANGED cursor
             ELSE Given(ERROR, x.off, x.len + 1) /\ Read(1)

\* lex_read_raw.  At the end of the text it goes on for ever (the count is left out).
ReadRaw ==
    /\ mode = "string"
    /\ \/ Peek = "quote" /\ Given("string", x.off, x.len) /\ Read(1)
       \/ /\ Peek = "backslash"
          /\ Read(IF AtNUL(off + 1) THEN 1 ELSE 2)
          /\ mode' = mode /\ x' = [x EXCEPT !.len = @ + 2]
          /\ escaped' = (escaped \/ At(off + 1) = "newline")
          /\ UNCHANGED <<text, tokens, shown>>
       \/ Peek = "newline" /\ Given(ERROR, x.off, x.len) /\ UNCHANGED cursor
       \/ ~AtNUL(off) /\ Peek \notin {"quote", "backslash", "newline"} /\ Longer(1) /\ Read(1)
       \/ AtNUL(off) /\ UNCHANGED lex_vars

\* lex_skip_line.  A text without a newline there is read past its end.
SkipLine ==
    /\ mode = "line"
    /\ IF Peek = "newline" THEN Newline /\ Reads("next", off, 0)
       ELSE Read(1) /\ Reads(IF AtNUL(off) THEN "beyond" ELSE "line", off, 0)

\* lex_line: the line the cursor is in; behind the end nobody knows.
Line ==
    IF off > Len(text) THEN <<>>
    ELSE <<off - i_column, Min({i \in off .. Len(text) : At(i) = "newline" \/ AtNUL(i)})>>

\* The parser has come to the end, or fails at the token it has (ymc_fail).
Stop ==
    /\ mode = "idle" /\ tokens # <<>>
    /\ \/ Last(tokens).kind = EOS /\ mode' = "done" /\ UNCHANGED shown
       \/ mode' = "failed" /\ shown' = Line
    /\ UNCHANGED <<text, cursor, x, tokens, escaped>>

LexInit ==
    /\ text \in UNION {[1 .. n -> Char] : n \in 0 .. MaxLen}
    /\ off = 0 /\ i_line = 1 /\ i_column = 0
    /\ mode = "idle" /\ x = NoToken /\ tokens = <<>> /\ shown = <<>> /\ escaped = FALSE

\* The steps of lex_next.
Lexing == Single \/ Double \/ Bad \/ Skip \/ Begin \/ Scan \/ ReadRaw \/ SkipLine
LexNext == Ask \/ Lexing \/ Stop

LexSpec == LexInit /\ [][LexNext]_lex_vars

\* lex_next goes on once it is called; that the parser calls it again, or stops, is not
\* promised (parse_stmt does neither at `with').
LexFairSpec == LexSpec /\ WF_lex_vars(Lexing)

-----------------------------------------------------------------------------
(* What a text says, for the properties *)

CommentAt(i) == At(i) = "#" \/ (At(i) = "/" /\ At(i + 1) = "/")
SameLine(i, j) == \A h \in i .. j - 1 : At(h) # "newline"

\* Where the first token from i on begins, blanks and comments left out.
FirstFrom(i) ==
    Min({j \in i .. Len(text) : At(j) \notin Space /\
            ~\E c \in i .. j : ~AtNUL(j) /\ CommentAt(c) /\ SameLine(c, j)})

RunOf(i, set) ==
    Max({n \in 0 .. Len(text) - i : \A j \in i .. i + n - 1 : At(j) \in set})

\* Is the character at j, in a string that begins at i, after an even number of
\* backslashes?
Unescaped(i, j) ==
    Max({n \in 0 .. j - i : \A h \in j - n .. j - 1 : At(h) = "backslash"}) % 2 = 0
Closing(i) ==
    {j \in i .. Len(text) - 1 : At(j) \in {"quote", "newline"} /\ Unescaped(i, j)}

\* The token that begins at i, or the error and how much of it is read.
Wanting(ok, kind, i, n, bad) == IF ok THEN Token(kind, i, n) ELSE Token(ERROR, i, bad)
Written(i) ==
    LET two == <<At(i), At(i + 1)>>
        sign == IF At(i) = "-" THEN 1 ELSE 0
        number == sign + RunOf(i + sign, Digit)
        hex == 2 + RunOf(i + 2, XDigit)
        word == RunOf(i, Letter \cup Digit)
    IN IF two = <<"0", "x">> THEN Wanting(At(i + hex) \in Term, "hex", i, hex, hex + 1)
       ELSE IF At(i + sign) \in Digit
            THEN Wanting(At(i + number) \in Term, "dec", i, number, number + 1)
       ELSE IF At(i) \in Letter THEN Wanting(At(i + word) \in Term, "symbol", i, word, word)
       ELSE IF At(i) = "quote"
            THEN LET end == Min(Closing(i + 1))
                 IN Wanting(At(end) = "quote", "string", i + 1, end - i - 1, end - i - 1)
       ELSE IF two \in Pairs THEN Token("pair", i, 2)
       ELSE IF two = <<"-", ">">> THEN Token("dict", i - 1, 2)
       ELSE IF At(i) = "@" THEN Wanting(two = <<"@", "{">>, "list", i, 2, 1)
       ELSE Wanting(At(i) \notin Alone, At(i), i, 1, 0)

\* Where the text of a token ends: after the quote, after the arrow.
EndOf(t) == t.off + t.len + (IF t.kind \in {"string", "dict"} THEN 1 ELSE 0)

-----------------------------------------------------------------------------
(* Properties *)

\* The tokens are those the text says, the longest that begin where the blanks and
\* comments after the token before end, in order and with nothing between them left out
\* (lex_next): but the place of an arrow is that of the character before it.  Behind an
\* error, or the byte taken for EOS, they are those of the rest of the text.
AsWritten ==
    mode = "idle" /\ tokens # <<>> =>
        LET t == Last(tokens)
            before == IF Len(tokens) = 1 THEN 0 ELSE EndOf(tokens[Len(tokens) - 1])
        IN t = Written(FirstFrom(before)) /\ off = EndOf(t)

Modes == {"idle", "next", "dec", "hex", "symbol", "string", "line", "beyond", "done", "failed"}
Kind == Char \cup {EOS, ERROR, Nil, "pair", "list", "dict", "dec", "hex", "symbol", "string"}
Tokens == [kind : Kind, off : Int, len : Nat]
LexTypeOK ==
    /\ text \in Seq(Char) /\ off \in Nat /\ i_line \in Nat /\ i_column \in Nat
    /\ mode \in Modes
    /\ x \in Tokens /\ (mode \in {"idle", "done", "failed"} => x = NoToken)
    /\ tokens \in Seq(Tokens) /\ escaped \in BOOLEAN

\* Types; and the cursor leaves the text only with the token of the NUL, behind which an
\* unclosed literal makes the lexer read on, and behind a comment in the last line;
\* line and column are those of the cursor, until a string has an escaped newline in it;
\* a message shows the line of the cursor while that is in the text
\* (lex_read, lex_back, lex_line, parse_simple).
LineStart(i) == Max({j \in 0 .. i : j = 0 \/ At(j - 1) = "newline"})
Newlines(i) == {j \in 0 .. i - 1 : At(j) = "newline"}
CursorTells ==
    /\ LexTypeOK
    /\ \/ off <= Len(text) /\ mode # "beyond"
       \/ off = Len(text) + 1 /\ tokens # <<>> /\ Last(tokens) = Token(EOS, Len(text), 1)
       \/ mode = "beyond" /\ \E c \in 0 .. Len(text) : CommentAt(c) /\ SameLine(c, off)
    /\ ~escaped => i_line = 1 + Cardinality(Newlines(off)) /\ i_column = off - LineStart(off)
    /\ mode = "failed" /\ off <= Len(text) /\ ~escaped =>
           /\ shown[1] = LineStart(off)
           /\ SameLine(shown[1], shown[2]) /\ (At(shown[2]) = "newline" \/ AtNUL(shown[2]))

\* lex_next comes back with a token, unless a string is not closed, or it leaves the text.
Ends ==
    mode \in {"next", "line", "string"} \cup DOMAIN Of ~>
        \/ mode \in {"idle", "beyond"}
        \/ mode = "string" /\ Closing(x.off) = {}
=============================================================================

------------------------------- MODULE Lexer --------------------------------
(***************************************************************************)
(* The lexer (lexer/lexer.go): the word that begins at a character of the  *)
(* text.  Operators take the index of the next character (Lexer.End); a    *)
(* loop over characters that the text never ends has the index Never.      *)
(***************************************************************************)
EXTENDS Naturals, Sequences, FiniteSetsExt, TLC

CONSTANTS
  Letters,     \* the letters of the texts, the underscore among them
  Digit,       \* Digit[c]: the value of a digit or of a hexadecimal letter
  Keywords,    \* Keywords[w]: the kind of a keyword, spelled as a sequence
  Escaped      \* Escaped[c]: the character that \c stands for in a literal

ASSUME CharactersMeant == /\ {"0", "1"} \subseteq DOMAIN Digit
                          /\ "_" \in Letters
                          /\ {c \in DOMAIN Digit : Digit[c] > 9} \subseteq Letters

VARIABLE text        \* the file, as a sequence of characters

Eof     == "end of file"
Newline == "\n"
Blanks  == {" ", "\t", Newline}
Quote   == "'"
DQuote  == "\""
Escape  == "\\"
Never   == 0

Digits    == {c \in DOMAIN Digit : Digit[c] <= 9}
DecDigits == Digits \cup {"_"}
HexDigits == DOMAIN Digit \cup {"_"}
BinDigits == {"0", "1", "_"}

-----------------------------------------------------------------------------
\* Reading characters.

Peek(i) == IF i <= Len(text) THEN text[i] ELSE Eof

NextRune(i) == IF i <= Len(text) THEN i + 1 ELSE i

AcceptRun(S, i) == Min({j \in i .. Len(text) + 1 : Peek(j) \notin S})

AcceptUntil(S, i) == LET stops == {j \in i .. Len(text) : text[j] \in S}
                     IN IF stops = {} THEN Never ELSE Min(stops)

\* The loop body comes before the first look at the character after '#'.
Comment(i) ==
  LET body == NextRune(i + 1)
  IN NextRune(Min({j \in body .. Len(text) + 1 : Peek(j) \in {Newline, Eof}}))

RECURSIVE IgnoreWhitespace(_)
IgnoreWhitespace(i) ==
  IF Peek(i) \in Blanks THEN IgnoreWhitespace(i + 1)
  ELSE IF Peek(i) = "#" THEN IgnoreWhitespace(Comment(i))
  ELSE i

-----------------------------------------------------------------------------
\* A word: its kind, the characters it is made of, the value of a literal.
Lexeme(kind, i, j, v) == [kind |-> kind, begin |-> i, end |-> j, value |-> v]

Selected(w) == SubSeq(text, w.begin, w.end - 1)

NoValue == <<>>

\* parseNormal, parseHex and parseBin, on the digits between i and j.
ParseDigits(base, i, j) ==
  LET read[k \in i .. j] ==
        IF k = i THEN 0
        ELSE IF text[k - 1] = "_" THEN read[k - 1]
        ELSE base * read[k - 1] + Digit[text[k - 1]]
  IN <<read[j]>>

\* Mutant of TypeSuffix: only the first letter behind the digits is looked at.
TypeSuffixShort(j) ==
  CASE Peek(j) = "p" -> [kind |-> "PTR_LIT", end |-> j + 1]
    [] Peek(j) = "l" -> [kind |-> "I64_LIT", end |-> j + 1]
    [] Peek(j) = "s" -> [kind |-> "I16_LIT", end |-> j + 1]
    [] Peek(j) = "u" -> [kind |-> "U32_LIT", end |-> j + 1]
    [] OTHER -> [kind |-> "I32_LIT", end |-> j]

\* The type of a number, by the letters after its digits.
TypeSuffix(j) ==
  CASE Peek(j) = "p" -> [kind |-> "PTR_LIT", end |-> j + 1]
    [] Peek(j) = "l" -> [kind |-> "I64_LIT", end |-> j + 1]
    [] Peek(j) = "s" /\ Peek(j + 1) = "s" -> [kind |-> "I8_LIT", end |-> j + 2]
    [] Peek(j) = "s" /\ Peek(j + 1) # "s" -> [kind |-> "I16_LIT", end |-> j + 1]
    [] Peek(j) = "u" /\ Peek(j + 1) = "l" -> [kind |-> "U64_LIT", end |-> j + 2]
    [] Peek(j) = "u" /\ Peek(j + 1) = "s" /\ Peek(j + 2) = "s" -> [kind |-> "U8_LIT", end |-> j + 3]
    [] Peek(j) = "u" /\ Peek(j + 1) = "s" /\ Peek(j + 2) # "s" -> [kind |-> "U16_LIT", end |-> j + 2]
    [] Peek(j) = "u" /\ Peek(j + 1) \notin {"s", "l"} -> [kind |-> "U32_LIT", end |-> j + 1]
    [] OTHER -> [kind |-> "I32_LIT", end |-> j]

Number(i) ==
  LET based(base, S) == LET j == AcceptRun(S, i + 2)
                        IN Lexeme(TypeSuffix(j).kind, i, TypeSuffix(j).end, ParseDigits(base, i + 2, j))
      plain          == LET j == AcceptRun(DecDigits, i)
                        IN Lexeme(TypeSuffix(j).kind, i, TypeSuffix(j).end, ParseDigits(10, i, j))
  IN IF Peek(i) = "0" /\ Peek(i + 1) = "x" THEN based(16, HexDigits)
     ELSE IF Peek(i) = "0" /\ Peek(i + 1) = "b" THEN based(2, BinDigits)
     ELSE plain

Identifier(i) ==
  LET j == AcceptRun(Letters \cup Digits, i)
      s == SubSeq(text, i, j - 1)
  IN Lexeme(IF s \in DOMAIN Keywords THEN Keywords[s] ELSE "IDENTIFIER", i, j, NoValue)

\* The quote that closes a literal whose inside begins at i.
RECURSIVE CloseQuote(_, _)

\* Mutant of CloseQuote: a character too many is passed behind a backslash.
CloseQuoteFar(q, i) ==
  LET j == AcceptUntil({Escape, q}, i)
  IN IF j = Never \/ text[j] = q THEN j ELSE CloseQuote(q, NextRune(NextRune(j + 1)))

CloseQuote(q, i) ==
  LET j == AcceptUntil({Escape, q}, i)
  IN IF j = Never \/ text[j] = q THEN j ELSE CloseQuote(q, NextRune(j + 1))

\* The second characters a symbol of one character can have.
Second == ("+" :> {"=", "+"}) @@ ("-" :> {"=", ">", "-"}) @@ ("/" :> {"="}) @@ ("*" :> {"="})
            @@ ("%" :> {"="}) @@ (":" :> {":"}) @@ (">" :> {"=", ">"})
            @@ ("<" :> {"=", ">", "<"}) @@ ("!" :> {"="}) @@ ("=" :> {"="})
            @@ [c \in {"|", "&", "@", "^", "~", "(", ")", "{", "}", "[", "]", ",", ";", "."} |-> {}]

SymbolAt(i) ==
  IF Peek(i + 1) \in Second[Peek(i)]
    THEN Lexeme(Peek(i) \o Peek(i + 1), i, i + 2, NoValue)
    ELSE Lexeme(Peek(i), i, i + 1, NoValue)

Read(w)   == [out |-> "word", word |-> w]
Other(out) == [out |-> out, word |-> Lexeme("", 0, 0, NoValue)]

StrLit(i) ==
  LET j == CloseQuote(DQuote, i + 1)
  IN IF j = Never THEN Other("never") ELSE Read(Lexeme("STRING_LIT", i, j + 1, NoValue))

\* parseCharLit panics on all but one character or one escape.
CharLit(i) ==
  LET j == CloseQuote(Quote, i + 1)
      inside == SubSeq(text, i + 1, j - 1)
  IN IF j = Never THEN Other("never")
     ELSE IF Len(inside) = 1 THEN Read(Lexeme("CHAR_LIT", i, j + 1, inside))
     ELSE IF Len(inside) = 2 /\ inside[1] = Escape /\ inside[2] \in DOMAIN Escaped
       THEN Read(Lexeme("CHAR_LIT", i, j + 1, <<Escaped[inside[2]]>>))
     ELSE Other("panic")

\* any: the next word, the end of the text, an invalid symbol, a panic, or
\* no end of a literal.
AnyWord(from) ==
  LET i == IgnoreWhitespace(from)
      c == Peek(i)
  IN CASE c \in Digits  -> Read(Number(i))
       [] c \in Letters -> Read(Identifier(i))
       [] c = Quote     -> CharLit(i)
       [] c = DQuote    -> StrLit(i)
       [] c \in DOMAIN Second -> Read(SymbolAt(i))
       [] c = Eof       -> Other("eof")
       [] OTHER         -> Other("error")

=============================================================================

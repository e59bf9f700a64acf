----------------------------- MODULE MCReading ------------------------------
(***************************************************************************)
(* Texts and programs for Reading.                                         *)
(***************************************************************************)
EXTENDS Reading, SequencesExt

MCLetters == {"a", "b", "d", "f", "i", "l", "n", "o", "p", "r", "s", "u", "x", "_"}

MCDigit == [c \in {"0", "1", "2", "8", "9", "a", "b", "d", "f"} |->
              CASE c = "0" -> 0 [] c = "1" -> 1 [] c = "2" -> 2 [] c = "8" -> 8 [] c = "9" -> 9
                [] c = "a" -> 10 [] c = "b" -> 11 [] c = "d" -> 13 [] c = "f" -> 15]

MCKeywords == (<<"d", "o">> :> "do") @@ (<<"i", "f">> :> "if") @@ (<<"a", "s">> :> "as")
                @@ (<<"o", "r">> :> "or") @@ (<<"i", "8">> :> "i8") @@ (<<"u", "8">> :> "u8")

MCEscaped == ("n" :> "\n") @@ ("'" :> "'") @@ ("\"" :> "\"") @@ ("\\" :> "\\")

UpTo(S, n) == UNION {[1 .. k -> S] : k \in 0 .. n}

\* Symbols run into each other, numbers with every ending, names and keywords.
SymbolTexts == UpTo({"+", "-", ">", "=", "<", ":", "!", "/", "."}, 4)
NumberTexts == {<<c>> \o t : c \in {"0", "1", "_"},
                             t \in UpTo({"0", "9", "x", "b", "s", "u", "l", "p", "_"}, 4)}
NameTexts   == UpTo({"d", "o", "i", "f", "8", "a", " ", "+"}, 4)

\* Whole literals, comments and blanks, in any order.
Pieces == {<<"\"", "a", "\"">>, <<"\"", "\\", "\"", "\"">>, <<"\"", "#", "\"">>, <<"\"", "\"">>,
           <<"\"", "\\", "\\", "\"">>, <<"\"", "'", "\"">>, <<"'", "a", "'">>, <<"'", "\"", "'">>,
           <<"'", "\\", "n", "'">>, <<"'", "\\", "'", "'">>, <<"'", "\\", "\\", "'">>, <<"'", "#", "'">>,
           <<"#", " ", "\n">>, <<"#", "'", "a", "\n">>, <<"#", "#", "\n">>, <<"#", "\"">>,
           <<" ">>, <<"\n">>, <<"\t">>, <<"a">>, <<"1">>, <<"+">>, <<"$">>}

PieceTexts == {FlattenSeq(ps) : ps \in UpTo(Pieces, 3)}

MCTexts == SymbolTexts \cup NumberTexts \cup NameTexts \cup PieceTexts

-----------------------------------------------------------------------------
\* Programs.

id  == "IDENTIFIER"
lit == "I32_LIT"

Const(e) == <<"const", id, "=">> \o e
Proc(b)  == <<"proc", id, "begin">> \o b \o <<"end">>

\* Every production, with and without what may be left out.
Seeds == {
  <<"import", id, ",", id, "as", id, ",", "from", id, "import", "all", "export", id>>,
  <<"import", "all", "from", id, "import", id, ",">>,
  <<"attr", id, ",", id, ",", "const", id, ":", "i8", "=", lit, ";", "const", id, "=", id>>,
  <<"const", "begin", id, "=", lit, ";", id, ":", id, "::", id, "=", id, "::", id, ";", "end">>,
  <<"data", id, "STRING_LIT", "data", id, "[", lit, "]", ";", "data", id, ":", "i8", "{", lit, ",", id, "}">>,
  <<"data", "begin", id, "[", "]", ";", id, ":", "ptr", "STRING_LIT", ";", "end">>,
  <<"struct", id, "[", lit, "]", "begin", id, ",", id, ":", "i8", "{", lit, "}", ";",
    id, ":", "proc", "[", "]", "[", "]", ";", "end">>,
  <<"proc", id, "<", id, ">", "[", id, ",", id, ":", "i8", ",", id, ":", "proc", "<", id, ">",
    "[", "i8", ",", id, "]", "[", "ptr", "]", "]", "i8", ",", id, "var", id, ":", "bool", "begin", "end">>,
  <<"proc", id, "[", "]", "begin", "end", ";", "proc", id, "begin", "end">>,
  <<"proc", id, "asm", "begin", ".", id, ":", id, id, ",", lit, ";", id, "[", id, ",", "{", lit, "}", "]",
    "@", id, ";", id, ";", "end">>,
  Proc(<<"if", id, "begin", "end", "elseif", id, "begin", "return", ";", "end", "else", "begin", "end">>),
  Proc(<<"while", id, "begin", "do", "begin", "end", "while", id, ";", "end", "exit", lit, ";">>),
  Proc(<<"return", id, ",", lit, ";", "set", id, "++", ";", "set", id, "@", "i8", ",", id, "=", id, ";">>),
  Proc(<<"set", id, "<>", id, "->", id, ";", "set", id, "*=", lit, ";", id, "[", id, "]", ";">>),
  Const(<<id, "[", id, ",", lit, "]", "@", "proc", "[", "]", "[", "]", "[", "]", ".", id>>),
  Const(<<"sizeof", "[", id, ".", id, "]", "-", "sizeof", "[", "proc", "[", "i8", "]", "[", "]", "]">>),
  Const(<<"not", "~", id, ":", "i8", "::", id, "==", "(", id, "and", "!", lit, ")", "->", id>>)}

EditWords == {id, lit, ",", ";", ":", "::", ".", "[", "]", "(", ")", "{", "=", "-", "i8", "begin", "end"}

Before(p, k) == SubSeq(p, 1, k - 1)
From(p, k)   == SubSeq(p, k, Len(p))

Whole(p) == Append(p, "EOF")

\* A program with a word more, less or other, and the beginning of one, with
\* the end of the file or an invalid symbol behind it.
Edits(p) ==
  {Whole(Before(p, k) \o From(p, k + 1)) : k \in DOMAIN p}
    \cup {Whole(Before(p, k) \o <<w>> \o From(p, k + d)) :
            k \in 1 .. Len(p) + 1, w \in EditWords, d \in {0, 1}}
    \cup {Append(Before(p, k), w) : k \in 1 .. Len(p) + 1, w \in {"EOF", "invalid"}}

\* Every short expression, and chains of operators of the five levels with
\* parentheses and prefixes.
Expressions == UpTo({id, "+", "*", "not", "(", ")", "[", "]"}, 5)

Ops == {"or", "and", "<", "-", "%"}

Chains == {<<id, o[1], id, o[2], id, o[3], id>> : o \in [1 .. 3 -> Ops]}
            \cup {<<"(", id, o[1], id, ")", o[2], "not", id, "[", id, "]", o[3], id>> : o \in [1 .. 3 -> Ops]}
            \cup {<<id, o[1], "(", id, o[2], id, ")", ":", "i8", o[3], "~", "(", id, ")">> : o \in [1 .. 3 -> Ops]}
            \cup {<<id, o[1], id, "[", id, o[2], id, ",", id, "]", o[3], id>> : o \in [1 .. 3 -> Ops]}

\* What the parser panics at; README, section 4.
EmptyParens(p) == \E k \in 1 .. Len(p) - 1 : p[k] = "(" /\ p[k + 1] = ")"

MCPrograms == {p \in UNION {Edits(s) : s \in Seeds}
                       \cup {Whole(Const(e)) : e \in Expressions \cup Chains} : ~EmptyParens(p)}

-----------------------------------------------------------------------------
\* What README, section 4, says of single files.

NoPrograms == {}
NoTexts    == {}

EmptyParensPrograms == {Whole(Const(<<"(", ")">>))}

\* These are read, and the comments of parser.go do not derive them, or the
\* other way round.
ConstWithoutValue   == {Whole(Const(<<>>))}
SuffixWithoutOperand == {Whole(Proc(<<"[", id, "]", ";">>))}
SingleIf            == {Whole(Proc(<<"if", id, "begin", "end">>))}
OldConst            == {Whole(<<"const", id, lit>>)}

\* An empty comment takes the line behind it with it.
EmptyCommentTexts == {<<"#", "\n", "a", "\n", "1">>}

UnterminatedTexts == {<<"\"", "a">>}
WrongCharTexts    == {<<"'", "'">>, <<"'", "a", "b", "'">>}

=============================================================================

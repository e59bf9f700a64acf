------------------------------ MODULE Reading -------------------------------
(***************************************************************************)
(* Reading a file: the lexer hands out the words of a text one at a time,  *)
(* and the parser makes the tree of a module of them (parser.Parse).       *)
(*                                                                         *)
(* The parser asks for a word when it has dealt with the one before.  The  *)
(* only thing it tells the lexer is to go on, so all the words are read    *)
(* first here; after an invalid symbol there are no more.  Behaviours      *)
(* begin with a text, or where the lexer has read the words of one.        *)
(***************************************************************************)
EXTENDS Grammar, Lexer

CONSTANTS
  Texts,       \* files, as sequences of characters
  Programs     \* files the lexer has read, as the kinds of their words

ASSUME ProgramsEnd == \A p \in Programs : p # <<>> /\ p[Len(p)] \in {"EOF", "invalid"}

VARIABLES
  phase,     \* what is going on
  words,     \* the words read so far
  next,      \* the first character that has not been read (Lexer.End)
  outcome,   \* of the reading: "ok", "error" or "panic"
  tree       \* the tree of the module, once there is one

vars == <<text, tokens, phase, words, next, outcome, tree>>

Init == /\ words = <<>>
        /\ next = 1
        /\ outcome = ""
        /\ tree = <<>>
        /\ \/ phase = "lexing" /\ text \in Texts /\ tokens = <<>>
           \/ phase = "parsing" /\ text = <<>> /\ tokens \in Programs

Kinds(ws) == [k \in DOMAIN ws |-> ws[k].kind]

\* Lexer.Next.  A literal without an end keeps the lexer in its loop.
ReadWord ==
  /\ phase = "lexing"
  /\ \E r \in {AnyWord(next)} :
       LET last == IF r.out = "eof" THEN "EOF" ELSE "invalid"
       IN /\ phase' = IF r.out \in {"eof", "error"} THEN "parsing"
                      ELSE IF r.out = "panic" THEN "done" ELSE "lexing"
          /\ words' = IF r.out = "word" THEN Append(words, r.word) ELSE words
          /\ next' = IF r.out = "word" THEN r.word.end ELSE next
          /\ tokens' = IF r.out \in {"eof", "error"} THEN Append(Kinds(words), last) ELSE tokens
          /\ outcome' = IF r.out = "panic" THEN "panic" ELSE outcome
  /\ UNCHANGED <<text, tree>>

\* parser.Parse
ParseModule ==
  /\ phase = "parsing"
  /\ phase' = "done"
  /\ LET p == Parse IN outcome' = p.out /\ tree' = p.nodes
  /\ UNCHANGED <<text, tokens, words, next>>

Finished == phase = "done" /\ UNCHANGED vars

Next == ReadWord \/ ParseModule \/ Finished

Spec == Init /\ [][Next]_vars /\ WF_vars(ReadWord)

-----------------------------------------------------------------------------
\* What the words of a text are: a word is the longest piece of the text, from
\* where the blanks and comments end, that has the form of a word.

Slice(i, j) == SubSeq(text, i, j - 1)     \* characters i .. j - 1

\* A number is a base, digits of the base, and a type.
Bases == {<<<<>>, 10>>, <<<<"0", "x">>, 16>>, <<<<"0", "b">>, 2>>}

Types == (<<>> :> "I32_LIT") @@ (<<"l">> :> "I64_LIT") @@ (<<"s">> :> "I16_LIT")
           @@ (<<"s", "s">> :> "I8_LIT") @@ (<<"u">> :> "U32_LIT") @@ (<<"u", "l">> :> "U64_LIT")
           @@ (<<"u", "s">> :> "U16_LIT") @@ (<<"u", "s", "s">> :> "U8_LIT") @@ (<<"p">> :> "PTR_LIT")

DigitOf(base, c) == c = "_" \/ (c \in DOMAIN Digit /\ Digit[c] < base)

\* The value of digits: each by the power of the base its place has.
Value(base, s) ==
  LET places == {k \in DOMAIN s : s[k] # "_"}
      weight(k) == base ^ Cardinality({m \in places : m > k})
  IN MapThenSumSet(LAMBDA k : Digit[s[k]] * weight(k), places)

Numbers(i, j) ==
  {Lexeme(Types[Slice(m, j)], i, j, <<Value(b[2], Slice(i + Len(b[1]), m))>>) :
     <<b, m>> \in {p \in Bases \X (i .. j) :
       LET first == i + Len(p[1][1])
       IN /\ first <= p[2]
          /\ Slice(i, first) = p[1][1]
          /\ \A k \in first .. p[2] - 1 : DigitOf(p[1][2], text[k])
          /\ p[1][2] = 10 => i < p[2] /\ text[i] # "_"
          /\ Slice(p[2], j) \in DOMAIN Types}}

Names(i, j) ==
  IF /\ text[i] \in Letters
     /\ \A k \in i .. j - 1 : text[k] \in Letters \cup Digits
  THEN {Lexeme(IF Slice(i, j) \in DOMAIN Keywords THEN Keywords[Slice(i, j)] ELSE "IDENTIFIER",
             i, j, NoValue)}
  ELSE {}

\* A quote, a backslash or another character after a backslash is itself.
Unescaped(k, i) == Cardinality({m \in i .. k - 1 : \A n \in m .. k - 1 : text[n] = Escape}) % 2 = 0

\* A literal between quotes q: the first quote inside that no backslash
\* belongs to is the last character.
Quoted(q, i, j) == /\ j > i + 1
                   /\ text[i] = q /\ text[j - 1] = q /\ Unescaped(j - 1, i + 1)
                   /\ \A k \in i + 1 .. j - 2 : text[k] = q => ~Unescaped(k, i + 1)

Strings(i, j) == IF Quoted(DQuote, i, j) THEN {Lexeme("STRING_LIT", i, j, NoValue)} ELSE {}

Chars(i, j) ==
  IF ~Quoted(Quote, i, j) THEN {}
  ELSE IF j = i + 3 THEN {Lexeme("CHAR_LIT", i, j, <<text[i + 1]>>)}
  ELSE IF j = i + 4 /\ text[i + 1] = Escape /\ text[i + 2] \in DOMAIN Escaped
    THEN {Lexeme("CHAR_LIT", i, j, <<Escaped[text[i + 2]]>>)}
  ELSE {}

SymbolTable == {"+", "++", "+=", "-", "--", "-=", "->", "*", "*=", "/", "/=", "%", "%=", "|", "&",
                "@", "^", "~", "(", ")", "{", "}", "[", "]", ",", ";", ".", ":", "::", ">", ">=",
                ">>", "<", "<=", "<<", "<>", "!", "!=", "=", "=="}

Symbols(i, j) ==
  LET s == IF j = i + 1 THEN text[i] ELSE IF j = i + 2 THEN text[i] \o text[i + 1] ELSE ""
  IN IF s \in SymbolTable THEN {Lexeme(s, i, j, NoValue)} ELSE {}

Candidates(i) ==
  UNION {Numbers(i, j) \cup Names(i, j) \cup Strings(i, j) \cup Chars(i, j) \cup Symbols(i, j) :
           j \in i + 1 .. Len(text) + 1}

\* Where no word has begun since `from`, a character is blank when it is one
\* of the blanks or on a line behind the sign of a comment.
Blank(from, k) == \/ text[k] \in Blanks
                  \/ \E c \in from .. k : /\ text[c] = "#"
                                          /\ \A m \in c .. k - 1 : text[m] # Newline

FirstWord(from) == Min({k \in from .. Len(text) + 1 : k > Len(text) \/ ~Blank(from, k)})

\* The words of the text, with an invalid one where no form fits.
RECURSIVE WordsFrom(_)
WordsFrom(from) ==
  LET i == FirstWord(from)
      forms   == Candidates(i)
      longest == CHOOSE w \in forms : \A v \in forms : v.end <= w.end
  IN IF i > Len(text) THEN <<>>
     ELSE IF forms = {} THEN <<Lexeme("invalid", i, i, NoValue)>>
     ELSE <<longest>> \o WordsFrom(longest.end)

-----------------------------------------------------------------------------
\* Every node of a tree, a node before its leaves.
RECURSIVE NodesOf(_)
NodesOf(ns) ==
  IF ns = <<>> THEN <<>>
  ELSE <<Head(ns)>> \o NodesOf(Head(ns).leaves) \o NodesOf(Tail(ns))

Nodes == LET ns == NodesOf(tree) IN {ns[i] : i \in DOMAIN ns}

Parsed == phase = "done" /\ outcome = "ok"

\* Every variable has its type, and only a file that was read has a tree.
TypeOK ==
  /\ phase \in {"lexing", "parsing", "done"}
  /\ outcome \in {"", "ok", "error", "panic"}
  /\ (outcome # "") <=> (phase = "done")
  /\ next \in 1 .. Len(text) + 1
  /\ \A k \in DOMAIN words : words[k].kind \in Words /\ words[k].begin < words[k].end
  /\ phase = "parsing" => tokens # <<>>
  /\ (tree # <<>>) <=> Parsed
  /\ \A n \in Nodes : n.range[1] <= n.range[2] /\ n.range[2] <= Len(tokens)

\* The lexer cuts a text into its words: each as long as it can be, with the
\* value its digits have, nothing of a comment or a blank among them, and up
\* to the first character no word begins with.
Munch ==
  phase # "lexing" /\ text # <<>> =>
    LET all == WordsFrom(1)
        cut == all # <<>> /\ all[Len(all)].kind = "invalid"
    IN /\ words = IF cut THEN SubSeq(all, 1, Len(all) - 1) ELSE all
       /\ tokens = Append(Kinds(words), IF cut THEN "invalid" ELSE "EOF")

\* A file is parsed if and only if the grammar derives its words; any other
\* is an error and never a panic, also where the error of an invalid symbol
\* is dropped behind a comma.
Verdict == phase = "done" => outcome = IF tokens # <<>> /\ Derivable THEN "ok" ELSE "error"

\* Every name and every literal of the program is in the tree once: nothing
\* that the parser passes is lost or there twice.
Complete ==
  Parsed =>
    LET ns == NodesOf(tree)
    IN \A k \in DOMAIN tokens :
         tokens[k] \in Id \cup Literals \cup {"STRING_LIT"} =>
           Cardinality({i \in DOMAIN ns : ns[i].at = k}) = 1

\* An operator has the operands the levels of the grammar give it.  Its left
\* operand ends before it and holds no operator outside brackets that binds
\* less; its right operand comes after it and holds none that binds as much
\* or less; what a prefix is for holds no operator at all.
Binds ==
  Parsed =>
    \A n \in Nodes :
      /\ n.at > 0 /\ IsOperator(n.at) =>
           LET left  == n.leaves[1].range
               right == n.leaves[2].range
           IN /\ Len(n.leaves) = 2
              /\ left[2] < n.at /\ n.at < right[1]
              /\ \A k \in Operators(left[1], left[2]) : Level(k) >= Level(n.at)
              /\ \A k \in Operators(right[1], right[2]) : Level(k) > Level(n.at)
      /\ n.lex \in PrefixOp /\ ~IsName(n.at) =>
           LET of == n.leaves[1].range
           IN n.at < of[1] /\ Operators(of[1], of[2]) = {}

\* The Range of a node covers those of its leaves, and leaves of one node do
\* not overlap: a message about one of them points at it alone.
RangesNest ==
  Parsed =>
    \A n \in Nodes : \A i \in DOMAIN n.leaves :
      LET r == n.leaves[i].range
      IN r # NoRange =>
           /\ n.range[1] <= r[1] /\ r[2] <= n.range[2]
           /\ \A j \in DOMAIN n.leaves : i # j /\ n.leaves[j].range # NoRange =>
                r[2] < n.leaves[j].range[1] \/ n.leaves[j].range[2] < r[1]

\* The words of a text come to an end: no literal, no comment and no character
\* keeps the lexer where it is.
Reads == <>(phase # "lexing")

\* The tree is well formed, and there only for a file that was parsed.
TreeWellFormed == TypeOK /\ RangesNest

=============================================================================

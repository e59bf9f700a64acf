------------------------------- MODULE Parser -------------------------------
(***************************************************************************)
(* The recursive-descent parser (parser/parser.go).                        *)
(*                                                                         *)
(* Every production of the parser is written with a few combinators        *)
(* (expect, expectProd, repeat, repeatCommaList, repeatBinary and the two  *)
(* for unary operators).  A production is therefore a value here, a Rule   *)
(* with steps, and Prod runs one at a word.  Two words can start an        *)
(* expression, a block, a type or an operand that contains another one:    *)
(* those four are referred to by name.                                     *)
(*                                                                         *)
(* A word is its kind; kinds are spelled as the source is.  A node keeps   *)
(* the position of its word, so that it is known which word it came from.  *)
(***************************************************************************)
EXTENDS Naturals, Sequences, FiniteSetsExt

VARIABLE tokens      \* the words of a file, the last one EOF or an invalid one

Id       == {"IDENTIFIER"}
Literals == {"I64_LIT", "I32_LIT", "I16_LIT", "I8_LIT", "U64_LIT", "U32_LIT",
             "U16_LIT", "U8_LIT", "CHAR_LIT", "true", "false", "PTR_LIT"}
Basic    == {"i8", "i16", "i32", "i64", "u8", "u16", "u32", "u64", "bool", "ptr", "void"}

OrOp     == {"or"}
AndOp    == {"and"}
CompOp   == {"<", "<=", "==", ">=", ">", "!="}
SumOp    == {"+", "-", "|", "^"}
MultOp   == {"*", "/", "%", "&", "<<", ">>"}
PrefixOp == {"not", "~", "!"}
SetOp    == {"=", "+=", "-=", "*=", "/=", "%=", "<>"}

Words == Id \cup Literals \cup Basic \cup OrOp \cup AndOp \cup CompOp \cup SumOp
           \cup MultOp \cup PrefixOp \cup SetOp
           \cup {"STRING_LIT", "++", "--", "@", ":", "::", ".", "->", ",", ";", "(", ")",
                 "[", "]", "{", "}", "import", "from", "export", "as", "all", "attr",
                 "const", "data", "struct", "proc", "asm", "begin", "end", "var", "set",
                 "return", "exit", "if", "elseif", "else", "while", "do", "sizeof", "EOF"}

-----------------------------------------------------------------------------
\* Nodes, and what a production leaves behind: the word after it and no node
\* (nil), one node, or several.

Node(lex, at, leaves, range) == [lex |-> lex, at |-> at, leaves |-> leaves, range |-> range]

NoRange == <<0, 0>>      \* Range == nil

Leaf(k) == Node(tokens[k], k, <<>>, <<k, k>>)

Ok(at, ns) == [out |-> "ok", at |-> at, nodes |-> ns]
Stop(out)  == [out |-> out, at |-> 0, nodes |-> <<>>]

\* st.Next() after word k: an error if the text goes on with an invalid
\* symbol; the end of the file is read again and again.
After(k) == IF tokens[k] = "EOF" THEN k ELSE k + 1

Invalid(k) == tokens[k] = "invalid"

Consume(k) == IF Invalid(After(k)) THEN Stop("error") ELSE Ok(After(k), <<Leaf(k)>>)

Expect(k, S) == IF tokens[k] \in S THEN Consume(k) ELSE Stop("error")

-----------------------------------------------------------------------------
\* Steps of a rule.

OfWord(do, S) == [do |-> do, set |-> S, must |-> FALSE, some |-> FALSE]
OfRule(do, r) == [do |-> do, rule |-> r, must |-> FALSE, some |-> FALSE]

Tok(S)   == OfWord("drop", S)      \* _, err = expect(s, S)
Keep(S)  == OfWord("keep", S)      \* n, err := expect(s, S)
Check(S) == OfWord("check", S)     \* err = check(s, S)
Sub(r)   == OfRule("prod", r)      \* n, err := r(s)
Many(r)  == OfRule("repeat", r)    \* repeat(s, r)
List(r)  == OfRule("commas", r)    \* repeatCommaList(s, r)

\* if s.Word.Lex is in S { yes } else { no }
Either(S, yes, no) == [do |-> "if", set |-> S, yes |-> yes, no |-> no,
                       must |-> FALSE, some |-> FALSE]
When(S, steps)     == Either(S, steps, <<>>)
Unless(S, steps)   == Either(S, <<>>, steps)

Must(st) == [st EXCEPT !.must = TRUE]   \* expectProd: nil is an error
Some(st) == [st EXCEPT !.some = TRUE]   \* nil makes the production return nil

\* Forms of rules.
Rule(first, lex, head, spans, steps) ==
  [form |-> "steps", first |-> first, lex |-> lex, head |-> head, spans |-> spans,
   steps |-> steps]

Pass(steps)       == Rule(Words, "", 0, FALSE, steps)     \* the node of its part
New(lex, steps)   == Rule(Words, lex, 0, FALSE, steps)    \* a node of its own
Top(k, steps)    == Rule(Words, "", k, FALSE, steps)     \* the k-th node kept
Span(lex, steps)  == Rule(Words, lex, 0, TRUE, steps)     \* its own node and Range
Starts(S, r)      == [r EXCEPT !.first = S]               \* nil unless the word is in S

Switch(cases, default) == [form |-> "switch", cases |-> cases, default |-> default]
Case(S, r)             == [set |-> S, rule |-> r]
Binary(sub, ops)       == [form |-> "binary", sub |-> sub, ops |-> ops]
Ref(name)              == [form |-> "ref", name |-> name]

Nil == Pass(<<>>)

Word(S) == Starts(S, Pass(<<Keep(S)>>))

Semi(r) == Pass(<<Some(Sub(r)), Tok({";"})>>)

-----------------------------------------------------------------------------
\* Names and types.

Ident == Word(Id)

IdList == New("IDLIST", <<Some(List(Ident))>>)

Name == Top(2, <<Keep(Id), When({"::"}, <<Keep({"::"}), Keep(Words)>>)>>)

CC == Pass(<<Tok({"<"}), Keep(Id), Tok({">"})>>)

TypeList == New("TYPELIST", <<Some(List(Ref("type")))>>)

ObligatoryTypeList == New("TYPELIST", <<Must(List(Ref("type")))>>)

ProcTTList == Pass(<<Tok({"["}), Unless({"]"}, <<Sub(ObligatoryTypeList)>>), Tok({"]"})>>)

ProcType == Top(1, <<Keep({"proc"}), When({"<"}, <<Sub(CC)>>), Sub(ProcTTList), Sub(ProcTTList)>>)

Type == Switch(<<Case(Basic, Word(Basic)), Case({"proc"}, ProcType), Case(Id, Name)>>, Nil)

Annot == Top(1, <<Keep({":"}), Must(Sub(Ref("type")))>>)

-----------------------------------------------------------------------------
\* Expressions.

DotAccess == Top(1, <<Keep({"."}), Keep(Id)>>)

ArrowAccess == Top(1, <<Keep({"->"}), Keep(Id)>>)

Deref == Top(1, <<Keep({"@"}), Must(Sub(Ref("type")))>>)

ExprList == New("EXPRLIST", <<List(Ref("expr"))>>)

Call == Span("CALL", <<Tok({"["}), Sub(ExprList), Tok({"]"})>>)

Suffix == Switch(<<Case({"["}, Call), Case({"@"}, Deref), Case({":"}, Annot),
                   Case({"."}, DotAccess), Case({"->"}, ArrowAccess)>>, Nil)

Sizeof == Top(1, <<Keep({"sizeof"}), Tok({"["}), Must(Sub(Ref("type"))),
                    When({"."}, <<Sub(DotAccess)>>), Tok({"]"})>>)

NestedExpr == [form |-> "nested"]

Factor == Switch(<<Case(Id, Name), Case({"("}, NestedExpr), Case({"sizeof"}, Sizeof),
                   Case(Literals, Word(Literals))>>, Nil)

UnarySuffix == [form |-> "suffixes", factor |-> Factor, suffix |-> Suffix]

UnaryPrefix == [form |-> "prefixes", ops |-> PrefixOp, operand |-> UnarySuffix]

Multiplicative == Binary(UnaryPrefix, MultOp)

Additive == Binary(Multiplicative, SumOp)

Comparative == Binary(Additive, CompOp)

BoolAnd == Binary(Comparative, AndOp)

Expr == Binary(BoolAnd, OrOp)

-----------------------------------------------------------------------------
\* Statements.

Set == Top(1, <<Keep({"set"}), Sub(ExprList),
                 Either({"++", "--"}, <<Keep({"++", "--"})>>,
                        <<Keep(SetOp), Must(Sub(Expr))>>)>>)

Return == Top(1, <<Keep({"return"}), List(Expr)>>)

\* The lexer has no '?', so the mark of an exit never comes.
Exit == Top(1, <<Keep({"exit"}), Must(Sub(Expr))>>)

Else == Top(1, <<Keep({"else"}), Sub(Ref("block"))>>)

ElseIf == Starts({"elseif"}, Top(1, <<Keep({"elseif"}), Must(Sub(Expr)), Sub(Ref("block"))>>))

ElseIfChain == New("ELSEIFCHAIN", <<Many(ElseIf)>>)

If == Top(1, <<Keep({"if"}), Must(Sub(Expr)), Must(Sub(Ref("block"))),
                When({"elseif"}, <<Sub(ElseIfChain)>>), When({"else"}, <<Sub(Else)>>)>>)

While == Top(1, <<Keep({"while"}), Must(Sub(Expr)), Sub(Ref("block"))>>)

DoWhile == Top(1, <<Keep({"do"}), Sub(Ref("block")), Tok({"while"}), Must(Sub(Expr))>>)

Statement == Switch(<<Case({"EOF"}, Nil), Case({"if"}, If), Case({"while"}, While),
                      Case({"do"}, Semi(DoWhile)), Case({"return"}, Semi(Return)),
                      Case({"set"}, Semi(Set)), Case({"exit"}, Semi(Exit))>>, Semi(Expr))

Block == Span("BLOCK", <<Tok({"begin"}), Many(Statement), Tok({"end"})>>)

-----------------------------------------------------------------------------
\* Procedures in assembly.

Addressing == Top(1, <<Keep({"["}), Sub(New("OPLIST", <<List(Ref("op"))>>)), Tok({"]"}),
                        Tok({"@"}), Keep(Id)>>)

ConstOp == Top(1, <<Keep({"{"}), Must(Sub(Expr)), Tok({"}"})>>)

Op == Switch(<<Case(Id, Name), Case({"["}, Addressing), Case({"{"}, ConstOp),
               Case(Literals, Word(Literals))>>, Nil)

Label == Top(1, <<Keep({"."}), Keep(Id), Tok({":"})>>)

Instruction == New("INSTR", <<Keep(Id), Sub(New("OPLIST", <<List(Op)>>)), Tok({";"})>>)

AsmLine == Switch(<<Case({"."}, Label), Case(Id, Instruction)>>, Nil)

Asm == Top(1, <<Keep({"asm"}), Tok({"begin"}), Sub(New("ASMLINES", <<Many(AsmLine)>>)),
                 Tok({"end"})>>)

-----------------------------------------------------------------------------
\* Symbols.  The leaves of a node are in the order of the text here.

Decl == Starts(Id, Top(2, <<Sub(IdList), Keep({":"}), Must(Sub(Type))>>))

DeclList == New("PROCDECLS", <<Some(List(Decl))>>)

ProcArgs == Pass(<<Tok({"["}), Unless({"]"}, <<Sub(DeclList)>>), Tok({"]"})>>)

ProcVars == Pass(<<Tok({"var"}), Must(Sub(DeclList))>>)

ProcDef == Top(1, <<Keep({"proc"}), Keep(Id), When({"<"}, <<Sub(CC)>>),
                     When({"["}, <<Sub(ProcArgs), Sub(TypeList)>>),
                     When({"var"}, <<Sub(ProcVars)>>),
                     Either({"asm"}, <<Sub(Asm)>>, <<Sub(Block)>>)>>)

Offset == Pass(<<Tok({"{"}), Must(Sub(Expr)), Tok({"}"})>>)

Field == New("FIELD", <<Some(Sub(IdList)), Sub(Annot), When({"{"}, <<Sub(Offset)>>)>>)

Size == Pass(<<Tok({"["}), Must(Sub(Expr)), Tok({"]"})>>)

StructDef == Top(1, <<Keep({"struct"}), Keep(Id), When({"["}, <<Sub(Size)>>), Tok({"begin"}),
                       Sub(New("FIELDLIST", <<Many(Semi(Field))>>)), Tok({"end"})>>)

DExpr == Pass(<<Tok({"["}), Sub(Expr), Tok({"]"})>>)

Blob == New("BLOB", <<Tok({"{"}), List(Expr), Tok({"}"})>>)

SingleData ==
  Starts(Id, New("SINGLE",
    <<Keep(Id), When({":"}, <<Sub(Annot)>>), Check({"[", "STRING_LIT", "{"}),
      Sub(Switch(<<Case({"STRING_LIT"}, Word({"STRING_LIT"})), Case({"["}, DExpr),
                   Case({"{"}, Blob)>>, Nil))>>))

MultipleData == Top(1, <<Keep({"begin"}), Many(Semi(SingleData)), Tok({"end"})>>)

DataDef == Top(1, <<Keep({"data"}), Check({"begin"} \cup Id),
                     Either({"begin"}, <<Sub(MultipleData)>>, <<Sub(SingleData)>>)>>)

SingleConst == Starts(Id, New("SINGLE", <<Keep(Id), When({":"}, <<Sub(Annot)>>),
                                          Tok({"="}), Sub(Expr)>>))

MultipleConst == Top(1, <<Keep({"begin"}), Many(Semi(SingleConst)), Tok({"end"})>>)

ConstDef == Top(1, <<Keep({"const"}), Check({"begin"} \cup Id),
                      Either({"begin"}, <<Sub(MultipleConst)>>, <<Sub(SingleConst)>>)>>)

Symbol == Switch(<<Case({"proc"}, ProcDef), Case({"data"}, DataDef),
                   Case({"const"}, ConstDef), Case({"struct"}, StructDef)>>, Nil)

AttrSymbol ==
  LET separator == When({";"}, <<Tok({";"})>>)
  IN Switch(<<Case({"attr"}, Top(1, <<Keep({"attr"}), Sub(IdList), Sub(Symbol), separator>>))>>,
            Pass(<<Sub(Symbol), separator>>))

-----------------------------------------------------------------------------
\* Modules.

Alias == Starts(Id, Top(2, <<Keep(Id), When({"as"}, <<Keep({"as"}), Keep(Id)>>)>>))

Items == Switch(<<Case({"all"}, Word({"all"}))>>, New("ALIASLIST", <<List(Alias)>>))

Import == Top(1, <<Keep({"import"}), Sub(Items)>>)

FromImport == Top(1, <<Keep({"from"}), Keep(Id), Tok({"import"}), Sub(Items)>>)

Export == Top(1, <<Keep({"export"}), Sub(Items)>>)

Coupling == Switch(<<Case({"import"}, Import), Case({"from"}, FromImport),
                     Case({"export"}, Export)>>, Nil)

Module == New("MODULE", <<Sub(New("COUPLINGS", <<Many(Coupling)>>)),
                          Sub(New("SYMBOLS", <<Many(AttrSymbol)>>)), Check({"EOF"})>>)

Named(name) == CASE name = "expr"  -> Expr
                 [] name = "type"  -> Type
                 [] name = "block" -> Block
                 [] name = "op"    -> Op

-----------------------------------------------------------------------------
\* Running a rule at word k.

\* n.AddLeaf(m) for every m of ns.
AddLeaves(n, ns) == [n EXCEPT !.leaves = @ \o ns]

\* What a rule makes of the nodes it kept from word `from` to word `to`.
Made(r, ns, from, to) ==
  IF r.head > 0 /\ Len(ns) >= r.head
    THEN <<AddLeaves(ns[r.head], SubSeq(ns, 1, r.head - 1) \o SubSeq(ns, r.head + 1, Len(ns)))>>
  ELSE IF r.lex = "" THEN ns
  ELSE <<Node(r.lex, 0, ns, IF r.spans THEN <<from, to - 1>> ELSE NoRange)>>

RECURSIVE Prod(_, _), Steps(_, _, _), Repeat(_, _, _), CommaList(_, _, _),
          RepeatBinary(_, _, _), RepeatUnaryLeft(_, _), RepeatUnaryRight(_, _, _)

Repeat(r, k, ns) ==
  LET n == Prod(r, k)
  IN IF n.out # "ok" THEN n
     ELSE IF n.nodes = <<>> THEN Ok(n.at, ns)
     ELSE Repeat(r, n.at, ns \o n.nodes)

\* Mutant of CommaList: a comma always has another element behind it.
CommaListStrict(r, k, ns) ==
  LET n == Prod(r, k)
  IN IF n.out # "ok" THEN n
     ELSE IF n.nodes = <<>> THEN (IF ns = <<>> THEN Ok(n.at, ns) ELSE Stop("error"))
     ELSE IF tokens[n.at] # "," THEN Ok(n.at, ns \o n.nodes)
     ELSE CommaList(r, IF Invalid(n.at + 1) THEN n.at ELSE n.at + 1, ns \o n.nodes)

\* Mutant of CommaList: the element no comma follows is left out.
CommaListLoses(r, k, ns) ==
  LET n == Prod(r, k)
  IN IF n.out # "ok" THEN n
     ELSE IF n.nodes = <<>> THEN Ok(n.at, ns)
     ELSE IF tokens[n.at] # "," THEN Ok(n.at, IF ns = <<>> THEN n.nodes ELSE ns)
     ELSE CommaList(r, IF Invalid(n.at + 1) THEN n.at ELSE n.at + 1, ns \o n.nodes)

\* Called at the first element, then at the word after each comma.  The error
\* of the st.Next() that passes a comma is dropped: the word stays the comma.
CommaList(r, k, ns) ==
  LET n == Prod(r, k)
  IN IF n.out # "ok" THEN n
     ELSE IF n.nodes = <<>> THEN Ok(n.at, ns)
     ELSE IF tokens[n.at] # "," THEN Ok(n.at, ns \o n.nodes)
     ELSE CommaList(r, IF Invalid(n.at + 1) THEN n.at ELSE n.at + 1, ns \o n.nodes)

\* Mutant of RepeatBinary: what follows the operator is a whole expression
\* of the level.
RepeatBinaryRight(r, k, last) ==
  IF tokens[k] \notin r.ops THEN Ok(k, last)
  ELSE LET op  == Consume(k)
           new == IF op.out = "ok" THEN Prod(r, op.at) ELSE op
       IN IF new.out # "ok" THEN new
          ELSE IF new.nodes = <<>> THEN Stop("error")
          ELSE Ok(new.at, <<AddLeaves(op.nodes[1], last \o new.nodes)>>)

RepeatBinary(r, k, last) ==
  IF tokens[k] \notin r.ops THEN Ok(k, last)
  ELSE LET op  == Consume(k)
           new == IF op.out = "ok" THEN Prod(r.sub, op.at) ELSE op
       IN IF new.out # "ok" THEN new
          ELSE IF new.nodes = <<>> THEN Stop("error")
          ELSE RepeatBinary(r, new.at, <<AddLeaves(op.nodes[1], last \o new.nodes)>>)

\* Operators in front of an operand; each is the only leaf of the one before.
RepeatUnaryLeft(r, k) ==
  IF tokens[k] \notin r.ops THEN Prod(r.operand, k)
  ELSE LET op   == Consume(k)
           rest == IF op.out = "ok" THEN RepeatUnaryLeft(r, op.at) ELSE op
       IN IF rest.out # "ok" THEN rest
          ELSE IF rest.nodes = <<>> THEN Stop("error")
          ELSE Ok(rest.at, <<AddLeaves(op.nodes[1], rest.nodes)>>)

\* RepeatUnaryRight after an operand; a suffix is a leaf of the next one.  Where there
\* is no operand the first suffix gets a nil leaf.
RepeatUnaryRight(r, k, last) ==
  LET n == Prod(r.suffix, k)
  IN IF n.out # "ok" THEN n
     ELSE IF n.nodes = <<>> THEN Ok(n.at, last)
     ELSE RepeatUnaryRight(r, n.at, <<AddLeaves(n.nodes[1], last)>>)

\* '(' Expr ')': the node of the expression gets the Range of the parentheses.
Nested(k) ==
  LET open  == Consume(k)
      inner == IF open.out = "ok" THEN Prod(Expr, open.at) ELSE open
      close == IF inner.out = "ok" THEN Expect(inner.at, {")"}) ELSE inner
  IN IF close.out # "ok" THEN close
     ELSE IF inner.nodes = <<>> THEN Stop("panic")     \* n.Range of nil
     ELSE Ok(close.at, <<[inner.nodes[1] EXCEPT !.range = <<k, inner.at>>]>>)

RunStep(st, k) ==
  CASE st.do = "drop"   -> [Expect(k, st.set) EXCEPT !.nodes = <<>>]
    [] st.do = "keep"   -> Expect(k, st.set)
    [] st.do = "check"  -> IF tokens[k] \in st.set THEN Ok(k, <<>>) ELSE Stop("error")
    [] st.do = "prod"   -> Prod(st.rule, k)
    [] st.do = "repeat" -> Repeat(st.rule, k, <<>>)
    [] st.do = "commas" -> CommaList(st.rule, k, <<>>)
    [] st.do = "if"     -> Steps(IF tokens[k] \in st.set THEN st.yes ELSE st.no, k, <<>>)

\* The nodes the steps keep after ns, in order, or nil as soon as a step asks
\* for it.
Steps(sts, k, ns) ==
  IF sts = <<>> THEN Ok(k, ns)
  ELSE LET n == RunStep(Head(sts), k)
       IN IF n.out # "ok" THEN n
          ELSE IF n.nodes = <<>> /\ Head(sts).must THEN Stop("error")
          ELSE IF n.nodes = <<>> /\ Head(sts).some THEN [n EXCEPT !.out = "nil"]
          ELSE Steps(Tail(sts), n.at, ns \o n.nodes)

Prod(r, k) ==
  CASE r.form = "ref"    -> Prod(Named(r.name), k)
    [] r.form = "switch" -> IF \E i \in DOMAIN r.cases : tokens[k] \in r.cases[i].set
                              THEN Prod(r.cases[CHOOSE i \in DOMAIN r.cases :
                                                   tokens[k] \in r.cases[i].set].rule, k)
                              ELSE Prod(r.default, k)
    [] r.form = "steps"  -> IF tokens[k] \notin r.first THEN Ok(k, <<>>)
                            ELSE LET n == Steps(r.steps, k, <<>>)
                                 IN IF n.out = "nil" THEN Ok(n.at, <<>>)
                                    ELSE IF n.out # "ok" THEN n
                                    ELSE Ok(n.at, Made(r, n.nodes, k, n.at))
    [] r.form = "binary" -> LET first == Prod(r.sub, k)
                            IN IF first.out # "ok" \/ first.nodes = <<>> THEN first
                               ELSE RepeatBinary(r, first.at, first.nodes)
    [] r.form = "prefixes" -> RepeatUnaryLeft(r, k)
    [] r.form = "suffixes" -> LET fact == Prod(r.factor, k)
                              IN IF fact.out # "ok" THEN fact
                                 ELSE RepeatUnaryRight(r, fact.at, fact.nodes)
    [] r.form = "nested" -> Nested(k)

-----------------------------------------------------------------------------
\* computeRanges: the Range of a node grows over those of its leaves.
RECURSIVE ComputeRanges(_)

\* Mutant of ComputeRanges: a node looks at its leaves before they are done.
ComputeRangesEarly(n) ==
  LET rs   == {n.leaves[i].range : i \in DOMAIN n.leaves} \cup {n.range}
      some == rs \ {NoRange}
  IN [n EXCEPT !.leaves = [i \in DOMAIN n.leaves |-> ComputeRanges(n.leaves[i])],
               !.range  = IF some = {} THEN NoRange
                          ELSE <<Min({r[1] : r \in some}), Max({r[2] : r \in some})>>]

ComputeRanges(n) ==
  LET ls   == [i \in DOMAIN n.leaves |-> ComputeRanges(n.leaves[i])]
      rs   == {ls[i].range : i \in DOMAIN ls} \cup {n.range}
      some == rs \ {NoRange}
  IN [n EXCEPT !.leaves = ls,
               !.range  = IF some = {} THEN NoRange
                          ELSE <<Min({r[1] : r \in some}), Max({r[2] : r \in some})>>]

\* Parse: "ok" with the tree, "error" or "panic".
Parse ==
  IF Invalid(1) THEN Stop("error")
  ELSE LET n == Prod(Module, 1)
       IN IF n.out # "ok" THEN n ELSE Ok(n.at, <<ComputeRanges(n.nodes[1])>>)

=============================================================================

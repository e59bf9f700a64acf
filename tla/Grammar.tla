------------------------------ MODULE Grammar -------------------------------
(***************************************************************************)
(* The grammar that the comments of parser/parser.go give, one line over   *)
(* each production, and what it says of a file: which files it derives and *)
(* which operator of an expression binds which operands.                   *)
(*                                                                         *)
(* The parser takes more than these lines allow, and some lines are older  *)
(* than the code.  Lenient says which grammar is meant: the comments as    *)
(* they are, or with the phrases the parser does not insist on left out.   *)
(***************************************************************************)
EXTENDS Parser

CONSTANT Lenient

ASSUME LenientChosen == Lenient \in BOOLEAN

T(S)    == [is |-> "token", set |-> S]
N(x)    == [is |-> "name", name |-> x]
Cat(es) == [is |-> "cat", parts |-> es]
Alt(es) == [is |-> "alt", parts |-> es]
Star(e) == [is |-> "star", of |-> e]
Opt(e)  == Alt(<<Cat(<<>>), e>>)

As(comment, code) == IF Lenient THEN code ELSE comment
Needed(e)         == As(e, Opt(e))      \* the parser does without it
Absent            == Alt(<<>>)

Commas(e) == Cat(<<e, Star(Cat(<<T({","}), e>>)), Opt(T({","}))>>)
Within(l, e, r) == Cat(<<T({l}), e, T({r})>>)
Over(e, ops)    == Cat(<<e, Star(Cat(<<T(ops), e>>))>>)

\* Binary operators by how loosely they bind.
Levels == <<{"or"}, {"and"}, {"<", "<=", "==", ">=", ">", "!="}, {"+", "-", "|", "^"},
            {"*", "/", "%", "&", "<<", ">>"}>>

Rules == [
  Module |-> Cat(<<Star(N("Coupling")), Star(N("AttrSymbol")), As(Cat(<<>>), Opt(T({";"})))>>),
  Coupling |-> Alt(<<Cat(<<T({"import", "export"}), N("Items")>>),
                     Cat(<<T({"from"}), T(Id), T({"import"}), N("Items")>>)>>),
  Items |-> Alt(<<Needed(Commas(N("Alias"))), T({"all"})>>),
  Alias |-> Cat(<<T(Id), Opt(Cat(<<T({"as"}), T(Id)>>))>>),
  IdList |-> Commas(T(Id)),
  AttrSymbol |-> Cat(<<Alt(<<N("Symbol"), Cat(<<T({"attr"}), Needed(N("IdList")), Needed(N("Symbol"))>>)>>),
                       Opt(T({";"}))>>),
  Symbol |-> Alt(<<Cat(<<T({"const"}), Alt(<<N("SingleConst"),
                         Within("begin", Star(Cat(<<N("SingleConst"), T({";"})>>)), "end")>>)>>),
                   Cat(<<T({"data"}), Alt(<<N("SingleData"),
                         Within("begin", Star(Cat(<<N("SingleData"), As(Opt(T({";"})), T({";"}))>>)), "end")>>)>>),
                   Cat(<<T({"struct"}), T(Id), Opt(Within("[", N("Expr"), "]")),
                         Within("begin", Star(Cat(<<N("Field"), T({";"})>>)), "end")>>),
                   N("Procedure")>>),
  SingleConst |-> Cat(<<T(Id), Opt(N("Annot")), T({"="}), Needed(N("Expr"))>>),
  SingleData |-> Cat(<<T(Id), Opt(N("Annot")), Alt(<<Within("[", Opt(N("Expr")), "]"), T({"STRING_LIT"}),
                       Within("{", Needed(Commas(N("Expr"))), "}")>>)>>),
  Field |-> Cat(<<N("IdList"), N("Annot"), Opt(Within("{", N("Expr"), "}"))>>),
  Procedure |-> Cat(<<T({"proc"}), T(Id), Opt(Within("<", T(Id), ">")),
                      Opt(Cat(<<Within("[", Opt(N("DeclList")), "]"), Opt(Commas(N("Type")))>>)),
                      Opt(Cat(<<T({"var"}), N("DeclList")>>)), Alt(<<N("Asm"), N("Block")>>)>>),
  DeclList |-> Commas(Cat(<<N("IdList"), N("Annot")>>)),
  Type |-> Alt(<<T(Basic), N("Name"), Cat(<<T({"proc"}), Opt(Within("<", T(Id), ">")),
                 Within("[", Opt(Commas(N("Type"))), "]"), Within("[", Opt(Commas(N("Type"))), "]")>>)>>),
  Name |-> Cat(<<T(Id), Opt(Cat(<<T({"::"}), T(As(Id, Words))>>))>>),
  Annot |-> Cat(<<T({":"}), N("Type")>>),
  Block |-> Within("begin", Star(N("Statement")), "end"),
  Statement |-> Alt(<<Cat(<<N("Controlled"), As(Opt(T({";"})), Cat(<<>>))>>),
                      Cat(<<Alt(<<N("DoWhile"), N("Set"), N("Expr"),
                                  Cat(<<T({"return"}), Opt(Commas(N("Expr")))>>),
                                  Cat(<<T({"exit"}), N("Expr")>>)>>), T({";"})>>)>>),
  Controlled |-> Alt(<<Cat(<<T({"if"}), N("Expr"), N("Block"),
                             As(Cat(<<>>), Star(Cat(<<T({"elseif"}), N("Expr"), N("Block")>>))),
                             Opt(Cat(<<T({"else"}), N("Block")>>)), As(T({"if"}), Cat(<<>>))>>),
                       Cat(<<T({"while"}), N("Expr"), N("Block"), As(T({"while"}), Cat(<<>>))>>)>>),
  DoWhile |-> Cat(<<T({"do"}), N("Block"), T({"while"}), N("Expr")>>),
  Set |-> Cat(<<T({"set"}), Needed(Commas(N("Expr"))),
                Alt(<<T({"++", "--"}),
                      Cat(<<T({"=", "+=", "-=", "*=", "/=", "%=", "<>"}), N("Expr")>>)>>)>>),
  Expr |-> Over(N("And"), Levels[1]),
  And  |-> Over(N("Comp"), Levels[2]),
  Comp |-> Over(N("Sum"), Levels[3]),
  Sum  |-> Over(N("Mult"), Levels[4]),
  Mult |-> Over(N("Unary"), Levels[5]),
  Unary |-> Cat(<<Star(T({"not", "~", "!"})), Alt(<<Cat(<<N("Factor"), Star(N("Suffix"))>>),
                  As(Absent, Cat(<<N("Suffix"), Star(N("Suffix"))>>))>>)>>),
  Suffix |-> Alt(<<N("Annot"), Cat(<<T({"@"}), N("Type")>>), Cat(<<T({".", "->"}), T(Id)>>),
                   Within("[", Opt(Commas(N("Expr"))), "]")>>),
  Factor |-> Alt(<<N("Name"), T(Literals), Within("(", N("Expr"), ")"),
                   Cat(<<T({"sizeof"}), Within("[", Cat(<<N("Type"), Opt(Cat(<<T({"."}), T(Id)>>))>>), "]")>>)>>),
  Asm |-> Cat(<<T({"asm"}), Within("begin", Star(N("AsmLine")), "end")>>),
  AsmLine |-> Alt(<<Cat(<<T({"."}), T(Id), T({":"})>>),
                    Cat(<<T(Id), Opt(Commas(N("Op"))), T({";"})>>)>>),
  Op |-> Alt(<<As(T(Id), N("Name")), T(Literals), Within("{", N("Expr"), "}"),
               Cat(<<Within("[", Needed(Commas(N("Op"))), "]"), T({"@"}), T(Id)>>)>>)]

-----------------------------------------------------------------------------
\* The words at which a phrase e that begins at a word of K can be over.

RECURSIVE Ends(_, _), CatEnds(_, _), StarEnds(_, _, _)
Ends(e, K) ==
  IF K = {} THEN {}
  ELSE CASE e.is = "token" -> {After(k) : k \in {j \in K : tokens[j] \in e.set}}
         [] e.is = "name"  -> Ends(Rules[e.name], K)
         [] e.is = "cat"   -> CatEnds(e.parts, K)
         [] e.is = "alt"   -> UNION {Ends(e.parts[i], K) : i \in DOMAIN e.parts}
         [] e.is = "star"  -> StarEnds(e.of, K, K)

CatEnds(es, K) == IF es = <<>> THEN K ELSE CatEnds(Tail(es), Ends(Head(es), K))

StarEnds(e, new, all) ==
  LET more == Ends(e, new) \ all
  IN IF more = {} THEN all ELSE StarEnds(e, more, all \cup more)

Derivable == \E k \in Ends(N("Module"), {1}) : tokens[k] = "EOF"

-----------------------------------------------------------------------------
\* The binary operators of words i .. j that are in no brackets there.  A word
\* behind "::" is the name of a symbol, whatever it is.

IsName(k) == k > 1 /\ tokens[k - 1] = "::"

Brackets(S, i, k) == Cardinality({m \in i .. k - 1 : tokens[m] \in S /\ ~IsName(m)})

IsOperator(k) == ~IsName(k) /\ \E l \in DOMAIN Levels : tokens[k] \in Levels[l]

Operators(i, j) ==
  {k \in i .. j : IsOperator(k) /\ Brackets({"(", "["}, i, k) = Brackets({")", "]"}, i, k)}

Level(k) == CHOOSE l \in DOMAIN Levels : tokens[k] \in Levels[l]

=============================================================================

------------------------------ MODULE MCBodies ------------------------------
(***************************************************************************)
(* Names and bodies for Bodies: every operator on every two of a menu of   *)
(* names and literals, operators on results of operators, every statement  *)
(* on every target and value of a menu, and pairs of statements.           *)
(***************************************************************************)
EXTENDS Bodies

MCStructs == [S |-> [num |-> "i32", to |-> "ptr", next |-> "S", small |-> "i8"],
              T |-> [num |-> "i8"]]

MCProcs == [none |-> [args |-> <<>>, rets |-> <<>>],
            one  |-> [args |-> <<"i32">>, rets |-> <<"i32">>],
            two  |-> [args |-> <<"i8">>, rets |-> <<"i32", "S">>],
            make |-> [args |-> <<"ptr", "one">>, rets |-> <<"S">>]]

Local(cl, pos, t) == [class |-> cl, position |-> pos, type |-> t]

\* x is a constant of the module as well, and T a struct.
MCLocals == [b |-> Local("variable", 0, "i8"), i |-> Local("variable", 1, "i32"),
             o |-> Local("variable", 2, "bool"), h |-> Local("variable", 3, "one"),
             x |-> Local("variable", 4, "i64"), p |-> Local("arg", 0, "ptr"),
             s |-> Local("arg", 1, "S"), T |-> Local("arg", 2, "S")]

Global(k, t) == [kind |-> k, type |-> t]

MCGlobals == [K |-> Global("const", "i32"), x |-> Global("const", "i8"),
              d |-> Global("data", "S"), q |-> Global("data", "ptr"),
              S |-> Global("struct", "S"), T |-> Global("struct", "T"),
              f |-> Global("proc", "none"), g |-> Global("proc", "one"),
              two |-> Global("proc", "two"), mk |-> Global("proc", "make")]

MCExternals == [C |-> Global("const", "i8"), E |-> Global("struct", "S")]

MCRets == <<"i32", "S">>

-----------------------------------------------------------------------------
Names == {Name(n) : n \in {"b", "i", "o", "h", "x", "p", "s", "T", "K", "d", "q", "S", "f",
                           "g", "two", "mk", "undefined"}}

Others == {External("C"), External("E"), External("undefined"), Lit("i8"), Lit("ptr"),
           Lit("bool"), Dot(Name("S"), "num"), Dot(Name("T"), "num"), Dot(Name("T"), "next"),
           Sizeof("S"), Sizeof("q"), Sizeof("K"), Sizeof("void"), Sizeof("one"),
           SizeofField("S", "to"), SizeofField("d", "to"), SizeofField("S", "none")}

Few == {Name(n) : n \in {"b", "i", "o", "h", "p", "s", "K"}}

\* One or two ways to get each type, no type, no value and several values.
Results == {Bin("+", Name("i"), Lit("i32")), Bin("+", Name("p"), Name("b")),
            Bin("<", Name("i"), Name("K")), Bin("+", Name("i"), Name("o")),
            Un("not", Name("o")), Convert(Name("b"), "i32"), Convert(Name("p"), "one"),
            Deref(Name("p"), "i8"), Deref(Name("q"), "S"), Deref(Name("s"), "one"),
            Dot(Name("s"), "to"), Arrow(Name("s"), "num"), Arrow(Name("d"), "next"),
            Arrow(Name("s"), "small"), Arrow(Name("T"), "to"),
            Call(Name("g"), <<Name("i")>>), Call(Name("f"), <<>>),
            Call(Name("two"), <<Name("b")>>), Call(Name("s"), <<Name("b")>>),
            Call(Name("d"), <<Name("x")>>), Call(Name("mk"), <<Name("p"), Name("h")>>)}

Operators == {"+", "-", "*", "&", "==", "<", "and"}

Over(A, ops) == {Bin(op, a, b) : op \in ops, a, b \in A}

Unaries(A) ==
  {Un(op, a) : op \in {"neg", "~", "not"}, a \in A}
    \cup {Convert(a, t) : a \in A, t \in {"i32", "bool", "ptr", "one", "void"}}
    \cup {Deref(a, t) : a \in A, t \in {"i8", "ptr", "S", "one"}}
    \cup {Dot(a, n) : a \in A, n \in {"next", "none"}}
    \cup {Arrow(a, n) : a \in A, n \in {"small", "none"}}

Calls(A, B) == {Call(a, <<>>) : a \in A} \cup {Call(a, <<b>>) : a \in A, b \in B}
                 \cup {Call(a, <<b, e>>) : a \in A, b \in {Name("p"), Name("i")}, e \in B}

Values1 == Names \cup Others \cup Results

Expressions == Over(Names, Operators) \cup Over(Results \cup Few, {"+", "-", "==", "<"})
                 \cup Unaries(Values1) \cup Calls(Values1, Few \cup Results)

Targets == {Name(n) : n \in {"b", "i", "o", "h", "x", "p", "s", "K", "undefined"}}
             \cup {Deref(Name("p"), t) : t \in {"i8", "i32", "S", "ptr", "one"}}
             \cup {Deref(Name("i"), "i8"), Deref(Call(Name("g"), <<Name("i")>>), "i8"),
                   Deref(Call(Name("s"), <<Name("b")>>), "i32")}
             \cup {Arrow(Name("s"), n) : n \in {"num", "next", "to", "none"}}
             \cup {Arrow(Call(Name("mk"), <<Name("p"), Name("h")>>), "small"), Dot(Name("s"), "num")}

Statements ==
  {Do(e) : e \in Expressions}
    \cup {Cond(k, e) : k \in Conditions, e \in Values1}
    \cup {Exit(e) : e \in Values1}
    \cup {Return(<<e>>) : e \in Few} \cup {Return(<<d, e>>) : d, e \in Few \cup Results}
    \cup {Step(t, op) : t \in Targets, op \in {"++", "--"}}
    \cup {Assign(<<t>>, e) : t \in Targets, e \in Values1}
    \cup {OpAssign(t, op, e) : t \in Targets, op \in {"+", "-", "*"}, e \in Few \cup Results}
    \cup {Swap(t, e) : t \in Targets, e \in Targets}
    \cup {Assign(<<t, r>>, e) : t, r \in Targets,
            e \in {Call(Name("two"), <<Name("b")>>), Call(Name("two"), <<Name("i")>>), Name("i")}}

Short == {Do(Call(Name("g"), <<Name("i")>>)), Cond("while", Bin("<", Name("i"), Name("K"))),
          Cond("if", Name("i")), Exit(Name("b")), Return(<<Name("i"), Name("s")>>),
          Assign(<<Arrow(Name("s"), "num")>>, Name("i")), Swap(Deref(Name("p"), "S"), Name("s")),
          Assign(<<Name("i"), Name("s")>>, Call(Name("two"), <<Name("b")>>)),
          OpAssign(Name("i"), "+", Name("b")), Do(Call(Name("s"), <<Name("b")>>))}

-----------------------------------------------------------------------------
\* What the code gets wrong (README, section 4).

Several(e) == \E t \in TypesOf(e) : Len(t) > 1
Nothing(e) == <<>> \in TypesOf(e)

\* A call with several results where an operand's type is used without the
\* check for it, and void as the type of a value.
RECURSIVE SoundExpr(_)
SoundExpr(e) ==
  CASE e.lex = "binary"  -> SoundExpr(e.left) /\ SoundExpr(e.right)
    [] e.lex = "convert" -> SoundExpr(e.arg) /\ ~Several(e.arg) /\ ~Nothing(e.arg) /\ e.type # "void"
    [] e.lex = "deref"   -> SoundExpr(e.arg) /\ ~Several(e.arg)
    [] e.lex = "dot"     -> SoundExpr(e.arg) /\ e.arg.lex # "external"
    [] e.lex \in {"unary", "arrow"} -> SoundExpr(e.arg)
    [] e.lex = "call"    -> /\ SoundExpr(e.callee) /\ ~Several(e.callee)
                            /\ \A i \in DOMAIN e.args : SoundExpr(e.args[i]) /\ ~Several(e.args[i])
    [] OTHER -> TRUE

\* Steps and operators on pointers: the literal one is a pointer, other
\* operators than + and - are let through, and a pointer in memory is
\* accessed with the width of what is added to it.
PointerOp(s) ==
  LET t == TypesOf(s.left[1])
  IN t \cap Singly(Pointers) # {} =>
       IF s.lex = "step" THEN t # {<<"ptr">>} /\ Direct(s.left[1])
       ELSE s.op \in {"+", "-"} /\ Direct(s.left[1])

Sound(s) ==
  CASE s.lex \in {"expression", "if", "exit"} -> SoundExpr(s.exp) /\ ~Several(s.exp)
    [] s.lex \in {"while", "dowhile"} -> SoundExpr(s.exp)
    [] s.lex = "elseif" -> SoundExpr(s.exp) /\ TypesOf(s.exp) \subseteq {<<"bool">>}
    [] s.lex = "return" -> \A i \in DOMAIN s.exps : SoundExpr(s.exps[i])
    [] s.lex = "step"   -> SoundExpr(s.left[1]) /\ PointerOp(s)
    [] s.lex = "opset"  -> SoundExpr(s.left[1]) /\ SoundExpr(s.right) /\ PointerOp(s)
    [] s.lex \in {"set", "swap"} -> SoundExpr(s.right) /\ \A i \in DOMAIN s.left : SoundExpr(s.left[i])

MCPrograms == {<<s>> : s \in {x \in Statements : Sound(x)}} \cup {<<s, t>> : s, t \in Short}

\* One body for each; README, section 4.
TwoCall == Call(Name("two"), <<Name("b")>>)

SeveralStatement  == {<<Do(TwoCall)>>}
SeveralCondition  == {<<Cond("if", TwoCall)>>}
SeveralArgument   == {<<Do(Call(Name("g"), <<TwoCall>>))>>}
ExternalOffset    == {<<Do(Dot(External("E"), "num"))>>}
ElseIfCondition   == {<<Cond("elseif", Name("i"))>>}
VoidConversion    == {<<Do(Convert(Call(Name("f"), <<>>), "i32"))>>}
PointerStep       == {<<Step(Name("p"), "++")>>}
PointerProduct    == {<<OpAssign(Name("p"), "*", Name("i"))>>}
PointerInMemory   == {<<OpAssign(Arrow(Name("s"), "to"), "+", Name("i"))>>}
StructInMemory    == {<<Step(Arrow(Name("s"), "next"), "++")>>}

=============================================================================

---------------------------- MODULE MCConstants ----------------------------
(***************************************************************************)
(* Programs for Constants: every choice from menus for two constants, a    *)
(* struct and data of one module, and for a module with an importer and an *)
(* importer of both.                                                       *)
(***************************************************************************)
EXTENDS Constants

Const(n, e)      == Declaration("const", n, Nil, e, <<>>, <<>>)
ConstOf(n, t, e) == Declaration("const", n, t, e, <<>>, <<>>)
Data(n, e)       == Declaration("data", n, Nil, e, <<>>, <<>>)
DataOf(n, st, e) == Declaration("data", n, st, e, <<>>, <<>>)
Blob(n, st, es)  == Declaration("data", n, st, NoExpr, es, <<>>)
Struct(n, e, fs) == Declaration("struct", n, Nil, e, <<>>, fs)
Field(n, t, e)   == [name |-> n, type |-> t, offset |-> e]

Int32(v) == Lit(v, "i32")
One == <<Int32(1)>>

\* i8 has the numbers -4 to 3, u8 those from 0 to 7, i32 those below 2048.
KExprs ==
  {<<Id("L")>>, <<Id("L"), Int32(2), Op("*")>>, <<Id("L"), Id("L"), Op("<")>>,
   <<Id("L"), To("i8")>>, <<Id("L"), Neg, To("u8")>>,
   <<Int32(1), Id("L"), To("i8"), Op("<<")>>, <<Sizeof("D"), Id("L"), Op("-")>>,
   <<Sizeof("S"), SizeofType("ptr"), Op("/")>>, <<SizeofField("S", "X"), Id("L"), Op("+")>>,
   <<Id("L"), Int32(-2), Op("%")>>, <<Id("L"), Int32(1), Op(">>"), Int32(0), Op("<="), Not>>,
   <<Lit(3, "i8"), Lit(1, "i8"), Op("+")>>, <<Lit(8, "ptr"), Id("L"), Op("+")>>}

LExprs == {One, <<Int32(-3)>>, <<Lit(3, "i8")>>, <<Lit(1, "bool")>>, <<Int32(2047)>>,
           <<Sizeof("S")>>, <<Sizeof("D")>>, <<Sizeof("D"), Sizeof("S"), Op("/")>>}

Structs ==
  {<<NoExpr, <<Field("X", "i32", NoExpr), Field("Y", "i64", NoExpr)>>>>,
   <<NoExpr, <<Field("X", "i32", NoExpr), Field("Y", "i64", One)>>>>,
   <<<<Id("L")>>, <<Field("X", "i8", <<Int32(0)>>), Field("Y", "i64", <<Dot("S", "X"), SizeofField("S", "X"), Op("+")>>)>>>>,
   <<<<Int32(16)>>, <<Field("X", "i8", <<Int32(4)>>), Field("Y", "i64", <<Id("L")>>)>>>>,
   <<<<Int32(16)>>, <<Field("X", "i8", <<Sizeof("D")>>), Field("Y", "i64", <<Dot("S", "X"), Neg>>)>>>>}

Datas == {<<Nil, One, <<>>>>, <<"S", NoExpr, <<>>>>, <<"S", <<Id("L")>>, <<>>>>,
          <<Nil, <<Sizeof("S"), Int32(2), Op("*")>>, <<>>>>,
          <<Nil, NoExpr, <<<<Int32(5)>>, <<Lit(9, "i64")>>, <<Lit(4, "i8")>>>>>>,
          <<"S", NoExpr, <<<<Int32(5)>>, <<Lit(9, "i64")>>, <<Int32(6)>>>>>>,
          <<"S", NoExpr, <<<<Int32(5)>>, <<Int32(9)>>>>>>}

Alone(ss) == [main |-> [deps |-> {}, from |-> <<>>, symbols |-> ss]]

OneModule ==
  {Alone(<<ConstOf("K", t, k), Const("L", l), Struct("S", x[1], x[2]),
           Declaration("data", "D", d[1], d[2], d[3], <<>>)>>) :
     t \in {Nil, "i32"}, k \in KExprs, l \in LExprs, x \in Structs, d \in Datas}

\* main imports a, or a and b, which imports a; names by both ways.
AConsts == {<<Const("X", One)>>, <<Const("X", One), Const("Y", <<Id("X"), Int32(2), Op("+")>>)>>,
            <<Const("X", <<Id("Y")>>), Const("Y", One)>>}

BConsts == {<<Const("X", <<Ext("a", "X"), Int32(1), Op("+")>>)>>,
            <<Const("Z", <<Id("W")>>), Const("V", <<Id("Z"), Id("W"), Op("+")>>)>>,
            <<Data("E", <<SizeofExt("a", "S")>>), Const("X", <<Sizeof("T")>>)>>}

MainConsts == {<<Const("K", <<Id("W"), Ext("a", "X"), Op("*")>>), Const("Y", <<Int32(7)>>)>>,
               <<Const("K", <<Sizeof("T")>>), Data("D", <<Id("W")>>)>>,
               <<DataOf("D", "T", <<Id("W")>>), Const("K", <<Dot("T", "P")>>)>>}

AStruct == Struct("S", <<Int32(9)>>, <<Field("P", "i64", <<Int32(1)>>)>>)

Importer(ds, w, ss) == [deps |-> ds, from |-> [W |-> <<"a", w>>, T |-> <<"a", "S">>], symbols |-> ss]

Imported(x) == [deps |-> {}, from |-> <<>>, symbols |-> x \o <<AStruct>>]

TwoModules == {[main |-> Importer({"a"}, w, k), a |-> Imported(x)] :
                 w \in {"X", "Y"}, x \in AConsts, k \in MainConsts}

ThreeModules ==
  {[main |-> Importer({"a", "b"}, w, k), b |-> Importer({"a"}, v, y), a |-> Imported(x)] :
     v, w \in {"X", "Y"}, x \in AConsts, y \in BConsts, k \in MainConsts}

\* Resolution rejects names it does not find and declarations on a cycle.
NodeNames(p, m) == UNION {{y.expr[i].name : i \in {j \in DOMAIN y.expr : y.expr[j].kind = "name"}} :
                            y \in Declarations(p, m)}
Named(p) == \A m \in DOMAIN p :
              /\ Range(p[m].from) \subseteq All(p)
              /\ \A n \in NodeNames(p, m) : GetSymbol(p, m, n) \in All(p)

\* Expressions of a node of p, and the nodes they name.
NodeExprs(p, sf) ==
  LET y == DeclarationOf(p, Owner(sf))
  IN IF sf[3] = Whole THEN <<y.expr>> \o y.items ELSE <<y.fields[sf[3]].offset>>

Names(p, sf) ==
  UNION {{IF node.kind = "dot"
          THEN LET d == GetSymbol(p, sf[1], node.name)
               IN Node(d, FieldIndex(DeclarationOf(p, d), node.field))
          ELSE Node(GetSymbol(p, sf[1], node.name), Whole) :
            node \in {x \in ToSet(e) : x.kind \in {"name", "sizeof", "dot"}}} :
          e \in ToSet(NodeExprs(p, sf))}
  \cup (LET y == DeclarationOf(p, Owner(sf))
        IN IF y.kind = "data" /\ y.annot # Nil
           THEN {Node(GetSymbol(p, sf[1], y.annot), Whole)} ELSE {})

Acyclic(p) ==
  LET within[S \in SUBSET Nodes(p)] ==
        LET T == {sf \in S : Names(p, sf) \cap S # {}} IN IF T = S THEN S ELSE within[T]
  IN within[Nodes(p)] = {}

Resolved(p) == Named(p) /\ Acyclic(p)

-----------------------------------------------------------------------------
\* What the run leaves out, and section 4 of the README shows.

AllNodes(p, kind) == {sf \in Nodes(p) : \E e \in ToSet(NodeExprs(p, sf)) : \E x \in ToSet(e) : x.kind = kind}

\* A field is read in its module by anything but a later field of its struct.
FieldReadEarly(p) ==
  \E sf \in AllNodes(p, "dot") : \E f \in Names(p, sf) :
    f[3] # Whole /\ f[1] = sf[1] /\ ~(Owner(f) = Owner(sf) /\ f[3] < sf[3])

\* An offset computes with a constant, or is read and is one.
ConstantInOffset(p) ==
  \E sf \in AllNodes(p, "name") :
    /\ sf[3] # Whole
    /\ Len(NodeExprs(p, sf)[1]) > 1 \/ \E x \in Nodes(p) : sf \in Names(p, x)

\* What nodes name, and what those name.
Needs(p, S) ==
  LET within[n \in Nat] == IF n = 0 THEN S
                           ELSE within[n - 1] \cup UNION {Names(p, sf) : sf \in within[n - 1]}
  IN within[Cardinality(Nodes(p))]

\* An offset needs the size of its own struct.
OffsetNeedsSize(p) == \E sf \in Nodes(p) : sf[3] # Whole /\ Node(Owner(sf), Whole) \in Needs(p, {sf})

\* A struct with a size and a field without an offset.
OffsetMissing(p) ==
  \E d \in All(p) : LET y == DeclarationOf(p, d)
                    IN y.expr # NoExpr /\ \E i \in DOMAIN y.fields : y.fields[i].offset = NoExpr

\* An item of a blob names a constant.
ConstantInBlob(p) ==
  \E d \in All(p) : \E e \in ToSet(DeclarationOf(p, d).items) : \E x \in ToSet(e) : x.kind = "name"

\* A module refers to a symbol of another that refers to a third.
ImportComputed(p) ==
  \E sf \in Nodes(p) : \E r \in Names(p, sf) : r[1] # sf[1] /\ Names(p, r) # {}

Sound(p) == /\ ~FieldReadEarly(p) /\ ~ConstantInOffset(p) /\ ~OffsetNeedsSize(p)
            /\ ~OffsetMissing(p) /\ ~ConstantInBlob(p) /\ ~ImportComputed(p)

MCPrograms == {p \in OneModule \cup TwoModules \cup ThreeModules : Resolved(p) /\ Sound(p)}

ImportComputedPrograms == {p \in TwoModules : Resolved(p) /\ ImportComputed(p)}

OffsetNeedsSizePrograms == {p \in OneModule : Resolved(p) /\ OffsetNeedsSize(p)}

\* One program for each of the others; the menus have no division by zero.
Others(k, x, items) ==
  {Alone(<<Const("K", k), Const("L", One), Struct("S", x[1], x[2]), Blob("D", Nil, items)>>)}

Explicit(e) == <<<<Int32(16)>>, <<Field("X", "i8", <<Int32(4)>>), Field("Y", "i64", e)>>>>

FieldReadEarlyPrograms   == Others(<<Dot("S", "Y")>>, Explicit(One), <<One>>)
ConstantInOffsetPrograms == Others(One, Explicit(<<Id("L"), Int32(2), Op("+")>>), <<One>>)
OffsetMissingPrograms    == Others(One, Explicit(NoExpr), <<One>>)
DivisionByZeroPrograms   == Others(<<Int32(1), Int32(0), Op("/")>>, Explicit(One), <<One>>)
ConstantInBlobPrograms   == Others(One, Explicit(One), <<<<Id("L")>>>>)

=============================================================================

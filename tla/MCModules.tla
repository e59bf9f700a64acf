----------------------------- MODULE MCModules ------------------------------
(***************************************************************************)
(* Programs for Modules: every import graph over three modules, layered    *)
(* graphs over four, files that cannot be opened, and a program of two     *)
(* modules with every combination of exports, imports and declarations     *)
(* from menus that take every branch.                                      *)
(***************************************************************************)
EXTENDS Modules

File(couplings, symbols) ==
  [files |-> 1, parses |-> TRUE, couplings |-> couplings, symbols |-> symbols]

Same(n) == [name |-> n, as |-> n]
As(n, a) == [name |-> n, as |-> a]

Imports(items)  == [kind |-> "import", module |-> "", all |-> FALSE, items |-> items]
From(m, items)  == [kind |-> "from", module |-> m, all |-> FALSE, items |-> items]
FromAll(m)      == [kind |-> "from", module |-> m, all |-> TRUE, items |-> <<>>]
ExportsOf(items)  == [kind |-> "export", module |-> "", all |-> FALSE, items |-> items]
ExportsAll      == [kind |-> "export", module |-> "", all |-> TRUE, items |-> <<>>]
ImportsAll      == [kind |-> "import", module |-> "", all |-> TRUE, items |-> <<>>]

Symbol(kind, n, fields, rs) ==
  [kind |-> kind, name |-> n, fields |-> fields, refs |-> rs, fault |-> "ok"]
Const(n, rs)  == Symbol("const", n, 0, rs)
Proc(n)       == Symbol("proc", n, 0, <<>>)
Struct(n, k, rs) == Symbol("struct", n, k, rs)

Ref(via, to, part, from) == [from |-> from, via |-> via, to |-> to, part |-> part]
Value(n)  == Ref("value", n, 0, 0)

-----------------------------------------------------------------------------
\* Graphs.  A module imports the others in the order of a list.

Importing(list, wanted) ==
  LET chosen == SelectSeq(list, LAMBDA m : m \in wanted)
  IN IF chosen = <<>> THEN File(<<>>, <<>>)
     ELSE File(<<Imports([i \in DOMAIN chosen |-> Same(chosen[i])])>>, <<>>)

Three == <<"main", "a", "b">>

Graphs3 == {[m \in ToSet(Three) |-> Importing(Three, g[m])] :
              g \in [ToSet(Three) -> SUBSET ToSet(Three)]}

Four == <<"main", "a", "b", "c">>

Graphs4 ==
  {[main |-> Importing(Four, x), a |-> Importing(Four, y),
    b |-> Importing(Four, z), c |-> Importing(Four, back)] :
      x \in SUBSET {"a", "b", "c"}, y \in SUBSET {"b", "c"}, z \in SUBSET {"c"},
      back \in {{}, {"main"}, {"a"}, {"b"}}}

-----------------------------------------------------------------------------
\* Files and couplings.

Empty == File(<<>>, <<>>)

\* b cannot be opened, or there is no b.
Unopened ==
  {[main |-> File(<<Imports(<<Same("a")>>)>>, <<>>),
    a |-> File(<<From("b", <<>>)>>, <<>>),
    b |-> f] : f \in {[Empty EXCEPT !.files = 2], [Empty EXCEPT !.parses = FALSE]}}
  \cup {[main |-> File(<<Imports(<<Same("a")>>)>>, <<>>), a |-> File(<<From("b", <<>>)>>, <<>>)],
        [a |-> Empty]}

\* One module under several names.
Couplings2 ==
  {[main |-> File(cs, <<>>), a |-> Empty, c |-> Empty] : cs \in
     {<<ImportsAll>>, <<Imports(<<Same("a"), Same("a")>>)>>,
      <<Imports(<<Same("a"), As("a", "c")>>)>>,
      <<Imports(<<As("a", "c")>>), From("c", <<>>)>>,
      <<Imports(<<As("a", "c")>>), From("a", <<>>)>>,
      <<From("a", <<>>), Imports(<<Same("a")>>)>>}}

-----------------------------------------------------------------------------
\* Names.  a declares two constants and a struct.

ASymbols == <<Const("X", <<>>), Const("Y", <<Value("X")>>),
              Struct("S", 2, <<Ref("field", "S", 1, 2)>>)>>

AExports == {<<>>, <<ExportsAll>>, <<ExportsOf(<<Same("X"), Same("S")>>)>>,
             <<ExportsOf(<<As("X", "Z")>>)>>,
             <<ExportsOf(<<As("X", "Z"), As("Y", "X")>>)>>,
             <<ExportsOf(<<Same("X")>>), ExportsAll>>,
             <<ExportsOf(<<Same("U")>>)>>}

MainImports == {<<Imports(<<Same("a")>>)>>, <<Imports(<<As("a", "c")>>)>>,
                <<FromAll("a")>>, <<From("a", <<Same("X")>>)>>,
                <<From("a", <<As("X", "W")>>)>>, <<From("a", <<As("Z", "W")>>)>>,
                <<From("a", <<As("S", "W"), Same("S")>>)>>}

MainSymbols ==
  {<<>>,
   <<Const("X", <<>>)>>, <<Const("a", <<>>)>>, <<Const("K", <<>>), Proc("K")>>,
   <<Const("K", <<Value("W")>>)>>,
   <<Const("X", <<Value("W")>>)>>,
   <<Const("K", <<Value("K")>>)>>,
   <<Const("K", <<Value("L"), Value("L")>>), Const("L", <<Value("J")>>), Const("J", <<Value("L")>>)>>,
   <<Const("K", <<Value("L"), Value("J")>>), Const("L", <<Value("J")>>), Const("J", <<>>)>>,
   <<Const("K", <<Ref("external", "X", "a", 0), Ref("sizeofExternal", "S", "a", 0)>>)>>,
   <<Const("K", <<Ref("external", "S", "a", 0)>>)>>,
   <<Const("K", <<Ref("field", "S", 2, 0), Ref("sizeof", "S", 0, 0)>>)>>,
   <<Const("K", <<Ref("field", "S", 3, 0)>>)>>, <<Const("K", <<Ref("field", "K", 1, 0)>>)>>,
   <<Const("K", <<Ref("call", "K", 0, 0)>>)>>, <<Const("K", <<Ref("string", "K", 0, 0)>>)>>,
   <<Struct("S", 2, <<Ref("sizeof", "S", 0, 2)>>)>>,
   <<Struct("T", 2, <<Ref("field", "T", 1, 2), Ref("field", "T", 2, 1)>>)>>,
   <<Struct("T", 2, <<Ref("value", "K", 0, 0)>>), Const("K", <<Ref("field", "T", 1, 0)>>)>>,
   <<[Proc("K") EXCEPT !.fault = "InvalidFlag"]>>}

MainExports == {<<>>, <<ExportsAll>>, <<ExportsOf(<<Same("K")>>)>>,
                <<ExportsOf(<<Same("W"), Same("U")>>)>>}

Program2(imports, exports, symbols, aExports) ==
  [main |-> File(imports \o exports, symbols), a |-> File(aExports, ASymbols)]

Names == {Program2(i, <<>>, ss, e) : i \in MainImports, ss \in MainSymbols, e \in AExports}
           \cup {Program2(i, o, <<Const("K", <<>>)>>, e) :
                    i \in MainImports, o \in MainExports, e \in AExports}

\* b hands on a module it has imported under another name.
HandedOn == {[main |-> File(<<c>>, ss), a |-> File(<<ExportsAll>>, ASymbols),
              b |-> File(<<Imports(<<As("a", "q")>>), ExportsAll>>, <<Const("K", <<>>)>>)] :
               c \in {FromAll("b"), From("b", <<Same("q")>>), From("b", <<As("q", "r")>>)},
               ss \in {<<>>, <<Const("q", <<>>)>>, <<Const("L", <<Value("K"), Value("q")>>)>>}}

All == Graphs3 \cup Graphs4 \cup Unopened \cup Couplings2 \cup Names \cup HandedOn

-----------------------------------------------------------------------------
\* What the run leaves out, and section 4 of the README shows.

\* A constant that refers to one of the same name in another module.
UsesNamesake(p) ==
  \E m \in DOMAIN p : \E s \in ToSet(p[m].symbols) : \E r \in ToSet(s.refs) :
    r.via = "value" /\ \E d \in R!Meaning(p, m, r.to) : d[1] # m /\ d[2] = s.name

MCPrograms == {p \in All : ~ImportsRenamed(p) /\ ~UsesNamesake(p)}

Renamed == {p \in Names : ImportsRenamed(p)}
Namesakes == {p \in Names : UsesNamesake(p) /\ ~ImportsRenamed(p)}

=============================================================================

---------------------------- MODULE ImportRules ----------------------------
(***************************************************************************)
(* What imports and exports mean, without an order in which modules are    *)
(* loaded or names entered: which modules a program consists of, what each *)
(* name of a module stands for, and which programs are well formed.        *)
(* Programs are those of Modules.                                          *)
(***************************************************************************)
EXTENDS Naturals, Sequences, SequencesExt, FiniteSets, Graphs

Items(p, m, kind) ==
  {c \in ToSet(p[m].couplings) : c.kind = kind}

\* The names m gives to modules.
Aliases(p, m) ==
  UNION {ToSet(c.items) : c \in {d \in Items(p, m, "import") : ~d.all}}

Wanted(p, m) == {a.name : a \in Aliases(p, m)} \cup {c.module : c \in Items(p, m, "from")}

ImportGraph(p) == [node |-> DOMAIN p,
                   edge |-> {e \in (DOMAIN p) \X (DOMAIN p) : e[2] \in Wanted(p, e[1])}]

\* The nodes on the paths of G from S.
From(G, S) ==
  LET within[n \in Nat] == IF n = 0 THEN S
                           ELSE LET s == within[n - 1] IN s \cup AllSuccessors(G, s)
  IN within[Cardinality(G.node)]

OnCycle(G, n) == n \in From(G, Successors(G, n))

Reached(p, root) == From(ImportGraph(p), {root})

Cyclic(p, root) == \E m \in Reached(p, root) : OnCycle(ImportGraph(p), m)

Declared(p, m) == {d.name : d \in ToSet(p[m].symbols)}

\* The names that are m's to export.
Inner(p, m) == Declared(p, m) \cup {a.as : a \in Aliases(p, m)}

\* What m exports: pairs of the name others see and the name it has in m.
Exported(p, m) ==
  UNION {IF c.all THEN {[as |-> n, name |-> n] : n \in Inner(p, m)} ELSE ToSet(c.items) :
           c \in Items(p, m, "export")}

\* What a name of m stands for: a declaration, or a module m has imported.
Meaning(p, m, n) ==
  {<<m, x>> : x \in Inner(p, m) \cap {n}} \cup
  UNION {{<<c.module, e.name>> : e \in
            {x \in Exported(p, c.module) :
               IF c.all THEN x.as = n
               ELSE \E i \in ToSet(c.items) : i.as = n /\ i.name = x.as}} :
            c \in Items(p, m, "from")}

Kinds(p, d) == IF d[2] \in Declared(p, d[1])
               THEN {s.kind : s \in {t \in ToSet(p[d[1]].symbols) : t.name = d[2]}}
               ELSE {"module"}

FieldsOf(p, d) == UNION {1 .. s.fields : s \in {t \in ToSet(p[d[1]].symbols) : t.name = d[2]}}

-----------------------------------------------------------------------------
\* Well-formed programs.

Once(s) == \A i, j \in DOMAIN s : i # j => s[i] # s[j]

\* No two couplings of a kind bring the same name.
Together(p, m, kind, Names(_)) ==
  LET cs == SelectSeq(p[m].couplings, LAMBDA c : c.kind = kind)
  IN /\ \A i \in DOMAIN cs : ~cs[i].all => Once([k \in DOMAIN cs[i].items |-> cs[i].items[k].as])
     /\ \A i, j \in DOMAIN cs : i # j => Names(cs[i]) \cap Names(cs[j]) = {}

NamesOf(c) == {i.as : i \in ToSet(c.items)}

ImportedFrom(p, c) == IF c.all THEN {e.as : e \in Exported(p, c.module)} ELSE NamesOf(c)

\* Every module has one name in m.
ModulesNamedOnce(p, m) ==
  LET froms == SelectSeq(p[m].couplings, LAMBDA c : c.kind = "from")
  IN /\ \A c \in Items(p, m, "import") : ~c.all
     /\ Together(p, m, "import", NamesOf)
     /\ Once([i \in DOMAIN froms |-> froms[i].module])
     /\ \A c \in ToSet(froms) : c.module \notin {a.as : a \in Aliases(p, m)}

\* Every name of m is declared or imported once.
NamedOnce(p, m) ==
  LET aliases == {a.as : a \in Aliases(p, m)}
      imported == UNION {ImportedFrom(p, c) : c \in Items(p, m, "from")}
  IN /\ Once([i \in DOMAIN p[m].symbols |-> p[m].symbols[i].name])
     /\ Together(p, m, "from", LAMBDA c : ImportedFrom(p, c))
     /\ aliases \cap imported = {}
     /\ Declared(p, m) \cap (aliases \cup imported) = {}

ExportsDefined(p, m) ==
  /\ Together(p, m, "export", LAMBDA c : IF c.all THEN Inner(p, m) ELSE NamesOf(c))
  /\ \A e \in Exported(p, m) : e.name \in Inner(p, m)

ImportsExported(p, m) ==
  \A c \in Items(p, m, "from") : ~c.all =>
    \A i \in ToSet(c.items) : i.name \in {e.as : e \in Exported(p, c.module)}

\* A reference means something, and something an expression may use.
RefersTo(p, m, r) ==
  IF r.via \in {"external", "sizeofExternal"}
  THEN UNION {{<<d, e.name>> : e \in {x \in Exported(p, d) : x.as = r.to}} :
                d \in {a.name : a \in {b \in Aliases(p, m) : b.as = r.part}}
                      \cup {c.module : c \in {b \in Items(p, m, "from") : b.module = r.part}}}
  ELSE Meaning(p, m, r.to)

RefersWell(p, m, r) ==
  /\ r.via \notin {"call", "string"}
  /\ \E d \in RefersTo(p, m, r) :
       CASE r.via \in {"value", "external"} -> "const" \in Kinds(p, d)
         [] r.via = "field" -> "struct" \in Kinds(p, d) /\ r.part \in FieldsOf(p, d)
         [] OTHER -> TRUE

\* What the symbols and fields of m depend on in m.
UseGraph(p, m) ==
  LET nodes == UNION {{<<<<m, s.name>>, k>> : k \in 0 .. s.fields} : s \in ToSet(p[m].symbols)}
      depends(a, b) ==
        \E s \in ToSet(p[m].symbols) : \E r \in ToSet(s.refs) :
          /\ a = <<<<m, s.name>>, r.from>>
          /\ r.via \in {"value", "sizeof", "field"}
          /\ b[1] \in Meaning(p, m, r.to)
          /\ b[2] = IF r.via = "field" THEN r.part ELSE 0
  IN [node |-> nodes, edge |-> {e \in nodes \X nodes : depends(e[1], e[2])}]

WellDeclared(p, m) ==
  /\ \A s \in ToSet(p[m].symbols) :
       s.fault = "ok" /\ \A r \in ToSet(s.refs) : RefersWell(p, m, r)
  /\ \A x \in UseGraph(p, m).node : ~OnCycle(UseGraph(p, m), x)

\* The programs the compiler has to resolve; all others it has to reject.
WellFormed(p, root) ==
  /\ root \in DOMAIN p
  /\ \A m \in Reached(p, root) :
       p[m].files = 1 /\ p[m].parses /\ Wanted(p, m) \subseteq DOMAIN p
  /\ ~Cyclic(p, root)
  /\ \A m \in Reached(p, root) :
       /\ ModulesNamedOnce(p, m)
       /\ ImportsExported(p, m) /\ NamedOnce(p, m) /\ WellDeclared(p, m)
       /\ ExportsDefined(p, m)

=============================================================================

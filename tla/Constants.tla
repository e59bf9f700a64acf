----------------------------- MODULE Constants -----------------------------
(***************************************************************************)
(* The types and the numbers of constants, data and structs: createStruct- *)
(* Types and checkSymbol (typechecker/typechecker.go), evalSymbol          *)
(* (constexpr/constexpr.go).                                               *)
(*                                                                         *)
(* Both passes walk the modules, dependencies first, and in each module    *)
(* the table of its symbols; a symbol visits what it refers to before      *)
(* itself.  The tables are Go maps: their entries come in any order.  What *)
(* happens to one entry is a function of the state, and one step.          *)
(***************************************************************************)
EXTENDS ConstExpr

CONSTANTS
  Programs,     \* functions from module names to modules
  Root          \* the module given to the compiler

VARIABLES
  program,
  phase,        \* the pass that runs
  frames,       \* checkModule or evalModule that has not returned
  entered,      \* modules whose flag Visited is set
  s             \* what the passes have written into the tables: visited nodes,
                \* types of nodes and of the items of blobs, numbers of
                \* symbols, offsets of fields; and err, which ends the compiler

vars == <<program, phase, frames, entered, s>>

Y(d) == DeclarationOf(program, d)

With(st, e) == [st EXCEPT !.err = e]
Visited(st, sf) == [st EXCEPT !.visited = @ \cup {sf}]

-----------------------------------------------------------------------------
\* References, as resolution has linked them.

NodeRefs(m, node) ==
  CASE node.kind \in {"name", "sizeof"} -> <<Node(GetSymbol(program, m, node.name), Whole)>>
    [] node.kind = "dot" ->
         LET d == GetSymbol(program, m, node.name)
         IN <<Node(d, FieldIndex(Y(d), node.field))>>
    [] OTHER -> <<>>

ExprRefs(m, e) == FlattenSeq([i \in DOMAIN e |-> NodeRefs(m, e[i])])

\* resBlobExpr looks at the operands of the first item, not at the items.
BlobRefs(m, items) ==
  IF items = <<>> \/ Len(items[1]) = 1 THEN <<>> ELSE ExprRefs(m, items[1])

\* LinkField tells references apart by the name of the symbol and the part.
Linked(refs) ==
  FoldLeft(LAMBDA set, r : IF \E i \in DOMAIN set : set[i][2] = r[2] /\ set[i][3] = r[3]
                           THEN set ELSE Append(set, r), <<>>, refs)

Refs(sf) ==
  LET y == Y(Owner(sf)) m == sf[1]
      annotated == IF y.kind = "data" /\ y.annot # Nil
                   THEN <<Node(GetSymbol(program, m, y.annot), Whole)>> ELSE <<>>
  IN Linked(IF sf[3] # Whole THEN ExprRefs(m, y.fields[sf[3]].offset)
            ELSE annotated \o ExprRefs(m, y.expr) \o BlobRefs(m, y.items))

-----------------------------------------------------------------------------
\* Types.  m is the module whose names an expression is read with.

\* Resolution lets a name in an expression be that of a constant only.
LeafType(st, m, node) ==
  CASE node.kind = "name" -> Gives(st.types[Node(GetSymbol(program, m, node.name), Whole)])
    [] node.kind = "external" -> Gives(st.types[Node(<<node.module, node.name>>, Whole)])
    [] OTHER -> Gives("i32")

TypeIn(st, m, e) == CheckExpr(e, [i \in DOMAIN e |-> LeafType(st, m, e[i])])

\* checkExpr leaves its result in the node.
Typed(st, m, sf, e) ==
  LET t == TypeIn(st, m, e)
  IN IF st.err # Ok \/ e = NoExpr THEN st
     ELSE IF t.err # Ok THEN With(st, t.err) ELSE [st EXCEPT !.types[sf] = t.is]

CheckConst(st, m, sf) ==
  LET y == Y(Owner(sf))
      c == Typed(st, m, sf, y.expr)
  IN IF c.err # Ok THEN c
     ELSE IF c.types[sf] = Nil THEN With(c, Panic)
     ELSE IF y.annot # Nil /\ y.annot # c.types[sf] THEN With(c, "MismatchedAssignment")
     ELSE c

\* The items of a blob, against the fields of a well behaved struct.
CheckBlob(st, m, d) ==
  LET y == Y(d)
      ts == [i \in DOMAIN y.items |-> TypeIn(st, m, y.items[i])]
      bad == {i \in DOMAIN ts : ts[i].err # Ok}
      checked == [st EXCEPT !.itemTypes[d] = [i \in DOMAIN ts |-> ts[i].is]]
      fields == Y(GetSymbol(program, m, y.annot)).fields
      field(i) == fields[((i - 1) % Len(fields)) + 1].type
      unlike == {i \in DOMAIN ts : ts[i].is # field(i)}
  IN IF bad # {} THEN With(st, ts[CHOOSE i \in bad : \A j \in bad : i <= j].err)
     ELSE IF y.annot = Nil \/ ~WellBehaved(Y(GetSymbol(program, m, y.annot))) \/ unlike = {}
     THEN checked
     ELSE LET i == CHOOSE j \in unlike : \A k \in unlike : j <= k
          IN With(checked, IF ts[i].is = Nil THEN Panic ELSE "DoesntMatchBlobAnnot")

CheckData(st, m, sf) == CheckBlob(Typed(st, m, sf, Y(Owner(sf)).expr), m, Owner(sf))

\* The size and the offsets; the references of the fields have not been visited.
CheckStruct(st, m, sf) ==
  LET y == Y(Owner(sf))
  IN FoldLeft(LAMBDA c, i : Typed(c, m, Node(Owner(sf), i), y.fields[i].offset),
              Typed(st, m, sf, y.expr), [i \in DOMAIN y.fields |-> i])

CheckField(st, m, sf) ==
  LET e == Y(Owner(sf)).fields[sf[3]].offset
      c == Typed(st, m, sf, e)
  IN IF c.err # Ok \/ e = NoExpr \/ c.types[sf] \in Integers THEN c
     ELSE With(c, IF c.types[sf] = Nil THEN Panic ELSE "ExpectedInteger")

RECURSIVE CheckSymbol(_, _, _)
CheckSymbol(st, m, sf) ==
  IF st.err # Ok \/ sf \in st.visited THEN st
  ELSE LET c == FoldLeft(LAMBDA x, r : CheckSymbol(x, m, r), Visited(st, sf), Refs(sf))
           kind == Y(Owner(sf)).kind
       IN IF c.err # Ok THEN c
          ELSE IF sf[3] # Whole THEN CheckField(c, m, sf)
          ELSE CASE kind = "const" -> CheckConst(c, m, sf)
                 [] kind = "data" -> CheckData(c, m, sf)
                 [] kind = "struct" -> CheckStruct(c, m, sf)

-----------------------------------------------------------------------------
\* Numbers.

LeafNumber(st, m, node) ==
  LET d == GetSymbol(program, m, node.name)
      x == <<node.module, node.name>>
  IN CASE node.kind = "name" ->
            IF d = Nil \/ Y(d).kind # "const" THEN Wrong(Panic) ELSE Gives(st.numbers[d])
       [] node.kind = "sizeof" -> IF d = Nil THEN Wrong(Panic) ELSE Gives(st.numbers[d])
       [] node.kind \in {"external", "sizeofExternal"} -> Gives(st.numbers[x])
       [] node.kind = "sizeofField" -> Gives(FieldSize(program, m, node.name, node.field))
       [] node.kind = "dot" -> IF d = Nil THEN Wrong(Panic)
                               ELSE Gives(st.offsets[Node(d, FieldIndex(Y(d), node.field))])
       [] OTHER -> Gives(Nil)

NumberIn(st, m, e) == ComputeExpr(e, [i \in DOMAIN e |-> LeafNumber(st, m, e[i])])

\* Mutant of Compute: the last number of a type is taken for one too many.
ComputeBelow(st, m, e, t) ==
  LET n == NumberIn(st, m, e)
  IN IF e = NoExpr \/ t = Nil THEN Wrong(Panic)
     ELSE IF n.err # Ok THEN n
     ELSE IF n.is = Nil THEN Wrong("InternalError")
     ELSE IF InRange(n.is, t) /\ n.is # MinMax(t)[2] THEN n ELSE Wrong("ValueOutOfBounds")

\* A number must be one of its expression's type.
Compute(st, m, e, t) ==
  LET n == NumberIn(st, m, e)
  IN IF e = NoExpr \/ t = Nil THEN Wrong(Panic)
     ELSE IF n.err # Ok THEN n
     ELSE IF n.is = Nil THEN Wrong("InternalError")
     ELSE IF InRange(n.is, t) THEN n ELSE Wrong("ValueOutOfBounds")

Numbered(st, d, n) ==
  IF n.err # Ok THEN With(st, n.err) ELSE [st EXCEPT !.numbers[d] = n.is]

EvalConst(st, m, d) == Numbered(st, d, Compute(st, m, Y(d).expr, st.types[Node(d, Whole)]))

EvalBlob(st, m, d) ==
  LET y == Y(d)
      ns == [i \in DOMAIN y.items |-> Compute(st, m, y.items[i], st.itemTypes[d][i])]
      bad == {i \in DOMAIN ns : ns[i].err # Ok}
  IN IF bad # {} THEN With(st, ns[CHOOSE i \in bad : \A j \in bad : i <= j].err)
     ELSE [st EXCEPT !.numbers[d] = Sum([i \in DOMAIN y.items |-> Size(st.itemTypes[d][i])])]

\* Data of a struct type is as large as so many structs.
EvalData(st, m, d) ==
  LET y == Y(d)
      struct == IF y.annot = Nil THEN Nil ELSE st.numbers[GetSymbol(program, m, y.annot)]
      n == Compute(st, m, y.expr, st.types[Node(d, Whole)])
  IN IF y.items # <<>> THEN EvalBlob(st, m, d)
     ELSE IF y.expr = NoExpr THEN [st EXCEPT !.numbers[d] = struct]
     ELSE IF n.err # Ok \/ y.annot = Nil THEN Numbered(st, d, n)
     ELSE IF struct = Nil THEN With(st, Panic)
     ELSE [st EXCEPT !.numbers[d] = n.is * struct]

\* Mutant of Layout: a field begins where it ends.
LayoutPast(st, d) ==
  LET y == Y(d)
  IN [st EXCEPT !.numbers[d] = SizesBefore(y, Len(y.fields) + 1),
                !.offsets = [sf \in DOMAIN @ |-> IF Owner(sf) = d /\ sf[3] # Whole
                                                 THEN SizesBefore(y, sf[3] + 1) ELSE @[sf]]]

Layout(st, d) ==
  LET y == Y(d)
  IN [st EXCEPT !.numbers[d] = SizesBefore(y, Len(y.fields) + 1),
                !.offsets = [sf \in DOMAIN @ |-> IF Owner(sf) = d /\ sf[3] # Whole
                                                 THEN SizesBefore(y, sf[3]) ELSE @[sf]]]

RECURSIVE EvalSymbol(_, _, _)

EvalRefs(st, m, refs) == FoldLeft(LAMBDA x, r : EvalSymbol(x, m, r), st, refs)

\* A field somebody has visited is passed over, whether or not it has an offset.
EvalOffset(st, m, sf) ==
  IF st.err # Ok \/ sf \in st.visited THEN st
  ELSE LET e == EvalRefs(st, m, Refs(sf))
           n == NumberIn(e, m, Y(Owner(sf)).fields[sf[3]].offset)
       IN IF e.err # Ok THEN e
          ELSE IF n.err # Ok THEN With(e, n.err) ELSE [e EXCEPT !.offsets[sf] = n.is]

EvalStruct(st, m, d) ==
  IF WellBehaved(Y(d)) THEN Layout(st, d)
  ELSE FoldLeft(LAMBDA e, i : EvalOffset(e, m, Node(d, i)),
                Numbered(st, d, NumberIn(st, m, Y(d).expr)), [i \in DOMAIN Y(d).fields |-> i])

EvalSymbol(st, m, sf) ==
  IF st.err # Ok \/ sf \in st.visited THEN st
  ELSE LET d == Owner(sf)
           e == EvalRefs(Visited(st, sf), m, Refs(sf))
           own == IF sf[3] = Whole THEN Ok
                  ELSE Compute(e, m, Y(d).fields[sf[3]].offset, e.types[sf]).err
       IN IF e.err # Ok THEN e
          ELSE IF own # Ok THEN With(e, own)
          ELSE CASE Y(d).kind = "const" -> EvalConst(e, m, d)
                 [] Y(d).kind = "data" -> EvalData(e, m, d)
                 [] Y(d).kind = "struct" -> EvalStruct(e, m, d)

-----------------------------------------------------------------------------
\* Flags.  They are of the symbol, whatever module reaches it.

RECURSIVE ResetVisited(_, _)
ResetVisited(visited, d) ==
  LET fields == {sf \in visited : Owner(sf) = d /\ sf[3] # Whole}
      own == {sf \in visited : Owner(sf) = d}
      refs == Refs(Node(d, Whole)) \o FlattenSeq([i \in DOMAIN Y(d).fields |->
                IF Node(d, i) \in fields THEN Refs(Node(d, i)) ELSE <<>>])
  IN IF Node(d, Whole) \notin visited THEN visited
     ELSE FoldLeft(LAMBDA v, r : ResetVisited(v, Owner(r)), visited \ own, refs)

Symbols(m) == {<<m, y.name>> : y \in Declarations(program, m)}

\* Mutant of ResetSymbols: a symbol whose flag is taken back loses its number.
ForgetSymbols(st, m) ==
  LET visited == FoldLeft(LAMBDA v, d : ResetVisited(v, d), st.visited, SetToSeq(Symbols(m)))
  IN [st EXCEPT !.visited = visited,
                !.numbers = [d \in DOMAIN @ |-> IF Node(d, Whole) \in st.visited \ visited
                                                THEN Nil ELSE @[d]]]

ResetSymbols(st, m) ==
  [st EXCEPT !.visited = FoldLeft(LAMBDA v, d : ResetVisited(v, d), @, SetToSeq(Symbols(m)))]

-----------------------------------------------------------------------------
\* The walk over modules and their tables.

Frame(m) == [module |-> m, stage |-> "dependencies", todo |-> program[m].deps]

Top == frames[Len(frames)]
Advanced(frame) == [frames EXCEPT ![Len(frames)] = frame]

Walking == phase \in {"types", "numbers"}

\* After the loops of createInternalStructs every struct has its type.
CreateStructTypes ==
  /\ phase = "structs"
  /\ IF \E d \in All(program) : Y(d).kind = "struct" /\ ~WellBehaved(Y(d)) /\ Y(d).expr = NoExpr
     THEN s' = With(s, "InvalidStructDecl") /\ phase' = "failed" /\ UNCHANGED <<frames, entered>>
     ELSE phase' = "types" /\ frames' = <<Frame(Root)>> /\ entered' = {Root} /\ UNCHANGED s
  /\ UNCHANGED program

EnterDependency ==
  /\ Walking /\ Top.stage = "dependencies"
  /\ \E m \in Top.todo :
       LET rest == Advanced([Top EXCEPT !.todo = @ \ {m}])
       IN frames' = (IF m \in entered THEN rest ELSE Append(rest, Frame(m)))
          /\ entered' = entered \cup {m}
  /\ UNCHANGED <<program, phase, s>>

\* The second pass takes the flags of the first one back.
StartSymbols ==
  /\ Walking /\ Top.stage = "dependencies" /\ Top.todo = {}
  /\ frames' = Advanced([Top EXCEPT !.stage = "symbols", !.todo = Symbols(Top.module)])
  /\ s' = IF phase = "types" THEN s ELSE ResetSymbols(s, Top.module)
  /\ UNCHANGED <<program, phase, entered>>

VisitSymbol ==
  /\ Walking /\ Top.stage = "symbols"
  /\ \E d \in Top.todo :
       /\ s' = IF phase = "types" THEN CheckSymbol(s, Top.module, Node(d, Whole))
               ELSE EvalSymbol(s, Top.module, Node(d, Whole))
       /\ frames' = Advanced([Top EXCEPT !.todo = @ \ {d}])
  /\ phase' = IF s'.err = Ok THEN phase ELSE "failed"
  /\ UNCHANGED <<program, entered>>

LeaveModule ==
  /\ Walking /\ Top.stage = "symbols" /\ Top.todo = {}
  /\ IF Len(frames) > 1
     THEN frames' = Front(frames) /\ UNCHANGED <<phase, entered>>
     ELSE IF phase = "types"
     THEN phase' = "numbers" /\ frames' = <<Frame(Root)>> /\ entered' = {Root}
     ELSE phase' = "done" /\ frames' = <<>> /\ UNCHANGED entered
  /\ UNCHANGED <<program, s>>

Ended == phase \in {"done", "failed"} /\ UNCHANGED vars

Init ==
  /\ program \in Programs
  /\ phase = "structs" /\ frames = <<>> /\ entered = {}
  /\ s = [visited |-> {},
          types |-> [sf \in Nodes(program) |-> Nil],
          itemTypes |-> [d \in All(program) |-> <<>>],
          numbers |-> [d \in All(program) |-> Nil],
          offsets |-> [sf \in Nodes(program) |-> Nil],
          err |-> Ok]

Next == CreateStructTypes \/ EnterDependency \/ StartSymbols \/ VisitSymbol \/ LeaveModule \/ Ended

Spec == Init /\ [][Next]_vars

-----------------------------------------------------------------------------
\* Properties.

R == INSTANCE ConstantRules

OnFrames == {frames[i].module : i \in DOMAIN frames}

\* Every table keeps its type; the walk is on a path of imports.
TypeOK ==
  /\ phase \in {"structs", "types", "numbers", "done", "failed"}
  /\ (s.err # Ok) = (phase = "failed")
  /\ s.visited \subseteq Nodes(program)
  /\ \A d \in All(program) : s.numbers[d] = Nil \/ s.numbers[d] \in Int
  /\ \A i \in 1 .. Len(frames) - 1 :
       /\ frames[i].stage = "dependencies"
       /\ frames[i + 1].module \in program[frames[i].module].deps
  /\ OnFrames \subseteq entered

\* The modules that the pass has finished.
Left(pass) == IF phase = pass THEN entered \ OnFrames ELSE {}

\* In a module the type checker has left, and in all modules from then on, every
\* constant has the type its declaration gives it in the module it stands in.
TypesMean ==
  \A d \in All(program) :
    Y(d).kind = "const" /\ (d[1] \in Left("types") \/ phase \in {"numbers", "done"}) =>
      s.types[Node(d, Whole)] = R!TypeOf(program, d).is

\* In a module that evaluation has left, every constant and size and every offset is
\* the number its declaration means, in any order of the tables; and stays so
\* while importers visit it again.
NumbersMean ==
  \A d \in All(program) :
    d[1] \in Left("numbers") \/ phase = "done" =>
      /\ s.numbers[d] = R!SizeOrNumber(program, d)
      /\ \A i \in DOMAIN Y(d).fields : s.offsets[Node(d, i)] = R!OffsetOf(program, d, i)

\* The compiler accepts a program if and only if nothing is wrong with it, and reports
\* something that is; it never fails on a number it has not computed yet.
Verdict ==
  /\ phase = "done" => R!Faults(program) = {}
  /\ phase = "failed" => s.err \in R!Faults(program)

\* A number that a later pass or another symbol may have read never changes.
Settled ==
  [][\A d \in All(program) : s.numbers[d] # Nil => s'.numbers[d] = s.numbers[d]]_vars

\* Every symbol that a pass has left has the type, number, size and offsets its
\* declaration means.
TablesMean == TypeOK /\ TypesMean /\ NumbersMean

=============================================================================

--------------------------- MODULE ConstantRules ---------------------------
(***************************************************************************)
(* What the declarations of a program mean, without an order in which they *)
(* are visited: the type and the number of a constant, the size of data,   *)
(* the size of a struct and the offsets of its fields, each read in the    *)
(* module that declares it; and what is wrong with a program.  Programs    *)
(* have no cyclic declarations.                                            *)
(***************************************************************************)
EXTENDS ConstExpr

RECURSIVE TypeOf(_, _)

\* The type of a node of an expression of m.
NodeType(p, m, node) ==
  CASE node.kind = "name" -> TypeOf(p, GetSymbol(p, m, node.name))
    [] node.kind = "external" -> TypeOf(p, <<node.module, node.name>>)
    [] OTHER -> Gives("i32")

ExprType(p, m, e) == CheckExpr(e, [i \in DOMAIN e |-> NodeType(p, m, e[i])])

TypeOf(p, d) == ExprType(p, d[1], DeclarationOf(p, d).expr)

-----------------------------------------------------------------------------
RECURSIVE SizeOrNumber(_, _)
RECURSIVE OffsetOf(_, _, _)

NodeNumber(p, m, node) ==
  CASE node.kind \in {"name", "sizeof"} -> Gives(SizeOrNumber(p, GetSymbol(p, m, node.name)))
    [] node.kind \in {"external", "sizeofExternal"} ->
         Gives(SizeOrNumber(p, <<node.module, node.name>>))
    [] node.kind = "sizeofField" -> Gives(FieldSize(p, m, node.name, node.field))
    [] node.kind = "dot" ->
         LET d == GetSymbol(p, m, node.name)
         IN Gives(OffsetOf(p, d, FieldIndex(DeclarationOf(p, d), node.field)))
    [] OTHER -> Gives(Nil)

\* The number of an expression of m.  Nil if it has none.
ExprNumber(p, m, e) == ComputeExpr(e, [i \in DOMAIN e |-> NodeNumber(p, m, e[i])]).is

OffsetOf(p, d, i) ==
  LET y == DeclarationOf(p, d)
  IN IF WellBehaved(y) THEN SizesBefore(y, i) ELSE ExprNumber(p, d[1], y.fields[i].offset)

ItemType(p, d, i) == ExprType(p, d[1], DeclarationOf(p, d).items[i])
ItemNumber(p, d, i) == ExprNumber(p, d[1], DeclarationOf(p, d).items[i])

\* The number of a constant, the size of data or of a struct.
SizeOrNumber(p, d) ==
  LET y == DeclarationOf(p, d)
      struct == GetSymbol(p, d[1], y.annot)
  IN CASE y.kind = "const" -> ExprNumber(p, d[1], y.expr)
       [] y.kind = "struct" -> IF WellBehaved(y) THEN SizesBefore(y, Len(y.fields) + 1)
                               ELSE ExprNumber(p, d[1], y.expr)
       [] y.kind = "data" /\ y.items # <<>> ->
            Sum([i \in DOMAIN y.items |-> Size(ItemType(p, d, i).is)])
       [] y.kind = "data" /\ y.expr = NoExpr -> SizeOrNumber(p, struct)
       [] y.kind = "data" /\ y.annot = Nil -> ExprNumber(p, d[1], y.expr)
       [] OTHER -> ExprNumber(p, d[1], y.expr) * SizeOrNumber(p, struct)

-----------------------------------------------------------------------------
\* What is wrong with a program.

\* The expressions with a type of their own, and the module they are read in.
Exprs(p) ==
  UNION {LET y == DeclarationOf(p, d)
         IN {<<d[1], y.expr>>}
              \cup {<<d[1], y.fields[i].offset>> : i \in DOMAIN y.fields}
              \cup {<<d[1], y.items[i]>> : i \in DOMAIN y.items} : d \in All(p)}
    \ {<<m, NoExpr>> : m \in DOMAIN p}

\* The expressions whose numbers must be numbers of their types.
Ranged(p) ==
  UNION {LET y == DeclarationOf(p, d)
         IN IF y.kind = "struct" THEN {}
            ELSE {<<d[1], y.expr>>} \cup {<<d[1], y.items[i]>> : i \in DOMAIN y.items} : d \in All(p)}
    \ {<<m, NoExpr>> : m \in DOMAIN p}

ItemsFit(p, d) ==
  LET y == DeclarationOf(p, d)
      struct == DeclarationOf(p, GetSymbol(p, d[1], y.annot))
  IN y.items = <<>> \/ y.annot = Nil \/ ~WellBehaved(struct)
     \/ \A i \in DOMAIN y.items :
          ItemType(p, d, i).is = struct.fields[((i - 1) % Len(struct.fields)) + 1].type

TypeFaults(p) ==
  ({ExprType(p, x[1], x[2]).err : x \in Exprs(p)} \ {Ok})
    \cup {"MismatchedAssignment" : d \in {c \in All(p) :
            LET y == DeclarationOf(p, c)
            IN y.kind = "const" /\ y.annot # Nil /\ TypeOf(p, c) # Gives(y.annot)}}
    \cup {"DoesntMatchBlobAnnot" : d \in {c \in All(p) : ~ItemsFit(p, c)}}

NumberFaults(p) ==
  {"ValueOutOfBounds" : x \in {y \in Ranged(p) :
     LET n == ExprNumber(p, y[1], y[2])
     IN n = Nil \/ ~InRange(n, ExprType(p, y[1], y[2]).is)}}

\* A struct without a size whose layout is not the compiler's to make.
StructFaults(p) ==
  {"InvalidStructDecl" : d \in {c \in All(p) :
     LET y == DeclarationOf(p, c) IN y.kind = "struct" /\ ~WellBehaved(y) /\ y.expr = NoExpr}}

\* The errors the compiler may report, of the first kind there is.
Faults(p) ==
  IF StructFaults(p) # {} THEN StructFaults(p)
  ELSE IF TypeFaults(p) # {} THEN TypeFaults(p) ELSE NumberFaults(p)

=============================================================================

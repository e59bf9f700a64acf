----------------------------- MODULE ConstExpr ------------------------------
(***************************************************************************)
(* Constant expressions and the declarations they stand in: what an        *)
(* operator does with types (typechecker.go) and with numbers              *)
(* (constexpr.go).                                                         *)
(*                                                                         *)
(* An expression is the sequence of its nodes in the order in which        *)
(* checkExpr and computeExpr leave them; its value is computed on a stack. *)
(* What a name stands for is for the modules that extend this one to say.  *)
(***************************************************************************)
EXTENDS Integers, Sequences, SequencesExt, FiniteSets

CONSTANTS
  ByteBits,     \* bits in a byte
  Nil           \* a Go nil: no type, no number

ASSUME BitsInAByte == ByteBits \in Nat \ {0}

Ok == "ok"
Panic == "panic"

\* The nodes.
Lit(v, t)         == [kind |-> "literal", value |-> v, type |-> t]
Id(n)             == [kind |-> "name", name |-> n]
Ext(m, n)         == [kind |-> "external", module |-> m, name |-> n]
Sizeof(n)         == [kind |-> "sizeof", name |-> n]
SizeofExt(m, n)   == [kind |-> "sizeofExternal", module |-> m, name |-> n]
SizeofType(t)     == [kind |-> "sizeofType", type |-> t]
SizeofField(n, f) == [kind |-> "sizeofField", name |-> n, field |-> f]
Dot(n, f)         == [kind |-> "dot", name |-> n, field |-> f]
Op(o)             == [kind |-> "binary", op |-> o]
Neg               == [kind |-> "negate"]
Not               == [kind |-> "not"]
To(t)             == [kind |-> "convert", type |-> t]

NoExpr == <<>>

-----------------------------------------------------------------------------
\* Types.

Integers == {"i8", "i16", "i32", "i64", "u8", "u16", "u32", "u64"}

Size(t) == CASE t \in {"bool", "i8", "u8"} -> 1
             [] t \in {"i16", "u16"} -> 2
             [] t \in {"i32", "u32"} -> 4
             [] OTHER -> 8

Bits(t) == ByteBits * Size(t)

MinMax(t) ==
  CASE t = "bool" -> <<0, 1>>
    [] t \in {"i8", "i16", "i32", "i64"} -> <<-(2^(Bits(t) - 1)), 2^(Bits(t) - 1) - 1>>
    [] OTHER -> <<0, 2^Bits(t) - 1>>

InRange(v, t) == MinMax(t)[1] <= v /\ v <= MinMax(t)[2]

\* A conversion takes the nearest number of the type.
Clamp(v, t) == LET lo == MinMax(t)[1] hi == MinMax(t)[2]
               IN IF v < lo THEN lo ELSE IF v > hi THEN hi ELSE v

Comparisons == {"==", "!=", "<", "<=", ">", ">="}

\* What checkAdd, checkSub and binaryOp find wrong with operands of two types.
OperandFault(o, a, b) ==
  CASE a = Nil \/ b = Nil -> "InvalidType"
    [] o = "+" /\ "ptr" \in {a, b} -> IF {a, b} \cap Integers = {} THEN "InvalidTypeForExpr" ELSE Ok
    [] o = "-" /\ a = "ptr" -> IF b \notin Integers THEN "InvalidTypeForExpr" ELSE Ok
    [] o \notin Comparisons /\ {a, b} \ Integers # {} -> "InvalidTypeForExpr"
    [] OTHER -> IF a # b THEN "OperationBetweenUnequalTypes" ELSE Ok

ResultType(o, a, b) ==
  IF o \in Comparisons THEN "bool" ELSE IF o = "+" /\ b = "ptr" THEN b ELSE a

-----------------------------------------------------------------------------
\* Numbers.  A *big.Int has no width.

Truth(b) == IF b THEN 1 ELSE 0

\* Int.Div rounds so that the remainder is not negative.
Quotient(a, b) == IF b > 0 THEN a \div b ELSE -(a \div (-b))

\* Int.Rem has the sign of the first operand.
Remainder(a, b) ==
  LET abs(x) == IF x < 0 THEN -x ELSE x
  IN IF a < 0 THEN -(abs(a) % abs(b)) ELSE a % abs(b)

NumberFault(o, a, b) ==
  CASE a = Nil \/ b = Nil -> Panic
    [] o \in {"/", "%"} /\ b = 0 -> Panic
    [] o \in {"<<", ">>"} /\ b < 0 -> "ValueOutOfBounds"
    [] OTHER -> Ok

Number(o, a, b) ==
  CASE o = "+"  -> a + b
    [] o = "-"  -> a - b
    [] o = "*"  -> a * b
    [] o = "/"  -> Quotient(a, b)
    [] o = "%"  -> Remainder(a, b)
    [] o = "<<" -> a * 2^b
    [] o = ">>" -> a \div 2^b
    [] o = "==" -> Truth(a = b)
    [] o = "!=" -> Truth(a # b)
    [] o = "<"  -> Truth(a < b)
    [] o = "<=" -> Truth(a <= b)
    [] o = ">"  -> Truth(a > b)
    [] o = ">=" -> Truth(a >= b)

-----------------------------------------------------------------------------
\* Walking an expression.  What a name in it stands for is a leaf: a record of
\* what it gives and what is wrong with it.

Gives(x) == [is |-> x, err |-> Ok]
Wrong(e) == [is |-> Nil, err |-> e]

Binary(r, fault, result(_, _)) ==
  LET n == Len(r.stack) a == r.stack[n - 1] b == r.stack[n]
  IN IF fault # Ok THEN [r EXCEPT !.err = fault]
     ELSE [r EXCEPT !.stack = Append(SubSeq(@, 1, n - 2), result(a, b))]

Unary(r, fault, x) ==
  IF fault # Ok THEN [r EXCEPT !.err = fault]
  ELSE [r EXCEPT !.stack = Append(Front(@), x)]

Leafed(r, leaf) == [stack |-> Append(r.stack, leaf.is), err |-> leaf.err]

CheckNode(r, node, leaf) ==
  LET n == Len(r.stack)
  IN IF r.err # Ok THEN r
     ELSE CASE node.kind = "binary" ->
                 Binary(r, OperandFault(node.op, r.stack[n - 1], r.stack[n]),
                        LAMBDA a, b : ResultType(node.op, a, b))
            [] node.kind = "negate" ->
                 Unary(r, IF r.stack[n] = Nil THEN "InvalidType"
                          ELSE IF r.stack[n] \notin Integers THEN "InvalidTypeForExpr" ELSE Ok,
                       r.stack[n])
            [] node.kind = "not" ->
                 Unary(r, IF r.stack[n] = Nil THEN "InvalidType"
                          ELSE IF r.stack[n] # "bool" THEN "InvalidTypeForExpr" ELSE Ok, "bool")
            [] node.kind = "convert" -> Unary(r, Ok, node.type)
            [] node.kind = "literal" -> Leafed(r, Gives(node.type))
            [] OTHER -> Leafed(r, leaf)

ComputeNode(r, node, leaf) ==
  LET n == Len(r.stack)
      nilPanics == IF n > 0 /\ r.stack[n] = Nil THEN Panic ELSE Ok
  IN IF r.err # Ok THEN r
     ELSE CASE node.kind = "binary" ->
                 Binary(r, NumberFault(node.op, r.stack[n - 1], r.stack[n]),
                        LAMBDA a, b : Number(node.op, a, b))
            [] node.kind = "negate" ->
                 Unary(r, nilPanics, IF nilPanics = Ok THEN -r.stack[n] ELSE Nil)
            [] node.kind = "not" ->
                 Unary(r, IF n > 0 /\ r.stack[n] \in {0, 1} THEN Ok ELSE Panic, Truth(r.stack[n] = 0))
            [] node.kind = "convert" ->
                 Unary(r, nilPanics, IF nilPanics = Ok THEN Clamp(r.stack[n], node.type) ELSE Nil)
            [] node.kind = "literal" -> Leafed(r, Gives(node.value))
            [] node.kind = "sizeofType" -> Leafed(r, Gives(Size(node.type)))
            [] OTHER -> Leafed(r, leaf)

Walked(r) == IF r.err # Ok THEN Wrong(r.err) ELSE Gives(Last(r.stack))

NotWalked == [stack |-> <<>>, err |-> Ok]

\* leaves has one for every node; those of operators and literals are not read.
CheckExpr(e, leaves) ==
  Walked(FoldLeft(LAMBDA r, i : CheckNode(r, e[i], leaves[i]), NotWalked, [i \in DOMAIN e |-> i]))

\* computeExpr reads the kind of its node before anything else.
ComputeExpr(e, leaves) ==
  IF e = NoExpr THEN Wrong(Panic)
  ELSE Walked(FoldLeft(LAMBDA r, i : ComputeNode(r, e[i], leaves[i]), NotWalked, [i \in DOMAIN e |-> i]))

-----------------------------------------------------------------------------
\* Declarations.  A module is a record: the modules it depends on, the names
\* it imports with the declarations they stand for, and its own declarations.

Declaration(k, n, annot, e, items, fields) ==
  [kind |-> k, name |-> n, annot |-> annot, expr |-> e, items |-> items, fields |-> fields]

Declarations(p, m) == ToSet(p[m].symbols)

DeclarationOf(p, d) == CHOOSE y \in Declarations(p, d[1]) : y.name = d[2]

All(p) == UNION {{<<m, y.name>> : y \in Declarations(p, m)} : m \in DOMAIN p}

\* The symbol itself and the fields of a struct: a SyField.
Whole == 0
Node(d, part) == <<d[1], d[2], part>>
Owner(sf) == <<sf[1], sf[2]>>

Nodes(p) == UNION {{Node(d, i) : i \in {Whole} \cup DOMAIN DeclarationOf(p, d).fields} : d \in All(p)}

\* GetSymbol, after resolution has found every name.
GetSymbol(p, m, n) ==
  IF <<m, n>> \in All(p) THEN <<m, n>>
  ELSE IF n \in DOMAIN p[m].from THEN p[m].from[n] ELSE Nil

FieldIndex(y, f) == CHOOSE i \in DOMAIN y.fields : y.fields[i].name = f

\* A struct of basic fields without any offset, whose layout the compiler makes.
WellBehaved(y) ==
  y.expr = NoExpr /\ \A i \in DOMAIN y.fields : y.fields[i].offset = NoExpr /\ y.fields[i].type # "void"

FieldSize(p, m, n, f) ==
  LET y == DeclarationOf(p, GetSymbol(p, m, n)) IN Size(y.fields[FieldIndex(y, f)].type)

Sum(s) == FoldLeft(LAMBDA a, b : a + b, 0, s)

SizesBefore(y, k) == Sum([i \in 1 .. k - 1 |-> Size(y.fields[i].type)])

=============================================================================

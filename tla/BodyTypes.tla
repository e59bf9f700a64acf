----------------------------- MODULE BodyTypes ------------------------------
(***************************************************************************)
(* The type checker on bodies of procedures (typechecker.go).  A node gets *)
(* a type, or is marked as a call with several results, and then its type  *)
(* stays nil.  Checks are made in the code's order: an error ends them, a  *)
(* method on a nil type panics.                                            *)
(***************************************************************************)
EXTENDS BodySyntax

\* What checkExpr leaves of a node.
Is(t)    == [type |-> t, multi |-> FALSE, fault |-> Ok]
Multi    == [type |-> Nil, multi |-> TRUE, fault |-> Ok]
Fails(f) == [type |-> Nil, multi |-> FALSE, fault |-> f]

First(faults) == LET bad == SelectSeq(faults, LAMBDA f : f # Ok)
                 IN IF bad = <<>> THEN Ok ELSE Head(bad)

Test(good) == IF good THEN Ok ELSE Error

\* A test of a type that calls a method of it.
TestOf(t, good) == IF t = Nil THEN Panic ELSE Test(good)

Equal(r, t) == TestOf(r.type, r.type = t)

Typed(fault, t) == IF fault = Ok THEN Is(t) ELSE Fails(fault)

-----------------------------------------------------------------------------
\* Expressions.

CheckExprType(r) == Test(~r.multi /\ r.type \notin {Nil, "void"})

\* checkAdd, checkSub and binaryOp, on operands that have a type.
Operands(o, s, t) ==
  CASE o = "+" /\ IsPtr(s) -> IsInteger(t)
    [] o = "+" /\ ~IsPtr(s) /\ IsPtr(t) -> IsInteger(s)
    [] o = "-" /\ IsPtr(s) -> IsInteger(t)
    [] o \in {"==", "!="} -> IsBasicOrProc(s) /\ s = t
    [] o \in Comparisons \ {"==", "!="} -> IsBasic(s) /\ s = t
    [] o \in {"and", "or"} -> IsBool(s) /\ s = t
    [] OTHER -> IsInteger(s) /\ s = t

Out(o, s, t) == CASE o \in Comparisons \cup {"and", "or"} -> "bool"
                  [] o = "+" /\ ~IsPtr(s) /\ IsPtr(t) -> t
                  [] OTHER -> s

CheckBinary(o, a, b) ==
  Typed(First(<<a.fault, b.fault, CheckExprType(a), CheckExprType(b),
                Test(Operands(o, a.type, b.type))>>), Out(o, a.type, b.type))

CheckUnary(o, a) ==
  Typed(First(<<a.fault, CheckExprType(a),
                Test(IF o = "not" THEN IsBool(a.type) ELSE IsInteger(a.type))>>), a.type)

Symbol(symbols, n) ==
  IF n \in DOMAIN symbols /\ symbols[n].kind # "struct" THEN Is(symbols[n].type)
  ELSE Fails(Error)

CheckID(n) == IF n \in DOMAIN Locals THEN Is(Locals[n].type) ELSE Symbol(Globals, n)

CheckSizeof(x) ==
  IF x \in DOMAIN Globals
  THEN Typed(Test(Globals[x].kind \in {"data", "struct"}), "i32")
  ELSE Typed(Test(IsBasicOrProc(x) /\ x # "void"), "i32")

CheckSizeofField(x, f) ==
  Typed(Test(/\ x \in DOMAIN Globals /\ Globals[x].kind = "struct"
             /\ f \in DOMAIN Structs[x]), "i32")

Conversion(a, t) == Typed(First(<<a.fault, Test(IsBasicOrProc(t))>>), t)

CheckDeref(a, t) == Typed(First(<<a.fault, TestOf(a.type, IsPtr(a.type))>>), t)

\* checkDotAccess and checkArrowAccess, when the operand is an expression.
Field(a, f) ==
  First(<<a.fault, Test(~a.multi /\ a.type # Nil /\ IsStruct(a.type)),
          Test(IsStruct(a.type) /\ f \in DOMAIN Structs[a.type])>>)

\* S.X: a name of a struct of the module goes before a local of that name.
IsStructName(e) == e.lex = "name" /\ e.name \in DOMAIN Globals /\ Globals[e.name].kind = "struct"

StructField(s, f) == Typed(Test(f \in DOMAIN Structs[s]), "i32")

\* results[i] is what checkExpr leaves of argument i.
CheckCallProc(p, results) ==
  LET faults == FlattenSeq([i \in DOMAIN results |->
                  <<results[i].fault, Equal(results[i], Procs[p].args[i])>>])
      rets == Procs[p].rets
  IN IF Len(results) # Len(Procs[p].args) THEN Fails(Error)
     ELSE IF First(faults) # Ok THEN Fails(First(faults))
     ELSE CASE Len(rets) = 0 -> Is("void")
            [] Len(rets) = 1 -> Is(rets[1])
            [] OTHER -> Multi

CheckCallStruct(s, results) ==
  IF Len(results) # 1 THEN Fails(Error)
  ELSE Typed(First(<<results[1].fault, TestOf(results[1].type, IsInteger(results[1].type))>>), s)

CheckCall(p, results) ==
  CASE p.fault # Ok     -> p
    [] p.type = Nil     -> Fails(Panic)
    [] IsProc(p.type)   -> CheckCallProc(p.type, results)
    [] IsStruct(p.type) -> CheckCallStruct(p.type, results)
    [] OTHER            -> Fails(Error)

\* of[i] is what is left of part i.
CheckNode(e, of) ==
  CASE e.lex = "name"        -> CheckID(e.name)
    [] e.lex = "external"    -> Symbol(Externals, e.name)
    [] e.lex = "literal"     -> Is(e.type)
    [] e.lex = "sizeof"      -> CheckSizeof(e.of)
    [] e.lex = "sizeofField" -> CheckSizeofField(e.of, e.field)
    [] e.lex = "binary"      -> CheckBinary(e.op, of[1], of[2])
    [] e.lex = "unary"       -> CheckUnary(e.op, of[1])
    [] e.lex = "convert"     -> Conversion(of[1], e.type)
    [] e.lex = "deref"       -> CheckDeref(of[1], e.type)
    [] e.lex = "call"        -> CheckCall(of[1], Tail(of))
    [] e.lex = "arrow"       -> LET fault == Field(of[1], e.field)
                                IN IF fault # Ok THEN Fails(fault)
                                   ELSE Is(Structs[of[1].type][e.field])
    [] e.lex = "dot" /\ IsStructName(e.arg) -> StructField(e.arg.name, e.field)
    [] e.lex = "dot" /\ e.arg.lex = "external" -> Fails(Panic)   \* GetExternalSymbol of the field
    [] e.lex = "dot" /\ ~IsStructName(e.arg) /\ e.arg.lex # "external" ->
         Typed(Field(of[1], e.field), "ptr")

RECURSIVE CheckExpr(_)
CheckExpr(e) == CheckNode(e, [i \in DOMAIN Parts(e) |-> CheckExpr(Parts(e)[i])])

-----------------------------------------------------------------------------
\* Statements.

IsAssignable(e) == \/ e.lex = "name" /\ e.name \in DOMAIN Locals
                   \/ e.lex \in {"deref", "arrow"}

CheckAssignee(e) ==
  First(<<IF e.lex \in {"deref", "arrow"} THEN CheckExpr(e).fault ELSE Ok,
          Test(IsAssignable(e))>>)

CheckAssignees(left) == First([i \in DOMAIN left |-> CheckAssignee(left[i])])

TypeOf(e) == CheckExpr(e).type

CheckStep(s) ==
  LET t == TypeOf(s.left[1])
  IN First(<<CheckAssignees(s.left), Test(IsInteger(t) \/ IsPtr(t))>>)

\* Mutant of CheckSwap: the right side may be any expression.
CheckSwapAny(s) ==
  LET r == CheckExpr(s.right)
  IN First(<<CheckAssignees(s.left), r.fault, Test(~r.multi), Equal(r, TypeOf(s.left[1]))>>)

CheckSwap(s) ==
  LET r == CheckExpr(s.right)
  IN First(<<CheckAssignees(s.left), r.fault, Test(~r.multi), Test(IsAssignable(s.right)),
             Equal(r, TypeOf(s.left[1]))>>)

\* A pointer moves by any integer.
CheckOpAssign(s) ==
  LET l == TypeOf(s.left[1]) r == CheckExpr(s.right)
  IN First(<<CheckAssignees(s.left), r.fault, Test(~r.multi), Test(r.type # "void"),
             Test(IF IsPtr(l) THEN IsInteger(r.type) ELSE l = r.type /\ IsInteger(l))>>)

\* The call has been checked, so its callee is a procedure.
CheckMultiAssignment(left, call) ==
  LET rets == Procs[TypeOf(call.callee)].rets
  IN IF Len(rets) # Len(left) THEN Error
     ELSE First([i \in DOMAIN left |-> Equal(CheckExpr(left[i]), rets[i])])

CheckAssign(s) ==
  LET r     == CheckExpr(s.right)
      fault == First(<<CheckAssignees(s.left), r.fault, Test(r.multi <=> Len(s.left) > 1)>>)
  IN CASE fault # Ok -> fault
       [] fault = Ok /\ r.multi -> CheckMultiAssignment(s.left, s.right)
       [] OTHER -> First(<<Test(r.type # "void"), Equal(r, TypeOf(s.left[1]))>>)

CheckReturn(es) ==
  IF Len(es) # Len(Rets) THEN Error
  ELSE First(FlattenSeq([i \in DOMAIN es |->
         LET r == CheckExpr(es[i]) IN <<r.fault, Test(~r.multi), Equal(r, Rets[i])>>]))

\* A statement of one expression.
CheckUse(s, r) ==
  CASE s.lex = "expression" -> r.fault
    [] s.lex = "if"     -> First(<<r.fault, Equal(r, "bool"), CheckExprType(r)>>)
    [] s.lex = "elseif" -> First(<<r.fault, CheckExprType(r)>>)
    [] s.lex \in {"while", "dowhile"} -> First(<<r.fault, CheckExprType(r), Equal(r, "bool")>>)
    [] s.lex = "exit"   -> First(<<r.fault, Equal(r, "i8")>>)

CheckStatement(s) ==
  CASE s.lex = "return" -> CheckReturn(s.exps)
    [] s.lex = "step"   -> CheckStep(s)
    [] s.lex = "set"    -> CheckAssign(s)
    [] s.lex = "opset"  -> CheckOpAssign(s)
    [] s.lex = "swap"   -> CheckSwap(s)
    [] s.lex \in Conditions \cup {"expression", "exit"} -> CheckUse(s, CheckExpr(s.exp))

=============================================================================

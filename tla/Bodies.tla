------------------------------- MODULE Bodies -------------------------------
(***************************************************************************)
(* A body on its way to PIR: the type checker goes over its statements,    *)
(* linearization makes instructions of them (linearization.go), and the    *)
(* PIR checker goes over the instructions.  Each stops at its first error  *)
(* or panic.  The second and the third have typing rules of their own.     *)
(***************************************************************************)
EXTENDS BodyTypes, BodyRules, TypedPir

CONSTANT Programs   \* bodies, each a sequence of statements

VARIABLES
  body,     \* the body compiled
  stage,    \* "check", "lower", "pir" or "ended"
  at,       \* statement or instruction the stage is at
  c,        \* linearization's context: code, number of temporaries, fault
  verdict,  \* what the type checker said
  outcome   \* what linearization and the PIR checker said

vars == <<body, stage, at, c, verdict, outcome>>

-----------------------------------------------------------------------------
\* Lowering of expressions: the operand that holds the value, and the context.

NextTemp(k, t) == Operand("temp", t, k.temps)

\* Emits i, whose result is the next temporary.
Put(k, i) == [op |-> i.dest[1], c |-> [k EXCEPT !.code = Append(@, i), !.temps = @ + 1]]

Emit(k, i) == [k EXCEPT !.code = Append(@, i)]

GenPanic(k) == [op |-> NoOp, c |-> [k EXCEPT !.fault = Panic]]

GlobalToOperand(sy, n) ==
  IF sy.kind = "const" THEN LitOp(sy.type) ELSE Operand("global", sy.type, n)

GenExprID(n) ==
  IF n \in DOMAIN Locals THEN Operand(Locals[n].class, Locals[n].type, Locals[n].position)
  ELSE GlobalToOperand(Globals[n], n)

LexToOp(o) == CASE o = "&" -> "and" [] o = "|" -> "or" [] o = "^" -> "xor"
                [] o = "~" -> "not" [] OTHER -> o

GenOffset(a, f) ==
  IF IsStruct(a.op.type) /\ f \in DOMAIN Structs[a.op.type]
  THEN Put(a.c, BinI("+", a.op, LitOp("i32"), NextTemp(a.c, "ptr")))
  ELSE GenPanic(a.c)

\* Mutant of GenIndex: the sum gets the type of the index.
GenIndexSum(a, i, t, k) ==
  LET w == IF Narrow(i.type) THEN Put(k, ConvertI(i, NextTemp(k, "i32"))) ELSE [op |-> i, c |-> k]
      m == Put(w.c, BinI("*", w.op, LitOp(w.op.type), NextTemp(w.c, w.op.type)))
  IN Put(m.c, BinI("+", a, m.op, NextTemp(m.c, m.op.type)))

\* (p + i * sizeof[STRUCT]), with an index of at least 4 bytes.
GenIndex(a, i, t, k) ==
  LET w == IF Narrow(i.type) THEN Put(k, ConvertI(i, NextTemp(k, "i32"))) ELSE [op |-> i, c |-> k]
      m == Put(w.c, BinI("*", w.op, LitOp(w.op.type), NextTemp(w.c, w.op.type)))
  IN Put(m.c, BinI("+", a, m.op, NextTemp(m.c, t)))

GenCallInstr(p, args) ==
  LET k    == args.c
      rets == IF IsProc(p.type) THEN Procs[p.type].rets ELSE <<>>
      ops  == [i \in DOMAIN rets |-> Operand("temp", rets[i], k.temps + i - 1)]
  IN [ops |-> ops, c |-> [Emit(k, CallI(p, args.ops, ops)) EXCEPT !.temps = @ + Len(rets),
                            !.fault = IF IsProc(p.type) THEN @ ELSE Panic]]

RECURSIVE GenExpr(_, _)

GenAll(es, k) ==
  FoldLeft(LAMBDA acc, e : LET g == GenExpr(e, acc.c)
                           IN [ops |-> Append(acc.ops, g.op), c |-> g.c],
           [ops |-> <<>>, c |-> k], es)

GenCall(g) == GenCallInstr(Head(g.ops), [g EXCEPT !.ops = Tail(@)])

GenDeref(e, g) == Put(g.c, LoadPtr(g.ops[1], NextTemp(g.c, e.type)))

GenArrow(e, g) ==
  LET a == g.ops[1]
      o == GenOffset([op |-> a, c |-> g.c], e.field)
  IN IF o.c.fault # Ok THEN o
     ELSE Put(o.c, LoadPtr(o.op, NextTemp(o.c, Structs[a.type][e.field])))

GenBinary(e, t, g) ==
  LET dest == NextTemp(g.c, t)
  IN Put(g.c, IF e.op \in Comparisons THEN BinOut(e.op, g.ops[1], g.ops[2], dest)
              ELSE BinI(LexToOp(e.op), g.ops[1], g.ops[2], dest))

GenUnary(e, t, g) == Put(g.c, UnI(LexToOp(e.op), g.ops[1], NextTemp(g.c, t)))

GenConversion(e, g) == Put(g.c, ConvertI(g.ops[1], NextTemp(g.c, e.type)))

GenLeaf(e) ==
  CASE e.lex = "name"     -> GenExprID(e.name)
    [] e.lex = "external" -> GlobalToOperand(Externals[e.name], e.name)
    [] e.lex = "literal"  -> LitOp(e.type)
    [] OTHER              -> LitOp("i32")

Leaves == {"name", "external", "literal", "sizeof", "sizeofField"}

\* t: the type of e; g: the operands of its parts, and the context after them.
GenTyped(e, t, g, k) ==
  CASE t = Nil -> GenPanic(k)
    [] t # Nil /\ e.lex \in Leaves -> [op |-> GenLeaf(e), c |-> k]
    [] e.lex = "binary"    -> GenBinary(e, t, g)
    [] e.lex = "unary"     -> GenUnary(e, t, g)
    [] e.lex = "convert"   -> GenConversion(e, g)
    [] e.lex = "deref"     -> GenDeref(e, g)
    [] e.lex = "arrow"     -> GenArrow(e, g)
    [] e.lex = "dot" /\ IsStructName(e.arg)  -> [op |-> LitOp("i32"), c |-> k]
    [] e.lex = "dot" /\ ~IsStructName(e.arg) -> GenOffset([op |-> g.ops[1], c |-> g.c], e.field)
    [] e.lex = "call" /\ t # Nil ->
         IF IsStruct(TypeOf(e.callee)) THEN GenIndex(g.ops[1], g.ops[2], t, g.c)
         ELSE LET out == GenCall(g)
              IN [op |-> IF Len(out.ops) = 1 THEN out.ops[1] ELSE NoOp, c |-> out.c]

GenExpr(e, k) == GenTyped(e, TypeOf(e), GenAll(Parts(e), k), k)

-----------------------------------------------------------------------------
\* Lowering of statements.

\* The operand of a local, or the address of the place.
GenLValue(e, k) ==
  CASE e.lex = "name"  -> [op |-> GenExprID(e.name), c |-> k]
    [] e.lex = "deref" -> GenExpr(e.arg, k)
    [] e.lex = "arrow" -> GenOffset(GenExpr(e.arg, k), e.field)

Direct(e) == e.lex = "name"

\* Mutant of GenLoadOpStore: the place is loaded as if it held an i32.
GenLoadOpStoreWide(o, l, r) ==
  LET t1 == Put(l.c, LoadPtr(l.op, NextTemp(l.c, "i32")))
      t2 == Put(t1.c, BinI(o, t1.op, r, NextTemp(t1.c, r.type)))
  IN Emit(t2.c, StorePtr(t2.op, l.op))

\* The type of the place is taken to be that of the right operand.
GenLoadOpStore(o, l, r) ==
  LET t1 == Put(l.c, LoadPtr(l.op, NextTemp(l.c, r.type)))
      t2 == Put(t1.c, BinI(o, t1.op, r, NextTemp(t1.c, r.type)))
  IN Emit(t2.c, StorePtr(t2.op, l.op))

\* set l o= r, and the steps, whose r is one or the size of a struct.
GenOp(e, o, r, k) ==
  LET l == GenLValue(e, k)
  IN IF Direct(e) THEN Emit(l.c, BinI(o, l.op, r, l.op)) ELSE GenLoadOpStore(o, l, r)

GenStep(s, k) ==
  LET t == TypeOf(s.left[1])
  IN GenOp(s.left[1], IF s.op = "++" THEN "+" ELSE "-",
           LitOp(IF IsStruct(t) THEN "i32" ELSE t), k)

Fetch(e, op, k) ==
  LET dest == NextTemp(k, TypeOf(e))
  IN Put(k, IF Direct(e) THEN CopyI(op, dest) ELSE LoadPtr(op, dest))

Give(e, op, v, k) == Emit(k, IF Direct(e) THEN CopyI(v, op) ELSE StorePtr(v, op))

\* The right place is fetched before it is given the left value, unless only
\* the left one is in memory; two places in memory are both fetched.
SwapPlaces(e, f, l, r, k) ==
  IF Direct(e)
  THEN LET t == Fetch(f, r, k)
       IN Give(e, l, t.op, Give(f, r, l, t.c))
  ELSE LET t == Fetch(e, l, k)
           u == IF Direct(f) THEN [op |-> r, c |-> t.c] ELSE Fetch(f, r, t.c)
       IN Give(f, r, t.op, Give(e, l, u.op, u.c))

GenSwap(s, k) ==
  LET l == GenLValue(s.left[1], k)
      r == GenLValue(s.right, l.c)
  IN SwapPlaces(s.left[1], s.right, l.op, r.op, r.c)

GenStore(e, op, k) ==
  LET l == GenLValue(e, k) IN Give(e, l.op, op, l.c)

GenMultiAssign(s, k) ==
  LET g == GenCall(GenAll(Parts(s.right), k))
  IN FoldLeft(LAMBDA n, i : GenStore(s.left[i], g.ops[i], n), g.c, [i \in DOMAIN s.left |-> i])

GenStatement(s, k) ==
  CASE s.lex = "expression" -> GenExpr(s.exp, k).c
    [] s.lex \in Conditions -> LET g == GenExpr(s.exp, k) IN Emit(g.c, Flow("branch", <<g.op>>))
    [] s.lex = "exit"   -> LET g == GenExpr(s.exp, k) IN Emit(g.c, Flow("exit", <<g.op>>))
    [] s.lex = "return" -> LET g == GenAll(s.exps, k) IN Emit(g.c, Flow("return", g.ops))
    [] s.lex = "step"   -> GenStep(s, k)
    [] s.lex = "swap"   -> GenSwap(s, k)
    [] s.lex = "opset"  -> LET g == GenExpr(s.right, k) IN GenOp(s.left[1], s.op, g.op, g.c)
    [] s.lex = "set" /\ Len(s.left) > 1 -> GenMultiAssign(s, k)
    [] s.lex = "set" /\ Len(s.left) = 1 ->
         LET g == GenExpr(s.right, k) IN GenStore(s.left[1], g.op, g.c)

-----------------------------------------------------------------------------
Init ==
  /\ body \in Programs
  /\ stage = "check" /\ at = 1
  /\ c = [code |-> <<>>, temps |-> 0, fault |-> Ok]
  /\ verdict = "none" /\ outcome = "none"

Check ==
  /\ stage = "check" /\ at <= Len(body)
  /\ LET fault == CheckStatement(body[at])
     IN IF fault = Ok THEN at' = at + 1 /\ UNCHANGED <<stage, verdict>>
        ELSE verdict' = fault /\ stage' = "ended" /\ UNCHANGED at
  /\ UNCHANGED <<body, c, outcome>>

Accept ==
  /\ stage = "check" /\ at > Len(body)
  /\ verdict' = Ok /\ stage' = "lower" /\ at' = 1
  /\ UNCHANGED <<body, c, outcome>>

\* genBlock leaves the block at a return or an exit.
Lower ==
  /\ stage = "lower" /\ at <= Len(body)
  /\ c' = GenStatement(body[at], c)
  /\ IF c'.fault = Ok
     THEN /\ at' = IF body[at].lex \in {"return", "exit"} THEN Len(body) + 1 ELSE at + 1
          /\ UNCHANGED <<stage, outcome>>
     ELSE outcome' = Panic /\ stage' = "ended" /\ UNCHANGED at
  /\ UNCHANGED <<body, verdict>>

Lowered ==
  /\ stage = "lower" /\ at > Len(body)
  /\ stage' = "pir" /\ at' = 1
  /\ UNCHANGED <<body, c, verdict, outcome>>

CheckPir ==
  /\ stage = "pir" /\ at <= Len(c.code)
  /\ IF CheckInstr(c.code[at]) THEN at' = at + 1 /\ UNCHANGED <<stage, outcome>>
     ELSE outcome' = Error /\ stage' = "ended" /\ UNCHANGED at
  /\ UNCHANGED <<body, c, verdict>>

AcceptPir ==
  /\ stage = "pir" /\ at > Len(c.code)
  /\ outcome' = Ok /\ stage' = "ended"
  /\ UNCHANGED <<body, at, c, verdict>>

Ended == stage = "ended" /\ UNCHANGED vars

Next == Check \/ Accept \/ Lower \/ Lowered \/ CheckPir \/ AcceptPir \/ Ended

Spec == Init /\ [][Next]_vars

-----------------------------------------------------------------------------
Defined(k) == UNION {{k.code[i].dest[j].id : j \in {x \in DOMAIN k.code[i].dest :
                        k.code[i].dest[x].class = "temp"}} : i \in DOMAIN k.code}

\* Types of the variables; every temporary is the result of an instruction,
\* and a local is named with the type of its declaration.
TypeOK ==
  /\ stage \in {"check", "lower", "pir", "ended"}
  /\ {verdict, outcome} \subseteq {"none", Ok, Error, Panic}
  /\ c.fault = Ok => Defined(c) = 0..c.temps - 1
  /\ \A i \in DOMAIN c.code : \A op \in ToSet(c.code[i].ops \o c.code[i].dest) :
       op.class \in {"variable", "arg"} =>
         \E n \in DOMAIN Locals : op = Operand(Locals[n].class, Locals[n].type, Locals[n].position)

\* The type checker accepts exactly the bodies all of whose statements are
\* well typed, stops at the first that is not, and never panics.
Verdict ==
  LET Ill == {i \in DOMAIN body : ~WellTyped(body[i])}
  IN CASE verdict = "none" -> \A i \in Ill : at <= i
       [] verdict = Ok     -> Ill = {}
       [] verdict = Error  -> at \in Ill /\ \A i \in Ill : at <= i
       [] verdict = Panic  -> FALSE

\* What the type checker accepts, linearization can lower without a panic,
\* and the PIR checker accepts what it makes.
Lowers == outcome \in {"none", Ok}

\* What the instructions do outside the procedure's own values, as typed.
EffectsOf(i) ==
  CASE i.kind \in {"load", "store"}   -> <<[do |-> i.kind, type |-> i.type]>>
    [] i.kind = "call"                -> <<[do |-> "call", type |-> i.ops[1].type]>>
    [] i.kind \in {"branch", "exit", "return"} ->
         [k \in DOMAIN i.ops |-> [do |-> i.kind, type |-> i.ops[k].type]]
    [] OTHER -> <<>>

\* Every access to memory is as wide as the source says the place is, every
\* call is of the procedure type the source calls, and conditions, results
\* and exit codes have the types they must have, in the source's order.
EffectsKept ==
  stage = "pir" \/ outcome = Ok =>
    LET Stops == {i \in DOMAIN body : body[i].lex \in {"return", "exit"}}
        last  == IF Stops = {} THEN Len(body) ELSE CHOOSE i \in Stops : \A j \in Stops : i <= j
    IN FlattenSeq([i \in DOMAIN c.code |-> EffectsOf(c.code[i])])
         = FlattenSeq([i \in 1..last |-> StatementEffects(body[i])])

\* An accepted body becomes PIR in single assignment, over the operands that
\* the declarations give, which the PIR checker accepts.
Compiles == TypeOK /\ Lowers

=============================================================================

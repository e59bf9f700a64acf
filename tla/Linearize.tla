------------------------------ MODULE Linearize ------------------------------
(***************************************************************************)
(* The lowering of expressions and statements to PIR                       *)
(* (linearization/linearization.go), for code that stays in one block.     *)
(*                                                                         *)
(* A source expression is given in post-order: the sequence of its nodes,  *)
(* each after its operands in the order genExpr visits them.  Lowering is  *)
(* then a fold that keeps the operands of the open nodes on a stack.       *)
(* Literals are already values (constant folding runs before), and types   *)
(* appear only where they choose an instruction.                           *)
(***************************************************************************)
EXTENDS Pir, SequencesExt

\* Nodes of an expression.
Leaf(o)          == [k |-> "leaf", o |-> o]
Unary            == [k |-> "unary"]       \* not, neg, bitwise not, conversion
Binary           == [k |-> "binary"]      \* arithmetic, comparison, logic
Deref            == [k |-> "deref"]       \* p@T
Dot(off)         == [k |-> "dot", off |-> off]      \* p.field
Arrow(off)       == [k |-> "arrow", off |-> off]    \* p->field
Index(size)      == [k |-> "index", size |-> size]  \* p[i], i as wide as i32
CallOf(n, m)     == [k |-> "call", args |-> n, rets |-> m]

\* Targets of an assignment: a local (an expression of one leaf) or memory.
Direct(o)   == [direct |-> TRUE, expr |-> <<Leaf(o)>>]
Indirect(e) == [direct |-> FALSE, expr |-> e]
Field(e, o) == [direct |-> FALSE, expr |-> Append(e, Dot(o))]

-----------------------------------------------------------------------------
\* The context while a block is generated: its code so far, the next
\* temporary, and the operands of the nodes not consumed yet.

NewContext == [code |-> <<>>, temp |-> 0, ops |-> <<>>]

AddInstr(c, ins) == [c EXCEPT !.code = Append(@, ins)]

Fresh(c, i) == Temp(c.temp + i)

TopOps(c, n) == SubSeq(c.ops, Len(c.ops) - n + 1, Len(c.ops))

\* Mutant of Replace: a call takes one temporary however many it returns.
ReplaceByOne(c, n, m) ==
  [c EXCEPT !.temp = @ + 1,
            !.ops = SubSeq(@, 1, Len(@) - n)
                      \o [i \in 1 .. m |-> Temp(c.temp + i - 1)]]

\* The node's operands replaced by its results, which are fresh temporaries.
Replace(c, n, m) ==
  [c EXCEPT !.temp = @ + m,
            !.ops = SubSeq(@, 1, Len(@) - n)
                      \o [i \in 1 .. m |-> Temp(c.temp + i - 1)]]

GenOffset(c, op, off) == Bin(op, Lit(off), Fresh(c, 0))

GenNode(c, node) ==
  CASE node.k = "leaf"   -> [c EXCEPT !.ops = Append(@, node.o)]
    [] node.k = "unary"  ->
         AddInstr(Replace(c, 1, 1), Un(Last(c.ops), Fresh(c, 0)))
    [] node.k = "binary" ->
         LET ab == TopOps(c, 2)
         IN AddInstr(Replace(c, 2, 1), Bin(ab[1], ab[2], Fresh(c, 0)))
    [] node.k = "deref"  ->
         AddInstr(Replace(c, 1, 1), LoadPtr(Last(c.ops), Fresh(c, 0)))
    [] node.k = "dot"    ->
         AddInstr(Replace(c, 1, 1), GenOffset(c, Last(c.ops), node.off))
    [] node.k = "arrow"  ->
         LET p == Replace(c, 1, 1)
         IN AddInstr(AddInstr(Replace(p, 1, 1), GenOffset(c, Last(c.ops), node.off)),
                     LoadPtr(Fresh(c, 0), Fresh(c, 1)))
    [] node.k = "index"  ->
         LET ai == TopOps(c, 2)
             p  == Replace(c, 1, 1)
         IN AddInstr(AddInstr(Replace(p, 2, 1),
                              Bin(ai[2], Lit(node.size), Fresh(c, 0))),
                     Bin(ai[1], Fresh(c, 0), Fresh(c, 1)))
    [] node.k = "call"   ->
         LET ops == TopOps(c, node.args + 1)
         IN AddInstr(Replace(c, node.args + 1, node.rets),
                     Call(Head(ops), Tail(ops),
                          [i \in 1 .. node.rets |-> Fresh(c, i - 1)]))

GenExpr(c, e) == FoldLeft(GenNode, c, e)

\* Generate e; its operand is the last one of the result's stack.
GenLValue(c, l) == GenExpr(c, l.expr)

-----------------------------------------------------------------------------
\* Statements.

Assign(l, e)       == [k |-> "assign", l |-> l, e |-> e]
OpAssign(l, e)     == [k |-> "opassign", l |-> l, e |-> e]
IncDec(l)          == [k |-> "incdec", l |-> l]
Swap(l, r)         == [k |-> "swap", l |-> l, r |-> r]
MultiAssign(ls, e) == [k |-> "multi", ls |-> ls, e |-> e]
Expr(e)            == [k |-> "expr", e |-> e]

Write(c, value, target, direct) ==
  AddInstr(c, IF direct THEN Copy(value, target) ELSE StorePtr(value, target))

\* Mutant of GenLoadOpStore: the loaded value is stored back.
GenLoadOpStoreOld(c, target, right) ==
  LET t1 == Fresh(c, 0)
      t2 == Fresh(c, 1)
  IN [c EXCEPT !.temp = @ + 2,
               !.code = @ \o <<LoadPtr(target, t1), Bin(t1, right, t2),
                               StorePtr(t1, target)>>]

\* load target -> t1; op t1, right -> t2; store t2 -> target
GenLoadOpStore(c, target, right) ==
  LET t1 == Fresh(c, 0)
      t2 == Fresh(c, 1)
  IN [c EXCEPT !.temp = @ + 2,
               !.code = @ \o <<LoadPtr(target, t1), Bin(t1, right, t2),
                               StorePtr(t2, target)>>]

GenOp(c, target, right, direct) ==
  IF direct THEN AddInstr(c, Bin(target, right, target))
            ELSE GenLoadOpStore(c, target, right)

\* A fresh copy of what one side holds, the other side's value over it, and
\* the copy to the other side.
GenSwap(c, lhs, rhs, lhsDirect, rhsDirect) ==
  LET t1 == Fresh(c, 0)
      t2 == Fresh(c, 1)
  IN CASE lhsDirect /\ rhsDirect ->
            [c EXCEPT !.temp = @ + 1,
                      !.code = @ \o <<Copy(rhs, t1), Copy(lhs, rhs), Copy(t1, lhs)>>]
       [] lhsDirect /\ ~rhsDirect ->
            [c EXCEPT !.temp = @ + 1,
                      !.code = @ \o <<LoadPtr(rhs, t1), StorePtr(lhs, rhs),
                                      Copy(t1, lhs)>>]
       [] ~lhsDirect /\ rhsDirect ->
            [c EXCEPT !.temp = @ + 1,
                      !.code = @ \o <<LoadPtr(lhs, t1), StorePtr(rhs, lhs),
                                      Copy(t1, rhs)>>]
       [] OTHER ->
            [c EXCEPT !.temp = @ + 2,
                      !.code = @ \o <<LoadPtr(lhs, t1), LoadPtr(rhs, t2),
                                      StorePtr(t2, lhs), StorePtr(t1, rhs)>>]

\* The targets of a multiple assignment, each with what it gets.
Pairs(ls, rets) == [i \in 1 .. Len(ls) |-> [l |-> ls[i], ret |-> rets[i]]]

GenAssignRet(c, a) ==
  LET p == GenLValue(c, a.l)
  IN Write(p, a.ret, Last(p.ops), a.l.direct)

\* The returns of the call go to the targets from left to right.
GenLoadAssignRets(c, ls, rets) == FoldLeft(GenAssignRet, c, Pairs(ls, rets))

GenStatement(c, st) ==
  LET done(d) == [d EXCEPT !.ops = <<>>]
  IN CASE st.k = "assign" ->      \* the right side is evaluated first
            LET r == GenExpr(c, st.e)
                l == GenLValue(r, st.l)
            IN done(Write(l, Last(r.ops), Last(l.ops), st.l.direct))
       [] st.k = "opassign" ->
            LET r == GenExpr(c, st.e)
                l == GenLValue(r, st.l)
            IN done(GenOp(l, Last(l.ops), Last(r.ops), st.l.direct))
       [] st.k = "incdec" ->
            LET l == GenLValue(c, st.l)
            IN done(GenOp(l, Last(l.ops), Lit(1), st.l.direct))
       [] st.k = "swap" ->
            LET l == GenLValue(c, st.l)
                r == GenLValue(l, st.r)
            IN done(GenSwap(r, Last(l.ops), Last(r.ops),
                            st.l.direct, st.r.direct))
       [] st.k = "multi" ->
            LET r == GenExpr(c, st.e)
            IN done(GenLoadAssignRets(r, st.ls, r.ops))
       [] st.k = "expr" -> done(GenExpr(c, st.e))

-----------------------------------------------------------------------------
\* What the parser and the type checker leave to lower: every node has its
\* operands, every leaf is a variable, an argument or a constant, a target is
\* a variable or an address, and the right side of a multiple assignment is
\* a call that returns a value for each target.

Sources == Locals \cup Args \cup [class : {"lit", "global"}, id : Nat]

Nodes == [k : {"leaf"}, o : Sources]
           \cup [k : {"unary", "binary", "deref"}]
           \cup [k : {"dot", "arrow"}, off : Nat]
           \cup [k : {"index"}, size : Nat]
           \cup [k : {"call"}, args : Nat, rets : Nat]

Takes(node) == CASE node.k = "leaf" -> 0
                 [] node.k \in {"unary", "deref", "dot", "arrow"} -> 1
                 [] node.k \in {"binary", "index"} -> 2
                 [] node.k = "call" -> node.args + 1

Gives(node) == IF node.k = "call" THEN node.rets ELSE 1

\* The height of the stack after a node, or Short once an operand is missing.
Short == -1

Grow(h, node) == IF h < Takes(node) THEN Short ELSE h - Takes(node) + Gives(node)

Height(e) == FoldLeft(Grow, 0, e)

Exprs(n) == {e \in Seq(Nodes) : Height(e) = n}

Targets == [direct : {TRUE}, expr : {<<Leaf(o)>> : o \in Locals \cup Args}]
             \cup [direct : {FALSE}, expr : Exprs(1)]

ReturnsToEach(st) == /\ st.e # <<>>
                     /\ Last(st.e).k = "call"
                     /\ Height(st.e) = Last(st.e).rets
                     /\ Len(st.ls) = Last(st.e).rets

Statements ==
  [k : {"assign", "opassign"}, l : Targets, e : Exprs(1)]
    \cup [k : {"incdec"}, l : Targets]
    \cup [k : {"swap"}, l : Targets, r : Targets]
    \cup {st \in [k : {"multi"}, ls : Seq(Targets), e : Seq(Nodes)] : ReturnsToEach(st)}
    \cup [k : {"expr"}, e : {e \in Seq(Nodes) : Height(e) # Short}]

-----------------------------------------------------------------------------
\* Blocks: statements, then what ends them.

ToJmp       == [k |-> "jmp", es |-> <<>>]
ToIf(e)     == [k |-> "if", es |-> <<e>>]
ToExit(e)   == [k |-> "exit", es |-> <<e>>]
ToReturn(s) == [k |-> "return", es |-> s]

Ends == [k : {"jmp", "if", "exit", "return"},
         es : Seq({e \in Seq(Nodes) : Height(e) # Short})]

GenBlock(stmts, end) ==
  LET body == FoldLeft(GenStatement, NewContext, stmts)
      last == FoldLeft(GenExpr, body, end.es)
  IN [code |-> last.code, out |-> Flow(end.k, last.ops)]

=============================================================================

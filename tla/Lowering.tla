------------------------------ MODULE Lowering ------------------------------
(***************************************************************************)
(* Linearization at work on the statements of one block, beside what the   *)
(* statements mean.  The source machine executes a statement as the        *)
(* language has it; the PIR machine executes the instructions Linearize    *)
(* made of it.                                                             *)
(*                                                                         *)
(* Both machines compute with terms.  Their trace lists the calls and the  *)
(* memory stores in the order they happen; a load is a term of its own,    *)
(* dated by the length of the trace, so that two executions have the same  *)
(* terms only if they load, store and call in the same order.              *)
(***************************************************************************)
EXTENDS Linearize

CONSTANT Programs     \* [body |-> statements, end |-> end of the block]

ASSUME ProgramsChecked == Programs \subseteq [body : Seq(Statements), end : Ends]

VARIABLES
  prog,   \* the block being lowered
  at,     \* number of statements lowered; one more when the end is, too
  ctx,    \* linearization's context
  src,    \* the source machine
  pir     \* the PIR machine, after the code in ctx

vars == <<prog, at, ctx, src, pir>>

-----------------------------------------------------------------------------
\* Machines: the value of every variable, and the trace.

Term(op, args, n) == [op |-> op, args |-> args, n |-> n]

Start == [env |-> [v \in Values |-> v], trace |-> <<>>, out |-> <<>>]

Value(m, o) == IF o \in Values THEN m.env[o] ELSE o

Set(m, v, t) == [m EXCEPT !.env[v] = t]

LoadTerm(m, ptr) == Term("load", <<ptr>>, Len(m.trace))

DoStore(m, t, ptr) == [m EXCEPT !.trace = Append(@, Term("store", <<t, ptr>>, 0))]

DoCall(m, ops) == [m EXCEPT !.trace = Append(@, Term("call", ops, 0))]

\* Result k of the call that was last in the trace.
RetTerm(m, k) == Term("ret", <<Lit(k)>>, Len(m.trace))

\* The PIR machine: core/pir's instructions, operands read when executed.
Exec(m, ins) ==
  LET v == [k \in DOMAIN ins.ops |-> Value(m, ins.ops[k])]
  IN CASE ins.t = "bin"      -> Set(m, ins.dest[1], Term("bin", v, 0))
       [] ins.t = "un"       -> Set(m, ins.dest[1], Term("un", v, 0))
       [] ins.t = "loadptr"  -> Set(m, ins.dest[1], LoadTerm(m, v[1]))
       [] ins.t = "copy"     -> Set(m, ins.dest[1], v[1])
       [] ins.t = "storeptr" -> DoStore(m, v[1], v[2])
       [] ins.t = "call"     ->
            LET c == DoCall(m, v)
            IN [c EXCEPT !.env = [u \in DOMAIN @ |->
                  IF \E k \in DOMAIN ins.dest : ins.dest[k] = u
                  THEN RetTerm(c, CHOOSE k \in DOMAIN ins.dest : ins.dest[k] = u)
                  ELSE @[u]]]

Run(m, code) == FoldLeft(Exec, m, code)

-----------------------------------------------------------------------------
\* The source machine.  Expressions: values on a stack, nodes in post-order.

Push1(m, n, t) == [m EXCEPT !.out = SubSeq(@, 1, Len(@) - n) \o <<t>>]

Field1(p, off) == Term("bin", <<p, Lit(off)>>, 0)

EvalNode(m, node) ==
  LET e == Last(m.out)
      d == SubSeq(m.out, Len(m.out) - 1, Len(m.out))
  IN CASE node.k = "leaf"   -> Push1(m, 0, Value(m, node.o))
       [] node.k = "unary"  -> Push1(m, 1, Term("un", <<e>>, 0))
       [] node.k = "binary" -> Push1(m, 2, Term("bin", d, 0))
       [] node.k = "deref"  -> Push1(m, 1, LoadTerm(m, e))
       [] node.k = "dot"    -> Push1(m, 1, Field1(e, node.off))
       [] node.k = "arrow"  -> Push1(m, 1, LoadTerm(m, Field1(e, node.off)))
       [] node.k = "index"  ->
            Push1(m, 2, Term("bin", <<d[1], Term("bin", <<d[2], Lit(node.size)>>, 0)>>, 0))
       [] node.k = "call"   ->
            LET n   == node.args + 1
                ops == SubSeq(m.out, Len(m.out) - n + 1, Len(m.out))
                c   == DoCall(m, ops)
            IN [c EXCEPT !.out = SubSeq(@, 1, Len(@) - n)
                                   \o [k \in 1 .. node.rets |-> RetTerm(c, k)]]

\* Evaluate e; its value is on top of the stack.
Eval(m, e) == FoldLeft(EvalNode, m, e)

\* A target's address is evaluated once; reading and writing it come after.
Address(m, l) == IF l.direct THEN Push1(m, 0, l.expr[1].o) ELSE Eval(m, l.expr)

Contents(m, l, ad) == IF l.direct THEN m.env[ad] ELSE LoadTerm(m, ad)

Put(m, l, ad, t) == IF l.direct THEN Set(m, ad, t) ELSE DoStore(m, t, ad)

AssignRet(m, a) ==
  LET l == Address(m, a.l)
  IN Put(l, a.l, Last(l.out), a.ret)

Meaning(m, st) ==
  LET clear(n) == [n EXCEPT !.out = <<>>]
      update(n, l, ad, t) ==
        Put(n, l, ad, Term("bin", <<Contents(n, l, ad), t>>, 0))
  IN CASE st.k = "assign" ->
            LET r == Eval(m, st.e)
                l == Address(r, st.l)
            IN clear(Put(l, st.l, Last(l.out), Last(r.out)))
       [] st.k = "opassign" ->
            LET r == Eval(m, st.e)
                l == Address(r, st.l)
            IN clear(update(l, st.l, Last(l.out), Last(r.out)))
       [] st.k = "incdec" ->
            LET l == Address(m, st.l)
            IN clear(update(l, st.l, Last(l.out), Lit(1)))
       [] st.k = "swap" ->     \* both sides are read before either is written
            LET l  == Address(m, st.l)
                r  == Address(l, st.r)
                lv == Contents(r, st.l, Last(l.out))
                rv == Contents(r, st.r, Last(r.out))
            IN clear(IF st.r.direct \/ ~st.l.direct
                     THEN Put(Put(r, st.l, Last(l.out), rv), st.r, Last(r.out), lv)
                     ELSE Put(Put(r, st.r, Last(r.out), lv), st.l, Last(l.out), rv))
       [] st.k = "multi" ->
            LET r == Eval(m, st.e)
            IN clear(FoldLeft(AssignRet, r, Pairs(st.ls, r.out)))
       [] st.k = "expr" -> clear(Eval(m, st.e))

-----------------------------------------------------------------------------
Init == /\ prog \in Programs
        /\ at = 0
        /\ ctx = NewContext
        /\ src = Start
        /\ pir = Start

NewCode == SubSeq(ctx'.code, Len(ctx.code) + 1, Len(ctx'.code))

\* Bound: the temporaries of the instance.
Fits(c) == c.temp <= NumTemps

LowerStatement ==
  /\ at < Len(prog.body)
  /\ Fits(GenStatement(ctx, prog.body[at + 1]))
  /\ ctx' = GenStatement(ctx, prog.body[at + 1])
  /\ src' = Meaning(src, prog.body[at + 1])
  /\ pir' = Run(pir, NewCode)
  /\ at' = at + 1
  /\ UNCHANGED prog

LowerEnd ==
  /\ at = Len(prog.body)
  /\ Fits(FoldLeft(GenExpr, ctx, prog.end.es))
  /\ ctx' = FoldLeft(GenExpr, ctx, prog.end.es)
  /\ src' = FoldLeft(Eval, src, prog.end.es)
  /\ pir' = Run(pir, NewCode)
  /\ at' = at + 1
  /\ UNCHANGED prog

Lowered == /\ at > Len(prog.body)
           /\ UNCHANGED vars

Next == LowerStatement \/ LowerEnd \/ Lowered

Spec == Init /\ [][Next]_vars

-----------------------------------------------------------------------------
\* Linearization only makes instructions of the right shape.
TypeOK == /\ at \in 0 .. Len(prog.body) + 1
          /\ \A i \in DOMAIN ctx.code : WellFormedInstr(ctx.code[i])
          /\ ctx.temp \in 0 .. NumTemps

\* After every statement the two machines agree on every variable, and have
\* loaded, stored and called in the same order; at the end they agree on the
\* values the block's flow carries.
SameMeaning ==
  /\ \A v \in Locals \cup Args : pir.env[v] = src.env[v]
  /\ pir.trace = src.trace
  /\ at > Len(prog.body) =>
       [k \in DOMAIN ctx.ops |-> Value(pir, ctx.ops[k])] = src.out

\* A temporary is written once, before it is read, and every temporary below
\* the counter has been: what the allocator and the PIR checker rely on.
SingleAssignment ==
  LET written(i) == {ctx.code[i].dest[k] : k \in DOMAIN ctx.code[i].dest} \cap Temps
      read(i)    == {ctx.code[i].ops[k] : k \in DOMAIN ctx.code[i].ops} \cap Temps
  IN /\ \A i, j \in DOMAIN ctx.code : i # j => written(i) \cap written(j) = {}
     /\ \A i \in DOMAIN ctx.code :
          read(i) \subseteq UNION {written(j) : j \in 1 .. i - 1}
     /\ UNION {written(i) : i \in DOMAIN ctx.code} = {Temp(t) : t \in 0 .. ctx.temp - 1}

\* The PIR is well formed: its instructions have the arity of their kind, and
\* temporaries are assigned once and before they are read.
CodeWellFormed == TypeOK /\ SingleAssignment

=============================================================================

----------------------------- MODULE MCLowering -----------------------------
(***************************************************************************)
(* Source blocks of up to two statements for Lowering: every statement     *)
(* kind with direct and indirect targets, every node of an expression.     *)
(***************************************************************************)
EXTENDS Lowering

a == Var(0)
x == Arg(0)
f == Global(0)

E(o)       == <<Leaf(o)>>
CallF(es)  == <<Leaf(f)>> \o FlattenSeq(es) \o <<CallOf(Len(es), 1)>>

MCExprs == {E(a), E(x),
          E(a) \o E(x) \o <<Binary>>,
          Append(E(a), Unary),
          Append(E(x), Deref),
          Append(E(x), Arrow(8)),
          Append(Append(E(a), Dot(4)), Deref),
          E(x) \o E(a) \o <<Index(16)>>,
          CallF(<<E(a)>>) \o CallF(<<Append(E(x), Deref), E(a)>>) \o <<Binary>>}

MCTargets == {Direct(a), Direct(x), Indirect(E(a)), Field(E(x), 4),
            Indirect(CallF(<<E(x)>>))}

TwoRets == <<Leaf(f), Leaf(x), CallOf(1, 2)>>

MCStatements ==
  {Assign(l, e) : l \in MCTargets, e \in MCExprs}
    \cup {OpAssign(l, e) : l \in MCTargets, e \in MCExprs}
    \cup {IncDec(l) : l \in MCTargets}
    \cup {Swap(p[1], p[2]) : p \in MCTargets \X MCTargets}
    \cup {MultiAssign(p, TwoRets) : p \in MCTargets \X MCTargets}
    \cup {Expr(e) : e \in MCExprs}

MCEnds == {ToJmp, ToReturn(<<E(a), CallF(<<E(x)>>), E(x)>>)}

MCPrograms == {[body |-> <<p[1]>>, end |-> p[2]] : p \in MCStatements \X MCEnds}
                \cup {[body |-> p, end |-> ToJmp] : p \in MCStatements \X MCStatements}

=============================================================================

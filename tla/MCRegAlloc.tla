----------------------------- MODULE MCRegAlloc -----------------------------
(***************************************************************************)
(* Blocks for the register allocator: every one is what Linearize makes of *)
(* a source block over two variables and two arguments (more where a run   *)
(* needs more), a data symbol or procedure f, and literals.                *)
(***************************************************************************)
EXTENDS RegAlloc, Linearize

a == Var(0)
b == Var(1)
x == Arg(0)
y == Arg(1)
f == Global(0)

E(o)          == <<Leaf(o)>>
Plus(l, r)    == l \o r \o <<Binary>>
CallP(p, es)  == <<Leaf(p)>> \o FlattenSeq(es) \o <<CallOf(Len(es), 1)>>
CallF(es)     == CallP(f, es)
At1(e)        == Append(e, Deref)

\* One statement of every kind and of every addressing case of its kind.
MCStatements == {
  Assign(Direct(a), E(b)),
  Assign(Direct(y), Plus(E(x), E(y))),
  Assign(Direct(b), CallF(<<E(x)>>)),
  Assign(Direct(a), CallP(y, <<E(a)>>)),
  Assign(Direct(b), Plus(CallF(<<E(a)>>), CallF(<<Plus(E(b), E(Lit(1))), E(y)>>))),
  Assign(Indirect(E(x)), Plus(E(a), E(b))),
  Assign(Direct(x), At1(Plus(E(x), E(a)))),
  OpAssign(Direct(a), E(x)),
  OpAssign(Direct(b), Plus(E(a), E(Lit(2)))),
  IncDec(Indirect(E(x))),
  Swap(Direct(a), Direct(b)),
  Swap(Direct(a), Indirect(E(b))),
  MultiAssign(<<Direct(a), Indirect(E(b))>>, <<Leaf(f), Leaf(b), CallOf(1, 2)>>),
  Expr(CallF(<<E(b), E(y)>>))}

MCEnds == {ToJmp, ToIf(Plus(E(a), E(b))), ToIf(CallF(<<E(b)>>)), ToIf(E(x)),
         ToExit(E(b)), ToExit(Plus(E(a), E(b))),
         ToReturn(<<>>), ToReturn(<<E(b), E(a)>>), ToReturn(<<E(x), E(y)>>),
         ToReturn(<<E(y), Plus(E(x), E(a))>>),
         ToReturn(<<Plus(E(a), E(Lit(1))), E(x)>>)}

Bodies == {<<>>} \cup {<<s>> : s \in MCStatements}
                 \cup {<<p[1], p[2]>> : p \in MCStatements \X MCStatements}

-----------------------------------------------------------------------------
\* The blocks the allocator gets right, each of them Linearized.

GeneratedBlocks == {GenBlock(p[1], p[2]) : p \in Bodies \X MCEnds}

ASSUME GeneratedLinearized == \A c \in GeneratedBlocks : Linearized(c)

AmpleBlocks == {c \in GeneratedBlocks : Sound(c)}

-----------------------------------------------------------------------------
\* Blocks that need more registers than there are: every binary tree over up
\* to six computed operands, alone, as an argument, beside a second call, and
\* with a variable that occupies a register to the end of the block.

RECURSIVE Trees(_, _, _)
Trees(units, from, n) ==
  IF n = 1 THEN {units[from]}
  ELSE UNION {{Plus(p[1], p[2]) :
                 p \in Trees(units, from, k) \X Trees(units, from + k, n - k)} :
              k \in 1 .. n - 1}

Units == <<Plus(E(x), E(Lit(1))), At1(E(b)), Plus(E(Lit(2)), E(Lit(3))),
           Plus(E(y), E(Lit(4))), At1(E(Lit(5))), Plus(E(Lit(6)), E(Lit(7)))>>

Deep == UNION {Trees(Units, 1, n) : n \in 4 .. 6}

PressureBlocks ==
  {GenBlock(<<Assign(Direct(a), e)>>, z) : e \in Deep, z \in {ToJmp, ToReturn(<<E(a)>>)}}
  \cup {GenBlock(<<IncDec(Direct(a)), Assign(Indirect(E(y)), e)>>, ToJmp) : e \in Deep}
  \cup {GenBlock(<<IncDec(Direct(a)), Assign(Direct(b), e)>>, z) :
          e \in Deep, z \in {ToIf(E(a)), ToReturn(<<E(b), E(a)>>)}}
  \cup {GenBlock(<<OpAssign(Direct(y), E(Lit(1))), Assign(Direct(b), e)>>,
                 ToReturn(<<E(b), E(y)>>)) : e \in Deep}
  \cup {GenBlock(<<>>, ToReturn(<<CallF(<<e, At1(E(Lit(8)))>>)>>)) : e \in Deep}
  \cup {GenBlock(<<Assign(Direct(a), Plus(e, CallF(<<E(Lit(8))>>)))>>, ToJmp) :
          e \in Trees(Units, 1, 4)}
  \cup {GenBlock(<<Swap(Direct(a), Indirect(E(y)))>>, ToIf(e)) : e \in Trees(Units, 1, 5)}

-----------------------------------------------------------------------------
\* Blocks the allocator gets wrong.  Each set is meant for the constant Blocks
\* and one property; the README has the table.

\* set a += x;  exit a;
ExitBlocks == {GenBlock(<<OpAssign(Direct(a), E(x))>>, ToExit(E(a)))}

\* return y, x + 1;
ReturnOrderBlocks == {GenBlock(<<>>, ToReturn(<<E(y), Plus(E(x), E(Lit(1)))>>))}

\* set a += x;  return a, a;
ReturnTwiceBlocks == {GenBlock(<<OpAssign(Direct(a), E(x))>>, ToReturn(<<E(a), E(a)>>))}

\* set a += x;  return a@[y], a, x;   (the callee is itself computed)
ComputedCalleeBlocks ==
  {GenBlock(<<OpAssign(Direct(a), E(x))>>,
            ToReturn(<<At1(E(y)) \o E(x) \o <<CallOf(1, 1)>>, E(a)>>))}

\* y[x];  set a = y;
CalleeKeptBlocks == {GenBlock(<<Expr(CallP(y, <<E(x)>>)), Assign(Direct(a), E(y))>>, ToJmp)}

\* set g[x]@, a = f[b];   (two results wait for the call in the first target)
SpillLeakBlocks ==
  {GenBlock(<<MultiAssign(<<Indirect(CallF(<<E(x)>>)), Direct(a)>>,
                          <<Leaf(f), Leaf(b), CallOf(1, 2)>>)>>, ToJmp)}

\* One value more than there are registers or slots.
Each(Op(_)) == [i \in 1 .. 12 |-> Op(i - 1)]

\* set f@ = v0; ... set f@ = v10;  set f@ = v0 + v11;  set f@ = v11; ...
\* set f@ = v0;   (in PIR)
EvictedOperandBlocks ==
  LET put(i) == StorePtr(Var(i), f)
  IN {[code |-> SubSeq(Each(put), 1, 11)
                  \o <<Bin(Var(0), Var(11), Temp(0)), StorePtr(Temp(0), f)>>
                  \o Reverse(Each(put)),
       out  |-> Jmp]}

\* set v0++;  ...  set v11++;
ManyCountersBlocks ==
  LET inc(i) == IncDec(Direct(Var(i)))
  IN {GenBlock(Each(inc), ToJmp)}

\* f[f[0], f[1], ..., f[17]];
ManyArgumentsBlocks ==
  {GenBlock(<<Expr(CallF([i \in 1 .. 18 |-> CallF(<<E(Lit(i))>>)]))>>, ToJmp)}

\* return x + 1, x + 2, ..., x + 23;   (in PIR)
ManyReturnsBlocks ==
  {[code |-> [i \in 1 .. 23 |-> Bin(x, Lit(i), Temp(i - 1))],
    out  |-> Return([i \in 1 .. 23 |-> Temp(i - 1)])]}

=============================================================================

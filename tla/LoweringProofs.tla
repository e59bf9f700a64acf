--------------------------- MODULE LoweringProofs ---------------------------
(***************************************************************************)
(* Linearization preserves the meaning of every block, and makes           *)
(* well-formed code of it.                                                 *)
(***************************************************************************)
EXTENDS Lowering, SequenceTheorems, TLAPS

Nodewise    == INSTANCE FoldFacts WITH Op <- GenNode
Evaluation  == INSTANCE FoldFacts WITH Op <- EvalNode
Execution   == INSTANCE FoldFacts WITH Op <- Exec
Growth      == INSTANCE FoldFacts WITH Op <- Grow
Generation  == INSTANCE FoldFacts WITH Op <- GenExpr
Evaluations == INSTANCE FoldFacts WITH Op <- Eval
Receiving   == INSTANCE FoldFacts WITH Op <- GenAssignRet
Assigning   == INSTANCE FoldFacts WITH Op <- AssignRet

\* FoldLeft is the fold that FoldFacts has the equations of.
LEMMA GenExprFold == \A c, e : GenExpr(c, e) = Nodewise!Fold(c, e)
BY DEF GenExpr, FoldLeft, MapThenFoldSet, Max,
       Nodewise!Fold, Nodewise!Table, Nodewise!Largest

LEMMA EvalFold == \A m, e : Eval(m, e) = Evaluation!Fold(m, e)
BY DEF Eval, FoldLeft, MapThenFoldSet, Max,
       Evaluation!Fold, Evaluation!Table, Evaluation!Largest

LEMMA RunFold == \A m, code : Run(m, code) = Execution!Fold(m, code)
BY DEF Run, FoldLeft, MapThenFoldSet, Max,
       Execution!Fold, Execution!Table, Execution!Largest

LEMMA HeightFold == \A e : Height(e) = Growth!Fold(0, e)
BY DEF Height, FoldLeft, MapThenFoldSet, Max,
       Growth!Fold, Growth!Table, Growth!Largest

LEMMA EndFold ==
  /\ \A c, es : FoldLeft(GenExpr, c, es) = Generation!Fold(c, es)
  /\ \A m, es : FoldLeft(Eval, m, es) = Evaluations!Fold(m, es)
BY DEF FoldLeft, MapThenFoldSet, Max,
       Generation!Fold, Generation!Table, Generation!Largest,
       Evaluations!Fold, Evaluations!Table, Evaluations!Largest

LEMMA MultiFold ==
  /\ \A c, a : FoldLeft(GenAssignRet, c, a) = Receiving!Fold(c, a)
  /\ \A m, a : FoldLeft(AssignRet, m, a) = Assigning!Fold(m, a)
BY DEF FoldLeft, MapThenFoldSet, Max,
       Receiving!Fold, Receiving!Table, Receiving!Largest,
       Assigning!Fold, Assigning!Table, Assigning!Largest

\* Executing one more instruction, or more code.
LEMMA RunMore ==
  ASSUME NEW S, NEW q \in Seq(S), NEW x \in S, NEW m
  PROVE  Run(m, Append(q, x)) = Exec(Run(m, q), x)
BY RunFold, Execution!FoldMore

LEMMA RunBoth ==
  ASSUME NEW S, NEW q \in Seq(S), NEW r \in Seq(S), NEW m
  PROVE  Run(m, q \o r) = Run(Run(m, q), r)
BY RunFold, Execution!FoldBoth
-----------------------------------------------------------------------------
\* Sequences of anything.

Elems(q) == {q[k] : k \in 1 .. Len(q)}
IsSeq(q) == q \in Seq(Elems(q))

\* Length, domain, members and equality of such sequences.
LEMMA SeqLen ==
  ASSUME NEW q, IsSeq(q)
  PROVE  Len(q) \in Nat /\ DOMAIN q = 1 .. Len(q)
BY LenProperties DEF IsSeq

LEMMA SeqIn ==
  ASSUME NEW q, IsSeq(q), NEW S, \A k \in 1 .. Len(q) : q[k] \in S
  PROVE  q \in Seq(S)
<1>1. Elems(q) \subseteq S
  BY DEF Elems
<1> QED BY <1>1, SeqMonotonic DEF IsSeq

LEMMA SeqOver ==
  ASSUME NEW S, NEW q \in Seq(S)
  PROVE  IsSeq(q) /\ Len(q) \in Nat /\ DOMAIN q = 1 .. Len(q)
         /\ \A k \in 1 .. Len(q) : q[k] \in S
<1>1. Len(q) \in Nat /\ DOMAIN q = 1 .. Len(q) /\ \A k \in 1 .. Len(q) : q[k] \in S
  BY LenProperties, ElementOfSeq
<1>2. q = [k \in 1 .. Len(q) |-> q[k]]
  BY LenProperties
<1>3. \A k \in 1 .. Len(q) : q[k] \in Elems(q)
  BY DEF Elems
<1>4. q \in [1 .. Len(q) -> Elems(q)]
  <2> DEFINE n == Len(q)
             T == Elems(q)
  <2>1. q = [k \in 1 .. n |-> q[k]] /\ \A k \in 1 .. n : q[k] \in T
    BY <1>2, <1>3
  <2> HIDE DEF n, T
  <2>2. q \in [1 .. n -> T]
    BY <2>1
  <2> QED BY <2>2 DEF n, T
<1>5. q \in Seq(Elems(q))
  BY <1>1, <1>4, SeqDef
<1> QED BY <1>1, <1>5 DEF IsSeq

LEMMA SameSeq ==
  ASSUME NEW q, NEW r, IsSeq(q), IsSeq(r), Len(q) = Len(r),
         \A k \in 1 .. Len(q) : q[k] = r[k]
  PROVE  q = r
<1>1. r \in Seq(Elems(q))
  <2>1. \A k \in 1 .. Len(r) : r[k] \in Elems(q)
    BY DEF Elems
  <2> QED BY <2>1, SeqIn
<1>2. q \in Seq(Elems(q))
  BY DEF IsSeq
<1> HIDE DEF Elems
<1> QED BY <1>1, <1>2, SeqEqual

\* A function on 1 .. n is a sequence of length n.
LEMMA SeqMade ==
  ASSUME NEW n \in Nat, NEW f, f = [k \in 1 .. n |-> f[k]]
  PROVE  IsSeq(f) /\ Len(f) = n
<1> DEFINE T == {f[k] : k \in 1 .. n}
<1>1. \A k \in 1 .. n : f[k] \in T
  OBVIOUS
<1> HIDE DEF T
<1>2. f \in [1 .. n -> T]
  BY <1>1
<1>3. f \in Seq(T)
  BY <1>2, SeqDef
<1>4. Len(f) \in Nat /\ DOMAIN f = 1 .. Len(f) /\ DOMAIN f = 1 .. n
  BY <1>2, <1>3, LenProperties
<1>5. Len(f) = n
  BY <1>4
<1> QED BY <1>3, <1>5, SeqOver

LEMMA Single == \A x : /\ IsSeq(<<x>>) /\ Len(<<x>>) = 1 /\ <<x>>[1] = x
                       /\ \A y : IsSeq(<<x, y>>) /\ Len(<<x, y>>) = 2
<1>1. ASSUME NEW x PROVE IsSeq(<<x>>)
  <2>1. <<x>> \in Seq({x})
    OBVIOUS
  <2> QED BY <2>1, SeqOver
<1>2. ASSUME NEW x, NEW y PROVE IsSeq(<<x, y>>)
  <2>1. <<x, y>> \in Seq({x, y})
    OBVIOUS
  <2> QED BY <2>1, SeqOver
<1> QED BY <1>1, <1>2

\* w is q with the n elements on top replaced by those of r.
Stacked(q, n, r, w) ==
  /\ IsSeq(w)
  /\ Len(w) = Len(q) - n + Len(r)
  /\ \A k \in 1 .. Len(q) - n : w[k] = q[k]
  /\ \A k \in 1 .. Len(r) : w[Len(q) - n + k] = r[k]

\* What genExpr leaves of the stack: n operands gone, others in their place.
LEMMA Restack ==
  ASSUME NEW q, NEW r, IsSeq(q), IsSeq(r), NEW n \in Nat, n <= Len(q)
  PROVE  Stacked(q, n, r, SubSeq(q, 1, Len(q) - n) \o r)
<1> DEFINE m == Len(q) - n
           j == Len(r)
           p == SubSeq(q, 1, m)
           T == Elems(q) \cup Elems(r)
<1>1. q \in Seq(T) /\ r \in Seq(T) /\ m \in Nat /\ m <= Len(q) /\ Len(q) \in Nat /\ j \in Nat
  BY SeqMonotonic, SeqLen DEF IsSeq
<1>2. \A k \in 1 .. m : q[k] \in T
  BY <1>1, ElementOfSeq
<1>3. p \in Seq(T) /\ Len(p) = m /\ \A k \in 1 .. m : p[k] = q[k]
  <2> HIDE DEF m, T
  <2>1. /\ SubSeq(q, 1, m) \in Seq(T)
        /\ Len(SubSeq(q, 1, m)) = IF 1 <= m THEN m - 1 + 1 ELSE 0
        /\ \A i \in 1 .. m - 1 + 1 : SubSeq(q, 1, m)[i] = q[1 + i - 1]
    BY <1>1, <1>2, SubSeqProperties
  <2> QED BY <1>1, <2>1
<1> HIDE DEF p, T
<1>4. /\ p \o r \in Seq(T) /\ Len(p \o r) = m + j
      /\ \A i \in 1 .. m + j : (p \o r)[i] = IF i <= m THEN p[i] ELSE r[i - m]
  <2> HIDE DEF m
  <2> QED BY <1>1, <1>3, ConcatProperties
<1> HIDE DEF m, j
<1>5. \A k \in 1 .. m : (p \o r)[k] = q[k]
  BY <1>1, <1>3, <1>4
<1>6. \A k \in 1 .. j : (p \o r)[m + k] = r[k]
  <2>1. ASSUME NEW k \in 1 .. j PROVE (p \o r)[m + k] = r[k]
    <3>1. m + k \in 1 .. m + j /\ ~(m + k <= m) /\ (m + k) - m = k
      BY <1>1
    <3>2. (p \o r)[m + k] = r[(m + k) - m]
      BY <3>1, <1>4
    <3> QED BY <3>1, <3>2
  <2> QED BY <2>1
<1>7. IsSeq(p \o r)
  BY <1>4, SeqOver
<1> QED BY <1>4, <1>5, <1>6, <1>7 DEF Stacked, m, j, p

\* The n elements on top.
LEMMA TopSlice ==
  ASSUME NEW q, IsSeq(q), NEW n \in Nat, n <= Len(q)
  PROVE  LET w == SubSeq(q, Len(q) - n + 1, Len(q))
         IN IsSeq(w) /\ Len(w) = n /\ \A k \in 1 .. n : w[k] = q[Len(q) - n + k]
<1> DEFINE a == Len(q) - n + 1
           b == Len(q)
           T == Elems(q)
<1>1. a \in Int /\ b \in Int /\ a >= 1 /\ b - a + 1 = n /\ b \in Nat
  BY SeqLen
<1>2. \A i \in a .. b : q[i] \in T
  BY <1>1 DEF Elems
<1>3. /\ SubSeq(q, a, b) \in Seq(T)
      /\ Len(SubSeq(q, a, b)) = IF a <= b THEN b - a + 1 ELSE 0
      /\ \A i \in 1 .. b - a + 1 : SubSeq(q, a, b)[i] = q[a + i - 1]
  <2> HIDE DEF a, b, T
  <2> QED BY <1>1, <1>2, SubSeqProperties
<1>4. IsSeq(SubSeq(q, a, b))
  BY <1>3, SeqOver
<1>5. Len(SubSeq(q, a, b)) = n
  <2> HIDE DEF a, b, T
  <2> QED BY <1>1, <1>3
<1>6. \A k \in 1 .. n : SubSeq(q, a, b)[k] = q[Len(q) - n + k]
  <2>1. \A k \in 1 .. n : a + k - 1 = Len(q) - n + k
    BY SeqLen
  <2> HIDE DEF a
  <2> QED BY <1>1, <1>3, <2>1
<1> QED BY <1>4, <1>5, <1>6

-----------------------------------------------------------------------------
\* Machines.

IsMachine(m) == /\ m = [env |-> m.env, trace |-> m.trace, out |-> m.out]
                /\ m.env = [v \in Values |-> m.env[v]]

\* q is p with t in v.
Wrote(p, q, v, t) ==
  /\ IsMachine(q) /\ q.trace = p.trace /\ q.out = p.out
  /\ q.env[v] = t
  /\ \A u \in Values \ {v} : q.env[u] = p.env[u]

\* q is p but for its trace.
Traced(p, q) == IsMachine(q) /\ q.env = p.env /\ q.out = p.out

\* What each change of a machine leaves alone.
LEMMA SetWrites ==
  ASSUME NEW m, IsMachine(m), NEW v \in Values, NEW t
  PROVE  Wrote(m, Set(m, v, t), v, t)
<1> DEFINE e == m.env
           f == [e EXCEPT ![v] = t]
<1>1. Set(m, v, t) = [env |-> f, trace |-> m.trace, out |-> m.out]
  BY DEF Set, IsMachine
<1>2. e = [u \in Values |-> e[u]]
  BY DEF IsMachine
<1>3. f = [u \in Values |-> f[u]] /\ f[v] = t /\ \A u \in Values \ {v} : f[u] = e[u]
  <2> HIDE DEF e
  <2> QED BY <1>2
<1> HIDE DEF f
<1> QED BY <1>1, <1>3 DEF Wrote, IsMachine

LEMMA StoreTraces ==
  ASSUME NEW m, IsMachine(m), NEW t, NEW p
  PROVE  /\ Traced(m, DoStore(m, t, p))
         /\ DoStore(m, t, p).trace = Append(m.trace, Term("store", <<t, p>>, 0))
<1>1. DoStore(m, t, p) = [env |-> m.env, trace |-> Append(m.trace, Term("store", <<t, p>>, 0)),
                          out |-> m.out]
  BY DEF DoStore, IsMachine
<1> QED BY <1>1 DEF Traced, IsMachine

LEMMA CallTraces ==
  ASSUME NEW m, IsMachine(m), NEW ops
  PROVE  /\ Traced(m, DoCall(m, ops))
         /\ DoCall(m, ops).trace = Append(m.trace, Term("call", ops, 0))
<1>1. DoCall(m, ops) = [env |-> m.env, trace |-> Append(m.trace, Term("call", ops, 0)),
                        out |-> m.out]
  BY DEF DoCall, IsMachine
<1> QED BY <1>1 DEF Traced, IsMachine

\* What each kind of instruction does to the machine.
LEMMA ExecBin ==
  ASSUME NEW m, NEW a, NEW b, NEW c
  PROVE  Exec(m, Bin(a, b, c)) = Set(m, c, Term("bin", <<Value(m, a), Value(m, b)>>, 0))
<1> DEFINE ins == Bin(a, b, c)
           v == [k \in DOMAIN ins.ops |-> Value(m, ins.ops[k])]
<1>1. ins.t = "bin" /\ ins.ops = <<a, b>> /\ ins.dest[1] = c
  BY DEF Bin, Instr
<1>2. v = <<Value(m, a), Value(m, b)>>
  <2> HIDE DEF ins
  <2>1. DOMAIN ins.ops = 1 .. 2 /\ ins.ops[1] = a /\ ins.ops[2] = b
    BY <1>1
  <2>2. v = [k \in 1 .. 2 |-> v[k]] /\ v[1] = Value(m, a) /\ v[2] = Value(m, b)
    BY <2>1
  <2>3. IsSeq(v) /\ Len(v) = 2
    <3> HIDE DEF v
    <3> QED BY <2>2, SeqMade
  <2> HIDE DEF v
  <2> QED BY <2>2, <2>3, Single, SameSeq
<1> HIDE DEF ins
<1>3. Exec(m, ins) = Set(m, ins.dest[1], Term("bin", v, 0))
  BY <1>1 DEF Exec
<1> QED BY <1>1, <1>2, <1>3 DEF ins

LEMMA ExecOne ==
  ASSUME NEW m, NEW ins, NEW a, ins.ops = <<a>>
  PROVE  LET v == [k \in DOMAIN ins.ops |-> Value(m, ins.ops[k])]
         IN v = <<Value(m, a)>> /\ v[1] = Value(m, a)
<1> DEFINE v == [k \in DOMAIN ins.ops |-> Value(m, ins.ops[k])]
<1>1. v = [k \in 1 .. 1 |-> v[k]] /\ v[1] = Value(m, a)
  OBVIOUS
<1>2. IsSeq(v) /\ Len(v) = 1
  <2> HIDE DEF v
  <2> QED BY <1>1, SeqMade
<1> HIDE DEF v
<1>3. v = <<Value(m, a)>>
  BY <1>1, <1>2, Single, SameSeq
<1> QED BY <1>1, <1>3 DEF v

LEMMA ExecUn ==
  ASSUME NEW m, NEW a, NEW c
  PROVE  Exec(m, Un(a, c)) = Set(m, c, Term("un", <<Value(m, a)>>, 0))
<1> DEFINE ins == Un(a, c)
<1>1. ins.t = "un" /\ ins.ops = <<a>> /\ ins.dest[1] = c
  BY DEF Un, Instr
<1> HIDE DEF ins
<1>2. Exec(m, ins) = Set(m, c, Term("un", <<Value(m, a)>>, 0))
  BY <1>1, ExecOne DEF Exec
<1> QED BY <1>2 DEF ins

LEMMA ExecLoad ==
  ASSUME NEW m, NEW a, NEW c
  PROVE  Exec(m, LoadPtr(a, c)) = Set(m, c, LoadTerm(m, Value(m, a)))
<1> DEFINE ins == LoadPtr(a, c)
<1>1. ins.t = "loadptr" /\ ins.ops = <<a>> /\ ins.dest[1] = c
  BY DEF LoadPtr, Instr
<1> HIDE DEF ins
<1>2. Exec(m, ins) = Set(m, c, LoadTerm(m, Value(m, a)))
  BY <1>1, ExecOne DEF Exec
<1> QED BY <1>2 DEF ins

LEMMA ExecCopy ==
  ASSUME NEW m, NEW a, NEW c
  PROVE  Exec(m, Copy(a, c)) = Set(m, c, Value(m, a))
<1> DEFINE ins == Copy(a, c)
<1>1. ins.t = "copy" /\ ins.ops = <<a>> /\ ins.dest[1] = c
  BY DEF Copy, Instr
<1> HIDE DEF ins
<1>2. Exec(m, ins) = Set(m, c, Value(m, a))
  BY <1>1, ExecOne DEF Exec
<1> QED BY <1>2 DEF ins

LEMMA ExecStore ==
  ASSUME NEW m, NEW a, NEW p
  PROVE  Exec(m, StorePtr(a, p)) = DoStore(m, Value(m, a), Value(m, p))
<1> DEFINE ins == StorePtr(a, p)
           v == [k \in DOMAIN ins.ops |-> Value(m, ins.ops[k])]
<1>1. ins.t = "storeptr" /\ ins.ops = <<a, p>>
  BY DEF StorePtr, Instr
<1> HIDE DEF ins
<1>2. v[1] = Value(m, a) /\ v[2] = Value(m, p)
  BY <1>1
<1> HIDE DEF v
<1>3. Exec(m, ins) = DoStore(m, v[1], v[2])
  BY <1>1 DEF Exec, v
<1> QED BY <1>2, <1>3 DEF ins

\* The values of operands, and a call with them whose results are in rets.
Vals(m, ops) == [k \in DOMAIN ops |-> Value(m, ops[k])]

Called(p, q, ops, rets) ==
  /\ IsMachine(q) /\ q.out = p.out
  /\ q.trace = Append(p.trace, Term("call", Vals(p, ops), 0))
  /\ \A k \in 1 .. Len(rets) : q.env[rets[k]] = RetTerm(q, k)
  /\ \A u \in Values : (\A k \in 1 .. Len(rets) : rets[k] # u) => q.env[u] = p.env[u]

Distinct(rets) ==
  /\ IsSeq(rets)
  /\ \A k \in 1 .. Len(rets) : rets[k] \in Values
  /\ \A j, k \in 1 .. Len(rets) : rets[j] = rets[k] => j = k

\* A call gives each of its results to a destination of its own.
LEMMA ExecCall ==
  ASSUME NEW m, IsMachine(m), NEW f, NEW args, NEW rets, Distinct(rets)
  PROVE  Called(m, Exec(m, Call(f, args, rets)), <<f>> \o args, rets)
<1> DEFINE ops == <<f>> \o args
           v   == [k \in DOMAIN ops |-> Value(m, ops[k])]
           ins == Call(f, args, rets)
           c   == DoCall(m, v)
           g(u) == IF \E k \in DOMAIN rets : rets[k] = u
                   THEN RetTerm(c, CHOOSE k \in DOMAIN rets : rets[k] = u)
                   ELSE c.env[u]
           q   == Exec(m, ins)
<1>1. ins.t = "call" /\ ins.ops = ops /\ ins.dest = rets
  BY DEF Call, Instr
<1>2. Traced(m, c) /\ c.trace = Append(m.trace, Term("call", v, 0))
  <2> HIDE DEF v
  <2> QED BY CallTraces
<1> HIDE DEF ins, ops
<1>3. q = [c EXCEPT !.env = [u \in DOMAIN @ |->
                  IF \E k \in DOMAIN rets : rets[k] = u
                  THEN RetTerm(c, CHOOSE k \in DOMAIN rets : rets[k] = u)
                  ELSE @[u]]]
  BY <1>1 DEF Exec
<1>4. DOMAIN c.env = Values
  BY <1>2 DEF Traced, IsMachine
<1> HIDE DEF c, q, v
<1>5. q = [env |-> [u \in Values |-> g(u)], trace |-> c.trace, out |-> c.out]
  BY <1>2, <1>3, <1>4 DEF Traced, IsMachine
<1> HIDE DEF g
<1>6. /\ IsMachine(q) /\ q.out = m.out /\ q.trace = c.trace
      /\ \A u \in Values : q.env[u] = g(u)
  BY <1>2, <1>5 DEF Traced, IsMachine
<1>7. DOMAIN rets = 1 .. Len(rets)
  BY SeqLen DEF Distinct
<1>8. ASSUME NEW k \in 1 .. Len(rets) PROVE q.env[rets[k]] = RetTerm(q, k)
  <2>1. (CHOOSE i \in DOMAIN rets : rets[i] = rets[k]) = k
    BY <1>7 DEF Distinct
  <2>2. g(rets[k]) = RetTerm(c, k)
    BY <2>1, <1>7 DEF g
  <2>3. q.env[rets[k]] = g(rets[k])
    BY <1>6 DEF Distinct
  <2> QED BY <2>2, <2>3, <1>6 DEF RetTerm
<1>9. ASSUME NEW u \in Values, \A k \in 1 .. Len(rets) : rets[k] # u
      PROVE  q.env[u] = m.env[u]
  <2>1. g(u) = c.env[u]
    BY <1>7, <1>9 DEF g
  <2> QED BY <2>1, <1>2, <1>6 DEF Traced
<1> QED BY <1>2, <1>6, <1>8, <1>9 DEF Called, Vals, q, ins, ops, v

-----------------------------------------------------------------------------
\* The code of a block, and the machine after it.

Writes(ins) == {ins.dest[k] : k \in DOMAIN ins.dest} \cap Temps
Reads(ins)  == {ins.ops[k] : k \in DOMAIN ins.ops} \cap Temps

TempsBelow(t) == {Temp(i) : i \in 0 .. t - 1}

\* The operands that mean something once t temporaries are written.
Known(t) == Sources \cup TempsBelow(t)

CodeRight(code, t) ==
  /\ code \in Seq(Instrs) /\ t \in 0 .. NumTemps
  /\ \A i \in DOMAIN code : WellFormedInstr(code[i])
  /\ \A i, j \in DOMAIN code : i # j => Writes(code[i]) \cap Writes(code[j]) = {}
  /\ \A i \in DOMAIN code : Reads(code[i]) \subseteq UNION {Writes(code[j]) : j \in 1 .. i - 1}
  /\ UNION {Writes(code[i]) : i \in DOMAIN code} = TempsBelow(t)

\* An instruction that reads what was written and writes what was not
\* can be added.
LEMMA CodeMore ==
  ASSUME NEW code, NEW t, CodeRight(code, t), NEW ins, WellFormedInstr(ins),
         NEW n \in Nat, t + n <= NumTemps,
         Reads(ins) \subseteq TempsBelow(t),
         Writes(ins) \cap TempsBelow(t) = {},
         TempsBelow(t) \cup Writes(ins) = TempsBelow(t + n)
  PROVE  CodeRight(Append(code, ins), t + n)
<1> DEFINE m == Len(code)
           d == Append(code, ins)
<1>1. ins \in Instrs /\ code \in Seq(Instrs) /\ t \in Nat
  BY DEF CodeRight, WellFormedInstr
<1>2. m \in Nat /\ DOMAIN code = 1 .. m
  BY <1>1, LenProperties
<1>3. d \in Seq(Instrs) /\ DOMAIN d = 1 .. m + 1 /\ d[m + 1] = ins
      /\ \A i \in 1 .. m : d[i] = code[i]
  BY <1>1, AppendProperties, LenProperties
<1> HIDE DEF m, d
<1>4. \A i \in DOMAIN d : WellFormedInstr(d[i])
  BY <1>2, <1>3 DEF CodeRight
<1>5. UNION {Writes(code[i]) : i \in DOMAIN code} = TempsBelow(t)
  BY DEF CodeRight
<1>6. \A i \in 1 .. m : Writes(code[i]) \cap Writes(ins) = {}
  BY <1>2, <1>5
<1>7. ASSUME NEW i \in DOMAIN d, NEW j \in DOMAIN d, i # j
      PROVE  Writes(d[i]) \cap Writes(d[j]) = {}
  <2>1. CASE i \in 1 .. m /\ j \in 1 .. m
    BY <2>1, <1>2, <1>3, <1>7 DEF CodeRight
  <2>2. CASE i = m + 1
    <3>1. j \in 1 .. m
      BY <2>2, <1>2, <1>3, <1>7
    <3> QED BY <3>1, <2>2, <1>3, <1>6
  <2>3. CASE j = m + 1
    <3>1. i \in 1 .. m
      BY <2>3, <1>2, <1>3, <1>7
    <3> QED BY <3>1, <2>3, <1>3, <1>6
  <2> QED BY <2>1, <2>2, <2>3, <1>2, <1>3
<1>8. ASSUME NEW i \in DOMAIN d
      PROVE  Reads(d[i]) \subseteq UNION {Writes(d[j]) : j \in 1 .. i - 1}
  <2>1. CASE i \in 1 .. m
    <3>1. \A j \in 1 .. i - 1 : d[j] = code[j]
      BY <2>1, <1>2, <1>3
    <3>2. Reads(code[i]) \subseteq UNION {Writes(code[j]) : j \in 1 .. i - 1}
      BY <2>1, <1>2 DEF CodeRight
    <3> QED BY <3>1, <3>2, <2>1, <1>3
  <2>2. CASE i = m + 1
    <3>1. \A j \in 1 .. i - 1 : d[j] = code[j]
      BY <2>2, <1>2, <1>3
    <3>2. 1 .. i - 1 = DOMAIN code
      BY <2>2, <1>2
    <3> QED BY <3>1, <3>2, <2>2, <1>3, <1>5
  <2> QED BY <2>1, <2>2, <1>2, <1>3
<1>9. UNION {Writes(d[i]) : i \in DOMAIN d} = TempsBelow(t + n)
  <2>1. UNION {Writes(d[i]) : i \in DOMAIN d}
          = (UNION {Writes(code[i]) : i \in DOMAIN code}) \cup Writes(ins)
    <3> DEFINE W(i) == Writes(d[i])
               V(i) == Writes(code[i])
    <3>1. DOMAIN d = DOMAIN code \cup {m + 1}
      BY <1>2, <1>3
    <3>2. W(m + 1) = Writes(ins) /\ \A i \in DOMAIN code : W(i) = V(i)
      BY <1>2, <1>3
    <3> HIDE DEF W, V
    <3>3. UNION {W(i) : i \in DOMAIN d} = (UNION {V(i) : i \in DOMAIN code}) \cup Writes(ins)
      BY <3>1, <3>2
    <3> QED BY <3>3 DEF W, V
  <2> QED BY <2>1, <1>5
<1>10. t + n \in 0 .. NumTemps
  BY <1>1, PirSizes
<1> QED BY <1>3, <1>4, <1>7, <1>8, <1>9, <1>10 DEF CodeRight, d

\* Which temporaries there are, and what an operand can be.
LEMMA TempFacts ==
  ASSUME NEW t \in Nat
  PROVE  /\ \A n \in Nat : TempsBelow(t + n) = TempsBelow(t) \cup {Temp(t + i) : i \in 0 .. n - 1}
         /\ \A n \in Nat : TempsBelow(t) \subseteq TempsBelow(t + n)
         /\ \A i \in Nat : Temp(t + i) \notin TempsBelow(t)
         /\ \A i, j \in Nat : Temp(i) = Temp(j) => i = j
         /\ t <= NumTemps => TempsBelow(t) \subseteq Temps
         /\ \A i \in Nat : i < NumTemps => Temp(i) \in Temps
<1>1. \A i, j \in Nat : Temp(i) = Temp(j) => i = j
  BY DEF Temp, Operand
<1>2. ASSUME NEW n \in Nat
      PROVE  TempsBelow(t + n) = TempsBelow(t) \cup {Temp(t + i) : i \in 0 .. n - 1}
  <2>1. ASSUME NEW i \in 0 .. (t + n) - 1, i \notin 0 .. t - 1
        PROVE  \E j \in 0 .. n - 1 : i = t + j
    <3>1. i - t \in 0 .. n - 1 /\ i = t + (i - t)
      BY <2>1
    <3> QED BY <3>1
  <2>2. ASSUME NEW j \in 0 .. n - 1 PROVE t + j \in 0 .. (t + n) - 1
    OBVIOUS
  <2>3. 0 .. t - 1 \subseteq 0 .. (t + n) - 1
    OBVIOUS
  <2> QED BY <2>1, <2>2, <2>3 DEF TempsBelow
<1>3. \A i \in Nat : Temp(t + i) \notin TempsBelow(t)
  BY <1>1 DEF TempsBelow
<1>4. t <= NumTemps => TempsBelow(t) \subseteq Temps
  BY PirSizes DEF TempsBelow, Temps
<1>5. \A i \in Nat : i < NumTemps => Temp(i) \in Temps
  BY PirSizes DEF Temps
<1> QED BY <1>1, <1>2, <1>3, <1>4, <1>5

LEMMA SourceFacts ==
  /\ Sources \cap Temps = {}
  /\ Sources \subseteq Operands /\ Locals \cup Args \subseteq Sources
  /\ Locals \cup Args \subseteq Values /\ Temps \subseteq Values
  /\ \A n \in Nat : Lit(n) \in Sources /\ Lit(n) \notin Values
<1>1. Sources \cap Temps = {}
  BY DEF Sources, Temps, Locals, Args, Temp, Var, Arg, Operand
<1>2. Sources \subseteq Operands /\ Locals \cup Args \subseteq Sources
  BY DEF Sources, Operands, Values
<1>3. Locals \cup Args \subseteq Values /\ Temps \subseteq Values
  BY DEF Values
<1>4. \A n \in Nat : Lit(n) \in Sources /\ Lit(n) \notin Values
  BY DEF Sources, Values, Temps, Locals, Args, Temp, Var, Arg, Lit, Operand
<1> QED BY <1>1, <1>2, <1>3, <1>4

LEMMA KnownFacts ==
  ASSUME NEW t \in Nat, t <= NumTemps
  PROVE  /\ Known(t) \subseteq Operands
         /\ Known(t) \cap Temps = TempsBelow(t)
         /\ \A n \in Nat : Known(t) \subseteq Known(t + n)
<1>1. TempsBelow(t) \subseteq Temps /\ \A n \in Nat : TempsBelow(t) \subseteq TempsBelow(t + n)
  BY TempFacts
<1>2. Temps \subseteq Operands
  BY DEF Operands, Values
<1> QED BY <1>1, <1>2, SourceFacts DEF Known

Emits(code, t, p) == CodeRight(code, t) /\ IsMachine(p) /\ p = Run(Start, code)

\* One more instruction emitted and executed, by what it writes: a
\* temporary or a variable, memory, the returns of a call.
LEMMA EmitMore ==
  ASSUME NEW code, NEW t, NEW p, Emits(code, t, p), NEW ins, WellFormedInstr(ins),
         NEW n \in Nat, t + n <= NumTemps,
         \A k \in DOMAIN ins.ops : ins.ops[k] \in Known(t),
         Writes(ins) = {Temp(t + i) : i \in 0 .. n - 1},
         IsMachine(Exec(p, ins))
  PROVE  Emits(Append(code, ins), t + n, Exec(p, ins))
<1>1. t \in Nat /\ t <= NumTemps
  BY PirSizes DEF Emits, CodeRight
<1>2. /\ TempsBelow(t + n) = TempsBelow(t) \cup Writes(ins)
      /\ Writes(ins) \cap TempsBelow(t) = {}
  BY <1>1, TempFacts
<1>3. Reads(ins) \subseteq TempsBelow(t)
  BY <1>1, KnownFacts DEF Reads
<1>4. CodeRight(Append(code, ins), t + n)
  BY <1>2, <1>3, CodeMore DEF Emits
<1>5. Run(Start, Append(code, ins)) = Exec(p, ins)
  <2>1. code \in Seq(Instrs) /\ ins \in Instrs /\ p = Run(Start, code)
    BY DEF Emits, CodeRight, WellFormedInstr
  <2> QED BY <2>1, RunMore
<1> QED BY <1>4, <1>5 DEF Emits

\* v is a destination of the instruction after t temporaries: the next
\* temporary (n = 1), or a variable or an argument.
Dest(t, n, v) == \/ n = 1 /\ v = Temp(t) /\ t < NumTemps
                 \/ n = 0 /\ v \in Locals \cup Args

LEMMA EmitSet ==
  ASSUME NEW code, NEW t, NEW p, Emits(code, t, p), NEW n, NEW v, Dest(t, n, v),
         NEW ins, ins \in [t : {"bin", "un", "loadptr", "copy"}, ops : Seq(Known(t)), dest : {<<v>>}],
         Len(ins.ops) = IF ins.t = "bin" THEN 2 ELSE 1,
         NEW x, Exec(p, ins) = Set(p, v, x)
  PROVE  /\ Emits(Append(code, ins), t + n, Exec(p, ins))
         /\ Wrote(p, Exec(p, ins), v, x)
<1>1. t \in Nat /\ t <= NumTemps /\ n \in Nat /\ t + n <= NumTemps
  BY PirSizes DEF Emits, CodeRight, Dest
<1>2. v \in Values
  BY <1>1, TempFacts, SourceFacts DEF Dest
<1>3. Wrote(p, Exec(p, ins), v, x)
  BY <1>2, SetWrites DEF Emits
<1>4. WellFormedInstr(ins)
  <2>1. ins.ops \in Seq(Operands)
    BY <1>1, KnownFacts, SeqMonotonic
  <2>2. ins.dest \in Seq(Values) /\ Len(ins.dest) = 1
    <3>1. ins.dest = <<v>>
      OBVIOUS
    <3>2. <<v>> \in Seq(Values) /\ Len(<<v>>) = 1
      BY <1>2
    <3> QED BY <3>1, <3>2
  <2>3. ins \in Instrs
    <3>1. /\ ins = [t |-> ins.t, ops |-> ins.ops, dest |-> ins.dest]
          /\ ins.t \in {"bin", "un", "loadptr", "storeptr", "copy", "call"}
      OBVIOUS
    <3> QED BY <3>1, <2>1, <2>2 DEF Instrs
  <2>4. /\ Arity.bin = <<2, 1>> /\ Arity.un = <<1, 1>> /\ Arity.loadptr = <<1, 1>>
        /\ Arity.copy = <<1, 1>>
    BY DEF Arity
  <2>5. <<Len(ins.ops), Len(ins.dest)>> = Arity[ins.t] /\ ins.t # "call"
    <3>1. CASE ins.t = "bin"
      BY <3>1, <2>2, <2>4
    <3>2. CASE ins.t = "un"
      BY <3>2, <2>2, <2>4
    <3>3. CASE ins.t = "loadptr"
      BY <3>3, <2>2, <2>4
    <3>4. CASE ins.t = "copy"
      BY <3>4, <2>2, <2>4
    <3> QED BY <3>1, <3>2, <3>3, <3>4
  <2> QED BY <2>3, <2>5 DEF WellFormedInstr
<1>5. Writes(ins) = {Temp(t + i) : i \in 0 .. n - 1}
  <2>1. Writes(ins) = {v} \cap Temps
    <3>1. {ins.dest[k] : k \in DOMAIN ins.dest} = {v}
      OBVIOUS
    <3> QED BY <3>1 DEF Writes
  <2>2. CASE n = 1 /\ v = Temp(t) /\ t < NumTemps
    <3>1. {Temp(t + i) : i \in 0 .. n - 1} = {Temp(t)}
      <4>1. 0 .. n - 1 = {0} /\ t + 0 = t
        BY <2>2, <1>1
      <4> QED BY <4>1
    <3> QED BY <3>1, <2>1, <2>2, <1>1, TempFacts
  <2>3. CASE n = 0 /\ v \in Locals \cup Args
    <3>1. v \notin Temps
      BY <2>3, SourceFacts
    <3>2. 0 .. n - 1 = {}
      BY <2>3
    <3> QED BY <3>1, <3>2, <2>1
  <2> QED BY <2>2, <2>3 DEF Dest
<1>6. \A k \in DOMAIN ins.ops : ins.ops[k] \in Known(t)
  <2>1. ins.ops \in Seq(Known(t))
    OBVIOUS
  <2> QED BY <2>1, SeqOver
<1>7. IsMachine(Exec(p, ins))
  BY <1>3 DEF Wrote
<1> QED BY <1>1, <1>3, <1>4, <1>5, <1>6, <1>7, EmitMore

LEMMA EmitBin ==
  ASSUME NEW code, NEW t, NEW p, Emits(code, t, p), NEW n, NEW v, Dest(t, n, v),
         NEW a \in Known(t), NEW b \in Known(t)
  PROVE  LET q == Exec(p, Bin(a, b, v))
         IN /\ Emits(Append(code, Bin(a, b, v)), t + n, q)
            /\ Wrote(p, q, v, Term("bin", <<Value(p, a), Value(p, b)>>, 0))
<1> DEFINE ins == Bin(a, b, v)
           K == Known(t)
<1>1. ins = [t |-> "bin", ops |-> <<a, b>>, dest |-> <<v>>]
  BY DEF Bin, Instr
<1>2. <<a, b>> \in Seq(K) /\ Len(<<a, b>>) = 2 /\ <<v>> \in {<<v>>}
  <2>1. a \in K /\ b \in K
    OBVIOUS
  <2> HIDE DEF K
  <2> QED BY <2>1
<1>3. Exec(p, ins) = Set(p, v, Term("bin", <<Value(p, a), Value(p, b)>>, 0))
  BY ExecBin
<1> HIDE DEF ins, K
<1>4. /\ ins \in [t : {"bin", "un", "loadptr", "copy"}, ops : Seq(K), dest : {<<v>>}]
      /\ Len(ins.ops) = IF ins.t = "bin" THEN 2 ELSE 1
  BY <1>1, <1>2
<1>5. /\ Emits(Append(code, ins), t + n, Exec(p, ins))
      /\ Wrote(p, Exec(p, ins), v, Term("bin", <<Value(p, a), Value(p, b)>>, 0))
  BY <1>3, <1>4, EmitSet DEF K
<1> QED BY <1>5 DEF ins

LEMMA EmitOne ==
  ASSUME NEW code, NEW t, NEW p, Emits(code, t, p), NEW n, NEW v, Dest(t, n, v),
         NEW a \in Known(t), NEW kind \in {"un", "loadptr", "copy"},
         NEW ins, ins = [t |-> kind, ops |-> <<a>>, dest |-> <<v>>],
         NEW x, Exec(p, ins) = Set(p, v, x)
  PROVE  /\ Emits(Append(code, ins), t + n, Exec(p, ins))
         /\ Wrote(p, Exec(p, ins), v, x)
<1> DEFINE K == Known(t)
<1>1. <<a>> \in Seq(K) /\ Len(<<a>>) = 1 /\ <<v>> \in {<<v>>}
  <2>1. a \in K
    OBVIOUS
  <2> HIDE DEF K
  <2> QED BY <2>1
<1> HIDE DEF K
<1>2. /\ ins \in [t : {"bin", "un", "loadptr", "copy"}, ops : Seq(K), dest : {<<v>>}]
      /\ Len(ins.ops) = IF ins.t = "bin" THEN 2 ELSE 1
  BY <1>1
<1> QED BY <1>2, EmitSet DEF K

LEMMA EmitUn ==
  ASSUME NEW code, NEW t, NEW p, Emits(code, t, p), NEW n, NEW v, Dest(t, n, v),
         NEW a \in Known(t)
  PROVE  LET q == Exec(p, Un(a, v))
         IN /\ Emits(Append(code, Un(a, v)), t + n, q)
            /\ Wrote(p, q, v, Term("un", <<Value(p, a)>>, 0))
<1>1. Un(a, v) = [t |-> "un", ops |-> <<a>>, dest |-> <<v>>]
  BY DEF Un, Instr
<1> QED BY <1>1, ExecUn, EmitOne

LEMMA EmitLoad ==
  ASSUME NEW code, NEW t, NEW p, Emits(code, t, p), NEW n, NEW v, Dest(t, n, v),
         NEW a \in Known(t)
  PROVE  LET q == Exec(p, LoadPtr(a, v))
         IN /\ Emits(Append(code, LoadPtr(a, v)), t + n, q)
            /\ Wrote(p, q, v, LoadTerm(p, Value(p, a)))
<1>1. LoadPtr(a, v) = [t |-> "loadptr", ops |-> <<a>>, dest |-> <<v>>]
  BY DEF LoadPtr, Instr
<1> QED BY <1>1, ExecLoad, EmitOne

LEMMA EmitCopy ==
  ASSUME NEW code, NEW t, NEW p, Emits(code, t, p), NEW n, NEW v, Dest(t, n, v),
         NEW a \in Known(t)
  PROVE  LET q == Exec(p, Copy(a, v))
         IN /\ Emits(Append(code, Copy(a, v)), t + n, q)
            /\ Wrote(p, q, v, Value(p, a))
<1>1. Copy(a, v) = [t |-> "copy", ops |-> <<a>>, dest |-> <<v>>]
  BY DEF Copy, Instr
<1> QED BY <1>1, ExecCopy, EmitOne

LEMMA EmitStore ==
  ASSUME NEW code, NEW t, NEW p, Emits(code, t, p), NEW a \in Known(t), NEW b \in Known(t)
  PROVE  LET q == Exec(p, StorePtr(a, b))
         IN /\ Emits(Append(code, StorePtr(a, b)), t, q)
            /\ Traced(p, q)
            /\ q.trace = Append(p.trace, Term("store", <<Value(p, a), Value(p, b)>>, 0))
<1> DEFINE ins == StorePtr(a, b)
<1>1. ins = [t |-> "storeptr", ops |-> <<a, b>>, dest |-> <<>>]
  BY DEF StorePtr, Instr
<1> HIDE DEF ins
<1>2. Exec(p, ins) = DoStore(p, Value(p, a), Value(p, b))
  BY ExecStore DEF ins
<1>3. /\ Traced(p, Exec(p, ins))
      /\ Exec(p, ins).trace = Append(p.trace, Term("store", <<Value(p, a), Value(p, b)>>, 0))
  BY <1>2, StoreTraces DEF Emits
<1>4. t \in Nat /\ t <= NumTemps /\ t + 0 = t
  BY PirSizes DEF Emits, CodeRight
<1>5. a \in Operands /\ b \in Operands
  BY <1>4, KnownFacts
<1>6. ins.ops = <<a, b>> /\ ins.dest = <<>> /\ ins.t = "storeptr"
  BY <1>1
<1>7. WellFormedInstr(ins)
  <2>1. <<a, b>> \in Seq(Operands) /\ Len(<<a, b>>) = 2
    BY <1>5
  <2>2. <<>> \in Seq(Values) /\ Len(<<>>) = 0
    BY EmptySeq
  <2>3. ins \in Instrs
    BY <1>1, <2>1, <2>2 DEF Instrs
  <2>4. Arity.storeptr = <<2, 0>>
    BY DEF Arity
  <2>5. <<Len(ins.ops), Len(ins.dest)>> = Arity[ins.t] /\ ins.t # "call"
    BY <1>6, <2>1, <2>2, <2>4
  <2> QED BY <2>3, <2>5 DEF WellFormedInstr
<1>8. Writes(ins) = {Temp(t + i) : i \in 0 .. 0 - 1}
  <2>1. DOMAIN <<>> = {} /\ 0 .. 0 - 1 = {}
    OBVIOUS
  <2> QED BY <1>6, <2>1 DEF Writes
<1>9. \A k \in DOMAIN ins.ops : ins.ops[k] \in Known(t)
  <2>1. DOMAIN <<a, b>> = {1, 2} /\ <<a, b>>[1] = a /\ <<a, b>>[2] = b
    OBVIOUS
  <2> QED BY <2>1, <1>6
<1>10. IsMachine(Exec(p, ins))
  BY <1>3 DEF Traced
<1>11. Emits(Append(code, ins), t + 0, Exec(p, ins))
  BY <1>4, <1>7, <1>8, <1>9, <1>10, EmitMore
<1> QED BY <1>3, <1>4, <1>11 DEF ins

\* The results of a call are the next n temporaries.
LEMMA EmitCall ==
  ASSUME NEW code, NEW t, NEW p, Emits(code, t, p), NEW n \in Nat, t + n <= NumTemps,
         NEW f \in Known(t), NEW args \in Seq(Known(t))
  PROVE  LET rets == [k \in 1 .. n |-> Temp(t + k - 1)]
             q    == Exec(p, Call(f, args, rets))
         IN /\ Emits(Append(code, Call(f, args, rets)), t + n, q)
            /\ Called(p, q, <<f>> \o args, rets)
            /\ Len(rets) = n /\ \A k \in 1 .. n : rets[k] = Temp(t + k - 1)
<1> DEFINE rets == [k \in 1 .. n |-> Temp(t + k - 1)]
           ops  == <<f>> \o args
           ins  == Call(f, args, rets)
           q    == Exec(p, ins)
<1>1. t \in Nat /\ t <= NumTemps
  BY PirSizes DEF Emits, CodeRight
<1>2. /\ IsSeq(rets) /\ Len(rets) = n
      /\ \A k \in 1 .. n : rets[k] = Temp(t + k - 1) /\ rets[k] \in Temps
      /\ \A j, k \in 1 .. n : rets[j] = rets[k] => j = k
  <2>1. rets = [k \in 1 .. n |-> rets[k]] /\ \A k \in 1 .. n : rets[k] = Temp(t + k - 1)
    OBVIOUS
  <2> HIDE DEF rets
  <2>2. IsSeq(rets) /\ Len(rets) = n
    BY <2>1, SeqMade
  <2>3. ASSUME NEW k \in 1 .. n PROVE t + k - 1 \in Nat /\ t + k - 1 < NumTemps
    BY <1>1, PirSizes
  <2>4. \A k \in 1 .. n : Temp(t + k - 1) \in Temps
    BY <2>3, TempFacts
  <2>5. ASSUME NEW j \in 1 .. n, NEW k \in 1 .. n, rets[j] = rets[k] PROVE j = k
    <3>1. Temp(t + j - 1) = Temp(t + k - 1)
      BY <2>1, <2>5
    <3>2. t + j - 1 = t + k - 1
      BY <2>3, <3>1, TempFacts
    <3> QED BY <3>2, <1>1
  <2> QED BY <2>1, <2>2, <2>4, <2>5
<1>3. ins = [t |-> "call", ops |-> ops, dest |-> rets]
  BY DEF Call, Instr
<1>4. ops \in Seq(Known(t)) /\ ops # <<>> /\ ops[1] = f
  <2> DEFINE K == Known(t)
  <2>1. f \in K /\ args \in Seq(K)
    OBVIOUS
  <2> HIDE DEF K
  <2>2. <<f>> \in Seq(K) /\ Len(<<f>>) = 1 /\ <<f>>[1] = f
    BY <2>1
  <2>3. /\ ops \in Seq(K) /\ Len(ops) = 1 + Len(args)
        /\ \A i \in 1 .. 1 + Len(args) : ops[i] = IF i <= 1 THEN <<f>>[i] ELSE args[i - 1]
    BY <2>1, <2>2, ConcatProperties
  <2>4. Len(args) \in Nat
    BY <2>1, LenProperties
  <2> HIDE DEF ops
  <2>5. ops[1] = f /\ Len(ops) # 0
    BY <2>2, <2>3, <2>4
  <2> QED BY <2>3, <2>5, EmptySeq DEF K
<1>5. Called(p, q, ops, rets)
  <2>1. IsMachine(p) /\ \A k \in 1 .. Len(rets) : rets[k] \in Values
    BY <1>2, SourceFacts DEF Emits
  <2>2. Distinct(rets)
    BY <1>2, <2>1 DEF Distinct
  <2> HIDE DEF rets
  <2> QED BY <2>1, <2>2, ExecCall
<1> HIDE DEF rets, ops, ins, q
<1>6. ins.ops = ops /\ ins.dest = rets /\ ins.t = "call"
  BY <1>3
<1>7. DOMAIN rets = 1 .. n
  BY <1>2, SeqLen
<1>8. WellFormedInstr(ins)
  <2>1. ops \in Seq(Operands)
    BY <1>1, <1>4, KnownFacts, SeqMonotonic
  <2>2. rets \in Seq(Values)
    <3>1. \A k \in 1 .. Len(rets) : rets[k] \in Values
      BY <1>2, SourceFacts
    <3> QED BY <3>1, <1>2, SeqIn
  <2>3. ins \in Instrs
    BY <1>3, <2>1, <2>2 DEF Instrs
  <2>4. ASSUME NEW k \in DOMAIN rets PROVE rets[k] \in Temps /\ rets[k] # ops[1]
    <3>1. rets[k] = Temp(t + (k - 1)) /\ k - 1 \in Nat /\ rets[k] \in Temps
      BY <1>1, <1>2, <1>7
    <3>2. rets[k] \notin TempsBelow(t)
      BY <3>1, <1>1, TempFacts
    <3>3. f \notin Temps \/ f \in TempsBelow(t)
      BY <1>1, KnownFacts
    <3> QED BY <3>1, <3>2, <3>3, <1>4
  <2> QED BY <1>4, <1>6, <2>3, <2>4 DEF WellFormedInstr
<1>9. Writes(ins) = {Temp(t + i) : i \in 0 .. n - 1}
  <2>1. Writes(ins) = {rets[k] : k \in 1 .. n}
    <3> DEFINE R(k) == rets[k]
    <3>1. {R(k) : k \in 1 .. n} \subseteq Temps
      BY <1>2
    <3>2. Writes(ins) = {R(k) : k \in 1 .. n} \cap Temps
      BY <1>6, <1>7 DEF Writes
    <3> QED BY <3>1, <3>2
  <2>2. ASSUME NEW k \in 1 .. n PROVE \E i \in 0 .. n - 1 : rets[k] = Temp(t + i)
    <3>1. PICK i \in 0 .. n - 1 : t + k - 1 = t + i
      <4>1. k - 1 \in 0 .. n - 1 /\ t + k - 1 = t + (k - 1)
        BY <1>1
      <4> QED BY <4>1
    <3> QED BY <3>1, <1>2
  <2>3. ASSUME NEW i \in 0 .. n - 1 PROVE \E k \in 1 .. n : rets[k] = Temp(t + i)
    <3>1. PICK k \in 1 .. n : t + k - 1 = t + i
      <4>1. i + 1 \in 1 .. n /\ t + (i + 1) - 1 = t + i
        BY <1>1
      <4> QED BY <4>1
    <3> QED BY <3>1, <1>2
  <2> QED BY <2>1, <2>2, <2>3
<1>10. \A k \in DOMAIN ins.ops : ins.ops[k] \in Known(t)
  BY <1>4, <1>6, SeqOver
<1>11. Emits(Append(code, ins), t + n, q)
  BY <1>5, <1>8, <1>9, <1>10, EmitMore DEF q, Called
<1> QED BY <1>2, <1>5, <1>11 DEF rets, ops, ins, q

-----------------------------------------------------------------------------
\* The two machines side by side.

IsContext(c) == c = [code |-> c.code, temp |-> c.temp, ops |-> c.ops]

\* The PIR machine after the code of c.
Ran(c) == Run(Start, c.code)

\* The machines agree on variables, arguments and the trace, and the operands
\* at the places K of the stack have the values the source machine has there.
Agree(c, s, K) ==
  /\ IsContext(c) /\ Emits(c.code, c.temp, Ran(c))
  /\ IsSeq(c.ops) /\ \A k \in 1 .. Len(c.ops) : c.ops[k] \in Known(c.temp)
  /\ IsMachine(s) /\ Ran(c).trace = s.trace
  /\ \A v \in Locals \cup Args : Ran(c).env[v] = s.env[v]
  /\ IsSeq(s.out) /\ Len(s.out) = Len(c.ops)
  /\ \A k \in 1 .. Len(c.ops) : k \in K => s.out[k] = Value(Ran(c), c.ops[k])

\* code is the beginning of more.
Begins(code, more) ==
  Len(code) <= Len(more) /\ \A i \in 1 .. Len(code) : more[i] = code[i]

\* d and t are what generating and evaluating a node make of c and s: the n
\* operands on top are replaced by r, whose values are u, and nothing that
\* had a value changes it.
Grows(c, d, s, t, n, r, u) ==
  /\ IsContext(d) /\ Emits(d.code, d.temp, Ran(d))
  /\ c.temp <= d.temp /\ Begins(c.code, d.code)
  /\ Stacked(c.ops, n, r, d.ops) /\ Stacked(s.out, n, u, t.out) /\ Len(r) = Len(u)
  /\ IsMachine(t) /\ t.env = s.env /\ Ran(d).trace = t.trace
  /\ \A v \in Values : (v \in Temps => v \in TempsBelow(c.temp)) => Ran(d).env[v] = Ran(c).env[v]
  /\ \A i \in 1 .. Len(r) : r[i] \in Known(d.temp) /\ u[i] = Value(Ran(d), r[i])

LEMMA EmitsTemp ==
  ASSUME NEW code, NEW t, NEW p, Emits(code, t, p)
  PROVE  t \in Nat /\ t <= NumTemps
BY PirSizes DEF Emits, CodeRight

\* A known operand keeps its value while only fresh temporaries are written.
LEMMA KnownKept ==
  ASSUME NEW p, NEW q, NEW t \in Nat, t <= NumTemps, NEW o \in Known(t),
         \A v \in Values : (v \in Temps => v \in TempsBelow(t)) => q.env[v] = p.env[v]
  PROVE  Value(q, o) = Value(p, o)
<1>1. CASE o \in Values
  <2>1. o \in Temps => o \in TempsBelow(t)
    BY KnownFacts
  <2> QED BY <2>1, <1>1 DEF Value
<1>2. CASE o \notin Values
  BY <1>2 DEF Value
<1> QED BY <1>1, <1>2

\* A node that takes n operands and gives r leaves the rest in agreement.
LEMMA GrowsRight ==
  ASSUME NEW c, NEW s, NEW K, Agree(c, s, K), NEW n \in Nat, n <= Len(c.ops),
         \A k \in Nat : k > Len(c.ops) - n => k \in K,
         NEW d, NEW t, NEW r, NEW u, IsSeq(r), Grows(c, d, s, t, n, r, u)
  PROVE  /\ Agree(d, t, K)
         /\ Len(d.ops) = Len(c.ops) - n + Len(r)
         /\ \A k \in 1 .. Len(c.ops) - n : d.ops[k] = c.ops[k] /\ t.out[k] = s.out[k]
<1> DEFINE m == Len(c.ops) - n
           j == Len(r)
<1>1. /\ m \in Nat /\ j \in Nat /\ Len(s.out) - n = m /\ Len(u) = j
      /\ Len(d.ops) = m + j /\ Len(t.out) = m + j
  <2>1. Len(c.ops) \in Nat /\ Len(r) \in Nat
    BY SeqLen DEF Agree
  <2> QED BY <2>1 DEF Agree, Grows, Stacked
<1>2. /\ \A k \in 1 .. m : d.ops[k] = c.ops[k] /\ t.out[k] = s.out[k]
      /\ \A k \in 1 .. j : d.ops[m + k] = r[k] /\ t.out[m + k] = u[k]
  <2>1. /\ \A k \in 1 .. Len(c.ops) - n : d.ops[k] = c.ops[k]
        /\ \A k \in 1 .. Len(r) : d.ops[Len(c.ops) - n + k] = r[k]
        /\ \A k \in 1 .. Len(s.out) - n : t.out[k] = s.out[k]
        /\ \A k \in 1 .. Len(u) : t.out[Len(s.out) - n + k] = u[k]
    BY DEF Grows, Stacked
  <2> QED BY <1>1, <2>1
<1> HIDE DEF m, j
<1>3. /\ c.temp \in Nat /\ c.temp <= NumTemps /\ d.temp \in Nat /\ d.temp <= NumTemps
      /\ c.temp <= d.temp
  BY EmitsTemp DEF Agree, Grows
<1>4. Known(c.temp) \subseteq Known(d.temp)
  <2>1. d.temp - c.temp \in Nat /\ c.temp + (d.temp - c.temp) = d.temp
    BY <1>3
  <2> QED BY <1>3, <2>1, KnownFacts
<1>5. \A o \in Known(c.temp) : Value(Ran(d), o) = Value(Ran(c), o)
  <2>1. \A v \in Values : (v \in Temps => v \in TempsBelow(c.temp)) => Ran(d).env[v] = Ran(c).env[v]
    BY DEF Grows
  <2> QED BY <1>3, <2>1, KnownKept
<1>6. \A v \in Locals \cup Args : Ran(d).env[v] = t.env[v]
  <2>1. ASSUME NEW v \in Locals \cup Args PROVE Ran(d).env[v] = Ran(c).env[v]
    <3>1. v \in Values /\ v \notin Temps
      BY SourceFacts
    <3> QED BY <3>1 DEF Grows
  <2> QED BY <2>1 DEF Agree, Grows
<1>7. ASSUME NEW k \in 1 .. Len(d.ops)
      PROVE  d.ops[k] \in Known(d.temp) /\ (k \in K => t.out[k] = Value(Ran(d), d.ops[k]))
  <2>1. CASE k \in 1 .. m
    <3>1. k \in 1 .. Len(c.ops)
      BY <2>1, <1>1 DEF m
    <3>2. c.ops[k] \in Known(c.temp) /\ (k \in K => s.out[k] = Value(Ran(c), c.ops[k]))
      BY <3>1 DEF Agree
    <3> QED BY <3>2, <2>1, <1>2, <1>4, <1>5
  <2>2. CASE k \notin 1 .. m
    <3>1. PICK i \in 1 .. j : k = m + i
      <4>1. k - m \in 1 .. j /\ k = m + (k - m)
        BY <2>2, <1>1
      <4> QED BY <4>1
    <3>2. r[i] \in Known(d.temp) /\ u[i] = Value(Ran(d), r[i])
      BY <3>1 DEF Grows, j
    <3> QED BY <3>1, <3>2, <1>2
  <2> QED BY <2>1, <2>2
<1>8. IsSeq(d.ops) /\ IsSeq(t.out)
  BY DEF Grows, Stacked
<1>9. /\ IsContext(d) /\ Emits(d.code, d.temp, Ran(d)) /\ IsMachine(t) /\ Ran(d).trace = t.trace
  BY DEF Grows
<1>10. Agree(d, t, K)
  BY <1>1, <1>6, <1>7, <1>8, <1>9 DEF Agree
<1> QED BY <1>1, <1>2, <1>10 DEF m, j

-----------------------------------------------------------------------------
\* What the generator and the source machine do to their stacks.

New(t, n) == [k \in 1 .. n |-> Temp(t + k - 1)]

LEMMA NewSeq ==
  ASSUME NEW t, NEW n \in Nat
  PROVE  IsSeq(New(t, n)) /\ Len(New(t, n)) = n /\ \A k \in 1 .. n : New(t, n)[k] = Temp(t + k - 1)
<1> DEFINE f == New(t, n)
<1>1. f = [k \in 1 .. n |-> f[k]] /\ \A k \in 1 .. n : f[k] = Temp(t + k - 1)
  BY DEF New
<1> HIDE DEF f
<1>2. IsSeq(f) /\ Len(f) = n
  BY <1>1, SeqMade
<1> QED BY <1>1, <1>2 DEF f

\* The fields of a context after Replace and AddInstr.
LEMMA ReplaceStack ==
  ASSUME NEW c, IsContext(c), IsSeq(c.ops), NEW n \in Nat, n <= Len(c.ops), NEW m \in Nat
  PROVE  LET d == Replace(c, n, m)
         IN /\ IsContext(d) /\ d.code = c.code /\ d.temp = c.temp + m
            /\ Stacked(c.ops, n, New(c.temp, m), d.ops)
<1> DEFINE q == SubSeq(c.ops, 1, Len(c.ops) - n) \o New(c.temp, m)
<1>1. Stacked(c.ops, n, New(c.temp, m), q)
  BY NewSeq, Restack
<1> HIDE DEF q
<1>2. Replace(c, n, m) = [code |-> c.code, temp |-> c.temp + m, ops |-> q]
  <2> DEFINE d == [c EXCEPT !.temp = c.temp + m, !.ops = q]
  <2>1. Replace(c, n, m) = d
    BY DEF Replace, New, q
  <2>2. d = [code |-> c.code, temp |-> c.temp + m, ops |-> q]
    <3> DEFINE e == [c EXCEPT !.temp = c.temp + m]
    <3>1. e = [code |-> c.code, temp |-> c.temp + m, ops |-> c.ops]
      BY DEF IsContext
    <3>2. d = [e EXCEPT !.ops = q]
      OBVIOUS
    <3> HIDE DEF d, e
    <3> QED BY <3>1, <3>2
  <2> QED BY <2>1, <2>2
<1> QED BY <1>1, <1>2 DEF IsContext

LEMMA AddFields ==
  ASSUME NEW c, IsContext(c), NEW ins
  PROVE  LET d == AddInstr(c, ins)
         IN IsContext(d) /\ d.code = Append(c.code, ins) /\ d.temp = c.temp /\ d.ops = c.ops
<1>1. AddInstr(c, ins) = [code |-> Append(c.code, ins), temp |-> c.temp, ops |-> c.ops]
  BY DEF AddInstr, IsContext
<1> QED BY <1>1 DEF IsContext

LEMMA PushStack ==
  ASSUME NEW m, IsMachine(m), IsSeq(m.out), NEW n \in Nat, n <= Len(m.out), NEW x
  PROVE  LET t == Push1(m, n, x)
         IN /\ IsMachine(t) /\ t.env = m.env /\ t.trace = m.trace
            /\ Stacked(m.out, n, <<x>>, t.out)
<1> DEFINE q == SubSeq(m.out, 1, Len(m.out) - n) \o <<x>>
<1>1. Stacked(m.out, n, <<x>>, q)
  BY Single, Restack
<1> HIDE DEF q
<1>2. Push1(m, n, x) = [env |-> m.env, trace |-> m.trace, out |-> q]
  <2> DEFINE d == [m EXCEPT !.out = q]
  <2>1. Push1(m, n, x) = d
    BY DEF Push1, q
  <2>2. d = [env |-> m.env, trace |-> m.trace, out |-> q]
    BY DEF IsMachine
  <2> QED BY <2>1, <2>2
<1> QED BY <1>1, <1>2 DEF IsMachine

LEMMA TopOf ==
  ASSUME NEW q, IsSeq(q), Len(q) > 0
  PROVE  Last(q) = q[Len(q)]
BY DEF Last

LEMMA AppendStack ==
  ASSUME NEW q, IsSeq(q), NEW x
  PROVE  Stacked(q, 0, <<x>>, Append(q, x))
<1> DEFINE T == Elems(q) \cup {x}
           n == Len(q)
<1>1. q \in Seq(T) /\ x \in T /\ n \in Nat
  BY SeqMonotonic, SeqLen DEF IsSeq
<1> HIDE DEF T
<1>2. /\ Append(q, x) \in Seq(T) /\ Len(Append(q, x)) = n + 1
      /\ \A i \in 1 .. n : Append(q, x)[i] = q[i]
      /\ Append(q, x)[n + 1] = x
  BY <1>1, AppendProperties
<1>3. IsSeq(Append(q, x))
  BY <1>2, SeqOver
<1> HIDE DEF n
<1>4. Len(<<x>>) = 1 /\ <<x>>[1] = x
  OBVIOUS
<1>5. \A k \in 1 .. Len(<<x>>) : Append(q, x)[n - 0 + k] = <<x>>[k]
  <2>1. \A k \in 1 .. 1 : k = 1 /\ n - 0 + k = n + 1
    BY <1>1
  <2> QED BY <2>1, <1>2, <1>4
<1>6. n - 0 = n /\ Len(Append(q, x)) = n - 0 + Len(<<x>>)
  BY <1>1, <1>2, <1>4
<1> QED BY <1>2, <1>3, <1>5, <1>6 DEF Stacked, n

-----------------------------------------------------------------------------
\* Nodes.

LEMMA AppendBegins ==
  ASSUME NEW code \in Seq(Instrs), NEW ins
  PROVE  Begins(code, Append(code, ins))
<1> DEFINE T == Instrs \cup {ins}
<1>1. code \in Seq(T) /\ ins \in T
  BY SeqMonotonic
<1> HIDE DEF T
<1>2. /\ Len(Append(code, ins)) = Len(code) + 1
      /\ \A i \in 1 .. Len(code) : Append(code, ins)[i] = code[i]
      /\ Len(code) \in Nat
  BY <1>1, AppendProperties, LenProperties
<1> QED BY <1>2 DEF Begins

LEMMA BeginsOn ==
  ASSUME NEW q, NEW r, NEW t, Begins(q, r), Begins(r, t),
         Len(q) \in Nat, Len(r) \in Nat, Len(t) \in Nat
  PROVE  Begins(q, t)
BY DEF Begins

LEMMA EmitsCode ==
  ASSUME NEW code, NEW t, NEW p, Emits(code, t, p)
  PROVE  /\ code \in Seq(Instrs) /\ Len(code) \in Nat
         /\ IsMachine(p) /\ p = Run(Start, code)
BY LenProperties DEF Emits, CodeRight

\* The temporaries below t are not the next one.
LEMMA NotFresh ==
  ASSUME NEW t \in Nat, NEW i \in Nat, t + i < NumTemps
  PROVE  /\ Temp(t + i) \in Temps /\ Temp(t + i) \in Values
         /\ \A v \in Values : (v \in Temps => v \in TempsBelow(t)) => v # Temp(t + i)
         /\ \A n \in Nat : i < n => Temp(t + i) \in Known(t + n)
<1>1. Temp(t + i) \in Temps /\ Temp(t + i) \notin TempsBelow(t)
  <2>1. t + i \in Nat
    OBVIOUS
  <2> QED BY <2>1, TempFacts
<1>2. ASSUME NEW n \in Nat, i < n PROVE Temp(t + i) \in Known(t + n)
  <2>1. t + i \in 0 .. (t + n) - 1
    BY <1>2
  <2> QED BY <2>1 DEF Known, TempsBelow
<1> QED BY <1>1, <1>2, SourceFacts

LEMMA NextTemp ==
  ASSUME NEW t \in Nat, t < NumTemps
  PROVE  /\ Temp(t) \in Temps /\ Temp(t) \in Values /\ Temp(t) \in Known(t + 1)
         /\ \A v \in Values : (v \in Temps => v \in TempsBelow(t)) => v # Temp(t)
<1>1. PICK i \in Nat, n \in Nat : t + i = t /\ i < n /\ t + n = t + 1 /\ t + i < NumTemps
  <2>1. 0 \in Nat /\ 1 \in Nat /\ t + 0 = t /\ 0 < 1
    OBVIOUS
  <2> QED BY <2>1
<1>2. /\ Temp(t + i) \in Temps /\ Temp(t + i) \in Values
      /\ \A v \in Values : (v \in Temps => v \in TempsBelow(t)) => v # Temp(t + i)
      /\ Temp(t + i) \in Known(t + n)
  BY <1>1, NotFresh
<1> QED BY <1>1, <1>2

LEMMA SecondTemp ==
  ASSUME NEW t \in Nat, t + 1 < NumTemps
  PROVE  /\ Temp(t + 1) \in Values /\ Temp(t + 1) \in Known(t + 1 + 1)
         /\ \A v \in Values : (v \in Temps => v \in TempsBelow(t)) => v # Temp(t + 1)
<1>1. PICK i \in Nat, n \in Nat : t + i = t + 1 /\ i < n /\ t + n = t + 1 + 1 /\ t + i < NumTemps
  <2>1. 1 \in Nat /\ 2 \in Nat /\ 1 < 2 /\ t + 2 = t + 1 + 1
    OBVIOUS
  <2> QED BY <2>1
<1>2. /\ Temp(t + i) \in Values /\ Temp(t + i) \in Known(t + n)
      /\ \A v \in Values : (v \in Temps => v \in TempsBelow(t)) => v # Temp(t + i)
  BY <1>1, NotFresh
<1> QED BY <1>1, <1>2

LEMMA NewOne ==
  ASSUME NEW t \in Nat
  PROVE  IsSeq(New(t, 1)) /\ Len(New(t, 1)) = 1 /\ New(t, 1)[1] = Temp(t)
<1>1. PICK n \in Nat : n = 1
  OBVIOUS
<1>2. IsSeq(New(t, n)) /\ Len(New(t, n)) = n /\ \A k \in 1 .. n : New(t, n)[k] = Temp(t + k - 1)
  BY NewSeq
<1>3. t + 1 - 1 = t
  OBVIOUS
<1> QED BY <1>1, <1>2, <1>3

\* A node that becomes one instruction, which writes the next temporary.
LEMMA OneInstr ==
  ASSUME NEW c, NEW s, NEW K, Agree(c, s, K), NEW n \in Nat, n <= Len(c.ops),
         c.temp < NumTemps, NEW ins, NEW x,
         Emits(Append(c.code, ins), c.temp + 1, Exec(Ran(c), ins)),
         Wrote(Ran(c), Exec(Ran(c), ins), Temp(c.temp), x)
  PROVE  Grows(c, AddInstr(Replace(c, n, 1), ins), s, Push1(s, n, x), n, New(c.temp, 1), <<x>>)
<1> DEFINE e == Replace(c, n, 1)
           d == AddInstr(e, ins)
           t == Push1(s, n, x)
           q == Exec(Ran(c), ins)
<1>1. IsContext(c) /\ IsSeq(c.ops) /\ IsMachine(s) /\ IsSeq(s.out) /\ n <= Len(s.out)
  BY DEF Agree
<1>2. c.temp \in Nat /\ c.temp + 0 = c.temp /\ c.temp + 1 - 1 = c.temp
  BY EmitsTemp DEF Agree
<1>3. /\ IsContext(e) /\ e.code = c.code /\ e.temp = c.temp + 1
      /\ Stacked(c.ops, n, New(c.temp, 1), e.ops)
  BY <1>1, ReplaceStack
<1>4. IsContext(d) /\ d.code = Append(e.code, ins) /\ d.temp = e.temp /\ d.ops = e.ops
  BY <1>3, AddFields
<1>5. /\ IsMachine(t) /\ t.env = s.env /\ t.trace = s.trace
      /\ Stacked(s.out, n, <<x>>, t.out)
  BY <1>1, PushStack
<1>6. q = Run(Start, Append(c.code, ins)) /\ c.code \in Seq(Instrs)
  BY EmitsCode DEF Agree
<1>7. Ran(d) = q
  BY <1>3, <1>4, <1>6 DEF Ran
<1>8. Wrote(Ran(c), q, Temp(c.temp), x) /\ Emits(Append(c.code, ins), c.temp + 1, q)
  OBVIOUS
<1> HIDE DEF d, e, t, q
<1>9. Emits(d.code, d.temp, Ran(d)) /\ Begins(c.code, d.code) /\ c.temp <= d.temp
  BY <1>2, <1>3, <1>4, <1>6, <1>7, <1>8, AppendBegins
<1>10. Ran(d).trace = t.trace
  BY <1>5, <1>7, <1>8 DEF Wrote, Agree
<1>11. /\ Temp(c.temp) \in Known(d.temp)
       /\ \A v \in Values : (v \in Temps => v \in TempsBelow(c.temp)) => v # Temp(c.temp)
       /\ Temp(c.temp) \in Values
  <2>1. d.temp = c.temp + 1 /\ c.temp \in Nat
    BY <1>2, <1>3, <1>4
  <2> QED BY <2>1, NextTemp
<1>12. \A v \in Values : (v \in Temps => v \in TempsBelow(c.temp)) => Ran(d).env[v] = Ran(c).env[v]
  BY <1>7, <1>8, <1>11 DEF Wrote
<1>13. x = Value(Ran(d), Temp(c.temp))
  BY <1>7, <1>8, <1>11 DEF Wrote, Value
<1>14. /\ Len(New(c.temp, 1)) = 1 /\ New(c.temp, 1)[1] = Temp(c.temp)
       /\ Len(<<x>>) = 1 /\ <<x>>[1] = x
  BY <1>2, NewOne
<1>15. \A i \in 1 .. Len(New(c.temp, 1)) :
         New(c.temp, 1)[i] \in Known(d.temp) /\ <<x>>[i] = Value(Ran(d), New(c.temp, 1)[i])
  BY <1>11, <1>13, <1>14
<1>16. Stacked(c.ops, n, New(c.temp, 1), d.ops) /\ Stacked(s.out, n, <<x>>, t.out)
  BY <1>3, <1>4, <1>5
<1>17. Grows(c, d, s, t, n, New(c.temp, 1), <<x>>)
  BY <1>4, <1>5, <1>9, <1>10, <1>12, <1>14, <1>15, <1>16 DEF Grows
<1> QED BY <1>17 DEF d, e, t

\* A node that becomes two: the first writes the next temporary, which the
\* second reads.
LEMMA TwoInstrs ==
  ASSUME NEW c, NEW s, NEW K, Agree(c, s, K), NEW n \in Nat, n <= Len(c.ops), n > 0,
         c.temp + 1 < NumTemps, NEW i1, NEW i2, NEW x1, NEW x2, NEW p1, NEW p2,
         p1 = Exec(Ran(c), i1), p2 = Exec(p1, i2),
         Emits(Append(c.code, i1), c.temp + 1, p1),
         Emits(Append(Append(c.code, i1), i2), c.temp + 1 + 1, p2),
         Wrote(Ran(c), p1, Temp(c.temp), x1), Wrote(p1, p2, Temp(c.temp + 1), x2)
  PROVE  Grows(c, AddInstr(AddInstr(Replace(Replace(c, 1, 1), n, 1), i1), i2),
               s, Push1(s, n, x2), n, New(c.temp + 1, 1), <<x2>>)
<1> DEFINE r == Replace(c, 1, 1)
           e == Replace(r, n, 1)
           f == AddInstr(e, i1)
           d == AddInstr(f, i2)
           t == Push1(s, n, x2)
<1>1. IsContext(c) /\ IsSeq(c.ops) /\ IsMachine(s) /\ IsSeq(s.out) /\ n <= Len(s.out)
      /\ Len(c.ops) \in Nat /\ 1 <= Len(c.ops)
  BY SeqLen DEF Agree
<1>2. c.temp \in Nat /\ c.temp + 1 \in Nat /\ c.temp + 0 = c.temp /\ c.temp + 1 + 0 = c.temp + 1
      /\ c.temp + 1 + 1 - 1 = c.temp + 1 /\ c.temp < NumTemps
  BY EmitsTemp, PirSizes DEF Agree
<1>3. /\ IsContext(r) /\ r.code = c.code /\ r.temp = c.temp + 1
      /\ Stacked(c.ops, 1, New(c.temp, 1), r.ops)
  BY <1>1, ReplaceStack
<1> HIDE DEF r
<1>4. IsSeq(r.ops) /\ Len(r.ops) = Len(c.ops) /\ \A k \in 1 .. Len(c.ops) - 1 : r.ops[k] = c.ops[k]
  <2>1. Len(New(c.temp, 1)) = 1
    BY <1>2, NewOne
  <2>2. /\ IsSeq(r.ops) /\ Len(r.ops) = Len(c.ops) - 1 + Len(New(c.temp, 1))
        /\ \A k \in 1 .. Len(c.ops) - 1 : r.ops[k] = c.ops[k]
    BY <1>3 DEF Stacked
  <2>3. Len(r.ops) = Len(c.ops) - 1 + 1
    BY <2>1, <2>2
  <2>4. Len(c.ops) - 1 + 1 = Len(c.ops)
    BY <1>1
  <2> QED BY <2>2, <2>3, <2>4
<1>5. /\ IsContext(e) /\ e.code = r.code /\ e.temp = r.temp + 1
      /\ Stacked(r.ops, n, New(r.temp, 1), e.ops)
  BY <1>3, <1>4, ReplaceStack
<1> HIDE DEF e
<1>6. Stacked(c.ops, n, New(c.temp + 1, 1), e.ops)
  <2>1. \A k \in 1 .. Len(c.ops) - n : r.ops[k] = c.ops[k]
    BY <1>1, <1>4
  <2> QED BY <1>3, <1>4, <1>5, <2>1 DEF Stacked
<1>7. IsContext(f) /\ f.code = Append(e.code, i1) /\ f.temp = e.temp /\ f.ops = e.ops
  BY <1>5, AddFields
<1> HIDE DEF f
<1>8. IsContext(d) /\ d.code = Append(f.code, i2) /\ d.temp = f.temp /\ d.ops = f.ops
  BY <1>7, AddFields
<1> HIDE DEF d
<1>9. /\ IsMachine(t) /\ t.env = s.env /\ t.trace = s.trace
      /\ Stacked(s.out, n, <<x2>>, t.out)
  BY <1>1, PushStack
<1> HIDE DEF t
<1>10. d.code = Append(Append(c.code, i1), i2) /\ d.temp = c.temp + 1 + 1 /\ Ran(d) = p2
  BY <1>3, <1>5, <1>7, <1>8, EmitsCode DEF Ran
<1>11. Begins(c.code, d.code)
  <2>1. /\ c.code \in Seq(Instrs) /\ Append(c.code, i1) \in Seq(Instrs)
        /\ Len(c.code) \in Nat /\ Len(Append(c.code, i1)) \in Nat /\ Len(d.code) \in Nat
    BY <1>10, EmitsCode DEF Agree
  <2> QED BY <2>1, <1>10, AppendBegins, BeginsOn
<1>12. /\ Temp(c.temp + 1) \in Known(d.temp) /\ Temp(c.temp + 1) \in Values
       /\ \A v \in Values : (v \in Temps => v \in TempsBelow(c.temp)) =>
            v # Temp(c.temp) /\ v # Temp(c.temp + 1)
  BY <1>2, <1>10, NextTemp, SecondTemp
<1>13. Ran(d).trace = t.trace
  BY <1>9, <1>10 DEF Wrote, Agree
<1>14. \A v \in Values : (v \in Temps => v \in TempsBelow(c.temp)) => Ran(d).env[v] = Ran(c).env[v]
  BY <1>10, <1>12 DEF Wrote
<1>15. x2 = Value(Ran(d), Temp(c.temp + 1))
  BY <1>10, <1>12 DEF Wrote, Value
<1>16. /\ Len(New(c.temp + 1, 1)) = 1 /\ New(c.temp + 1, 1)[1] = Temp(c.temp + 1)
       /\ Len(<<x2>>) = 1 /\ <<x2>>[1] = x2
  BY <1>2, NewOne
<1>17. \A i \in 1 .. Len(New(c.temp + 1, 1)) :
         /\ New(c.temp + 1, 1)[i] \in Known(d.temp)
         /\ <<x2>>[i] = Value(Ran(d), New(c.temp + 1, 1)[i])
  BY <1>12, <1>15, <1>16
<1>18. /\ Stacked(c.ops, n, New(c.temp + 1, 1), d.ops) /\ Stacked(s.out, n, <<x2>>, t.out)
       /\ c.temp <= d.temp /\ Emits(d.code, d.temp, Ran(d))
  BY <1>2, <1>6, <1>7, <1>8, <1>9, <1>10
<1>19. Grows(c, d, s, t, n, New(c.temp + 1, 1), <<x2>>)
  BY <1>8, <1>9, <1>11, <1>13, <1>14, <1>16, <1>17, <1>18 DEF Grows
<1> QED BY <1>19 DEF d, e, f, r, t

\* d and t come after c and s: the n values on top are replaced by g, those
\* below are kept, and the source machine's variables are as they were.
Advances(c, s, K, n, g, d, t) ==
  /\ Agree(d, t, K) /\ Len(d.ops) = Len(c.ops) - n + g
  /\ \A k \in 1 .. Len(c.ops) - n : d.ops[k] = c.ops[k] /\ t.out[k] = s.out[k]
  /\ t.env = s.env /\ c.temp <= d.temp /\ Begins(c.code, d.code)

\* The n values on top of the stack are among the places that agree.
TopAgrees(c, n, K) == n \in Nat /\ n <= Len(c.ops) /\ \A k \in Nat : k > Len(c.ops) - n => k \in K

\* The same, in the form the nodes are composed in.
LEMMA Advance ==
  ASSUME NEW c, NEW s, NEW K, Agree(c, s, K), NEW n, TopAgrees(c, n, K),
         NEW d, NEW t, NEW r, NEW u, IsSeq(r), Grows(c, d, s, t, n, r, u)
  PROVE  Advances(c, s, K, n, Len(r), d, t)
<1>1. n \in Nat /\ n <= Len(c.ops) /\ \A k \in Nat : k > Len(c.ops) - n => k \in K
  BY DEF TopAgrees
<1>2. /\ Agree(d, t, K)
      /\ Len(d.ops) = Len(c.ops) - n + Len(r)
      /\ \A k \in 1 .. Len(c.ops) - n : d.ops[k] = c.ops[k] /\ t.out[k] = s.out[k]
  BY <1>1, GrowsRight
<1>3. t.env = s.env /\ c.temp <= d.temp /\ Begins(c.code, d.code)
  BY DEF Grows
<1> QED BY <1>2, <1>3 DEF Advances

\* A node of one instruction (genUnaryOp, genBinaryOp, genDeref, ...).
LEMMA OneNode ==
  ASSUME NEW c, NEW s, NEW K, Agree(c, s, K), NEW n, TopAgrees(c, n, K),
         c.temp < NumTemps, NEW ins, NEW x,
         Emits(Append(c.code, ins), c.temp + 1, Exec(Ran(c), ins)),
         Wrote(Ran(c), Exec(Ran(c), ins), Temp(c.temp), x)
  PROVE  Advances(c, s, K, n, 1, AddInstr(Replace(c, n, 1), ins), Push1(s, n, x))
<1>1. n \in Nat /\ n <= Len(c.ops)
  BY DEF TopAgrees
<1>2. Grows(c, AddInstr(Replace(c, n, 1), ins), s, Push1(s, n, x), n, New(c.temp, 1), <<x>>)
  BY <1>1, OneInstr
<1>3. IsSeq(New(c.temp, 1)) /\ Len(New(c.temp, 1)) = 1
  BY NewOne, EmitsTemp DEF Agree
<1>4. Advances(c, s, K, n, Len(New(c.temp, 1)), AddInstr(Replace(c, n, 1), ins), Push1(s, n, x))
  BY <1>2, <1>3, Advance
<1> QED BY <1>3, <1>4

\* The operands on top of the stack are known and have the values of the source.
LEMMA TopOne ==
  ASSUME NEW c, NEW s, NEW K, Agree(c, s, K), NEW n, TopAgrees(c, n, K), n > 0
  PROVE  /\ Last(c.ops) \in Known(c.temp)
         /\ Last(s.out) = Value(Ran(c), Last(c.ops))
<1>1. /\ n \in Nat /\ n <= Len(c.ops) /\ \A k \in Nat : k > Len(c.ops) - n => k \in K
      /\ IsSeq(c.ops) /\ IsSeq(s.out) /\ Len(s.out) = Len(c.ops) /\ Len(c.ops) \in Nat
  BY SeqLen DEF TopAgrees, Agree
<1>2. Last(c.ops) = c.ops[Len(c.ops)] /\ Last(s.out) = s.out[Len(c.ops)]
  BY <1>1, TopOf
<1>3. Len(c.ops) \in 1 .. Len(c.ops) /\ Len(c.ops) \in K
  BY <1>1
<1> QED BY <1>2, <1>3 DEF Agree

LEMMA TopTwo ==
  ASSUME NEW c, NEW s, NEW K, Agree(c, s, K), TopAgrees(c, 2, K)
  PROVE  LET ab == TopOps(c, 2)
             d  == SubSeq(s.out, Len(s.out) - 1, Len(s.out))
         IN /\ ab[1] \in Known(c.temp) /\ ab[2] \in Known(c.temp)
            /\ d = <<Value(Ran(c), ab[1]), Value(Ran(c), ab[2])>>
<1> DEFINE n  == Len(c.ops)
           ab == TopOps(c, 2)
           d  == SubSeq(s.out, Len(s.out) - 1, Len(s.out))
<1>1. /\ 2 <= n /\ \A k \in Nat : k > n - 2 => k \in K
      /\ IsSeq(c.ops) /\ IsSeq(s.out) /\ Len(s.out) = n /\ n \in Nat
  BY SeqLen DEF TopAgrees, Agree
<1>2. PICK i \in Nat : i = 2
  OBVIOUS
<1>3. n - i + 1 = n - 1 /\ 1 \in 1 .. i /\ 2 \in 1 .. i /\ n - i + 1 = n - 1 /\ n - i + 2 = n
  BY <1>1, <1>2
<1>4. /\ IsSeq(SubSeq(c.ops, n - i + 1, n)) /\ Len(SubSeq(c.ops, n - i + 1, n)) = i
      /\ \A k \in 1 .. i : SubSeq(c.ops, n - i + 1, n)[k] = c.ops[n - i + k]
  BY <1>1, <1>2, TopSlice
<1>5. ab = SubSeq(c.ops, n - i + 1, n)
  BY <1>2 DEF TopOps
<1>6. ab[1] = c.ops[n - 1] /\ ab[2] = c.ops[n]
  BY <1>3, <1>4, <1>5
<1>7. /\ IsSeq(SubSeq(s.out, n - i + 1, n)) /\ Len(SubSeq(s.out, n - i + 1, n)) = i
      /\ \A k \in 1 .. i : SubSeq(s.out, n - i + 1, n)[k] = s.out[n - i + k]
  <2>1. n = Len(s.out) /\ i <= Len(s.out) /\ IsSeq(s.out)
    BY <1>1, <1>2
  <2> HIDE DEF n
  <2> QED BY <2>1, TopSlice
<1>8. d = SubSeq(s.out, n - i + 1, n)
  BY <1>1, <1>3
<1>9. IsSeq(d) /\ Len(d) = 2 /\ d[1] = s.out[n - 1] /\ d[2] = s.out[n]
  BY <1>2, <1>3, <1>7, <1>8
<1>10. n - 1 \in 1 .. n /\ n \in 1 .. n /\ n - 1 \in K /\ n \in K
  BY <1>1
<1>11. /\ c.ops[n - 1] \in Known(c.temp) /\ c.ops[n] \in Known(c.temp)
       /\ s.out[n - 1] = Value(Ran(c), c.ops[n - 1]) /\ s.out[n] = Value(Ran(c), c.ops[n])
  BY <1>10 DEF Agree
<1> HIDE DEF d, ab, n
<1>12. ab[1] \in Known(c.temp) /\ ab[2] \in Known(c.temp)
  BY <1>6, <1>11
<1>13. d[1] = Value(Ran(c), ab[1]) /\ d[2] = Value(Ran(c), ab[2])
  BY <1>6, <1>9, <1>11
<1>14. d = <<d[1], d[2]>>
  <2> DEFINE w == <<d[1], d[2]>>
  <2>1. IsSeq(w) /\ Len(w) = 2 /\ w[1] = d[1] /\ w[2] = d[2]
    BY Single
  <2> HIDE DEF w
  <2>2. \A k \in 1 .. Len(d) : d[k] = w[k]
    BY <1>9, <2>1
  <2>3. d = w
    BY <1>9, <2>1, <2>2, SameSeq
  <2> QED BY <2>3 DEF w
<1>15. d = <<Value(Ran(c), ab[1]), Value(Ran(c), ab[2])>>
  BY <1>13, <1>14
<1> QED BY <1>12, <1>15 DEF ab, d

\* The temporaries a node takes.
Uses(node) == CASE node.k = "leaf" -> 0
                [] node.k \in {"unary", "binary", "deref", "dot"} -> 1
                [] node.k \in {"arrow", "index"} -> 2
                [] node.k = "call" -> node.rets

\* Enough is there for the node: operands, places that agree, temporaries.
Ready(c, s, K, node) == /\ Agree(c, s, K) /\ node \in Nodes
                        /\ TopAgrees(c, Takes(node), K)
                        /\ c.temp + Uses(node) <= NumTemps

After(c, s, K, node) ==
  Advances(c, s, K, Takes(node), Gives(node), GenNode(c, node), EvalNode(s, node))

\* What nodes are made of.
LEMMA Kinds ==
  ASSUME NEW node \in Nodes
  PROVE  /\ node.k \in {"leaf", "unary", "binary", "deref", "dot", "arrow", "index", "call"}
         /\ node.k = "leaf" => node.o \in Sources
         /\ node.k \in {"dot", "arrow"} => node.off \in Nat
         /\ node.k = "index" => node.size \in Nat
         /\ node.k = "call" => node.args \in Nat /\ node.rets \in Nat
BY DEF Nodes

LEMMA NextDest ==
  ASSUME NEW c, NEW s, NEW K, Agree(c, s, K), c.temp + 1 <= NumTemps
  PROVE  /\ c.temp \in Nat /\ c.temp < NumTemps /\ Emits(c.code, c.temp, Ran(c))
         /\ Dest(c.temp, 1, Temp(c.temp)) /\ Fresh(c, 0) = Temp(c.temp)
         /\ Fresh(c, 1) = Temp(c.temp + 1)
<1>1. c.temp \in Nat /\ c.temp + 0 = c.temp /\ c.temp < NumTemps
  BY EmitsTemp, PirSizes DEF Agree
<1> QED BY <1>1 DEF Agree, Dest, Fresh

\* One kind of node after the other.
LEMMA UnaryRight ==
  ASSUME NEW c, NEW s, NEW K, NEW node, Ready(c, s, K, node), node.k = "unary"
  PROVE  After(c, s, K, node)
<1> DEFINE a == Last(c.ops)
           v == Temp(c.temp)
           x == Term("un", <<Value(Ran(c), a)>>, 0)
<1>1. Agree(c, s, K) /\ TopAgrees(c, 1, K) /\ c.temp + 1 <= NumTemps
      /\ Takes(node) = 1 /\ Gives(node) = 1
  BY DEF Ready, Takes, Gives, Uses
<1>2. a \in Known(c.temp) /\ Last(s.out) = Value(Ran(c), a)
  BY <1>1, TopOne
<1>3. c.temp < NumTemps /\ Emits(c.code, c.temp, Ran(c)) /\ Dest(c.temp, 1, v) /\ Fresh(c, 0) = v
  BY <1>1, NextDest
<1>4. /\ GenNode(c, node) = AddInstr(Replace(c, 1, 1), Un(a, v))
      /\ EvalNode(s, node) = Push1(s, 1, x)
  BY <1>2, <1>3 DEF GenNode, EvalNode
<1> HIDE DEF a, v
<1>5. /\ Emits(Append(c.code, Un(a, v)), c.temp + 1, Exec(Ran(c), Un(a, v)))
      /\ Wrote(Ran(c), Exec(Ran(c), Un(a, v)), v, x)
  BY <1>2, <1>3, EmitUn
<1> HIDE DEF x
<1>6. Advances(c, s, K, 1, 1, AddInstr(Replace(c, 1, 1), Un(a, v)), Push1(s, 1, x))
  BY <1>1, <1>3, <1>5, OneNode DEF v
<1> QED BY <1>1, <1>4, <1>6 DEF After

LEMMA DerefRight ==
  ASSUME NEW c, NEW s, NEW K, NEW node, Ready(c, s, K, node), node.k = "deref"
  PROVE  After(c, s, K, node)
<1> DEFINE a == Last(c.ops)
           v == Temp(c.temp)
           x == LoadTerm(Ran(c), Value(Ran(c), a))
<1>1. Agree(c, s, K) /\ TopAgrees(c, 1, K) /\ c.temp + 1 <= NumTemps
      /\ Takes(node) = 1 /\ Gives(node) = 1
  BY DEF Ready, Takes, Gives, Uses
<1>2. a \in Known(c.temp) /\ Last(s.out) = Value(Ran(c), a) /\ Ran(c).trace = s.trace
  BY <1>1, TopOne DEF Agree
<1>3. c.temp < NumTemps /\ Emits(c.code, c.temp, Ran(c)) /\ Dest(c.temp, 1, v) /\ Fresh(c, 0) = v
  BY <1>1, NextDest
<1>4. /\ GenNode(c, node) = AddInstr(Replace(c, 1, 1), LoadPtr(a, v))
      /\ EvalNode(s, node) = Push1(s, 1, x)
  BY <1>2, <1>3 DEF GenNode, EvalNode, LoadTerm
<1> HIDE DEF a, v
<1>5. /\ Emits(Append(c.code, LoadPtr(a, v)), c.temp + 1, Exec(Ran(c), LoadPtr(a, v)))
      /\ Wrote(Ran(c), Exec(Ran(c), LoadPtr(a, v)), v, x)
  BY <1>2, <1>3, EmitLoad
<1> HIDE DEF x
<1>6. Advances(c, s, K, 1, 1, AddInstr(Replace(c, 1, 1), LoadPtr(a, v)), Push1(s, 1, x))
  BY <1>1, <1>3, <1>5, OneNode DEF v
<1> QED BY <1>1, <1>4, <1>6 DEF After

LEMMA LitKnown ==
  ASSUME NEW n \in Nat, NEW t, NEW m
  PROVE  Lit(n) \in Known(t) /\ Value(m, Lit(n)) = Lit(n)
BY SourceFacts DEF Known, Value

LEMMA DotRight ==
  ASSUME NEW c, NEW s, NEW K, NEW node, Ready(c, s, K, node), node.k = "dot"
  PROVE  After(c, s, K, node)
<1> DEFINE a == Last(c.ops)
           b == Lit(node.off)
           v == Temp(c.temp)
           x == Term("bin", <<Value(Ran(c), a), Value(Ran(c), b)>>, 0)
<1>1. Agree(c, s, K) /\ TopAgrees(c, 1, K) /\ c.temp + 1 <= NumTemps
      /\ Takes(node) = 1 /\ Gives(node) = 1
  BY DEF Ready, Takes, Gives, Uses
<1>2. a \in Known(c.temp) /\ Last(s.out) = Value(Ran(c), a)
  BY <1>1, TopOne
<1>3. c.temp < NumTemps /\ Emits(c.code, c.temp, Ran(c)) /\ Dest(c.temp, 1, v) /\ Fresh(c, 0) = v
  BY <1>1, NextDest
<1>4. b \in Known(c.temp) /\ Value(Ran(c), b) = b
  <2>1. node.off \in Nat
    BY Kinds DEF Ready
  <2> QED BY <2>1, LitKnown
<1>5. /\ GenNode(c, node) = AddInstr(Replace(c, 1, 1), Bin(a, b, v))
      /\ EvalNode(s, node) = Push1(s, 1, x)
  <2>1. GenNode(c, node) = AddInstr(Replace(c, 1, 1), Bin(a, b, v))
    BY <1>3 DEF GenNode, GenOffset
  <2>2. EvalNode(s, node) = Push1(s, 1, Field1(Last(s.out), node.off))
    BY DEF EvalNode
  <2>3. Field1(Last(s.out), node.off) = x
    BY <1>2, <1>4 DEF Field1
  <2> QED BY <2>1, <2>2, <2>3
<1> HIDE DEF a, b, v
<1>6. /\ Emits(Append(c.code, Bin(a, b, v)), c.temp + 1, Exec(Ran(c), Bin(a, b, v)))
      /\ Wrote(Ran(c), Exec(Ran(c), Bin(a, b, v)), v, x)
  BY <1>2, <1>3, <1>4, EmitBin
<1> HIDE DEF x
<1>7. Advances(c, s, K, 1, 1, AddInstr(Replace(c, 1, 1), Bin(a, b, v)), Push1(s, 1, x))
  BY <1>1, <1>3, <1>6, OneNode DEF v
<1> QED BY <1>1, <1>5, <1>7 DEF After

LEMMA BinaryRight ==
  ASSUME NEW c, NEW s, NEW K, NEW node, Ready(c, s, K, node), node.k = "binary"
  PROVE  After(c, s, K, node)
<1> DEFINE a == TopOps(c, 2)[1]
           b == TopOps(c, 2)[2]
           v == Temp(c.temp)
           x == Term("bin", <<Value(Ran(c), a), Value(Ran(c), b)>>, 0)
<1>1. Agree(c, s, K) /\ TopAgrees(c, 2, K) /\ c.temp + 1 <= NumTemps
      /\ Takes(node) = 2 /\ Gives(node) = 1
  BY DEF Ready, Takes, Gives, Uses
<1>2. a \in Known(c.temp) /\ b \in Known(c.temp)
      /\ SubSeq(s.out, Len(s.out) - 1, Len(s.out)) = <<Value(Ran(c), a), Value(Ran(c), b)>>
  BY <1>1, TopTwo
<1>3. c.temp < NumTemps /\ Emits(c.code, c.temp, Ran(c)) /\ Dest(c.temp, 1, v) /\ Fresh(c, 0) = v
  BY <1>1, NextDest
<1>4. /\ GenNode(c, node) = AddInstr(Replace(c, 2, 1), Bin(a, b, v))
      /\ EvalNode(s, node) = Push1(s, 2, x)
  BY <1>2, <1>3 DEF GenNode, EvalNode
<1> HIDE DEF a, b, v
<1>5. /\ Emits(Append(c.code, Bin(a, b, v)), c.temp + 1, Exec(Ran(c), Bin(a, b, v)))
      /\ Wrote(Ran(c), Exec(Ran(c), Bin(a, b, v)), v, x)
  BY <1>2, <1>3, EmitBin
<1> HIDE DEF x
<1>6. Advances(c, s, K, 2, 1, AddInstr(Replace(c, 2, 1), Bin(a, b, v)), Push1(s, 2, x))
  BY <1>1, <1>3, <1>5, OneNode DEF v
<1> QED BY <1>1, <1>4, <1>6 DEF After

\* An operand pushed on the stack, and x beside it: its value, if the place is
\* one that agrees.
LEMMA PushRight ==
  ASSUME NEW c, NEW s, NEW K, Agree(c, s, K), NEW o \in Known(c.temp), NEW x,
         Len(c.ops) + 1 \in K => x = Value(Ran(c), o)
  PROVE  Advances(c, s, K, 0, 1, [c EXCEPT !.ops = Append(@, o)], Push1(s, 0, x))
<1> DEFINE d == [c EXCEPT !.ops = Append(@, o)]
           t == Push1(s, 0, x)
           n == Len(c.ops)
<1>1. /\ IsContext(c) /\ Emits(c.code, c.temp, Ran(c)) /\ IsSeq(c.ops) /\ n \in Nat
      /\ IsMachine(s) /\ IsSeq(s.out) /\ Len(s.out) = n
  BY SeqLen DEF Agree
<1>2. d = [code |-> c.code, temp |-> c.temp, ops |-> Append(c.ops, o)]
  <2> DEFINE q == Append(c.ops, o)
  <2>1. IsContext(c) /\ d = [c EXCEPT !.ops = q]
    BY <1>1
  <2> HIDE DEF q, d
  <2>2. d = [code |-> c.code, temp |-> c.temp, ops |-> q]
    BY <2>1 DEF IsContext
  <2> QED BY <2>2 DEF q
<1>3. IsContext(d) /\ d.code = c.code /\ d.temp = c.temp /\ d.ops = Append(c.ops, o)
  BY <1>2 DEF IsContext
<1>4. Stacked(c.ops, 0, <<o>>, d.ops)
  BY <1>1, <1>3, AppendStack
<1>5. /\ IsMachine(t) /\ t.env = s.env /\ t.trace = s.trace
      /\ Stacked(s.out, 0, <<x>>, t.out)
  <2>1. PICK z \in Nat : z = 0
    OBVIOUS
  <2>2. z <= Len(s.out)
    BY <1>1, <2>1
  <2>3. LET w == Push1(s, z, x)
        IN /\ IsMachine(w) /\ w.env = s.env /\ w.trace = s.trace
           /\ Stacked(s.out, z, <<x>>, w.out)
    BY <1>1, <2>2, PushStack
  <2> QED BY <2>1, <2>3
<1> HIDE DEF d, t
<1>6. /\ IsSeq(d.ops) /\ Len(d.ops) = n + 1 /\ d.ops[n + 1] = o
      /\ \A k \in 1 .. n : d.ops[k] = c.ops[k]
  <2>1. Len(<<o>>) = 1 /\ <<o>>[1] = o
    BY Single
  <2>2. /\ IsSeq(d.ops) /\ Len(d.ops) = n - 0 + 1
        /\ \A k \in 1 .. n - 0 : d.ops[k] = c.ops[k]
        /\ d.ops[n - 0 + 1] = o
    BY <1>4, <2>1 DEF Stacked
  <2> QED BY <1>1, <2>2
<1>7. /\ IsSeq(t.out) /\ Len(t.out) = n + 1 /\ t.out[n + 1] = x
      /\ \A k \in 1 .. n : t.out[k] = s.out[k]
  <2>1. Len(<<x>>) = 1 /\ <<x>>[1] = x
    BY Single
  <2>2. /\ IsSeq(t.out) /\ Len(t.out) = n - 0 + 1
        /\ \A k \in 1 .. n - 0 : t.out[k] = s.out[k]
        /\ t.out[n - 0 + 1] = x
    BY <1>1, <1>5, <2>1 DEF Stacked
  <2> QED BY <1>1, <2>2
<1>8. Ran(d) = Ran(c)
  BY <1>3 DEF Ran
<1>9. \A k \in 1 .. n + 1 : k \in 1 .. n \/ k = n + 1
  BY <1>1
<1>10. \A k \in 1 .. n + 1 : d.ops[k] \in Known(d.temp)
  <2>1. \A k \in 1 .. n : c.ops[k] \in Known(c.temp)
    BY DEF Agree
  <2> QED BY <1>3, <1>6, <1>9, <2>1
<1>11. \A k \in 1 .. n + 1 : k \in K => t.out[k] = Value(Ran(d), d.ops[k])
  <2>1. \A k \in 1 .. n : k \in K => s.out[k] = Value(Ran(c), c.ops[k])
    BY DEF Agree
  <2>2. n + 1 \in K => x = Value(Ran(c), o)
    OBVIOUS
  <2> HIDE DEF n
  <2> QED BY <1>6, <1>7, <1>8, <1>9, <2>1, <2>2
<1>12. Emits(d.code, d.temp, Ran(d))
  BY <1>1, <1>3, <1>8
<1>13. Ran(d).trace = t.trace /\ \A v \in Locals \cup Args : Ran(d).env[v] = t.env[v]
  BY <1>5, <1>8 DEF Agree
<1>14. Agree(d, t, K)
  BY <1>3, <1>5, <1>6, <1>7, <1>10, <1>11, <1>12, <1>13 DEF Agree
<1>15. Begins(c.code, d.code) /\ c.temp <= d.temp
  <2>1. c.temp \in Nat /\ Len(c.code) \in Nat
    BY <1>1, EmitsTemp, EmitsCode
  <2> QED BY <1>3, <2>1 DEF Begins
<1>16. Len(d.ops) = Len(c.ops) - 0 + 1
  BY <1>1, <1>6 DEF n
<1>17. \A k \in 1 .. Len(c.ops) - 0 : d.ops[k] = c.ops[k] /\ t.out[k] = s.out[k]
  BY <1>1, <1>6, <1>7 DEF n
<1>18. Advances(c, s, K, 0, 1, d, t)
  BY <1>5, <1>14, <1>15, <1>16, <1>17 DEF Advances
<1> QED BY <1>18 DEF d, t

\* The source machine and the PIR machine have the same value for a source.
LEMMA SourceValue ==
  ASSUME NEW c, NEW s, NEW K, Agree(c, s, K), NEW o \in Sources
  PROVE  Value(s, o) = Value(Ran(c), o)
<1>1. o \in Values => o \in Locals \cup Args
  BY SourceFacts DEF Values
<1> QED BY <1>1 DEF Value, Agree

LEMMA LeafRight ==
  ASSUME NEW c, NEW s, NEW K, NEW node, Ready(c, s, K, node), node.k = "leaf"
  PROVE  After(c, s, K, node)
<1>1. Agree(c, s, K) /\ Takes(node) = 0 /\ Gives(node) = 1 /\ node.o \in Sources
  BY Kinds DEF Ready, Takes, Gives
<1>2. node.o \in Known(c.temp) /\ Value(s, node.o) = Value(Ran(c), node.o)
  BY <1>1, SourceValue DEF Known
<1>3. /\ GenNode(c, node) = [c EXCEPT !.ops = Append(@, node.o)]
      /\ EvalNode(s, node) = Push1(s, 0, Value(s, node.o))
  BY DEF GenNode, EvalNode
<1>4. Advances(c, s, K, 0, 1, [c EXCEPT !.ops = Append(@, node.o)], Push1(s, 0, Value(s, node.o)))
  BY <1>1, <1>2, PushRight
<1> QED BY <1>1, <1>3, <1>4 DEF After

\* A node of two instructions (genArrowAccess, genIndexAccess).
LEMMA TwoNodes ==
  ASSUME NEW c, NEW s, NEW K, Agree(c, s, K), NEW n, TopAgrees(c, n, K), n > 0,
         c.temp + 2 <= NumTemps, NEW i1, NEW i2, NEW x1, NEW x2, NEW p1, NEW p2,
         p1 = Exec(Ran(c), i1), p2 = Exec(p1, i2),
         Emits(Append(c.code, i1), c.temp + 1, p1),
         Emits(Append(Append(c.code, i1), i2), c.temp + 1 + 1, p2),
         Wrote(Ran(c), p1, Temp(c.temp), x1), Wrote(p1, p2, Temp(c.temp + 1), x2)
  PROVE  Advances(c, s, K, n, 1, AddInstr(AddInstr(Replace(Replace(c, 1, 1), n, 1), i1), i2),
                  Push1(s, n, x2))
<1> DEFINE d == AddInstr(AddInstr(Replace(Replace(c, 1, 1), n, 1), i1), i2)
<1>1. n \in Nat /\ n <= Len(c.ops)
  BY DEF TopAgrees
<1>2. c.temp \in Nat /\ c.temp + 1 \in Nat /\ c.temp + 1 < NumTemps
  BY EmitsTemp, PirSizes DEF Agree
<1>3. Grows(c, d, s, Push1(s, n, x2), n, New(c.temp + 1, 1), <<x2>>)
  BY <1>1, <1>2, TwoInstrs
<1>4. IsSeq(New(c.temp + 1, 1)) /\ Len(New(c.temp + 1, 1)) = 1
  BY <1>2, NewOne
<1> HIDE DEF d
<1>5. Advances(c, s, K, n, Len(New(c.temp + 1, 1)), d, Push1(s, n, x2))
  BY <1>3, <1>4, Advance
<1> QED BY <1>4, <1>5 DEF d

\* After the first of two instructions, what was known is known and has its
\* value, and the temporary written has the one computed.
LEMMA FirstOfTwo ==
  ASSUME NEW c, NEW s, NEW K, Agree(c, s, K), c.temp + 2 <= NumTemps,
         NEW p, NEW x, Wrote(Ran(c), p, Temp(c.temp), x)
  PROVE  /\ \A o \in Known(c.temp) : o \in Known(c.temp + 1) /\ Value(p, o) = Value(Ran(c), o)
         /\ Temp(c.temp) \in Known(c.temp + 1) /\ Value(p, Temp(c.temp)) = x
         /\ Dest(c.temp + 1, 1, Temp(c.temp + 1)) /\ c.temp + 1 \in Nat
<1>1. c.temp \in Nat /\ c.temp <= NumTemps /\ c.temp < NumTemps /\ c.temp + 1 < NumTemps
      /\ c.temp + 1 \in Nat
  BY EmitsTemp, PirSizes DEF Agree
<1>2. /\ Temp(c.temp) \in Values /\ Temp(c.temp) \in Known(c.temp + 1)
      /\ \A v \in Values : (v \in Temps => v \in TempsBelow(c.temp)) => v # Temp(c.temp)
  BY <1>1, NextTemp
<1>3. \A v \in Values : (v \in Temps => v \in TempsBelow(c.temp)) => p.env[v] = Ran(c).env[v]
  BY <1>2 DEF Wrote
<1>4. ASSUME NEW o \in Known(c.temp) PROVE o \in Known(c.temp + 1) /\ Value(p, o) = Value(Ran(c), o)
  BY <1>1, <1>3, KnownKept, KnownFacts
<1>5. Value(p, Temp(c.temp)) = x
  BY <1>2 DEF Wrote, Value
<1>6. Dest(c.temp + 1, 1, Temp(c.temp + 1))
  BY <1>1 DEF Dest
<1> QED BY <1>1, <1>2, <1>4, <1>5, <1>6

LEMMA ArrowRight ==
  ASSUME NEW c, NEW s, NEW K, NEW node, Ready(c, s, K, node), node.k = "arrow"
  PROVE  After(c, s, K, node)
<1> DEFINE a == Last(c.ops)
           b == Lit(node.off)
           v == Temp(c.temp)
           w == Temp(c.temp + 1)
           p == Exec(Ran(c), Bin(a, b, v))
           q == Exec(p, LoadPtr(v, w))
           x == Term("bin", <<Value(Ran(c), a), Value(Ran(c), b)>>, 0)
           y == LoadTerm(p, x)
<1>1. Agree(c, s, K) /\ TopAgrees(c, 1, K) /\ c.temp + 2 <= NumTemps
      /\ Takes(node) = 1 /\ Gives(node) = 1
  BY DEF Ready, Takes, Gives, Uses
<1>2. a \in Known(c.temp) /\ Last(s.out) = Value(Ran(c), a) /\ Ran(c).trace = s.trace
  BY <1>1, TopOne DEF Agree
<1>3. /\ Emits(c.code, c.temp, Ran(c)) /\ Dest(c.temp, 1, v)
      /\ Fresh(c, 0) = v /\ Fresh(c, 1) = w
  <2>1. c.temp + 1 <= NumTemps
    BY <1>1, EmitsTemp, PirSizes DEF Agree
  <2> QED BY <1>1, <2>1, NextDest
<1>4. b \in Known(c.temp) /\ Value(Ran(c), b) = b
  <2>1. node.off \in Nat
    BY Kinds DEF Ready
  <2> QED BY <2>1, LitKnown
<1>5. GenNode(c, node) = AddInstr(AddInstr(Replace(Replace(c, 1, 1), 1, 1), Bin(a, b, v)), LoadPtr(v, w))
  BY <1>3 DEF GenNode, GenOffset
<1>6. EvalNode(s, node) = Push1(s, 1, LoadTerm(s, x))
  <2>1. EvalNode(s, node) = Push1(s, 1, LoadTerm(s, Field1(Last(s.out), node.off)))
    BY DEF EvalNode
  <2>2. Field1(Last(s.out), node.off) = x
    BY <1>2, <1>4 DEF Field1
  <2> QED BY <2>1, <2>2
<1> HIDE DEF a, b, v, w, x
<1>7. Emits(Append(c.code, Bin(a, b, v)), c.temp + 1, p) /\ Wrote(Ran(c), p, v, x)
  BY <1>2, <1>3, <1>4, EmitBin DEF x
<1> HIDE DEF p
<1>8. v \in Known(c.temp + 1) /\ Value(p, v) = x /\ Dest(c.temp + 1, 1, w)
  BY <1>1, <1>7, FirstOfTwo DEF v, w
<1>9. /\ Emits(Append(Append(c.code, Bin(a, b, v)), LoadPtr(v, w)), c.temp + 1 + 1, q)
      /\ Wrote(p, q, w, y)
  BY <1>7, <1>8, EmitLoad
<1>10. y = LoadTerm(s, x)
  BY <1>2, <1>7 DEF Wrote, LoadTerm
<1>11. p = Exec(Ran(c), Bin(a, b, v)) /\ q = Exec(p, LoadPtr(v, w))
  BY DEF p
<1> HIDE DEF y, q
<1>12. Advances(c, s, K, 1, 1, AddInstr(AddInstr(Replace(Replace(c, 1, 1), 1, 1), Bin(a, b, v)), LoadPtr(v, w)),
                Push1(s, 1, y))
  BY <1>1, <1>7, <1>9, <1>11, TwoNodes DEF v, w
<1> QED BY <1>1, <1>5, <1>6, <1>10, <1>12 DEF After

LEMMA IndexRight ==
  ASSUME NEW c, NEW s, NEW K, NEW node, Ready(c, s, K, node), node.k = "index"
  PROVE  After(c, s, K, node)
<1> DEFINE a == TopOps(c, 2)[1]
           i == TopOps(c, 2)[2]
           b == Lit(node.size)
           v == Temp(c.temp)
           w == Temp(c.temp + 1)
           p == Exec(Ran(c), Bin(i, b, v))
           q == Exec(p, Bin(a, v, w))
           x == Term("bin", <<Value(Ran(c), i), Value(Ran(c), b)>>, 0)
           y == Term("bin", <<Value(p, a), Value(p, v)>>, 0)
<1>1. Agree(c, s, K) /\ TopAgrees(c, 2, K) /\ c.temp + 2 <= NumTemps
      /\ Takes(node) = 2 /\ Gives(node) = 1
  BY DEF Ready, Takes, Gives, Uses
<1>2. a \in Known(c.temp) /\ i \in Known(c.temp)
      /\ SubSeq(s.out, Len(s.out) - 1, Len(s.out)) = <<Value(Ran(c), a), Value(Ran(c), i)>>
  BY <1>1, TopTwo
<1>3. /\ Emits(c.code, c.temp, Ran(c)) /\ Dest(c.temp, 1, v)
      /\ Fresh(c, 0) = v /\ Fresh(c, 1) = w
  <2>1. c.temp + 1 <= NumTemps
    BY <1>1, EmitsTemp, PirSizes DEF Agree
  <2> QED BY <1>1, <2>1, NextDest
<1>4. b \in Known(c.temp) /\ Value(Ran(c), b) = b
  <2>1. node.size \in Nat
    BY Kinds DEF Ready
  <2> QED BY <2>1, LitKnown
<1>5. GenNode(c, node) = AddInstr(AddInstr(Replace(Replace(c, 1, 1), 2, 1), Bin(i, b, v)), Bin(a, v, w))
  BY <1>3 DEF GenNode
<1>6. EvalNode(s, node) = Push1(s, 2, Term("bin", <<Value(Ran(c), a), x>>, 0))
  <2> DEFINE d == SubSeq(s.out, Len(s.out) - 1, Len(s.out))
  <2>1. EvalNode(s, node)
          = Push1(s, 2, Term("bin", <<d[1], Term("bin", <<d[2], Lit(node.size)>>, 0)>>, 0))
    BY DEF EvalNode
  <2>2. d = <<Value(Ran(c), a), Value(Ran(c), i)>>
    BY <1>2
  <2> HIDE DEF d, a, i
  <2>3. d[1] = Value(Ran(c), a) /\ d[2] = Value(Ran(c), i)
    BY <2>2
  <2> QED BY <1>4, <2>1, <2>3 DEF x
<1> HIDE DEF a, b, i, v, w, x
<1>7. Emits(Append(c.code, Bin(i, b, v)), c.temp + 1, p) /\ Wrote(Ran(c), p, v, x)
  BY <1>2, <1>3, <1>4, EmitBin DEF x
<1> HIDE DEF p
<1>8. /\ v \in Known(c.temp + 1) /\ Value(p, v) = x /\ Dest(c.temp + 1, 1, w)
      /\ a \in Known(c.temp + 1) /\ Value(p, a) = Value(Ran(c), a)
  BY <1>1, <1>2, <1>7, FirstOfTwo DEF v, w
<1>9. /\ Emits(Append(Append(c.code, Bin(i, b, v)), Bin(a, v, w)), c.temp + 1 + 1, q)
      /\ Wrote(p, q, w, y)
  BY <1>7, <1>8, EmitBin
<1>10. y = Term("bin", <<Value(Ran(c), a), x>>, 0)
  BY <1>8
<1>11. p = Exec(Ran(c), Bin(i, b, v)) /\ q = Exec(p, Bin(a, v, w))
  BY DEF p
<1> HIDE DEF y, q
<1>12. Advances(c, s, K, 2, 1, AddInstr(AddInstr(Replace(Replace(c, 1, 1), 2, 1), Bin(i, b, v)), Bin(a, v, w)),
                Push1(s, 2, y))
  BY <1>1, <1>7, <1>9, <1>11, TwoNodes DEF v, w
<1> QED BY <1>1, <1>5, <1>6, <1>10, <1>12 DEF After

\* The values of the operands on top are the ones on the source machine's stack.
LEMMA TopVals ==
  ASSUME NEW c, NEW s, NEW K, Agree(c, s, K), NEW n, TopAgrees(c, n, K)
  PROVE  LET ops == TopOps(c, n)
         IN /\ IsSeq(ops) /\ Len(ops) = n /\ \A k \in 1 .. n : ops[k] \in Known(c.temp)
            /\ SubSeq(s.out, Len(s.out) - n + 1, Len(s.out)) = Vals(Ran(c), ops)
<1> DEFINE m   == Len(c.ops)
           ops == TopOps(c, n)
           u   == SubSeq(s.out, Len(s.out) - n + 1, Len(s.out))
           w   == Vals(Ran(c), ops)
<1>1. /\ n \in Nat /\ n <= m /\ \A k \in Nat : k > m - n => k \in K
      /\ IsSeq(c.ops) /\ IsSeq(s.out) /\ Len(s.out) = m /\ m \in Nat
  BY SeqLen DEF TopAgrees, Agree
<1>2. IsSeq(ops) /\ Len(ops) = n /\ \A k \in 1 .. n : ops[k] = c.ops[m - n + k]
  BY <1>1, TopSlice DEF TopOps
<1>3. IsSeq(u) /\ Len(u) = n /\ \A k \in 1 .. n : u[k] = s.out[m - n + k]
  <2>1. m = Len(s.out) /\ n <= Len(s.out) /\ IsSeq(s.out) /\ n \in Nat
    BY <1>1
  <2> HIDE DEF m
  <2>2. /\ IsSeq(SubSeq(s.out, m - n + 1, m)) /\ Len(SubSeq(s.out, m - n + 1, m)) = n
        /\ \A k \in 1 .. n : SubSeq(s.out, m - n + 1, m)[k] = s.out[m - n + k]
    BY <2>1, TopSlice
  <2> QED BY <2>1, <2>2
<1>4. \A k \in 1 .. n : m - n + k \in 1 .. m /\ m - n + k \in K
  BY <1>1
<1>5. \A k \in 1 .. n : /\ c.ops[m - n + k] \in Known(c.temp)
                        /\ s.out[m - n + k] = Value(Ran(c), c.ops[m - n + k])
  <2>1. \A j \in 1 .. m : /\ c.ops[j] \in Known(c.temp)
                          /\ j \in K => s.out[j] = Value(Ran(c), c.ops[j])
    BY DEF Agree
  <2> HIDE DEF m
  <2> QED BY <1>4, <2>1
<1> HIDE DEF m
<1>6. DOMAIN ops = 1 .. n
  BY <1>2, SeqLen
<1> HIDE DEF ops, u
<1>7. w = [k \in 1 .. n |-> Value(Ran(c), ops[k])]
  BY <1>6 DEF Vals
<1>8. IsSeq(w) /\ Len(w) = n /\ \A k \in 1 .. n : w[k] = Value(Ran(c), ops[k])
  <2>1. w = [k \in 1 .. n |-> w[k]]
    BY <1>7
  <2> HIDE DEF w
  <2>2. IsSeq(w) /\ Len(w) = n
    BY <1>1, <2>1, SeqMade
  <2> QED BY <1>7, <2>2
<1> HIDE DEF w
<1>9. \A k \in 1 .. n : u[k] = w[k]
  BY <1>2, <1>3, <1>5, <1>8
<1>10. u = w
  BY <1>3, <1>8, <1>9, SameSeq
<1> QED BY <1>2, <1>5, <1>10 DEF ops, u, w

\* A sequence is its head and its tail.
LEMMA HeadTail ==
  ASSUME NEW S, NEW q, IsSeq(q), Len(q) > 0, \A k \in 1 .. Len(q) : q[k] \in S
  PROVE  Head(q) \in S /\ Tail(q) \in Seq(S) /\ q = <<Head(q)>> \o Tail(q)
<1>1. q \in Seq(S) /\ q # <<>>
  <2>1. q \in Seq(S)
    BY SeqIn
  <2> QED BY <2>1
<1>2. Head(q) \in S /\ Tail(q) \in Seq(S)
  BY <1>1, HeadTailProperties
<1>3. q = <<Head(q)>> \o Tail(q)
  BY <1>1
<1> QED BY <1>2, <1>3

LEMMA EmitCallNew ==
  ASSUME NEW code, NEW t, NEW p, Emits(code, t, p), NEW n \in Nat, t + n <= NumTemps,
         NEW f \in Known(t), NEW args \in Seq(Known(t))
  PROVE  LET q == Exec(p, Call(f, args, New(t, n)))
         IN /\ Emits(Append(code, Call(f, args, New(t, n))), t + n, q)
            /\ Called(p, q, <<f>> \o args, New(t, n))
BY EmitCall, Zenon DEF New

\* A call: its operands are taken, its returns are in fresh temporaries.
LEMMA CallRight ==
  ASSUME NEW c, NEW s, NEW K, NEW node, Ready(c, s, K, node), node.k = "call"
  PROVE  /\ After(c, s, K, node)
         /\ \A k \in 1 .. node.rets :
              GenNode(c, node).ops[Len(c.ops) - Takes(node) + k] = Temp(c.temp + k - 1)
<1> DEFINE n    == node.args + 1
           m    == node.rets
           ops  == TopOps(c, n)
           rets == New(c.temp, m)
           ins  == Call(Head(ops), Tail(ops), rets)
           q    == Exec(Ran(c), ins)
           e    == Replace(c, n, m)
           d    == AddInstr(e, ins)
           z    == DoCall(s, Vals(Ran(c), ops))
           u    == [k \in 1 .. m |-> RetTerm(z, k)]
           w    == SubSeq(s.out, 1, Len(s.out) - n) \o u
           t    == [z EXCEPT !.out = w]
<1>1. /\ Agree(c, s, K) /\ TopAgrees(c, n, K) /\ c.temp + m <= NumTemps
      /\ Takes(node) = n /\ Gives(node) = m
  BY DEF Ready, Takes, Gives, Uses
<1>2. m \in Nat /\ n \in Nat /\ n > 0 /\ n <= Len(c.ops) /\ Len(c.ops) \in Nat
      /\ IsContext(c) /\ IsSeq(c.ops) /\ IsMachine(s) /\ IsSeq(s.out) /\ Len(s.out) = Len(c.ops)
      /\ c.temp \in Nat /\ Emits(c.code, c.temp, Ran(c)) /\ Ran(c).trace = s.trace
  <2>1. node.args \in Nat /\ node.rets \in Nat
    BY Kinds DEF Ready
  <2> QED BY <1>1, <2>1, SeqLen, EmitsTemp DEF Agree, TopAgrees
<1>3. /\ IsSeq(ops) /\ Len(ops) = n /\ \A k \in 1 .. n : ops[k] \in Known(c.temp)
      /\ SubSeq(s.out, Len(s.out) - n + 1, Len(s.out)) = Vals(Ran(c), ops)
  BY <1>1, TopVals
<1>4. GenNode(c, node) = d
  <2>1. GenNode(c, node) = AddInstr(e, Call(Head(ops), Tail(ops), [i \in 1 .. m |-> Fresh(c, i - 1)]))
    BY DEF GenNode
  <2>2. \A i \in 1 .. m : Fresh(c, i - 1) = Temp(c.temp + i - 1)
    <3>1. \A i \in 1 .. m : c.temp + (i - 1) = c.temp + i - 1
      BY <1>2
    <3> QED BY <3>1 DEF Fresh
  <2>3. [i \in 1 .. m |-> Fresh(c, i - 1)] = rets
    BY <2>2 DEF New
  <2> QED BY <2>1, <2>3
<1>5. EvalNode(s, node) = t
  <2> DEFINE x == SubSeq(s.out, Len(s.out) - n + 1, Len(s.out))
             y == DoCall(s, x)
  <2>1. EvalNode(s, node)
          = [y EXCEPT !.out = SubSeq(@, 1, Len(@) - n) \o [k \in 1 .. m |-> RetTerm(y, k)]]
    BY DEF EvalNode
  <2>2. x = Vals(Ran(c), ops)
    BY <1>3
  <2>3. y = z
    BY <2>2
  <2>4. z.out = s.out
    BY <1>2, CallTraces DEF Traced
  <2> HIDE DEF y, z
  <2> QED BY <2>1, <2>3, <2>4
<1>6. Head(ops) \in Known(c.temp) /\ Tail(ops) \in Seq(Known(c.temp)) /\ ops = <<Head(ops)>> \o Tail(ops)
  <2>1. IsSeq(ops) /\ Len(ops) > 0 /\ \A k \in 1 .. Len(ops) : ops[k] \in Known(c.temp)
    BY <1>2, <1>3
  <2> HIDE DEF ops
  <2> QED BY <2>1, HeadTail
<1> HIDE DEF ops, n, m
<1>7. /\ Emits(Append(c.code, ins), c.temp + m, q)
      /\ Called(Ran(c), q, <<Head(ops)>> \o Tail(ops), rets)
      /\ Len(rets) = m /\ \A k \in 1 .. m : rets[k] = Temp(c.temp + k - 1)
  <2>1. Len(rets) = m /\ \A k \in 1 .. m : rets[k] = Temp(c.temp + k - 1)
    BY <1>2, NewSeq
  <2> QED BY <1>1, <1>2, <1>6, <2>1, EmitCallNew
<1>8. Called(Ran(c), q, ops, rets)
  BY <1>6, <1>7
<1>9. IsSeq(rets)
  BY <1>2, NewSeq
<1>10. /\ IsContext(e) /\ e.code = c.code /\ e.temp = c.temp + m
       /\ Stacked(c.ops, n, rets, e.ops)
  BY <1>2, ReplaceStack
<1> HIDE DEF rets, ins, e
<1>11. IsContext(d) /\ d.code = Append(c.code, ins) /\ d.temp = c.temp + m /\ d.ops = e.ops
  BY <1>10, AddFields
<1>12. /\ IsMachine(z) /\ z.env = s.env /\ z.out = s.out
       /\ z.trace = Append(s.trace, Term("call", Vals(Ran(c), ops), 0))
  BY <1>2, CallTraces DEF Traced
<1>13. q.trace = z.trace /\ IsMachine(q)
  BY <1>2, <1>8, <1>12 DEF Called
<1> HIDE DEF d, z
<1>14. IsSeq(u) /\ Len(u) = m /\ \A k \in 1 .. m : u[k] = RetTerm(z, k)
  <2>1. u = [k \in 1 .. m |-> u[k]]
    OBVIOUS
  <2>2. \A k \in 1 .. m : u[k] = RetTerm(z, k)
    OBVIOUS
  <2> HIDE DEF u
  <2> QED BY <1>2, <2>1, <2>2, SeqMade
<1> HIDE DEF u
<1>15. Stacked(s.out, n, u, w)
  BY <1>2, <1>14, Restack
<1> HIDE DEF w
<1>16. t = [env |-> z.env, trace |-> z.trace, out |-> w]
  BY <1>12 DEF IsMachine
<1>17. /\ IsMachine(t) /\ t.env = s.env /\ t.trace = z.trace /\ t.out = w
  BY <1>12, <1>16 DEF IsMachine
<1> HIDE DEF t, q
<1>18. Ran(d) = q /\ Begins(c.code, d.code) /\ c.temp <= d.temp
  <2>1. c.code \in Seq(Instrs)
    BY <1>2, EmitsCode
  <2>2. q = Run(Start, Append(c.code, ins))
    BY <1>7, EmitsCode
  <2>3. c.temp <= c.temp + m
    BY <1>2
  <2> QED BY <1>11, <2>1, <2>2, <2>3, AppendBegins DEF Ran
<1>19. \A v \in Values : (v \in Temps => v \in TempsBelow(c.temp)) => q.env[v] = Ran(c).env[v]
  <2> SUFFICES ASSUME NEW v \in Values, v \in Temps => v \in TempsBelow(c.temp)
               PROVE  q.env[v] = Ran(c).env[v]
    OBVIOUS
  <2>1. \A k \in 1 .. Len(rets) : rets[k] # v
    <3> SUFFICES ASSUME NEW k \in 1 .. m PROVE rets[k] # v
      BY <1>7
    <3>1. PICK i \in Nat : i = k - 1 /\ c.temp + i = c.temp + k - 1 /\ c.temp + i < NumTemps
      <4>1. k - 1 \in Nat /\ c.temp + (k - 1) = c.temp + k - 1 /\ c.temp + (k - 1) < NumTemps
        BY <1>1, <1>2, PirSizes
      <4> QED BY <4>1
    <3>2. v # Temp(c.temp + i)
      BY <1>2, <3>1, NotFresh
    <3> QED BY <1>7, <3>1, <3>2
  <2> QED BY <1>8, <2>1 DEF Called
<1>20. \A k \in 1 .. m : rets[k] \in Known(d.temp) /\ u[k] = Value(q, rets[k])
  <2> SUFFICES ASSUME NEW k \in 1 .. m PROVE rets[k] \in Known(d.temp) /\ u[k] = Value(q, rets[k])
    OBVIOUS
  <2>1. PICK i \in Nat : i = k - 1 /\ c.temp + i = c.temp + k - 1 /\ c.temp + i < NumTemps /\ i < m
    <3>1. k - 1 \in Nat /\ c.temp + (k - 1) = c.temp + k - 1 /\ c.temp + (k - 1) < NumTemps /\ k - 1 < m
      BY <1>1, <1>2, PirSizes
    <3> QED BY <3>1
  <2>2. rets[k] = Temp(c.temp + i)
    BY <1>7, <2>1
  <2>3. rets[k] \in Values /\ rets[k] \in Known(c.temp + m)
    BY <1>2, <2>1, <2>2, NotFresh
  <2>4. q.env[rets[k]] = RetTerm(q, k)
    BY <1>7, <1>8 DEF Called
  <2>5. RetTerm(q, k) = RetTerm(z, k)
    BY <1>13 DEF RetTerm
  <2> QED BY <1>11, <1>14, <2>3, <2>4, <2>5 DEF Value
<1>21. Grows(c, d, s, t, n, rets, u)
  BY <1>7, <1>10, <1>11, <1>13, <1>14, <1>15, <1>17, <1>18, <1>19, <1>20 DEF Grows
<1>22. Advances(c, s, K, n, m, d, t)
  <2>1. Advances(c, s, K, n, Len(rets), d, t)
    BY <1>1, <1>9, <1>21, Advance
  <2> QED BY <2>1, <1>7
<1>23. \A k \in 1 .. m : d.ops[Len(c.ops) - n + k] = Temp(c.temp + k - 1)
  BY <1>7, <1>10, <1>11 DEF Stacked
<1>24. After(c, s, K, node)
  BY <1>1, <1>4, <1>5, <1>22 DEF After
<1>25. \A k \in 1 .. m : GenNode(c, node).ops[Len(c.ops) - Takes(node) + k] = Temp(c.temp + k - 1)
  BY <1>1, <1>4, <1>23
<1> QED BY <1>24, <1>25 DEF m

\* Every node: the generator and the source machine do the same.
LEMMA NodeRight ==
  ASSUME NEW c, NEW s, NEW K, NEW node, Ready(c, s, K, node)
  PROVE  After(c, s, K, node)
<1>1. node.k \in {"leaf", "unary", "binary", "deref", "dot", "arrow", "index", "call"}
  BY Kinds DEF Ready
<1> QED
  BY <1>1, LeafRight, UnaryRight, BinaryRight, DerefRight, DotRight, ArrowRight, IndexRight,
     CallRight

-----------------------------------------------------------------------------
\* Expressions.

LEMMA TakesGives ==
  ASSUME NEW node \in Nodes
  PROVE  Takes(node) \in Nat /\ Gives(node) \in Nat /\ Uses(node) \in Nat
<1>1. /\ node.k \in {"leaf", "unary", "binary", "deref", "dot", "arrow", "index", "call"}
      /\ node.k = "call" => node.args \in Nat /\ node.rets \in Nat
  BY Kinds
<1>2. Takes(node) \in Nat
  BY <1>1 DEF Takes
<1>3. Gives(node) \in Nat
  BY <1>1 DEF Gives
<1>4. Uses(node) \in Nat
  BY <1>1 DEF Uses
<1> QED BY <1>2, <1>3, <1>4

\* Nodes only add temporaries.
LEMMA ReplaceTemps ==
  ASSUME NEW c, IsContext(c), NEW n, NEW m
  PROVE  IsContext(Replace(c, n, m)) /\ Replace(c, n, m).temp = c.temp + m
<1> DEFINE q == SubSeq(c.ops, 1, Len(c.ops) - n) \o [i \in 1 .. m |-> Temp(c.temp + i - 1)]
           e == [c EXCEPT !.temp = c.temp + m]
           d == [e EXCEPT !.ops = q]
<1>1. Replace(c, n, m) = d
  BY DEF Replace
<1> HIDE DEF q
<1>2. e = [code |-> c.code, temp |-> c.temp + m, ops |-> c.ops]
  BY DEF IsContext
<1> HIDE DEF e
<1>3. d = [code |-> c.code, temp |-> c.temp + m, ops |-> q]
  BY <1>2
<1> QED BY <1>1, <1>3 DEF IsContext

\* A node takes the temporaries it uses.
LEMMA NodeTemps ==
  ASSUME NEW c, IsContext(c), c.temp \in Nat, NEW node \in Nodes
  PROVE  IsContext(GenNode(c, node)) /\ GenNode(c, node).temp = c.temp + Uses(node)
<1>1. /\ node.k \in {"leaf", "unary", "binary", "deref", "dot", "arrow", "index", "call"}
      /\ node.k = "call" => node.rets \in Nat
  BY Kinds
<1>2. CASE node.k = "leaf"
  <2> DEFINE q == Append(c.ops, node.o)
             d == [c EXCEPT !.ops = q]
  <2>1. GenNode(c, node) = d /\ Uses(node) = 0
    BY <1>2 DEF GenNode, Uses
  <2>2. IsContext(c)
    OBVIOUS
  <2> HIDE DEF q
  <2>3. d = [code |-> c.code, temp |-> c.temp, ops |-> q]
    BY <2>2 DEF IsContext
  <2>4. c.temp + 0 = c.temp
    OBVIOUS
  <2> QED BY <2>1, <2>3, <2>4 DEF IsContext
<1>3. CASE node.k \in {"unary", "binary", "deref", "dot"}
  <2>1. PICK n, i : GenNode(c, node) = AddInstr(Replace(c, n, 1), i)
    <3>1. CASE node.k = "binary"
      BY <3>1 DEF GenNode
    <3>2. CASE node.k = "unary"
      BY <3>2 DEF GenNode
    <3>3. CASE node.k = "deref"
      BY <3>3 DEF GenNode
    <3>4. CASE node.k = "dot"
      BY <3>4 DEF GenNode
    <3> QED BY <1>3, <3>1, <3>2, <3>3, <3>4
  <2>2. IsContext(Replace(c, n, 1)) /\ Replace(c, n, 1).temp = c.temp + 1
    BY ReplaceTemps
  <2>3. Uses(node) = 1
    BY <1>3 DEF Uses
  <2> QED BY <2>1, <2>2, <2>3, AddFields
<1>4. CASE node.k \in {"arrow", "index"}
  <2>1. PICK n, i, j : GenNode(c, node) = AddInstr(AddInstr(Replace(Replace(c, 1, 1), n, 1), i), j)
    <3>1. CASE node.k = "arrow"
      BY <3>1 DEF GenNode
    <3>2. CASE node.k = "index"
      BY <3>2 DEF GenNode
    <3> QED BY <1>4, <3>1, <3>2
  <2> DEFINE e == Replace(c, 1, 1)
             f == Replace(e, n, 1)
             g == AddInstr(f, i)
  <2>2. IsContext(e) /\ e.temp = c.temp + 1
    BY ReplaceTemps
  <2> HIDE DEF e
  <2>3. IsContext(f) /\ f.temp = e.temp + 1
    BY <2>2, ReplaceTemps
  <2> HIDE DEF f
  <2>4. IsContext(g) /\ g.temp = f.temp
    BY <2>3, AddFields
  <2> HIDE DEF g
  <2>5. IsContext(AddInstr(g, j)) /\ AddInstr(g, j).temp = g.temp
    BY <2>4, AddFields
  <2>6. Uses(node) = 2
    BY <1>4 DEF Uses
  <2>7. c.temp + 1 + 1 = c.temp + 2
    OBVIOUS
  <2> QED BY <2>1, <2>2, <2>3, <2>4, <2>5, <2>6, <2>7 DEF e, f, g
<1>5. CASE node.k = "call"
  <2>1. PICK i : GenNode(c, node) = AddInstr(Replace(c, node.args + 1, node.rets), i)
    BY <1>5 DEF GenNode
  <2> DEFINE e == Replace(c, node.args + 1, node.rets)
  <2>2. IsContext(e) /\ e.temp = c.temp + node.rets
    BY ReplaceTemps
  <2>3. Uses(node) = node.rets
    BY <1>5 DEF Uses
  <2> HIDE DEF e
  <2>4. IsContext(AddInstr(e, i)) /\ AddInstr(e, i).temp = e.temp
    BY <2>2, AddFields
  <2> QED BY <2>1, <2>2, <2>3, <2>4 DEF e
<1> QED BY <1>1, <1>2, <1>3, <1>4, <1>5

\* An expression with one more node.
LEMMA GenMore ==
  ASSUME NEW q \in Seq(Nodes), NEW x \in Nodes, NEW c
  PROVE  GenExpr(c, Append(q, x)) = GenNode(GenExpr(c, q), x)
BY GenExprFold, Nodewise!FoldMore

LEMMA EvalMore ==
  ASSUME NEW q \in Seq(Nodes), NEW x \in Nodes, NEW m
  PROVE  Eval(m, Append(q, x)) = EvalNode(Eval(m, q), x)
BY EvalFold, Evaluation!FoldMore

LEMMA HeightMore ==
  ASSUME NEW q \in Seq(Nodes), NEW x \in Nodes
  PROVE  Height(Append(q, x)) = Grow(Height(q), x)
BY HeightFold, Growth!FoldMore

LEMMA NoNodes ==
  /\ \A c : GenExpr(c, <<>>) = c
  /\ \A m : Eval(m, <<>>) = m
  /\ Height(<<>>) = 0
BY GenExprFold, EvalFold, HeightFold, Nodewise!FoldNone, Evaluation!FoldNone, Growth!FoldNone

\* An expression never takes temporaries back.
LEMMA ExprTemps ==
  ASSUME NEW c, IsContext(c), c.temp \in Nat
  PROVE  \A e \in Seq(Nodes) : /\ IsContext(GenExpr(c, e)) /\ GenExpr(c, e).temp \in Nat
                               /\ c.temp <= GenExpr(c, e).temp
<1> DEFINE P(d) == IsContext(d) /\ d.temp \in Nat /\ c.temp <= d.temp
           T == {e \in Seq(Nodes) : P(GenExpr(c, e))}
<1>1. <<>> \in T
  BY NoNodes
<1>2. ASSUME NEW q \in Seq(Nodes), NEW x \in Nodes, q \in T PROVE Append(q, x) \in T
  <2>1. P(GenExpr(c, q))
    BY <1>2
  <2>2. /\ IsContext(GenNode(GenExpr(c, q), x))
        /\ GenNode(GenExpr(c, q), x).temp = GenExpr(c, q).temp + Uses(x)
    BY <2>1, NodeTemps
  <2>3. Uses(x) \in Nat
    BY TakesGives
  <2>4. P(GenNode(GenExpr(c, q), x))
    BY <2>1, <2>2, <2>3
  <2>5. Append(q, x) \in Seq(Nodes)
    OBVIOUS
  <2> QED BY <2>4, <2>5, GenMore
<1> HIDE DEF T
<1>3. \A e \in Seq(Nodes) : e \in T
  BY <1>1, <1>2, Nodewise!SeqInduct
<1> QED BY <1>3 DEF T

\* Everything above place b agrees.
Above(b, K) == b \in Nat /\ \A k \in Nat : k > b => k \in K

\* Two steps of a stack, composed.
LEMMA GoOn ==
  ASSUME NEW c, NEW s, NEW K, Agree(c, s, K), NEW g \in Nat, NEW d, NEW t,
         Advances(c, s, K, 0, g, d, t), NEW n \in Nat, n <= g, NEW h \in Nat,
         NEW e, NEW u, Advances(d, t, K, n, h, e, u)
  PROVE  Advances(c, s, K, 0, g - n + h, e, u)
<1> DEFINE b == Len(c.ops)
<1>1. b \in Nat /\ Len(c.code) \in Nat /\ c.temp \in Nat
  BY SeqLen, EmitsCode, EmitsTemp DEF Agree
<1>2. /\ Agree(d, t, K) /\ Len(d.ops) = b + g
      /\ \A k \in 1 .. b : d.ops[k] = c.ops[k] /\ t.out[k] = s.out[k]
      /\ t.env = s.env /\ c.temp <= d.temp /\ Begins(c.code, d.code)
  BY <1>1 DEF Advances
<1>3. Len(d.code) \in Nat /\ d.temp \in Nat
  BY <1>2, EmitsCode, EmitsTemp DEF Agree
<1>4. /\ Agree(e, u, K) /\ Len(e.ops) = b + g - n + h
      /\ \A k \in 1 .. b + g - n : e.ops[k] = d.ops[k] /\ u.out[k] = t.out[k]
      /\ u.env = t.env /\ d.temp <= e.temp /\ Begins(d.code, e.code)
  BY <1>2 DEF Advances
<1>5. Len(e.code) \in Nat /\ e.temp \in Nat
  BY <1>4, EmitsCode, EmitsTemp DEF Agree
<1>6. Begins(c.code, e.code)
  BY <1>1, <1>2, <1>3, <1>4, <1>5, BeginsOn
<1>7. \A k \in 1 .. b - 0 : e.ops[k] = c.ops[k] /\ u.out[k] = s.out[k]
  <2>1. \A k \in 1 .. b - 0 : k \in 1 .. b /\ k \in 1 .. b + g - n
    BY <1>1
  <2> QED BY <1>2, <1>4, <2>1
<1>8. Len(e.ops) = b - 0 + (g - n + h)
  BY <1>1, <1>4
<1>9. u.env = s.env /\ c.temp <= e.temp
  BY <1>1, <1>2, <1>3, <1>4, <1>5
<1> QED BY <1>4, <1>6, <1>7, <1>8, <1>9 DEF Advances

LEMMA StayPut ==
  ASSUME NEW c, NEW s, NEW K, Agree(c, s, K)
  PROVE  Advances(c, s, K, 0, 0, c, s)
<1>1. Len(c.ops) \in Nat /\ Len(c.code) \in Nat /\ c.temp \in Nat
  BY SeqLen, EmitsCode, EmitsTemp DEF Agree
<1>2. Len(c.ops) = Len(c.ops) - 0 + 0 /\ c.temp <= c.temp
  BY <1>1
<1>3. Begins(c.code, c.code)
  BY <1>1 DEF Begins
<1> QED BY <1>2, <1>3 DEF Advances

\* A whole expression: its values are on top of the stack.
LEMMA ExprRight ==
  ASSUME NEW c, NEW s, NEW K, Agree(c, s, K), Above(Len(c.ops), K)
  PROVE  \A e \in Seq(Nodes) :
           Height(e) # Short /\ GenExpr(c, e).temp <= NumTemps =>
             Height(e) \in Nat /\ Advances(c, s, K, 0, Height(e), GenExpr(c, e), Eval(s, e))
<1> DEFINE b == Len(c.ops)
           P(e, d, t, h) ==
             h # Short /\ d.temp <= NumTemps => h \in Nat /\ Advances(c, s, K, 0, h, d, t)
           T == {e \in Seq(Nodes) : P(e, GenExpr(c, e), Eval(s, e), Height(e))}
<1>1. IsContext(c) /\ c.temp \in Nat /\ b \in Nat /\ \A k \in Nat : k > b => k \in K
  BY EmitsTemp DEF Agree, Above
<1>2. <<>> \in T
  BY StayPut, NoNodes
<1>3. ASSUME NEW q \in Seq(Nodes), NEW x \in Nodes, q \in T PROVE Append(q, x) \in T
  <2> DEFINE d == GenExpr(c, q)
             t == Eval(s, q)
             h == Height(q)
             n == Takes(x)
             g == Gives(x)
  <2>1. /\ GenExpr(c, Append(q, x)) = GenNode(d, x) /\ Eval(s, Append(q, x)) = EvalNode(t, x)
        /\ Height(Append(q, x)) = Grow(h, x) /\ Append(q, x) \in Seq(Nodes)
    BY GenMore, EvalMore, HeightMore
  <2>2. IsContext(d) /\ d.temp \in Nat
    BY <1>1, ExprTemps
  <2>3. P(q, d, t, h)
    BY <1>3
  <2> HIDE DEF d, t, h
  <2>4. n \in Nat /\ g \in Nat /\ Uses(x) \in Nat
    BY TakesGives
  <2>5. SUFFICES ASSUME Grow(h, x) # Short, GenNode(d, x).temp <= NumTemps
                 PROVE  Grow(h, x) \in Nat /\ Advances(c, s, K, 0, Grow(h, x), GenNode(d, x), EvalNode(t, x))
    BY <2>1
  <2>6. d.temp + Uses(x) <= NumTemps /\ d.temp <= NumTemps
    <3>1. GenNode(d, x).temp = d.temp + Uses(x)
      BY <2>2, NodeTemps
    <3> QED BY <2>2, <2>4, <2>5, <3>1, PirSizes
  <2>7. ~(h < n) /\ Grow(h, x) = h - n + g
    <3>1. Grow(h, x) = IF h < n THEN Short ELSE h - n + g
      BY DEF Grow
    <3> HIDE DEF n, g
    <3> QED BY <2>5, <3>1
  <2> HIDE DEF n, g
  <2>8. h # Short
    BY <2>4, <2>7 DEF Short
  <2>9. h \in Nat /\ Advances(c, s, K, 0, h, d, t)
    BY <2>3, <2>6, <2>8
  <2>10. n <= h /\ h - n + g \in Nat
    BY <2>4, <2>7, <2>9
  <2>11. Agree(d, t, K) /\ Len(d.ops) = b + h
    BY <1>1, <2>9 DEF Advances
  <2>12. TopAgrees(d, n, K)
    <3>1. \A k \in Nat : k > b + h - n => k > b
      BY <1>1, <2>4, <2>9, <2>10
    <3>2. n <= b + h
      BY <1>1, <2>9, <2>10, <2>4
    <3>3. \A k \in Nat : k > b + h - n => k \in K
      BY <1>1, <3>1
    <3>4. Len(d.ops) = b + h /\ b \in Nat /\ h \in Nat /\ n \in Nat
      BY <1>1, <2>4, <2>9, <2>11
    <3> HIDE DEF b
    <3>5. Len(d.ops) - n = b + h - n
      BY <3>4
    <3>6. \A k \in Nat : k > Len(d.ops) - n => k \in K
      BY <3>3, <3>5, Zenon
    <3> QED BY <2>4, <3>2, <3>4, <3>6 DEF TopAgrees
  <2>13. Ready(d, t, K, x)
    BY <2>6, <2>11, <2>12 DEF Ready, n
  <2>14. Advances(d, t, K, n, g, GenNode(d, x), EvalNode(t, x))
    BY <2>13, NodeRight DEF After, n, g
  <2>15. Advances(c, s, K, 0, h - n + g, GenNode(d, x), EvalNode(t, x))
    BY <2>4, <2>9, <2>10, <2>14, GoOn
  <2> QED BY <2>7, <2>10, <2>15
<1> HIDE DEF T
<1>4. \A e \in Seq(Nodes) : e \in T
  BY <1>2, <1>3, Nodewise!SeqInduct
<1> QED BY <1>4 DEF T

-----------------------------------------------------------------------------
\* Targets.

\* Agreement in fewer places.
LEMMA AgreeLess ==
  ASSUME NEW c, NEW s, NEW K, Agree(c, s, K), NEW J, \A k \in Nat : k \in J => k \in K
  PROVE  Agree(c, s, J)
<1>1. Len(c.ops) \in Nat
  BY SeqLen DEF Agree
<1>2. \A k \in 1 .. Len(c.ops) : k \in J => s.out[k] = Value(Ran(c), c.ops[k])
  <2>1. \A k \in 1 .. Len(c.ops) : k \in Nat
    BY <1>1
  <2> QED BY <2>1 DEF Agree
<1> QED BY <1>2 DEF Agree

\* A place of the stack that agrees.
LEMMA AgreeAt ==
  ASSUME NEW c, NEW s, NEW K, Agree(c, s, K), NEW k \in K, k \in 1 .. Len(c.ops)
  PROVE  c.ops[k] \in Known(c.temp) /\ s.out[k] = Value(Ran(c), c.ops[k])
BY DEF Agree

\* What is on top after one value was pushed.
LEMMA TopAfter ==
  ASSUME NEW c, NEW s, NEW K, Agree(c, s, K), NEW J, NEW d, NEW t, Advances(c, s, J, 0, 1, d, t)
  PROVE  /\ Len(d.ops) = Len(c.ops) + 1 /\ Len(c.ops) \in Nat
         /\ Last(d.ops) = d.ops[Len(c.ops) + 1] /\ Last(t.out) = t.out[Len(c.ops) + 1]
         /\ Len(c.ops) + 1 \in 1 .. Len(d.ops)
<1>1. Len(c.ops) \in Nat
  BY SeqLen DEF Agree
<1>2. /\ Len(d.ops) = Len(c.ops) - 0 + 1 /\ IsSeq(d.ops) /\ IsSeq(t.out)
      /\ Len(t.out) = Len(d.ops)
  BY DEF Advances, Agree
<1>3. Len(d.ops) = Len(c.ops) + 1 /\ Len(d.ops) > 0
  BY <1>1, <1>2
<1>4. Last(d.ops) = d.ops[Len(d.ops)] /\ Last(t.out) = t.out[Len(d.ops)]
  BY <1>2, <1>3, TopOf
<1>5. Len(c.ops) + 1 \in 1 .. Len(d.ops)
  BY <1>1, <1>3
<1> QED BY <1>1, <1>3, <1>4, <1>5

\* The place of a direct target holds the target's name, not a value.
Aim(l, b, K) == IF l.direct THEN K \ {b + 1} ELSE K

\* a and ad are the same target to the two machines, p the one of the PIR
\* after t temporaries.
AimsAt(t, p, l, a, ad) ==
  /\ l.direct => a \in Locals \cup Args /\ ad = a
  /\ ~l.direct => a \in Known(t) /\ ad = Value(p, a)

Aims(d, l, a, ad) == AimsAt(d.temp, Ran(d), l, a, ad)

\* What targets are made of.
LEMMA TargetKinds ==
  ASSUME NEW l \in Targets
  PROVE  /\ l.direct \in BOOLEAN /\ l.expr \in Seq(Nodes)
         /\ l.direct => \E o \in Locals \cup Args : l.expr = <<Leaf(o)>>
         /\ ~l.direct => Height(l.expr) = 1
<1>1. CASE l \in [direct : {TRUE}, expr : {<<Leaf(o)>> : o \in Locals \cup Args}]
  <2>1. l.direct = TRUE /\ \E o \in Locals \cup Args : l.expr = <<Leaf(o)>>
    BY <1>1
  <2>2. PICK o \in Locals \cup Args : l.expr = <<Leaf(o)>>
    BY <2>1
  <2>3. Leaf(o) \in Nodes
    BY SourceFacts DEF Leaf, Nodes
  <2>4. <<Leaf(o)>> \in Seq(Nodes)
    BY <2>3
  <2> QED BY <2>1, <2>2, <2>4
<1>2. CASE l \in [direct : {FALSE}, expr : Exprs(1)]
  <2>1. l.direct = FALSE /\ l.expr \in Exprs(1)
    BY <1>2
  <2>2. l.expr \in Seq(Nodes) /\ Height(l.expr) = 1
    BY <2>1 DEF Exprs
  <2> QED BY <2>1, <2>2
<1> QED BY <1>1, <1>2 DEF Targets

\* The address of a target: its name, or a value.
LEMMA TargetRight ==
  ASSUME NEW c, NEW s, NEW K, Agree(c, s, K), Above(Len(c.ops), K), NEW l \in Targets,
         GenLValue(c, l).temp <= NumTemps
  PROVE  LET d == GenLValue(c, l)
             t == Address(s, l)
         IN /\ Advances(c, s, Aim(l, Len(c.ops), K), 0, 1, d, t)
            /\ Aims(d, l, Last(d.ops), Last(t.out))
<1> DEFINE b == Len(c.ops)
           J == Aim(l, b, K)
           d == GenLValue(c, l)
           t == Address(s, l)
<1>1. b \in Nat /\ \A k \in Nat : k > b => k \in K
  BY DEF Above
<1>2. l.direct \in BOOLEAN /\ l.expr \in Seq(Nodes) /\ d = GenExpr(c, l.expr)
  BY TargetKinds DEF GenLValue
<1>3. CASE l.direct
  <2>1. PICK o \in Locals \cup Args : l.expr = <<Leaf(o)>>
    BY <1>3, TargetKinds
  <2>2. d = [c EXCEPT !.ops = Append(@, o)]
    <3>1. Leaf(o) \in Nodes /\ <<>> \in Seq(Nodes) /\ <<Leaf(o)>> = Append(<<>>, Leaf(o))
      BY SourceFacts DEF Leaf, Nodes
    <3>2. d = GenNode(c, Leaf(o))
      <4>1. PICK q \in Seq(Nodes), x \in Nodes : q = <<>> /\ x = Leaf(o)
        BY <3>1
      <4>2. GenExpr(c, Append(q, x)) = GenNode(GenExpr(c, q), x)
        BY GenMore
      <4>3. GenExpr(c, q) = c
        BY <4>1, NoNodes
      <4>4. l.expr = Append(q, x)
        BY <2>1, <3>1, <4>1
      <4> QED BY <1>2, <4>1, <4>2, <4>3, <4>4
    <3>3. GenNode(c, Leaf(o)) = [c EXCEPT !.ops = Append(@, o)]
      BY DEF GenNode, Leaf
    <3> QED BY <3>2, <3>3
  <2>3. t = Push1(s, 0, o)
    <3>1. l.expr[1].o = o
      BY <2>1 DEF Leaf
    <3> QED BY <1>3, <3>1 DEF Address
  <2>4. o \in Known(c.temp)
    BY SourceFacts DEF Known
  <2>5. b + 1 \notin J
    BY <1>3 DEF Aim
  <2>6. Agree(c, s, J)
    BY <1>3, AgreeLess DEF Aim
  <2> HIDE DEF J, d, t
  <2>7. Advances(c, s, J, 0, 1, d, t)
    BY <2>2, <2>3, <2>4, <2>5, <2>6, PushRight
  <2>8. Last(d.ops) = o
    <3>1. d.ops = Append(c.ops, o) /\ IsSeq(c.ops)
      BY <2>2 DEF Agree, IsContext
    <3>2. Last(Append(c.ops, o)) = o
      <4>1. IsSeq(Append(c.ops, o)) /\ Len(Append(c.ops, o)) = b - 0 + 1
            /\ Append(c.ops, o)[b - 0 + 1] = o
        <5>1. Stacked(c.ops, 0, <<o>>, Append(c.ops, o)) /\ Len(<<o>>) = 1 /\ <<o>>[1] = o
          BY <3>1, AppendStack
        <5> QED BY <5>1 DEF Stacked
      <4>2. b - 0 + 1 > 0
        BY <1>1
      <4> HIDE DEF b
      <4> QED BY <4>1, <4>2, TopOf
    <3> QED BY <3>1, <3>2
  <2>9. Last(t.out) = o
    <3>1. Last(t.out) = t.out[b + 1]
      BY <2>6, <2>7, TopAfter
    <3>2. PICK z \in Nat : z = 0
      OBVIOUS
    <3>3. IsMachine(s) /\ IsSeq(s.out) /\ Len(s.out) = b /\ z <= Len(s.out)
      BY <1>1, <3>2 DEF Agree
    <3>4. Stacked(s.out, z, <<o>>, t.out)
      BY <2>3, <3>2, <3>3, PushStack
    <3>5. t.out[b - 0 + 1] = o
      <4>1. Len(<<o>>) = 1 /\ <<o>>[1] = o
        BY Single
      <4> QED BY <3>2, <3>3, <3>4, <4>1 DEF Stacked
    <3>6. b - 0 + 1 = b + 1
      BY <1>1
    <3> QED BY <3>1, <3>5, <3>6
  <2>10. Aims(d, l, Last(d.ops), Last(t.out))
    BY <1>3, <2>8, <2>9 DEF Aims, AimsAt
  <2> QED BY <2>7, <2>10 DEF J, d, t
<1>4. CASE ~l.direct
  <2>1. J = K /\ t = Eval(s, l.expr) /\ Height(l.expr) = 1
    BY <1>4, TargetKinds DEF Aim, Address
  <2>2. 1 # Short
    BY DEF Short
  <2>3. GenExpr(c, l.expr).temp <= NumTemps
    BY DEF GenLValue
  <2>4. Advances(c, s, K, 0, 1, d, t)
    BY <1>2, <2>1, <2>2, <2>3, ExprRight
  <2> HIDE DEF d, t, J
  <2>5. /\ Last(d.ops) = d.ops[b + 1] /\ Last(t.out) = t.out[b + 1]
        /\ b + 1 \in 1 .. Len(d.ops) /\ Agree(d, t, K)
    BY <2>4, TopAfter DEF Advances
  <2>6. b + 1 \in K
    BY <1>1
  <2>7. Last(d.ops) \in Known(d.temp) /\ Last(t.out) = Value(Ran(d), Last(d.ops))
    BY <2>5, <2>6, AgreeAt
  <2> QED BY <1>4, <2>1, <2>4, <2>7 DEF Aims, AimsAt, d, t, J
<1> QED BY <1>2, <1>3, <1>4

-----------------------------------------------------------------------------
\* What statements write.

\* code follows the code of c, and p, the machine after it, has the variables
\* and the trace of t.
Beside(c, code, k, p, t) ==
  /\ Emits(code, k, p) /\ c.temp <= k /\ Begins(c.code, code)
  /\ IsMachine(t) /\ p.trace = t.trace /\ \A v \in Locals \cup Args : p.env[v] = t.env[v]

\* Machines that agree go on agreeing beside each other.
LEMMA BesideStart ==
  ASSUME NEW c, NEW s, NEW K, Agree(c, s, K)
  PROVE  Beside(c, c.code, c.temp, Ran(c), s)
<1>1. Len(c.code) \in Nat /\ c.temp \in Nat
  BY EmitsCode, EmitsTemp DEF Agree
<1>2. Begins(c.code, c.code) /\ c.temp <= c.temp
  BY <1>1 DEF Begins
<1> QED BY <1>2 DEF Agree, Beside

LEMMA BesideOn ==
  ASSUME NEW c, NEW code, NEW k, NEW p, NEW t, Beside(c, code, k, p, t), Len(c.code) \in Nat,
         NEW ins, NEW j, NEW q, Emits(Append(code, ins), j, q)
  PROVE  Begins(c.code, Append(code, ins))
<1>1. Emits(code, k, p) /\ Begins(c.code, code)
  BY DEF Beside
<1>2. code \in Seq(Instrs) /\ Len(code) \in Nat /\ Len(Append(code, ins)) \in Nat
  BY <1>1, EmitsCode
<1> QED BY <1>1, <1>2, AppendBegins, BeginsOn

\* An instruction that writes the next temporary.
LEMMA BesideTemp ==
  ASSUME NEW c, NEW code, NEW k, NEW p, NEW t, Beside(c, code, k, p, t),
         Len(c.code) \in Nat, c.temp \in Nat, k < NumTemps, NEW ins, NEW q, NEW x,
         Emits(Append(code, ins), k + 1, q), Wrote(p, q, Temp(k), x)
  PROVE  /\ Beside(c, Append(code, ins), k + 1, q, t)
         /\ \A o \in Known(k) : o \in Known(k + 1) /\ Value(q, o) = Value(p, o)
         /\ Temp(k) \in Known(k + 1) /\ Value(q, Temp(k)) = x /\ k + 1 \in Nat
<1>1. k \in Nat /\ k <= NumTemps /\ c.temp <= k
  BY EmitsTemp DEF Beside
<1>2. /\ Temp(k) \in Temps /\ Temp(k) \in Values /\ Temp(k) \in Known(k + 1)
      /\ \A v \in Values : (v \in Temps => v \in TempsBelow(k)) => v # Temp(k)
  BY <1>1, NextTemp
<1>3. \A v \in Values : (v \in Temps => v \in TempsBelow(k)) => q.env[v] = p.env[v]
  BY <1>2 DEF Wrote
<1>4. ASSUME NEW o \in Known(k) PROVE o \in Known(k + 1) /\ Value(q, o) = Value(p, o)
  BY <1>1, <1>3, KnownKept, KnownFacts
<1>5. Value(q, Temp(k)) = x
  BY <1>2 DEF Wrote, Value
<1>6. \A v \in Locals \cup Args : q.env[v] = t.env[v]
  <2>1. \A v \in Locals \cup Args : v \in Values /\ v \notin Temps
    BY SourceFacts
  <2> QED BY <1>3, <2>1 DEF Beside
<1>7. q.trace = t.trace /\ IsMachine(t)
  BY DEF Wrote, Beside
<1>8. Begins(c.code, Append(code, ins)) /\ c.temp <= k + 1
  BY <1>1, BesideOn
<1> QED BY <1>1, <1>2, <1>4, <1>5, <1>6, <1>7, <1>8 DEF Beside

\* Every operand but v keeps its value.
Spares(p, q, v) == \A o : o # v => Value(q, o) = Value(p, o)

\* v is a variable or an argument.
IsVar(v) == v \in Locals \cup Args

\* One that writes a variable or an argument, as the source machine does.
LEMMA BesideVar ==
  ASSUME NEW c, NEW code, NEW k, NEW p, NEW t, Beside(c, code, k, p, t),
         Len(c.code) \in Nat, NEW ins, NEW q, NEW x, NEW v, IsVar(v),
         Emits(Append(code, ins), k, q), Wrote(p, q, v, x)
  PROVE  /\ Beside(c, Append(code, ins), k, q, Set(t, v, x))
         /\ Spares(p, q, v)
         /\ Set(t, v, x).out = t.out
<1>1. v \in Values /\ v \in Locals \cup Args
  BY SourceFacts DEF IsVar
<1>2. Wrote(t, Set(t, v, x), v, x)
  BY <1>1, SetWrites DEF Beside
<1>3. Spares(p, q, v)
  BY DEF Value, Wrote, Spares
<1>4. \A u \in Locals \cup Args : q.env[u] = Set(t, v, x).env[u]
  <2>1. \A u \in Locals \cup Args : u \in Values
    BY SourceFacts
  <2> QED BY <1>2, <2>1 DEF Wrote, Beside
<1>5. q.trace = Set(t, v, x).trace /\ IsMachine(Set(t, v, x)) /\ Set(t, v, x).out = t.out
  BY <1>2 DEF Wrote, Beside
<1>6. Begins(c.code, Append(code, ins)) /\ c.temp <= k
  BY BesideOn DEF Beside
<1> QED BY <1>3, <1>4, <1>5, <1>6 DEF Beside

\* A store to memory, as the source machine does it.
LEMMA BesideStore ==
  ASSUME NEW c, NEW code, NEW k, NEW p, NEW t, Beside(c, code, k, p, t),
         Len(c.code) \in Nat, NEW a \in Known(k), NEW b \in Known(k)
  PROVE  LET q == Exec(p, StorePtr(a, b))
             u == DoStore(t, Value(p, a), Value(p, b))
         IN /\ Beside(c, Append(code, StorePtr(a, b)), k, q, u)
            /\ \A o : Value(q, o) = Value(p, o)
            /\ u.out = t.out
<1> DEFINE q == Exec(p, StorePtr(a, b))
           u == DoStore(t, Value(p, a), Value(p, b))
<1>1. Emits(code, k, p) /\ IsMachine(t) /\ p.trace = t.trace /\ c.temp <= k
  BY DEF Beside
<1>2. /\ Emits(Append(code, StorePtr(a, b)), k, q) /\ Traced(p, q)
      /\ q.trace = Append(p.trace, Term("store", <<Value(p, a), Value(p, b)>>, 0))
  BY <1>1, EmitStore
<1>3. /\ Traced(t, u)
      /\ u.trace = Append(t.trace, Term("store", <<Value(p, a), Value(p, b)>>, 0))
  BY <1>1, StoreTraces
<1> HIDE DEF q, u
<1>4. q.trace = u.trace /\ IsMachine(u) /\ u.out = t.out /\ u.env = t.env /\ q.env = p.env
  BY <1>1, <1>2, <1>3 DEF Traced
<1>5. \A o : Value(q, o) = Value(p, o)
  BY <1>4 DEF Value
<1>6. \A v \in Locals \cup Args : q.env[v] = u.env[v]
  BY <1>4 DEF Beside
<1>7. Begins(c.code, Append(code, StorePtr(a, b)))
  BY <1>2, BesideOn
<1>8. Beside(c, Append(code, StorePtr(a, b)), k, q, u)
  BY <1>1, <1>2, <1>4, <1>6, <1>7 DEF Beside
<1> QED BY <1>4, <1>5, <1>8 DEF q, u

\* The instruction that writes a target.
WriteInstr(l, v, a) == IF l.direct THEN Copy(v, a) ELSE StorePtr(v, a)

LEMMA BesidePut ==
  ASSUME NEW c, NEW code, NEW k, NEW p, NEW t, Beside(c, code, k, p, t),
         Len(c.code) \in Nat, NEW l \in Targets, NEW a, NEW ad, AimsAt(k, p, l, a, ad),
         NEW v \in Known(k)
  PROVE  LET ins == WriteInstr(l, v, a)
             q   == Exec(p, ins)
             u   == Put(t, l, ad, Value(p, v))
         IN /\ Beside(c, Append(code, ins), k, q, u)
            /\ \A o : (l.direct => o # a) => Value(q, o) = Value(p, o)
            /\ u.out = t.out
<1>1. CASE l.direct
  <2>1. a \in Locals \cup Args /\ ad = a /\ WriteInstr(l, v, a) = Copy(v, a)
        /\ Put(t, l, ad, Value(p, v)) = Set(t, a, Value(p, v))
    BY <1>1 DEF AimsAt, WriteInstr, Put
  <2>2. Emits(code, k, p) /\ Dest(k, 0, a) /\ k + 0 = k
    BY <2>1, EmitsTemp DEF Beside, Dest
  <2>3. /\ Emits(Append(code, Copy(v, a)), k + 0, Exec(p, Copy(v, a)))
        /\ Wrote(p, Exec(p, Copy(v, a)), a, Value(p, v))
    BY <2>2, EmitCopy
  <2> DEFINE ins == Copy(v, a)
             q   == Exec(p, ins)
             x   == Value(p, v)
  <2>4. Emits(Append(code, ins), k, q) /\ Wrote(p, q, a, x)
    BY <2>2, <2>3
  <2> HIDE DEF ins, q, x
  <2>5. /\ Beside(c, Append(code, ins), k, q, Set(t, a, x))
        /\ \A o : o # a => Value(q, o) = Value(p, o)
        /\ Set(t, a, x).out = t.out
    <3>1. IsVar(a)
      BY <2>1 DEF IsVar
    <3>2. Beside(c, Append(code, ins), k, q, Set(t, a, x)) /\ Spares(p, q, a) /\ Set(t, a, x).out = t.out
      BY <2>4, <3>1, BesideVar
    <3> QED BY <3>2 DEF Spares
  <2> QED BY <1>1, <2>1, <2>5 DEF ins, q, x
<1>2. CASE ~l.direct
  <2>1. a \in Known(k) /\ ad = Value(p, a) /\ WriteInstr(l, v, a) = StorePtr(v, a)
        /\ Put(t, l, ad, Value(p, v)) = DoStore(t, Value(p, v), Value(p, a))
    BY <1>2 DEF AimsAt, WriteInstr, Put
  <2>2. LET q == Exec(p, StorePtr(v, a))
            u == DoStore(t, Value(p, v), Value(p, a))
        IN /\ Beside(c, Append(code, StorePtr(v, a)), k, q, u)
           /\ \A o : Value(q, o) = Value(p, o)
           /\ u.out = t.out
    BY <2>1, BesideStore
  <2> QED BY <2>1, <2>2
<1>3. l.direct \in BOOLEAN
  BY TargetKinds
<1> QED BY <1>1, <1>2, <1>3

\* What the target holds, to the source machine; and the PIR machine loads it
\* into a temporary, or has it in the variable.
LEMMA BesideLoad ==
  ASSUME NEW c, NEW code, NEW k, NEW p, NEW t, Beside(c, code, k, p, t),
         Len(c.code) \in Nat, c.temp \in Nat, k < NumTemps,
         NEW l \in Targets, ~l.direct, NEW a, NEW ad, AimsAt(k, p, l, a, ad)
  PROVE  LET ins == LoadPtr(a, Temp(k))
             q   == Exec(p, ins)
         IN /\ Beside(c, Append(code, ins), k + 1, q, t)
            /\ \A o \in Known(k) : o \in Known(k + 1) /\ Value(q, o) = Value(p, o)
            /\ Temp(k) \in Known(k + 1) /\ Value(q, Temp(k)) = Contents(t, l, ad)
<1> DEFINE ins == LoadPtr(a, Temp(k))
           q   == Exec(p, ins)
           x   == LoadTerm(p, Value(p, a))
<1>1. a \in Known(k) /\ ad = Value(p, a) /\ Emits(code, k, p) /\ p.trace = t.trace
  BY DEF AimsAt, Beside
<1>2. x = Contents(t, l, ad)
  BY <1>1 DEF Contents, LoadTerm
<1>3. Dest(k, 1, Temp(k))
  BY DEF Dest
<1>4. Emits(Append(code, ins), k + 1, q) /\ Wrote(p, q, Temp(k), x)
  BY <1>1, <1>3, EmitLoad
<1> HIDE DEF ins, q, x
<1>5. /\ Beside(c, Append(code, ins), k + 1, q, t)
      /\ \A o \in Known(k) : o \in Known(k + 1) /\ Value(q, o) = Value(p, o)
      /\ Temp(k) \in Known(k + 1) /\ Value(q, Temp(k)) = x
  BY <1>4, BesideTemp
<1> QED BY <1>2, <1>5 DEF ins, q

\* A variable holds what its name says.
LEMMA BesideHeld ==
  ASSUME NEW c, NEW code, NEW k, NEW p, NEW t, Beside(c, code, k, p, t),
         NEW l, l.direct, NEW a, NEW ad, AimsAt(k, p, l, a, ad)
  PROVE  /\ a \in Locals \cup Args /\ ad = a /\ a \in Known(k)
         /\ Value(p, a) = Contents(t, l, ad)
<1>1. a \in Locals \cup Args /\ ad = a
  BY DEF AimsAt
<1>2. a \in Known(k) /\ a \in Values
  BY <1>1, SourceFacts DEF Known
<1>3. p.env[a] = t.env[a]
  BY <1>1 DEF Beside
<1> QED BY <1>1, <1>2, <1>3 DEF Contents, Value

\* An address stays the same while its operand keeps its value.
LEMMA AimsStill ==
  ASSUME NEW k, NEW p, NEW l, NEW a, NEW ad, AimsAt(k, p, l, a, ad), NEW j, NEW q,
         ~l.direct => (a \in Known(k) => a \in Known(j) /\ Value(q, a) = Value(p, a))
  PROVE  AimsAt(j, q, l, a, ad)
BY DEF AimsAt

\* The end of a statement: its stack is dropped.
LEMMA Dropped ==
  ASSUME NEW c, NEW code, NEW k, NEW p, NEW t, Beside(c, code, k, p, t),
         NEW d, IsContext(d), d.code = code, d.temp = k
  PROVE  LET e == [d EXCEPT !.ops = <<>>]
             u == [t EXCEPT !.out = <<>>]
         IN /\ Agree(e, u, Nat) /\ e.ops = <<>> /\ e.temp = d.temp
            /\ Begins(c.code, e.code)
<1> DEFINE e == [d EXCEPT !.ops = <<>>]
           u == [t EXCEPT !.out = <<>>]
<1>1. Emits(code, k, p) /\ Begins(c.code, code) /\ IsMachine(t) /\ p.trace = t.trace
      /\ \A v \in Locals \cup Args : p.env[v] = t.env[v]
  BY DEF Beside
<1>2. e = [code |-> d.code, temp |-> d.temp, ops |-> <<>>]
  BY DEF IsContext
<1>3. IsContext(e) /\ e.code = code /\ e.temp = k /\ e.ops = <<>>
  BY <1>2 DEF IsContext
<1>4. u = [env |-> t.env, trace |-> t.trace, out |-> <<>>]
  <2>1. IsMachine(t)
    BY <1>1
  <2> QED BY <2>1 DEF IsMachine
<1>5. IsMachine(u) /\ u.env = t.env /\ u.trace = t.trace /\ u.out = <<>>
  BY <1>1, <1>4 DEF IsMachine
<1> HIDE DEF e, u
<1>6. Ran(e) = p
  BY <1>1, <1>3, EmitsCode DEF Ran
<1>7. IsSeq(<<>>) /\ Len(<<>>) = 0
  BY SeqOver, EmptySeq
<1>8. Agree(e, u, Nat)
  BY <1>1, <1>3, <1>5, <1>6, <1>7 DEF Agree
<1> QED BY <1>1, <1>3, <1>8 DEF e, u

-----------------------------------------------------------------------------
\* Statements.

\* d and t are c and s after a statement.
Follows(c, d, t) == Agree(d, t, Nat) /\ d.ops = <<>> /\ Begins(c.code, d.code)

\* w is the context after g's code and more, u the source machine then.
Extends(g, w, u) == IsContext(w) /\ Beside(g, w.code, w.temp, Ran(w), u)

\* g follows c, and the source machine is t.
Reaches(c, g, t) ==
  /\ IsContext(g) /\ g.temp \in Nat /\ Len(g.code) \in Nat
  /\ Begins(c.code, g.code) /\ Beside(g, g.code, g.temp, Ran(g), t)

\* The end of a statement: the stack is dropped.
LEMMA Close ==
  ASSUME NEW c, NEW s, NEW K, Agree(c, s, K), NEW g, NEW t, Reaches(c, g, t),
         NEW w, NEW u, Extends(g, w, u)
  PROVE  Follows(c, [w EXCEPT !.ops = <<>>], [u EXCEPT !.out = <<>>])
<1> DEFINE d == [w EXCEPT !.ops = <<>>]
           v == [u EXCEPT !.out = <<>>]
<1>1. IsContext(w) /\ Beside(g, w.code, w.temp, Ran(w), u)
  BY DEF Extends
<1>2. Agree(d, v, Nat) /\ d.ops = <<>> /\ Begins(g.code, d.code)
  BY <1>1, Dropped
<1> HIDE DEF d, v
<1>3. Begins(c.code, g.code) /\ Len(g.code) \in Nat
  BY DEF Reaches
<1>4. Len(c.code) \in Nat /\ Len(d.code) \in Nat
  BY <1>2, EmitsCode DEF Agree
<1>5. Begins(c.code, d.code)
  BY <1>2, <1>3, <1>4, BeginsOn
<1> QED BY <1>2, <1>5 DEF Follows, d, v

\* What the nodes reach, in the form statements start from.
LEMMA Reached ==
  ASSUME NEW c, NEW s, NEW K, Agree(c, s, K), NEW J, NEW n, NEW h, NEW d, NEW t,
         Advances(c, s, J, n, h, d, t)
  PROVE  Reaches(c, d, t)
<1>1. Agree(d, t, J) /\ Begins(c.code, d.code)
  BY DEF Advances
<1>2. IsContext(d) /\ d.temp \in Nat /\ Len(d.code) \in Nat
  BY <1>1, EmitsTemp, EmitsCode DEF Agree
<1>3. Beside(d, d.code, d.temp, Ran(d), t)
  BY <1>1, BesideStart
<1> QED BY <1>1, <1>2, <1>3 DEF Reaches

LEMMA ReachesOn ==
  ASSUME NEW c, NEW s, NEW K, Agree(c, s, K), NEW d, NEW t, Reaches(c, d, t),
         NEW e, NEW u, Reaches(d, e, u)
  PROVE  Reaches(c, e, u)
<1>1. Len(c.code) \in Nat
  BY EmitsCode DEF Agree
<1>2. Begins(c.code, e.code)
  BY <1>1, BeginsOn DEF Reaches
<1> QED BY <1>2 DEF Reaches

LEMMA AboveAll == \A b \in Nat : Above(b, Nat)
BY DEF Above

\* Dropping the stack, or adding an instruction, takes no temporary.
LEMMA KeepTemps ==
  ASSUME NEW c, IsContext(c)
  PROVE  /\ [c EXCEPT !.ops = <<>>].temp = c.temp
         /\ \A ins : AddInstr(c, ins).temp = c.temp
<1>1. [c EXCEPT !.ops = <<>>] = [code |-> c.code, temp |-> c.temp, ops |-> <<>>]
  BY DEF IsContext
<1>2. \A ins : AddInstr(c, ins).temp = c.temp
  BY AddFields
<1> QED BY <1>1, <1>2

\* The right side, then the target on the left.
LEMMA SidesRight ==
  ASSUME NEW c, NEW s, Agree(c, s, Nat), c.ops = <<>>, NEW l \in Targets, NEW e \in Exprs(1),
         NEW r, NEW g, NEW m, NEW t, r = GenExpr(c, e), g = GenLValue(r, l),
         m = Eval(s, e), t = Address(m, l), g.temp <= NumTemps
  PROVE  /\ Reaches(c, g, t)
         /\ AimsAt(g.temp, Ran(g), l, Last(g.ops), Last(t.out))
         /\ Last(r.ops) \in Known(g.temp) /\ Last(m.out) = Value(Ran(g), Last(r.ops))
<1>1. e \in Seq(Nodes) /\ Height(e) = 1 /\ 1 # Short /\ l.expr \in Seq(Nodes) /\ l.direct \in BOOLEAN
  BY TargetKinds DEF Exprs, Short
<1>2. IsContext(c) /\ c.temp \in Nat /\ Len(c.ops) = 0
  BY EmitsTemp, EmptySeq DEF Agree
<1>3. IsContext(r) /\ r.temp \in Nat
  BY <1>1, <1>2, ExprTemps
<1>4. g.temp \in Nat /\ r.temp <= g.temp
  BY <1>1, <1>3, ExprTemps DEF GenLValue
<1>5. r.temp <= NumTemps
  BY <1>3, <1>4, PirSizes
<1>6. Above(0, Nat) /\ Above(1, Nat)
  BY AboveAll
<1>7. Advances(c, s, Nat, 0, 1, r, m)
  BY <1>1, <1>2, <1>5, <1>6, ExprRight
<1>8. /\ Len(r.ops) = 1 /\ Last(r.ops) = r.ops[1] /\ Last(m.out) = m.out[1]
      /\ Agree(r, m, Nat)
  <2>1. /\ Len(r.ops) = Len(c.ops) + 1
        /\ Last(r.ops) = r.ops[Len(c.ops) + 1] /\ Last(m.out) = m.out[Len(c.ops) + 1]
    <3>1. PICK K : K = Nat
      OBVIOUS
    <3>2. Agree(c, s, K) /\ Advances(c, s, K, 0, 1, r, m)
      BY <1>7, <3>1
    <3> QED BY <3>2, TopAfter
  <2> QED BY <1>2, <1>7, <2>1 DEF Advances
<1> DEFINE J == Aim(l, 1, Nat)
<1>9. Advances(r, m, J, 0, 1, g, t) /\ Aims(g, l, Last(g.ops), Last(t.out))
  <2>1. /\ Advances(r, m, Aim(l, Len(r.ops), Nat), 0, 1, g, t)
        /\ Aims(g, l, Last(g.ops), Last(t.out))
    BY <1>6, <1>8, TargetRight
  <2> QED BY <1>8, <2>1
<1>10. 1 \in J
  BY <1>1 DEF Aim
<1> HIDE DEF J
<1>11. Agree(g, t, J) /\ Len(g.ops) = 2 /\ g.ops[1] = r.ops[1] /\ t.out[1] = m.out[1]
  BY <1>8, <1>9 DEF Advances
<1>12. g.ops[1] \in Known(g.temp) /\ t.out[1] = Value(Ran(g), g.ops[1])
  <2>1. 1 \in 1 .. Len(g.ops)
    BY <1>11
  <2> QED BY <1>10, <1>11, <2>1, AgreeAt
<1>13. Reaches(c, r, m) /\ Reaches(r, g, t)
  BY <1>7, <1>8, <1>9, Reached
<1>14. Reaches(c, g, t)
  BY <1>13, ReachesOn
<1> QED BY <1>8, <1>9, <1>11, <1>12, <1>14 DEF Aims

\* The value of a known operand, written to a target.
LEMMA WriteRight ==
  ASSUME NEW c, NEW g, NEW t, Reaches(c, g, t), NEW l \in Targets, NEW a, NEW ad,
         AimsAt(g.temp, Ran(g), l, a, ad), NEW v \in Known(g.temp)
  PROVE  Extends(g, Write(g, v, a, l.direct), Put(t, l, ad, Value(Ran(g), v)))
<1> DEFINE ins == WriteInstr(l, v, a)
           q   == Exec(Ran(g), ins)
           u   == Put(t, l, ad, Value(Ran(g), v))
           w   == AddInstr(g, ins)
<1>1. IsContext(g) /\ Len(g.code) \in Nat /\ Beside(g, g.code, g.temp, Ran(g), t)
  BY DEF Reaches
<1>2. Beside(g, Append(g.code, ins), g.temp, q, u)
  BY <1>1, BesidePut
<1>3. IsContext(w) /\ w.code = Append(g.code, ins) /\ w.temp = g.temp
  BY <1>1, AddFields
<1>4. Write(g, v, a, l.direct) = w
  BY DEF Write, WriteInstr
<1> HIDE DEF ins, q, u, w
<1>5. Ran(w) = q
  BY <1>2, <1>3, EmitsCode DEF Ran, Beside
<1>6. Extends(g, w, u)
  BY <1>2, <1>3, <1>5 DEF Extends
<1> QED BY <1>4, <1>6 DEF u

\* What statements are made of.
LEMMA StatementKinds ==
  ASSUME NEW st \in Statements
  PROVE  /\ st.k \in {"assign", "opassign", "incdec", "swap", "multi", "expr"}
         /\ st.k \in {"assign", "opassign", "incdec", "swap"} => st.l \in Targets
         /\ st.k \in {"assign", "opassign"} => st.e \in Exprs(1)
         /\ st.k = "swap" => st.r \in Targets
         /\ st.k = "multi" => st.ls \in Seq(Targets) /\ st.e \in Seq(Nodes) /\ ReturnsToEach(st)
         /\ st.k = "expr" => st.e \in Seq(Nodes) /\ Height(st.e) # Short
<1> HIDE DEF Targets, Exprs, Nodes, Height, ReturnsToEach
<1>1. CASE st \in [k : {"assign", "opassign"}, l : Targets, e : Exprs(1)]
  BY <1>1
<1>2. CASE st \in [k : {"incdec"}, l : Targets]
  BY <1>2
<1>3. CASE st \in [k : {"swap"}, l : Targets, r : Targets]
  BY <1>3
<1>4. CASE st \in {x \in [k : {"multi"}, ls : Seq(Targets), e : Seq(Nodes)] : ReturnsToEach(x)}
  <2>1. st \in [k : {"multi"}, ls : Seq(Targets), e : Seq(Nodes)] /\ ReturnsToEach(st)
    BY <1>4
  <2> QED BY <2>1
<1>5. CASE st \in [k : {"expr"}, e : {x \in Seq(Nodes) : Height(x) # Short}]
  BY <1>5
<1> QED BY <1>1, <1>2, <1>3, <1>4, <1>5 DEF Statements

StatementRight(c, s, st) == Follows(c, GenStatement(c, st), Meaning(s, st))

\* An assignment (genNormalSingleAssign).
LEMMA AssignRight ==
  ASSUME NEW c, NEW s, Agree(c, s, Nat), c.ops = <<>>, NEW st \in Statements, st.k = "assign",
         GenStatement(c, st).temp <= NumTemps
  PROVE  StatementRight(c, s, st)
<1> DEFINE r == GenExpr(c, st.e)
           g == GenLValue(r, st.l)
           m == Eval(s, st.e)
           t == Address(m, st.l)
           w == Write(g, Last(r.ops), Last(g.ops), st.l.direct)
           u == Put(t, st.l, Last(t.out), Last(m.out))
<1>1. st.l \in Targets /\ st.e \in Exprs(1)
  BY StatementKinds
<1>2. /\ GenStatement(c, st) = [w EXCEPT !.ops = <<>>]
      /\ Meaning(s, st) = [u EXCEPT !.out = <<>>]
  BY DEF GenStatement, Meaning
<1> HIDE DEF w, u
<1>3. g.temp <= NumTemps
  <2>1. IsContext(c) /\ c.temp \in Nat /\ st.e \in Seq(Nodes) /\ st.l.expr \in Seq(Nodes)
    BY <1>1, EmitsTemp, TargetKinds DEF Agree, Exprs
  <2>2. IsContext(r) /\ r.temp \in Nat
    BY <2>1, ExprTemps
  <2> HIDE DEF r
  <2>3. IsContext(g)
    BY <2>1, <2>2, ExprTemps DEF GenLValue
  <2> HIDE DEF g
  <2>4. w = AddInstr(g, WriteInstr(st.l, Last(r.ops), Last(g.ops)))
    BY DEF w, Write, WriteInstr
  <2>5. IsContext(w) /\ w.temp = g.temp
    BY <2>3, <2>4, AddFields
  <2>6. [w EXCEPT !.ops = <<>>].temp = w.temp
    BY <2>5, KeepTemps
  <2> QED BY <1>2, <2>5, <2>6
<1> HIDE DEF r, g, m, t
<1>4. /\ Reaches(c, g, t)
      /\ AimsAt(g.temp, Ran(g), st.l, Last(g.ops), Last(t.out))
      /\ Last(r.ops) \in Known(g.temp) /\ Last(m.out) = Value(Ran(g), Last(r.ops))
  BY <1>1, <1>3, SidesRight DEF r, g, m, t
<1>5. Extends(g, w, Put(t, st.l, Last(t.out), Value(Ran(g), Last(r.ops))))
  BY <1>1, <1>4, WriteRight DEF w
<1>6. Extends(g, w, u)
  BY <1>4, <1>5 DEF u
<1>7. Follows(c, [w EXCEPT !.ops = <<>>], [u EXCEPT !.out = <<>>])
  BY <1>4, <1>6, Close
<1> QED BY <1>2, <1>7 DEF StatementRight

\* A call, or any expression, as a statement.
LEMMA ExprStatementRight ==
  ASSUME NEW c, NEW s, Agree(c, s, Nat), c.ops = <<>>, NEW st \in Statements, st.k = "expr",
         GenStatement(c, st).temp <= NumTemps
  PROVE  StatementRight(c, s, st)
<1> DEFINE r == GenExpr(c, st.e)
           m == Eval(s, st.e)
<1>1. st.e \in Seq(Nodes) /\ Height(st.e) # Short
  BY StatementKinds
<1>2. /\ GenStatement(c, st) = [r EXCEPT !.ops = <<>>]
      /\ Meaning(s, st) = [m EXCEPT !.out = <<>>]
  BY DEF GenStatement, Meaning
<1>3. IsContext(c) /\ c.temp \in Nat /\ Len(c.ops) = 0
  BY EmitsTemp, EmptySeq DEF Agree
<1>4. IsContext(r)
  BY <1>1, <1>3, ExprTemps
<1>5. r.temp <= NumTemps
  BY <1>2, <1>4, KeepTemps
<1>6. Advances(c, s, Nat, 0, Height(st.e), r, m)
  BY <1>1, <1>3, <1>5, AboveAll, ExprRight
<1> HIDE DEF r, m
<1>7. Reaches(c, r, m)
  BY <1>6, Reached
<1>8. Extends(r, r, m)
  BY <1>7 DEF Reaches, Extends
<1>9. Follows(c, [r EXCEPT !.ops = <<>>], [m EXCEPT !.out = <<>>])
  BY <1>7, <1>8, Close
<1> QED BY <1>2, <1>9 DEF StatementRight

\* Instructions appended together are appended one by one.
LEMMA Appended ==
  ASSUME NEW S, NEW q \in Seq(S), NEW a \in S, NEW b \in S, NEW c \in S
  PROVE  /\ q \o <<a, b, c>> = Append(Append(Append(q, a), b), c)
         /\ \A d \in S : q \o <<a, b, c, d>> = Append(Append(Append(Append(q, a), b), c), d)
<1>1. \A x, y \in Seq(S), z \in S : x \o Append(y, z) = Append(x \o y, z)
  OBVIOUS
<1>2. /\ <<a, b>> = Append(<<a>>, b) /\ <<a, b, c>> = Append(<<a, b>>, c)
      /\ \A d \in S : <<a, b, c, d>> = Append(<<a, b, c>>, d)
  OBVIOUS
<1>3. <<a>> \in Seq(S) /\ <<a, b>> \in Seq(S) /\ <<a, b, c>> \in Seq(S)
  OBVIOUS
<1>4. q \o <<a>> = Append(q, a)
  OBVIOUS
<1>5. q \o Append(<<a>>, b) = Append(q \o <<a>>, b)
  BY <1>1, <1>3
<1>6. q \o Append(<<a, b>>, c) = Append(q \o <<a, b>>, c)
  BY <1>1, <1>3
<1>7. \A d \in S : q \o Append(<<a, b, c>>, d) = Append(q \o <<a, b, c>>, d)
  BY <1>1, <1>3
<1>8. q \o <<a, b, c>> = Append(Append(Append(q, a), b), c)
  BY <1>2, <1>4, <1>5, <1>6, Zenon
<1>9. \A d \in S : q \o <<a, b, c, d>> = Append(Append(Append(Append(q, a), b), c), d)
  BY <1>2, <1>7, <1>8, Zenon
<1> QED BY <1>8, <1>9

\* A context with n more temporaries and other code.
Refit(c, n, code) == [c EXCEPT !.temp = c.temp + n, !.code = code]

LEMMA NewFields ==
  ASSUME NEW c, IsContext(c), NEW n, NEW code
  PROVE  LET d == Refit(c, n, code)
         IN IsContext(d) /\ d.code = code /\ d.temp = c.temp + n /\ d.ops = c.ops
<1> DEFINE e == [c EXCEPT !.temp = c.temp + n]
           d == [e EXCEPT !.code = code]
<1>1. e = [code |-> c.code, temp |-> c.temp + n, ops |-> c.ops]
  BY DEF IsContext
<1> HIDE DEF e
<1>2. d = [code |-> code, temp |-> c.temp + n, ops |-> c.ops]
  BY <1>1
<1> USE DEF e
<1>3. Refit(c, n, code) = d
  BY DEF Refit
<1> HIDE DEF d
<1> QED BY <1>2, <1>3 DEF IsContext

\* The next two temporaries.
LEMMA TwoFresh ==
  ASSUME NEW c, NEW g, NEW t, Reaches(c, g, t)
  PROVE  Fresh(g, 0) = Temp(g.temp) /\ Fresh(g, 1) = Temp(g.temp + 1)
<1>1. g.temp + 0 = g.temp
  BY DEF Reaches
<1> QED BY <1>1 DEF Fresh

\* An update of what a target holds.
Updated(t, l, ad, x) == Put(t, l, ad, Term("bin", <<Contents(t, l, ad), x>>, 0))

\* An operation on a variable, and on memory (genLoadOpStore).
LEMMA OpDirect ==
  ASSUME NEW c, NEW g, NEW t, Reaches(c, g, t), NEW l \in Targets, l.direct, NEW a, NEW ad,
         AimsAt(g.temp, Ran(g), l, a, ad), NEW v \in Known(g.temp)
  PROVE  Extends(g, GenOp(g, a, v, l.direct), Updated(t, l, ad, Value(Ran(g), v)))
<1> DEFINE p   == Ran(g)
           ins == Bin(a, v, a)
           q   == Exec(p, ins)
           x   == Term("bin", <<Value(p, a), Value(p, v)>>, 0)
           w   == AddInstr(g, ins)
           k   == g.temp
<1>1. IsContext(g) /\ Len(g.code) \in Nat /\ Beside(g, g.code, k, p, t) /\ k + 0 = k
  BY DEF Reaches
<1>2. a \in Locals \cup Args /\ ad = a /\ a \in Known(k) /\ Value(p, a) = Contents(t, l, ad)
  BY <1>1, BesideHeld
<1>3. Dest(k, 0, a) /\ Emits(g.code, k, p)
  BY <1>1, <1>2 DEF Dest, Beside
<1> HIDE DEF p, k
<1>4. Emits(Append(g.code, ins), k + 0, q) /\ Wrote(p, q, a, x)
  BY <1>2, <1>3, EmitBin DEF k
<1>5. IsVar(a) /\ Emits(Append(g.code, ins), k, q)
  BY <1>1, <1>2, <1>4 DEF IsVar
<1>6. Updated(t, l, ad, Value(p, v)) = Set(t, a, x)
  BY <1>2 DEF Updated, Put
<1>7. IsContext(w) /\ w.code = Append(g.code, ins) /\ w.temp = k
  BY <1>1, AddFields DEF k
<1>8. GenOp(g, a, v, l.direct) = w
  BY DEF GenOp
<1> HIDE DEF ins, q, x, w
<1>9. Beside(g, Append(g.code, ins), k, q, Set(t, a, x))
  BY <1>1, <1>4, <1>5, BesideVar
<1>10. Ran(w) = q
  BY <1>5, <1>7, EmitsCode DEF Ran
<1>11. Extends(g, w, Set(t, a, x))
  BY <1>7, <1>9, <1>10 DEF Extends
<1> QED BY <1>6, <1>8, <1>11 DEF p

LEMMA OpIndirect ==
  ASSUME NEW c, NEW g, NEW t, Reaches(c, g, t), NEW l \in Targets, ~l.direct, NEW a, NEW ad,
         AimsAt(g.temp, Ran(g), l, a, ad), NEW v \in Known(g.temp), g.temp + 2 <= NumTemps
  PROVE  Extends(g, GenOp(g, a, v, l.direct), Updated(t, l, ad, Value(Ran(g), v)))
<1> DEFINE k  == g.temp
           p  == Ran(g)
           t1 == Temp(k)
           t2 == Temp(k + 1)
           i1 == LoadPtr(a, t1)
           i2 == Bin(t1, v, t2)
           i3 == StorePtr(t2, a)
           p1 == Exec(p, i1)
           p2 == Exec(p1, i2)
           p3 == Exec(p2, i3)
           c1 == Append(g.code, i1)
           c2 == Append(c1, i2)
           c3 == Append(c2, i3)
           x  == Term("bin", <<Value(p1, t1), Value(p1, v)>>, 0)
           u  == DoStore(t, Value(p2, t2), Value(p2, a))
           w  == Refit(g, 2, c3)
<1>1. IsContext(g) /\ Len(g.code) \in Nat /\ k \in Nat /\ Beside(g, g.code, k, p, t)
      /\ k < NumTemps /\ k + 1 < NumTemps /\ k + 1 \in Nat /\ k + 1 + 1 = k + 2
  BY PirSizes DEF Reaches
<1>2. a \in Known(k) /\ ad = Value(p, a) /\ v \in Known(k)
  BY DEF AimsAt
<1>3. Fresh(g, 0) = t1 /\ Fresh(g, 1) = t2
  BY TwoFresh
<1>4. GenOp(g, a, v, l.direct) = Refit(g, 2, g.code \o <<i1, i2, i3>>)
  BY <1>3 DEF GenOp, GenLoadOpStore, Refit
<1> HIDE DEF k, p, t1, t2
<1>5. /\ Beside(g, c1, k + 1, p1, t)
      /\ \A o \in Known(k) : o \in Known(k + 1) /\ Value(p1, o) = Value(p, o)
      /\ t1 \in Known(k + 1) /\ Value(p1, t1) = Contents(t, l, ad)
  <2>1. AimsAt(k, p, l, a, ad) /\ g.temp \in Nat
    BY <1>1 DEF k, p
  <2> QED BY <1>1, <2>1, BesideLoad DEF t1
<1> HIDE DEF p1, c1
<1>6. /\ Emits(c2, k + 1 + 1, p2) /\ Wrote(p1, p2, t2, x)
  <2>1. Dest(k + 1, 1, t2)
    BY <1>1 DEF Dest, t2
  <2>2. Emits(c1, k + 1, p1)
    BY <1>5 DEF Beside
  <2> QED BY <1>2, <1>5, <2>1, <2>2, EmitBin
<1>7. /\ Beside(g, c2, k + 1 + 1, p2, t)
      /\ \A o \in Known(k + 1) : o \in Known(k + 1 + 1) /\ Value(p2, o) = Value(p1, o)
      /\ t2 \in Known(k + 1 + 1) /\ Value(p2, t2) = x
  <2>1. g.temp \in Nat
    BY <1>1 DEF k
  <2> HIDE DEF p2, x, i2
  <2>2. PICK j \in Nat : j = k + 1
    BY <1>1
  <2>3. /\ Beside(g, c1, j, p1, t) /\ Len(g.code) \in Nat /\ j < NumTemps
        /\ Emits(Append(c1, i2), j + 1, p2) /\ Wrote(p1, p2, Temp(j), x)
    BY <1>1, <1>5, <1>6, <2>2 DEF t2
  <2>4. /\ Beside(g, Append(c1, i2), j + 1, p2, t)
        /\ \A o \in Known(j) : o \in Known(j + 1) /\ Value(p2, o) = Value(p1, o)
        /\ Temp(j) \in Known(j + 1) /\ Value(p2, Temp(j)) = x
    BY <2>1, <2>3, BesideTemp
  <2> QED BY <2>2, <2>4 DEF t2
<1> HIDE DEF p2, c2
<1>8. a \in Known(k + 1 + 1) /\ Value(p2, a) = ad
  BY <1>2, <1>5, <1>7
<1>9. Beside(g, c3, k + 1 + 1, p3, u)
  BY <1>1, <1>7, <1>8, BesideStore
<1>10. u = Updated(t, l, ad, Value(p, v))
  <2>1. x = Term("bin", <<Contents(t, l, ad), Value(p, v)>>, 0)
    BY <1>2, <1>5
  <2> QED BY <1>7, <1>8, <2>1 DEF Updated, Put
<1> HIDE DEF p3, u, x
<1>11. g.code \o <<i1, i2, i3>> = c3
  <2>1. c3 \in Seq(Instrs) /\ g.code \in Seq(Instrs)
    BY <1>1, <1>9, EmitsCode DEF Beside
  <2> DEFINE S == Instrs \cup {i1, i2, i3}
  <2>2. g.code \in Seq(S) /\ i1 \in S /\ i2 \in S /\ i3 \in S
    BY <2>1, SeqMonotonic
  <2> HIDE DEF S, i1, i2, i3
  <2> QED BY <2>2, Appended DEF c1, c2
<1>12. GenOp(g, a, v, l.direct) = w
  BY <1>4, <1>11
<1> HIDE DEF c3
<1>13. IsContext(w) /\ w.code = c3 /\ w.temp = k + 2
  BY <1>1, NewFields DEF k
<1> HIDE DEF w
<1>14. Ran(w) = p3
  BY <1>9, <1>13, EmitsCode DEF Ran, Beside
<1>15. Extends(g, w, u)
  BY <1>1, <1>9, <1>13, <1>14 DEF Extends
<1> QED BY <1>10, <1>12, <1>15 DEF p

\* The temporaries of an update.
LEMMA OpTemps ==
  ASSUME NEW g, IsContext(g), NEW a, NEW v, NEW direct \in BOOLEAN
  PROVE  /\ IsContext(GenOp(g, a, v, direct))
         /\ GenOp(g, a, v, direct).temp = IF direct THEN g.temp ELSE g.temp + 2
<1>1. CASE direct
  BY <1>1, AddFields DEF GenOp
<1>2. CASE ~direct
  <2> DEFINE code == g.code \o <<LoadPtr(a, Fresh(g, 0)), Bin(Fresh(g, 0), v, Fresh(g, 1)),
                                 StorePtr(Fresh(g, 1), a)>>
  <2>1. GenOp(g, a, v, direct) = Refit(g, 2, code)
    BY <1>2 DEF GenOp, GenLoadOpStore, Refit
  <2> HIDE DEF code
  <2> QED BY <1>2, <2>1, NewFields
<1> QED BY <1>1, <1>2

\* An operation on any target.
LEMMA OpRight ==
  ASSUME NEW c, NEW g, NEW t, Reaches(c, g, t), NEW l \in Targets, NEW a, NEW ad,
         AimsAt(g.temp, Ran(g), l, a, ad), NEW v \in Known(g.temp),
         GenOp(g, a, v, l.direct).temp <= NumTemps
  PROVE  Extends(g, GenOp(g, a, v, l.direct), Updated(t, l, ad, Value(Ran(g), v)))
<1>1. l.direct \in BOOLEAN /\ IsContext(g)
  BY TargetKinds DEF Reaches
<1>2. CASE l.direct
  BY <1>2, OpDirect
<1>3. CASE ~l.direct
  <2>1. g.temp + 2 <= NumTemps
    BY <1>1, <1>3, OpTemps
  <2> QED BY <1>3, <2>1, OpIndirect
<1> QED BY <1>1, <1>2, <1>3

\* What a target holds goes to the next temporary.
GetInstr(l, a, v) == IF l.direct THEN Copy(a, v) ELSE LoadPtr(a, v)

LEMMA BesideGet ==
  ASSUME NEW c, NEW code, NEW k, NEW p, NEW t, Beside(c, code, k, p, t),
         Len(c.code) \in Nat, c.temp \in Nat, k < NumTemps,
         NEW l \in Targets, NEW a, NEW ad, AimsAt(k, p, l, a, ad)
  PROVE  LET ins == GetInstr(l, a, Temp(k))
             q   == Exec(p, ins)
         IN /\ Beside(c, Append(code, ins), k + 1, q, t)
            /\ \A o \in Known(k) : o \in Known(k + 1) /\ Value(q, o) = Value(p, o)
            /\ Temp(k) \in Known(k + 1) /\ Value(q, Temp(k)) = Contents(t, l, ad)
<1>1. CASE l.direct
  <2> DEFINE ins == Copy(a, Temp(k))
             q   == Exec(p, ins)
             x   == Value(p, a)
  <2>1. a \in Known(k) /\ x = Contents(t, l, ad)
    BY <1>1, BesideHeld
  <2>2. Emits(code, k, p) /\ Dest(k, 1, Temp(k))
    BY DEF Beside, Dest
  <2>3. Emits(Append(code, ins), k + 1, q) /\ Wrote(p, q, Temp(k), x)
    BY <2>1, <2>2, EmitCopy
  <2>4. GetInstr(l, a, Temp(k)) = ins
    BY <1>1 DEF GetInstr
  <2> HIDE DEF ins, q, x
  <2>5. /\ Beside(c, Append(code, ins), k + 1, q, t)
        /\ \A o \in Known(k) : o \in Known(k + 1) /\ Value(q, o) = Value(p, o)
        /\ Temp(k) \in Known(k + 1) /\ Value(q, Temp(k)) = x
    BY <2>3, BesideTemp
  <2> QED BY <2>1, <2>4, <2>5 DEF q
<1>2. CASE ~l.direct
  <2>1. GetInstr(l, a, Temp(k)) = LoadPtr(a, Temp(k))
    BY <1>2 DEF GetInstr
  <2>2. LET ins == LoadPtr(a, Temp(k))
            q   == Exec(p, ins)
        IN /\ Beside(c, Append(code, ins), k + 1, q, t)
           /\ \A o \in Known(k) : o \in Known(k + 1) /\ Value(q, o) = Value(p, o)
           /\ Temp(k) \in Known(k + 1) /\ Value(q, Temp(k)) = Contents(t, l, ad)
    BY <1>2, BesideLoad
  <2> QED BY <2>1, <2>2
<1>3. l.direct \in BOOLEAN
  BY TargetKinds
<1> QED BY <1>1, <1>2, <1>3

\* One side is held, the other, a variable, is written over it, and the
\* variable gets what was held.
LEMMA HoldAndSwap ==
  ASSUME NEW c, NEW g, NEW t, Reaches(c, g, t), g.temp < NumTemps,
         NEW x \in Targets, NEW y \in Targets, y.direct,
         NEW b, NEW bd, AimsAt(g.temp, Ran(g), x, b, bd),
         NEW a, NEW ad, AimsAt(g.temp, Ran(g), y, a, ad)
  PROVE  LET t1 == Temp(g.temp)
         IN Extends(g, Refit(g, 1, g.code \o <<GetInstr(x, b, t1), WriteInstr(x, a, b),
                                               WriteInstr(y, t1, a)>>),
                    Put(Put(t, x, bd, Contents(t, y, ad)), y, ad, Contents(t, x, bd)))
<1> DEFINE k  == g.temp
           p  == Ran(g)
           t1 == Temp(k)
           i1 == GetInstr(x, b, t1)
           i2 == WriteInstr(x, a, b)
           i3 == WriteInstr(y, t1, a)
           p1 == Exec(p, i1)
           p2 == Exec(p1, i2)
           p3 == Exec(p2, i3)
           c1 == Append(g.code, i1)
           c2 == Append(c1, i2)
           c3 == Append(c2, i3)
           xv == Contents(t, x, bd)
           yv == Contents(t, y, ad)
           u1 == Put(t, x, bd, yv)
           u2 == Put(u1, y, ad, xv)
           w  == Refit(g, 1, c3)
<1>1. IsContext(g) /\ Len(g.code) \in Nat /\ k \in Nat /\ Beside(g, g.code, k, p, t)
      /\ k < NumTemps
  BY DEF Reaches
<1>2. a \in Locals \cup Args /\ ad = a /\ a \in Known(k) /\ Value(p, a) = yv
  BY <1>1, BesideHeld
<1>3. AimsAt(k, p, x, b, bd) /\ AimsAt(k, p, y, a, ad) /\ g.temp \in Nat
  BY <1>1
<1> HIDE DEF k, p
<1>4. /\ Beside(g, c1, k + 1, p1, t)
      /\ \A o \in Known(k) : o \in Known(k + 1) /\ Value(p1, o) = Value(p, o)
      /\ t1 \in Known(k + 1) /\ Value(p1, t1) = xv
  BY <1>1, <1>3, BesideGet
<1> HIDE DEF p1, c1, xv
<1>5. AimsAt(k + 1, p1, x, b, bd)
  BY <1>3, <1>4, AimsStill
<1>6. a \in Known(k + 1) /\ Value(p1, a) = yv
  BY <1>2, <1>4
<1>7. /\ Beside(g, c2, k + 1, p2, u1)
      /\ \A o : (x.direct => o # b) => Value(p2, o) = Value(p1, o)
  <2>1. LET u == Put(t, x, bd, Value(p1, a))
        IN /\ Beside(g, Append(c1, i2), k + 1, p2, u)
           /\ \A o : (x.direct => o # b) => Value(p2, o) = Value(p1, o)
    BY <1>1, <1>4, <1>5, <1>6, BesidePut
  <2> QED BY <1>6, <2>1
<1>8. Value(p2, t1) = xv
  <2>1. x.direct => b # t1
    <3>1. x.direct => b \in Locals \cup Args
      BY <1>3 DEF AimsAt
    <3>2. k + 0 \in Nat /\ k + 0 < NumTemps /\ k + 0 = k
      BY <1>1
    <3>3. t1 \in Temps
      BY <1>1, NextTemp
    <3> QED BY <3>1, <3>3, SourceFacts
  <2> QED BY <1>4, <1>7, <2>1
<1> HIDE DEF p2, c2, u1
<1>9. AimsAt(k + 1, p2, y, a, ad)
  BY <1>2 DEF AimsAt
<1>10. Beside(g, c3, k + 1, p3, u2)
  <2>1. LET u == Put(u1, y, ad, Value(p2, t1))
        IN Beside(g, Append(c2, i3), k + 1, p3, u)
    BY <1>1, <1>4, <1>7, <1>9, BesidePut
  <2> QED BY <1>8, <2>1
<1> HIDE DEF p3, u2
<1>11. g.code \o <<i1, i2, i3>> = c3
  <2>1. c3 \in Seq(Instrs) /\ g.code \in Seq(Instrs)
    BY <1>1, <1>10, EmitsCode DEF Beside
  <2> DEFINE S == Instrs \cup {i1, i2, i3}
  <2>2. g.code \in Seq(S) /\ i1 \in S /\ i2 \in S /\ i3 \in S
    BY <2>1, SeqMonotonic
  <2> HIDE DEF S, i1, i2, i3
  <2> QED BY <2>2, Appended DEF c1, c2
<1> HIDE DEF c3
<1>12. IsContext(w) /\ w.code = c3 /\ w.temp = k + 1
  BY <1>1, NewFields DEF k
<1> HIDE DEF w
<1>13. Ran(w) = p3
  BY <1>10, <1>12, EmitsCode DEF Ran, Beside
<1>14. Extends(g, w, u2)
  BY <1>10, <1>12, <1>13 DEF Extends
<1> QED BY <1>11, <1>14 DEF w, u2, u1, xv, k

\* Both sides are in memory: both are loaded before either is stored.
LEMMA LoadBoth ==
  ASSUME NEW c, NEW g, NEW t, Reaches(c, g, t), g.temp + 2 <= NumTemps,
         NEW x \in Targets, NEW y \in Targets, ~x.direct, ~y.direct,
         NEW a, NEW ad, AimsAt(g.temp, Ran(g), x, a, ad),
         NEW b, NEW bd, AimsAt(g.temp, Ran(g), y, b, bd)
  PROVE  LET t1 == Temp(g.temp)
             t2 == Temp(g.temp + 1)
         IN Extends(g, Refit(g, 2, g.code \o <<LoadPtr(a, t1), LoadPtr(b, t2),
                                               StorePtr(t2, a), StorePtr(t1, b)>>),
                    Put(Put(t, x, ad, Contents(t, y, bd)), y, bd, Contents(t, x, ad)))
<1> DEFINE k  == g.temp
           p  == Ran(g)
           t1 == Temp(k)
           t2 == Temp(k + 1)
           i1 == LoadPtr(a, t1)
           i2 == LoadPtr(b, t2)
           i3 == StorePtr(t2, a)
           i4 == StorePtr(t1, b)
           p1 == Exec(p, i1)
           p2 == Exec(p1, i2)
           p3 == Exec(p2, i3)
           p4 == Exec(p3, i4)
           c1 == Append(g.code, i1)
           c2 == Append(c1, i2)
           c3 == Append(c2, i3)
           c4 == Append(c3, i4)
           xv == Contents(t, x, ad)
           yv == Contents(t, y, bd)
           u1 == Put(t, x, ad, yv)
           u2 == Put(u1, y, bd, xv)
           w  == Refit(g, 2, c4)
<1>1. IsContext(g) /\ Len(g.code) \in Nat /\ k \in Nat /\ Beside(g, g.code, k, p, t)
      /\ k < NumTemps /\ k + 1 < NumTemps /\ k + 1 \in Nat /\ k + 1 + 1 = k + 2
  BY PirSizes DEF Reaches
<1>2. /\ AimsAt(k, p, x, a, ad) /\ AimsAt(k, p, y, b, bd) /\ g.temp \in Nat
      /\ a \in Known(k) /\ b \in Known(k)
  BY <1>1 DEF AimsAt
<1> HIDE DEF k, p
<1>3. /\ Beside(g, c1, k + 1, p1, t)
      /\ \A o \in Known(k) : o \in Known(k + 1) /\ Value(p1, o) = Value(p, o)
      /\ t1 \in Known(k + 1) /\ Value(p1, t1) = xv
  BY <1>1, <1>2, BesideLoad
<1> HIDE DEF p1, c1, xv
<1>4. AimsAt(k + 1, p1, x, a, ad) /\ AimsAt(k + 1, p1, y, b, bd)
  BY <1>2, <1>3, AimsStill
<1>5. /\ Beside(g, c2, k + 2, p2, t)
      /\ \A o \in Known(k + 1) : o \in Known(k + 2) /\ Value(p2, o) = Value(p1, o)
      /\ t2 \in Known(k + 2) /\ Value(p2, t2) = yv
  <2>1. PICK j \in Nat : j = k + 1
    BY <1>1
  <2>2. Beside(g, c1, j, p1, t) /\ AimsAt(j, p1, y, b, bd) /\ j < NumTemps
    BY <1>1, <1>3, <1>4, <2>1
  <2>3. LET ins == LoadPtr(b, Temp(j))
            q   == Exec(p1, ins)
        IN /\ Beside(g, Append(c1, ins), j + 1, q, t)
           /\ \A o \in Known(j) : o \in Known(j + 1) /\ Value(q, o) = Value(p1, o)
           /\ Temp(j) \in Known(j + 1) /\ Value(q, Temp(j)) = Contents(t, y, bd)
    BY <1>1, <1>2, <2>2, BesideLoad
  <2>4. j + 1 = k + 2
    BY <1>1, <2>1
  <2> QED BY <2>1, <2>3, <2>4
<1> HIDE DEF p2, c2, yv
<1>6. /\ AimsAt(k + 2, p2, x, a, ad) /\ AimsAt(k + 2, p2, y, b, bd)
      /\ t1 \in Known(k + 2) /\ Value(p2, t1) = xv
  <2>1. t1 \in Known(k + 2) /\ Value(p2, t1) = xv
    BY <1>3, <1>5
  <2>2. AimsAt(k + 2, p2, x, a, ad)
    BY <1>4, <1>5, AimsStill
  <2>3. AimsAt(k + 2, p2, y, b, bd)
    BY <1>4, <1>5, AimsStill
  <2> QED BY <2>1, <2>2, <2>3
<1>7. /\ Beside(g, c3, k + 2, p3, u1)
      /\ \A o : Value(p3, o) = Value(p2, o)
  <2>1. WriteInstr(x, t2, a) = i3
    BY DEF WriteInstr
  <2>2. LET ins == WriteInstr(x, t2, a)
            q   == Exec(p2, ins)
            u   == Put(t, x, ad, Value(p2, t2))
        IN /\ Beside(g, Append(c2, ins), k + 2, q, u)
           /\ \A o : (x.direct => o # a) => Value(q, o) = Value(p2, o)
    BY <1>1, <1>5, <1>6, BesidePut
  <2> QED BY <1>5, <2>1, <2>2
<1> HIDE DEF p3, c3, u1
<1>8. AimsAt(k + 2, p3, y, b, bd) /\ Value(p3, t1) = xv
  <2>1. ~y.direct => (b \in Known(k + 2) => b \in Known(k + 2) /\ Value(p3, b) = Value(p2, b))
    BY <1>7
  <2>2. AimsAt(k + 2, p3, y, b, bd)
    BY <1>6, <2>1, AimsStill
  <2> QED BY <1>6, <1>7, <2>2
<1>9. Beside(g, c4, k + 2, p4, u2)
  <2>1. WriteInstr(y, t1, b) = i4
    BY DEF WriteInstr
  <2>2. LET ins == WriteInstr(y, t1, b)
            q   == Exec(p3, ins)
            u   == Put(u1, y, bd, Value(p3, t1))
        IN Beside(g, Append(c3, ins), k + 2, q, u)
    BY <1>1, <1>6, <1>7, <1>8, BesidePut
  <2> QED BY <1>8, <2>1, <2>2
<1> HIDE DEF p4, u2
<1>10. g.code \o <<i1, i2, i3, i4>> = c4
  <2>1. g.code \in Seq(Instrs)
    BY <1>1, EmitsCode DEF Beside
  <2> DEFINE S == Instrs \cup {i1, i2, i3, i4}
  <2>2. g.code \in Seq(S) /\ i1 \in S /\ i2 \in S /\ i3 \in S /\ i4 \in S
    BY <2>1, SeqMonotonic
  <2> HIDE DEF S, i1, i2, i3, i4
  <2> QED BY <2>2, Appended DEF c1, c2, c3
<1> HIDE DEF c4
<1>11. IsContext(w) /\ w.code = c4 /\ w.temp = k + 2
  BY <1>1, NewFields DEF k
<1> HIDE DEF w
<1>12. Ran(w) = p4
  BY <1>9, <1>11, EmitsCode DEF Ran, Beside
<1>13. Extends(g, w, u2)
  BY <1>9, <1>11, <1>12 DEF Extends
<1> QED BY <1>10, <1>13 DEF w, u2, u1, xv, yv, k

\* An assignment with an operator (genOpSingleAssign).
LEMMA OpAssignRight ==
  ASSUME NEW c, NEW s, Agree(c, s, Nat), c.ops = <<>>, NEW st \in Statements, st.k = "opassign",
         GenStatement(c, st).temp <= NumTemps
  PROVE  StatementRight(c, s, st)
<1> DEFINE r == GenExpr(c, st.e)
           g == GenLValue(r, st.l)
           m == Eval(s, st.e)
           t == Address(m, st.l)
           w == GenOp(g, Last(g.ops), Last(r.ops), st.l.direct)
           u == Updated(t, st.l, Last(t.out), Last(m.out))
<1>1. st.l \in Targets /\ st.e \in Exprs(1)
  BY StatementKinds
<1>2. /\ GenStatement(c, st) = [w EXCEPT !.ops = <<>>]
      /\ Meaning(s, st) = [u EXCEPT !.out = <<>>]
  BY DEF GenStatement, Meaning, Updated
<1> HIDE DEF w, u
<1>3. g.temp <= NumTemps /\ w.temp <= NumTemps
  <2>1. IsContext(c) /\ c.temp \in Nat /\ st.e \in Seq(Nodes) /\ st.l.expr \in Seq(Nodes)
        /\ st.l.direct \in BOOLEAN
    BY <1>1, EmitsTemp, TargetKinds DEF Agree, Exprs
  <2>2. IsContext(r) /\ r.temp \in Nat
    BY <2>1, ExprTemps
  <2> HIDE DEF r
  <2>3. IsContext(g) /\ g.temp \in Nat
    BY <2>1, <2>2, ExprTemps DEF GenLValue
  <2> HIDE DEF g
  <2>4. IsContext(w) /\ w.temp = IF st.l.direct THEN g.temp ELSE g.temp + 2
    BY <2>1, <2>3, OpTemps DEF w
  <2>5. [w EXCEPT !.ops = <<>>].temp = w.temp
    BY <2>4, KeepTemps
  <2>6. w.temp <= NumTemps
    BY <1>2, <2>5
  <2> QED BY <2>1, <2>3, <2>4, <2>6, PirSizes
<1> HIDE DEF r, g, m, t
<1>4. /\ Reaches(c, g, t)
      /\ AimsAt(g.temp, Ran(g), st.l, Last(g.ops), Last(t.out))
      /\ Last(r.ops) \in Known(g.temp) /\ Last(m.out) = Value(Ran(g), Last(r.ops))
  BY <1>1, <1>3, SidesRight DEF r, g, m, t
<1>5. Extends(g, w, Updated(t, st.l, Last(t.out), Value(Ran(g), Last(r.ops))))
  BY <1>1, <1>3, <1>4, OpRight DEF w
<1>6. Extends(g, w, u)
  BY <1>4, <1>5 DEF u
<1>7. Follows(c, [w EXCEPT !.ops = <<>>], [u EXCEPT !.out = <<>>])
  BY <1>4, <1>6, Close
<1> QED BY <1>2, <1>7 DEF StatementRight

\* An increment or decrement (genIncDec).
LEMMA IncDecRight ==
  ASSUME NEW c, NEW s, Agree(c, s, Nat), c.ops = <<>>, NEW st \in Statements, st.k = "incdec",
         GenStatement(c, st).temp <= NumTemps
  PROVE  StatementRight(c, s, st)
<1> DEFINE g == GenLValue(c, st.l)
           t == Address(s, st.l)
           w == GenOp(g, Last(g.ops), Lit(1), st.l.direct)
           u == Updated(t, st.l, Last(t.out), Lit(1))
           J == Aim(st.l, Len(c.ops), Nat)
<1>1. st.l \in Targets
  BY StatementKinds
<1>2. /\ GenStatement(c, st) = [w EXCEPT !.ops = <<>>]
      /\ Meaning(s, st) = [u EXCEPT !.out = <<>>]
  BY DEF GenStatement, Meaning, Updated
<1> HIDE DEF w, u
<1>3. g.temp <= NumTemps /\ w.temp <= NumTemps
  <2>1. IsContext(c) /\ c.temp \in Nat /\ st.l.expr \in Seq(Nodes) /\ st.l.direct \in BOOLEAN
    BY <1>1, EmitsTemp, TargetKinds DEF Agree
  <2>2. IsContext(g) /\ g.temp \in Nat
    BY <2>1, ExprTemps DEF GenLValue
  <2> HIDE DEF g
  <2>3. IsContext(w) /\ w.temp = IF st.l.direct THEN g.temp ELSE g.temp + 2
    BY <2>1, <2>2, OpTemps DEF w
  <2>4. [w EXCEPT !.ops = <<>>].temp = w.temp
    BY <2>3, KeepTemps
  <2>5. w.temp <= NumTemps
    BY <1>2, <2>4
  <2> QED BY <2>1, <2>2, <2>3, <2>5, PirSizes
<1>4. Above(Len(c.ops), Nat)
  BY EmptySeq, AboveAll
<1>5. Advances(c, s, J, 0, 1, g, t) /\ Aims(g, st.l, Last(g.ops), Last(t.out))
  BY <1>1, <1>3, <1>4, TargetRight
<1> HIDE DEF g, t, J
<1>6. Reaches(c, g, t) /\ AimsAt(g.temp, Ran(g), st.l, Last(g.ops), Last(t.out))
  BY <1>5, Reached DEF Aims
<1>7. Lit(1) \in Known(g.temp) /\ Value(Ran(g), Lit(1)) = Lit(1)
  BY LitKnown
<1>8. Extends(g, w, Updated(t, st.l, Last(t.out), Value(Ran(g), Lit(1))))
  BY <1>1, <1>3, <1>6, <1>7, OpRight DEF w
<1>9. Extends(g, w, u)
  BY <1>7, <1>8 DEF u
<1>10. Follows(c, [w EXCEPT !.ops = <<>>], [u EXCEPT !.out = <<>>])
  BY <1>6, <1>9, Close
<1> QED BY <1>2, <1>10 DEF StatementRight

\* Two writes to different variables can change places.
LEMMA SameMachine ==
  ASSUME NEW p, NEW q, IsMachine(p), IsMachine(q), p.trace = q.trace, p.out = q.out,
         \A v \in Values : p.env[v] = q.env[v]
  PROVE  p = q
<1>1. p.env = q.env
  BY DEF IsMachine
<1> QED BY <1>1 DEF IsMachine

\* Two variables may be written in either order, if the same value goes to
\* both when they are the same.
LEMMA SetBoth ==
  ASSUME NEW t, IsMachine(t), NEW a \in Values, NEW b \in Values, NEW x, NEW y, a = b => x = y
  PROVE  Set(Set(t, a, x), b, y) = Set(Set(t, b, y), a, x)
<1> DEFINE p1 == Set(t, a, x)
           p2 == Set(p1, b, y)
           q1 == Set(t, b, y)
           q2 == Set(q1, a, x)
<1>1. Wrote(t, p1, a, x) /\ Wrote(t, q1, b, y)
  BY SetWrites
<1> HIDE DEF p1, q1
<1>2. Wrote(p1, p2, b, y) /\ Wrote(q1, q2, a, x)
  BY <1>1, SetWrites DEF Wrote
<1> HIDE DEF p2, q2
<1>3. p2 = q2
  BY <1>1, <1>2, SameMachine DEF Wrote
<1> QED BY <1>3 DEF p1, p2, q1, q2

\* What a swap means, once both addresses are known.
Swapped(t, l, r, ad, bd) ==
  LET lv == Contents(t, l, ad)
      rv == Contents(t, r, bd)
  IN IF r.direct \/ ~l.direct THEN Put(Put(t, l, ad, rv), r, bd, lv)
                              ELSE Put(Put(t, r, bd, lv), l, ad, rv)

SwapInstrs(l, r, a, b, t1, t2) ==
  IF l.direct \/ r.direct
    THEN IF l.direct
           THEN <<GetInstr(r, b, t1), WriteInstr(r, a, b), WriteInstr(l, t1, a)>>
           ELSE <<GetInstr(l, a, t1), WriteInstr(l, b, a), WriteInstr(r, t1, b)>>
    ELSE <<LoadPtr(a, t1), LoadPtr(b, t2), StorePtr(t2, a), StorePtr(t1, b)>>

\* The four cases of genSwap.
LEMMA GenSwapIs ==
  ASSUME NEW g, NEW l \in Targets, NEW r \in Targets, NEW a, NEW b
  PROVE  GenSwap(g, a, b, l.direct, r.direct)
           = Refit(g, IF l.direct \/ r.direct THEN 1 ELSE 2,
                   g.code \o SwapInstrs(l, r, a, b, Fresh(g, 0), Fresh(g, 1)))
<1>1. l.direct \in BOOLEAN /\ r.direct \in BOOLEAN
  BY TargetKinds
<1>2. CASE l.direct /\ r.direct
  BY <1>2 DEF GenSwap, Refit, SwapInstrs, GetInstr, WriteInstr
<1>3. CASE l.direct /\ ~r.direct
  BY <1>3 DEF GenSwap, Refit, SwapInstrs, GetInstr, WriteInstr
<1>4. CASE ~l.direct /\ r.direct
  BY <1>4 DEF GenSwap, Refit, SwapInstrs, GetInstr, WriteInstr
<1>5. CASE ~l.direct /\ ~r.direct
  BY <1>5 DEF GenSwap, Refit, SwapInstrs
<1> QED BY <1>1, <1>2, <1>3, <1>4, <1>5

\* Both sides of a swap get what the other one held.
LEMMA SwapMachines ==
  ASSUME NEW c, NEW g, NEW t, Reaches(c, g, t), NEW l \in Targets, NEW r \in Targets,
         NEW a, NEW ad, AimsAt(g.temp, Ran(g), l, a, ad),
         NEW b, NEW bd, AimsAt(g.temp, Ran(g), r, b, bd),
         GenSwap(g, a, b, l.direct, r.direct).temp <= NumTemps
  PROVE  Extends(g, GenSwap(g, a, b, l.direct, r.direct), Swapped(t, l, r, ad, bd))
<1> DEFINE w  == GenSwap(g, a, b, l.direct, r.direct)
           n  == IF l.direct \/ r.direct THEN 1 ELSE 2
           is == SwapInstrs(l, r, a, b, Fresh(g, 0), Fresh(g, 1))
<1>1. IsContext(g) /\ g.temp \in Nat /\ l.direct \in BOOLEAN /\ r.direct \in BOOLEAN
      /\ Fresh(g, 0) = Temp(g.temp) /\ Fresh(g, 1) = Temp(g.temp + 1) /\ IsMachine(t)
  BY TwoFresh, TargetKinds DEF Reaches, Beside
<1>2. w = Refit(g, n, g.code \o is)
  BY GenSwapIs
<1> HIDE DEF w
<1>3. g.temp + n <= NumTemps
  <2> HIDE DEF n, is
  <2>1. w.temp = g.temp + n
    BY <1>1, <1>2, NewFields
  <2> QED BY <2>1 DEF w
<1>4. CASE l.direct
  <2>1. g.temp < NumTemps /\ n = 1
    BY <1>1, <1>3, <1>4, PirSizes
  <2> DEFINE lv == Contents(t, l, ad)
             rv == Contents(t, r, bd)
  <2>2. is = <<GetInstr(r, b, Temp(g.temp)), WriteInstr(r, a, b), WriteInstr(l, Temp(g.temp), a)>>
    BY <1>1, <1>4 DEF SwapInstrs
  <2> HIDE DEF is, n
  <2>3. Extends(g, w, Put(Put(t, r, bd, lv), l, ad, rv))
    BY <1>2, <1>4, <2>1, <2>2, HoldAndSwap
  <2>4. Put(Put(t, r, bd, lv), l, ad, rv) = Swapped(t, l, r, ad, bd)
    <3>1. CASE r.direct
      <4>1. ad \in Values /\ bd \in Values
        BY <1>4, <3>1, SourceFacts DEF AimsAt
      <4>2. ad = bd => rv = lv
        BY <1>4, <3>1 DEF Contents
      <4> HIDE DEF lv, rv
      <4>3. Set(Set(t, bd, lv), ad, rv) = Set(Set(t, ad, rv), bd, lv)
        BY <1>1, <4>1, <4>2, SetBoth
      <4> QED BY <1>4, <3>1, <4>3 DEF Swapped, Put, lv, rv
    <3>2. CASE ~r.direct
      BY <1>4, <3>2 DEF Swapped
    <3> QED BY <1>1, <3>1, <3>2
  <2> QED BY <2>3, <2>4 DEF w
<1>5. CASE ~l.direct /\ r.direct
  <2>1. g.temp < NumTemps /\ n = 1
    BY <1>1, <1>3, <1>5, PirSizes
  <2>2. is = <<GetInstr(l, a, Temp(g.temp)), WriteInstr(l, b, a), WriteInstr(r, Temp(g.temp), b)>>
    BY <1>1, <1>5 DEF SwapInstrs
  <2> HIDE DEF is, n
  <2>3. Extends(g, w, Put(Put(t, l, ad, Contents(t, r, bd)), r, bd, Contents(t, l, ad)))
    BY <1>2, <1>5, <2>1, <2>2, HoldAndSwap
  <2> QED BY <1>5, <2>3 DEF Swapped, w
<1>6. CASE ~l.direct /\ ~r.direct
  <2>1. g.temp + 2 <= NumTemps /\ n = 2
    BY <1>3, <1>6
  <2>2. is = <<LoadPtr(a, Temp(g.temp)), LoadPtr(b, Temp(g.temp + 1)),
               StorePtr(Temp(g.temp + 1), a), StorePtr(Temp(g.temp), b)>>
    BY <1>1, <1>6 DEF SwapInstrs
  <2> HIDE DEF is, n
  <2>3. Extends(g, w, Put(Put(t, l, ad, Contents(t, r, bd)), r, bd, Contents(t, l, ad)))
    BY <1>2, <1>6, <2>1, <2>2, LoadBoth
  <2> QED BY <1>6, <2>3 DEF Swapped, w
<1> QED BY <1>1, <1>4, <1>5, <1>6

LEMMA SwapTemps ==
  ASSUME NEW g, IsContext(g), g.temp \in Nat, NEW l \in Targets, NEW r \in Targets, NEW a, NEW b
  PROVE  LET w == GenSwap(g, a, b, l.direct, r.direct)
         IN IsContext(w) /\ w.temp \in Nat /\ g.temp <= w.temp
<1> DEFINE w  == GenSwap(g, a, b, l.direct, r.direct)
           n  == IF l.direct \/ r.direct THEN 1 ELSE 2
           q  == g.code \o SwapInstrs(l, r, a, b, Fresh(g, 0), Fresh(g, 1))
<1>1. w = Refit(g, n, q) /\ n \in Nat
  BY GenSwapIs
<1> HIDE DEF w, n, q
<1>2. IsContext(w) /\ w.temp = g.temp + n
  BY <1>1, NewFields
<1> QED BY <1>1, <1>2 DEF w

\* A swap (genSwap).
LEMMA SwapRight ==
  ASSUME NEW c, NEW s, Agree(c, s, Nat), c.ops = <<>>, NEW st \in Statements, st.k = "swap",
         GenStatement(c, st).temp <= NumTemps
  PROVE  StatementRight(c, s, st)
<1> DEFINE f == GenLValue(c, st.l)
           g == GenLValue(f, st.r)
           m == Address(s, st.l)
           t == Address(m, st.r)
           w == GenSwap(g, Last(f.ops), Last(g.ops), st.l.direct, st.r.direct)
           u == Swapped(t, st.l, st.r, Last(m.out), Last(t.out))
           J == Aim(st.l, 0, Nat)
           L == Aim(st.r, 1, J)
<1>1. st.l \in Targets /\ st.r \in Targets /\ st.l.direct \in BOOLEAN
  BY StatementKinds, TargetKinds
<1>2. /\ GenStatement(c, st) = [w EXCEPT !.ops = <<>>]
      /\ Meaning(s, st) = [u EXCEPT !.out = <<>>]
  BY DEF GenStatement, Meaning, Swapped
<1> HIDE DEF w, u
<1>3. f.temp <= NumTemps /\ g.temp <= NumTemps /\ w.temp <= NumTemps
  <2>1. IsContext(c) /\ c.temp \in Nat /\ st.l.expr \in Seq(Nodes) /\ st.r.expr \in Seq(Nodes)
    BY <1>1, EmitsTemp, TargetKinds DEF Agree
  <2>2. IsContext(f) /\ f.temp \in Nat
    BY <2>1, ExprTemps DEF GenLValue
  <2> HIDE DEF f
  <2>3. IsContext(g) /\ g.temp \in Nat /\ f.temp <= g.temp
    BY <2>1, <2>2, ExprTemps DEF GenLValue
  <2> HIDE DEF g
  <2>4. IsContext(w) /\ w.temp \in Nat /\ g.temp <= w.temp
    BY <1>1, <2>3, SwapTemps DEF w
  <2>5. [w EXCEPT !.ops = <<>>].temp = w.temp
    BY <2>4, KeepTemps
  <2>6. w.temp <= NumTemps
    BY <1>2, <2>5
  <2> QED BY <2>2, <2>3, <2>4, <2>6, PirSizes
<1>4. Len(c.ops) = 0 /\ Above(0, Nat)
  BY EmptySeq, AboveAll
<1>5. Advances(c, s, J, 0, 1, f, m) /\ Aims(f, st.l, Last(f.ops), Last(m.out))
  <2>1. /\ Advances(c, s, Aim(st.l, Len(c.ops), Nat), 0, 1, f, m)
        /\ Aims(f, st.l, Last(f.ops), Last(m.out))
    BY <1>1, <1>3, <1>4, TargetRight
  <2> QED BY <1>4, <2>1
<1>6. Above(1, J) /\ ~st.l.direct => 1 \in L
  BY DEF Above, Aim
<1>7. Above(1, J)
  BY DEF Above, Aim
<1> HIDE DEF J
<1>8. /\ Len(f.ops) = 1 /\ Agree(f, m, J)
      /\ Last(f.ops) = f.ops[1] /\ Last(m.out) = m.out[1]
  <2>1. /\ Len(f.ops) = Len(c.ops) + 1
        /\ Last(f.ops) = f.ops[Len(c.ops) + 1] /\ Last(m.out) = m.out[Len(c.ops) + 1]
    <3>1. PICK K : K = Nat
      OBVIOUS
    <3>2. Agree(c, s, K) /\ Advances(c, s, J, 0, 1, f, m)
      BY <1>5, <3>1
    <3> HIDE DEF f, m
    <3> QED BY <3>2, TopAfter
  <2> QED BY <1>4, <1>5, <2>1 DEF Advances
<1>9. Advances(f, m, L, 0, 1, g, t) /\ Aims(g, st.r, Last(g.ops), Last(t.out))
  <2> HIDE DEF f, m
  <2>1. /\ Advances(f, m, Aim(st.r, Len(f.ops), J), 0, 1, g, t)
        /\ Aims(g, st.r, Last(g.ops), Last(t.out))
    BY <1>1, <1>3, <1>7, <1>8, TargetRight
  <2> QED BY <1>8, <2>1
<1> HIDE DEF f, m, g, t, L
<1>10. Agree(g, t, L) /\ Len(g.ops) = 2 /\ g.ops[1] = f.ops[1] /\ t.out[1] = m.out[1]
  BY <1>8, <1>9 DEF Advances
<1>11. AimsAt(g.temp, Ran(g), st.l, Last(f.ops), Last(m.out))
  <2>1. CASE st.l.direct
    BY <1>5, <2>1 DEF Aims, AimsAt
  <2>2. CASE ~st.l.direct
    <3>1. 1 \in L /\ 1 \in 1 .. Len(g.ops)
      BY <1>6, <1>7, <1>10, <2>2
    <3>2. g.ops[1] \in Known(g.temp) /\ t.out[1] = Value(Ran(g), g.ops[1])
      BY <1>10, <3>1, AgreeAt
    <3> QED BY <1>8, <1>10, <2>2, <3>2 DEF AimsAt
  <2> QED BY <1>1, <2>1, <2>2
<1>12. AimsAt(g.temp, Ran(g), st.r, Last(g.ops), Last(t.out))
  BY <1>9 DEF Aims
<1>13. Reaches(c, g, t)
  <2>1. Reaches(c, f, m) /\ Reaches(f, g, t)
    BY <1>5, <1>8, <1>9, Reached
  <2> QED BY <2>1, ReachesOn
<1>14. Extends(g, w, u)
  BY <1>1, <1>3, <1>11, <1>12, <1>13, SwapMachines DEF w, u
<1>15. Follows(c, [w EXCEPT !.ops = <<>>], [u EXCEPT !.out = <<>>])
  BY <1>13, <1>14, Close
<1> QED BY <1>2, <1>15 DEF StatementRight

\* The places J are some of K.
Within(J, K) == \A k \in Nat : k \in J => k \in K

\* None of the operands in the places J is the variable l names.
Clear(p, l, a, J) == \A k \in 1 .. Len(p.ops) : k \in J => (l.direct => p.ops[k] # a)

\* A target written while the stack is still needed: the places J are not
\* those of the target.
LEMMA WriteAgrees ==
  ASSUME NEW p, NEW t, NEW K, Agree(p, t, K), NEW l \in Targets, NEW a, NEW ad,
         AimsAt(p.temp, Ran(p), l, a, ad), NEW v \in Known(p.temp),
         NEW J, Within(J, K), Clear(p, l, a, J)
  PROVE  LET w == Write(p, v, a, l.direct)
             u == Put(t, l, ad, Value(Ran(p), v))
         IN /\ Agree(w, u, J) /\ w.ops = p.ops /\ u.out = t.out /\ w.temp = p.temp
            /\ Begins(p.code, w.code)
<1> DEFINE ins == WriteInstr(l, v, a)
           q   == Exec(Ran(p), ins)
           u   == Put(t, l, ad, Value(Ran(p), v))
           w   == AddInstr(p, ins)
<1>1. /\ IsContext(p) /\ Len(p.code) \in Nat /\ Beside(p, p.code, p.temp, Ran(p), t)
      /\ IsSeq(p.ops) /\ IsSeq(t.out) /\ Len(t.out) = Len(p.ops) /\ Len(p.ops) \in Nat
  BY EmitsCode, BesideStart, SeqLen DEF Agree
<1>2. /\ Beside(p, Append(p.code, ins), p.temp, q, u)
      /\ \A o : (l.direct => o # a) => Value(q, o) = Value(Ran(p), o)
      /\ u.out = t.out
  BY <1>1, BesidePut
<1>3. IsContext(w) /\ w.code = Append(p.code, ins) /\ w.temp = p.temp /\ w.ops = p.ops
  BY <1>1, AddFields
<1>4. Write(p, v, a, l.direct) = w
  BY DEF Write, WriteInstr
<1> HIDE DEF ins, q, u, w
<1>5. Ran(w) = q
  BY <1>2, <1>3, EmitsCode DEF Ran, Beside
<1>6. /\ Emits(w.code, w.temp, Ran(w)) /\ Begins(p.code, w.code) /\ IsMachine(u)
      /\ Ran(w).trace = u.trace /\ \A x \in Locals \cup Args : Ran(w).env[x] = u.env[x]
  BY <1>2, <1>3, <1>5 DEF Beside
<1>7. \A k \in 1 .. Len(p.ops) : k \in J => u.out[k] = Value(Ran(w), w.ops[k])
  <2> SUFFICES ASSUME NEW k \in 1 .. Len(p.ops), k \in J PROVE u.out[k] = Value(Ran(w), w.ops[k])
    OBVIOUS
  <2>1. k \in Nat
    BY <1>1
  <2>2. k \in K
    BY <2>1 DEF Within
  <2>3. t.out[k] = Value(Ran(p), p.ops[k])
    BY <2>2, AgreeAt
  <2>4. Value(q, p.ops[k]) = Value(Ran(p), p.ops[k])
    BY <1>2 DEF Clear
  <2> QED BY <1>2, <1>3, <1>5, <2>3, <2>4
<1>8. \A k \in 1 .. Len(p.ops) : p.ops[k] \in Known(p.temp)
  BY DEF Agree
<1>9. Agree(w, u, J)
  BY <1>1, <1>2, <1>3, <1>6, <1>7, <1>8 DEF Agree
<1> QED BY <1>2, <1>3, <1>4, <1>6, <1>9 DEF u

\* A temporary is no variable and no argument.
LEMMA TempsAreNotVars == \A i : \A v \in Locals \cup Args : Temp(i) # v
BY DEF Temp, Locals, Args, Var, Arg, Operand

\* The places of n returns, and those above the i targets on top of them.
Kept(n, i) == {k \in Nat : k <= n \/ k > n + i}

\* g and u come after r and m, whose n values on the stack are the returns of
\* a call, and i of them were assigned.
Assigned(r, m, n, i, g, u) ==
  /\ Agree(g, u, Kept(n, i)) /\ Len(g.ops) = n + i
  /\ \A k \in 1 .. n : g.ops[k] = r.ops[k] /\ u.out[k] = m.out[k]
  /\ Begins(r.code, g.code)

\* The returns are in temporaries.
InTemps(r, n) == \A k \in 1 .. n : \A v \in Locals \cup Args : r.ops[k] # v

\* One return of a call assigned (genLoadAssignRets): temporaries are only
\* added.
LEMMA AssignRetTemps ==
  ASSUME NEW g, IsContext(g), g.temp \in Nat, NEW a, a.l \in Targets
  PROVE  LET w == GenAssignRet(g, a)
             p == GenLValue(g, a.l)
         IN IsContext(w) /\ w.temp \in Nat /\ g.temp <= w.temp /\ w.temp = p.temp
<1> DEFINE p == GenLValue(g, a.l)
           w == GenAssignRet(g, a)
           i == WriteInstr(a.l, a.ret, Last(p.ops))
<1>1. a.l.expr \in Seq(Nodes)
  BY TargetKinds
<1>2. IsContext(p) /\ p.temp \in Nat /\ g.temp <= p.temp
  BY <1>1, ExprTemps DEF GenLValue
<1>3. w = AddInstr(p, i)
  BY DEF GenAssignRet, Write, WriteInstr
<1> HIDE DEF p, w, i
<1>4. IsContext(w) /\ w.temp = p.temp
  BY <1>2, <1>3, AddFields
<1> QED BY <1>2, <1>4 DEF p, w

\* One return of a call assigned: the others stay where they are.
LEMMA OneRet ==
  ASSUME NEW r, NEW m, NEW n \in Nat, InTemps(r, n), Len(r.code) \in Nat, NEW i \in Nat, i < n,
         NEW g, NEW u, Assigned(r, m, n, i, g, u), NEW l \in Targets,
         NEW a, a = [l |-> l, ret |-> r.ops[i + 1]], NEW b, b = [l |-> l, ret |-> m.out[i + 1]],
         GenAssignRet(g, a).temp <= NumTemps
  PROVE  Assigned(r, m, n, i + 1, GenAssignRet(g, a), AssignRet(u, b))
<1> DEFINE K  == Kept(n, i)
           J  == Aim(l, n + i, K)
           p  == GenLValue(g, l)
           t  == Address(u, l)
           d  == Last(p.ops)
           ad == Last(t.out)
           v  == r.ops[i + 1]
           w  == Write(p, v, d, l.direct)
           x  == Put(t, l, ad, m.out[i + 1])
<1>1. /\ Agree(g, u, K) /\ Len(g.ops) = n + i /\ Begins(r.code, g.code) /\ Len(g.code) \in Nat
      /\ \A k \in 1 .. n : g.ops[k] = r.ops[k] /\ u.out[k] = m.out[k]
      /\ n + i \in Nat
  BY EmitsCode DEF Assigned, Agree
<1>2. GenAssignRet(g, a) = w /\ AssignRet(u, b) = x
  BY DEF GenAssignRet, AssignRet
<1>3. p.temp <= NumTemps
  <2>1. IsContext(g) /\ g.temp \in Nat /\ a.l = l
    BY <1>1, EmitsTemp DEF Agree
  <2>2. GenAssignRet(g, a).temp = GenLValue(g, a.l).temp
    BY <2>1, AssignRetTemps
  <2> QED BY <2>1, <2>2
<1> HIDE DEF w, x
<1>4. Above(n + i, K)
  BY <1>1 DEF Above, Kept
<1> HIDE DEF K
<1>5. Advances(g, u, J, 0, 1, p, t) /\ AimsAt(p.temp, Ran(p), l, d, ad)
  <2>1. /\ Advances(g, u, Aim(l, Len(g.ops), K), 0, 1, p, t)
        /\ Aims(p, l, Last(p.ops), Last(t.out))
    BY <1>1, <1>3, <1>4, TargetRight
  <2> QED BY <1>1, <2>1 DEF Aims
<1>6. Within(Kept(n, i + 1), J)
  BY DEF Within, Kept, Aim, K
<1> HIDE DEF p, t, J, d, ad
<1>7. /\ Agree(p, t, J) /\ Len(p.ops) = n + (i + 1) /\ Begins(g.code, p.code)
      /\ \A k \in 1 .. n + i : p.ops[k] = g.ops[k] /\ t.out[k] = u.out[k]
  <2>1. n + i - 0 = n + i /\ n + i + 1 = n + (i + 1)
    BY <1>1
  <2> QED BY <1>1, <1>5, <2>1 DEF Advances
<1>8. \A k \in 1 .. n : p.ops[k] = r.ops[k] /\ t.out[k] = m.out[k]
  <2>1. \A k \in 1 .. n : k \in 1 .. n + i
    OBVIOUS
  <2> QED BY <1>1, <1>7, <2>1
<1>9. v \in Known(p.temp) /\ m.out[i + 1] = Value(Ran(p), v)
  <2>1. i + 1 \in 1 .. n /\ i + 1 \in 1 .. Len(p.ops) /\ i + 1 \in Kept(n, i + 1)
    BY <1>7 DEF Kept
  <2>2. i + 1 \in J
    BY <1>6, <2>1 DEF Within
  <2>3. p.ops[i + 1] \in Known(p.temp) /\ t.out[i + 1] = Value(Ran(p), p.ops[i + 1])
    BY <1>7, <2>1, <2>2, AgreeAt
  <2> QED BY <1>8, <2>1, <2>3
<1>10. Clear(p, l, d, Kept(n, i + 1))
  <2> SUFFICES ASSUME NEW k \in 1 .. Len(p.ops), k \in Kept(n, i + 1), l.direct
               PROVE  p.ops[k] # d
    BY DEF Clear
  <2>1. k \in 1 .. n
    BY <1>7 DEF Kept
  <2>2. d \in Locals \cup Args
    BY <1>5 DEF AimsAt
  <2> QED BY <1>8, <2>1, <2>2 DEF InTemps
<1>11. /\ Agree(w, x, Kept(n, i + 1)) /\ w.ops = p.ops /\ x.out = t.out
       /\ Begins(p.code, w.code)
  <2> HIDE DEF v
  <2>1. LET y == Write(p, v, d, l.direct)
            z == Put(t, l, ad, Value(Ran(p), v))
        IN /\ Agree(y, z, Kept(n, i + 1)) /\ y.ops = p.ops /\ z.out = t.out
           /\ Begins(p.code, y.code)
    BY <1>5, <1>6, <1>7, <1>9, <1>10, WriteAgrees
  <2> QED BY <1>9, <2>1 DEF w, x
<1>12. Begins(r.code, w.code)
  <2>1. Len(p.code) \in Nat /\ Len(w.code) \in Nat
    BY <1>7, <1>11, EmitsCode DEF Agree
  <2> QED BY <1>1, <1>7, <1>11, <2>1, BeginsOn
<1>13. Assigned(r, m, n, i + 1, w, x)
  BY <1>7, <1>8, <1>11, <1>12 DEF Assigned
<1> QED BY <1>2, <1>13

\* The call on the right of a multiple assignment leaves its returns, in
\* temporaries, and nothing else.
LEMMA ReturnsRight ==
  ASSUME NEW c, NEW s, Agree(c, s, Nat), c.ops = <<>>, NEW st \in Statements, st.k = "multi",
         NEW r, NEW m, r = GenExpr(c, st.e), m = Eval(s, st.e), r.temp <= NumTemps,
         NEW n, n = Len(st.ls)
  PROVE  /\ n \in Nat /\ Reaches(c, r, m) /\ Agree(r, m, Nat) /\ Len(r.ops) = n
         /\ InTemps(r, n)
<1>1. /\ st.ls \in Seq(Targets) /\ st.e \in Seq(Nodes) /\ st.e # <<>>
      /\ Last(st.e).k = "call" /\ Height(st.e) = Last(st.e).rets /\ n = Last(st.e).rets
      /\ n \in Nat
  BY StatementKinds DEF ReturnsToEach
<1>2. PICK q \in Seq(Nodes), x \in Nodes : st.e = Append(q, x)
  BY <1>1, SequenceEmptyOrAppend
<1>3. Last(st.e) = x
  <2>1. Len(Append(q, x)) = Len(q) + 1 /\ Append(q, x)[Len(q) + 1] = x
    OBVIOUS
  <2> QED BY <1>2, <2>1 DEF Last
<1>4. x.k = "call" /\ x.rets = n /\ Height(st.e) = n /\ n # Short
  BY <1>1, <1>3 DEF Short
<1>5. Gives(x) = n /\ Takes(x) \in Nat /\ Uses(x) \in Nat
  BY <1>4, TakesGives DEF Gives
<1> DEFINE d == GenExpr(c, q)
           t == Eval(s, q)
           h == Height(q)
<1>6. Grow(h, x) = n /\ r = GenNode(d, x) /\ m = EvalNode(t, x)
  BY <1>2, <1>4, GenMore, EvalMore, HeightMore
<1>7. h # Short
  BY <1>1, <1>5, <1>6 DEF Grow, Short
<1>8. IsContext(c) /\ c.temp \in Nat /\ Len(c.ops) = 0 /\ Above(Len(c.ops), Nat)
  BY EmitsTemp, EmptySeq, AboveAll DEF Agree
<1>9. IsContext(d) /\ d.temp \in Nat
  BY <1>8, ExprTemps
<1>10. d.temp + Uses(x) <= NumTemps
  BY <1>6, <1>9, NodeTemps
<1>11. d.temp <= NumTemps
  BY <1>5, <1>9, <1>10, PirSizes
<1>12. h \in Nat /\ Advances(c, s, Nat, 0, h, d, t)
  BY <1>7, <1>8, <1>11, ExprRight
<1>13. h = Takes(x)
  BY <1>1, <1>4, <1>5, <1>6, <1>12 DEF Grow
<1>14. Advances(c, s, Nat, 0, n, r, m)
  BY <1>1, <1>4, <1>8, ExprRight
<1> HIDE DEF d, t, h
<1>15. Agree(d, t, Nat) /\ Len(d.ops) = h
  BY <1>8, <1>12 DEF Advances
<1>16. Ready(d, t, Nat, x)
  <2>1. TopAgrees(d, Takes(x), Nat)
    BY <1>5, <1>13, <1>15 DEF TopAgrees
  <2> QED BY <1>10, <1>15, <2>1 DEF Ready
<1>17. \A k \in 1 .. n : r.ops[Len(d.ops) - Takes(x) + k] = Temp(d.temp + k - 1)
  <2>1. PICK K : K = Nat
    OBVIOUS
  <2>2. Ready(d, t, K, x)
    BY <1>16, <2>1
  <2>3. \A k \in 1 .. x.rets : GenNode(d, x).ops[Len(d.ops) - Takes(x) + k] = Temp(d.temp + k - 1)
    BY <1>4, <2>2, CallRight
  <2> QED BY <1>4, <1>6, <2>3
<1>18. \A k \in 1 .. n : r.ops[k] = Temp(d.temp + k - 1)
  <2>1. \A k \in 1 .. n : Len(d.ops) - Takes(x) + k = k
    BY <1>1, <1>5, <1>13, <1>15
  <2> QED BY <1>17, <2>1
<1>19. InTemps(r, n)
  BY <1>18, TempsAreNotVars DEF InTemps
<1>20. Reaches(c, r, m)
  BY <1>14, Reached
<1>21. Agree(r, m, Nat) /\ Len(r.ops) = n
  BY <1>1, <1>8, <1>14 DEF Advances
<1> QED BY <1>1, <1>19, <1>20, <1>21

\* The first i of the targets, each with what it gets.
Pair(ls, v, i)  == [l |-> ls[i], ret |-> v[i]]
First(ls, v, i) == [j \in 1 .. i |-> Pair(ls, v, j)]

\* One more pair.
LEMMA FirstMore ==
  ASSUME NEW ls, NEW v
  PROVE  /\ First(ls, v, 0) = <<>>
         /\ \A i \in Nat : \E S : /\ First(ls, v, i) \in Seq(S) /\ Pair(ls, v, i + 1) \in S
                                  /\ First(ls, v, i + 1) = Append(First(ls, v, i), Pair(ls, v, i + 1))
<1> HIDE DEF Pair
<1>1. First(ls, v, 0) = <<>>
  BY DEF First
<1>2. ASSUME NEW i \in Nat
      PROVE  \E S : /\ First(ls, v, i) \in Seq(S) /\ Pair(ls, v, i + 1) \in S
                    /\ First(ls, v, i + 1) = Append(First(ls, v, i), Pair(ls, v, i + 1))
  <2> DEFINE S == {Pair(ls, v, j) : j \in 1 .. i + 1}
             q == First(ls, v, i)
             x == Pair(ls, v, i + 1)
  <2>1. q \in Seq(S) /\ Len(q) = i /\ x \in S
    BY DEF First
  <2>2. IsSeq(First(ls, v, i + 1)) /\ Len(First(ls, v, i + 1)) = i + 1
    BY SeqMade DEF First
  <2>3. IsSeq(Append(q, x)) /\ Len(Append(q, x)) = i + 1
    <3> HIDE DEF S, q, x
    <3>1. Append(q, x) \in Seq(S) /\ Len(Append(q, x)) = i + 1
      BY <2>1
    <3>2. IsSeq(Append(q, x))
      BY <3>1, SeqOver
    <3> QED BY <3>1, <3>2
  <2>4. ASSUME NEW k \in 1 .. i + 1 PROVE First(ls, v, i + 1)[k] = Append(q, x)[k]
    <3>1. First(ls, v, i + 1)[k] = Pair(ls, v, k)
      BY DEF First
    <3>2. k \in 1 .. i => q[k] = Pair(ls, v, k)
      BY DEF First
    <3> HIDE DEF q, x, S
    <3>3. CASE k = i + 1
      BY <2>1, <3>1, <3>3 DEF x
    <3>4. CASE k # i + 1
      BY <2>1, <3>1, <3>2, <3>4
    <3> QED BY <3>3, <3>4
  <2> HIDE DEF S, q, x
  <2>5. First(ls, v, i + 1) = Append(q, x)
    BY <2>2, <2>3, <2>4, SameSeq
  <2> QED BY <2>1, <2>5 DEF q, x
<1> QED BY <1>1, <1>2

\* Every target gets its return: the statement as a whole.
LEMMA MultiRight ==
  ASSUME NEW c, NEW s, Agree(c, s, Nat), c.ops = <<>>, NEW st \in Statements, st.k = "multi",
         GenStatement(c, st).temp <= NumTemps
  PROVE  StatementRight(c, s, st)
<1> DEFINE r    == GenExpr(c, st.e)
           m    == Eval(s, st.e)
           n    == Len(st.ls)
           G(i) == Receiving!Fold(r, First(st.ls, r.ops, i))
           U(i) == Assigning!Fold(m, First(st.ls, m.out, i))
<1>1. st.ls \in Seq(Targets) /\ st.e \in Seq(Nodes) /\ n \in Nat
  BY StatementKinds
<1>2. /\ GenStatement(c, st) = [G(n) EXCEPT !.ops = <<>>]
      /\ Meaning(s, st) = [U(n) EXCEPT !.out = <<>>]
  <2>1. \A v : Pairs(st.ls, v) = First(st.ls, v, n)
    BY DEF Pairs, First, Pair
  <2> HIDE DEF r, m, n
  <2>2. GenStatement(c, st) = [FoldLeft(GenAssignRet, r, Pairs(st.ls, r.ops)) EXCEPT !.ops = <<>>]
    BY DEF GenStatement, GenLoadAssignRets, r
  <2>3. Meaning(s, st) = [FoldLeft(AssignRet, m, Pairs(st.ls, m.out)) EXCEPT !.out = <<>>]
    BY DEF Meaning, m
  <2> QED BY <2>1, <2>2, <2>3, MultiFold
<1>3. IsContext(r) /\ r.temp \in Nat
  <2>1. IsContext(c) /\ c.temp \in Nat
    BY EmitsTemp DEF Agree
  <2> QED BY <1>1, <2>1, ExprTemps
<1>4. n \in Nat /\ r = GenExpr(c, st.e) /\ m = Eval(s, st.e) /\ n = Len(st.ls)
  BY <1>1
<1> HIDE DEF r, m, n
<1>5. G(0) = r /\ U(0) = m
  BY FirstMore, Receiving!FoldNone, Assigning!FoldNone
<1>6. \A i \in Nat : /\ G(i + 1) = GenAssignRet(G(i), Pair(st.ls, r.ops, i + 1))
                     /\ U(i + 1) = AssignRet(U(i), Pair(st.ls, m.out, i + 1))
  <2> SUFFICES ASSUME NEW i \in Nat
               PROVE  /\ G(i + 1) = GenAssignRet(G(i), Pair(st.ls, r.ops, i + 1))
                      /\ U(i + 1) = AssignRet(U(i), Pair(st.ls, m.out, i + 1))
    OBVIOUS
  <2>1. PICK S : /\ First(st.ls, r.ops, i) \in Seq(S) /\ Pair(st.ls, r.ops, i + 1) \in S
                 /\ First(st.ls, r.ops, i + 1)
                      = Append(First(st.ls, r.ops, i), Pair(st.ls, r.ops, i + 1))
    BY FirstMore
  <2>2. PICK R : /\ First(st.ls, m.out, i) \in Seq(R) /\ Pair(st.ls, m.out, i + 1) \in R
                 /\ First(st.ls, m.out, i + 1)
                      = Append(First(st.ls, m.out, i), Pair(st.ls, m.out, i + 1))
    BY FirstMore
  <2>3. G(i + 1) = GenAssignRet(G(i), Pair(st.ls, r.ops, i + 1))
    BY <2>1, Receiving!FoldMore
  <2>4. U(i + 1) = AssignRet(U(i), Pair(st.ls, m.out, i + 1))
    BY <2>2, Assigning!FoldMore
  <2> QED BY <2>3, <2>4
<1> HIDE DEF G, U
<1>7. \A i \in Nat : i < n => st.ls[i + 1] \in Targets /\ Pair(st.ls, r.ops, i + 1).l = st.ls[i + 1]
  <2>1. \A i \in Nat : i < n => i + 1 \in 1 .. n
    BY <1>1
  <2>2. \A k \in 1 .. n : st.ls[k] \in Targets
    BY <1>1, <1>4
  <2> QED BY <2>1, <2>2 DEF Pair
<1> DEFINE T == {i \in Nat : i <= n => IsContext(G(i)) /\ G(i).temp \in Nat}
<1>8. \A i \in Nat : i \in T
  <2>1. 0 \in T
    BY <1>3, <1>5
  <2>2. ASSUME NEW i \in Nat, i \in T PROVE i + 1 \in T
    <3>1. SUFFICES ASSUME i + 1 <= n
                   PROVE  IsContext(G(i + 1)) /\ G(i + 1).temp \in Nat
      OBVIOUS
    <3>2. i < n /\ IsContext(G(i)) /\ G(i).temp \in Nat
      BY <1>4, <2>2, <3>1
    <3>3. Pair(st.ls, r.ops, i + 1).l \in Targets
      BY <1>7, <3>2
    <3> QED BY <1>6, <3>2, <3>3, AssignRetTemps
  <2> HIDE DEF T
  <2> QED BY <2>1, <2>2, Nodewise!Induct
<1>9. /\ G(n).temp <= NumTemps
      /\ \A i \in Nat : i < n /\ G(i + 1).temp <= NumTemps => G(i).temp <= NumTemps
  <2>1. IsContext(G(n)) /\ G(n).temp \in Nat
    BY <1>4, <1>8
  <2>2. G(n).temp <= NumTemps
    BY <1>2, <2>1, KeepTemps
  <2>3. ASSUME NEW i \in Nat, i < n, G(i + 1).temp <= NumTemps PROVE G(i).temp <= NumTemps
    <3>1. IsContext(G(i)) /\ G(i).temp \in Nat /\ Pair(st.ls, r.ops, i + 1).l \in Targets
      BY <1>4, <1>7, <1>8, <2>3
    <3>2. G(i).temp <= G(i + 1).temp /\ G(i + 1).temp \in Nat
      BY <1>6, <3>1, AssignRetTemps
    <3> QED BY <2>3, <3>1, <3>2, PirSizes
  <2> QED BY <2>2, <2>3
<1>10. r.temp <= NumTemps
  <2> DEFINE B == {i \in Nat : i <= n /\ G(i).temp <= NumTemps => r.temp <= NumTemps}
  <2>1. 0 \in B
    BY <1>5
  <2>2. ASSUME NEW i \in Nat, i \in B PROVE i + 1 \in B
    <3>1. SUFFICES ASSUME i + 1 <= n, G(i + 1).temp <= NumTemps PROVE r.temp <= NumTemps
      OBVIOUS
    <3>2. i < n /\ i <= n
      BY <1>4, <3>1
    <3> QED BY <1>9, <2>2, <3>1, <3>2
  <2> HIDE DEF B
  <2>3. n \in B
    BY <1>4, <2>1, <2>2, Nodewise!Induct
  <2> USE DEF B
  <2> QED BY <1>4, <1>9, <2>3
<1>11. /\ Reaches(c, r, m) /\ Agree(r, m, Nat) /\ Len(r.ops) = n /\ InTemps(r, n)
  BY <1>4, <1>10, ReturnsRight
<1>12. Len(r.code) \in Nat
  BY <1>11, EmitsCode DEF Agree
<1> DEFINE A == {i \in Nat : i <= n /\ G(i).temp <= NumTemps => Assigned(r, m, n, i, G(i), U(i))}
<1>13. 0 \in A
  <2>1. n + 0 = n /\ \A k \in Nat : k \in Kept(n, 0) => k \in Nat
    BY <1>4
  <2>2. Agree(r, m, Kept(n, 0))
    <3>1. PICK K : K = Kept(n, 0)
      OBVIOUS
    <3>2. PICK N : N = Nat
      OBVIOUS
    <3>3. \A k \in Nat : k \in K => k \in N
      BY <3>2
    <3>4. Agree(r, m, N)
      BY <1>11, <3>2
    <3>5. Agree(r, m, K)
      BY <3>3, <3>4, AgreeLess
    <3> QED BY <3>1, <3>5
  <2>3. Begins(r.code, r.code)
    BY <1>12 DEF Begins
  <2> QED BY <1>5, <1>11, <2>1, <2>2, <2>3 DEF Assigned
<1>14. ASSUME NEW i \in Nat, i \in A PROVE i + 1 \in A
  <2>1. SUFFICES ASSUME i + 1 <= n, G(i + 1).temp <= NumTemps
                 PROVE  Assigned(r, m, n, i + 1, G(i + 1), U(i + 1))
    OBVIOUS
  <2>2. i < n /\ i <= n
    BY <1>4, <2>1
  <2>3. Assigned(r, m, n, i, G(i), U(i))
    BY <1>9, <1>14, <2>1, <2>2
  <2>4. PICK l \in Targets : l = st.ls[i + 1]
    BY <1>7, <2>2
  <2>5. PICK a : a = Pair(st.ls, r.ops, i + 1)
    OBVIOUS
  <2>6. PICK b : b = Pair(st.ls, m.out, i + 1)
    OBVIOUS
  <2>7. a = [l |-> l, ret |-> r.ops[i + 1]] /\ b = [l |-> l, ret |-> m.out[i + 1]]
    BY <2>4, <2>5, <2>6 DEF Pair
  <2>8. G(i + 1) = GenAssignRet(G(i), a) /\ U(i + 1) = AssignRet(U(i), b)
    BY <1>6, <2>5, <2>6
  <2>9. GenAssignRet(G(i), a).temp <= NumTemps
    BY <2>1, <2>8
  <2> HIDE DEF A
  <2>10. Assigned(r, m, n, i + 1, GenAssignRet(G(i), a), AssignRet(U(i), b))
    BY <1>4, <1>11, <1>12, <2>2, <2>3, <2>7, <2>9, OneRet
  <2> QED BY <2>8, <2>10
<1>15. Assigned(r, m, n, n, G(n), U(n))
  <2> HIDE DEF A
  <2>1. n \in A
    BY <1>4, <1>13, <1>14, Nodewise!Induct
  <2> USE DEF A
  <2> QED BY <1>4, <1>9, <2>1
<1> HIDE DEF A, T
<1>16. /\ Agree(G(n), U(n), Kept(n, n)) /\ Begins(r.code, G(n).code)
  BY <1>15 DEF Assigned
<1>17. Reaches(c, G(n), U(n))
  <2>1. IsContext(G(n)) /\ G(n).temp \in Nat /\ Len(G(n).code) \in Nat
    BY <1>16, EmitsTemp, EmitsCode DEF Agree
  <2>2. Begins(c.code, r.code) /\ Len(c.code) \in Nat
    BY <1>11, EmitsCode DEF Reaches, Agree
  <2>3. Begins(c.code, G(n).code)
    BY <1>12, <1>16, <2>1, <2>2, BeginsOn
  <2>4. Beside(G(n), G(n).code, G(n).temp, Ran(G(n)), U(n))
    BY <1>16, BesideStart
  <2> QED BY <2>1, <2>3, <2>4 DEF Reaches
<1>18. Extends(G(n), G(n), U(n))
  BY <1>17 DEF Reaches, Extends
<1>19. Follows(c, [G(n) EXCEPT !.ops = <<>>], [U(n) EXCEPT !.out = <<>>])
  BY <1>17, <1>18, Close
<1> QED BY <1>2, <1>19 DEF StatementRight

\* Every statement: the two machines agree after it.
LEMMA StatementStep ==
  ASSUME NEW c, NEW s, Agree(c, s, Nat), c.ops = <<>>, NEW st \in Statements,
         GenStatement(c, st).temp <= NumTemps
  PROVE  StatementRight(c, s, st)
<1>1. st.k \in {"assign", "opassign", "incdec", "swap", "multi", "expr"}
  BY StatementKinds
<1>2. CASE st.k = "assign"
  BY <1>2, AssignRight
<1>3. CASE st.k = "opassign"
  BY <1>3, OpAssignRight
<1>4. CASE st.k = "incdec"
  BY <1>4, IncDecRight
<1>5. CASE st.k = "swap"
  BY <1>5, SwapRight
<1>6. CASE st.k = "multi"
  BY <1>6, MultiRight
<1>7. CASE st.k = "expr"
  BY <1>7, ExprStatementRight
<1> QED BY <1>1, <1>2, <1>3, <1>4, <1>5, <1>6, <1>7

\* The expressions of a block's end.
LEMMA EndRight ==
  ASSUME NEW c, NEW s, Agree(c, s, Nat),
         NEW es \in Seq({e \in Seq(Nodes) : Height(e) # Short}),
         NEW d, NEW t, d = FoldLeft(GenExpr, c, es), t = FoldLeft(Eval, s, es),
         d.temp <= NumTemps
  PROVE  Agree(d, t, Nat) /\ Begins(c.code, d.code)
<1> DEFINE Whole   == {e \in Seq(Nodes) : Height(e) # Short}
           G(q)    == Generation!Fold(c, q)
           U(q)    == Evaluations!Fold(s, q)
           Good(q) == Agree(G(q), U(q), Nat) /\ Begins(c.code, G(q).code)
           T       == {q \in Seq(Whole) : /\ IsContext(G(q)) /\ G(q).temp \in Nat
                                          /\ G(q).temp <= NumTemps => Good(q)}
<1>1. d = G(es) /\ t = U(es) /\ es \in Seq(Whole)
  BY EndFold
<1>2. \A e \in Whole : e \in Seq(Nodes) /\ Height(e) # Short
  OBVIOUS
<1>3. IsContext(c) /\ c.temp \in Nat /\ Len(c.code) \in Nat
  BY EmitsTemp, EmitsCode DEF Agree
<1>4. G(<<>>) = c /\ U(<<>>) = s
  BY Generation!FoldNone, Evaluations!FoldNone
<1> HIDE DEF Whole
<1>5. \A q \in Seq(Whole) : \A e \in Whole :
        G(Append(q, e)) = GenExpr(G(q), e) /\ U(Append(q, e)) = Eval(U(q), e)
  BY Generation!FoldMore, Evaluations!FoldMore
<1> HIDE DEF G, U
<1>6. <<>> \in T
  <2>1. Begins(c.code, c.code)
    BY <1>3 DEF Begins
  <2>2. Good(<<>>)
    BY <1>4, <2>1
  <2>3. <<>> \in Seq(Whole)
    OBVIOUS
  <2> HIDE DEF Good
  <2> QED BY <1>3, <1>4, <2>2, <2>3
<1>7. ASSUME NEW q \in Seq(Whole), NEW e \in Whole, q \in T PROVE Append(q, e) \in T
  <2> DEFINE w == Append(q, e)
  <2>1. w \in Seq(Whole) /\ e \in Seq(Nodes) /\ Height(e) # Short
    BY <1>2
  <2>2. G(w) = GenExpr(G(q), e) /\ U(w) = Eval(U(q), e)
    BY <1>5
  <2>3. IsContext(G(q)) /\ G(q).temp \in Nat
    BY <1>7
  <2> HIDE DEF w
  <2>4. IsContext(G(w)) /\ G(w).temp \in Nat /\ G(q).temp <= G(w).temp
    BY <2>1, <2>2, <2>3, ExprTemps
  <2>5. ASSUME G(w).temp <= NumTemps PROVE Good(w)
    <3>1. G(q).temp <= NumTemps
      BY <2>3, <2>4, <2>5, PirSizes
    <3>2. Agree(G(q), U(q), Nat) /\ Begins(c.code, G(q).code)
      BY <1>7, <3>1
    <3>3. Above(Len(G(q).ops), Nat)
      <4>1. Len(G(q).ops) \in Nat
        BY <3>2, SeqLen DEF Agree
      <4> QED BY <4>1, AboveAll
    <3>4. Advances(G(q), U(q), Nat, 0, Height(e), G(w), U(w))
      BY <2>1, <2>2, <2>5, <3>2, <3>3, ExprRight
    <3>5. Agree(G(w), U(w), Nat) /\ Begins(G(q).code, G(w).code)
      BY <3>4 DEF Advances
    <3>6. Len(G(q).code) \in Nat /\ Len(G(w).code) \in Nat
      BY <3>2, <3>5, EmitsCode DEF Agree
    <3>7. Begins(c.code, G(w).code)
      BY <1>3, <3>2, <3>5, <3>6, BeginsOn
    <3> QED BY <3>5, <3>7
  <2> HIDE DEF Good
  <2>6. w \in T
    BY <2>1, <2>4, <2>5
  <2> QED BY <2>6 DEF w
<1>8. es \in T
  <2> HIDE DEF T
  <2> QED BY <1>1, <1>6, <1>7, Nodewise!SeqInduct
<1> QED BY <1>1, <1>8

-----------------------------------------------------------------------------
\* The machines while a block is lowered: they agree on variables and trace,
\* and on every value the operands on the stack stand for; the PIR machine
\* has run all the code of the context.
IInv == /\ prog \in Programs
        /\ at \in 0 .. Len(prog.body) + 1
        /\ Agree(ctx, src, Nat)
        /\ pir = Ran(ctx)
        /\ at <= Len(prog.body) => ctx.ops = <<>>

\* The invariant holds of the empty context.
LEMMA Started == Init => IInv
<1> SUFFICES ASSUME Init PROVE IInv
  OBVIOUS
<1>1. /\ prog \in Programs /\ at = 0 /\ ctx = NewContext /\ src = Start /\ pir = Start
  BY DEF Init
<1>2. Len(prog.body) \in Nat
  BY <1>1, ProgramsChecked
<1>3. Ran(ctx) = Start
  BY <1>1, RunFold, Execution!FoldNone DEF Ran, NewContext
<1>4. IsMachine(Start)
  BY DEF IsMachine, Start
<1>5. CodeRight(<<>>, 0)
  <2>1. 0 \in 0 .. NumTemps /\ DOMAIN <<>> = {} /\ <<>> \in Seq(Instrs)
    BY PirSizes
  <2>2. TempsBelow(0) = {}
    BY DEF TempsBelow
  <2> QED BY <2>1, <2>2 DEF CodeRight
<1>6. Emits(ctx.code, ctx.temp, Ran(ctx))
  BY <1>1, <1>3, <1>4, <1>5 DEF Emits, Ran, NewContext
<1>7. IsContext(ctx) /\ ctx.ops = <<>> /\ IsSeq(ctx.ops) /\ Len(ctx.ops) = 0
  BY <1>1, EmptySeq DEF IsContext, NewContext, IsSeq
<1>8. IsSeq(src.out) /\ Len(src.out) = 0
  BY <1>1, EmptySeq DEF Start, IsSeq
<1>9. Agree(ctx, src, Nat)
  BY <1>1, <1>3, <1>4, <1>6, <1>7, <1>8 DEF Agree
<1> QED BY <1>1, <1>2, <1>3, <1>7, <1>9 DEF IInv

\* The PIR machine goes on from where it was: executing the new code is
\* executing all of it.
LEMMA RunsOn ==
  ASSUME NEW c, NEW s, Agree(c, s, Nat), NEW d, NEW t, Agree(d, t, Nat), Begins(c.code, d.code)
  PROVE  Run(Ran(c), SubSeq(d.code, Len(c.code) + 1, Len(d.code))) = Ran(d)
<1> DEFINE new == SubSeq(d.code, Len(c.code) + 1, Len(d.code))
<1>1. /\ c.code \in Seq(Instrs) /\ Len(c.code) \in Nat
      /\ d.code \in Seq(Instrs) /\ Len(d.code) \in Nat
  BY EmitsCode DEF Agree
<1>2. new \in Seq(Instrs) /\ d.code = c.code \o new
  <2>1. Len(c.code) <= Len(d.code) /\ \A i \in 1 .. Len(c.code) : d.code[i] = c.code[i]
    BY DEF Begins
  <2>2. PICK n \in Nat : n = Len(c.code)
    BY <1>1
  <2>3. PICK m \in Nat : m = Len(d.code)
    BY <1>1
  <2>4. /\ new \in Seq(Instrs) /\ Len(new) = m - n
        /\ \A i \in 1 .. m - n : new[i] = d.code[n + i]
    <3>1. PICK k \in Nat : k = m - n
      <4>1. n <= m
        BY <2>1, <2>2, <2>3
      <4>2. m - n \in Nat
        BY <4>1
      <4> QED BY <4>2
    <3>2. /\ k <= Len(d.code) /\ Len(d.code) - k + 1 = Len(c.code) + 1
          /\ \A i \in 1 .. k : Len(d.code) - k + i = n + i
      <4>1. k <= m /\ m - k + 1 = n + 1 /\ \A i \in 1 .. k : m - k + i = n + i
        BY <3>1
      <4> QED BY <2>2, <2>3, <4>1
    <3>3. IsSeq(d.code)
      BY <1>1, SeqOver
    <3> DEFINE w == SubSeq(d.code, Len(d.code) - k + 1, Len(d.code))
    <3>4. IsSeq(w) /\ Len(w) = k /\ \A i \in 1 .. k : w[i] = d.code[Len(d.code) - k + i]
      BY <3>1, <3>2, <3>3, TopSlice
    <3>5. w = new
      BY <3>2
    <3> HIDE DEF w, new
    <3>6. \A i \in 1 .. k : new[i] = d.code[n + i]
      BY <3>2, <3>4, <3>5
    <3>7. new \in Seq(Instrs)
      <4>1. \A i \in 1 .. k : n + i \in 1 .. m
        BY <3>1
      <4>2. \A i \in 1 .. m : d.code[i] \in Instrs
        BY <1>1, <2>3
      <4>3. \A i \in 1 .. Len(new) : new[i] \in Instrs
        BY <3>4, <3>5, <3>6, <4>1, <4>2
      <4> QED BY <3>4, <3>5, <4>3, SeqIn
    <3> QED BY <3>1, <3>4, <3>5, <3>6, <3>7
  <2> HIDE DEF new
  <2>5. /\ c.code \o new \in Seq(Instrs) /\ Len(c.code \o new) = m
        /\ \A i \in 1 .. m : (c.code \o new)[i] = IF i <= n THEN c.code[i] ELSE new[i - n]
    BY <1>1, <2>1, <2>2, <2>3, <2>4
  <2>6. \A i \in 1 .. m : (c.code \o new)[i] = d.code[i]
    <3> SUFFICES ASSUME NEW i \in 1 .. m PROVE (c.code \o new)[i] = d.code[i]
      OBVIOUS
    <3>1. CASE i <= n
      BY <2>1, <2>2, <2>5, <3>1
    <3>2. CASE ~(i <= n)
      <4>1. i - n \in 1 .. m - n /\ n + (i - n) = i
        BY <3>2
      <4> QED BY <2>4, <2>5, <3>2, <4>1
    <3> QED BY <3>1, <3>2
  <2>7. IsSeq(d.code) /\ IsSeq(c.code \o new)
    BY <1>1, <2>5, SeqOver
  <2> QED BY <2>3, <2>4, <2>5, <2>6, <2>7, SameSeq
<1> HIDE DEF new
<1>3. Run(Start, c.code \o new) = Run(Run(Start, c.code), new)
  BY <1>1, <1>2, RunBoth
<1> QED BY <1>2, <1>3 DEF Ran, new

\* Every statement, and the end, keep the invariant.
LEMMA StepKept == IInv /\ [Next]_vars => IInv'
<1> SUFFICES ASSUME IInv, [Next]_vars PROVE IInv'
  OBVIOUS
<1>1. /\ prog \in Programs /\ at \in 0 .. Len(prog.body) + 1 /\ Agree(ctx, src, Nat)
      /\ pir = Ran(ctx)
      /\ at <= Len(prog.body) => ctx.ops = <<>>
  BY DEF IInv
<1>2. prog.body \in Seq(Statements) /\ Len(prog.body) \in Nat /\ prog.end \in Ends
  BY <1>1, ProgramsChecked
<1>3. CASE LowerStatement
  <2>1. /\ at < Len(prog.body) /\ Fits(GenStatement(ctx, prog.body[at + 1]))
        /\ ctx' = GenStatement(ctx, prog.body[at + 1])
        /\ src' = Meaning(src, prog.body[at + 1])
        /\ pir' = Run(pir, NewCode) /\ at' = at + 1 /\ prog' = prog
    BY <1>3 DEF LowerStatement
  <2>2. prog.body[at + 1] \in Statements /\ ctx.ops = <<>>
    <3>1. at + 1 \in 1 .. Len(prog.body) /\ at <= Len(prog.body)
      BY <1>1, <1>2, <2>1
    <3> QED BY <1>1, <1>2, <3>1
  <2>3. StatementRight(ctx, src, prog.body[at + 1])
    BY <1>1, <2>1, <2>2, StatementStep DEF Fits
  <2>4. Agree(ctx', src', Nat) /\ ctx'.ops = <<>> /\ Begins(ctx.code, ctx'.code)
    BY <2>1, <2>3 DEF StatementRight, Follows
  <2>5. pir' = Ran(ctx')
    BY <1>1, <2>1, <2>4, RunsOn DEF NewCode
  <2> QED BY <1>1, <1>2, <2>1, <2>4, <2>5 DEF IInv
<1>4. CASE LowerEnd
  <2>1. /\ at = Len(prog.body) /\ Fits(FoldLeft(GenExpr, ctx, prog.end.es))
        /\ ctx' = FoldLeft(GenExpr, ctx, prog.end.es)
        /\ src' = FoldLeft(Eval, src, prog.end.es)
        /\ pir' = Run(pir, NewCode) /\ at' = at + 1 /\ prog' = prog
    BY <1>4 DEF LowerEnd
  <2>2. prog.end.es \in Seq({e \in Seq(Nodes) : Height(e) # Short})
    BY <1>2 DEF Ends
  <2>3. Agree(ctx', src', Nat) /\ Begins(ctx.code, ctx'.code)
    BY <1>1, <2>1, <2>2, EndRight DEF Fits
  <2>4. pir' = Ran(ctx')
    BY <1>1, <2>1, <2>3, RunsOn DEF NewCode
  <2> QED BY <1>1, <1>2, <2>1, <2>3, <2>4 DEF IInv
<1>5. CASE Lowered \/ UNCHANGED vars
  BY <1>1, <1>5 DEF Lowered, vars, IInv, Ran
<1> QED BY <1>3, <1>4, <1>5 DEF Next

\* The invariant holds while genBlock lowers the statements of a block.
THEOREM Lowers == Spec => []IInv
BY Started, StepKept, PTL DEF Spec

\* What the invariant says of the properties.
LEMMA MeaningKept == IInv => SameMeaning
<1> SUFFICES ASSUME IInv PROVE SameMeaning
  OBVIOUS
<1>1. Agree(ctx, src, Nat) /\ pir = Ran(ctx)
  BY DEF IInv
<1>2. /\ pir.trace = src.trace /\ \A v \in Locals \cup Args : pir.env[v] = src.env[v]
      /\ IsSeq(ctx.ops) /\ IsSeq(src.out) /\ Len(src.out) = Len(ctx.ops)
      /\ \A k \in 1 .. Len(ctx.ops) : k \in Nat => src.out[k] = Value(pir, ctx.ops[k])
  BY <1>1 DEF Agree
<1> DEFINE vals == [k \in DOMAIN ctx.ops |-> Value(pir, ctx.ops[k])]
<1>3. vals = src.out
  <2>1. DOMAIN ctx.ops = 1 .. Len(ctx.ops) /\ Len(ctx.ops) \in Nat
    BY <1>2, SeqLen
  <2>2. vals = [k \in 1 .. Len(ctx.ops) |-> vals[k]]
    BY <2>1
  <2>3. \A k \in 1 .. Len(ctx.ops) : vals[k] = src.out[k]
    BY <1>2, <2>1
  <2> HIDE DEF vals
  <2>4. IsSeq(vals) /\ Len(vals) = Len(ctx.ops)
    BY <2>1, <2>2, SeqMade
  <2> QED BY <1>2, <2>3, <2>4, SameSeq
<1> QED BY <1>2, <1>3 DEF SameMeaning

\* The parts of CodeWellFormed are parts of the invariant.
LEMMA CodeKept == IInv => CodeWellFormed
<1> SUFFICES ASSUME IInv PROVE CodeWellFormed
  OBVIOUS
<1>1. at \in 0 .. Len(prog.body) + 1 /\ CodeRight(ctx.code, ctx.temp)
  BY DEF IInv, Agree, Emits
<1>2. TypeOK
  BY <1>1 DEF CodeRight, TypeOK
<1>3. SingleAssignment
  BY <1>1 DEF CodeRight, SingleAssignment, Writes, Reads, TempsBelow
<1> QED BY <1>2, <1>3 DEF CodeWellFormed

\* What linearization emits for a block means what the block means: after
\* every statement the PIR machine and the source machine agree on every
\* variable, and have loaded, stored and called in the same order; at the end
\* they agree on the values the block's flow carries.
THEOREM MeaningPreserved == Spec => []SameMeaning
BY Lowers, MeaningKept, PTL

\* The code is well formed: every instruction has the operands of its kind,
\* and every temporary is assigned once, before it is read.
THEOREM CodeAlwaysWellFormed == Spec => []CodeWellFormed
BY Lowers, CodeKept, PTL
=============================================================================

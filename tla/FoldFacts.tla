----------------------------- MODULE FoldFacts -----------------------------
(***************************************************************************)
(* What a left fold computes, for any operator and any sequence: the       *)
(* equations that FoldLeft of the community modules is used by.  The       *)
(* module is instantiated with the operator that is folded; the instance's *)
(* Fold is FoldLeft with the definitions of its library written out.  And  *)
(* what a function defined by recursion on a number gives, which is how    *)
(* ImportRules follows imports and SequencesExt flattens.                  *)
(***************************************************************************)
EXTENDS Integers, Sequences, SequenceTheorems, WellFoundedInduction, TLAPS

CONSTANT Op(_, _)

Largest(S) == CHOOSE x \in S : \A y \in S : x >= y

Table(f, base, q, D) ==
  f = [s \in SUBSET D |->
         IF s = {} THEN base
         ELSE LET x == Largest(s) IN Op(f[s \ {x}], q[x])]

Fold(base, q) == (CHOOSE f : Table(f, base, q, DOMAIN q))[DOMAIN q]

-----------------------------------------------------------------------------
\* Induction on the natural numbers, for a set of them.

Below == {p \in Nat \X Nat : p[1] < p[2]}

LEMMA BelowWF == IsWellFoundedOn(Below, Nat)
<1>1. OpToRel(<, Nat) = Below
  BY DEF OpToRel, Below
<1> QED BY <1>1, NatLessThanWellFounded

\* A set of numbers has a least one.
LEMMA Least ==
  ASSUME NEW S, S \subseteq Nat, S # {}
  PROVE  \E n \in S : \A m \in S : n <= m
<1>1. PICK x \in S : \A y \in S : ~(<<y, x>> \in Below)
  BY BelowWF, WFMin
<1>2. ASSUME NEW y \in S PROVE x <= y
  <2>1. <<y, x>> \notin Below
    BY <1>1
  <2>2. x \in Nat /\ y \in Nat
    OBVIOUS
  <2>3. ~(y < x)
    BY <2>1, <2>2 DEF Below
  <2> QED BY <2>2, <2>3
<1> QED BY <1>2

\* A set with zero, and with the next number of each, has all of them.
LEMMA Induct ==
  ASSUME NEW S, 0 \in S, \A n \in Nat : n \in S => n + 1 \in S
  PROVE  \A n \in Nat : n \in S
<1> DEFINE T == {n \in Nat : n \notin S}
<1>1. SUFFICES ASSUME T # {} PROVE FALSE
  OBVIOUS
<1>2. PICK n \in T : \A m \in T : n <= m
  <2>1. T \subseteq Nat
    OBVIOUS
  <2> HIDE DEF T
  <2> QED BY <1>1, <2>1, Least
<1>3. n # 0 /\ n \in Nat
  OBVIOUS
<1>4. n - 1 \in Nat /\ n = (n - 1) + 1
  BY <1>3
<1>5. n - 1 \in S
  BY <1>2, <1>4
<1> QED BY <1>2, <1>4, <1>5

-----------------------------------------------------------------------------
\* The recursive function of a fold exists, and its values on the initial
\* segments of the sequence are the partial results.

LEMMA LargestAdded ==
  ASSUME NEW k \in Nat, NEW s \in SUBSET (1 .. k + 1), k + 1 \in s
  PROVE  Largest(s) = k + 1
<1>1. \A y \in s : k + 1 >= y
  OBVIOUS
<1>2. \A x \in s : (\A y \in s : x >= y) => x = k + 1
  OBVIOUS
<1> QED BY <1>1, <1>2 DEF Largest

LEMMA LargestIn ==
  ASSUME NEW k \in Nat, NEW s \in SUBSET (1 .. k), s # {}
  PROVE  Largest(s) \in s
<1> DEFINE P(j) == \A u \in SUBSET (1 .. j) : u # {} => Largest(u) \in u
           S    == {j \in Nat : P(j)}
<1>1. 0 \in S
  <2>1. \A u \in SUBSET (1 .. 0) : u = {}
    OBVIOUS
  <2> QED BY <2>1
<1>2. ASSUME NEW j \in Nat, j \in S PROVE j + 1 \in S
  <2>1. ASSUME NEW u \in SUBSET (1 .. j + 1), u # {} PROVE Largest(u) \in u
    <3>1. CASE j + 1 \in u
      BY <3>1, LargestAdded
    <3>2. CASE j + 1 \notin u
      BY <3>2, <1>2, <2>1
    <3> QED BY <3>1, <3>2
  <2> QED BY <2>1
<1>3. k \in S
  <2> HIDE DEF S
  <2> QED BY <1>1, <1>2, Induct
<1> QED BY <1>3

LEMMA TableExists ==
  ASSUME NEW n \in Nat, NEW base, NEW q
  PROVE  \E f : Table(f, base, q, 1 .. n)
<1> DEFINE S == {k \in Nat : \E f : Table(f, base, q, 1 .. k)}
<1>1. 0 \in S
  <2> DEFINE f == [s \in SUBSET (1 .. 0) |-> base]
  <2>1. Table(f, base, q, 1 .. 0)
    <3>1. \A s \in SUBSET (1 .. 0) : s = {}
      OBVIOUS
    <3> QED BY <3>1 DEF Table
  <2> HIDE DEF f
  <2> QED BY <2>1
<1>2. ASSUME NEW k \in Nat, k \in S PROVE k + 1 \in S
  <2>1. PICK f : Table(f, base, q, 1 .. k)
    BY <1>2
  <2> DEFINE g == [s \in SUBSET (1 .. k + 1) |->
                     IF k + 1 \in s THEN Op(f[s \ {k + 1}], q[k + 1]) ELSE f[s]]
  <2>2. ASSUME NEW s \in SUBSET (1 .. k + 1)
        PROVE  g[s] = IF s = {} THEN base
                      ELSE LET x == Largest(s) IN Op(g[s \ {x}], q[x])
    <3>1. CASE k + 1 \in s
      <4>1. Largest(s) = k + 1 /\ s # {}
        BY <3>1, LargestAdded
      <4>2. s \ {k + 1} \in SUBSET (1 .. k + 1) /\ k + 1 \notin s \ {k + 1}
        OBVIOUS
      <4>3. g[s \ {k + 1}] = f[s \ {k + 1}]
        BY <4>2
      <4>4. g[s] = Op(f[s \ {k + 1}], q[k + 1])
        BY <3>1
      <4> HIDE DEF g
      <4> QED BY <4>1, <4>3, <4>4
    <3>2. CASE k + 1 \notin s
      <4>1. s \in SUBSET (1 .. k)
        BY <3>2
      <4>2. g[s] = f[s]
        BY <3>2
      <4>3. f[s] = IF s = {} THEN base
                   ELSE LET x == Largest(s) IN Op(f[s \ {x}], q[x])
        BY <2>1, <4>1 DEF Table
      <4>4. s # {} => g[s \ {Largest(s)}] = f[s \ {Largest(s)}]
        <5>1. \A u \in SUBSET (1 .. k) : g[u] = f[u]
          OBVIOUS
        <5>2. s \ {Largest(s)} \in SUBSET (1 .. k)
          BY <4>1
        <5> HIDE DEF g
        <5> QED BY <5>1, <5>2
      <4> HIDE DEF g
      <4> QED BY <4>2, <4>3, <4>4
    <3> QED BY <3>1, <3>2
  <2>3. Table(g, base, q, 1 .. k + 1)
    <3> DEFINE G(s) == IF s = {} THEN base
                       ELSE LET x == Largest(s) IN Op(g[s \ {x}], q[x])
    <3>1. \A s \in SUBSET (1 .. k + 1) : g[s] = G(s)
      BY <2>2
    <3>2. g = [s \in SUBSET (1 .. k + 1) |-> g[s]]
      OBVIOUS
    <3> HIDE DEF g
    <3>3. g = [s \in SUBSET (1 .. k + 1) |-> G(s)]
      <4> HIDE DEF G
      <4> QED BY <3>1, <3>2
    <3> QED BY <3>3 DEF Table
  <2> HIDE DEF g
  <2>4. k + 1 \in Nat
    OBVIOUS
  <2> QED BY <2>3, <2>4
<1> HIDE DEF S
<1>3. n \in S
  BY <1>1, <1>2, Induct
<1> USE DEF S
<1> QED BY <1>3

\* The partial results of a fold.
Partial(h, base, q, n) ==
  /\ h[0] = base
  /\ \A j \in 1 .. n : h[j] = Op(h[j - 1], q[j])

\* A fold is the last of its partial results.
LEMMA FoldPartial ==
  ASSUME NEW n \in Nat, NEW base, NEW q, DOMAIN q = 1 .. n
  PROVE  \E h : Partial(h, base, q, n) /\ Fold(base, q) = h[n]
<1> DEFINE f == CHOOSE g : Table(g, base, q, 1 .. n)
           h == [j \in 0 .. n |-> f[1 .. j]]
<1>1. Table(f, base, q, 1 .. n)
  BY TableExists
<1>2. Fold(base, q) = f[1 .. n]
  BY DEF Fold
<1> HIDE DEF f
<1>3. f[{}] = base
  BY <1>1 DEF Table
<1>4. ASSUME NEW j \in 1 .. n PROVE f[1 .. j] = Op(f[1 .. j - 1], q[j])
  <2>1. 1 .. j \in SUBSET (1 .. n) /\ 1 .. j # {}
    <3>1. j \in 1 .. j /\ \A k \in 1 .. j : k \in 1 .. n
      OBVIOUS
    <3> QED BY <3>1
  <2>2. Largest(1 .. j) = j
    <3>1. PICK k \in Nat : j = k + 1
      <4>1. j - 1 \in Nat /\ j = (j - 1) + 1
        OBVIOUS
      <4> QED BY <4>1
    <3>2. 1 .. j \in SUBSET (1 .. k + 1) /\ k + 1 \in 1 .. j
      BY <3>1
    <3> QED BY <3>1, <3>2, LargestAdded
  <2>3. (1 .. j) \ {j} = 1 .. j - 1
    OBVIOUS
  <2> QED BY <1>1, <2>1, <2>2, <2>3 DEF Table
<1>5. h[0] = base /\ h[n] = f[1 .. n]
  BY <1>3
<1>6. ASSUME NEW j \in 1 .. n PROVE h[j] = Op(h[j - 1], q[j])
  <2>1. h[j] = f[1 .. j] /\ h[j - 1] = f[1 .. j - 1]
    OBVIOUS
  <2> HIDE DEF h
  <2> QED BY <2>1, <1>4
<1> HIDE DEF h
<1> QED BY <1>2, <1>5, <1>6 DEF Partial

\* Two folds that start alike agree as long as the sequences do.
LEMMA SamePartial ==
  ASSUME NEW m \in Nat, NEW base, NEW q, NEW r, NEW g, NEW h,
         Partial(g, base, q, m), Partial(h, base, r, m),
         \A j \in 1 .. m : q[j] = r[j]
  PROVE  g[m] = h[m]
<1> DEFINE S == {k \in Nat : k <= m => g[k] = h[k]}
<1>1. 0 \in S
  BY DEF Partial
<1>2. ASSUME NEW k \in Nat, k \in S PROVE k + 1 \in S
  <2>1. SUFFICES ASSUME k + 1 <= m PROVE g[k + 1] = h[k + 1]
    OBVIOUS
  <2>2. k + 1 \in 1 .. m /\ (k + 1) - 1 = k /\ g[k] = h[k]
    BY <1>2, <2>1
  <2>3. g[k + 1] = Op(g[k], q[k + 1]) /\ h[k + 1] = Op(h[k], r[k + 1])
    BY <2>2 DEF Partial
  <2> QED BY <2>2, <2>3
<1> HIDE DEF S
<1>3. m \in S
  BY <1>1, <1>2, Induct
<1> USE DEF S
<1> QED BY <1>3

-----------------------------------------------------------------------------
\* The equations of a left fold.

\* A fold over nothing.
LEMMA FoldNone ==
  ASSUME NEW base
  PROVE  Fold(base, <<>>) = base
<1>1. DOMAIN <<>> = 1 .. 0
  OBVIOUS
<1>2. PICK h : Partial(h, base, <<>>, 0) /\ Fold(base, <<>>) = h[0]
  BY <1>1, FoldPartial
<1> QED BY <1>2 DEF Partial

\* A fold over one element more.
LEMMA FoldMore ==
  ASSUME NEW S, NEW q \in Seq(S), NEW x \in S, NEW base
  PROVE  Fold(base, Append(q, x)) = Op(Fold(base, q), x)
<1> DEFINE r == Append(q, x)
           n == Len(q)
<1>1. n \in Nat /\ DOMAIN q = 1 .. n /\ DOMAIN r = 1 .. n + 1 /\ n + 1 \in Nat
      /\ r[n + 1] = x /\ \A j \in 1 .. n : r[j] = q[j]
  BY AppendProperties, LenProperties
<1> HIDE DEF r, n
<1>2. PICK g : Partial(g, base, q, n) /\ Fold(base, q) = g[n]
  BY <1>1, FoldPartial
<1>3. PICK h : Partial(h, base, r, n + 1) /\ Fold(base, r) = h[n + 1]
  BY <1>1, FoldPartial
<1>4. Partial(h, base, r, n)
  BY <1>1, <1>3 DEF Partial
<1>5. h[n] = g[n]
  BY <1>1, <1>2, <1>4, SamePartial
<1>6. h[n + 1] = Op(h[n], x)
  BY <1>1, <1>3 DEF Partial
<1> QED BY <1>2, <1>3, <1>5, <1>6 DEF r

\* Induction on sequences.
LEMMA SeqInduct ==
  ASSUME NEW S, NEW T, <<>> \in T,
         \A q \in Seq(S) : \A x \in S : q \in T => Append(q, x) \in T
  PROVE  \A q \in Seq(S) : q \in T
<1> DEFINE U == {n \in Nat : \A q \in Seq(S) : Len(q) = n => q \in T}
<1>1. 0 \in U
  BY EmptySeq
<1>2. ASSUME NEW n \in Nat, n \in U PROVE n + 1 \in U
  <2>1. ASSUME NEW t \in Seq(S), Len(t) = n + 1 PROVE t \in T
    <3>1. t # <<>>
      BY <2>1, EmptySeq
    <3>2. PICK q \in Seq(S), x \in S : t = Append(q, x)
      BY <3>1, SequenceEmptyOrAppend
    <3>3. Len(t) = Len(q) + 1 /\ Len(q) \in Nat
      BY <3>2, AppendProperties, LenProperties
    <3>4. Len(q) = n
      BY <2>1, <3>3
    <3> QED BY <1>2, <3>2, <3>4
  <2> QED BY <2>1
<1> HIDE DEF U
<1>3. \A n \in Nat : n \in U
  BY <1>1, <1>2, Induct
<1> USE DEF U
<1> QED BY <1>3, LenProperties

\* A fold of two sequences, one after the other.
LEMMA FoldBoth ==
  ASSUME NEW S, NEW q \in Seq(S), NEW r \in Seq(S), NEW base
  PROVE  Fold(base, q \o r) = Fold(Fold(base, q), r)
<1> DEFINE T == {t \in Seq(S) : Fold(base, q \o t) = Fold(Fold(base, q), t)}
<1>1. <<>> \in T
  BY FoldNone, ConcatEmptySeq
<1>2. ASSUME NEW t \in Seq(S), NEW x \in S, t \in T PROVE Append(t, x) \in T
  <2>1. q \o Append(t, x) = Append(q \o t, x) /\ q \o t \in Seq(S) /\ Append(t, x) \in Seq(S)
    OBVIOUS
  <2>2. Fold(base, Append(q \o t, x)) = Op(Fold(base, q \o t), x)
    BY <2>1, FoldMore
  <2>3. Fold(Fold(base, q), Append(t, x)) = Op(Fold(Fold(base, q), t), x)
    BY FoldMore
  <2> QED BY <1>2, <2>1, <2>2, <2>3
<1> HIDE DEF T
<1>3. \A t \in Seq(S) : t \in T
  BY <1>1, <1>2, SeqInduct
<1> QED BY <1>3 DEF T

-----------------------------------------------------------------------------
\* A function defined by recursion on the integers from lo on exists.

Stepwise(g, lo, hi, base, q) ==
  /\ g[lo] = base
  /\ \A n \in lo + 1 .. hi : g[n] = Op(g[n - 1], q[n])

\* Its values on an initial segment exist...
LEMMA StepwiseExists ==
  ASSUME NEW lo \in Int, NEW k \in Nat, NEW base, NEW q
  PROVE  \E g : Stepwise(g, lo, lo + k, base, q)
<1> DEFINE S == {j \in Nat : \E g : Stepwise(g, lo, lo + j, base, q)}
<1>1. 0 \in S
  <2> DEFINE g == [n \in {lo} |-> base]
  <2>1. Stepwise(g, lo, lo + 0, base, q)
    <3>1. g[lo] = base /\ \A n \in lo + 1 .. lo + 0 : FALSE
      OBVIOUS
    <3> HIDE DEF g
    <3> QED BY <3>1 DEF Stepwise
  <2> HIDE DEF g
  <2> QED BY <2>1
<1>2. ASSUME NEW j \in Nat, j \in S PROVE j + 1 \in S
  <2>1. PICK g : Stepwise(g, lo, lo + j, base, q)
    BY <1>2
  <2> DEFINE last == lo + (j + 1)
             h == [n \in lo .. last |-> IF n = last THEN Op(g[n - 1], q[n]) ELSE g[n]]
  <2>2. last \in Int /\ lo # last /\ lo \in lo .. last /\ last - 1 = lo + j
    OBVIOUS
  <2>3. \A n \in lo .. last : h[n] = IF n = last THEN Op(g[n - 1], q[n]) ELSE g[n]
    OBVIOUS
  <2> HIDE DEF h
  <2>4. h[lo] = base
    BY <2>1, <2>2, <2>3 DEF Stepwise
  <2>5. ASSUME NEW n \in lo + 1 .. last PROVE h[n] = Op(h[n - 1], q[n])
    <3>1. n \in lo .. last /\ n - 1 \in lo .. last /\ n - 1 # last
      BY <2>2
    <3>2. h[n - 1] = g[n - 1]
      BY <2>3, <3>1
    <3>3. CASE n = last
      BY <2>3, <3>1, <3>2, <3>3
    <3>4. CASE n # last
      <4>1. n \in lo + 1 .. lo + j
        BY <2>2, <3>4
      <4> HIDE DEF last
      <4> QED BY <2>1, <2>3, <3>1, <3>2, <3>4, <4>1 DEF Stepwise
    <3> QED BY <3>3, <3>4
  <2>6. Stepwise(h, lo, last, base, q)
    <3> HIDE DEF last
    <3> QED BY <2>4, <2>5 DEF Stepwise
  <2>7. j + 1 \in Nat
    OBVIOUS
  <2> QED BY <2>6, <2>7
<1> HIDE DEF S
<1>3. k \in S
  BY <1>1, <1>2, Induct
<1> USE DEF S
<1> QED BY <1>3

\* ... and are determined.
LEMMA StepwiseSame ==
  ASSUME NEW lo \in Int, NEW k \in Nat, NEW base, NEW q, NEW g, NEW h,
         Stepwise(g, lo, lo + k, base, q), Stepwise(h, lo, lo + k, base, q)
  PROVE  g[lo + k] = h[lo + k]
<1> DEFINE S == {j \in Nat : j <= k => g[lo + j] = h[lo + j]}
<1>1. 0 \in S
  BY DEF Stepwise
<1>2. ASSUME NEW j \in Nat, j \in S PROVE j + 1 \in S
  <2>1. SUFFICES ASSUME j + 1 <= k PROVE g[lo + (j + 1)] = h[lo + (j + 1)]
    OBVIOUS
  <2> DEFINE n == lo + (j + 1)
  <2>2. n \in lo + 1 .. lo + k /\ n - 1 = lo + j /\ g[lo + j] = h[lo + j]
    BY <1>2, <2>1
  <2> HIDE DEF n
  <2>3. g[n] = Op(g[n - 1], q[n]) /\ h[n] = Op(h[n - 1], q[n])
    BY <2>2 DEF Stepwise
  <2>4. g[n] = h[n]
    BY <2>2, <2>3
  <2> QED BY <2>4 DEF n
<1> HIDE DEF S
<1>3. k \in S
  BY <1>1, <1>2, Induct
<1> USE DEF S
<1> QED BY <1>3

Segment(lo, D) == \A n \in D : n \in Int /\ n >= lo /\ (n # lo => n - 1 \in D)

Recursion(f, lo, base, q, D) ==
  /\ f = [n \in D |-> f[n]]
  /\ \A n \in D : f[n] = IF n = lo THEN base ELSE Op(f[n - 1], q[n])

LEMMA RecursionExists ==
  ASSUME NEW lo \in Int, NEW D, Segment(lo, D), NEW base, NEW q
  PROVE  \E f : Recursion(f, lo, base, q, D)
<1> DEFINE Good(g, n) == Stepwise(g, lo, n, base, q)
           f == [n \in D |-> (CHOOSE g : Good(g, n))[n]]
<1> USE DEF Segment
<1>0. ASSUME NEW n \in D PROVE \E k \in Nat : n = lo + k
  <2>1. n \in Int /\ n >= lo
    OBVIOUS
  <2>2. n - lo \in Nat /\ n = lo + (n - lo)
    BY <2>1
  <2> QED BY <2>2
<1>1. ASSUME NEW n \in D PROVE \E g : Good(g, n)
  <2>1. PICK k \in Nat : n = lo + k
    BY <1>0
  <2>2. \E g : Good(g, lo + k)
    BY StepwiseExists
  <2> QED BY <2>1, <2>2
<1>2. ASSUME NEW n \in D, NEW g, Good(g, n) PROVE f[n] = g[n]
  <2> DEFINE h == CHOOSE h : Good(h, n)
  <2>1. Good(h, n)
    BY <1>1
  <2>2. f[n] = h[n]
    OBVIOUS
  <2> HIDE DEF h, f
  <2>3. PICK k \in Nat : n = lo + k
    BY <1>0
  <2>4. Good(h, lo + k) /\ Good(g, lo + k)
    BY <1>2, <2>1, <2>3
  <2>5. h[lo + k] = g[lo + k]
    BY <2>4, StepwiseSame
  <2> QED BY <2>2, <2>3, <2>5
<1>3. ASSUME NEW n \in D PROVE f[n] = IF n = lo THEN base ELSE Op(f[n - 1], q[n])
  <2>1. PICK g : Good(g, n)
    BY <1>1
  <2>2. f[n] = g[n]
    BY <1>2, <2>1
  <2> HIDE DEF f
  <2>3. CASE n = lo
    BY <2>1, <2>2, <2>3 DEF Stepwise
  <2>4. CASE n # lo
    <3>1. n - 1 \in D /\ n \in lo + 1 .. n
      BY <2>4
    <3>2. Good(g, n - 1)
      <4>1. lo + 1 .. n - 1 \subseteq lo + 1 .. n
        OBVIOUS
      <4> QED BY <2>1, <4>1 DEF Stepwise
    <3>3. f[n - 1] = g[n - 1]
      BY <1>2, <3>1, <3>2
    <3>4. g[n] = Op(g[n - 1], q[n])
      BY <2>1, <3>1 DEF Stepwise
    <3> QED BY <2>2, <2>4, <3>3, <3>4
  <2> QED BY <2>3, <2>4
<1>4. f = [n \in D |-> f[n]]
  OBVIOUS
<1> HIDE DEF f
<1> QED BY <1>3, <1>4 DEF Recursion
=============================================================================
